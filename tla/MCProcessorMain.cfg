\* Three messages, a failing call, a task that panics, two signals or crashes.
\* When every message is handled the consumer waits for a signal that need not come.
SPECIFICATION FairMainSpec
CONSTANTS
    Topics <- MCTopics
    MaxFailures = 1
    MaxPanics = 1
    MaxTerminations = 2
INVARIANTS
    MainTypeOK
    NothingVanishes
    ShutdownLosesNothing
PROPERTIES
    ShutdownCompletes
    HandledUnlessHanging
CHECK_DEADLOCK FALSE
