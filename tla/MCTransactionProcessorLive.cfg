\* Two instances, one failing statement, one crash or rebalance: a request is
\* reported, and its row published or given up.
SPECIFICATION FairSpec
CONSTANTS
    t1 = t1
    t2 = t2
    i1 = i1
    i2 = i2
    a1 = a1
    TxIds = {t1}
    NoTx = NoTx
    AccountIds = {a1}
    UnknownAccount = UnknownAccount
    Currencies = {"EUR"}
    MaxInt = 7
    Opening <- MCOpening
    Requests <- MCRequests
    Instances = {i1, i2}
    NoInstance = NoInstance
    Stamps = {1}
    MaxFaults = 1
    BatchSize = 1
    MaxRetryAttempts = 2
    MaxCopies = 1
    MaxDisruptions = 1
INVARIANT GivesUpOnlyAfterMaxAttempts
PROPERTIES
    EventuallyReported
    RetriesEnd
    EveryCallReturns
