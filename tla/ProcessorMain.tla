---------------------------- MODULE ProcessorMain ----------------------------
(***************************************************************************)
(* One process of the transaction processor from start to exit             *)
(* (cmd/transaction_processor/main.go): the goroutine of the consumer with  *)
(* its handler and the dead letter producer, the task it has in the worker  *)
(* pool, and the shutdown sequence of main.  Transactions are seen from     *)
(* here only by what becomes of their message; Processing has the rest.     *)
(***************************************************************************)
EXTENDS Naturals, Sequences

CONSTANTS
    Topics,          \* the contents the partition may have
    MaxFailures,     \* bound on the calls to Kafka and the databases that fail
    MaxPanics,       \* bound on the tasks that panic
    MaxTerminations  \* bound on signals plus crashes

\* A request is accepted or refused by its account; a malformed message is none.
Kinds == {"accepted", "refused", "malformed"}

ASSUME ProcessorMainAssumption ==
    /\ Topics \subseteq Seq(Kinds)
    /\ MaxFailures \in Nat /\ MaxPanics \in Nat /\ MaxTerminations \in Nat

VARIABLES
    topic,         \* the messages of the partition
    committed,     \* how many messages the committed offset of the group has passed
    settled,       \* messages whose transaction is applied or recorded as failed
    deadLetters,   \* messages in the dead letter topic
    logged,        \* messages about which an error was logged
    consumer,      \* the goroutine of Subscribe: next step, messages fetched, message in hand
    task,          \* the task in the pool: next step, connection held, result sent
    stopping,      \* the steps of the shutdown sequence that main has begun
    failures, panics, terminations   \* what may still happen of each

kafkaVars == <<topic, committed>>
outcomeVars == <<settled, deadLetters, logged>>
budgetVars == <<failures, panics, terminations>>
mainVars == <<kafkaVars, outcomeVars, consumer, task, stopping, budgetVars>>

ConsumerPCs == {"loop", "fetch", "deadLetter", "submit", "wait", "commit", "stopped"}
TaskPCs == {"none", "running", "inTx", "sent", "dead"}
ShutdownSteps == {"cancel", "release", "wait", "closeDLQ", "closeConsumer", "closePostgres", "exit"}

NoTask == [pc |-> "none", conn |-> FALSE, reply |-> "none"]
Starting(offset) == [pc |-> "loop", next |-> offset, current |-> 0]

Began(step) == step \in stopping
Cancelled == Began("cancel")   \* appCtx, which every call of the consumer carries
Exited == Began("exit")

Works == UNCHANGED failures
\* A call fails by itself, or because its context is cancelled.
Breaks == \/ failures > 0 /\ failures' = failures - 1
          \/ Cancelled /\ UNCHANGED failures

Continue(pc) == consumer' = [consumer EXCEPT !.pc = pc]
LogError == logged' = logged \cup {consumer.current}

\* The context is checked before the next message is fetched; and a loop that
\* relies on FetchMessage for that.
LoopWithoutSelect ==
    /\ consumer.pc = "loop"
    /\ Continue("fetch")
    /\ UNCHANGED <<kafkaVars, outcomeVars, task, stopping, budgetVars>>
Loop ==
    /\ consumer.pc = "loop" /\ ~Exited
    /\ Continue(IF Cancelled THEN "stopped" ELSE "fetch")
    /\ UNCHANGED <<kafkaVars, outcomeVars, task, stopping, budgetVars>>

\* A loop that ends at the first error.
FetchOrReturn ==
    /\ consumer.pc = "fetch" /\ ~Exited
    /\ \/ /\ Works /\ consumer.next < Len(topic)
          /\ consumer' = [pc |-> IF topic[consumer.next + 1] = "malformed" THEN "deadLetter" ELSE "submit",
                          next |-> consumer.next + 1, current |-> consumer.next + 1]
       \/ Breaks /\ Continue("stopped")
    /\ UNCHANGED <<kafkaVars, outcomeVars, task, stopping, panics, terminations>>

\* FetchMessage and json.Unmarshal of HandleMessage.  A fetch that has a message
\* at hand may return it although the context is cancelled meanwhile.
Fetch ==
    /\ consumer.pc = "fetch" /\ ~Exited
    /\ \/ /\ Works /\ consumer.next < Len(topic) /\ ~Began("closeConsumer")
          /\ consumer' = [pc |-> IF topic[consumer.next + 1] = "malformed" THEN "deadLetter" ELSE "submit",
                          next |-> consumer.next + 1, current |-> consumer.next + 1]
       \/ Breaks /\ Continue(IF Cancelled THEN "stopped" ELSE "loop")
    /\ UNCHANGED <<kafkaVars, outcomeVars, task, stopping, panics, terminations>>

\* PublishToDLQ is synchronous; the message may be in the topic although the
\* write reports an error.  After an error the message is skipped.
DeadLetter ==
    /\ consumer.pc = "deadLetter" /\ ~Exited
    /\ \/ /\ Works /\ ~Began("closeDLQ")
          /\ deadLetters' = deadLetters \cup {consumer.current}
          /\ Continue("commit")
          /\ UNCHANGED logged
       \/ /\ Breaks
          /\ deadLetters' \in {deadLetters, deadLetters \cup {consumer.current}}
          /\ LogError
          /\ Continue("loop")
    /\ UNCHANGED <<kafkaVars, settled, task, stopping, panics, terminations>>

\* A pool service that does not wait for the result.
SubmitAndForget ==
    /\ consumer.pc = "submit" /\ ~Exited
    /\ task' = [NoTask EXCEPT !.pc = "running"]
    /\ Continue("commit")
    /\ UNCHANGED <<kafkaVars, outcomeVars, stopping, budgetVars>>

\* WorkerPoolProcessingService.ProcessTransaction up to the wait for the result.
\* There is one consumer, so the pool always has a free worker; once it is
\* released, Submit is an error, which skips the message.
Submit ==
    /\ consumer.pc = "submit" /\ ~Exited
    /\ \/ /\ ~Began("release")
          /\ task' = [NoTask EXCEPT !.pc = "running"]
          /\ Continue("wait")
          /\ UNCHANGED logged
       \/ Began("release") /\ LogError /\ Continue("loop") /\ UNCHANGED task
    /\ UNCHANGED <<kafkaVars, settled, deadLetters, stopping, budgetVars>>

TakeReply ==
    /\ consumer.pc = "wait" /\ task.pc = "sent" /\ ~Exited
    /\ task' = NoTask
    /\ IF task.reply = "ok" THEN Continue("commit") /\ UNCHANGED logged
                            ELSE Continue("loop") /\ LogError
    /\ UNCHANGED <<kafkaVars, settled, deadLetters, stopping, budgetVars>>

\* The error of CommitMessages is only logged, and may concern the answer only.
CommitOffset ==
    /\ consumer.pc = "commit" /\ ~Exited
    /\ \/ Works /\ ~Began("closeConsumer") /\ committed' = consumer.current
       \/ Breaks /\ committed' \in {committed, consumer.current}
    /\ Continue("loop")
    /\ UNCHANGED <<topic, outcomeVars, task, stopping, panics, terminations>>

ConsumerStep ==
    Loop \/ Fetch \/ DeadLetter \/ Submit \/ TakeReply \/ CommitOffset

-----------------------------------------------------------------------------
(* The task: ProcessTransaction of the base service, for the message the    *)
(* consumer has in hand.                                                    *)

Kind == topic[consumer.current]

\* The base service returns and the task sends the result.
Reply(result) == task' = [pc |-> "sent", conn |-> FALSE, reply |-> result]

Settle == settled' = settled \cup {consumer.current}
MaybeSettle == Settle \/ UNCHANGED settled

Running(pcs) == task.pc \in pcs /\ ~Exited
TaskFrame == UNCHANGED <<kafkaVars, deadLetters, consumer, stopping, panics, terminations>>

\* The ledger has an entry already.
SkipProcessed ==
    /\ Running({"running"}) /\ consumer.current \in settled
    /\ Works /\ Reply("ok")
    /\ UNCHANGED <<settled, logged>> /\ TaskFrame

BeginTx ==
    /\ Running({"running"}) /\ ~Began("closePostgres")
    /\ Works /\ task' = [task EXCEPT !.pc = "inTx", !.conn = TRUE]
    /\ UNCHANGED <<settled, logged>> /\ TaskFrame

\* A statement fails; or the outbox has the transaction, whose ledger entry is
\* still to come.
TaskError ==
    /\ \/ Running({"running", "inTx"}) /\ Breaks
       \/ Running({"inTx"}) /\ consumer.current \in settled /\ Works
    /\ Reply("error")
    /\ UNCHANGED <<settled, logged>> /\ TaskFrame

CommitTx ==
    /\ Running({"inTx"}) /\ Kind = "accepted" /\ consumer.current \notin settled
    /\ \/ Works /\ Settle /\ Reply("ok")
       \/ Breaks /\ MaybeSettle /\ Reply("error")
    /\ UNCHANGED logged /\ TaskFrame

\* RecordFailure, before or inside the database transaction.  Its errors are
\* logged and the call returns nil.
RecordRefusal ==
    /\ Running({"running", "inTx"}) /\ Kind = "refused"
    /\ \/ Works /\ Settle /\ UNCHANGED logged
       \/ Breaks /\ MaybeSettle /\ LogError
    /\ Reply("ok")
    /\ TaskFrame

\* A ProcessTransaction whose deferred function does not recover.
PanicWithoutRollback ==
    /\ Running({"running", "inTx"})
    /\ panics > 0 /\ panics' = panics - 1
    /\ task' = [task EXCEPT !.pc = "dead"]
    /\ UNCHANGED <<kafkaVars, outcomeVars, consumer, stopping, failures, terminations>>

\* The base service rolls back and panics again; the pool recovers the panic.
\* Nothing is ever sent to the channel the consumer waits on.
Panic ==
    /\ Running({"running", "inTx"})
    /\ panics > 0 /\ panics' = panics - 1
    /\ task' = [task EXCEPT !.pc = "dead", !.conn = FALSE]
    /\ UNCHANGED <<kafkaVars, outcomeVars, consumer, stopping, failures, terminations>>

TaskStep == SkipProcessed \/ BeginTx \/ TaskError \/ CommitTx \/ RecordRefusal

-----------------------------------------------------------------------------
(* main *)

\* The step follows the ones begun so far, the last of which has ended.
Begin(step, before) ==
    /\ Began(before) /\ ~Began(step)
    /\ stopping' = stopping \cup {step}
    /\ UNCHANGED <<kafkaVars, outcomeVars, consumer, task, budgetVars>>

Signal ==
    /\ ~Cancelled
    /\ terminations > 0 /\ terminations' = terminations - 1
    /\ stopping' = {"cancel"}
    /\ UNCHANGED <<kafkaVars, outcomeVars, consumer, task, failures, panics>>

ReleasePool == Begin("release", "cancel")

\* The wait group holds the poller and the call of Subscribe, which returned long
\* ago, not the goroutine it started; a timeout ends the wait in any case.
WaitForServices == Begin("wait", "release")
CloseDLQ == Begin("closeDLQ", "wait")
CloseConsumer == Begin("closeConsumer", "closeDLQ")
ClosePostgres == Begin("closePostgres", "closeConsumer")

\* The pool of connections closes when all are returned.  Then MongoDB is closed
\* and main returns: the other goroutines are gone.
Exit ==
    /\ Began("closePostgres") /\ ~Exited /\ ~task.conn
    /\ stopping' = ShutdownSteps
    /\ consumer' = [Starting(0) EXCEPT !.pc = "stopped"]
    /\ task' = NoTask
    /\ UNCHANGED <<kafkaVars, outcomeVars, budgetVars>>

Crash ==
    /\ ~Exited
    /\ terminations > 0 /\ terminations' = terminations - 1
    /\ stopping' = ShutdownSteps
    /\ consumer' = [Starting(0) EXCEPT !.pc = "stopped"]
    /\ task' = NoTask
    /\ UNCHANGED <<kafkaVars, outcomeVars, failures, panics>>

\* A reader that starts behind the message at the committed offset.
StartAfterCommitted ==
    /\ Exited
    /\ stopping' = {}
    /\ consumer' = Starting(committed + 1)
    /\ UNCHANGED <<kafkaVars, outcomeVars, task, budgetVars>>
Start ==
    /\ Exited
    /\ stopping' = {}
    /\ consumer' = Starting(committed)
    /\ UNCHANGED <<kafkaVars, outcomeVars, task, budgetVars>>

ShutdownStep ==
    \/ ReleasePool \/ WaitForServices \/ CloseDLQ \/ CloseConsumer
    \/ ClosePostgres \/ Exit

MainInit ==
    /\ topic \in Topics
    /\ committed = 0
    /\ settled = {} /\ deadLetters = {} /\ logged = {}
    /\ consumer = Starting(0)
    /\ task = NoTask
    /\ stopping = {}
    /\ failures = MaxFailures /\ panics = MaxPanics /\ terminations = MaxTerminations

MainNext ==
    \/ ConsumerStep \/ TaskStep \/ Panic
    \/ Signal \/ ShutdownStep \/ Crash \/ Start

MainSpec == MainInit /\ [][MainNext]_mainVars

\* The goroutines run, and docker-compose.yml restarts a process that is gone.
\* Nothing obliges a call to fail.
FairMainSpec ==
    /\ MainSpec
    /\ WF_mainVars(ConsumerStep /\ Works) /\ WF_mainVars(TaskStep /\ Works)
    /\ WF_mainVars(ShutdownStep) /\ WF_mainVars(Start)

-----------------------------------------------------------------------------
(* Properties *)

MainTypeOK ==
    /\ topic \in Topics
    /\ committed \in 0 .. Len(topic)
    /\ settled \subseteq {n \in DOMAIN topic : topic[n] # "malformed"}
    /\ deadLetters \subseteq {n \in DOMAIN topic : topic[n] = "malformed"}
    /\ logged \subseteq DOMAIN topic
    /\ consumer \in [pc : ConsumerPCs, next : 0 .. Len(topic), current : 0 .. Len(topic)]
    /\ task \in [pc : TaskPCs, conn : BOOLEAN, reply : {"none", "ok", "error"}]
    /\ stopping \subseteq ShutdownSteps
    /\ failures \in 0 .. MaxFailures
    /\ panics \in 0 .. MaxPanics
    /\ terminations \in 0 .. MaxTerminations

Decided(n) == n \in settled \cup deadLetters

\* No message disappears in silence: what the committed offset has passed is
\* applied, recorded, or in the dead letter topic, or an error about it is in the
\* log (consumer.go:81-94, transaction_event_handler.go:45-61), whatever fails,
\* panics, is stopped or crashes in between.
NothingVanishes == \A n \in 1 .. committed : Decided(n) \/ n \in logged

\* As long as nothing has failed, being stopped and started any number of times
\* loses no accepted request and no malformed message: what shutdown cuts off
\* (main.go:119: nobody waits for it) is not committed, nor passed by a commit of
\* the same process.  (It may lose the record of a refused one.)
ShutdownLosesNothing ==
    failures = MaxFailures =>
        \A n \in 1 .. committed : topic[n] # "refused" => Decided(n)

\* A process that is told to stop comes to an end, also when its consumer waits
\* for a task that panicked, and although closing PostgreSQL waits for the
\* connection of the message in hand (main.go:150-198).
ShutdownCompletes == Cancelled ~> Exited

\* The consumer waits for a result that nobody will send.
Hangs == consumer.pc = "wait" /\ task.pc = "dead"

\* Every message is decided or complained about, unless the consumer hangs behind
\* a task that panicked (worker_pool_service.go:99).
HandledUnlessHanging ==
    \A n \in UNION {DOMAIN t : t \in Topics} :
        n \in DOMAIN topic ~> (Decided(n) \/ n \in logged \/ Hangs)
=============================================================================
