--------------------- MODULE TransactionProcessorProofs ---------------------
(***************************************************************************)
(* Theorems about TransactionProcessor, for any number of instances,       *)
(* requests, copies, failing statements, crashes and rebalances.  What the  *)
(* consumer group does is among the things Publication allows, so all that  *)
(* PublicationProofs shows holds of the processor; the rest is about the    *)
(* topic and its committed offset.                                          *)
(***************************************************************************)
EXTENDS TransactionProcessor, PublicationProofs

\* The offset in hand of a busy instance is in the topic.
ReaderOK(i) ==
    /\ reader[i].next <= Len(topic)
    /\ worker[i].pc # "idle" => reader[i].current < Len(topic)

GroupOK ==
    /\ topic \in Seq(TxIds)
    /\ committed \in 0 .. Len(topic)
    /\ owner \in Instances \cup {NoInstance}
    /\ reader \in [Instances -> ReaderRecords]
    /\ disruptions \in 0 .. MaxDisruptions
    /\ \A i \in Instances : ReaderOK(i)

\* The inductive invariant.
ProcessorInv == PubInv /\ GroupOK

-----------------------------------------------------------------------------
(* The group is one way of delivering                                       *)

LEMMA FetchReceives ==
    ASSUME GroupOK, NEW i \in Instances, FetchMessage(i)
    PROVE  topic[reader[i].next + 1] \in TxIds /\ Receive(i, topic[reader[i].next + 1])
<1>1. /\ topic \in Seq(TxIds) /\ reader[i].next \in Nat /\ Len(topic) \in Nat
      /\ reader[i].next < Len(topic)
  BY LenProperties DEF GroupOK, ReaderRecords, FetchMessage
<1>2. \A n \in 1 .. Len(topic) : topic[n] \in TxIds
  BY <1>1
<1> QED BY <1>1, <1>2 DEF FetchMessage

\* What a step does beside the group.
LEMMA StepOfPublication ==
    ASSUME GroupOK, [Next]_vars
    PROVE  [PublicationNext]_publicationVars
<1>1. ASSUME NEW i \in Instances, FetchMessage(i) PROVE PublicationNext
  BY <1>1, FetchReceives DEF PublicationNext
<1>2. ASSUME NEW i \in Instances, ProcessorStep(i) \/ PollStep(i) \/ Crash(i) PROVE PublicationNext
  BY <1>2 DEF ProcessorStep, PollStep, Crash, PublicationNext
<1>3. ASSUME NEW i \in Instances, AfterMessage(i) PROVE PublicationNext
  <2>1. Acknowledge(i)
    BY <1>3 DEF AfterMessage, SkipMessage, CommitMessage, TakeResult, Acknowledge, Succeeds,
                storeVars
  <2> QED BY <2>1 DEF PublicationNext
<1>4. ASSUME \/ \E t \in TxIds : Publish(t)
             \/ \E i \in Instances : Restart(i) \/ Assign(i)
             \/ Revoke \/ UNCHANGED vars
      PROVE  UNCHANGED publicationVars
  BY <1>4 DEF Publish, Restart, Assign, Revoke, vars, storeVars, publicationVars
<1> QED BY <1>1, <1>2, <1>3, <1>4 DEF Next

-----------------------------------------------------------------------------
(* The invariant                                                            *)

\* The facts of the group, when only calls and pollers change.
LEMMA GroupKept ==
    ASSUME GroupOK, UNCHANGED groupVars,
           \A i \in Instances : worker[i].pc = "idle" => worker'[i].pc = "idle"
    PROVE  GroupOK'
<1> QED BY DEF GroupOK, ReaderOK, groupVars

LEMMA FetchMessageKeepsGroup ==
    ASSUME ProcessorInv, NEW i \in Instances, FetchMessage(i)
    PROVE  GroupOK'
<1> DEFINE n == reader[i].next
<1>1. /\ topic \in Seq(TxIds) /\ reader \in [Instances -> ReaderRecords]
      /\ committed \in 0 .. Len(topic) /\ worker \in [Instances -> WorkerRecords]
      /\ n \in Nat /\ Len(topic) \in Nat /\ n < Len(topic)
  BY LenProperties DEF ProcessorInv, PubInv, GroupOK, ReaderRecords, IInv, ProcessingTypeOK,
     FetchMessage
<1>5. reader'[i] = [up |-> reader[i].up, next |-> n + 1, current |-> n]
  BY <1>1 DEF FetchMessage, ReaderRecords
<1>6. reader'[i] \in ReaderRecords /\ reader'[i].next = n + 1 /\ reader'[i].current = n
  <2>1. reader[i].up \in BOOLEAN /\ n + 1 \in Nat
    BY <1>1 DEF ReaderRecords
  <2> QED BY <1>1, <1>5, <2>1 DEF ReaderRecords
<1>7. reader' \in [Instances -> ReaderRecords]
  BY <1>1, <1>6 DEF FetchMessage
<1>8. \A j \in Instances \ {i} : reader'[j] = reader[j] /\ worker'[j] = worker[j]
  BY <1>1 DEF FetchMessage, Receive, Deliver
<1>9. \A j \in Instances : ReaderOK(j)'
  BY <1>1, <1>6, <1>8 DEF ProcessorInv, GroupOK, ReaderOK, FetchMessage
<1> QED BY <1>7, <1>9 DEF ProcessorInv, GroupOK, FetchMessage

LEMMA AfterMessageKeepsGroup ==
    ASSUME ProcessorInv, NEW i \in Instances, AfterMessage(i)
    PROVE  GroupOK'
<1>1. /\ worker[i].pc = "done" /\ worker' = [worker EXCEPT ![i] = IdleWorker]
      /\ UNCHANGED <<topic, owner, reader, disruptions>>
      /\ committed' = committed \/ committed' = reader[i].current + 1
      /\ worker \in [Instances -> WorkerRecords]
  BY DEF AfterMessage, SkipMessage, CommitMessage, TakeResult, groupVars,
         ProcessorInv, PubInv, IInv, ProcessingTypeOK
<1>3. worker'[i].pc = "idle" /\ \A j \in Instances \ {i} : worker'[j] = worker[j]
  BY <1>1 DEF IdleWorker
<1>5. reader[i].current \in Nat /\ reader[i].current < Len(topic) /\ Len(topic) \in Nat
  BY <1>1, LenProperties DEF ProcessorInv, GroupOK, ReaderOK, ReaderRecords
<1>6. committed' \in 0 .. Len(topic)
  BY <1>1, <1>5 DEF ProcessorInv, GroupOK
<1> QED BY <1>1, <1>3, <1>6 DEF ProcessorInv, GroupOK, ReaderOK

LEMMA CrashKeepsGroup ==
    ASSUME ProcessorInv, NEW i \in Instances, Crash(i)
    PROVE  GroupOK'
<1>1. worker' = [worker EXCEPT ![i] = IdleWorker] /\ worker \in [Instances -> WorkerRecords]
  BY DEF Crash, Die, ProcessorInv, PubInv, IInv, ProcessingTypeOK
<1>2. worker'[i].pc = "idle" /\ \A j \in Instances \ {i} : worker'[j] = worker[j]
  BY <1>1 DEF IdleWorker
<1>3. reader'[i] = [up |-> FALSE, next |-> 0, current |-> 0]
  BY DEF Crash, ProcessorInv, GroupOK
<1>4. \A j \in Instances \ {i} : reader'[j] = reader[j]
  BY DEF Crash, ProcessorInv, GroupOK
<1>5. reader' \in [Instances -> ReaderRecords]
  BY DEF Crash, ProcessorInv, GroupOK, ReaderRecords
<1>6. Len(topic) \in Nat
  BY LenProperties DEF ProcessorInv, GroupOK
<1>7. \A j \in Instances : ReaderOK(j)'
  BY <1>2, <1>3, <1>4, <1>6 DEF Crash, ProcessorInv, GroupOK, ReaderOK
<1>8. disruptions' \in 0 .. MaxDisruptions
  BY ProcessorAssumption DEF Crash, ProcessorInv, GroupOK, ProcessorAssumption
<1> QED BY <1>5, <1>7, <1>8 DEF Crash, ProcessorInv, GroupOK

LEMMA PublishKeepsGroup ==
    ASSUME ProcessorInv, NEW t \in TxIds, Publish(t)
    PROVE  GroupOK'
<1>1. topic \in Seq(TxIds) /\ Len(topic) \in Nat
  BY LenProperties DEF ProcessorInv, GroupOK
<1>2. topic' \in Seq(TxIds) /\ Len(topic') = Len(topic) + 1
  BY <1>1 DEF Publish
<1>3. \A j \in Instances : reader[j].next \in Nat /\ reader[j].current \in Nat
  BY DEF ProcessorInv, GroupOK, ReaderRecords
<1>4. \A j \in Instances : ReaderOK(j)'
  <2> SUFFICES ASSUME NEW j \in Instances PROVE ReaderOK(j)'
    OBVIOUS
  <2>1. ReaderOK(j) /\ reader' = reader /\ worker' = worker
    BY DEF ProcessorInv, GroupOK, Publish
  <2> QED BY <1>1, <1>2, <1>3, <2>1 DEF ReaderOK
<1> QED BY <1>1, <1>2, <1>4 DEF ProcessorInv, GroupOK, Publish

LEMMA MembershipKeepsGroup ==
    ASSUME ProcessorInv,
           Revoke \/ \E i \in Instances : Restart(i) \/ Assign(i)
    PROVE  GroupOK'
<1>1. /\ Len(topic) \in Nat /\ reader \in [Instances -> ReaderRecords]
      /\ committed \in 0 .. Len(topic)
  BY LenProperties DEF ProcessorInv, GroupOK
<1>2. CASE Revoke
  <2>1. disruptions' \in 0 .. MaxDisruptions
    BY <1>2, ProcessorAssumption DEF Revoke, ProcessorInv, GroupOK, ProcessorAssumption
  <2> QED BY <1>2, <2>1 DEF Revoke, ProcessorInv, GroupOK, ReaderOK
<1>3. ASSUME NEW i \in Instances, Restart(i) PROVE GroupOK'
  <2>1. reader' = [reader EXCEPT ![i].up = TRUE]
    BY <1>3 DEF Restart
  <2>2. /\ reader' \in [Instances -> ReaderRecords]
        /\ \A j \in Instances : /\ reader'[j].next = reader[j].next
                                /\ reader'[j].current = reader[j].current
    BY <1>1, <2>1 DEF ReaderRecords
  <2> QED BY <1>3, <2>2 DEF Restart, storeVars, ProcessorInv, GroupOK, ReaderOK
<1>4. ASSUME NEW i \in Instances, Assign(i) PROVE GroupOK'
  <2>1. reader' = [reader EXCEPT ![i].next = committed] /\ committed \in Nat /\ owner' = i
    BY <1>1, <1>4 DEF Assign
  <2>2. /\ reader' \in [Instances -> ReaderRecords]
        /\ \A j \in Instances :
              /\ reader'[j].next = IF j = i THEN committed ELSE reader[j].next
              /\ reader'[j].current = reader[j].current
    BY <1>1, <2>1 DEF ReaderRecords
  <2> QED BY <1>1, <1>4, <2>1, <2>2 DEF Assign, storeVars, ProcessorInv, GroupOK, ReaderOK
<1> QED BY <1>2, <1>3, <1>4

LEMMA InitGroup == Init => GroupOK
<1> SUFFICES ASSUME Init PROVE GroupOK
  OBVIOUS
<1>1. \A i \in Instances : worker[i].pc = "idle"
  BY DEF Init, PublicationInit, ProcessingInit, IdleWorker
<1>2. topic \in Seq(TxIds) /\ Len(topic) = 0
  BY DEF Init
<1>3. MaxDisruptions \in Nat
  BY ProcessorAssumption DEF ProcessorAssumption
<1> QED BY <1>1, <1>2, <1>3 DEF Init, GroupOK, ReaderOK, ReaderRecords

LEMMA NextGroup == ProcessorInv /\ [Next]_vars => GroupOK'
<1> SUFFICES ASSUME ProcessorInv, [Next]_vars PROVE GroupOK'
  OBVIOUS
<1>1. CASE UNCHANGED vars
  BY <1>1, GroupKept DEF vars, groupVars, ProcessorInv
<1>2. ASSUME NEW i \in Instances, ProcessorStep(i) PROVE GroupOK'
  BY <1>2, CallEffect, GroupKept DEF ProcessorStep, CallStep, ProcessorInv, PubInv
<1>3. ASSUME NEW i \in Instances, PollStep(i) PROVE GroupOK'
  BY <1>3, GroupKept DEF PollStep, Poll, ProcessorInv
<1> QED BY <1>1, <1>2, <1>3, FetchMessageKeepsGroup, AfterMessageKeepsGroup, CrashKeepsGroup,
        PublishKeepsGroup, MembershipKeepsGroup DEF Next

LEMMA InitProcessorInv == Init => ProcessorInv
BY InitPubInv, InitGroup DEF Init, ProcessorInv

LEMMA NextProcessorInv == ProcessorInv /\ [Next]_vars => ProcessorInv'
BY StepOfPublication, NextPubInv, NextGroup DEF ProcessorInv

\* ProcessorInv is an invariant of the processor.
THEOREM ProcessorInvariance == Spec => []ProcessorInv
<1> QED BY InitProcessorInv, NextProcessorInv, PTL DEF Spec

\* The processor implements Publication: its consumer group delivers in one of the
\* ways Publication allows, and its crashes are deaths of a process
\* (consumer.go:56-109).  So every theorem about Publication is one about the
\* processor.
THEOREM ProcessorImplementsPublication == Spec => PublicationSpec
<1>1. Init => PublicationInit
  BY DEF Init
<1>2. ProcessorInv /\ [Next]_vars => [PublicationNext]_publicationVars
  BY StepOfPublication DEF ProcessorInv
<1> QED BY <1>1, <1>2, ProcessorInvariance, PTL DEF Spec, PublicationSpec

-----------------------------------------------------------------------------
(* The theorems *)

\* Every variable of the processor keeps its type, in particular the committed
\* offset and the readers never leave the topic (consumer.go:56-109).
THEOREM ProcessorTypeCorrect == Spec => []TypeOK
<1>1. ProcessorInv => TypeOK
  BY DEF ProcessorInv, PubInv, IInv, BatchesOK, GroupOK, ReaderOK, TypeOK, PublicationTypeOK
<1> QED BY <1>1, ProcessorInvariance, PTL

\* Row locks are held exactly by the calls inside their database transaction,
\* also when processes die inside one (processing_service.go:79-146).
THEOREM ProcessorLocksCorrect == Spec => []LocksMatchCalls
BY ProcessorImplementsPublication, PublicationLocksCorrect, PTL

\* The ledger shows nothing as completed that is not applied, whatever fails,
\* crashes, or is delivered or published twice (ledger_publisher.go:41-104).
THEOREM ProcessorCompletedCorrect == Spec => []CompletedIsApplied
BY ProcessorImplementsPublication, CompletedCorrect, PTL

\* The processor implements ExactlyOnce: whatever crashes, is redelivered, fails
\* or runs beside it, a transaction changes its account at most once, by the
\* signed amount, when the account accepts it (processing_service.go:70-146).
THEOREM ProcessorRefinement == Spec => ImplementsExactlyOnce
BY ProcessorImplementsPublication, PublicationRefinement, PTL

\* The books balance in the whole processor: also when processes die between the
\* stamp and the commit, requests are redelivered and pollers write the same rows
\* (processing_service.go:99-143, message.go:36).
THEOREM ProcessorBooksCorrect == Spec => []BooksBalance
BY ProcessorImplementsPublication, PublicationBooksCorrect, PTL

\* The whole retry budget is spent before a row is given up, whatever crashes and
\* however many pollers count for the same row (poller.go:97-113).
THEOREM ProcessorBudgetIsSpent == Spec => []GivesUpOnlyAfterMaxAttempts
BY ProcessorImplementsPublication, BudgetIsSpent, PTL

\* A row marked as processed has a document, although the processor writes the
\* ledger beside the pollers and may overwrite what they wrote
\* (ledger_publisher.go:41-104, failure_recorder.go:50-77).
THEOREM ProcessorMarksCorrect == Spec => []MarkedIsRecorded
BY ProcessorImplementsPublication, MarkedIsRecordedCorrect, PTL

\* Only a redelivery, after a crash or a rebalance, of a message that was not
\* committed or of a copy, can make the ledger wrong about a transaction
\* (consumer.go:56-109, failure_recorder.go:50-77, ledger_publisher.go:41-104).
THEOREM ProcessorOnceIsRight == Spec => []RightWhenDeliveredOnce
BY ProcessorImplementsPublication, OnceIsRight, PTL

-----------------------------------------------------------------------------
(* What is settled stays settled *)

LEMMA SettledStays ==
    ASSUME ProcessorInv, [Next]_vars, NEW u \in TxIds, Settled(u)
    PROVE  Settled(u)'
<1>1. PubInv /\ [PublicationNext]_publicationVars /\ outbox \in [TxIds -> OutboxRows]
  BY StepOfPublication DEF ProcessorInv, PubInv, IInv, ProcessingTypeOK, StoresTypeOK
<1>2. UNCHANGED <<outbox, ledger>> => Settled(u)'
  BY DEF Settled, HasRow, HasEntry, StatusesOf
<1>3. ASSUME NEW i \in Instances, CallStep(i) PROVE Settled(u)'
  <2>1. HasEntry(u) => HasEntry(u)'
    BY <1>1, <1>3, CallConcerns DEF Concerns
  <2>2. HasRow(u) => HasRow(u)'
    <3>1. outbox' = outbox \/ InsertRow(worker[i].tx, worker[i].stamp)
      BY <1>1, <1>3, CallEffect DEF PubInv, CallStep
    <3> QED BY <1>1, <3>1 DEF InsertRow, PendingRow, HasRow
  <2> QED BY <2>1, <2>2 DEF Settled
<1>4. ASSUME NEW i \in Instances, Poll(i) PROVE Settled(u)'
  BY <1>1, <1>4, PollDocuments
<1>5. ASSUME \/ \E i \in Instances : Acknowledge(i) \/ Die(i) \/ \E t \in TxIds : Receive(i, t)
             \/ UNCHANGED publicationVars
      PROVE  UNCHANGED <<outbox, ledger>>
  BY <1>5 DEF Acknowledge, Die, Receive, Deliver, storeVars, publicationVars
<1> QED BY <1>1, <1>2, <1>3, <1>4, <1>5 DEF PublicationNext

-----------------------------------------------------------------------------
(* The committed offset *)

\* No statement has failed so far, and the UPDATE about to be made is stored: its
\* deposit does not overflow.
Undisturbed ==
    /\ faults = MaxFaults
    /\ \A i \in Instances :
          worker[i].pc = "update" =>
              \/ Refusal(Request(i), Opening[Account(i)].currency, worker[i].acc.balance) # "NONE"
              \/ Storable(accounts[Account(i)], Applied(Request(i), worker[i].acc))

SettledTxs == {t \in TxIds : Settled(t)}

\* The first m messages are settled.
Passed(m) == \A n \in 1 .. m : topic[n] \in SettledTxs

\* The call of i works on the message in hand; everything its reader has fetched
\* before is settled, and that message too once the call has returned.
DeliveryOK(i) ==
    /\ worker[i].pc # "idle" =>
          /\ topic[reader[i].current + 1] = worker[i].tx
          /\ Passed(reader[i].current)
    /\ worker[i].pc = "done" => worker[i].tx \in SettledTxs
    /\ \A n \in 1 .. reader[i].next :
          topic[n] \in SettledTxs \/ (worker[i].pc # "idle" /\ n = reader[i].current + 1)

DeliveryInv == Passed(committed) /\ \A i \in Instances : DeliveryOK(i)

\* A call that returns has settled its transaction, or found it settled.
LEMMA CallSettles ==
    ASSUME ProcessorInv, Undisturbed, faults' = MaxFaults,
           NEW i \in Instances, ProcessorStep(i), worker'[i].pc = "done",
           NEW t \in TxIds, worker[i].tx = t
    PROVE  Settled(t)'
<1>1. /\ worker \in [Instances -> WorkerRecords] /\ ProcessingStep(i)
      /\ outbox \in [TxIds -> OutboxRows]
      /\ ledger \in [TxIds -> [LedgerStatuses -> Nat]] /\ "FAILED" \in LedgerStatuses
  BY DEF ProcessorInv, PubInv, IInv, ProcessingTypeOK, StoresTypeOK, ProcessorStep, CallStep,
         LedgerStatuses
<1>2. ~Fails
  BY StoresAssumption DEF StoresAssumption, Undisturbed, Fails
<1>3. ASSUME UNCHANGED <<outbox, ledger>>, Settled(t) PROVE Settled(t)'
  BY <1>3 DEF Settled, HasRow, HasEntry, StatusesOf
<1>4. \A found \in FindOne(t) : found # "NOT_FOUND" => HasEntry(t)
  BY DEF FindOne
<1>5. /\ \A pc : Goto(i, pc) => pc = "done"
      /\ \A pc, acc, stamp : GotoWith(i, pc, acc, stamp) => pc = "done"
  <2>1. ASSUME NEW pc, Goto(i, pc) PROVE pc = "done"
    BY <1>1, <2>1 DEF Goto, WorkerRecords
  <2>2. ASSUME NEW pc, NEW acc, NEW stamp, GotoWith(i, pc, acc, stamp) PROVE pc = "done"
    BY <1>1, <2>2 DEF GotoWith
  <2> QED BY <2>1, <2>2
<1>6. CASE CheckIdempotency(i)
  <2>1. /\ UNCHANGED <<outbox, ledger>>
        /\ \E found \in FindOne(t) : found \in {"COMPLETED", "FAILED"}
    BY <1>2, <1>6, <1>5 DEF CheckIdempotency, ReturnError
  <2> QED BY <1>3, <1>4, <2>1 DEF Settled
<1>7. CASE Begin(i) \/ LockForUpdate(i)
  BY <1>2, <1>7, <1>5 DEF Begin, LockForUpdate, ReturnError
<1>8. CASE UpdateAccount(i)
  BY <1>2, <1>8, <1>5 DEF UpdateAccount, ReturnError, Undisturbed
<1>9. CASE CreateOutboxEntry(i)
  <2>1. UNCHANGED <<outbox, ledger>> /\ HasRow(t)
    BY <1>2, <1>9, <1>5 DEF CreateOutboxEntry, ReturnError, TransactionIdTaken
  <2> QED BY <1>3, <2>1 DEF Settled
<1>10. CASE Commit(i)
  <2>1. InsertRow(t, worker[i].stamp)
    BY <1>2, <1>10 DEF Commit, CommitEffects, ReturnError
  <2>2. outbox'[t].status = "PENDING"
    BY <1>1, <2>1 DEF InsertRow, PendingRow
  <2> QED BY <2>2 DEF Settled, HasRow
<1>11. CASE RecordFind(i)
  <2>1. /\ UNCHANGED <<outbox, ledger>>
        /\ \E found \in FindOne(t) : found # "NOT_FOUND"
    BY <1>2, <1>11, <1>5 DEF RecordFind
  <2> QED BY <1>3, <1>4, <2>1 DEF Settled
<1>12. CASE RecordCheck(i)
  <2>1. /\ UNCHANGED <<outbox, ledger>>
        /\ \E found \in FindOne(t) : found # "NOT_FOUND"
    BY <1>2, <1>12, <1>5 DEF RecordCheck
  <2> QED BY <1>3, <1>4, <2>1 DEF Settled
<1>13. CASE RecordUpdate(i) \/ RecordInsert(i)
  <2>1. InsertEntry(t, "FAILED") \/ UpdateEntry(t, "FAILED")
    BY <1>2, <1>13 DEF RecordUpdate, RecordInsert
  <2>2. HasEntry(t)'
    BY <1>1, <2>1, EntryWritten
  <2> QED BY <2>2 DEF Settled
<1> QED BY <1>1, <1>6, <1>7, <1>8, <1>9, <1>10, <1>11, <1>12, <1>13 DEF ProcessingStep

\* What the types say of the group.
LEMMA GroupTyped ==
    ASSUME ProcessorInv
    PROVE  /\ topic \in Seq(TxIds) /\ Len(topic) \in Nat
           /\ \A n \in 1 .. Len(topic) : topic[n] \in TxIds
           /\ committed \in Nat /\ committed <= Len(topic)
           /\ reader \in [Instances -> ReaderRecords]
           /\ worker \in [Instances -> WorkerRecords]
           /\ \A i \in Instances :
                 /\ reader[i].next \in Nat /\ reader[i].next <= Len(topic)
                 /\ reader[i].current \in Nat
                 /\ worker[i].pc # "idle" => reader[i].current < Len(topic)
<1>1. /\ topic \in Seq(TxIds) /\ committed \in 0 .. Len(topic)
      /\ reader \in [Instances -> ReaderRecords] /\ \A i \in Instances : ReaderOK(i)
  BY DEF ProcessorInv, GroupOK
<1>2. Len(topic) \in Nat /\ \A n \in 1 .. Len(topic) : topic[n] \in TxIds
  BY <1>1, LenProperties
<1>3. worker \in [Instances -> WorkerRecords]
  BY DEF ProcessorInv, PubInv, IInv, ProcessingTypeOK
<1> QED BY <1>1, <1>2, <1>3 DEF ReaderOK, ReaderRecords

LEMMA SettledGrow ==
    ASSUME ProcessorInv, [Next]_vars
    PROVE  SettledTxs \subseteq SettledTxs'
<1>1. \A u \in TxIds : Settled(u) => Settled(u)'
  BY SettledStays
<1> QED BY <1>1 DEF SettledTxs

\* A step that fetches, commits and assigns nothing.
LEMMA DeliveryKept ==
    ASSUME ProcessorInv, DeliveryInv, SettledTxs \subseteq SettledTxs',
           UNCHANGED <<topic, committed>>,
           \A i \in Instances :
              /\ reader'[i].next = reader[i].next /\ reader'[i].current = reader[i].current
              /\ worker[i].pc = "idle" <=> worker'[i].pc = "idle"
              /\ worker[i].pc # "idle" => worker'[i].tx = worker[i].tx
              /\ worker'[i].pc = "done" => worker[i].pc = "done" \/ worker[i].tx \in SettledTxs'
    PROVE  DeliveryInv'
<1>1. Passed(committed)'
  BY DEF DeliveryInv, Passed
<1>2. ASSUME NEW i \in Instances PROVE DeliveryOK(i)'
  <2>1. DeliveryOK(i)
    BY DEF DeliveryInv
  <2>2. /\ reader'[i].next = reader[i].next /\ reader'[i].current = reader[i].current
        /\ worker[i].pc = "idle" <=> worker'[i].pc = "idle"
        /\ worker[i].pc # "idle" => worker'[i].tx = worker[i].tx
        /\ worker'[i].pc = "done" => worker[i].pc = "done" \/ worker[i].tx \in SettledTxs'
    OBVIOUS
  <2>3. worker'[i].pc # "idle" =>
          /\ topic'[reader'[i].current + 1] = worker'[i].tx
          /\ \A n \in 1 .. reader'[i].current : topic'[n] \in SettledTxs'
    BY <2>1, <2>2 DEF DeliveryOK, Passed
  <2>4. worker'[i].pc = "done" => worker'[i].tx \in SettledTxs'
    BY <2>1, <2>2 DEF DeliveryOK
  <2>5. \A n \in 1 .. reader'[i].next :
          topic'[n] \in SettledTxs' \/ (worker'[i].pc # "idle" /\ n = reader'[i].current + 1)
    BY <2>1, <2>2 DEF DeliveryOK
  <2> QED BY <2>3, <2>4, <2>5 DEF DeliveryOK, Passed
<1> QED BY <1>1, <1>2 DEF DeliveryInv

LEMMA CallDelivers ==
    ASSUME ProcessorInv, DeliveryInv, Undisturbed, faults' = MaxFaults,
           NEW i \in Instances, ProcessorStep(i)
    PROVE  DeliveryInv'
<1>1. SettledTxs \subseteq SettledTxs'
  BY SettledGrow DEF Next
<1>2. UNCHANGED <<topic, committed, reader>>
  BY DEF ProcessorStep, groupVars
<1>3. /\ worker[i].pc # "idle" /\ worker[i].tx \in TxIds
      /\ worker'[i].tx = worker[i].tx
      /\ \A j \in Instances \ {i} : worker'[j] = worker[j]
  BY CallConcerns, CallKeepsTx DEF ProcessorInv, ProcessorStep
<1>4. worker'[i].pc # "idle"
  <2>1. worker \in [Instances -> WorkerRecords] /\ ProcessingStep(i)
    BY DEF ProcessorInv, PubInv, IInv, ProcessingTypeOK, ProcessorStep, CallStep
  <2> QED BY <2>1 DEF ProcessingStep, CheckIdempotency, Begin, LockForUpdate, UpdateAccount,
              CreateOutboxEntry, Commit, RecordFind, RecordUpdate, RecordCheck, RecordInsert,
              ReturnError, Return, Done, Goto, GotoWith, WorkerRecords
<1>5. worker'[i].pc = "done" => worker[i].tx \in SettledTxs'
  BY <1>3, CallSettles DEF SettledTxs
<1> QED BY <1>1, <1>2, <1>3, <1>4, <1>5, DeliveryKept

LEMMA FetchDelivers ==
    ASSUME ProcessorInv, DeliveryInv, NEW i \in Instances, FetchMessage(i)
    PROVE  DeliveryInv'
<1> DEFINE m == reader[i].next
<1>1. /\ m \in Nat /\ reader \in [Instances -> ReaderRecords]
      /\ worker \in [Instances -> WorkerRecords]
  BY GroupTyped
<1>2. /\ UNCHANGED <<topic, committed, outbox, ledger>>
      /\ worker[i].pc = "idle"
      /\ reader' = [reader EXCEPT ![i].next = @ + 1, ![i].current = m]
      /\ worker' = [worker EXCEPT ![i] =
                      [IdleWorker EXCEPT !.tx = topic[m + 1],
                         !.pc = IF Valid(request[topic[m + 1]]) THEN "idempotency" ELSE "recordFind"]]
  BY DEF FetchMessage, Receive, Deliver, storeVars
<1>3. SettledTxs' = SettledTxs
  BY <1>2 DEF SettledTxs, Settled, HasRow, HasEntry, StatusesOf
<1>4. reader'[i].next = m + 1 /\ reader'[i].current = m
  BY <1>1, <1>2 DEF ReaderRecords
<1>5. worker'[i].tx = topic[m + 1] /\ worker'[i].pc \notin {"idle", "done"}
  BY <1>1, <1>2 DEF IdleWorker
<1>6. \A j \in Instances \ {i} : reader'[j] = reader[j] /\ worker'[j] = worker[j]
  BY <1>1, <1>2
<1>7. \A n \in 1 .. m : topic[n] \in SettledTxs
  BY <1>2 DEF DeliveryInv, DeliveryOK
<1>8. DeliveryOK(i)'
  BY <1>1, <1>2, <1>3, <1>4, <1>5, <1>7 DEF DeliveryOK, Passed
<1>9. ASSUME NEW j \in Instances \ {i} PROVE DeliveryOK(j)'
  <2>1. topic' = topic
    BY <1>2
  <2>2. DeliveryOK(j)
    BY DEF DeliveryInv
  <2> QED BY <1>3, <1>6, <2>1, <2>2 DEF DeliveryOK, Passed
<1>10. Passed(committed)'
  BY <1>2, <1>3 DEF DeliveryInv, Passed
<1> QED BY <1>8, <1>9, <1>10 DEF DeliveryInv

\* The consumer goes on: what it has in hand is settled, whether it commits it or
\* not.
LEMMA AfterMessageDelivers ==
    ASSUME ProcessorInv, DeliveryInv, NEW i \in Instances, AfterMessage(i)
    PROVE  DeliveryInv'
<1>1. /\ worker[i].pc = "done" /\ worker' = [worker EXCEPT ![i] = IdleWorker]
      /\ UNCHANGED <<topic, reader, outbox, ledger>>
      /\ committed' = committed \/ committed' = reader[i].current + 1
  BY DEF AfterMessage, SkipMessage, CommitMessage, TakeResult, storeVars, groupVars
<1>2. SettledTxs' = SettledTxs
  BY <1>1 DEF SettledTxs, Settled, HasRow, HasEntry, StatusesOf
<1>3. worker'[i].pc = "idle" /\ \A j \in Instances \ {i} : worker'[j] = worker[j]
  BY <1>1, GroupTyped DEF IdleWorker
<1>4. reader[i].current \in Nat /\ DeliveryOK(i)
  BY GroupTyped DEF DeliveryInv
<1>5. topic[reader[i].current + 1] \in SettledTxs
  BY <1>1, <1>4 DEF DeliveryOK
<1>6. \A n \in 1 .. reader[i].current + 1 : topic[n] \in SettledTxs
  BY <1>1, <1>4, <1>5 DEF DeliveryOK, Passed
<1>7. Passed(committed)'
  BY <1>1, <1>2, <1>6 DEF DeliveryInv, Passed
<1>8. DeliveryOK(i)'
  BY <1>1, <1>2, <1>3, <1>4, <1>5 DEF DeliveryOK
<1>9. ASSUME NEW j \in Instances \ {i} PROVE DeliveryOK(j)'
  BY <1>1, <1>2, <1>3 DEF DeliveryInv, DeliveryOK, Passed
<1> QED BY <1>7, <1>8, <1>9 DEF DeliveryInv

\* A dead process has nothing in hand, and the partition starts at the committed
\* offset wherever it is assigned.
LEMMA CrashDelivers ==
    ASSUME ProcessorInv, DeliveryInv, NEW i \in Instances, Crash(i)
    PROVE  DeliveryInv'
<1>1. /\ UNCHANGED <<topic, committed, outbox, ledger>>
      /\ reader' = [reader EXCEPT ![i] = [up |-> FALSE, next |-> 0, current |-> 0]]
      /\ worker' = [worker EXCEPT ![i] = IdleWorker]
  BY DEF Crash, Die
<1>2. SettledTxs' = SettledTxs
  BY <1>1 DEF SettledTxs, Settled, HasRow, HasEntry, StatusesOf
<1>3. /\ worker'[i].pc = "idle" /\ reader'[i].next = 0
      /\ \A j \in Instances \ {i} : reader'[j] = reader[j] /\ worker'[j] = worker[j]
  BY <1>1, GroupTyped DEF IdleWorker
<1>4. DeliveryOK(i)'
  BY <1>3 DEF DeliveryOK
<1>5. ASSUME NEW j \in Instances \ {i} PROVE DeliveryOK(j)'
  <2>1. DeliveryOK(j)
    BY DEF DeliveryInv
  <2> QED BY <1>1, <1>2, <1>3, <2>1 DEF DeliveryOK, Passed
<1>6. Passed(committed)'
  BY <1>1, <1>2 DEF DeliveryInv, Passed
<1> QED BY <1>4, <1>5, <1>6 DEF DeliveryInv

LEMMA AssignDelivers ==
    ASSUME ProcessorInv, DeliveryInv, NEW i \in Instances, Assign(i)
    PROVE  DeliveryInv'
<1>1. /\ UNCHANGED <<topic, committed, outbox, ledger, worker>>
      /\ reader' = [reader EXCEPT ![i].next = committed]
  BY DEF Assign, storeVars
<1>2. SettledTxs' = SettledTxs
  BY <1>1 DEF SettledTxs, Settled, HasRow, HasEntry, StatusesOf
<1>3. /\ reader'[i].next = committed /\ reader'[i].current = reader[i].current
      /\ \A j \in Instances \ {i} : reader'[j] = reader[j]
  BY <1>1, GroupTyped DEF ReaderRecords
<1>4. \A n \in 1 .. committed : topic[n] \in SettledTxs
  BY DEF DeliveryInv, Passed
<1>5. ASSUME NEW j \in Instances PROVE DeliveryOK(j)'
  <2>1. DeliveryOK(j)
    BY DEF DeliveryInv
  <2> QED BY <1>1, <1>2, <1>3, <1>4, <2>1 DEF DeliveryOK, Passed
<1> QED BY <1>1, <1>2, <1>4, <1>5 DEF DeliveryInv, Passed

LEMMA PublishDelivers ==
    ASSUME ProcessorInv, DeliveryInv, NEW t \in TxIds, Publish(t)
    PROVE  DeliveryInv'
<1>1. /\ UNCHANGED <<committed, outbox, ledger, worker, reader>>
      /\ topic' = Append(topic, t)
  BY DEF Publish, storeVars
<1>2. SettledTxs' = SettledTxs
  BY <1>1 DEF SettledTxs, Settled, HasRow, HasEntry, StatusesOf
<1>3. \A n \in 1 .. Len(topic) : topic'[n] = topic[n]
  BY <1>1, GroupTyped
<1>4. Passed(committed)'
  BY <1>1, <1>2, <1>3, GroupTyped DEF DeliveryInv, Passed
<1>5. ASSUME NEW i \in Instances PROVE DeliveryOK(i)'
  <2>1. DeliveryOK(i)
    BY DEF DeliveryInv
  <2>2. /\ Len(topic) \in Nat
        /\ reader[i].next \in Nat /\ reader[i].next <= Len(topic)
        /\ reader[i].current \in Nat
        /\ worker[i].pc # "idle" => reader[i].current < Len(topic)
    BY GroupTyped
  <2>3. worker[i].pc # "idle" =>
          /\ topic'[reader[i].current + 1] = worker[i].tx
          /\ \A n \in 1 .. reader[i].current : topic'[n] \in SettledTxs
    BY <1>3, <2>1, <2>2 DEF DeliveryOK, Passed
  <2>4. \A n \in 1 .. reader[i].next :
          topic'[n] \in SettledTxs \/ (worker[i].pc # "idle" /\ n = reader[i].current + 1)
    BY <1>3, <2>1, <2>2 DEF DeliveryOK
  <2> QED BY <1>1, <1>2, <2>1, <2>3, <2>4 DEF DeliveryOK, Passed
<1> QED BY <1>4, <1>5 DEF DeliveryInv

LEMMA NextDelivery ==
    ProcessorInv /\ DeliveryInv /\ Undisturbed /\ Undisturbed' /\ [Next]_vars => DeliveryInv'
<1> SUFFICES ASSUME ProcessorInv, DeliveryInv, Undisturbed, Undisturbed', [Next]_vars
             PROVE  DeliveryInv'
  OBVIOUS
<1>1. faults' = MaxFaults
  BY DEF Undisturbed
<1>2. SettledTxs \subseteq SettledTxs'
  BY SettledGrow
<1>3. CASE \/ \E i \in Instances : PollStep(i) \/ Restart(i)
           \/ Revoke
           \/ UNCHANGED vars
  <2>1. UNCHANGED <<topic, committed, worker>>
    BY <1>3 DEF PollStep, Poll, Restart, Revoke, vars, groupVars
  <2>2. \A j \in Instances : /\ reader'[j].next = reader[j].next
                             /\ reader'[j].current = reader[j].current
    <3>1. \/ reader' = reader
          \/ \E i \in Instances : reader' = [reader EXCEPT ![i].up = TRUE]
      BY <1>3 DEF PollStep, Poll, Restart, Revoke, vars, groupVars
    <3>2. ASSUME NEW i \in Instances, reader' = [reader EXCEPT ![i].up = TRUE],
                 NEW j \in Instances
          PROVE  reader'[j].next = reader[j].next /\ reader'[j].current = reader[j].current
      <4>1. reader \in [Instances -> ReaderRecords]
        BY GroupTyped
      <4> QED BY <3>2, <4>1 DEF ReaderRecords
    <3> QED BY <3>1, <3>2
  <2> QED BY <1>2, <2>1, <2>2, DeliveryKept
<1>4. CASE \E i \in Instances : ProcessorStep(i)
  BY <1>1, <1>4, CallDelivers
<1>5. CASE \E i \in Instances : FetchMessage(i) \/ AfterMessage(i) \/ Crash(i) \/ Assign(i)
  BY <1>5, FetchDelivers, AfterMessageDelivers, CrashDelivers, AssignDelivers
<1>6. CASE \E t \in TxIds : Publish(t)
  BY <1>6, PublishDelivers
<1> QED BY <1>3, <1>4, <1>5, <1>6 DEF Next

\* As long as no statement fails and no deposit overflows, no committed offset ever
\* passes a request that is neither applied nor recorded, whichever instance
\* commits it, after any crashes, rebalances and duplicates (consumer.go:81-94).
THEOREM NothingLostUndisturbed == Spec /\ []Undisturbed => []NoRequestLost
<1>1. Init => DeliveryInv
  <2> SUFFICES ASSUME Init PROVE DeliveryInv
    OBVIOUS
  <2>1. committed = 0 /\ \A i \in Instances : worker[i].pc = "idle" /\ reader[i].next = 0
    BY DEF Init, PublicationInit, ProcessingInit, IdleWorker
  <2> QED BY <2>1 DEF DeliveryInv, DeliveryOK, Passed
<1>2. DeliveryInv => NoRequestLost
  BY DEF DeliveryInv, Passed, SettledTxs, NoRequestLost
<1> QED BY <1>1, <1>2, NextDelivery, ProcessorInvariance, PTL DEF Spec
=============================================================================
