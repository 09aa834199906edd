--------------------------- MODULE PublicationProofs ---------------------------
(***************************************************************************)
(* Theorems about Publication, for any number of instances, transactions,  *)
(* deliveries, failing statements and deaths of a process, with the calls   *)
(* and the pollers of all instances on the same tables: the type invariant, *)
(* the discipline of the row locks, that the ledger shows as completed only *)
(* what is applied, that the balances implement ExactlyOnce and the books   *)
(* balance, that the retry budget is spent before a row is given up, what a *)
(* mark in the outbox is worth, what a single delivery guarantees, and in   *)
(* which order transactions are completed.                                  *)
(***************************************************************************)
EXTENDS Publication, ProcessingProofs, SequenceTheorems

\* What a poller knows of the messages of its batch.  Their rows exist and have
\* at least the attempts that were read: pollers only add to them.
BatchOK(batch) ==
    \A n \in DOMAIN batch :
        HasRow(batch[n].tx) /\ batch[n].attempts <= outbox[batch[n].tx].attempts

BatchesOK == PollerTypeOK /\ \A i \in Instances : BatchOK(poller[i].batch)

\* The inductive invariant.
PubInv ==
    /\ IInv /\ BatchesOK /\ CompletedIsApplied
    /\ delivered \in [TxIds -> Deliveries]

\* What every step does to the outbox: a row stays and keeps its attempts.
RowsStay ==
    \A t \in TxIds : HasRow(t) => HasRow(t)' /\ outbox[t].attempts <= outbox'[t].attempts

\* A step of poller i, at pc afterwards, with a batch its rows already justify.
Moves(i, pc) ==
    /\ poller' \in [Instances -> PollerRecords]
    /\ \A j \in Instances : poller'[j].pc = "idle" <=> poller'[j].batch = <<>>
    /\ \A j \in Instances \ {i} : poller'[j] = poller[j]
    /\ BatchOK(poller'[i].batch)
    /\ poller'[i].pc = pc

-----------------------------------------------------------------------------
(* The batch *)

\* The message a busy poller is working on is one of its batch.
LEMMA MessageOfBatch ==
    ASSUME BatchesOK, NEW i \in Instances, poller[i].pc # "idle"
    PROVE  /\ poller[i].batch \in Seq(Messages) /\ poller[i].batch # <<>>
           /\ Message(i) = poller[i].batch[1] /\ 1 \in DOMAIN poller[i].batch
           /\ Message(i) \in Messages
           /\ Message(i).tx \in TxIds /\ Message(i).attempts \in Nat
           /\ HasRow(Message(i).tx)
           /\ Message(i).attempts <= outbox[Message(i).tx].attempts
<1>1. poller[i].batch \in Seq(Messages) /\ poller[i].batch # <<>>
  BY DEF BatchesOK, PollerTypeOK, PollerRecords
<1>2. Message(i) = poller[i].batch[1] /\ 1 \in DOMAIN poller[i].batch
  BY <1>1, EmptySeq, LenProperties DEF Message
<1>3. Message(i) \in Messages
  BY <1>1, HeadTailProperties DEF Message
<1>4. Message(i).tx \in TxIds /\ Message(i).attempts \in Nat
  BY <1>3 DEF Messages
<1>5. HasRow(Message(i).tx) /\ Message(i).attempts <= outbox[Message(i).tx].attempts
  BY <1>2 DEF BatchesOK, BatchOK
<1> QED BY <1>1, <1>2, <1>3, <1>4, <1>5

\* The next statement for the same message.
LEMMA StepOfBatch ==
    ASSUME BatchesOK, NEW i \in Instances, poller[i].pc # "idle",
           NEW pc \in PollerPCs \ {"idle"}, Step(i, pc)
    PROVE  Moves(i, pc) /\ Message(i)' = Message(i)
<1>1. poller \in [Instances -> PollerRecords] /\ poller[i].batch # <<>>
  BY MessageOfBatch DEF BatchesOK, PollerTypeOK
<1>2. poller' = [poller EXCEPT ![i].pc = pc]
  BY DEF Step
<1>3. poller'[i].pc = pc /\ poller'[i].batch = poller[i].batch
  BY <1>1, <1>2 DEF PollerRecords
<1>4. poller' \in [Instances -> PollerRecords]
  BY <1>1, <1>2 DEF PollerRecords
<1>5. \A j \in Instances \ {i} : poller'[j] = poller[j]
  BY <1>1, <1>2
<1>6. \A j \in Instances : poller'[j].pc = "idle" <=> poller'[j].batch = <<>>
  BY <1>1, <1>3, <1>5 DEF BatchesOK, PollerTypeOK
<1>7. BatchOK(poller'[i].batch)
  BY <1>3 DEF BatchesOK
<1> QED BY <1>3, <1>4, <1>5, <1>6, <1>7 DEF Moves, Message

\* The next message, or none.
LEMMA EndOfMessage ==
    ASSUME BatchesOK, NEW i \in Instances, poller[i].pc # "idle", NextMessage(i)
    PROVE  Moves(i, "find") \/ Moves(i, "idle")
<1> DEFINE batch == poller[i].batch
<1>1. poller \in [Instances -> PollerRecords]
  BY DEF BatchesOK, PollerTypeOK
<1>2. batch \in Seq(Messages) /\ batch # <<>>
  BY MessageOfBatch
<1>3. Tail(batch) \in Seq(Messages) /\ (Tail(batch) = <<>> <=> Len(batch) <= 1)
  <2>1. Tail(batch) \in Seq(Messages) /\ Len(Tail(batch)) = Len(batch) - 1
    BY <1>2, HeadTailProperties
  <2>2. Len(batch) \in Nat \ {0}
    BY <1>2, EmptySeq
  <2>3. Tail(batch) = <<>> <=> Len(Tail(batch)) = 0
    BY <2>1, EmptySeq
  <2>4. Len(batch) - 1 = 0 <=> Len(batch) <= 1
    <3> DEFINE n == Len(batch)
    <3>1. n \in Nat \ {0}
      BY <2>2
    <3> HIDE DEF n
    <3>2. n - 1 = 0 <=> n <= 1
      BY <3>1
    <3> QED BY <3>2 DEF n
  <2> QED BY <2>1, <2>3, <2>4
<1>4. poller'[i] = [pc |-> IF Len(batch) > 1 THEN "find" ELSE "idle", batch |-> Tail(batch)]
  BY <1>1 DEF NextMessage
<1>5. \A j \in Instances \ {i} : poller'[j] = poller[j]
  BY <1>1 DEF NextMessage
<1>6. poller'[i] \in PollerRecords
  BY <1>3, <1>4 DEF PollerRecords, PollerPCs
<1>7. poller' \in [Instances -> PollerRecords]
  BY <1>1, <1>5, <1>6 DEF NextMessage
<1>8. Len(batch) \in Nat
  BY <1>2, LenProperties
<1>9. poller'[i].pc = "idle" <=> poller'[i].batch = <<>>
  BY <1>3, <1>4, <1>8
<1>10. \A j \in Instances : poller'[j].pc = "idle" <=> poller'[j].batch = <<>>
  BY <1>5, <1>9 DEF BatchesOK, PollerTypeOK
<1>11. \A n \in DOMAIN Tail(batch) : \E m \in DOMAIN batch : Tail(batch)[n] = batch[m]
  <2> SUFFICES ASSUME NEW n \in DOMAIN Tail(batch)
               PROVE  \E m \in DOMAIN batch : Tail(batch)[n] = batch[m]
    OBVIOUS
  <2>1. n \in 1 .. Len(Tail(batch)) /\ Len(Tail(batch)) = Len(batch) - 1
    BY <1>2, <1>3, HeadTailProperties, LenProperties
  <2>2. n + 1 \in DOMAIN batch
    BY <1>2, <1>8, <2>1, LenProperties
  <2>3. Tail(batch)[n] = batch[n + 1]
    BY <1>2, <2>1, HeadTailProperties
  <2> QED BY <2>2, <2>3
<1>12. BatchOK(poller'[i].batch)
  <2>1. BatchOK(batch)
    BY DEF BatchesOK
  <2>2. BatchOK(Tail(batch))
    BY <1>11, <2>1 DEF BatchOK
  <2> QED BY <1>4, <2>2
<1>13. poller'[i].pc \in {"find", "idle"}
  BY <1>4
<1> QED BY <1>5, <1>7, <1>10, <1>12, <1>13 DEF Moves

-----------------------------------------------------------------------------
(* The tables *)

\* Giving a row another status keeps its attempts.
LEMMA StatusSet ==
    ASSUME outbox \in [TxIds -> OutboxRows], NEW t \in TxIds,
           NEW status \in OutboxStatuses \ {"ABSENT"}, SetOutboxStatus(t, status)
    PROVE  /\ outbox' \in [TxIds -> OutboxRows]
           /\ outbox'[t].status = status
           /\ \A u \in TxIds : outbox'[u].attempts = outbox[u].attempts
           /\ \A u \in TxIds \ {t} : outbox'[u] = outbox[u]
BY DEF SetOutboxStatus, OutboxRows

\* Counting an attempt keeps the status of the row.
LEMMA AttemptCounted ==
    ASSUME outbox \in [TxIds -> OutboxRows], NEW t \in TxIds, IncrementAttempts(t)
    PROVE  /\ outbox' \in [TxIds -> OutboxRows]
           /\ \A u \in TxIds : outbox'[u].status = outbox[u].status
           /\ outbox'[t].attempts = outbox[t].attempts + 1
           /\ \A u \in TxIds \ {t} : outbox'[u] = outbox[u]
BY DEF IncrementAttempts, OutboxRows

\* A new document, of either status.
LEMMA EntryInserted ==
    ASSUME ledger \in [TxIds -> [LedgerStatuses -> Nat]], NEW t \in TxIds,
           NEW status \in LedgerStatuses, InsertEntry(t, status)
    PROVE  /\ ledger' \in [TxIds -> [LedgerStatuses -> Nat]]
           /\ ledger'[t][status] > 0
           /\ \A u \in TxIds : ledger[u]["COMPLETED"] <= ledger'[u]["COMPLETED"]
BY DEF InsertEntry, LedgerStatuses

\* A document that becomes COMPLETED.
LEMMA EntryCompleted ==
    ASSUME ledger \in [TxIds -> [LedgerStatuses -> Nat]], NEW t \in TxIds,
           UpdateEntry(t, "COMPLETED")
    PROVE  /\ ledger' \in [TxIds -> [LedgerStatuses -> Nat]]
           /\ ledger'[t]["COMPLETED"] > 0
           /\ \A u \in TxIds : ledger[u]["COMPLETED"] <= ledger'[u]["COMPLETED"]
<1>1. PICK old \in StatusesOf(t) :
        ledger' = [ledger EXCEPT ![t] =
                     [s \in LedgerStatuses |->
                        @[s] - (IF s = old THEN 1 ELSE 0) + (IF s = "COMPLETED" THEN 1 ELSE 0)]]
  BY DEF UpdateEntry
<1>2. old \in LedgerStatuses /\ ledger[t][old] \in Nat /\ ledger[t][old] > 0
  BY DEF StatusesOf
<1>3. ledger'[t] = [s \in LedgerStatuses |->
        ledger[t][s] - (IF s = old THEN 1 ELSE 0) + (IF s = "COMPLETED" THEN 1 ELSE 0)]
  BY <1>1
<1>4. ledger'[t] \in [LedgerStatuses -> Nat]
  BY <1>2, <1>3
<1>5. ledger'[t]["COMPLETED"] > 0 /\ ledger[t]["COMPLETED"] <= ledger'[t]["COMPLETED"]
  BY <1>2, <1>3 DEF LedgerStatuses
<1>6. \A u \in TxIds \ {t} : ledger'[u] = ledger[u]
  BY <1>1
<1>7. ledger' \in [TxIds -> [LedgerStatuses -> Nat]]
  BY <1>1, <1>4
<1> QED BY <1>5, <1>6, <1>7 DEF LedgerStatuses

-----------------------------------------------------------------------------
(* The tick *)

\* A batch has at least one message when a row is pending.
LEMMA BatchLengthPositive ==
    ASSUME Pending # {}
    PROVE  BatchLength \in Nat \ {0}
<1>1. IsFiniteSet(TxIds) /\ BatchSize \in Nat \ {0}
  BY PollerAssumption DEF PollerAssumption
<1>2. IsFiniteSet(Pending)
  BY <1>1, FS_Subset DEF Pending
<1>3. Cardinality(Pending) \in Nat /\ Cardinality(Pending) # 0
  BY <1>2, FS_CardinalityType, FS_EmptySet
<1> QED BY <1>1, <1>3 DEF BatchLength

\* The batch of a tick, if there is one, consists of rows that exist.
LEMMA TickMoves ==
    ASSUME BatchesOK, NEW i \in Instances, Fetch(i)
    PROVE  Moves(i, "find") \/ Moves(i, "idle")
<1>1. poller[i].pc = "idle"
  BY DEF Fetch
<1>2. /\ poller \in [Instances -> PollerRecords] /\ outbox \in [TxIds -> OutboxRows]
      /\ \A j \in Instances : poller[j].pc = "idle" <=> poller[j].batch = <<>>
  BY DEF BatchesOK, PollerTypeOK, StoresTypeOK
<1>3. ASSUME Pending # {}, NEW txs \in [1 .. BatchLength -> Pending],
             poller' = [poller EXCEPT ![i] =
               [pc |-> "find",
                batch |-> [k \in 1 .. BatchLength |->
                             [tx |-> txs[k], attempts |-> outbox[txs[k]].attempts]]]]
      PROVE  Moves(i, "find")
  <2> DEFINE n == BatchLength
             batch == [k \in 1 .. n |-> [tx |-> txs[k], attempts |-> outbox[txs[k]].attempts]]
  <2>1. n \in Nat \ {0}
    BY <1>3, BatchLengthPositive
  <2>2. \A k \in 1 .. n : txs[k] \in TxIds /\ HasRow(txs[k]) /\ outbox[txs[k]].attempts \in Nat
    BY <1>2, <1>3 DEF Pending, HasRow, OutboxRows
  <2>3. batch \in [1 .. n -> Messages]
    BY <2>2 DEF Messages
  <2>4. poller'[i] = [pc |-> "find", batch |-> batch]
    BY <1>2, <1>3
  <2>5. DOMAIN batch = 1 .. n
    OBVIOUS
  <2>6. BatchOK(batch)
    BY <2>2, <2>5 DEF BatchOK
  <2>7. batch \in Seq(Messages) /\ batch # <<>>
    <3> HIDE DEF n, batch
    <3>1. Len(batch) = n
      BY <2>1, <2>5, <2>3
    <3> QED BY <2>1, <2>3, <3>1
  <2> HIDE DEF batch
  <2>8. poller'[i] \in PollerRecords
    BY <2>4, <2>7 DEF PollerRecords, PollerPCs
  <2>9. \A j \in Instances \ {i} : poller'[j] = poller[j]
    BY <1>2, <1>3
  <2>10. poller' \in [Instances -> PollerRecords]
    BY <1>2, <1>3, <2>8, <2>9
  <2> QED BY <1>2, <2>4, <2>6, <2>7, <2>9, <2>10 DEF Moves
<1>4. CASE UNCHANGED poller
  BY <1>1, <1>2, <1>4 DEF Moves, BatchesOK
<1> QED BY <1>3, <1>4 DEF Fetch

-----------------------------------------------------------------------------
(* Parts of the invariant that a step leaves alone                          *)

LEMMA RowsUntouched ==
    ASSUME BatchesOK, outbox' = outbox
    PROVE  RowsStay
<1> QED BY DEF BatchesOK, PollerTypeOK, StoresTypeOK, OutboxRows, RowsStay, HasRow

\* What the pollers have in hand stays true while rows stay.
LEMMA BatchStays ==
    ASSUME BatchesOK, StoresTypeOK', RowsStay,
           NEW batch \in Seq(Messages), BatchOK(batch)
    PROVE  \A n \in DOMAIN batch :
              outbox'[batch[n].tx].status # "ABSENT"
              /\ batch[n].attempts <= outbox'[batch[n].tx].attempts
<1> SUFFICES ASSUME NEW n \in DOMAIN batch
             PROVE  outbox'[batch[n].tx].status # "ABSENT"
                    /\ batch[n].attempts <= outbox'[batch[n].tx].attempts
  OBVIOUS
<1>1. batch[n] \in Messages
  OBVIOUS
<1>2. batch[n].tx \in TxIds /\ batch[n].attempts \in Nat
  BY <1>1 DEF Messages
<1>3. HasRow(batch[n].tx) /\ batch[n].attempts <= outbox[batch[n].tx].attempts
  BY DEF BatchOK
<1>4. outbox[batch[n].tx].attempts \in Nat /\ outbox'[batch[n].tx].attempts \in Nat
  BY <1>2 DEF BatchesOK, PollerTypeOK, StoresTypeOK, OutboxRows
<1>5. /\ outbox'[batch[n].tx].status # "ABSENT"
      /\ outbox[batch[n].tx].attempts <= outbox'[batch[n].tx].attempts
  BY <1>2, <1>3 DEF RowsStay, HasRow
<1> QED BY <1>2, <1>3, <1>4, <1>5

LEMMA BatchesKept ==
    ASSUME BatchesOK, StoresTypeOK', RowsStay, poller' = poller
    PROVE  BatchesOK'
<1>1. PollerTypeOK'
  BY DEF BatchesOK, PollerTypeOK
<1>2. ASSUME NEW j \in Instances PROVE BatchOK(poller[j].batch)'
  <2>1. poller[j].batch \in Seq(Messages) /\ BatchOK(poller[j].batch)
    BY DEF BatchesOK, PollerTypeOK, PollerRecords
  <2> QED BY <2>1, BatchStays DEF BatchOK, HasRow
<1> QED BY <1>1, <1>2 DEF BatchesOK

LEMMA BatchesMoved ==
    ASSUME BatchesOK, StoresTypeOK', RowsStay, NEW i \in Instances, NEW pc, Moves(i, pc)
    PROVE  BatchesOK'
<1>1. PollerTypeOK'
  BY DEF Moves, PollerTypeOK
<1>2. ASSUME NEW j \in Instances PROVE BatchOK(poller[j].batch)'
  <2>1. poller'[j].batch \in Seq(Messages)
    BY DEF Moves, PollerRecords
  <2>2. BatchOK(poller'[j].batch)
    BY DEF Moves, BatchesOK
  <2> QED BY <2>1, <2>2, BatchStays DEF BatchOK, HasRow
<1> QED BY <1>1, <1>2 DEF BatchesOK

\* A step that adds no COMPLETED document keeps what the ledger shows.
LEMMA CompletedKept ==
    ASSUME CompletedIsApplied, RowsStay,
           ledger \in [TxIds -> [LedgerStatuses -> Nat]],
           ledger' \in [TxIds -> [LedgerStatuses -> Nat]],
           \A t \in TxIds : ledger'[t]["COMPLETED"] > 0 =>
               ledger[t]["COMPLETED"] > 0 \/ HasRow(t)
    PROVE  CompletedIsApplied'
<1> QED BY DEF CompletedIsApplied, RowsStay

-----------------------------------------------------------------------------
(* The calls of ProcessTransaction                                          *)

\* A statement of a call writes no row but its own at the commit, and no
\* COMPLETED document.
LEMMA CallEffect ==
    ASSUME IInv, NEW i \in Instances, ProcessingStep(i)
    PROVE  /\ worker[i].pc # "idle"
           /\ \A j \in Instances \ {i} : worker'[j] = worker[j]
           /\ \/ outbox' = outbox
              \/ worker[i].pc = "commit" /\ InsertRow(worker[i].tx, worker[i].stamp)
           /\ \/ ledger' = ledger
              \/ InsertEntry(worker[i].tx, "FAILED")
              \/ UpdateEntry(worker[i].tx, "FAILED")
<1>1. worker \in [Instances -> WorkerRecords]
  BY DEF IInv, ProcessingTypeOK
<1>2. \A j \in Instances \ {i} : worker'[j] = worker[j]
  BY <1>1 DEF ProcessingStep, CheckIdempotency, Begin, LockForUpdate, UpdateAccount,
              CreateOutboxEntry, Commit, RecordFind, RecordUpdate, RecordCheck, RecordInsert,
              ReturnError, Return, Done, Goto, GotoWith
<1>3. worker[i].pc # "idle"
  BY DEF ProcessingStep, CheckIdempotency, Begin, LockForUpdate, UpdateAccount,
         CreateOutboxEntry, Commit, RecordFind, RecordUpdate, RecordCheck, RecordInsert
<1>4. \/ outbox' = outbox
      \/ worker[i].pc = "commit" /\ InsertRow(worker[i].tx, worker[i].stamp)
  BY DEF ProcessingStep, CheckIdempotency, Begin, LockForUpdate, UpdateAccount,
         CreateOutboxEntry, Commit, CommitEffects, RecordFind, RecordUpdate, RecordCheck,
         RecordInsert
<1>5. \/ ledger' = ledger
      \/ InsertEntry(worker[i].tx, "FAILED")
      \/ UpdateEntry(worker[i].tx, "FAILED")
  BY DEF ProcessingStep, CheckIdempotency, Begin, LockForUpdate, UpdateAccount,
         CreateOutboxEntry, Commit, RecordFind, RecordUpdate, RecordCheck, RecordInsert
<1> QED BY <1>2, <1>3, <1>4, <1>5

\* A FAILED document, new or overwritten, shows nothing as completed.
LEMMA FailureRecorded ==
    ASSUME ledger \in [TxIds -> [LedgerStatuses -> Nat]], NEW t \in TxIds,
           InsertEntry(t, "FAILED") \/ UpdateEntry(t, "FAILED"), NEW u \in TxIds
    PROVE  ledger'[u]["COMPLETED"] > 0 => ledger[u]["COMPLETED"] > 0
<1>1. CASE InsertEntry(t, "FAILED")
  BY <1>1 DEF InsertEntry, LedgerStatuses
<1>2. CASE UpdateEntry(t, "FAILED")
  <2>1. PICK old \in StatusesOf(t) :
          ledger' = [ledger EXCEPT ![t] =
                       [s \in LedgerStatuses |->
                          @[s] - (IF s = old THEN 1 ELSE 0) + (IF s = "FAILED" THEN 1 ELSE 0)]]
    BY <1>2 DEF UpdateEntry
  <2>2. ledger[t]["COMPLETED"] \in Nat
    BY DEF LedgerStatuses
  <2>3. CASE u = t
    <3>1. ledger'[t]["COMPLETED"] =
            ledger[t]["COMPLETED"] - (IF "COMPLETED" = old THEN 1 ELSE 0)
      BY <2>1, <2>2 DEF LedgerStatuses
    <3> QED BY <2>2, <2>3, <3>1
  <2>4. CASE u # t
    BY <2>1, <2>4
  <2> QED BY <2>3, <2>4
<1> QED BY <1>1, <1>2

LEMMA CallStepPreserves ==
    ASSUME PubInv, NEW i \in Instances, CallStep(i)
    PROVE  PubInv'
<1>1. IInv /\ BatchesOK /\ CompletedIsApplied /\ StoresTypeOK
  BY DEF PubInv, IInv, ProcessingTypeOK
<1>2. ProcessingStep(i) /\ UNCHANGED <<poller, delivered>>
  BY DEF CallStep
<1>3. IInv'
  BY <1>1, <1>2, NextIInv DEF ProcessingNext
<1>4. StoresTypeOK'
  BY <1>3 DEF IInv, ProcessingTypeOK
<1>5. worker[i].pc # "idle" => worker[i].tx \in TxIds
  BY <1>1 DEF IInv, InstanceOK, CallOK
<1>6. RowsStay
  <2>1. CASE outbox' = outbox
    BY <1>1, <2>1, RowsUntouched
  <2>2. CASE worker[i].pc = "commit" /\ InsertRow(worker[i].tx, worker[i].stamp)
    <3>1. ~HasRow(worker[i].tx)
      BY <1>1, <2>2 DEF IInv, InstanceOK, CallOK
    <3>2. \A u \in TxIds : u # worker[i].tx => outbox'[u] = outbox[u]
      BY <1>1, <2>2 DEF InsertRow, StoresTypeOK
    <3>3. \A u \in TxIds : outbox[u].attempts \in Nat
      BY <1>1 DEF StoresTypeOK, OutboxRows
    <3> QED BY <3>1, <3>2, <3>3 DEF RowsStay, HasRow
  <2> QED BY <1>1, <1>2, <2>1, <2>2, CallEffect
<1>7. BatchesOK'
  BY <1>1, <1>2, <1>4, <1>6, BatchesKept
<1>8. CompletedIsApplied'
  <2>1. \A u \in TxIds : ledger'[u]["COMPLETED"] > 0 => ledger[u]["COMPLETED"] > 0
    BY <1>1, <1>2, <1>5, CallEffect, FailureRecorded DEF StoresTypeOK
  <2> QED BY <1>1, <1>4, <1>6, <2>1, CompletedKept DEF StoresTypeOK
<1> QED BY <1>2, <1>3, <1>7, <1>8 DEF PubInv

-----------------------------------------------------------------------------
(* The consumer                                                             *)

\* The tables are as they were.
LEMMA TablesUntouched ==
    ASSUME PubInv, UNCHANGED <<outbox, ledger, poller>>, IInv'
    PROVE  BatchesOK' /\ CompletedIsApplied'
<1>1. StoresTypeOK /\ StoresTypeOK'
  BY DEF PubInv, IInv, ProcessingTypeOK
<1>2. RowsStay
  BY RowsUntouched DEF PubInv
<1> QED BY <1>1, <1>2, BatchesKept, CompletedKept DEF PubInv, StoresTypeOK

LEMMA ReceivePreserves ==
    ASSUME PubInv, NEW i \in Instances, NEW t \in TxIds, Receive(i, t)
    PROVE  PubInv'
<1>1. IInv'
  BY DeliverPreserves DEF PubInv, Receive
<1>2. BatchesOK' /\ CompletedIsApplied'
  BY <1>1, TablesUntouched DEF Receive, Deliver, storeVars
<1>3. delivered' \in [TxIds -> Deliveries]
  BY DEF Receive, CountDelivery, PubInv, Deliveries
<1> QED BY <1>1, <1>2, <1>3 DEF PubInv

\* The call of instance i is over, or lost: it holds no lock afterwards.
LEMMA CallGone ==
    ASSUME IInv, NEW i \in Instances,
           worker' = [worker EXCEPT ![i] = IdleWorker],
           rowLock' = rowLock \/ Release(i),
           \A a \in AccountIds : rowLock'[a] # i,
           UNCHANGED <<request, accounts, outbox, ledger>>,
           faults' \in 0 .. MaxFaults
    PROVE  IInv' /\ worker'[i].pc = "idle" /\ \A j \in Instances \ {i} : worker'[j] = worker[j]
<1>1. worker \in [Instances -> WorkerRecords] /\ StoresTypeOK
  BY DEF IInv, ProcessingTypeOK
<1>2. rowLock' \in [AccountIds -> Instances \cup {NoInstance}]
  BY <1>1 DEF StoresTypeOK, Release
<1>3. StoresTypeOK'
  BY <1>1, <1>2 DEF StoresTypeOK
<1>4. NoAccount \in AccountRecords
  BY BankAssumption DEF BankAssumption, NoAccount, AccountRecords
<1>5. worker' \in [Instances -> WorkerRecords]
  BY <1>1, <1>4 DEF WorkerRecords, WorkerPCs, IdleWorker
<1>6. worker'[i].pc = "idle"
  BY <1>1 DEF IdleWorker
<1>7. InstanceOK(i)'
  BY <1>6 DEF InstanceOK, CallOK, LockOK, SnapshotOK, HoldsLock, InTransaction
<1>8. \A j \in Instances \ {i} : worker'[j] = worker[j]
  BY <1>1
<1>9. \A j \in Instances \ {i}, a \in AccountIds : rowLock'[a] = j <=> rowLock[a] = j
  BY <1>1, StoresAssumption DEF StoresTypeOK, Release, StoresAssumption
<1>10. IInv'
  BY <1>3, <1>5, <1>7, <1>8, <1>9, StepPreserves
<1> QED BY <1>6, <1>8, <1>10

\* A call that has returned holds no lock.
LEMMA ReturnedIsFree ==
    ASSUME IInv, NEW i \in Instances, worker[i].pc = "done"
    PROVE  \A a \in AccountIds : rowLock[a] # i
<1> QED BY DEF IInv, InstanceOK, LockOK, HoldsLock

LEMMA AcknowledgePreserves ==
    ASSUME PubInv, NEW i \in Instances, Acknowledge(i)
    PROVE  PubInv'
<1>1. /\ worker[i].pc = "done" /\ worker' = [worker EXCEPT ![i] = IdleWorker]
      /\ UNCHANGED <<request, accounts, rowLock, outbox, ledger, poller, delivered>>
      /\ Succeeds \/ Fails
  BY DEF Acknowledge
<1>2. faults' \in 0 .. MaxFaults
  BY <1>1, FaultsTyped DEF PubInv, IInv, ProcessingTypeOK, StoresTypeOK
<1>3. IInv'
  BY <1>1, <1>2, ReturnedIsFree, CallGone DEF PubInv
<1> QED BY <1>1, <1>3, TablesUntouched DEF PubInv

-----------------------------------------------------------------------------
(* The poller                                                               *)

\* A statement of a poller concerns a row that exists, unless it is a tick.
LEMMA PollEffect ==
    ASSUME BatchesOK, NEW i \in Instances, PollerStep(i)
    PROVE  /\ UNCHANGED <<request, accounts, rowLock>> /\ (Succeeds \/ Fails)
           /\ \E pc \in PollerPCs : Moves(i, pc)
           /\ \/ UNCHANGED <<outbox, ledger>>
              \/ \E t \in TxIds :
                   /\ HasRow(t)
                   /\ \/ outbox' = outbox
                      \/ SetOutboxStatus(t, "PROCESSED")
                      \/ SetOutboxStatus(t, "FAILED_TO_PUBLISH")
                      \/ IncrementAttempts(t)
                   /\ \/ ledger' = ledger
                      \/ InsertEntry(t, "COMPLETED")
                      \/ UpdateEntry(t, "COMPLETED")
<1>1. CASE Fetch(i)
  <2>1. Moves(i, "find") \/ Moves(i, "idle")
    BY <1>1, TickMoves
  <2> QED BY <1>1, <2>1 DEF Fetch, PollerPCs
<1>2. CASE ~Fetch(i)
  <2> DEFINE t == Message(i).tx
  <2>1. poller[i].pc # "idle"
    BY <1>2 DEF PollerStep, PublishFind, PublishUpdate, PublishCheck, PublishInsert,
                MarkProcessed, CountAttempt, GiveUp
  <2>2. t \in TxIds /\ HasRow(t)
    BY <2>1, MessageOfBatch
  <2>3. \/ NextMessage(i)
        \/ \E pc \in PollerPCs \ {"idle"} : Step(i, pc)
    BY <1>2 DEF PollerStep, PublishFind, PublishUpdate, PublishCheck, PublishInsert,
                MarkProcessed, CountAttempt, GiveUp, PublishFails, PollerPCs
  <2>4. \E pc \in PollerPCs : Moves(i, pc)
    BY <2>1, <2>3, StepOfBatch, EndOfMessage DEF PollerPCs
  <2>5. UNCHANGED <<request, accounts, rowLock>> /\ (Succeeds \/ Fails)
    BY <1>2 DEF PollerStep, PublishFind, PublishUpdate, PublishCheck, PublishInsert,
                MarkProcessed, CountAttempt, GiveUp, PublishFails
  <2>6. /\ \/ outbox' = outbox
           \/ SetOutboxStatus(t, "PROCESSED")
           \/ SetOutboxStatus(t, "FAILED_TO_PUBLISH")
           \/ IncrementAttempts(t)
        /\ \/ ledger' = ledger
           \/ InsertEntry(t, "COMPLETED")
           \/ UpdateEntry(t, "COMPLETED")
    BY <1>2 DEF PollerStep, PublishFind, PublishUpdate, PublishCheck, PublishInsert,
                MarkProcessed, CountAttempt, GiveUp
  <2> HIDE DEF t
  <2> QED BY <2>2, <2>4, <2>5, <2>6
<1> QED BY <1>1, <1>2

\* A row keeps existing, and the others are as they were.
LEMMA RowWritten ==
    ASSUME outbox \in [TxIds -> OutboxRows], NEW t \in TxIds, HasRow(t),
           \/ outbox' = outbox
           \/ SetOutboxStatus(t, "PROCESSED")
           \/ SetOutboxStatus(t, "FAILED_TO_PUBLISH")
           \/ IncrementAttempts(t)
    PROVE  /\ outbox' \in [TxIds -> OutboxRows]
           /\ \A u \in TxIds : /\ outbox'[u].status # "ABSENT" <=> HasRow(u)
                               /\ outbox[u].attempts <= outbox'[u].attempts
           /\ \A u \in TxIds \ {t} : outbox'[u] = outbox[u]
<1>1. \A u \in TxIds : outbox[u].attempts \in Nat
  BY DEF OutboxRows
<1>2. CASE outbox' = outbox
  BY <1>1, <1>2 DEF HasRow
<1>3. CASE SetOutboxStatus(t, "PROCESSED") \/ SetOutboxStatus(t, "FAILED_TO_PUBLISH")
  <2>1. PICK status \in OutboxStatuses \ {"ABSENT"} : SetOutboxStatus(t, status)
    BY <1>3 DEF OutboxStatuses
  <2> QED BY <1>1, <2>1, StatusSet DEF HasRow
<1>4. CASE IncrementAttempts(t)
  <2>1. outbox[t].attempts <= outbox[t].attempts + 1
    BY <1>1
  <2> QED BY <1>1, <1>4, <2>1, AttemptCounted DEF HasRow
<1> QED BY <1>2, <1>3, <1>4

LEMMA PollPreserves ==
    ASSUME PubInv, NEW i \in Instances, Poll(i)
    PROVE  PubInv' /\ \A u \in TxIds : HasRow(u)' <=> HasRow(u)
<1>1. IInv /\ BatchesOK /\ CompletedIsApplied /\ StoresTypeOK
  BY DEF PubInv, IInv, ProcessingTypeOK
<1>2. PollerStep(i) /\ UNCHANGED <<worker, delivered>>
  BY DEF Poll
<1>3. /\ UNCHANGED <<request, accounts, rowLock>> /\ (Succeeds \/ Fails)
      /\ \E pc \in PollerPCs : Moves(i, pc)
  BY <1>1, <1>2, PollEffect
<1>4. faults' \in 0 .. MaxFaults
  BY <1>1, <1>3, FaultsTyped DEF StoresTypeOK
<1>5. /\ StoresTypeOK' /\ RowsStay
      /\ \A u \in TxIds : HasRow(u)' <=> HasRow(u)
      /\ \A u \in TxIds : ~HasRow(u) => outbox'[u] = outbox[u]
      /\ \A u \in TxIds : ledger'[u]["COMPLETED"] > 0 => ledger[u]["COMPLETED"] > 0 \/ HasRow(u)
  <2>1. CASE UNCHANGED <<outbox, ledger>>
    <3>1. StoresTypeOK'
      BY <1>1, <1>3, <1>4, <2>1 DEF StoresTypeOK
    <3> QED BY <1>1, <2>1, <3>1, RowsUntouched DEF HasRow
  <2>2. ASSUME NEW t \in TxIds, HasRow(t),
               \/ outbox' = outbox
               \/ SetOutboxStatus(t, "PROCESSED")
               \/ SetOutboxStatus(t, "FAILED_TO_PUBLISH")
               \/ IncrementAttempts(t),
               \/ ledger' = ledger
               \/ InsertEntry(t, "COMPLETED")
               \/ UpdateEntry(t, "COMPLETED")
        PROVE  /\ StoresTypeOK' /\ RowsStay
               /\ \A u \in TxIds : HasRow(u)' <=> HasRow(u)
               /\ \A u \in TxIds : ~HasRow(u) => outbox'[u] = outbox[u]
               /\ \A u \in TxIds : ledger'[u]["COMPLETED"] > 0 =>
                                      ledger[u]["COMPLETED"] > 0 \/ HasRow(u)
    <3>1. /\ outbox' \in [TxIds -> OutboxRows]
          /\ \A u \in TxIds : /\ outbox'[u].status # "ABSENT" <=> HasRow(u)
                              /\ outbox[u].attempts <= outbox'[u].attempts
          /\ \A u \in TxIds \ {t} : outbox'[u] = outbox[u]
      BY <1>1, <2>2, RowWritten DEF StoresTypeOK
    <3>2. ledger' \in [TxIds -> [LedgerStatuses -> Nat]]
      BY <1>1, <2>2, LedgerTyped DEF StoresTypeOK, LedgerStatuses
    <3>3. \A u \in TxIds \ {t} : ledger'[u] = ledger[u]
      BY <1>1, <2>2 DEF StoresTypeOK, InsertEntry, UpdateEntry
    <3>4. StoresTypeOK'
      BY <1>1, <1>3, <1>4, <3>1, <3>2 DEF StoresTypeOK
    <3>5. RowsStay /\ \A u \in TxIds : HasRow(u)' <=> HasRow(u)
      BY <3>1 DEF RowsStay, HasRow
    <3> QED BY <2>2, <3>1, <3>3, <3>4, <3>5
  <2> QED BY <1>1, <1>2, <2>1, <2>2, PollEffect
<1>6. IInv'
  <2>1. ASSUME NEW j \in Instances, NEW u \in TxIds, worker[j].pc = "commit", worker[j].tx = u
        PROVE  outbox'[u] = outbox[u]
    <3>1. ~HasRow(u)
      BY <1>1, <2>1 DEF IInv, InstanceOK, CallOK
    <3> QED BY <1>5, <3>1
  <2>2. \A j \in Instances : InstanceOK(j)'
    BY <1>1, <1>2, <1>3, <2>1, OthersPreserved
  <2> QED BY <1>1, <1>2, <1>5, <2>2 DEF IInv, ProcessingTypeOK
<1>7. BatchesOK'
  BY <1>1, <1>3, <1>5, BatchesMoved
<1>8. CompletedIsApplied'
  BY <1>1, <1>5, CompletedKept DEF StoresTypeOK
<1> QED BY <1>2, <1>5, <1>6, <1>7, <1>8 DEF PubInv

-----------------------------------------------------------------------------
(* The death of a process                                                   *)

\* The poller of a dead process has nothing in hand.
LEMMA PollerGone ==
    ASSUME BatchesOK, NEW i \in Instances, poller' = [poller EXCEPT ![i] = IdlePoller]
    PROVE  Moves(i, "idle")
<1>1. poller \in [Instances -> PollerRecords]
  BY DEF BatchesOK, PollerTypeOK
<1>2. poller'[i] = [pc |-> "idle", batch |-> <<>>]
  BY <1>1 DEF IdlePoller
<1>3. poller'[i] \in PollerRecords
  <2>1. <<>> \in Seq(Messages)
    OBVIOUS
  <2>2. IdlePoller \in PollerRecords
    BY <2>1 DEF IdlePoller, PollerRecords, PollerPCs
  <2>3. poller'[i] = IdlePoller
    BY <1>1
  <2> QED BY <2>2, <2>3
<1>4. \A j \in Instances \ {i} : poller'[j] = poller[j]
  BY <1>1
<1>5. poller' \in [Instances -> PollerRecords]
  BY <1>1, <1>3, <1>4
<1>6. BatchOK(poller'[i].batch)
  <2>1. DOMAIN poller'[i].batch = {}
    BY <1>2
  <2> QED BY <2>1 DEF BatchOK
<1>7. \A j \in Instances : poller'[j].pc = "idle" <=> poller'[j].batch = <<>>
  BY <1>2, <1>4 DEF BatchesOK, PollerTypeOK
<1> QED BY <1>2, <1>4, <1>5, <1>6, <1>7 DEF Moves

LEMMA DiePreserves ==
    ASSUME PubInv, NEW i \in Instances, Die(i)
    PROVE  PubInv'
<1>1. \A a \in AccountIds : rowLock'[a] # i
  BY StoresAssumption DEF Die, Release, StoresAssumption
<1>2. faults' \in 0 .. MaxFaults
  BY DEF Die, PubInv, IInv, ProcessingTypeOK, StoresTypeOK
<1>3. IInv'
  BY <1>1, <1>2, CallGone DEF PubInv, Die
<1>4. StoresTypeOK /\ StoresTypeOK' /\ RowsStay
  BY <1>3, RowsUntouched DEF PubInv, IInv, ProcessingTypeOK, Die
<1>5. BatchesOK'
  BY <1>4, PollerGone, BatchesMoved DEF PubInv, Die
<1>6. CompletedIsApplied'
  BY <1>4, CompletedKept DEF PubInv, Die, StoresTypeOK
<1> QED BY <1>3, <1>5, <1>6 DEF PubInv, Die

-----------------------------------------------------------------------------
(* The invariant                                                            *)

LEMMA InitPubInv == PublicationInit => PubInv
<1> SUFFICES ASSUME PublicationInit PROVE PubInv
  OBVIOUS
<1>1. IInv
  BY InitIInv DEF PublicationInit
<1>2. StoresTypeOK
  BY <1>1 DEF IInv, ProcessingTypeOK
<1>3. BatchesOK
  <2>1. <<>> \in Seq(Messages) /\ DOMAIN <<>> = {}
    OBVIOUS
  <2>2. PollerTypeOK
    BY <1>2, <2>1 DEF PublicationInit, PollerTypeOK, PollerRecords, PollerPCs, IdlePoller
  <2>3. \A i \in Instances : BatchOK(poller[i].batch)
    BY <2>1 DEF PublicationInit, IdlePoller, BatchOK
  <2> QED BY <2>2, <2>3 DEF BatchesOK
<1>4. CompletedIsApplied
  BY DEF PublicationInit, ProcessingInit, StoresInit, CompletedIsApplied, LedgerStatuses
<1>5. delivered \in [TxIds -> Deliveries]
  BY DEF PublicationInit, Deliveries
<1> QED BY <1>1, <1>3, <1>4, <1>5 DEF PubInv

\* A step that concerns none of the variables of the module.
LEMMA StutterPreserves == PubInv /\ UNCHANGED publicationVars => PubInv'
<1> SUFFICES ASSUME PubInv, UNCHANGED publicationVars PROVE PubInv'
  OBVIOUS
<1>1. UNCHANGED processingVars /\ UNCHANGED <<outbox, ledger, poller, delivered>>
  BY DEF publicationVars, processingVars
<1>2. IInv'
  BY <1>1, NextIInv DEF PubInv
<1> QED BY <1>1, <1>2, TablesUntouched DEF PubInv

LEMMA NextPubInv == PubInv /\ [PublicationNext]_publicationVars => PubInv'
<1> QED BY StutterPreserves, ReceivePreserves, CallStepPreserves, AcknowledgePreserves,
           PollPreserves, DiePreserves DEF PublicationNext

\* PubInv is an invariant of Publication.
THEOREM PublicationInvariance == PublicationSpec => []PubInv
<1> QED BY InitPubInv, NextPubInv, PTL DEF PublicationSpec

\* Every variable keeps its type: also, a poller has messages in hand exactly while
\* it is in a pass, and no balance leaves 0 .. MaxInt (poller.go:63-115).
THEOREM PublicationTypeCorrect == PublicationSpec => []PublicationTypeOK
<1>1. PubInv => PublicationTypeOK
  BY DEF PubInv, IInv, BatchesOK, PublicationTypeOK
<1> QED BY <1>1, PublicationInvariance, PTL

\* Row locks are held exactly by the calls inside their database transaction,
\* also when processes die inside one (processing_service.go:79-146).
THEOREM PublicationLocksCorrect == PublicationSpec => []LocksMatchCalls
<1>1. PubInv => LocksMatchCalls
  BY DEF PubInv, IInv, InstanceOK, LockOK, LocksMatchCalls
<1> QED BY <1>1, PublicationInvariance, PTL

\* The ledger shows nothing as completed that is not applied, whatever fails,
\* dies, or is delivered or published twice (ledger_publisher.go:41-104).
THEOREM CompletedCorrect == PublicationSpec => []CompletedIsApplied
<1>1. PubInv => CompletedIsApplied
  BY DEF PubInv
<1> QED BY <1>1, PublicationInvariance, PTL

LEMMA NextMovesMoney ==
    PubInv /\ [PublicationNext]_publicationVars => [Promise!Next]_Promise!vars
<1> SUFFICES ASSUME PubInv, [PublicationNext]_publicationVars PROVE [Promise!Next]_Promise!vars
  OBVIOUS
<1>1. UNCHANGED <<request, accounts, outbox>> => UNCHANGED Promise!vars
  BY DEF Promise!vars, AppliedTxs, HasRow
<1>2. ASSUME NEW i \in Instances, CallStep(i) PROVE [Promise!Next]_Promise!vars
  BY <1>2, NextImplements DEF CallStep, ProcessingNext, PubInv
<1>3. ASSUME NEW i \in Instances, Poll(i) PROVE UNCHANGED Promise!vars
  <2>1. \A u \in TxIds : HasRow(u)' <=> HasRow(u)
    BY <1>3, PollPreserves
  <2>2. AppliedTxs' = AppliedTxs
    BY <2>1 DEF AppliedTxs
  <2>3. UNCHANGED <<request, accounts>>
    BY <1>3, PollEffect DEF Poll, PubInv
  <2> QED BY <2>2, <2>3 DEF Promise!vars
<1>4. ASSUME NEW i \in Instances, (\E t \in TxIds : Receive(i, t)) \/ Acknowledge(i) \/ Die(i)
      PROVE  UNCHANGED <<request, accounts, outbox>>
  BY <1>4 DEF Receive, Deliver, Acknowledge, Die, storeVars
<1>5. UNCHANGED publicationVars => UNCHANGED <<request, accounts, outbox>>
  BY DEF publicationVars
<1> QED BY <1>1, <1>2, <1>3, <1>4, <1>5 DEF PublicationNext

\* Publication implements ExactlyOnce: whatever dies, is redelivered, fails or runs
\* beside it, a transaction changes its account at most once, by the signed amount,
\* when the account accepts it (processing_service.go:70-146).
THEOREM PublicationRefinement == PublicationSpec => ImplementsExactlyOnce
<1>1. PublicationInit => Promise!Init
  BY InitImplements DEF PublicationInit
<1> QED BY <1>1, NextMovesMoney, PublicationInvariance, PTL
        DEF PublicationSpec, ImplementsExactlyOnce, Promise!Spec

-----------------------------------------------------------------------------
(* The books of the accounts *)

\* Whatever a poller writes, a row keeps its created_at.
LEMMA StampsKept ==
    ASSUME PubInv, NEW i \in Instances, PollerStep(i)
    PROVE  \A u \in TxIds : outbox'[u].createdAt = outbox[u].createdAt
<1>1. outbox \in [TxIds -> OutboxRows]
  BY DEF PubInv, IInv, ProcessingTypeOK, StoresTypeOK
<1>2. \/ outbox' = outbox
      \/ \E t \in TxIds : \/ SetOutboxStatus(t, "PROCESSED")
                          \/ SetOutboxStatus(t, "FAILED_TO_PUBLISH")
                          \/ IncrementAttempts(t)
  BY PollEffect DEF PubInv
<1>3. ASSUME NEW t \in TxIds, NEW status, SetOutboxStatus(t, status)
      PROVE  \A u \in TxIds : outbox'[u].createdAt = outbox[u].createdAt
  BY <1>1, <1>3 DEF SetOutboxStatus, OutboxRows
<1>4. ASSUME NEW t \in TxIds, IncrementAttempts(t)
      PROVE  \A u \in TxIds : outbox'[u].createdAt = outbox[u].createdAt
  BY <1>1, <1>4 DEF IncrementAttempts, OutboxRows
<1> QED BY <1>2, <1>3, <1>4

\* A call that is about to commit after a step that stamps nothing already was.
LEMMA QuietBooks ==
    ASSUME PubInv, BooksInv, UNCHANGED <<request, accounts, outbox>>,
           \/ worker' = worker
           \/ \E i \in Instances : \E w : w.pc # "commit" /\ worker' = [worker EXCEPT ![i] = w]
    PROVE  BooksInv'
<1>1. worker \in [Instances -> WorkerRecords]
  BY DEF PubInv, IInv, ProcessingTypeOK
<1>2. \A j \in Instances : worker'[j].pc = "commit" => worker'[j] = worker[j]
  BY <1>1
<1> QED BY <1>2, BooksKept DEF HasRow

LEMMA NextKeepsBooks == PubInv /\ BooksInv /\ [PublicationNext]_publicationVars => BooksInv'
<1> SUFFICES ASSUME PubInv, BooksInv, [PublicationNext]_publicationVars PROVE BooksInv'
  OBVIOUS
<1>1. ASSUME NEW i \in Instances, CallStep(i) PROVE BooksInv'
  BY <1>1, CallBooks DEF CallStep, PubInv
<1>2. ASSUME NEW i \in Instances, Poll(i) PROVE BooksInv'
  <2>1. PollerStep(i) /\ worker' = worker
    BY <1>2 DEF Poll
  <2>2. UNCHANGED <<request, accounts>>
    BY <2>1, PollEffect DEF PubInv
  <2> QED BY <1>2, <2>1, <2>2, StampsKept, PollPreserves, BooksKept
<1>3. ASSUME NEW i \in Instances, NEW t \in TxIds, Receive(i, t) PROVE BooksInv'
  <2> DEFINE w == [IdleWorker EXCEPT !.tx = t,
                     !.pc = IF Valid(request[t]) THEN "idempotency" ELSE "recordFind"]
  <2>1. w.pc # "commit"
    BY DEF IdleWorker
  <2>2. worker' = [worker EXCEPT ![i] = w] /\ UNCHANGED <<request, accounts, outbox>>
    BY <1>3 DEF Receive, Deliver, storeVars
  <2> HIDE DEF w
  <2> QED BY <2>1, <2>2, QuietBooks
<1>4. ASSUME NEW i \in Instances, Acknowledge(i) \/ Die(i) PROVE BooksInv'
  <2>1. IdleWorker.pc # "commit"
    BY DEF IdleWorker
  <2>2. /\ worker' = [worker EXCEPT ![i] = IdleWorker]
        /\ UNCHANGED <<request, accounts, outbox>>
    BY <1>4 DEF Acknowledge, Die
  <2> QED BY <2>1, <2>2, QuietBooks
<1>5. CASE UNCHANGED publicationVars
  BY <1>5, QuietBooks DEF publicationVars
<1> QED BY <1>1, <1>2, <1>3, <1>4, <1>5 DEF PublicationNext

\* The books balance beside pollers that write the same rows, also when processes
\* die between the stamp and the commit and requests are redelivered
\* (processing_service.go:99-143, message.go:36).
THEOREM PublicationBooksCorrect == PublicationSpec => []BooksBalance
<1>1. PublicationInit => BooksInv
  BY InitBooks DEF PublicationInit
<1>2. BooksInv => BooksBalance
  BY DEF BooksInv
<1> QED BY <1>1, <1>2, NextKeepsBooks, PublicationInvariance, PTL DEF PublicationSpec
-----------------------------------------------------------------------------
(* What a step of an instance does to the tables *)

\* A document of t, new or changed: t is recorded, the others are as they were.
LEMMA EntryWritten ==
    ASSUME ledger \in [TxIds -> [LedgerStatuses -> Nat]],
           NEW t \in TxIds, NEW s \in LedgerStatuses,
           InsertEntry(t, s) \/ UpdateEntry(t, s)
    PROVE  \A u \in TxIds : HasEntry(u)' <=> (HasEntry(u) \/ u = t)
<1>1. \A u \in TxIds \ {t} : ledger'[u] = ledger[u]
  BY DEF InsertEntry, UpdateEntry
<1>2. ledger'[t][s] > 0
  <2>1. ledger[t][s] \in Nat
    OBVIOUS
  <2>2. CASE InsertEntry(t, s)
    BY <2>1, <2>2 DEF InsertEntry
  <2>3. CASE UpdateEntry(t, s)
    <3>1. PICK old \in StatusesOf(t) :
            ledger' = [ledger EXCEPT ![t] =
                         [x \in LedgerStatuses |->
                            @[x] - (IF x = old THEN 1 ELSE 0) + (IF x = s THEN 1 ELSE 0)]]
      BY <2>3 DEF UpdateEntry
    <3>2. ledger[t][old] > 0
      BY <3>1 DEF StatusesOf
    <3>3. ledger'[t][s] = ledger[t][s] - (IF s = old THEN 1 ELSE 0) + 1
      BY <3>1
    <3> QED BY <2>1, <3>2, <3>3
  <2> QED BY <2>2, <2>3
<1>3. \A u \in TxIds \ {t} : HasEntry(u)' <=> HasEntry(u)
  BY <1>1 DEF HasEntry, StatusesOf
<1>4. HasEntry(t)'
  BY <1>2 DEF HasEntry, StatusesOf
<1> QED BY <1>3, <1>4

\* Nothing changes in the ledger and in the outbox but what concerns a
\* transaction t: its row, or its documents, may appear.
Concerns(t) ==
    /\ \/ \A u \in TxIds : HasEntry(u)' <=> HasEntry(u)
       \/ \A u \in TxIds : HasEntry(u)' <=> (HasEntry(u) \/ u = t)
    /\ \A u \in TxIds \ {t} : HasRow(u)' <=> HasRow(u)

LEMMA CallConcerns ==
    ASSUME PubInv, NEW i \in Instances, CallStep(i)
    PROVE  /\ worker[i].pc # "idle" /\ worker[i].tx \in TxIds
           /\ Concerns(worker[i].tx)
<1>1. IInv /\ StoresTypeOK
  BY DEF PubInv, IInv, ProcessingTypeOK
<1>2. /\ worker[i].pc # "idle"
      /\ \/ outbox' = outbox
         \/ worker[i].pc = "commit" /\ InsertRow(worker[i].tx, worker[i].stamp)
      /\ \/ ledger' = ledger
         \/ InsertEntry(worker[i].tx, "FAILED")
         \/ UpdateEntry(worker[i].tx, "FAILED")
  BY <1>1, CallEffect DEF CallStep
<1>3. worker[i].tx \in TxIds
  BY <1>1, <1>2 DEF IInv, InstanceOK, CallOK
<1>4. ledger \in [TxIds -> [LedgerStatuses -> Nat]] /\ "FAILED" \in LedgerStatuses
  BY <1>1 DEF StoresTypeOK, LedgerStatuses
<1>5. \/ \A u \in TxIds : HasEntry(u)' <=> HasEntry(u)
      \/ \A u \in TxIds : HasEntry(u)' <=> (HasEntry(u) \/ u = worker[i].tx)
  <2>1. CASE ledger' = ledger
    BY <2>1 DEF HasEntry, StatusesOf
  <2>2. CASE InsertEntry(worker[i].tx, "FAILED") \/ UpdateEntry(worker[i].tx, "FAILED")
    BY <1>3, <1>4, <2>2, EntryWritten
  <2> QED BY <1>2, <2>1, <2>2
<1>6. \A u \in TxIds \ {worker[i].tx} : HasRow(u)' <=> HasRow(u)
  <2>1. \A u \in TxIds \ {worker[i].tx} : outbox'[u] = outbox[u]
    BY <1>1, <1>2 DEF InsertRow, StoresTypeOK
  <2> QED BY <2>1 DEF HasRow
<1> QED BY <1>2, <1>3, <1>5, <1>6 DEF Concerns

LEMMA PollConcerns ==
    ASSUME PubInv, NEW i \in Instances, Poll(i)
    PROVE  /\ \A u \in TxIds : HasRow(u)' <=> HasRow(u)
           /\ \/ \A u \in TxIds : HasEntry(u)' <=> HasEntry(u)
              \/ \E t \in TxIds : HasRow(t) /\ Concerns(t)
<1>1. BatchesOK /\ PollerStep(i)
  BY DEF PubInv, Poll
<1>2. ledger \in [TxIds -> [LedgerStatuses -> Nat]] /\ "COMPLETED" \in LedgerStatuses
  BY DEF PubInv, IInv, ProcessingTypeOK, StoresTypeOK, LedgerStatuses
<1>3. \A u \in TxIds : HasRow(u)' <=> HasRow(u)
  BY PollPreserves
<1>4. \/ ledger' = ledger
      \/ \E t \in TxIds : /\ HasRow(t)
                          /\ \/ ledger' = ledger
                             \/ InsertEntry(t, "COMPLETED")
                             \/ UpdateEntry(t, "COMPLETED")
  BY <1>1, PollEffect
<1>5. CASE ledger' = ledger
  BY <1>3, <1>5 DEF HasEntry, StatusesOf
<1>6. ASSUME NEW t \in TxIds, HasRow(t),
             InsertEntry(t, "COMPLETED") \/ UpdateEntry(t, "COMPLETED")
      PROVE  Concerns(t)
  <2>1. \A u \in TxIds : HasEntry(u)' <=> (HasEntry(u) \/ u = t)
    BY <1>2, <1>6, EntryWritten
  <2> QED BY <1>3, <2>1 DEF Concerns
<1> QED BY <1>3, <1>4, <1>5, <1>6

\* A call keeps its transaction, and the others are as they were.
LEMMA CallKeepsTx ==
    ASSUME PubInv, NEW i \in Instances, CallStep(i)
    PROVE  /\ worker'[i].tx = worker[i].tx
           /\ \A j \in Instances \ {i} : worker'[j] = worker[j]
<1>1. worker \in [Instances -> WorkerRecords] /\ ProcessingStep(i)
  BY DEF PubInv, IInv, ProcessingTypeOK, CallStep
<1>2. worker'[i].tx = worker[i].tx
  BY <1>1 DEF ProcessingStep, CheckIdempotency, Begin, LockForUpdate, UpdateAccount,
              CreateOutboxEntry, Commit, RecordFind, RecordUpdate, RecordCheck, RecordInsert,
              ReturnError, Return, Done, Goto, GotoWith, WorkerRecords
<1> QED BY <1>1, <1>2, CallEffect DEF PubInv

-----------------------------------------------------------------------------
(* The retry budget, and what a mark is worth beside calls that write the    *)
(* ledger too                                                                *)

\* What a poller knows of the first message when it is about to give it up or to
\* mark it: of a document in the latter case, but not of its status.
GiveUpOK(i) ==
    poller[i].pc = "giveUp" => outbox[Message(i).tx].attempts >= MaxRetryAttempts
RecordedOK(i) == poller[i].pc = "mark" => HasEntry(Message(i).tx)

\* What it knew when it came there.
MarkOK(i) == poller[i].pc = "mark" => ledger[Message(i).tx]["COMPLETED"] > 0

MarksInv ==
    /\ GivesUpOnlyAfterMaxAttempts
    /\ MarkedIsRecorded
    /\ \A i \in Instances : GiveUpOK(i) /\ RecordedOK(i)

\* Attempts are only counted up and documents are never removed.
OnlyGrows ==
    \A t \in TxIds : /\ outbox[t].attempts \in Nat /\ outbox'[t].attempts \in Nat
                     /\ HasRow(t) => outbox[t].attempts <= outbox'[t].attempts
                     /\ HasEntry(t) => HasEntry(t)'

\* What a poller knew stays true while its message is the same.
LEMMA KnowledgeKept ==
    ASSUME BatchesOK, MarksInv, OnlyGrows, NEW i \in Instances, poller'[i] = poller[i]
    PROVE  GiveUpOK(i)' /\ RecordedOK(i)'
<1>1. SUFFICES ASSUME poller[i].pc \in {"giveUp", "mark"} PROVE GiveUpOK(i)' /\ RecordedOK(i)'
  BY DEF GiveUpOK, RecordedOK
<1>2. Message(i).tx \in TxIds /\ HasRow(Message(i).tx) /\ Message(i)' = Message(i)
  BY <1>1, MessageOfBatch DEF Message
<1>3. GiveUpOK(i) /\ RecordedOK(i) /\ MaxRetryAttempts \in Nat
  BY PollerAssumption DEF MarksInv, PollerAssumption
<1> DEFINE t == Message(i).tx
<1>4. /\ outbox[t].attempts \in Nat /\ outbox'[t].attempts \in Nat
      /\ outbox[t].attempts <= outbox'[t].attempts
      /\ HasEntry(t) => HasEntry(t)'
  <2>1. ASSUME NEW u \in TxIds, u = t, HasRow(u)
        PROVE  /\ outbox[u].attempts \in Nat /\ outbox'[u].attempts \in Nat
               /\ outbox[u].attempts <= outbox'[u].attempts
               /\ HasEntry(u) => HasEntry(u)'
    BY <2>1 DEF OnlyGrows
  <2> QED BY <1>2, <2>1
<1>5. GiveUpOK(i)'
  BY <1>2, <1>3, <1>4 DEF GiveUpOK
<1>6. RecordedOK(i)'
  BY <1>2, <1>3, <1>4 DEF RecordedOK
<1> QED BY <1>5, <1>6

\* A step of anybody else: it gives no row a mark.
LEMMA MarksKept ==
    ASSUME BatchesOK, MarksInv, OnlyGrows, poller' = poller,
           \A t \in TxIds : outbox'[t].status \in {outbox[t].status, "PENDING"}
    PROVE  MarksInv'
<1>1. \A i \in Instances : GiveUpOK(i)' /\ RecordedOK(i)'
  BY KnowledgeKept
<1>2. MaxRetryAttempts \in Nat
  BY PollerAssumption DEF PollerAssumption
<1>3. GivesUpOnlyAfterMaxAttempts'
  BY <1>2 DEF MarksInv, GivesUpOnlyAfterMaxAttempts, OnlyGrows, HasRow
<1>4. MarkedIsRecorded'
  BY DEF MarksInv, MarkedIsRecorded, OnlyGrows
<1> QED BY <1>1, <1>3, <1>4 DEF MarksInv

LEMMA PollGrows ==
    ASSUME PubInv, NEW i \in Instances, Poll(i)
    PROVE  OnlyGrows
<1>1. /\ PollerStep(i) /\ BatchesOK /\ outbox \in [TxIds -> OutboxRows]
      /\ outbox' \in [TxIds -> OutboxRows]
  BY PollPreserves DEF Poll, PubInv, IInv, ProcessingTypeOK, StoresTypeOK
<1>2. \A t \in TxIds : outbox[t].attempts \in Nat /\ outbox'[t].attempts \in Nat
  BY <1>1 DEF OutboxRows
<1>3. \A t \in TxIds : outbox[t].attempts <= outbox'[t].attempts
  <2>1. CASE outbox' = outbox
    BY <1>2, <2>1
  <2>2. ASSUME NEW t \in TxIds, HasRow(t),
               \/ SetOutboxStatus(t, "PROCESSED")
               \/ SetOutboxStatus(t, "FAILED_TO_PUBLISH")
               \/ IncrementAttempts(t)
        PROVE  \A u \in TxIds : outbox[u].attempts <= outbox'[u].attempts
    BY <1>1, <2>2, RowWritten
  <2> QED BY <1>1, <2>1, <2>2, PollEffect
<1>4. \A t \in TxIds : HasEntry(t) => HasEntry(t)'
  BY PollConcerns DEF Concerns
<1> QED BY <1>2, <1>3, <1>4 DEF OnlyGrows

\* The statements that give a row a mark.
LEMMA MarkGiven ==
    ASSUME BatchesOK, NEW i \in Instances, PollerStep(i), NEW u \in TxIds,
           outbox'[u].status # outbox[u].status
    PROVE  /\ u = Message(i).tx
           /\ \/ poller[i].pc = "mark" /\ outbox'[u].status = "PROCESSED"
              \/ poller[i].pc = "giveUp" /\ outbox'[u].status = "FAILED_TO_PUBLISH"
<1> DEFINE t == Message(i).tx
<1>1. outbox \in [TxIds -> OutboxRows]
  BY DEF BatchesOK, PollerTypeOK, StoresTypeOK
<1>2. \/ outbox' = outbox
      \/ poller[i].pc = "mark" /\ SetOutboxStatus(t, "PROCESSED")
      \/ poller[i].pc = "giveUp" /\ SetOutboxStatus(t, "FAILED_TO_PUBLISH")
      \/ poller[i].pc = "increment" /\ IncrementAttempts(t)
  BY DEF PollerStep, Fetch, PublishFind, PublishUpdate, PublishCheck, PublishInsert,
         MarkProcessed, CountAttempt, GiveUp
<1>3. poller[i].pc \in {"mark", "giveUp", "increment"} => t \in TxIds
  BY MessageOfBatch
<1> HIDE DEF t
<1>4. CASE poller[i].pc = "increment" /\ IncrementAttempts(t)
  BY <1>1, <1>3, <1>4, AttemptCounted
<1>5. CASE poller[i].pc = "mark" /\ SetOutboxStatus(t, "PROCESSED")
  BY <1>1, <1>3, <1>5, StatusSet DEF OutboxStatuses, t
<1>6. CASE poller[i].pc = "giveUp" /\ SetOutboxStatus(t, "FAILED_TO_PUBLISH")
  BY <1>1, <1>3, <1>6, StatusSet DEF OutboxStatuses, t
<1> QED BY <1>2, <1>4, <1>5, <1>6

\* The statements that lead to a mark: a COMPLETED document was found or written,
\* or the last attempt was counted.
LEMMA MarkPrepared ==
    ASSUME PubInv, NEW i \in Instances, Poll(i)
    PROVE  GiveUpOK(i)' /\ MarkOK(i)'
<1>1. BatchesOK /\ PollerStep(i) /\ ledger \in [TxIds -> [LedgerStatuses -> Nat]]
  BY DEF PubInv, Poll, IInv, ProcessingTypeOK, StoresTypeOK
<1>2. CASE Fetch(i)
  <2>1. poller'[i].pc \in {"find", "idle"}
    BY <1>1, <1>2, TickMoves DEF Moves
  <2> QED BY <2>1 DEF GiveUpOK, MarkOK
<1>3. CASE ~Fetch(i)
  <2>1. poller[i].pc # "idle"
    BY <1>1, <1>3 DEF PollerStep, PublishFind, PublishUpdate, PublishCheck, PublishInsert,
                      MarkProcessed, CountAttempt, GiveUp
  <2>2. PICK t \in TxIds :
          /\ t = Message(i).tx /\ Message(i).attempts \in Nat
          /\ Message(i).attempts <= outbox[t].attempts
    BY <1>1, <2>1, MessageOfBatch
  <2>3. \/ NextMessage(i)
        \/ \E pc \in PollerPCs \ {"idle", "mark", "giveUp"} : Step(i, pc)
        \/ Step(i, "mark") /\ UNCHANGED ledger /\ ledger[t]["COMPLETED"] > 0
        \/ Step(i, "mark") /\ (UpdateEntry(t, "COMPLETED") \/ InsertEntry(t, "COMPLETED"))
        \/ Step(i, "giveUp") /\ LastAttempt(i) /\ IncrementAttempts(t)
    BY <1>1, <1>3, <2>2 DEF PollerStep, PublishFind, PublishUpdate, PublishCheck, PublishInsert,
                            MarkProcessed, CountAttempt, GiveUp, PublishFails, PollerPCs, FindOne,
                            StatusesOf
  <2>4. CASE NextMessage(i)
    <3>1. poller'[i].pc \in {"find", "idle"}
      BY <1>1, <2>1, <2>4, EndOfMessage DEF Moves
    <3> QED BY <3>1 DEF GiveUpOK, MarkOK
  <2>5. ASSUME NEW pc \in PollerPCs \ {"idle"}, Step(i, pc)
        PROVE  poller'[i].pc = pc /\ Message(i)' = Message(i)
    BY <1>1, <2>1, <2>5, StepOfBatch DEF Moves
  <2>6. ASSUME NEW pc \in PollerPCs \ {"idle", "mark", "giveUp"}, Step(i, pc)
        PROVE  GiveUpOK(i)' /\ MarkOK(i)'
    BY <2>5, <2>6 DEF GiveUpOK, MarkOK
  <2>7. CASE Step(i, "mark") /\ ledger'[t]["COMPLETED"] > 0
    <3>1. poller'[i].pc = "mark" /\ Message(i)' = Message(i)
      BY <2>5, <2>7 DEF PollerPCs
    <3> QED BY <2>2, <2>7, <3>1 DEF GiveUpOK, MarkOK
  <2>8. \/ UNCHANGED ledger /\ ledger[t]["COMPLETED"] > 0
        \/ UpdateEntry(t, "COMPLETED") \/ InsertEntry(t, "COMPLETED")
        => ledger'[t]["COMPLETED"] > 0
    BY <1>1, EntryCompleted, EntryInserted DEF LedgerStatuses
  <2>9. CASE Step(i, "giveUp") /\ LastAttempt(i) /\ IncrementAttempts(t)
    <3>1. poller'[i].pc = "giveUp" /\ Message(i)' = Message(i)
      BY <2>5, <2>9 DEF PollerPCs
    <3>2. outbox'[t].attempts = outbox[t].attempts + 1 /\ outbox[t].attempts \in Nat
      BY <2>2, <2>9, AttemptCounted DEF PubInv, IInv, ProcessingTypeOK, StoresTypeOK, OutboxRows
    <3>3. outbox'[t].attempts >= MaxRetryAttempts
      BY <2>2, <2>9, <3>2, PollerAssumption DEF LastAttempt, PollerAssumption
    <3> QED BY <2>2, <3>1, <3>3 DEF GiveUpOK, MarkOK
  <2> QED BY <2>3, <2>4, <2>6, <2>7, <2>8, <2>9
<1> QED BY <1>2, <1>3

LEMMA PollKeepsMarks ==
    ASSUME PubInv, MarksInv, NEW i \in Instances, Poll(i)
    PROVE  MarksInv'
<1>1. BatchesOK /\ PollerStep(i) /\ OnlyGrows
  BY PollGrows DEF PubInv, Poll
<1>2. \A j \in Instances \ {i} : poller'[j] = poller[j]
  BY <1>1, PollEffect DEF Moves
<1>3. \A j \in Instances : GiveUpOK(j)' /\ RecordedOK(j)'
  <2>1. GiveUpOK(i)' /\ MarkOK(i)'
    BY MarkPrepared
  <2>2. RecordedOK(i)'
    BY <2>1 DEF MarkOK, RecordedOK, HasEntry, StatusesOf, LedgerStatuses
  <2> QED BY <1>1, <1>2, <2>1, <2>2, KnowledgeKept
<1>4. MaxRetryAttempts \in Nat
  BY PollerAssumption DEF PollerAssumption
<1>5. ASSUME NEW u \in TxIds
      PROVE  /\ outbox'[u].status = "FAILED_TO_PUBLISH" => outbox'[u].attempts >= MaxRetryAttempts
             /\ outbox'[u].status = "PROCESSED" => HasEntry(u)'
  <2>1. CASE outbox'[u].status = outbox[u].status
    <3>1. outbox[u].status = "FAILED_TO_PUBLISH" => outbox[u].attempts >= MaxRetryAttempts
      BY DEF MarksInv, GivesUpOnlyAfterMaxAttempts
    <3>2. outbox[u].status = "PROCESSED" => HasEntry(u)
      BY DEF MarksInv, MarkedIsRecorded
    <3> QED BY <1>1, <1>4, <2>1, <3>1, <3>2 DEF OnlyGrows, HasRow
  <2>2. CASE outbox'[u].status # outbox[u].status
    <3>1. /\ u = Message(i).tx
          /\ \/ poller[i].pc = "mark" /\ outbox'[u].status = "PROCESSED"
             \/ poller[i].pc = "giveUp" /\ outbox'[u].status = "FAILED_TO_PUBLISH"
      BY <1>1, <2>2, MarkGiven
    <3>2. poller[i].pc = "mark" => HasEntry(u)'
      BY <1>1, <3>1 DEF MarksInv, RecordedOK, OnlyGrows
    <3>3. poller[i].pc = "giveUp" => outbox'[u].attempts >= MaxRetryAttempts
      <4>1. SUFFICES ASSUME poller[i].pc = "giveUp"
                     PROVE  outbox'[u].attempts >= MaxRetryAttempts
        OBVIOUS
      <4>2. HasRow(u) /\ outbox[u].attempts >= MaxRetryAttempts
        BY <1>1, <3>1, <4>1, MessageOfBatch DEF MarksInv, GiveUpOK
      <4> QED BY <1>1, <1>4, <4>2 DEF OnlyGrows
    <3> QED BY <3>1, <3>2, <3>3
  <2> QED BY <2>1, <2>2
<1> QED BY <1>3, <1>5 DEF MarksInv, GivesUpOnlyAfterMaxAttempts, MarkedIsRecorded

LEMMA CallKeepsMarks ==
    ASSUME PubInv, MarksInv, NEW i \in Instances, CallStep(i)
    PROVE  MarksInv'
<1>1. /\ BatchesOK /\ poller' = poller
      /\ outbox \in [TxIds -> OutboxRows] /\ outbox' \in [TxIds -> OutboxRows]
  BY CallStepPreserves DEF CallStep, PubInv, IInv, ProcessingTypeOK, StoresTypeOK
<1>2. worker[i].tx \in TxIds /\ \A t \in TxIds : HasEntry(t) => HasEntry(t)'
  BY CallConcerns DEF Concerns
<1>3. \/ outbox' = outbox
      \/ worker[i].pc = "commit" /\ InsertRow(worker[i].tx, worker[i].stamp)
  BY CallEffect DEF PubInv, CallStep
<1>4. \A t \in TxIds :
        \/ outbox'[t] = outbox[t]
        \/ ~HasRow(t) /\ outbox'[t].status = "PENDING"
  <2>1. worker[i].pc = "commit" => ~HasRow(worker[i].tx)
    BY DEF PubInv, IInv, InstanceOK, CallOK
  <2> QED BY <1>1, <1>2, <1>3, <2>1 DEF InsertRow, PendingRow
<1>5. \A t \in TxIds : outbox[t].attempts \in Nat /\ outbox'[t].attempts \in Nat
  BY <1>1 DEF OutboxRows
<1>6. OnlyGrows
  <2>1. ASSUME NEW t \in TxIds, HasRow(t) PROVE outbox[t].attempts <= outbox'[t].attempts
    BY <1>4, <1>5, <2>1
  <2> QED BY <1>2, <1>5, <2>1 DEF OnlyGrows
<1>7. \A t \in TxIds : outbox'[t].status \in {outbox[t].status, "PENDING"}
  BY <1>4
<1> QED BY <1>1, <1>6, <1>7, MarksKept

LEMMA NextKeepsMarks == PubInv /\ MarksInv /\ [PublicationNext]_publicationVars => MarksInv'
<1> SUFFICES ASSUME PubInv, MarksInv, [PublicationNext]_publicationVars PROVE MarksInv'
  OBVIOUS
<1>1. /\ BatchesOK /\ outbox \in [TxIds -> OutboxRows]
      /\ poller \in [Instances -> PollerRecords]
  BY DEF PubInv, BatchesOK, PollerTypeOK, StoresTypeOK
<1>2. ASSUME UNCHANGED <<outbox, ledger>> PROVE OnlyGrows
  <2>1. \A t \in TxIds : HasEntry(t) => HasEntry(t)'
    BY <1>2 DEF HasEntry, StatusesOf
  <2>2. \A t \in TxIds : outbox[t].attempts \in Nat /\ outbox'[t] = outbox[t]
    BY <1>1, <1>2 DEF OutboxRows
  <2> QED BY <2>1, <2>2 DEF OnlyGrows
<1>3. ASSUME UNCHANGED <<outbox, ledger, poller>> PROVE MarksInv'
  BY <1>1, <1>2, <1>3, MarksKept
<1>4. ASSUME NEW i \in Instances, Die(i) PROVE MarksInv'
  <2>1. UNCHANGED <<outbox, ledger>> /\ poller' = [poller EXCEPT ![i] = IdlePoller]
    BY <1>4 DEF Die
  <2>2. poller'[i].pc = "idle" /\ \A j \in Instances \ {i} : poller'[j] = poller[j]
    BY <1>1, <2>1 DEF IdlePoller
  <2>3. GiveUpOK(i)' /\ RecordedOK(i)'
    BY <2>2 DEF GiveUpOK, RecordedOK
  <2>4. \A j \in Instances : GiveUpOK(j)' /\ RecordedOK(j)'
    BY <1>1, <1>2, <2>1, <2>2, <2>3, KnowledgeKept
  <2>5. GivesUpOnlyAfterMaxAttempts' /\ MarkedIsRecorded'
    BY <2>1 DEF MarksInv, GivesUpOnlyAfterMaxAttempts, MarkedIsRecorded, HasEntry, StatusesOf
  <2> QED BY <2>4, <2>5 DEF MarksInv
<1>5. ASSUME NEW i \in Instances, (\E t \in TxIds : Receive(i, t)) \/ Acknowledge(i)
      PROVE  UNCHANGED <<outbox, ledger, poller>>
  BY <1>5 DEF Receive, Deliver, Acknowledge, storeVars
<1>6. UNCHANGED publicationVars => UNCHANGED <<outbox, ledger, poller>>
  BY DEF publicationVars
<1> QED BY <1>3, <1>4, <1>5, <1>6, PollKeepsMarks, CallKeepsMarks DEF PublicationNext

\* MarksInv is an invariant of Publication.
THEOREM MarksInvariance == PublicationSpec => []MarksInv
<1>1. PublicationInit => MarksInv
  <2> SUFFICES ASSUME PublicationInit PROVE MarksInv
    OBVIOUS
  <2>1. \A i \in Instances : GiveUpOK(i) /\ RecordedOK(i)
    BY DEF PublicationInit, IdlePoller, GiveUpOK, RecordedOK
  <2>2. GivesUpOnlyAfterMaxAttempts /\ MarkedIsRecorded
    BY DEF PublicationInit, ProcessingInit, StoresInit, NoRow, GivesUpOnlyAfterMaxAttempts,
           MarkedIsRecorded
  <2> QED BY <2>1, <2>2 DEF MarksInv
<1> QED BY <1>1, NextKeepsMarks, PublicationInvariance, PTL DEF PublicationSpec

\* The whole retry budget is spent before a row is given up, whatever dies and
\* however many pollers count for the same row (poller.go:97-113).
THEOREM BudgetIsSpent == PublicationSpec => []GivesUpOnlyAfterMaxAttempts
<1>1. MarksInv => GivesUpOnlyAfterMaxAttempts
  BY DEF MarksInv
<1> QED BY <1>1, MarksInvariance, PTL

\* A row marked as processed has a document, although the calls write the ledger
\* beside the pollers and may overwrite what they wrote
\* (ledger_publisher.go:41-104, failure_recorder.go:50-77).
THEOREM MarkedIsRecordedCorrect == PublicationSpec => []MarkedIsRecorded
<1>1. MarksInv => MarkedIsRecorded
  BY DEF MarksInv
<1> QED BY <1>1, MarksInvariance, PTL
-----------------------------------------------------------------------------
(* What a single delivery guarantees.  A second delivery of a transaction    *)
(* may be refused on the balance the first one left, and recorded as failed; *)
(* all that is said here is about the transactions that had none, whatever   *)
(* happens to the others.                                                    *)

\* Instance i has the transaction in hand; some instance has.
Working(i, t) == worker[i].pc # "idle" /\ worker[i].tx = t
InWork(t) == \E i \in Instances : worker[i].pc # "idle" /\ worker[i].tx = t

\* One call at most works on the transaction, and until it returns there is
\* neither a row nor a document; the pollers that mark the row know a COMPLETED
\* document.
OnceOK(t) ==
    /\ delivered[t] = "never" => ~Settled(t) /\ ~InWork(t)
    /\ \A i, j \in Instances : Working(i, t) /\ Working(j, t) => i = j
    /\ \A i \in Instances :
          Working(i, t) /\ worker[i].pc # "done" =>
              ~Settled(t) /\ worker[i].pc # "recordUpdate"
    /\ HasRow(t) => ledger[t]["FAILED"] = 0
    /\ outbox[t].status = "PROCESSED" => ledger[t]["COMPLETED"] > 0
    /\ \A i \in Instances :
          poller[i].pc = "mark" /\ Message(i).tx = t => ledger[t]["COMPLETED"] > 0

OnceInv == \A t \in TxIds : Once(t) => OnceOK(t)

\* Calls may end and pollers may start over, as long as nothing new is known of
\* the transaction.
LEMMA OnceKept ==
    ASSUME NEW u \in TxIds, OnceOK(u),
           outbox'[u] = outbox[u], ledger'[u] = ledger[u], delivered'[u] = delivered[u],
           \A j \in Instances : worker'[j] = worker[j] \/ ~Working(j, u)',
           \A j \in Instances : poller'[j] = poller[j] \/ poller'[j].pc # "mark"
    PROVE  OnceOK(u)'
<1>1. (HasRow(u)' <=> HasRow(u)) /\ (Settled(u)' <=> Settled(u))
  BY DEF HasRow, HasEntry, StatusesOf, Settled
<1>2. \A j \in Instances : Working(j, u)' => worker'[j] = worker[j] /\ Working(j, u)
  BY DEF Working
<1>3. InWork(u)' => InWork(u)
  BY <1>2 DEF InWork, Working
<1>4. \A j \in Instances : poller'[j].pc = "mark" /\ Message(j)'.tx = u => ledger'[u]["COMPLETED"] > 0
  BY DEF OnceOK, Message
<1> QED BY <1>1, <1>2, <1>3, <1>4 DEF OnceOK

LEMMA ReceiveOnce ==
    ASSUME PubInv, OnceInv, NEW i \in Instances, NEW t \in TxIds, Receive(i, t)
    PROVE  OnceInv'
<1>1. /\ UNCHANGED <<outbox, ledger, poller>> /\ worker[i].pc = "idle"
      /\ worker' = [worker EXCEPT ![i] =
                      [IdleWorker EXCEPT !.tx = t,
                         !.pc = IF Valid(request[t]) THEN "idempotency" ELSE "recordFind"]]
      /\ delivered' = [delivered EXCEPT ![t] = IF @ = "never" THEN "once" ELSE "again"]
  BY DEF Receive, Deliver, CountDelivery, storeVars
<1>2. worker \in [Instances -> WorkerRecords] /\ delivered \in [TxIds -> Deliveries]
  BY DEF PubInv, IInv, ProcessingTypeOK
<1>3. /\ worker'[i].tx = t /\ worker'[i].pc \in {"idempotency", "recordFind"}
      /\ \A j \in Instances \ {i} : worker'[j] = worker[j]
  BY <1>1, <1>2 DEF IdleWorker
<1>4. ASSUME NEW u \in TxIds \ {t}, Once(u)' PROVE OnceOK(u)'
  <2>1. delivered'[u] = delivered[u] /\ OnceOK(u)
    BY <1>1, <1>2, <1>4 DEF Once, OnceInv
  <2>2. \A j \in Instances : worker'[j] = worker[j] \/ ~Working(j, u)'
    BY <1>3 DEF Working
  <2> QED BY <1>1, <2>1, <2>2, OnceKept
<1>5. ASSUME Once(t)' PROVE OnceOK(t)'
  <2>1. delivered[t] = "never" /\ delivered'[t] = "once"
    BY <1>1, <1>2, <1>5 DEF Once
  <2>2. OnceOK(t) /\ ~Settled(t) /\ ~InWork(t)
    BY <2>1 DEF OnceInv, Once, OnceOK
  <2>3. ~Settled(t)' /\ ~HasRow(t)'
    BY <1>1, <2>2 DEF Settled, HasRow, HasEntry, StatusesOf
  <2>4. \A j \in Instances : Working(j, t)' => j = i
    BY <1>3, <2>2 DEF Working, InWork
  <2>5. \A j \in Instances : poller'[j].pc = "mark" /\ Message(j)'.tx = t => ledger'[t]["COMPLETED"] > 0
    BY <1>1, <2>2 DEF OnceOK, Message
  <2> QED BY <1>3, <2>1, <2>3, <2>4, <2>5 DEF OnceOK, HasRow
<1> QED BY <1>4, <1>5 DEF OnceInv

\* The first call for a transaction decides once: until then nothing is known of
\* it, so it finds no document, and never updates one.
LEMMA CallDecides ==
    ASSUME PubInv, OnceInv, NEW i \in Instances, CallStep(i), Once(worker[i].tx)
    PROVE  /\ Working(i, worker[i].tx) /\ worker[i].pc # "done"
           /\ ~Settled(worker[i].tx)
           /\ worker'[i].pc # "idle"
           /\ \/ UNCHANGED <<outbox, ledger>> /\ worker'[i].pc # "recordUpdate"
              \/ /\ InsertRow(worker[i].tx, worker[i].stamp) /\ UNCHANGED ledger
                 /\ worker'[i].pc = "done"
              \/ /\ InsertEntry(worker[i].tx, "FAILED") /\ UNCHANGED outbox
                 /\ worker'[i].pc = "done"
<1>1. worker \in [Instances -> WorkerRecords] /\ ProcessingStep(i)
  BY DEF PubInv, IInv, ProcessingTypeOK, CallStep
<1>2. worker[i].pc \notin {"idle", "done"}
  BY <1>1 DEF ProcessingStep, CheckIdempotency, Begin, LockForUpdate, UpdateAccount,
              CreateOutboxEntry, Commit, RecordFind, RecordUpdate, RecordCheck, RecordInsert
<1>3. worker[i].tx \in TxIds
  BY <1>2 DEF PubInv, IInv, InstanceOK, CallOK
<1>4. ~Settled(worker[i].tx) /\ worker[i].pc # "recordUpdate"
  BY <1>2, <1>3 DEF OnceInv, OnceOK, Working
<1>5. \A found \in FindOne(worker[i].tx) : found = "NOT_FOUND"
  BY <1>4 DEF FindOne, Settled
<1>6. /\ \A pc : Goto(i, pc) => worker'[i].pc = pc
      /\ \A pc, acc, stamp : GotoWith(i, pc, acc, stamp) => worker'[i].pc = pc
      /\ \A result : Return(i, result) => worker'[i].pc = "done"
  BY <1>1 DEF Goto, GotoWith, Return, Done, WorkerRecords
<1> DEFINE Decides ==
      /\ worker'[i].pc # "idle"
      /\ \/ UNCHANGED <<outbox, ledger>> /\ worker'[i].pc # "recordUpdate"
         \/ /\ InsertRow(worker[i].tx, worker[i].stamp) /\ UNCHANGED ledger
            /\ worker'[i].pc = "done"
         \/ /\ InsertEntry(worker[i].tx, "FAILED") /\ UNCHANGED outbox
            /\ worker'[i].pc = "done"
<1>7. ASSUME CheckIdempotency(i) \/ Begin(i) \/ LockForUpdate(i) PROVE Decides
  BY <1>2, <1>5, <1>6, <1>7 DEF CheckIdempotency, Begin, LockForUpdate, ReturnError
<1>8. ASSUME UpdateAccount(i) \/ CreateOutboxEntry(i) PROVE Decides
  BY <1>2, <1>6, <1>8 DEF UpdateAccount, CreateOutboxEntry, ReturnError
<1>9. ASSUME Commit(i) PROVE Decides
  BY <1>2, <1>6, <1>9 DEF Commit, CommitEffects, ReturnError
<1>10. ASSUME RecordFind(i) \/ RecordCheck(i) PROVE Decides
  BY <1>2, <1>5, <1>6, <1>10 DEF RecordFind, RecordCheck
<1>11. ASSUME RecordInsert(i) PROVE Decides
  BY <1>2, <1>6, <1>11 DEF RecordInsert
<1>12. ~RecordUpdate(i)
  BY <1>4 DEF RecordUpdate
<1>13. Decides
  BY <1>1, <1>7, <1>8, <1>9, <1>10, <1>11, <1>12 DEF ProcessingStep
<1> QED BY <1>2, <1>4, <1>13 DEF Working

LEMMA CallOnce ==
    ASSUME PubInv, OnceInv, NEW i \in Instances, CallStep(i)
    PROVE  OnceInv'
<1>1. /\ UNCHANGED <<poller, delivered>>
      /\ outbox \in [TxIds -> OutboxRows] /\ ledger \in [TxIds -> [LedgerStatuses -> Nat]]
  BY DEF CallStep, PubInv, IInv, ProcessingTypeOK, StoresTypeOK
<1>2. PICK t \in TxIds : worker[i].tx = t /\ worker'[i].tx = t
  BY CallConcerns, CallKeepsTx
<1>3. /\ \A j \in Instances \ {i} : worker'[j] = worker[j]
      /\ worker[i].pc # "idle"
      /\ outbox' = outbox \/ InsertRow(t, worker[i].stamp)
      /\ ledger' = ledger \/ InsertEntry(t, "FAILED") \/ UpdateEntry(t, "FAILED")
  BY <1>2, CallEffect DEF CallStep, PubInv
<1>4. ASSUME NEW u \in TxIds \ {t}, Once(u)' PROVE OnceOK(u)'
  <2>1. delivered'[u] = delivered[u] /\ OnceOK(u)
    BY <1>1, <1>4 DEF Once, OnceInv
  <2>2. outbox'[u] = outbox[u] /\ ledger'[u] = ledger[u]
    BY <1>1, <1>3 DEF InsertRow, InsertEntry, UpdateEntry
  <2>3. \A j \in Instances : worker'[j] = worker[j] \/ ~Working(j, u)'
    BY <1>2, <1>3 DEF Working
  <2> QED BY <1>1, <2>1, <2>2, <2>3, OnceKept
<1>5. ASSUME Once(t)' PROVE OnceOK(t)'
  <2>1. Once(t) /\ OnceOK(t) /\ delivered' = delivered
    BY <1>1, <1>5 DEF Once, OnceInv
  <2>2. /\ Working(i, t) /\ worker[i].pc # "done" /\ ~Settled(t) /\ worker'[i].pc # "idle"
        /\ \/ UNCHANGED <<outbox, ledger>> /\ worker'[i].pc # "recordUpdate"
           \/ InsertRow(t, worker[i].stamp) /\ UNCHANGED ledger /\ worker'[i].pc = "done"
           \/ InsertEntry(t, "FAILED") /\ UNCHANGED outbox /\ worker'[i].pc = "done"
    BY <1>2, <2>1, CallDecides
  <2>3. \A j \in Instances : Working(j, t)' => j = i
    BY <1>3, <2>1, <2>2 DEF OnceOK, Working
  <2>4. delivered'[t] # "never"
    BY <2>1, <2>2 DEF OnceOK, InWork, Working
  <2>5. ~HasRow(t) /\ ledger[t]["FAILED"] = 0 /\ ledger[t]["COMPLETED"] = 0
    BY <1>1, <2>2 DEF Settled, HasEntry, StatusesOf, LedgerStatuses
  <2>6. worker'[i].pc # "done" => ~Settled(t)' /\ worker'[i].pc # "recordUpdate"
    BY <2>2 DEF Settled, HasRow, HasEntry, StatusesOf
  <2>7. HasRow(t)' => ledger'[t]["FAILED"] = 0
    BY <2>2, <2>5 DEF HasRow
  <2>8. outbox'[t].status # "PROCESSED"
    BY <1>1, <2>2, <2>5 DEF InsertRow, PendingRow, HasRow, OnceOK
  <2>9. \A j \in Instances : ~(poller'[j].pc = "mark" /\ Message(j)'.tx = t)
    BY <1>1, <2>1, <2>5 DEF OnceOK, Message
  <2> QED BY <2>3, <2>4, <2>6, <2>7, <2>8, <2>9 DEF OnceOK
<1> QED BY <1>4, <1>5 DEF OnceInv

\* A poller adds COMPLETED documents of applied transactions, takes none away, and
\* makes none FAILED.
LEMMA PollDocuments ==
    ASSUME PubInv, NEW i \in Instances, Poll(i), NEW u \in TxIds
    PROVE  /\ HasRow(u)' <=> HasRow(u)
           /\ Settled(u)' <=> Settled(u)
           /\ ledger[u]["COMPLETED"] \in Nat /\ ledger'[u]["COMPLETED"] \in Nat
           /\ ledger[u]["COMPLETED"] <= ledger'[u]["COMPLETED"]
           /\ ledger[u]["FAILED"] = 0 => ledger'[u]["FAILED"] = 0
<1>1. /\ BatchesOK /\ PollerStep(i) /\ ledger \in [TxIds -> [LedgerStatuses -> Nat]]
  BY DEF Poll, PubInv, IInv, ProcessingTypeOK, StoresTypeOK
<1>2. (HasRow(u)' <=> HasRow(u)) /\ (Settled(u)' <=> Settled(u))
  BY PollConcerns DEF Concerns, Settled
<1>3. \/ ledger' = ledger
      \/ \E t \in TxIds : InsertEntry(t, "COMPLETED") \/ UpdateEntry(t, "COMPLETED")
  BY <1>1, PollEffect
<1>4. CASE ledger' = ledger
  BY <1>1, <1>2, <1>4 DEF LedgerStatuses
<1>5. ASSUME NEW t \in TxIds, InsertEntry(t, "COMPLETED")
      PROVE  /\ ledger[u]["COMPLETED"] \in Nat /\ ledger'[u]["COMPLETED"] \in Nat
             /\ ledger[u]["COMPLETED"] <= ledger'[u]["COMPLETED"]
             /\ ledger[u]["FAILED"] = 0 => ledger'[u]["FAILED"] = 0
  BY <1>1, <1>5 DEF InsertEntry, LedgerStatuses
<1>6. ASSUME NEW t \in TxIds, UpdateEntry(t, "COMPLETED")
      PROVE  /\ ledger[u]["COMPLETED"] \in Nat /\ ledger'[u]["COMPLETED"] \in Nat
             /\ ledger[u]["COMPLETED"] <= ledger'[u]["COMPLETED"]
             /\ ledger[u]["FAILED"] = 0 => ledger'[u]["FAILED"] = 0
  <2>1. /\ ledger' \in [TxIds -> [LedgerStatuses -> Nat]]
        /\ ledger[u]["COMPLETED"] <= ledger'[u]["COMPLETED"]
    BY <1>1, <1>6, EntryCompleted
  <2>2. ledger[u]["FAILED"] = 0 => ledger'[u]["FAILED"] = 0
    <3>1. SUFFICES ASSUME ledger[u]["FAILED"] = 0 PROVE ledger'[u]["FAILED"] = 0
      OBVIOUS
    <3>2. CASE u = t
      <4>1. StatusesOf(t) \subseteq {"COMPLETED"}
        BY <1>1, <3>1, <3>2 DEF StatusesOf, LedgerStatuses
      <4> QED BY <1>1, <1>6, <3>1, <3>2, <4>1 DEF UpdateEntry, LedgerStatuses
    <3>3. CASE u # t
      BY <1>1, <1>6, <3>1, <3>3 DEF UpdateEntry
    <3> QED BY <3>2, <3>3
  <2> QED BY <1>1, <2>1, <2>2 DEF LedgerStatuses
<1> QED BY <1>2, <1>3, <1>4, <1>5, <1>6

LEMMA PollOnce ==
    ASSUME PubInv, OnceInv, NEW i \in Instances, Poll(i)
    PROVE  OnceInv'
<1>1. UNCHANGED <<worker, delivered>> /\ BatchesOK /\ PollerStep(i)
  BY DEF Poll, PubInv
<1>2. \A j \in Instances \ {i} : poller'[j] = poller[j]
  BY <1>1, PollEffect DEF Moves
<1> SUFFICES ASSUME NEW u \in TxIds, Once(u)' PROVE OnceOK(u)'
  BY DEF OnceInv
<1>3. OnceOK(u)
  BY <1>1 DEF OnceInv, Once
<1>4. /\ HasRow(u)' <=> HasRow(u)
      /\ Settled(u)' <=> Settled(u)
      /\ ledger[u]["COMPLETED"] \in Nat /\ ledger'[u]["COMPLETED"] \in Nat
      /\ ledger[u]["COMPLETED"] <= ledger'[u]["COMPLETED"]
      /\ ledger[u]["FAILED"] = 0 => ledger'[u]["FAILED"] = 0
  BY PollDocuments
<1>5. /\ delivered'[u] = "never" => ~Settled(u)' /\ ~InWork(u)'
      /\ \A j, k \in Instances : Working(j, u)' /\ Working(k, u)' => j = k
      /\ \A j \in Instances : Working(j, u)' /\ worker'[j].pc # "done" =>
            ~Settled(u)' /\ worker'[j].pc # "recordUpdate"
      /\ HasRow(u)' => ledger'[u]["FAILED"] = 0
  BY <1>1, <1>3, <1>4 DEF OnceOK, Working, InWork
<1>6. ASSUME NEW j \in Instances, poller'[j].pc = "mark", (Message(j).tx)' = u
      PROVE  ledger'[u]["COMPLETED"] > 0
  <2>1. CASE j = i
    BY <1>6, <2>1, MarkPrepared DEF MarkOK
  <2>2. CASE j # i
    <3>1. poller[j].pc = "mark" /\ Message(j).tx = u
      BY <1>2, <1>6, <2>2 DEF Message
    <3> QED BY <1>3, <1>4, <3>1 DEF OnceOK
  <2> QED BY <2>1, <2>2
<1>7. outbox'[u].status = "PROCESSED" => ledger'[u]["COMPLETED"] > 0
  <2>1. SUFFICES ASSUME outbox'[u].status = "PROCESSED" PROVE ledger[u]["COMPLETED"] > 0
    BY <1>4
  <2>2. CASE outbox[u].status = "PROCESSED"
    BY <1>3, <2>2 DEF OnceOK
  <2>3. CASE outbox[u].status # "PROCESSED"
    <3>1. u = Message(i).tx /\ poller[i].pc = "mark"
      BY <1>1, <2>1, <2>3, MarkGiven
    <3> QED BY <1>3, <3>1 DEF OnceOK
  <2> QED BY <2>2, <2>3
<1> QED BY <1>5, <1>6, <1>7 DEF OnceOK

\* A call is over or lost, with the poller of its process, or nothing happens.
LEMMA QuietOnce ==
    ASSUME PubInv, OnceInv, UNCHANGED <<outbox, ledger, delivered>>,
           \A j \in Instances : worker'[j] = worker[j] \/ worker'[j].pc = "idle",
           \A j \in Instances : poller'[j] = poller[j] \/ poller'[j].pc = "idle"
    PROVE  OnceInv'
<1> SUFFICES ASSUME NEW u \in TxIds, Once(u)' PROVE OnceOK(u)'
  BY DEF OnceInv
<1>1. OnceOK(u)
  BY DEF OnceInv, Once
<1>2. \A j \in Instances : worker'[j] = worker[j] \/ ~Working(j, u)'
  BY DEF Working
<1> QED BY <1>1, <1>2, OnceKept

LEMMA NextOnce == PubInv /\ OnceInv /\ [PublicationNext]_publicationVars => OnceInv'
<1> SUFFICES ASSUME PubInv, OnceInv, [PublicationNext]_publicationVars PROVE OnceInv'
  OBVIOUS
<1>1. worker \in [Instances -> WorkerRecords] /\ poller \in [Instances -> PollerRecords]
  BY DEF PubInv, IInv, ProcessingTypeOK, BatchesOK, PollerTypeOK
<1>2. ASSUME NEW i \in Instances, Acknowledge(i) \/ Die(i) PROVE OnceInv'
  <2>1. /\ worker' = [worker EXCEPT ![i] = IdleWorker]
        /\ poller' = poller \/ poller' = [poller EXCEPT ![i] = IdlePoller]
        /\ UNCHANGED <<outbox, ledger, delivered>>
    BY <1>2 DEF Acknowledge, Die
  <2>2. \A j \in Instances : worker'[j] = worker[j] \/ worker'[j].pc = "idle"
    BY <1>1, <2>1 DEF IdleWorker
  <2>3. \A j \in Instances : poller'[j] = poller[j] \/ poller'[j].pc = "idle"
    BY <1>1, <2>1 DEF IdlePoller
  <2> QED BY <2>1, <2>2, <2>3, QuietOnce
<1>3. CASE UNCHANGED publicationVars
  BY <1>3, QuietOnce DEF publicationVars
<1> QED BY <1>2, <1>3, ReceiveOnce, CallOnce, PollOnce DEF PublicationNext

LEMMA InitOnce == PublicationInit => OnceInv
<1> SUFFICES ASSUME PublicationInit, NEW t \in TxIds PROVE OnceOK(t)
  BY DEF OnceInv
<1>1. outbox[t].status = "ABSENT" /\ \A s \in LedgerStatuses : ledger[t][s] = 0
  BY DEF PublicationInit, ProcessingInit, StoresInit, NoRow
<1>2. \A i \in Instances : worker[i].pc = "idle" /\ poller[i].pc = "idle"
  BY DEF PublicationInit, ProcessingInit, IdleWorker, IdlePoller
<1> QED BY <1>1, <1>2 DEF OnceOK, Settled, HasRow, HasEntry, StatusesOf, Working, InWork

THEOREM OnceInvariance == PublicationSpec => []OnceInv
<1> QED BY InitOnce, NextOnce, PublicationInvariance, PTL DEF PublicationSpec

\* A transaction that was delivered once is never both applied and recorded as
\* failed, and has a COMPLETED document when its row is PROCESSED: with any number
\* of pollers on its row, whatever fails or dies, and whatever is redelivered beside
\* it (ledger_publisher.go:41-104, failure_recorder.go:50-77).
THEOREM OnceIsRight == PublicationSpec => []RightWhenDeliveredOnce
<1>1. OnceInv => RightWhenDeliveredOnce
  BY DEF OnceInv, OnceOK, RightWhenDeliveredOnce
<1> QED BY <1>1, OnceInvariance, PTL

-----------------------------------------------------------------------------
(* One document for each transaction, where a single instance runs           *)

SingleInstance == \A i, j \in Instances : i = j

\* One document at most, and a poller that is about to insert one knows that
\* there is none.
SoloOK(t) ==
    /\ ledger[t]["COMPLETED"] + ledger[t]["FAILED"] <= 1
    /\ \A i \in Instances : poller[i].pc = "insert" /\ Message(i).tx = t => ~HasEntry(t)

SoloInv == \A t \in TxIds : Once(t) => SoloOK(t)

\* An insert for a transaction without a document leaves one.
LEMMA FirstEntry ==
    ASSUME ledger \in [TxIds -> [LedgerStatuses -> Nat]],
           NEW t \in TxIds, ~HasEntry(t), NEW status \in LedgerStatuses, InsertEntry(t, status)
    PROVE  ledger'[t]["COMPLETED"] + ledger'[t]["FAILED"] <= 1
<1>1. ledger[t]["COMPLETED"] = 0 /\ ledger[t]["FAILED"] = 0
  BY DEF HasEntry, StatusesOf, LedgerStatuses
<1> QED BY <1>1 DEF InsertEntry, LedgerStatuses

\* An update changes the status of a document, not their number.
LEMMA SameEntries ==
    ASSUME ledger \in [TxIds -> [LedgerStatuses -> Nat]], NEW t \in TxIds,
           ledger[t]["COMPLETED"] + ledger[t]["FAILED"] <= 1,
           UpdateEntry(t, "COMPLETED")
    PROVE  ledger'[t]["COMPLETED"] + ledger'[t]["FAILED"] <= 1
<1>1. PICK old \in StatusesOf(t) :
        ledger' = [ledger EXCEPT ![t] =
                     [s \in LedgerStatuses |->
                        @[s] - (IF s = old THEN 1 ELSE 0) + (IF s = "COMPLETED" THEN 1 ELSE 0)]]
  BY DEF UpdateEntry
<1>2. old \in LedgerStatuses /\ ledger[t] \in [LedgerStatuses -> Nat]
  BY DEF StatusesOf
<1>3. /\ ledger'[t]["COMPLETED"] = ledger[t]["COMPLETED"] - (IF "COMPLETED" = old THEN 1 ELSE 0) + 1
      /\ ledger'[t]["FAILED"] = ledger[t]["FAILED"] - (IF "FAILED" = old THEN 1 ELSE 0)
  BY <1>1 DEF LedgerStatuses
<1> QED BY <1>2, <1>3 DEF LedgerStatuses

\* What a statement of a poller does to the ledger.
LEMMA PollWrites ==
    ASSUME BatchesOK, NEW i \in Instances, PollerStep(i)
    PROVE  \/ ledger' = ledger
           \/ UpdateEntry(Message(i).tx, "COMPLETED") /\ poller[i].pc # "idle"
           \/ poller[i].pc = "insert" /\ InsertEntry(Message(i).tx, "COMPLETED")
BY DEF PollerStep, Fetch, PublishFind, PublishUpdate, PublishCheck, PublishInsert,
       MarkProcessed, CountAttempt, GiveUp

\* The statement that leads to an insert: the second lookup has found nothing.
LEMMA InsertPrepared ==
    ASSUME BatchesOK, NEW i \in Instances, PollerStep(i), poller'[i].pc = "insert"
    PROVE  Message(i)' = Message(i) /\ ~HasEntry(Message(i).tx) /\ ledger' = ledger
<1>1. poller \in [Instances -> PollerRecords]
  BY DEF BatchesOK, PollerTypeOK
<1>2. /\ \A pc : Step(i, pc) => poller'[i].pc = pc
      /\ ~NextMessage(i)
  BY <1>1 DEF Step, NextMessage, PollerRecords
<1>3. ~Fetch(i)
  <2>1. SUFFICES ASSUME Fetch(i) PROVE FALSE
    OBVIOUS
  <2>2. Moves(i, "find") \/ Moves(i, "idle")
    BY <2>1, TickMoves
  <2> QED BY <2>2 DEF Moves
<1>4. PublishCheck(i) /\ poller[i].pc = "check"
  BY <1>2, <1>3 DEF PollerStep, PublishFind, PublishUpdate, PublishCheck, PublishInsert,
     MarkProcessed, CountAttempt, GiveUp, PublishFails
<1>5. Step(i, "insert") /\ "NOT_FOUND" \in FindOne(Message(i).tx) /\ ledger' = ledger
  BY <1>2, <1>4 DEF PublishCheck, PublishFails
<1>6. Message(i)' = Message(i)
  BY <1>4, <1>5, StepOfBatch DEF PollerPCs
<1> QED BY <1>5, <1>6 DEF FindOne, StatusesOf, LedgerStatuses

\* Nothing happens to the documents of u, and no poller comes to an insert.
LEMMA SoloKept ==
    ASSUME NEW u \in TxIds, SoloOK(u), ledger'[u] = ledger[u],
           \A j \in Instances : poller'[j] = poller[j] \/ poller'[j].pc # "insert"
    PROVE  SoloOK(u)'
<1>1. HasEntry(u)' <=> HasEntry(u)
  BY DEF HasEntry, StatusesOf
<1>2. \A j \in Instances : poller'[j].pc = "insert" /\ Message(j)'.tx = u => ~HasEntry(u)'
  BY <1>1 DEF SoloOK, Message
<1> QED BY <1>2 DEF SoloOK

\* A refusal is recorded where there is neither a document nor a row, so beside
\* no poller that has the transaction in hand.
LEMMA CallSolo ==
    ASSUME PubInv, OnceInv, SoloInv, NEW i \in Instances, CallStep(i)
    PROVE  SoloInv'
<1>1. /\ UNCHANGED <<poller, delivered>> /\ BatchesOK
      /\ ledger \in [TxIds -> [LedgerStatuses -> Nat]] /\ IInv /\ ProcessingStep(i)
  BY DEF CallStep, PubInv, IInv, ProcessingTypeOK, StoresTypeOK
<1>2. worker[i].tx \in TxIds
  BY CallConcerns
<1>3. ASSUME NEW u \in TxIds \ {worker[i].tx}, Once(u)' PROVE SoloOK(u)'
  <2>1. SoloOK(u)
    BY <1>1, <1>3 DEF SoloInv, Once
  <2>2. ledger'[u] = ledger[u]
    BY <1>1, CallEffect DEF InsertEntry, UpdateEntry
  <2> QED BY <1>1, <2>1, <2>2, SoloKept
<1>4. ASSUME NEW t \in TxIds, t = worker[i].tx, Once(t)' PROVE SoloOK(t)'
  <2>1. Once(t) /\ SoloOK(t)
    BY <1>1, <1>4 DEF SoloInv, Once
  <2>2. ~Settled(t) /\ (UNCHANGED ledger \/ InsertEntry(t, "FAILED"))
    BY <1>4, <2>1, CallDecides
  <2>3. CASE UNCHANGED ledger
    BY <1>1, <2>1, <2>3, SoloKept
  <2>4. CASE InsertEntry(t, "FAILED")
    <3>1. ledger'[t]["COMPLETED"] + ledger'[t]["FAILED"] <= 1
      BY <1>1, <2>2, <2>4, FirstEntry DEF Settled, LedgerStatuses
    <3>2. \A j \in Instances : poller[j].pc # "idle" => Message(j).tx # t
      BY <1>1, <2>2, MessageOfBatch DEF Settled
    <3>3. \A j \in Instances : ~(poller'[j].pc = "insert" /\ Message(j)'.tx = t)
      BY <1>1, <3>2 DEF Message
    <3> QED BY <3>1, <3>3 DEF SoloOK
  <2> QED BY <2>2, <2>3, <2>4
<1> QED BY <1>2, <1>3, <1>4 DEF SoloInv

LEMMA PollSolo ==
    ASSUME PubInv, SoloInv, SingleInstance, NEW i \in Instances, Poll(i)
    PROVE  SoloInv'
<1>1. /\ UNCHANGED delivered /\ BatchesOK /\ PollerStep(i)
      /\ ledger \in [TxIds -> [LedgerStatuses -> Nat]]
  BY DEF Poll, PubInv, IInv, ProcessingTypeOK, StoresTypeOK
<1> SUFFICES ASSUME NEW u \in TxIds, Once(u)' PROVE SoloOK(u)'
  BY DEF SoloInv
<1>2. SoloOK(u)
  BY <1>1 DEF SoloInv, Once
<1>3. CASE poller'[i].pc = "insert"
  <2>1. Message(i)' = Message(i) /\ ~HasEntry(Message(i).tx) /\ ledger' = ledger
    BY <1>1, <1>3, InsertPrepared
  <2>2. \A j \in Instances : Message(j)'.tx = u => ~HasEntry(u)'
    BY <2>1 DEF SingleInstance, HasEntry, StatusesOf
  <2> QED BY <1>2, <2>1, <2>2 DEF SoloOK
<1>4. CASE poller'[i].pc # "insert"
  <2>1. ledger'[u]["COMPLETED"] + ledger'[u]["FAILED"] <= 1
    <3>1. CASE ledger'[u] = ledger[u]
      BY <1>2, <3>1 DEF SoloOK
    <3>2. CASE UpdateEntry(Message(i).tx, "COMPLETED") /\ Message(i).tx = u
      BY <1>1, <1>2, <3>2, SameEntries DEF SoloOK
    <3>3. CASE /\ poller[i].pc = "insert" /\ Message(i).tx = u
               /\ InsertEntry(Message(i).tx, "COMPLETED")
      BY <1>1, <1>2, <3>3, FirstEntry DEF SoloOK, LedgerStatuses
    <3> QED BY <1>1, <3>1, <3>2, <3>3, PollWrites DEF UpdateEntry, InsertEntry
  <2>2. \A j \in Instances : poller'[j].pc # "insert"
    BY <1>4 DEF SingleInstance
  <2> QED BY <2>1, <2>2 DEF SoloOK
<1> QED BY <1>3, <1>4

LEMMA NextSolo ==
    PubInv /\ OnceInv /\ SingleInstance /\ SoloInv /\ [PublicationNext]_publicationVars
        => SoloInv'
<1> SUFFICES ASSUME PubInv, OnceInv, SingleInstance, SoloInv, [PublicationNext]_publicationVars
             PROVE SoloInv'
  OBVIOUS
<1>1. /\ poller \in [Instances -> PollerRecords]
      /\ delivered \in [TxIds -> Deliveries]
  BY DEF PubInv, BatchesOK, PollerTypeOK
<1>2. ASSUME ledger' = ledger,
             \A u \in TxIds : Once(u)' => Once(u),
             \A j \in Instances : poller'[j] = poller[j] \/ poller'[j].pc # "insert"
      PROVE  SoloInv'
  BY <1>2, SoloKept DEF SoloInv
<1>3. ASSUME NEW i \in Instances, NEW t \in TxIds, Receive(i, t) PROVE SoloInv'
  BY <1>1, <1>2, <1>3 DEF Receive, Deliver, CountDelivery, storeVars, Once, Deliveries
<1>4. ASSUME NEW i \in Instances, Acknowledge(i) \/ Die(i) PROVE SoloInv'
  <2>1. /\ ledger' = ledger /\ delivered' = delivered
        /\ poller' = poller \/ poller' = [poller EXCEPT ![i] = IdlePoller]
    BY <1>4 DEF Acknowledge, Die
  <2>2. \A j \in Instances : poller'[j] = poller[j] \/ poller'[j].pc # "insert"
    BY <1>1, <2>1 DEF IdlePoller
  <2> QED BY <1>2, <2>1, <2>2 DEF Once
<1>5. CASE UNCHANGED publicationVars
  BY <1>2, <1>5 DEF publicationVars, Once
<1> QED BY <1>3, <1>4, <1>5, CallSolo, PollSolo DEF PublicationNext

LEMMA InitSolo == PublicationInit => SoloInv
<1> SUFFICES ASSUME PublicationInit, NEW t \in TxIds PROVE SoloOK(t)
  BY DEF SoloInv
<1>1. ledger[t]["COMPLETED"] = 0 /\ ledger[t]["FAILED"] = 0
  BY DEF PublicationInit, ProcessingInit, StoresInit, LedgerStatuses
<1>2. \A i \in Instances : poller[i].pc # "insert"
  BY DEF PublicationInit, IdlePoller
<1> QED BY <1>1, <1>2 DEF SoloOK

\* Where a single instance runs, a transaction that was delivered once has one
\* document at most, although its worker and its poller both write the ledger, every
\* statement may fail, or take effect and report an error, and the message is then
\* tried again (ledger_publisher.go:41-104, ledger_repository.go:38-52,
\* failure_recorder.go:50-77).  With two instances it may have more, which the run
\* two_entries shows.
THEOREM OneEntry == SingleInstance /\ PublicationSpec => []OneEntryWhenDeliveredOnce
<1>1. SoloInv => OneEntryWhenDeliveredOnce
  BY DEF SoloInv, SoloOK, OneEntryWhenDeliveredOnce
<1>2. /\ PubInv /\ OnceInv /\ SingleInstance /\ SoloInv /\ [PublicationNext]_publicationVars
           => (SingleInstance /\ SoloInv)'
  BY NextSolo DEF SingleInstance
<1> QED BY InitSolo, <1>1, <1>2, PublicationInvariance, OnceInvariance, PTL DEF PublicationSpec

-----------------------------------------------------------------------------
(* The order in which the transactions of an account are completed, until a  *)
(* statement fails                                                           *)

\* t comes before u in the outbox, and both are of one account.
Precedes(t, u) ==
    /\ HasRow(t) /\ HasRow(u)
    /\ request[t].account = request[u].account
    /\ outbox[t].createdAt < outbox[u].createdAt

Completed(t) == ledger[t]["COMPLETED"] > 0

\* Whatever comes before a message of the batch is completed, or before it in the
\* batch.
OrderOK(i) ==
    \A n \in DOMAIN poller[i].batch, t \in TxIds :
        Precedes(t, poller[i].batch[n].tx) /\ Once(t) =>
            \/ Completed(t)
            \/ \E m \in DOMAIN poller[i].batch : m < n /\ poller[i].batch[m].tx = t

\* An attempt is counted only because somebody else has completed the message.
CountedOK(i) ==
    poller[i].pc \in {"increment", "giveUp"} /\ Once(Message(i).tx) => Completed(Message(i).tx)

GivenUpOK(t) == outbox[t].status = "FAILED_TO_PUBLISH" /\ Once(t) => Completed(t)

InOrder == \A t, u \in TxIds : Precedes(t, u) /\ Once(t) /\ Completed(u) => Completed(t)

OrderInv ==
    faults = MaxFaults =>
        /\ \A i \in Instances : OrderOK(i) /\ CountedOK(i)
        /\ \A t \in TxIds : GivenUpOK(t)
        /\ InOrder

\* The messages of a batch.
LEMMA MessagesOfBatch ==
    ASSUME BatchesOK, NEW i \in Instances, NEW n \in DOMAIN poller[i].batch
    PROVE  poller[i].batch[n].tx \in TxIds /\ HasRow(poller[i].batch[n].tx)
<1>1. poller[i].batch \in Seq(Messages)
  BY DEF BatchesOK, PollerTypeOK, PollerRecords
<1>2. poller[i].batch[n] \in Messages
  BY <1>1
<1> QED BY <1>2 DEF BatchesOK, BatchOK, Messages

\* A step that completes nothing, gives nothing up, and adds no row before an
\* existing one; pollers may start over.
LEMMA OrderKept ==
    ASSUME PubInv, OrderInv, faults' = MaxFaults => faults = MaxFaults,
           \A t, u \in TxIds : HasRow(u) /\ Precedes(t, u)' => Precedes(t, u),
           \A t \in TxIds : /\ Once(t)' => Once(t)
                            /\ Once(t) /\ Completed(t) => Completed(t)'
                            /\ Completed(t)' => Completed(t)
                            /\ outbox'[t].status = "FAILED_TO_PUBLISH" =>
                                  outbox[t].status = "FAILED_TO_PUBLISH",
           \A j \in Instances : poller'[j] = poller[j] \/ poller'[j] = IdlePoller
    PROVE  OrderInv'
<1> SUFFICES ASSUME faults' = MaxFaults
             PROVE  /\ \A i \in Instances : OrderOK(i)' /\ CountedOK(i)'
                    /\ \A t \in TxIds : GivenUpOK(t)'
                    /\ InOrder'
  BY DEF OrderInv
<1>1. /\ \A i \in Instances : OrderOK(i) /\ CountedOK(i)
      /\ \A t \in TxIds : GivenUpOK(t)
      /\ InOrder
  BY DEF OrderInv
<1>2. BatchesOK /\ CompletedIsApplied
  BY DEF PubInv
<1>3. ASSUME NEW i \in Instances, poller'[i] = poller[i] PROVE OrderOK(i)' /\ CountedOK(i)'
  <2>1. \A n \in DOMAIN poller[i].batch :
           poller[i].batch[n].tx \in TxIds /\ HasRow(poller[i].batch[n].tx)
    BY <1>2, MessagesOfBatch
  <2>2. OrderOK(i)'
    BY <1>1, <1>3, <2>1 DEF OrderOK
  <2>3. poller[i].pc # "idle" => Message(i).tx \in TxIds
    BY <1>2, MessageOfBatch
  <2>4. CountedOK(i)'
    BY <1>1, <1>3, <2>3 DEF CountedOK, Message
  <2> QED BY <2>2, <2>4
<1>4. ASSUME NEW i \in Instances, poller'[i] = IdlePoller PROVE OrderOK(i)' /\ CountedOK(i)'
  <2>1. DOMAIN poller'[i].batch = {} /\ poller'[i].pc = "idle"
    BY <1>4 DEF IdlePoller
  <2> QED BY <2>1 DEF OrderOK, CountedOK
<1>5. \A t \in TxIds : GivenUpOK(t)'
  BY <1>1 DEF GivenUpOK
<1>6. InOrder'
  BY <1>1, <1>2 DEF InOrder, CompletedIsApplied, Completed
<1> QED BY <1>3, <1>4, <1>5, <1>6

\* Failures do not come back.
LEMMA FaultsFall ==
    ASSUME faults \in 0 .. MaxFaults, Succeeds \/ Fails
    PROVE  faults' = MaxFaults => faults = MaxFaults /\ Succeeds
BY StoresAssumption DEF Succeeds, Fails, StoresAssumption

\* The statements of a call.  A row that is committed has a stamp no smaller than
\* those of its account.
LEMMA CallOrder ==
    ASSUME PubInv, OnceInv, BooksInv, OrderInv, NEW i \in Instances, CallStep(i)
    PROVE  OrderInv'
<1>1. /\ UNCHANGED <<poller, delivered>> /\ ProcessingStep(i) /\ IInv
      /\ outbox \in [TxIds -> OutboxRows] /\ ledger \in [TxIds -> [LedgerStatuses -> Nat]]
      /\ faults \in 0 .. MaxFaults
  BY DEF CallStep, PubInv, IInv, ProcessingTypeOK, StoresTypeOK
<1>2. worker[i].tx \in TxIds
  BY CallConcerns
<1>3. Succeeds \/ Fails
  BY <1>1 DEF ProcessingStep, CheckIdempotency, Begin, LockForUpdate, UpdateAccount,
     CreateOutboxEntry, Commit, RecordFind, RecordUpdate, RecordCheck, RecordInsert, ReturnError
<1>4. request' = request
  BY <1>1 DEF ProcessingStep, CheckIdempotency, Begin, LockForUpdate, UpdateAccount,
     CreateOutboxEntry, Commit, RecordFind, RecordUpdate, RecordCheck, RecordInsert
<1>5. /\ \/ outbox' = outbox
         \/ worker[i].pc = "commit" /\ InsertRow(worker[i].tx, worker[i].stamp)
      /\ \/ ledger' = ledger
         \/ InsertEntry(worker[i].tx, "FAILED")
         \/ UpdateEntry(worker[i].tx, "FAILED")
  BY <1>1, CallEffect
<1>6. ASSUME NEW t \in TxIds, NEW u \in TxIds, HasRow(u), Precedes(t, u)'
      PROVE  Precedes(t, u)
  <2>1. CASE outbox' = outbox
    BY <1>4, <1>6, <2>1 DEF Precedes, HasRow
  <2>2. CASE worker[i].pc = "commit" /\ InsertRow(worker[i].tx, worker[i].stamp)
    <3>1. ~HasRow(worker[i].tx)
      BY <1>1, <1>2, <2>2 DEF IInv, InstanceOK, CallOK
    <3>2. outbox'[u] = outbox[u] /\ u # worker[i].tx
      BY <1>6, <2>2, <3>1 DEF InsertRow
    <3>3. CASE t = worker[i].tx
      <4>1. outbox'[t].createdAt = worker[i].stamp
        BY <1>1, <1>2, <2>2, <3>3 DEF InsertRow, PendingRow
      <4>2. u \in AppliedTo(Account(i))
        BY <1>4, <1>6, <3>3 DEF AppliedTo, AppliedTxs, Account, Request, Precedes
      <4>3. outbox[u].createdAt <= worker[i].stamp
        BY <2>2, <4>2 DEF BooksInv, StampOK
      <4>4. worker[i].stamp \in Nat /\ outbox[u].createdAt \in Nat
        <5>1. worker[i].stamp \in Stamps \cup {0}
          BY <1>1 DEF IInv, ProcessingTypeOK, WorkerRecords
        <5>2. worker[i].stamp \in Nat
          <6>1. \A x \in Stamps \cup {0} : x \in Nat
            BY StoresAssumption DEF StoresAssumption
          <6> QED BY <5>1, <6>1
        <5>3. outbox[u].createdAt \in Nat
          BY <1>1 DEF OutboxRows
        <5> QED BY <5>2, <5>3
      <4> QED BY <1>6, <3>2, <4>1, <4>3, <4>4 DEF Precedes
    <3>4. CASE t # worker[i].tx
      <4>1. outbox'[t] = outbox[t]
        BY <2>2, <3>4 DEF InsertRow
      <4> QED BY <1>4, <1>6, <3>2, <4>1 DEF Precedes, HasRow
    <3> QED BY <3>3, <3>4
  <2> QED BY <1>5, <2>1, <2>2
<1>7. ASSUME NEW t \in TxIds
      PROVE  /\ Once(t)' => Once(t)
             /\ Once(t) /\ Completed(t) => Completed(t)'
             /\ Completed(t)' => Completed(t)
             /\ outbox'[t].status = "FAILED_TO_PUBLISH" => outbox[t].status = "FAILED_TO_PUBLISH"
  <2>1. Once(t)' => Once(t)
    BY <1>1 DEF Once
  <2>2. outbox'[t].status = "FAILED_TO_PUBLISH" => outbox[t].status = "FAILED_TO_PUBLISH"
    BY <1>1, <1>2, <1>5 DEF InsertRow, PendingRow
  <2>3. Completed(t)' => Completed(t)
    BY <1>1, <1>2, <1>5, FailureRecorded DEF Completed
  <2>4. Once(t) /\ Completed(t) => Completed(t)'
    <3>1. SUFFICES ASSUME Once(t), Completed(t) PROVE Completed(t)'
      OBVIOUS
    <3>2. CASE t = worker[i].tx
      <4>1. ~Settled(t)
        BY <3>1, <3>2, CallDecides
      <4> QED BY <3>1, <4>1 DEF Completed, Settled, HasEntry, StatusesOf, LedgerStatuses
    <3>3. CASE t # worker[i].tx
      <4>1. ledger'[t] = ledger[t]
        BY <1>1, <1>5, <3>3 DEF InsertEntry, UpdateEntry
      <4> QED BY <3>1, <4>1 DEF Completed
    <3> QED BY <3>2, <3>3
  <2> QED BY <2>1, <2>2, <2>3, <2>4
<1>8. faults' = MaxFaults => faults = MaxFaults
  BY <1>1, <1>3, FaultsFall
<1> QED BY <1>1, <1>6, <1>7, <1>8, OrderKept

\* What a poller never changes.
LEMMA PollBasics ==
    ASSUME PubInv, NEW i \in Instances, Poll(i), NEW t \in TxIds
    PROVE  /\ \A u \in TxIds : Precedes(t, u)' <=> Precedes(t, u)
           /\ Once(t)' <=> Once(t)
           /\ Completed(t) => Completed(t)'
<1>1. BatchesOK /\ PollerStep(i) /\ delivered' = delivered
  BY DEF Poll, PubInv
<1>2. request' = request
  BY <1>1, PollEffect
<1>3. Completed(t) => Completed(t)'
  BY PollDocuments DEF Completed
<1>4. \A u \in TxIds : Precedes(t, u)' <=> Precedes(t, u)
  BY <1>1, <1>2, StampsKept, PollPreserves DEF Precedes
<1> QED BY <1>1, <1>3, <1>4 DEF Once

\* The same batch.
LEMMA BatchInOrder ==
    ASSUME PubInv, NEW i \in Instances, Poll(i), NEW j \in Instances, OrderOK(j),
           poller'[j].batch = poller[j].batch
    PROVE  OrderOK(j)'
<1>1. ASSUME NEW n \in DOMAIN poller[j].batch, NEW t \in TxIds, NEW u,
             u = poller[j].batch[n].tx, Precedes(t, u)', Once(t)'
      PROVE  \/ Completed(t)'
             \/ \E m \in DOMAIN poller[j].batch : m < n /\ poller[j].batch[m].tx = t
  <2>1. u \in TxIds
    BY <1>1, MessagesOfBatch DEF PubInv
  <2>2. Precedes(t, u) /\ Once(t) /\ (Completed(t) => Completed(t)')
    BY <1>1, <2>1, PollBasics
  <2> QED BY <1>1, <2>2 DEF OrderOK
<1> QED BY <1>1 DEF OrderOK

\* A batch that was just read: what comes before a row of it is completed, or
\* pending and older, so it was read as well, before it.
LEMMA FetchInOrder ==
    ASSUME PubInv, OnceInv, NEW i \in Instances, Poll(i), Fetch(i), OrderOK(i),
           \A t \in TxIds : GivenUpOK(t)
    PROVE  OrderOK(i)'
<1>1. /\ poller \in [Instances -> PollerRecords] /\ outbox \in [TxIds -> OutboxRows]
      /\ UNCHANGED <<request, outbox, ledger, delivered>>
  BY DEF PubInv, IInv, ProcessingTypeOK, StoresTypeOK, BatchesOK, PollerTypeOK, Fetch, Poll
<1>2. CASE poller' = poller
  BY <1>2, BatchInOrder
<1>3. ASSUME NEW txs \in [1 .. BatchLength -> Pending], OldestFirst(txs),
             poller' = [poller EXCEPT ![i] =
               [pc |-> "find",
                batch |-> [k \in 1 .. BatchLength |->
                             [tx |-> txs[k], attempts |-> outbox[txs[k]].attempts]]]],
             Pending # {}
      PROVE  OrderOK(i)'
  <2> DEFINE len == BatchLength
  <2>1. len \in Nat
    BY <1>3, BatchLengthPositive
  <2>2. /\ DOMAIN poller'[i].batch = 1 .. len
        /\ \A k \in 1 .. len : poller'[i].batch[k].tx = txs[k]
    BY <1>1, <1>3
  <2>3. \A k \in 1 .. len : txs[k] \in TxIds
    BY <1>3 DEF Pending
  <2>4. ASSUME NEW n \in 1 .. len, NEW t \in TxIds, Precedes(t, txs[n]), Once(t)
        PROVE  Completed(t) \/ \E m \in 1 .. len : m < n /\ txs[m] = t
    <3>1. outbox[t].createdAt < outbox[txs[n]].createdAt /\ HasRow(t)
      BY <2>4 DEF Precedes
    <3>2. \A u \in TxIds : outbox[u].createdAt \in Nat
      BY <1>1 DEF OutboxRows
    <3>3. CASE t \in Pending
      <4>1. PICK m \in 1 .. len : txs[m] = t
        BY <1>3, <2>3, <3>1, <3>2, <3>3 DEF OldestFirst
      <4>2. ~(n < m) /\ n # m
        BY <1>3, <2>3, <3>1, <3>2, <4>1 DEF OldestFirst
      <4>3. m < n
        BY <2>1, <4>2
      <4> QED BY <4>1, <4>3
    <3>4. CASE t \notin Pending
      <4>1. outbox[t].status \in {"PROCESSED", "FAILED_TO_PUBLISH"}
        BY <1>1, <3>1, <3>4 DEF Pending, HasRow, OutboxRows, OutboxStatuses
      <4> QED BY <2>4, <4>1 DEF OnceInv, OnceOK, GivenUpOK, Completed
    <3> QED BY <3>3, <3>4
  <2>5. ASSUME NEW n \in 1 .. len, NEW t \in TxIds, Precedes(t, txs[n])', Once(t)'
        PROVE  Completed(t)' \/ \E m \in 1 .. len : m < n /\ txs[m] = t
    <3>1. Precedes(t, txs[n]) /\ Once(t)
      BY <1>1, <2>5 DEF Precedes, Once, HasRow
    <3>2. Completed(t)' <=> Completed(t)
      BY <1>1 DEF Completed
    <3> QED BY <2>4, <3>1, <3>2
  <2> HIDE DEF len
  <2> QED BY <2>2, <2>5 DEF OrderOK, Precedes, Once, Completed, HasRow
<1> QED BY <1>2, <1>3 DEF Fetch

\* The rest of a batch whose first message is completed.
LEMMA RestInOrder ==
    ASSUME PubInv, NEW i \in Instances, Poll(i), NextMessage(i), poller[i].pc # "idle",
           OrderOK(i), Once(Message(i).tx) => Completed(Message(i).tx)
    PROVE  OrderOK(i)'
<1> DEFINE batch == poller[i].batch
<1>1. /\ batch \in Seq(Messages) /\ batch # <<>> /\ Message(i) = batch[1]
  BY MessageOfBatch DEF PubInv
<1>2. poller'[i].batch = Tail(batch)
  BY DEF NextMessage, PubInv, BatchesOK, PollerTypeOK
<1>3. /\ Len(Tail(batch)) = Len(batch) - 1
      /\ \A n \in 1 .. Len(Tail(batch)) : Tail(batch)[n] = batch[n + 1]
      /\ Tail(batch) \in Seq(Messages)
  BY <1>1, HeadTailProperties
<1>4. Len(batch) \in Nat /\ DOMAIN batch = 1 .. Len(batch) /\ DOMAIN Tail(batch) = 1 .. Len(Tail(batch))
  BY <1>1, <1>3
<1>5. ASSUME NEW n \in DOMAIN Tail(batch), NEW t \in TxIds, NEW u,
             u = Tail(batch)[n].tx, Precedes(t, u)', Once(t)'
      PROVE  \/ Completed(t)'
             \/ \E m \in DOMAIN Tail(batch) : m < n /\ Tail(batch)[m].tx = t
  <2>1. n + 1 \in DOMAIN batch /\ u = batch[n + 1].tx /\ n \in Nat
    BY <1>3, <1>4, <1>5
  <2>2. u \in TxIds
    BY <2>1, MessagesOfBatch DEF PubInv
  <2>4. Precedes(t, u) /\ Once(t) /\ (Completed(t) => Completed(t)')
    BY <1>5, <2>2, PollBasics
  <2>5. \/ Completed(t)
        \/ \E m \in DOMAIN batch : m < n + 1 /\ batch[m].tx = t
    BY <2>1, <2>4 DEF OrderOK
  <2>6. ASSUME NEW m \in DOMAIN batch, m < n + 1, batch[m].tx = t, ~Completed(t) PROVE
          \E k \in DOMAIN Tail(batch) : k < n /\ Tail(batch)[k].tx = t
    <3>1. m # 1
      BY <1>1, <2>4, <2>6
    <3>2. m - 1 \in DOMAIN Tail(batch) /\ m - 1 < n
      BY <1>3, <1>4, <2>1, <2>6, <3>1
    <3>3. Tail(batch)[m - 1] = batch[m]
      <4>1. Tail(batch)[m - 1] = batch[(m - 1) + 1] /\ m \in Nat
        BY <1>3, <1>4, <3>2
      <4>2. (m - 1) + 1 = m
        BY <4>1
      <4> QED BY <4>1, <4>2
    <3> QED BY <2>6, <3>2, <3>3
  <2> QED BY <2>4, <2>5, <2>6
<1> QED BY <1>2, <1>5 DEF OrderOK

\* Where nothing fails, an attempt is counted only when a document was found that
\* had not been there before: of a transaction that was delivered once, COMPLETED.
LEMMA CountedPrepared ==
    ASSUME PubInv, OnceInv, NEW i \in Instances, Poll(i), Succeeds, faults \in Nat, CountedOK(i)
    PROVE  CountedOK(i)'
<1>1. /\ BatchesOK /\ PollerStep(i) /\ delivered' = delivered
      /\ poller \in [Instances -> PollerRecords]
  BY DEF Poll, PubInv, BatchesOK, PollerTypeOK
<1>2. ~Fails
  BY DEF Succeeds, Fails
<1> SUFFICES ASSUME poller'[i].pc \in {"increment", "giveUp"} PROVE CountedOK(i)'
  BY DEF CountedOK
<1>3. /\ \A pc : Step(i, pc) => poller'[i].pc = pc
      /\ ~NextMessage(i)
  BY <1>1 DEF Step, NextMessage, PollerRecords
<1>4. ~Fetch(i)
  <2>1. SUFFICES ASSUME Fetch(i) PROVE FALSE
    OBVIOUS
  <2>2. Moves(i, "find") \/ Moves(i, "idle")
    BY <1>1, <2>1, TickMoves
  <2> QED BY <2>2 DEF Moves
<1>5. \/ poller[i].pc = "check" /\ Step(i, "increment") /\ HasEntry(Message(i).tx)
      \/ poller[i].pc = "increment" /\ Step(i, "giveUp")
  BY <1>1, <1>2, <1>3, <1>4 DEF PollerStep, PublishFind, PublishUpdate, PublishCheck,
     PublishInsert, MarkProcessed, CountAttempt, GiveUp, PublishFails, FindOne
<1>6. Message(i)' = Message(i) /\ Message(i).tx \in TxIds /\ HasRow(Message(i).tx)
  BY <1>1, <1>5, StepOfBatch, MessageOfBatch DEF PollerPCs
<1>7. SUFFICES ASSUME Once(Message(i).tx) PROVE Completed(Message(i).tx)
  <2>1. (Once(Message(i).tx) => Completed(Message(i).tx)) => CountedOK(i)'
    BY <1>6, PollBasics DEF CountedOK, Once, Completed
  <2> QED BY <2>1
<1>8. ledger[Message(i).tx]["FAILED"] = 0
  BY <1>6, <1>7 DEF OnceInv, OnceOK
<1>9. CASE HasEntry(Message(i).tx)
  BY <1>8, <1>9 DEF HasEntry, StatusesOf, LedgerStatuses, Completed
<1>10. CASE poller[i].pc = "increment"
  BY <1>7, <1>10 DEF CountedOK
<1> QED BY <1>5, <1>9, <1>10

LEMMA PollOrder ==
    ASSUME PubInv, OnceInv, OrderInv, NEW i \in Instances, Poll(i)
    PROVE  OrderInv'
<1>1. /\ BatchesOK /\ PollerStep(i) /\ delivered' = delivered
      /\ poller \in [Instances -> PollerRecords] /\ faults \in 0 .. MaxFaults
  BY DEF Poll, PubInv, IInv, ProcessingTypeOK, StoresTypeOK, BatchesOK, PollerTypeOK
<1> SUFFICES ASSUME faults' = MaxFaults
             PROVE  /\ \A j \in Instances : OrderOK(j)' /\ CountedOK(j)'
                    /\ \A t \in TxIds : GivenUpOK(t)'
                    /\ InOrder'
  BY DEF OrderInv
<1>2. faults = MaxFaults /\ Succeeds /\ faults \in Nat
  BY <1>1, FaultsFall, PollEffect
<1>3. /\ \A j \in Instances : OrderOK(j) /\ CountedOK(j)
      /\ \A t \in TxIds : GivenUpOK(t)
      /\ InOrder
  BY <1>2 DEF OrderInv
<1>4. \A j \in Instances \ {i} : poller'[j] = poller[j]
  BY <1>1, PollEffect DEF Moves
<1>5. ASSUME NEW j \in Instances \ {i} PROVE OrderOK(j)' /\ CountedOK(j)'
  <2>1. OrderOK(j)'
    BY <1>3, <1>4, BatchInOrder
  <2>2. poller[j].pc # "idle" => Message(j).tx \in TxIds
    BY <1>1, MessageOfBatch
  <2>3. CountedOK(j)'
    <3>1. SUFFICES ASSUME poller[j].pc \in {"increment", "giveUp"}, Once(Message(j).tx)'
                   PROVE  Completed(Message(j).tx)'
      BY <1>4 DEF CountedOK, Once, Completed
    <3>2. Message(j)' = Message(j) /\ Message(j).tx \in TxIds
      BY <1>4, <2>2, <3>1 DEF Message
    <3>3. Once(Message(j).tx)
      BY <1>1, <3>1, <3>2 DEF Once
    <3> QED BY <1>3, <3>1, <3>2, <3>3, PollBasics DEF CountedOK, Completed
  <2> QED BY <2>1, <2>3
<1>6. CountedOK(i)'
  BY <1>2, <1>3, CountedPrepared
<1>7. OrderOK(i)'
  <2>1. CASE Fetch(i)
    BY <1>3, <2>1, FetchInOrder
  <2>2. CASE poller[i].pc # "idle" /\ \E pc \in PollerPCs : Step(i, pc)
    <3>1. poller'[i].batch = poller[i].batch
      BY <1>1, <2>2 DEF Step, PollerRecords
    <3> QED BY <1>3, <3>1, BatchInOrder
  <2>3. CASE NextMessage(i) /\ poller[i].pc \in {"mark", "increment", "giveUp"}
    <3>1. Message(i).tx \in TxIds
      BY <1>1, <2>3, MessageOfBatch
    <3>2. Once(Message(i).tx) => Completed(Message(i).tx)
      BY <1>3, <2>3, <3>1 DEF CountedOK, OnceInv, OnceOK, Completed
    <3> QED BY <1>3, <2>3, <3>2, RestInOrder
  <2> QED BY <1>1, <2>1, <2>2, <2>3 DEF PollerStep, PublishFind, PublishUpdate, PublishCheck,
          PublishInsert, MarkProcessed, CountAttempt, GiveUp, PublishFails, PollerPCs
<1>8. ASSUME NEW t \in TxIds PROVE GivenUpOK(t)'
  <2>1. SUFFICES ASSUME outbox'[t].status = "FAILED_TO_PUBLISH", Once(t) PROVE Completed(t)
    <3>1. (outbox'[t].status = "FAILED_TO_PUBLISH" /\ Once(t) => Completed(t)) => GivenUpOK(t)'
      BY PollBasics DEF GivenUpOK
    <3> QED BY <3>1
  <2>2. CASE outbox[t].status = "FAILED_TO_PUBLISH"
    BY <1>3, <2>1, <2>2 DEF GivenUpOK
  <2>3. CASE outbox[t].status # "FAILED_TO_PUBLISH"
    <3>1. t = Message(i).tx /\ poller[i].pc = "giveUp"
      BY <1>1, <2>1, <2>3, MarkGiven
    <3> QED BY <1>3, <2>1, <3>1 DEF CountedOK
  <2> QED BY <2>2, <2>3
<1>9. ASSUME NEW t \in TxIds, NEW u \in TxIds, Precedes(t, u), Once(t), Completed(u)'
      PROVE  Completed(t)
  <2>1. CASE Completed(u)
    BY <1>3, <1>9, <2>1 DEF InOrder
  <2>2. CASE ~Completed(u)
    <3>1. poller[i].pc # "idle" /\ Message(i).tx = u
      <4>1. ledger'[u] # ledger[u]
        BY <1>9, <2>2 DEF Completed
      <4>2. \/ UpdateEntry(Message(i).tx, "COMPLETED") /\ poller[i].pc # "idle"
            \/ poller[i].pc = "insert" /\ InsertEntry(Message(i).tx, "COMPLETED")
        BY <1>1, <4>1, PollWrites
      <4>3. CASE Message(i).tx # u
        <5>1. ledger \in [TxIds -> [LedgerStatuses -> Nat]]
          BY DEF PubInv, IInv, ProcessingTypeOK, StoresTypeOK
        <5> QED BY <4>1, <4>2, <4>3, <5>1 DEF UpdateEntry, InsertEntry
      <4> QED BY <4>2, <4>3
    <3>2. Message(i) = poller[i].batch[1] /\ 1 \in DOMAIN poller[i].batch
          /\ poller[i].batch \in Seq(Messages)
      BY <1>1, <3>1, MessageOfBatch
    <3>3. \A m \in DOMAIN poller[i].batch : ~(m < 1)
      BY <3>2
    <3> QED BY <1>3, <1>9, <3>1, <3>2, <3>3 DEF OrderOK
  <2> QED BY <2>1, <2>2
<1>10. InOrder'
  BY <1>9, PollBasics DEF InOrder
<1> QED BY <1>5, <1>6, <1>7, <1>8, <1>10

LEMMA NextOrder ==
    PubInv /\ OnceInv /\ BooksInv /\ OrderInv /\ [PublicationNext]_publicationVars => OrderInv'
<1> SUFFICES ASSUME PubInv, OnceInv, BooksInv, OrderInv, [PublicationNext]_publicationVars
             PROVE OrderInv'
  OBVIOUS
<1>1. /\ poller \in [Instances -> PollerRecords] /\ faults \in 0 .. MaxFaults
      /\ delivered \in [TxIds -> Deliveries]
  BY DEF PubInv, BatchesOK, PollerTypeOK, IInv, ProcessingTypeOK, StoresTypeOK
<1>2. ASSUME UNCHANGED <<request, outbox, ledger>>,
             faults' = MaxFaults => faults = MaxFaults,
             \A t \in TxIds : Once(t)' => Once(t),
             \A j \in Instances : poller'[j] = poller[j] \/ poller'[j] = IdlePoller
      PROVE  OrderInv'
  <2>1. \A t, u \in TxIds : HasRow(u) /\ Precedes(t, u)' => Precedes(t, u)
    BY <1>2 DEF Precedes, HasRow
  <2>2. \A t \in TxIds : Completed(t)' <=> Completed(t)
    BY <1>2 DEF Completed
  <2> QED BY <1>2, <2>1, <2>2, OrderKept
<1>3. ASSUME NEW i \in Instances, NEW t \in TxIds, Receive(i, t) PROVE OrderInv'
  BY <1>1, <1>2, <1>3 DEF Receive, Deliver, CountDelivery, storeVars, Once, Deliveries
<1>4. ASSUME NEW i \in Instances, Acknowledge(i) PROVE OrderInv'
  <2>1. faults' = MaxFaults => faults = MaxFaults
    BY <1>1, <1>4, FaultsFall DEF Acknowledge
  <2> QED BY <1>2, <1>4, <2>1 DEF Acknowledge, Once
<1>5. ASSUME NEW i \in Instances, Die(i) PROVE OrderInv'
  <2>1. \A j \in Instances : poller'[j] = poller[j] \/ poller'[j] = IdlePoller
    BY <1>1, <1>5 DEF Die
  <2> QED BY <1>2, <1>5, <2>1 DEF Die, Once
<1>6. CASE UNCHANGED publicationVars
  BY <1>2, <1>6 DEF publicationVars, Once
<1> QED BY <1>3, <1>4, <1>5, <1>6, CallOrder, PollOrder DEF PublicationNext

LEMMA InitOrder == PublicationInit => OrderInv
<1> SUFFICES ASSUME PublicationInit PROVE OrderInv
  OBVIOUS
<1>1. \A t \in TxIds : ~HasRow(t) /\ outbox[t].status # "FAILED_TO_PUBLISH"
  BY DEF PublicationInit, ProcessingInit, StoresInit, NoRow, HasRow
<1>2. \A i \in Instances : poller[i].pc = "idle" /\ DOMAIN poller[i].batch = {}
  BY DEF PublicationInit, IdlePoller
<1> QED BY <1>1, <1>2 DEF OrderInv, OrderOK, CountedOK, GivenUpOK, InOrder, Precedes

\* Of two transactions of one account, the one that comes first in the outbox is
\* completed first, if it was delivered only once and no statement has failed yet:
\* with any number of pollers on the same rows, whatever is committed while they
\* publish, whatever dies and whatever else is redelivered
\* (outbox_repository.go:69-113, poller.go:63-115, message.go:36).
THEOREM InOrderUntilFailure == PublicationSpec => []AccountOrderUntilFailure
<1>1. OrderInv => AccountOrderUntilFailure
  BY DEF OrderInv, InOrder, Precedes, Completed, AccountOrderUntilFailure, AppliedTxs
<1>2. PublicationInit => OrderInv /\ BooksInv
  BY InitOrder, InitBooks DEF PublicationInit
<1>3. PubInv /\ OnceInv /\ BooksInv /\ OrderInv /\ [PublicationNext]_publicationVars
        => BooksInv' /\ OrderInv'
  BY NextOrder, NextKeepsBooks
<1> QED BY <1>1, <1>2, <1>3, PublicationInvariance, OnceInvariance, PTL DEF PublicationSpec
=============================================================================
