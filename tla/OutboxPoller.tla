---------------------------- MODULE OutboxPoller ----------------------------
(***************************************************************************)
(* The outbox poller (outbox_poller/poller.go) and its ledger publisher     *)
(* (outbox_poller/ledger_publisher.go), one action per database statement.  *)
(* Every instance of the processor runs a poller; nothing reserves a row    *)
(* for the poller that fetched it.  Publication runs the pollers beside the *)
(* calls that write their rows, and the ledger, at the same time.           *)
(***************************************************************************)
EXTENDS Stores, Sequences, FiniteSets

CONSTANTS
    BatchSize,         \* OUTBOX_BATCH_SIZE
    MaxRetryAttempts   \* OUTBOX_MAX_RETRY_ATTEMPTS

\* Transaction ids are UUIDs: there are finitely many.
ASSUME PollerAssumption ==
    /\ IsFiniteSet(TxIds)
    /\ BatchSize \in Nat \ {0}
    /\ MaxRetryAttempts \in Nat \ {0}

VARIABLE
    poller  \* what each instance's poller is doing

(* pc is the next statement for the first message of the batch:             *)
(*   find, update, check, insert, mark (PublishToLedger)                    *)
(*   increment, giveUp (its error is being handled)                         *)
(* or idle (waiting for the next tick).  A message of the batch keeps the   *)
(* attempts it was fetched with.                                            *)
PollerPCs == {"idle", "find", "update", "check", "insert", "mark", "increment", "giveUp"}
Messages == [tx : TxIds, attempts : Nat]
PollerRecords == [pc : PollerPCs, batch : Seq(Messages)]
IdlePoller == [pc |-> "idle", batch |-> <<>>]

Message(i) == Head(poller[i].batch)

Step(i, pc) == poller' = [poller EXCEPT ![i].pc = pc]

\* A loop that does not notice the end of the batch.
NextMessageAlways(i) ==
    poller' = [poller EXCEPT ![i] = [pc |-> "find", batch |-> Tail(@.batch)]]

\* The loop goes on with the next message, or the pass is over.
NextMessage(i) ==
    poller' = [poller EXCEPT ![i] =
                 [pc |-> IF Len(@.batch) > 1 THEN "find" ELSE "idle", batch |-> Tail(@.batch)]]

PublishFails(i) == Fails /\ Step(i, "increment")

-----------------------------------------------------------------------------

\* A query that leaves out the rows whose budget is spent.
PendingWithBudget ==
    {t \in TxIds : outbox[t].status = "PENDING" /\ outbox[t].attempts < MaxRetryAttempts}

Pending == {t \in TxIds : outbox[t].status = "PENDING"}

\* A batch without ORDER BY.
InAnyOrder(txs) == \A m, n \in DOMAIN txs : m < n => txs[m] # txs[n]

\* ORDER BY created_at: in order, and no pending row left out is older.
OldestFirst(txs) ==
    /\ \A m, n \in DOMAIN txs : m < n => /\ txs[m] # txs[n]
                                         /\ outbox[txs[m]].createdAt <= outbox[txs[n]].createdAt
    /\ \A t \in Pending : \/ \E n \in DOMAIN txs : txs[n] = t
                          \/ \A n \in DOMAIN txs : outbox[txs[n]].createdAt <= outbox[t].createdAt

BatchLength == IF Cardinality(Pending) < BatchSize THEN Cardinality(Pending) ELSE BatchSize

\* A poller that reserves a row by marking it when it fetches it.
FetchAndMark(i) ==
    /\ poller[i].pc = "idle"
    /\ Succeeds
    /\ \E t \in Pending :
         /\ SetOutboxStatus(t, "PROCESSED")
         /\ poller' = [poller EXCEPT ![i] =
              [pc |-> "find", batch |-> <<[tx |-> t, attempts |-> outbox[t].attempts]>>]]
    /\ UNCHANGED <<request, accounts, rowLock, ledger>>

\* A tick: GetPending reads the BatchSize oldest pending rows.  Nothing happens
\* when there are none or when the query fails.
Fetch(i) ==
    /\ poller[i].pc = "idle"
    /\ \/ /\ Succeeds
          /\ Pending # {}
          /\ \E txs \in [1 .. BatchLength -> Pending] :
               /\ OldestFirst(txs)
               /\ poller' = [poller EXCEPT ![i] =
                    [pc |-> "find",
                     batch |-> [k \in 1 .. BatchLength |->
                                  [tx |-> txs[k], attempts |-> outbox[txs[k]].attempts]]]]
       \/ Succeeds /\ Pending = {} /\ UNCHANGED poller
       \/ Fails /\ UNCHANGED poller
    /\ UNCHANGED <<request, accounts, rowLock, outbox, ledger>>

\* A publisher that inserts without looking for a document first.
PublishFindNothing(i) ==
    /\ poller[i].pc = "find"
    /\ Succeeds /\ Step(i, "insert")
    /\ UNCHANGED <<request, accounts, rowLock, outbox, ledger>>

PublishFind(i) ==
    /\ poller[i].pc = "find"
    /\ \/ /\ Succeeds
          /\ \E found \in FindOne(Message(i).tx) :
               CASE found = "NOT_FOUND" -> Step(i, "check")
                 [] found = "COMPLETED" -> Step(i, "mark")
                 [] OTHER               -> Step(i, "update")
       \/ PublishFails(i)
    /\ UNCHANGED <<request, accounts, rowLock, outbox, ledger>>

PublishUpdate(i) ==
    /\ poller[i].pc = "update"
    /\ \/ Succeeds /\ UpdateEntry(Message(i).tx, "COMPLETED") /\ Step(i, "mark")
       \/ PublishFails(i) /\ (UpdateEntry(Message(i).tx, "COMPLETED") \/ UNCHANGED ledger)
    /\ UNCHANGED <<request, accounts, rowLock, outbox>>

\* LedgerRepository.Create: the second lookup; a document found now is an error.
PublishCheck(i) ==
    /\ poller[i].pc = "check"
    /\ \/ /\ Succeeds
          /\ \E found \in FindOne(Message(i).tx) :
               Step(i, IF found = "NOT_FOUND" THEN "insert" ELSE "increment")
       \/ PublishFails(i)
    /\ UNCHANGED <<request, accounts, rowLock, outbox, ledger>>

\* A publisher that marks the row also when the ledger write failed.
PublishInsertIgnoringErrors(i) ==
    /\ poller[i].pc = "insert"
    /\ \/ Succeeds /\ InsertEntry(Message(i).tx, "COMPLETED")
       \/ Fails /\ (InsertEntry(Message(i).tx, "COMPLETED") \/ UNCHANGED ledger)
    /\ Step(i, "mark")
    /\ UNCHANGED <<request, accounts, rowLock, outbox>>

PublishInsert(i) ==
    /\ poller[i].pc = "insert"
    /\ \/ Succeeds /\ InsertEntry(Message(i).tx, "COMPLETED") /\ Step(i, "mark")
       \/ PublishFails(i) /\ (InsertEntry(Message(i).tx, "COMPLETED") \/ UNCHANGED ledger)
    /\ UNCHANGED <<request, accounts, rowLock, outbox>>

MarkProcessed(i) ==
    /\ poller[i].pc = "mark"
    /\ \/ Succeeds /\ SetOutboxStatus(Message(i).tx, "PROCESSED") /\ NextMessage(i)
       \/ PublishFails(i) /\ (SetOutboxStatus(Message(i).tx, "PROCESSED") \/ UNCHANGED outbox)
    /\ UNCHANGED <<request, accounts, rowLock, ledger>>

\* The comparison of a budget that is off by one.
LastAttemptTooEarly(i) == Message(i).attempts + 2 >= MaxRetryAttempts

\* The retry budget is compared with the attempts read by Fetch.
LastAttempt(i) == Message(i).attempts + 1 >= MaxRetryAttempts

CountAttempt(i) ==
    /\ poller[i].pc = "increment"
    /\ \/ /\ Succeeds
          /\ IncrementAttempts(Message(i).tx)
          /\ IF LastAttempt(i) THEN Step(i, "giveUp") ELSE NextMessage(i)
       \/ /\ Fails
          /\ IncrementAttempts(Message(i).tx) \/ UNCHANGED outbox
          /\ NextMessage(i)
    /\ UNCHANGED <<request, accounts, rowLock, ledger>>

GiveUp(i) ==
    /\ poller[i].pc = "giveUp"
    /\ \/ Succeeds /\ SetOutboxStatus(Message(i).tx, "FAILED_TO_PUBLISH")
       \/ Fails /\ (SetOutboxStatus(Message(i).tx, "FAILED_TO_PUBLISH") \/ UNCHANGED outbox)
    /\ NextMessage(i)
    /\ UNCHANGED <<request, accounts, rowLock, ledger>>

PollerStep(i) ==
    \/ Fetch(i) \/ PublishFind(i) \/ PublishUpdate(i) \/ PublishCheck(i)
    \/ PublishInsert(i) \/ MarkProcessed(i) \/ CountAttempt(i) \/ GiveUp(i)

-----------------------------------------------------------------------------
(* Properties *)

PollerTypeOK ==
    /\ StoresTypeOK
    /\ poller \in [Instances -> PollerRecords]
    /\ \A i \in Instances : poller[i].pc = "idle" <=> poller[i].batch = <<>>

\* A row is given up only after MaxRetryAttempts failed attempts were counted in
\* the table, although the decision is taken on the attempts the poller read
\* before (poller.go:104) and several pollers may count for the same row.
GivesUpOnlyAfterMaxAttempts ==
    \A t \in TxIds :
        outbox[t].status = "FAILED_TO_PUBLISH" => outbox[t].attempts >= MaxRetryAttempts

\* A row is PROCESSED only when the transaction has a COMPLETED document: what
\* the mark after the ledger write says (ledger_publisher.go:95).
ProcessedIsCompleted ==
    \A t \in TxIds : outbox[t].status = "PROCESSED" => ledger[t]["COMPLETED"] > 0

\* At most one document per transaction: what LedgerRepository.Create says of
\* itself (ledger_repository.go:38-39).
AtMostOneEntry ==
    \A t \in TxIds : ledger[t]["COMPLETED"] + ledger[t]["FAILED"] <= 1
=============================================================================
