----------------------------- MODULE Publication -----------------------------
(***************************************************************************)
(* From a delivery to the ledger: the calls of ProcessTransaction (module   *)
(* Processing) and the outbox pollers (module OutboxPoller) of all          *)
(* instances, on the same two databases.  Workers and pollers write the     *)
(* ledger without coordination.  A transaction may be delivered any number  *)
(* of times, to any instance, and an instance may die at any point; the     *)
(* consumer group that delivers is in TransactionProcessor.                 *)
(***************************************************************************)
EXTENDS Processing, OutboxPoller

VARIABLE
    delivered  \* history: how often each transaction was delivered

publicationVars ==
    <<request, accounts, rowLock, outbox, ledger, faults, worker, poller, delivered>>

Deliveries == {"never", "once", "again"}

\* No guard reads this.
CountDelivery(t) ==
    delivered' = [delivered EXCEPT ![t] = IF @ = "never" THEN "once" ELSE "again"]

-----------------------------------------------------------------------------

\* The consumer hands a message to the instance's worker.
Receive(i, t) == Deliver(i, t) /\ CountDelivery(t) /\ UNCHANGED poller

CallStep(i) == ProcessingStep(i) /\ UNCHANGED <<poller, delivered>>

\* The consumer is done with the message: it skips it, or commits its offset,
\* which may fail.
Acknowledge(i) ==
    /\ worker[i].pc = "done"
    /\ worker' = [worker EXCEPT ![i] = IdleWorker]
    /\ Succeeds \/ Fails
    /\ UNCHANGED <<request, accounts, rowLock, outbox, ledger, poller, delivered>>

Poll(i) == PollerStep(i) /\ UNCHANGED <<worker, delivered>>

\* The process dies.  PostgreSQL rolls its open transaction back; the memory of
\* its call and its poller is gone.
Die(i) ==
    /\ worker' = [worker EXCEPT ![i] = IdleWorker]
    /\ poller' = [poller EXCEPT ![i] = IdlePoller]
    /\ Release(i)
    /\ UNCHANGED <<request, accounts, outbox, ledger, faults, delivered>>

PublicationInit ==
    /\ ProcessingInit
    /\ poller = [i \in Instances |-> IdlePoller]
    /\ delivered = [t \in TxIds |-> "never"]

PublicationNext ==
    \E i \in Instances :
        \/ \E t \in TxIds : Receive(i, t)
        \/ CallStep(i) \/ Acknowledge(i) \/ Poll(i) \/ Die(i)

PublicationSpec == PublicationInit /\ [][PublicationNext]_publicationVars

-----------------------------------------------------------------------------
(* Properties *)

PublicationTypeOK ==
    /\ ProcessingTypeOK
    /\ PollerTypeOK
    /\ delivered \in [TxIds -> Deliveries]

\* The system has decided the transaction: it is applied, or the ledger says
\* what became of it.
Settled(t) == HasRow(t) \/ HasEntry(t)

Once(t) == delivered[t] # "again"

\* The ledger never shows as completed what the accounts do not contain: a
\* COMPLETED document always comes from a committed balance update.
CompletedIsApplied ==
    \A t \in TxIds : ledger[t]["COMPLETED"] > 0 => HasRow(t)

\* A row is PROCESSED only when its transaction has a document.  The status of
\* that document may be wrong, see ProcessedIsCompleted: the workers rewrite and
\* insert documents beside the pollers (ledger_publisher.go:41-104).
MarkedIsRecorded ==
    \A t \in TxIds : outbox[t].status = "PROCESSED" => HasEntry(t)

\* Only a second delivery can make the ledger wrong about a transaction: one that
\* was delivered once has no FAILED document when it is applied, and a COMPLETED
\* one when its row is PROCESSED, whatever pollers share the row, whatever fails
\* and whatever else is redelivered (failure_recorder.go:50-77 never looks at the
\* outbox; ledger_publisher.go:60-104).
RightWhenDeliveredOnce ==
    \A t \in TxIds :
        Once(t) /\ HasRow(t) =>
            /\ ledger[t]["FAILED"] = 0
            /\ outbox[t].status = "PROCESSED" => ledger[t]["COMPLETED"] > 0

\* With a single instance, a transaction that was delivered once has one document
\* at most: a failed insert that took effect is found by its retry, and the
\* worker that inserts a refusal is never beside a poller that publishes the
\* same transaction (ledger_repository.go:38-57, ledger_publisher.go:60-92).
OneEntryWhenDeliveredOnce ==
    \A t \in TxIds : Once(t) => ledger[t]["COMPLETED"] + ledger[t]["FAILED"] <= 1

\* Of two transactions of one account, the one with the earlier created_at is
\* completed first, as long as no statement has failed and it was delivered only
\* once: although created_at is read before the commit (message.go:36), rows are
\* committed while batches are published (outbox_repository.go:69-113), and any
\* number of pollers publish the same rows without reserving them.
AccountOrderUntilFailure ==
    faults = MaxFaults =>
        \A t, u \in AppliedTxs :
            /\ request[t].account = request[u].account
            /\ outbox[t].createdAt < outbox[u].createdAt
            /\ Once(t)
            /\ ledger[u]["COMPLETED"] > 0
            => ledger[t]["COMPLETED"] > 0
=============================================================================
