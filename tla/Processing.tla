----------------------------- MODULE Processing -----------------------------
(***************************************************************************)
(* ProcessingServiceImpl.ProcessTransaction with its components (validator, *)
(* account manager, outbox manager, failure recorder), one action per       *)
(* database statement.  Each instance processes one delivery at a time; the *)
(* same transaction may be delivered any number of times, to any instance,  *)
(* also while another instance is processing it.                            *)
(*                                                                          *)
(* PublishRow is the environment: a poller's work on one row, in one step.  *)
(***************************************************************************)
EXTENDS Stores, FiniteSets

VARIABLE
    worker  \* the call of ProcessTransaction each instance is executing

processingVars == <<request, accounts, rowLock, outbox, ledger, faults, worker>>

(* pc is the statement the call executes next:                              *)
(*   idempotency, begin, lock, update, outbox, commit                       *)
(*   recordFind, recordUpdate, recordCheck, recordInsert (RecordFailure)    *)
(* or done (the call has returned result) or idle (there is no call).       *)
WorkerPCs == {"idle", "idempotency", "begin", "lock", "update", "outbox", "commit",
              "recordFind", "recordUpdate", "recordCheck", "recordInsert", "done"}

\* acc is the account as read by LockForUpdate and, once updated, as written
\* by the open transaction; stamp is created_at of the row it inserted.
WorkerRecords ==
    [pc : WorkerPCs, tx : TxIds \cup {NoTx}, acc : AccountRecords,
     stamp : Stamps \cup {0}, result : {"none", "ok", "error"}]

IdleWorker ==
    [pc |-> "idle", tx |-> NoTx, acc |-> NoAccount, stamp |-> 0, result |-> "none"]

\* The request instance i is processing, and its account.
Request(i) == request[worker[i].tx]
Account(i) == Request(i).account

Goto(i, pc) == worker' = [worker EXCEPT ![i].pc = pc]

\* The same, with what the call carries on.
GotoWith(i, pc, acc, stamp) ==
    worker' = [worker EXCEPT ![i] =
                 [pc |-> pc, tx |-> @.tx, acc |-> acc, stamp |-> stamp, result |-> "none"]]

Done(i, result) ==
    worker' = [worker EXCEPT ![i] =
                 [pc |-> "done", tx |-> @.tx, acc |-> NoAccount, stamp |-> 0,
                  result |-> result]]

\* What Return would be if a shadowed err hid the business errors from the
\* deferred function.
ReturnWithShadowedErr(i, result) ==
    /\ Done(i, result)
    /\ IF worker[i].pc \in {"recordFind", "recordUpdate", "recordCheck", "recordInsert"}
       THEN UNCHANGED rowLock
       ELSE Release(i)

\* ProcessTransaction returns; its deferred function has rolled back whatever
\* the database transaction did not commit.
Return(i, result) == Done(i, result) /\ Release(i)

ReturnError(i) == Fails /\ Return(i, "error")

-----------------------------------------------------------------------------

\* A message reaches ProcessTransaction, which validates it.  An invalid
\* request is recorded as failed, with no check for earlier processing.
Deliver(i, t) ==
    /\ worker[i].pc = "idle"
    /\ worker' = [worker EXCEPT ![i] =
                    [IdleWorker EXCEPT !.tx = t,
                       !.pc = IF Valid(request[t]) THEN "idempotency" ELSE "recordFind"]]
    /\ UNCHANGED storeVars

CheckIdempotency(i) ==
    /\ worker[i].pc = "idempotency"
    /\ \/ /\ Succeeds
          /\ \E found \in FindOne(worker[i].tx) :
               IF found \in {"COMPLETED", "FAILED"}
               THEN Return(i, "ok")
               ELSE Goto(i, "begin") /\ UNCHANGED rowLock
       \/ ReturnError(i)
    /\ UNCHANGED <<request, accounts, outbox, ledger>>

Begin(i) ==
    /\ worker[i].pc = "begin"
    /\ \/ Succeeds /\ Goto(i, "lock") /\ UNCHANGED rowLock
       \/ ReturnError(i)
    /\ UNCHANGED <<request, accounts, outbox, ledger>>

\* SELECT ... FOR UPDATE waits until no open transaction holds the row and
\* reads the committed account; it finds nothing for an unknown account.
LockForUpdate(i) ==
    /\ worker[i].pc = "lock"
    /\ \/ /\ Succeeds
          /\ Account(i) = UnknownAccount
          /\ Goto(i, "recordFind")
          /\ UNCHANGED rowLock
       \/ /\ Succeeds
          /\ Account(i) # UnknownAccount
          /\ RowIsFree(Account(i))
          /\ rowLock' = [rowLock EXCEPT ![Account(i)] = i]
          /\ GotoWith(i, "update", accounts[Account(i)], 0)
       \/ ReturnError(i)
    /\ UNCHANGED <<request, accounts, outbox, ledger>>

\* The UPDATE without the CHECK constraint of the table.
StorableUnchecked(acc, new) == acc.version = new.version - 1

\* AccountRepository.Update: the row still has the version the new one replaces
\* (WHERE version = ...), and the table accepts the balance (CHECK balance >= 0).
Storable(acc, new) == acc.version = new.version - 1 /\ new.balance >= 0

\* The rest of LockAndUpdateAccount: the currency check, Deposit or Withdraw on
\* the account in memory, and the conditional UPDATE of the row.  The UPDATE
\* reports an error when the version has moved, or when the balance violates
\* the table's CHECK (balance >= 0), which an overflowing deposit does.
UpdateAccount(i) ==
    LET refusal == Refusal(Request(i), Opening[Account(i)].currency, worker[i].acc.balance)
        new     == Applied(Request(i), worker[i].acc)
        stored  == Storable(accounts[Account(i)], new)
    IN
    /\ worker[i].pc = "update"
    /\ \/ /\ Succeeds
          /\ refusal # "NONE"
          /\ Goto(i, "recordFind")
          /\ UNCHANGED rowLock
       \/ /\ Succeeds
          /\ refusal = "NONE" /\ stored
          /\ GotoWith(i, "outbox", new, 0)
          /\ UNCHANGED rowLock
       \/ /\ Succeeds
          /\ refusal = "NONE" /\ ~stored
          /\ Return(i, "error")
       \/ refusal = "NONE" /\ ReturnError(i)
    /\ UNCHANGED <<request, accounts, outbox, ledger>>

\* A worker that writes the ledger itself, before its transaction commits.
CreateLedgerEntry(i) ==
    /\ worker[i].pc = "outbox"
    /\ Succeeds /\ ~TransactionIdTaken(worker[i].tx)
    /\ InsertEntry(worker[i].tx, "COMPLETED")
    /\ \E stamp \in Stamps :
         GotoWith(i, "commit", worker[i].acc, stamp)
    /\ UNCHANGED <<request, accounts, rowLock, outbox>>

\* An outbox repository that was not bound to the transaction (no WithTx).
CreateOutboxEntryOutsideTx(i) ==
    /\ worker[i].pc = "outbox"
    /\ Succeeds /\ ~TransactionIdTaken(worker[i].tx)
    /\ \E stamp \in Stamps :
         /\ GotoWith(i, "commit", worker[i].acc, stamp)
         /\ InsertRow(worker[i].tx, stamp)
    /\ UNCHANGED <<request, accounts, rowLock, ledger>>

\* An outbox row whose created_at is the time the client submitted the request.
CreateOutboxEntryAsSubmitted(i) ==
    /\ worker[i].pc = "outbox"
    /\ Succeeds /\ ~TransactionIdTaken(worker[i].tx)
    /\ \E stamp \in Stamps : GotoWith(i, "commit", worker[i].acc, stamp)
    /\ UNCHANGED <<request, accounts, rowLock, outbox, ledger>>

\* The INSERT is refused when transaction_id is already in the table.  The
\* clocks of the instances agree: created_at is not before any committed one.
CreateOutboxEntry(i) ==
    /\ worker[i].pc = "outbox"
    /\ \/ /\ Succeeds
          /\ ~TransactionIdTaken(worker[i].tx)
          /\ \E stamp \in Stamps :
               /\ \A t \in TxIds : outbox[t].createdAt <= stamp
               /\ GotoWith(i, "commit", worker[i].acc, stamp)
          /\ UNCHANGED rowLock
       \/ Succeeds /\ TransactionIdTaken(worker[i].tx) /\ Return(i, "error")
       \/ ReturnError(i)
    /\ UNCHANGED <<request, accounts, outbox, ledger>>

\* The balance and the outbox row become visible together.
CommitEffects(i) ==
    /\ accounts' = [accounts EXCEPT ![Account(i)] = worker[i].acc]
    /\ InsertRow(worker[i].tx, worker[i].stamp)

Commit(i) ==
    /\ worker[i].pc = "commit"
    /\ \/ Succeeds /\ CommitEffects(i) /\ Return(i, "ok")
       \/ ReturnError(i) /\ (CommitEffects(i) \/ UNCHANGED <<accounts, outbox>>)
    /\ UNCHANGED <<request, ledger>>

-----------------------------------------------------------------------------
(* FailureRecorderImpl.RecordFailure.  It runs while the database           *)
(* transaction, if one was begun, is still open, and its errors are only    *)
(* logged: ProcessTransaction returns nil whatever happens here.            *)

\* The first lookup.  After a read error existingEntry is nil as well.
RecordFind(i) ==
    /\ worker[i].pc = "recordFind"
    /\ \/ /\ Succeeds
          /\ \E found \in FindOne(worker[i].tx) :
               CASE found = "NOT_FOUND" -> Goto(i, "recordCheck") /\ UNCHANGED rowLock
                 [] found = "FAILED"    -> Return(i, "ok")
                 [] OTHER               -> Goto(i, "recordUpdate") /\ UNCHANGED rowLock
       \/ Fails /\ Goto(i, "recordCheck") /\ UNCHANGED rowLock
    /\ UNCHANGED <<request, accounts, outbox, ledger>>

RecordUpdate(i) ==
    /\ worker[i].pc = "recordUpdate"
    /\ \/ Succeeds /\ UpdateEntry(worker[i].tx, "FAILED")
       \/ Fails /\ (UpdateEntry(worker[i].tx, "FAILED") \/ UNCHANGED ledger)
    /\ Return(i, "ok")
    /\ UNCHANGED <<request, accounts, outbox>>

\* LedgerRepository.Create looks the transaction up again before it inserts.
RecordCheck(i) ==
    /\ worker[i].pc = "recordCheck"
    /\ \/ /\ Succeeds
          /\ \E found \in FindOne(worker[i].tx) :
               IF found = "NOT_FOUND"
               THEN Goto(i, "recordInsert") /\ UNCHANGED rowLock
               ELSE Return(i, "ok")
       \/ Fails /\ Return(i, "ok")
    /\ UNCHANGED <<request, accounts, outbox, ledger>>

RecordInsert(i) ==
    /\ worker[i].pc = "recordInsert"
    /\ \/ Succeeds /\ InsertEntry(worker[i].tx, "FAILED")
       \/ Fails /\ (InsertEntry(worker[i].tx, "FAILED") \/ UNCHANGED ledger)
    /\ Return(i, "ok")
    /\ UNCHANGED <<request, accounts, outbox>>

-----------------------------------------------------------------------------

\* The statements of the call in progress.
ProcessingStep(i) ==
    \/ CheckIdempotency(i) \/ Begin(i) \/ LockForUpdate(i) \/ UpdateAccount(i)
    \/ CreateOutboxEntry(i) \/ Commit(i)
    \/ RecordFind(i) \/ RecordUpdate(i) \/ RecordCheck(i) \/ RecordInsert(i)

\* The caller takes the result.
TakeResult(i) ==
    /\ worker[i].pc = "done"
    /\ worker' = [worker EXCEPT ![i] = IdleWorker]
    /\ UNCHANGED storeVars

PublishRow(t) ==
    /\ outbox[t].status = "PENDING"
    /\ SetOutboxStatus(t, "PROCESSED")
    /\ \/ ~HasEntry(t) /\ InsertEntry(t, "COMPLETED")
       \/ "COMPLETED" \in FindOne(t) /\ UNCHANGED ledger
       \/ "FAILED" \in FindOne(t) /\ UpdateEntry(t, "COMPLETED")
    /\ UNCHANGED <<request, accounts, rowLock, faults, worker>>

ProcessingInit == StoresInit /\ worker = [i \in Instances |-> IdleWorker]

ProcessingNext ==
    \/ \E i \in Instances :
        \/ \E t \in TxIds : Deliver(i, t)
        \/ ProcessingStep(i)
        \/ TakeResult(i)
    \/ \E t \in TxIds : PublishRow(t)

ProcessingSpec == ProcessingInit /\ [][ProcessingNext]_processingVars

-----------------------------------------------------------------------------
(* Properties *)

ProcessingTypeOK ==
    /\ StoresTypeOK
    /\ worker \in [Instances -> WorkerRecords]

\* The calls whose database transaction holds the row lock of an account.
HoldsLock(i) ==
    \/ worker[i].pc \in {"update", "outbox", "commit"}
    \/ /\ worker[i].pc \in {"recordFind", "recordUpdate", "recordCheck", "recordInsert"}
       /\ Valid(Request(i))
       /\ Account(i) # UnknownAccount

\* Row locks are held exactly by the calls that are between LockForUpdate and
\* the end of their database transaction: no return path of ProcessTransaction
\* (processing_service.go:86-146) leaves an account locked behind it, and no two
\* calls are inside for the same account.
LocksMatchCalls ==
    \A i \in Instances, a \in AccountIds :
        rowLock[a] = i <=> (HoldsLock(i) /\ Account(i) = a)

\* What a call has read under the lock, or written on top of it, is still what
\* the table holds when the call uses it (account_manager.go:41-80): so no
\* update is lost and the optimistic version check never fires.
SnapshotIsCurrent ==
    \A i \in Instances :
        /\ worker[i].pc = "update" => worker[i].acc = accounts[Account(i)]
        /\ worker[i].pc \in {"outbox", "commit"} =>
              worker[i].acc = Applied(Request(i), accounts[Account(i)])

AppliedTo(a) == {t \in AppliedTxs : request[t].account = a}

\* The transactions of account a, in an order their created_at allows, and the
\* balance after each of them: acceptable when its turn comes, and in range.
Replays(a, order, sums) ==
    /\ \A k, m \in DOMAIN order :
          k < m => order[k] # order[m] /\ outbox[order[k]].createdAt <= outbox[order[m]].createdAt
    /\ sums[0] = Opening[a].balance
    /\ \A k \in DOMAIN order :
          /\ Valid(request[order[k]])
          /\ Refusal(request[order[k]], Opening[a].currency, sums[k - 1]) = "NONE"
          /\ sums[k] = sums[k - 1] + SignedAmount(request[order[k]])

Balanced(a) ==
    LET n == Cardinality(AppliedTo(a))
    IN  /\ accounts[a].version = n + 1
        /\ \E order \in [1 .. n -> AppliedTo(a)], sums \in [0 .. n -> 0 .. MaxInt] :
              Replays(a, order, sums) /\ sums[n] = accounts[a].balance

\* The books balance: the version of an account counts its outbox rows, and
\* replaying these by created_at leads from the opening balance to the balance in
\* the table, without ever leaving the range of a balance and with every
\* transaction acceptable when its turn comes.  So the order in which the pollers
\* publish is one in which the account could have been served, although
\* created_at is taken before the commit (account_manager.go:41-80,
\* message.go:36, processing_service.go:99-143).
BooksBalance == \A a \in AccountIds : Balanced(a)

Promise == INSTANCE ExactlyOnce
    WITH balance <- [a \in AccountIds |-> accounts[a].balance],
         applied <- AppliedTxs

\* Whatever is redelivered, interleaved or failing, the balances move as the
\* abstract specification allows: one transaction at most once, by its amount.
ImplementsExactlyOnce == Promise!Spec

\* Every call returns: no statement sequence waits for itself or for another
\* call for ever (row locks are held across the MongoDB calls of RecordFailure).
EveryCallReturns ==
    \A i \in Instances : worker[i].pc # "idle" ~> worker[i].pc = "idle"
=============================================================================
