------------------------------- MODULE Stores -------------------------------
(***************************************************************************)
(* The two databases: PostgreSQL (accounts with their row locks, and the   *)
(* transactional outbox) and MongoDB (the ledger collection), seen through *)
(* the repositories of internal/data.                                      *)
(*                                                                         *)
(* Any statement may fail.  "faults" is how many failures are left.  A     *)
(* failed read has no effect; a write that reports an error may have been  *)
(* applied or not, because the error may concern the answer only.          *)
(***************************************************************************)
EXTENDS Bank

CONSTANTS
    Instances,   \* replicas of the transaction processor
    NoInstance,  \* stands for "nobody"
    Stamps,      \* clock readings that created_at may hold
    MaxFaults    \* bound on the number of failed database statements

ASSUME StoresAssumption ==
    /\ NoInstance \notin Instances
    /\ Stamps \subseteq Nat \ {0}
    /\ MaxFaults \in Nat

VARIABLES
    request,   \* the content of each transaction id, fixed by the gateway
    accounts,  \* table accounts: committed balance and version
    rowLock,   \* the instance whose open transaction locks the row of an account
    outbox,    \* table transaction_outbox, one row at most per transaction_id
    ledger,    \* collection: how many documents a transaction has, by status
    faults     \* failures that may still happen

storeVars == <<request, accounts, rowLock, outbox, ledger, faults>>

\* Status of the row of a transaction; "ABSENT" when the table has none.
OutboxStatuses == {"ABSENT", "PENDING", "PROCESSED", "FAILED_TO_PUBLISH"}
OutboxRows == [status : OutboxStatuses, attempts : Nat, createdAt : Nat]
NoRow == [status |-> "ABSENT", attempts |-> 0, createdAt |-> 0]

\* The statuses the program ever writes to the ledger.
LedgerStatuses == {"COMPLETED", "FAILED"}

StoresTypeOK ==
    /\ request \in [TxIds -> Requests]
    /\ accounts \in [AccountIds -> AccountRecords]
    /\ rowLock \in [AccountIds -> Instances \cup {NoInstance}]
    /\ outbox \in [TxIds -> OutboxRows]
    /\ ledger \in [TxIds -> [LedgerStatuses -> Nat]]
    /\ faults \in 0 .. MaxFaults

StoresInit ==
    /\ request \in [TxIds -> Requests]
    /\ accounts = [a \in AccountIds |-> [balance |-> Opening[a].balance, version |-> 1]]
    /\ rowLock = [a \in AccountIds |-> NoInstance]
    /\ outbox = [t \in TxIds |-> NoRow]
    /\ ledger = [t \in TxIds |-> [s \in LedgerStatuses |-> 0]]
    /\ faults = MaxFaults

-----------------------------------------------------------------------------
(* Failures *)

Succeeds == UNCHANGED faults
Fails == faults > 0 /\ faults' = faults - 1

-----------------------------------------------------------------------------
(* PostgreSQL *)

HasRow(t) == outbox[t].status # "ABSENT"

\* The transactions whose balance update is committed: the outbox row is
\* written by the same database transaction.
AppliedTxs == {t \in TxIds : HasRow(t)}

\* The UNIQUE constraint of transaction_outbox.transaction_id; and a table
\* without it.
NothingIsTaken(t) == FALSE
TransactionIdTaken(t) == HasRow(t)

\* SELECT ... FOR UPDATE waits for this; and a plain SELECT, which does not.
AnyRowIsFree(a) == TRUE
RowIsFree(a) == rowLock[a] = NoInstance

\* The end of a database transaction, committed or rolled back, frees its rows;
\* and a transaction that is never ended.
NeverRelease(i) == UNCHANGED rowLock
Release(i) ==
    rowLock' = [a \in AccountIds |-> IF rowLock[a] = i THEN NoInstance ELSE rowLock[a]]

\* outbox.NewMessage; the INSERT of OutboxRepository.Create.
PendingRow(stamp) == [status |-> "PENDING", attempts |-> 0, createdAt |-> stamp]
InsertRow(t, stamp) == outbox' = [outbox EXCEPT ![t] = PendingRow(stamp)]

\* OutboxRepository.UpdateStatus and IncrementAttempts, by primary key.
SetOutboxStatus(t, status) == outbox' = [outbox EXCEPT ![t].status = status]
IncrementAttempts(t) == outbox' = [outbox EXCEPT ![t].attempts = @ + 1]

-----------------------------------------------------------------------------
(* MongoDB.  Nothing makes transaction_id unique, so a transaction may have *)
(* several documents and FindOne and UpdateOne take any of them.            *)

StatusesOf(t) == {s \in LedgerStatuses : ledger[t][s] > 0}

HasEntry(t) == StatusesOf(t) # {}

\* LedgerRepository.GetByTransactionID: the status it may return.
FindOne(t) == IF HasEntry(t) THEN StatusesOf(t) ELSE {"NOT_FOUND"}

\* InsertOne of LedgerRepository.Create
InsertEntry(t, status) == ledger' = [ledger EXCEPT ![t][status] = @ + 1]

\* An update that removes the document before it inserts the new one.
RemoveEntry(t, status) ==
    \E old \in StatusesOf(t) \ {status} : ledger' = [ledger EXCEPT ![t][old] = @ - 1]

\* LedgerRepository.UpdateStatus: one matching document takes the new status.
UpdateEntry(t, status) ==
    \E old \in StatusesOf(t) :
        ledger' = [ledger EXCEPT ![t] =
                     [s \in LedgerStatuses |->
                        @[s] - (IF s = old THEN 1 ELSE 0) + (IF s = status THEN 1 ELSE 0)]]
=============================================================================
