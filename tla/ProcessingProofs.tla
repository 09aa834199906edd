-------------------------- MODULE ProcessingProofs --------------------------
(***************************************************************************)
(* Theorems about Processing, for any set of transactions, accounts,       *)
(* requests and instances, any integer width and any number of failures:   *)
(* the type invariant, the discipline of the row locks, that the balances  *)
(* implement ExactlyOnce, and that they are what replaying the outbox rows  *)
(* gives.                                                                   *)
(***************************************************************************)
EXTENDS Processing, BankProofs, FiniteSetTheorems

InTransaction == {"update", "outbox", "commit"}
InRecording == {"recordFind", "recordUpdate", "recordCheck", "recordInsert"}

\* What a call knows of its request at each statement.
CallOK(i) ==
    /\ worker[i].pc # "idle" => worker[i].tx \in TxIds
    /\ worker[i].pc \in {"idempotency", "begin", "lock"} \cup InTransaction => Valid(Request(i))
    /\ worker[i].pc \in InTransaction => Account(i) # UnknownAccount
    /\ worker[i].pc \in {"outbox", "commit"} =>
          Refusal(Request(i), Opening[Account(i)].currency, accounts[Account(i)].balance) = "NONE"
    /\ worker[i].pc = "commit" => ~HasRow(worker[i].tx)

\* One conjunct of LocksMatchCalls and of SnapshotIsCurrent.
LockOK(i) == \A a \in AccountIds : rowLock[a] = i <=> (HoldsLock(i) /\ Account(i) = a)

SnapshotOK(i) ==
    /\ worker[i].pc = "update" => worker[i].acc = accounts[Account(i)]
    /\ worker[i].pc \in {"outbox", "commit"} =>
          worker[i].acc = Applied(Request(i), accounts[Account(i)])

InstanceOK(i) == CallOK(i) /\ LockOK(i) /\ SnapshotOK(i)

\* The inductive invariant.
IInv == ProcessingTypeOK /\ \A i \in Instances : InstanceOK(i)

-----------------------------------------------------------------------------
(* Initial states *)

LEMMA InitIInv == ProcessingInit => IInv
<1> SUFFICES ASSUME ProcessingInit PROVE IInv
  OBVIOUS
<1> USE DEF ProcessingInit, StoresInit
<1>1. StoresTypeOK
  <2>1. accounts \in [AccountIds -> AccountRecords]
    <3>1. \A a \in AccountIds : Opening[a].balance \in 0 .. MaxInt
      BY BankAssumption DEF BankAssumption
    <3> QED BY <3>1 DEF AccountRecords
  <2>2. outbox \in [TxIds -> OutboxRows]
    BY DEF OutboxRows, NoRow, OutboxStatuses
  <2>3. faults \in 0 .. MaxFaults
    BY StoresAssumption DEF StoresAssumption
  <2> QED BY <2>1, <2>2, <2>3 DEF StoresTypeOK
<1>2. worker \in [Instances -> WorkerRecords]
  <2>1. NoAccount \in AccountRecords
    BY BankAssumption DEF BankAssumption, NoAccount, AccountRecords
  <2> QED BY <2>1 DEF WorkerRecords, WorkerPCs, IdleWorker
<1>3. ASSUME NEW i \in Instances PROVE InstanceOK(i)
  <2>1. worker[i].pc = "idle"
    BY DEF IdleWorker
  <2>2. \A a \in AccountIds : rowLock[a] # i
    BY StoresAssumption DEF StoresAssumption
  <2> QED
    BY <2>1, <2>2 DEF InstanceOK, CallOK, LockOK, SnapshotOK, HoldsLock, InTransaction
<1> QED BY <1>1, <1>2, <1>3 DEF IInv, ProcessingTypeOK

-----------------------------------------------------------------------------
(* Steps.  An action of instance i leaves the other instances alone: the    *)
(* first lemma says when their part of the invariant is preserved.          *)

LEMMA OthersPreserved ==
    ASSUME IInv, NEW j \in Instances,
           request' = request, worker'[j] = worker[j],
           \A a \in AccountIds : rowLock'[a] = j <=> rowLock[a] = j,
           \A a \in AccountIds : rowLock[a] = j => accounts'[a] = accounts[a],
           \A t \in TxIds : (worker[j].pc = "commit" /\ worker[j].tx = t) => outbox'[t] = outbox[t]
    PROVE  InstanceOK(j)'
<1>1. InstanceOK(j)
  BY DEF IInv
<1>2. Request(j)' = Request(j) /\ Account(j)' = Account(j) /\ HoldsLock(j)' = HoldsLock(j)
  BY DEF Request, Account, HoldsLock, Valid
<1>3. worker[j].pc # "idle" => Request(j) \in Requests
  BY <1>1 DEF InstanceOK, CallOK, Request, IInv, ProcessingTypeOK, StoresTypeOK
<1>4. worker[j].pc \in InTransaction =>
        /\ Account(j) \in AccountIds
        /\ rowLock[Account(j)] = j
        /\ accounts'[Account(j)] = accounts[Account(j)]
  BY <1>1, <1>3, KnownAccount DEF InstanceOK, CallOK, LockOK, HoldsLock, InTransaction, Account
<1>5. CallOK(j)'
  BY <1>1, <1>2, <1>4 DEF InstanceOK, CallOK, InTransaction, HasRow, Valid
<1>6. LockOK(j)'
  BY <1>1, <1>2 DEF InstanceOK, LockOK
<1>7. SnapshotOK(j)'
  BY <1>1, <1>2, <1>4 DEF InstanceOK, SnapshotOK, InTransaction
<1> QED BY <1>5, <1>6, <1>7 DEF InstanceOK

\* A call that returns: its row locks are gone and it owes nothing.
LEMMA ReturnPreserves ==
    ASSUME IInv, NEW i \in Instances, NEW result \in {"ok", "error"},
           worker[i].pc # "idle", Return(i, result), request' = request
    PROVE  /\ worker' \in [Instances -> WorkerRecords]
           /\ rowLock' \in [AccountIds -> Instances \cup {NoInstance}]
           /\ InstanceOK(i)'
           /\ \A j \in Instances \ {i} :
                 /\ worker'[j] = worker[j]
                 /\ \A a \in AccountIds : rowLock'[a] = j <=> rowLock[a] = j
<1> USE DEF Return, Done, Release
<1>1. NoAccount \in AccountRecords
  BY BankAssumption DEF BankAssumption, NoAccount, AccountRecords
<1>2. worker \in [Instances -> WorkerRecords]
  BY DEF IInv, ProcessingTypeOK
<1>3. worker[i].tx \in TxIds
  BY DEF IInv, InstanceOK, CallOK
<1>4. worker' \in [Instances -> WorkerRecords]
  BY <1>1, <1>2, <1>3 DEF WorkerRecords, WorkerPCs
<1>5. worker'[i].pc = "done" /\ worker'[i].tx = worker[i].tx
  BY <1>2
<1>6. rowLock' \in [AccountIds -> Instances \cup {NoInstance}]
  BY DEF IInv, ProcessingTypeOK, StoresTypeOK
<1>7. \A a \in AccountIds : rowLock'[a] # i
  BY StoresAssumption DEF StoresAssumption
<1>8. InstanceOK(i)'
  BY <1>3, <1>5, <1>7 DEF InstanceOK, CallOK, LockOK, SnapshotOK, HoldsLock, InTransaction
<1>9. ASSUME NEW j \in Instances \ {i}
      PROVE  worker'[j] = worker[j] /\ \A a \in AccountIds : rowLock'[a] = j <=> rowLock[a] = j
  BY <1>2, StoresAssumption DEF StoresAssumption
<1> QED BY <1>4, <1>6, <1>8, <1>9

\* A step of instance i after which its own part of the invariant holds.
LEMMA StepPreserves ==
    ASSUME IInv, NEW i \in Instances, StoresTypeOK', request' = request,
           worker' \in [Instances -> WorkerRecords], InstanceOK(i)',
           \A j \in Instances \ {i} :
              /\ worker'[j] = worker[j]
              /\ \A a \in AccountIds : rowLock'[a] = j <=> rowLock[a] = j
              /\ \A a \in AccountIds : rowLock[a] = j => accounts'[a] = accounts[a]
              /\ \A t \in TxIds : (worker[j].pc = "commit" /\ worker[j].tx = t)
                                     => outbox'[t] = outbox[t]
    PROVE  IInv'
<1>1. \A j \in Instances : InstanceOK(j)'
  BY OthersPreserved
<1> QED BY <1>1 DEF IInv, ProcessingTypeOK

\* A step that changes neither database tables nor locks.
LEMMA GotoPreserves ==
    ASSUME IInv, NEW i \in Instances, NEW pc \in WorkerPCs, Goto(i, pc),
           UNCHANGED <<request, accounts, rowLock, outbox>>, StoresTypeOK',
           InstanceOK(i)'
    PROVE  IInv'
<1>1. worker \in [Instances -> WorkerRecords]
  BY DEF IInv, ProcessingTypeOK
<1>2. worker' \in [Instances -> WorkerRecords]
  BY <1>1 DEF Goto, WorkerRecords
<1>3. \A j \in Instances \ {i} : worker'[j] = worker[j]
  BY <1>1 DEF Goto
<1> QED BY <1>2, <1>3, StepPreserves

\* A return that changes no table of PostgreSQL.
LEMMA QuietReturnPreserves ==
    ASSUME IInv, NEW i \in Instances, NEW result \in {"ok", "error"},
           worker[i].pc # "idle", Return(i, result),
           UNCHANGED <<request, accounts, outbox>>,
           ledger' \in [TxIds -> [LedgerStatuses -> Nat]], faults' \in 0 .. MaxFaults
    PROVE  IInv'
<1>1. StoresTypeOK'
  BY ReturnPreserves DEF IInv, ProcessingTypeOK, StoresTypeOK
<1> QED BY <1>1, ReturnPreserves, StepPreserves

LEMMA FaultsTyped ==
    ASSUME faults \in 0 .. MaxFaults, Succeeds \/ Fails
    PROVE  faults' \in 0 .. MaxFaults
<1> QED BY StoresAssumption DEF StoresAssumption, Succeeds, Fails

LEMMA LedgerTyped ==
    ASSUME ledger \in [TxIds -> [LedgerStatuses -> Nat]],
           NEW t \in TxIds, NEW s \in LedgerStatuses,
           InsertEntry(t, s) \/ UpdateEntry(t, s) \/ UNCHANGED ledger
    PROVE  ledger' \in [TxIds -> [LedgerStatuses -> Nat]]
<1>1. CASE InsertEntry(t, s)
  BY <1>1 DEF InsertEntry
<1>2. CASE UpdateEntry(t, s)
  <2>1. PICK old \in StatusesOf(t) :
          ledger' = [ledger EXCEPT ![t] =
                       [x \in LedgerStatuses |->
                          ledger[t][x] - (IF x = old THEN 1 ELSE 0) + (IF x = s THEN 1 ELSE 0)]]
    BY <1>2 DEF UpdateEntry
  <2>2. ledger[t][old] > 0
    BY <2>1 DEF StatusesOf
  <2>3. \A x \in LedgerStatuses :
          ledger[t][x] - (IF x = old THEN 1 ELSE 0) + (IF x = s THEN 1 ELSE 0) \in Nat
    BY <2>2
  <2> QED BY <2>1, <2>3
<1> QED BY <1>1, <1>2

-----------------------------------------------------------------------------
(* The actions *)

LEMMA DeliverPreserves ==
    ASSUME IInv, NEW i \in Instances, NEW t \in TxIds, Deliver(i, t)
    PROVE  IInv'
<1> USE DEF Deliver, storeVars
<1>1. worker \in [Instances -> WorkerRecords] /\ StoresTypeOK
  BY DEF IInv, ProcessingTypeOK
<1>2. StoresTypeOK'
  BY <1>1 DEF StoresTypeOK
<1>3. NoAccount \in AccountRecords
  BY BankAssumption DEF BankAssumption, NoAccount, AccountRecords
<1>4. worker' \in [Instances -> WorkerRecords]
  BY <1>1, <1>3 DEF WorkerRecords, WorkerPCs, IdleWorker
<1>5. /\ worker'[i].tx = t
      /\ worker'[i].pc = IF Valid(request[t]) THEN "idempotency" ELSE "recordFind"
  BY <1>1 DEF IdleWorker
<1>6. \A a \in AccountIds : rowLock[a] # i
  BY DEF IInv, InstanceOK, LockOK, HoldsLock
<1>7. InstanceOK(i)'
  BY <1>5, <1>6
  DEF InstanceOK, CallOK, LockOK, SnapshotOK, HoldsLock, InTransaction, Request, Account, Valid
<1>8. \A j \in Instances \ {i} : worker'[j] = worker[j]
  BY <1>1
<1> QED BY <1>2, <1>4, <1>7, <1>8, StepPreserves

\* What a statement that only moves on to the next one keeps.
LEMMA GotoFacts ==
    ASSUME IInv, NEW i \in Instances, NEW pc \in WorkerPCs, Goto(i, pc),
           UNCHANGED <<request, accounts, rowLock, outbox, ledger>>, Succeeds \/ Fails
    PROVE  /\ StoresTypeOK'
           /\ worker'[i].pc = pc /\ worker'[i].tx = worker[i].tx /\ worker'[i].acc = worker[i].acc
           /\ Request(i)' = Request(i) /\ Account(i)' = Account(i)
<1>1. worker \in [Instances -> WorkerRecords] /\ StoresTypeOK
  BY DEF IInv, ProcessingTypeOK
<1>2. worker'[i] = [worker[i] EXCEPT !.pc = pc]
  BY <1>1 DEF Goto
<1>3. worker'[i].pc = pc /\ worker'[i].tx = worker[i].tx /\ worker'[i].acc = worker[i].acc
  BY <1>1, <1>2 DEF WorkerRecords
<1>4. StoresTypeOK'
  BY <1>1, FaultsTyped DEF StoresTypeOK
<1> QED BY <1>3, <1>4 DEF Request, Account

LEMMA GotoWithFacts ==
    ASSUME IInv, NEW i \in Instances, NEW pc \in WorkerPCs, NEW acc \in AccountRecords,
           NEW stamp \in Stamps \cup {0}, worker[i].tx \in TxIds,
           GotoWith(i, pc, acc, stamp), request' = request
    PROVE  /\ worker' \in [Instances -> WorkerRecords]
           /\ worker'[i].pc = pc /\ worker'[i].tx = worker[i].tx /\ worker'[i].acc = acc
           /\ \A j \in Instances \ {i} : worker'[j] = worker[j]
           /\ Request(i)' = Request(i) /\ Account(i)' = Account(i)
<1>1. worker \in [Instances -> WorkerRecords]
  BY DEF IInv, ProcessingTypeOK
<1>2. worker'[i] = [pc |-> pc, tx |-> worker[i].tx, acc |-> acc, stamp |-> stamp, result |-> "none"]
  BY <1>1 DEF GotoWith
<1>3. worker' \in [Instances -> WorkerRecords]
  BY <1>1 DEF GotoWith, WorkerRecords
<1>4. \A j \in Instances \ {i} : worker'[j] = worker[j]
  BY <1>1 DEF GotoWith
<1> QED BY <1>2, <1>3, <1>4 DEF Request, Account

LEMMA CheckIdempotencyPreserves ==
    ASSUME IInv, NEW i \in Instances, CheckIdempotency(i)
    PROVE  IInv'
<1>1. /\ worker[i].pc = "idempotency"
      /\ UNCHANGED <<request, accounts, outbox, ledger>>
      /\ Succeeds \/ Fails
  BY DEF CheckIdempotency, ReturnError
<1>2. ledger \in [TxIds -> [LedgerStatuses -> Nat]] /\ faults \in 0 .. MaxFaults
  BY DEF IInv, ProcessingTypeOK, StoresTypeOK
<1>3. ledger' \in [TxIds -> [LedgerStatuses -> Nat]] /\ faults' \in 0 .. MaxFaults
  BY <1>1, <1>2, FaultsTyped
<1>4. CASE \E result \in {"ok", "error"} : Return(i, result)
  BY <1>1, <1>3, <1>4, QuietReturnPreserves
<1>5. CASE Goto(i, "begin") /\ UNCHANGED rowLock
  <2>1. /\ StoresTypeOK' /\ worker'[i].pc = "begin" /\ worker'[i].tx = worker[i].tx
        /\ Request(i)' = Request(i)
    BY <1>1, <1>5, GotoFacts DEF WorkerPCs
  <2>2. InstanceOK(i)'
    BY <1>1, <1>5, <2>1
    DEF IInv, InstanceOK, CallOK, LockOK, SnapshotOK, HoldsLock, InTransaction, Valid
  <2> QED BY <1>1, <1>5, <2>1, <2>2, GotoPreserves DEF WorkerPCs
<1> QED BY <1>4, <1>5 DEF CheckIdempotency, ReturnError

LEMMA BeginPreserves ==
    ASSUME IInv, NEW i \in Instances, Begin(i)
    PROVE  IInv'
<1>1. /\ worker[i].pc = "begin"
      /\ UNCHANGED <<request, accounts, outbox, ledger>>
      /\ Succeeds \/ Fails
  BY DEF Begin, ReturnError
<1>2. ledger \in [TxIds -> [LedgerStatuses -> Nat]] /\ faults \in 0 .. MaxFaults
  BY DEF IInv, ProcessingTypeOK, StoresTypeOK
<1>3. ledger' \in [TxIds -> [LedgerStatuses -> Nat]] /\ faults' \in 0 .. MaxFaults
  BY <1>1, <1>2, FaultsTyped
<1>4. CASE Return(i, "error")
  BY <1>1, <1>3, <1>4, QuietReturnPreserves
<1>5. CASE Goto(i, "lock") /\ UNCHANGED rowLock
  <2>1. /\ StoresTypeOK' /\ worker'[i].pc = "lock" /\ worker'[i].tx = worker[i].tx
        /\ Request(i)' = Request(i)
    BY <1>1, <1>5, GotoFacts DEF WorkerPCs
  <2>2. InstanceOK(i)'
    BY <1>1, <1>5, <2>1
    DEF IInv, InstanceOK, CallOK, LockOK, SnapshotOK, HoldsLock, InTransaction, Valid
  <2> QED BY <1>1, <1>5, <2>1, <2>2, GotoPreserves DEF WorkerPCs
<1> QED BY <1>4, <1>5 DEF Begin, ReturnError

LEMMA LockForUpdatePreserves ==
    ASSUME IInv, NEW i \in Instances, LockForUpdate(i)
    PROVE  IInv'
<1>1. /\ worker[i].pc = "lock"
      /\ UNCHANGED <<request, accounts, outbox, ledger>>
      /\ Succeeds \/ Fails
  BY DEF LockForUpdate, ReturnError
<1>2. StoresTypeOK /\ worker \in [Instances -> WorkerRecords]
  BY DEF IInv, ProcessingTypeOK
<1>3. ledger' \in [TxIds -> [LedgerStatuses -> Nat]] /\ faults' \in 0 .. MaxFaults
  BY <1>1, <1>2, FaultsTyped DEF StoresTypeOK
<1>4. worker[i].tx \in TxIds /\ Valid(Request(i))
  BY <1>1 DEF IInv, InstanceOK, CallOK
<1>5. CASE Return(i, "error")
  BY <1>1, <1>3, <1>5, QuietReturnPreserves
<1>6. CASE Account(i) = UnknownAccount /\ Goto(i, "recordFind") /\ UNCHANGED rowLock
  <2>1. /\ StoresTypeOK' /\ worker'[i].pc = "recordFind" /\ worker'[i].tx = worker[i].tx
        /\ Request(i)' = Request(i) /\ Account(i)' = Account(i)
    BY <1>1, <1>6, GotoFacts DEF WorkerPCs
  <2>2. InstanceOK(i)'
    BY <1>1, <1>6, <2>1
    DEF IInv, InstanceOK, CallOK, LockOK, SnapshotOK, HoldsLock, InTransaction
  <2> QED BY <1>1, <1>6, <2>1, <2>2, GotoPreserves DEF WorkerPCs
<1>7. CASE /\ Account(i) # UnknownAccount
           /\ rowLock[Account(i)] = NoInstance
           /\ rowLock' = [rowLock EXCEPT ![Account(i)] = i]
           /\ GotoWith(i, "update", accounts[Account(i)], 0)
  <2>1. Account(i) \in AccountIds
    BY <1>2, <1>4, <1>7, KnownAccount DEF Account, Request, StoresTypeOK
  <2>2. accounts[Account(i)] \in AccountRecords
    BY <1>2, <2>1 DEF StoresTypeOK
  <2>3. /\ worker'[i].pc = "update" /\ worker'[i].tx = worker[i].tx
        /\ worker'[i].acc = accounts[Account(i)]
        /\ worker' \in [Instances -> WorkerRecords]
        /\ \A j \in Instances \ {i} : worker'[j] = worker[j]
        /\ Request(i)' = Request(i) /\ Account(i)' = Account(i)
    BY <1>1, <1>4, <1>7, <2>2, GotoWithFacts DEF WorkerPCs
  <2>5. StoresTypeOK'
    BY <1>1, <1>2, <1>3, <1>7 DEF StoresTypeOK
  <2>6. \A a \in AccountIds : rowLock[a] # i
    BY <1>1 DEF IInv, InstanceOK, LockOK, HoldsLock
  <2>7. LockOK(i)'
    BY <1>2, <1>7, <2>1, <2>3, <2>6 DEF LockOK, HoldsLock, StoresTypeOK
  <2>8. CallOK(i)' /\ SnapshotOK(i)'
    BY <1>1, <1>4, <1>7, <2>3 DEF CallOK, SnapshotOK, InTransaction, Valid
  <2>9. ASSUME NEW j \in Instances \ {i}
        PROVE  worker'[j] = worker[j] /\ \A a \in AccountIds : rowLock'[a] = j <=> rowLock[a] = j
    BY <1>2, <1>7, <2>3, StoresAssumption DEF StoresAssumption, StoresTypeOK
  <2> QED BY <1>1, <2>3, <2>5, <2>7, <2>8, <2>9, StepPreserves DEF InstanceOK
<1> QED BY <1>5, <1>6, <1>7 DEF LockForUpdate, ReturnError, RowIsFree

LEMMA UpdateAccountPreserves ==
    ASSUME IInv, NEW i \in Instances, UpdateAccount(i)
    PROVE  IInv'
<1> DEFINE refusal == Refusal(Request(i), Opening[Account(i)].currency, worker[i].acc.balance)
           new     == Applied(Request(i), worker[i].acc)
<1>1. /\ worker[i].pc = "update"
      /\ UNCHANGED <<request, accounts, outbox, ledger>>
      /\ Succeeds \/ Fails
  BY DEF UpdateAccount, ReturnError
<1>2. StoresTypeOK /\ worker \in [Instances -> WorkerRecords]
  BY DEF IInv, ProcessingTypeOK
<1>3. ledger' \in [TxIds -> [LedgerStatuses -> Nat]] /\ faults' \in 0 .. MaxFaults
  BY <1>1, <1>2, FaultsTyped DEF StoresTypeOK
<1>4. /\ worker[i].tx \in TxIds /\ Valid(Request(i)) /\ Account(i) # UnknownAccount
      /\ worker[i].acc = accounts[Account(i)]
  BY <1>1 DEF IInv, InstanceOK, CallOK, SnapshotOK, InTransaction
<1>5. Request(i) \in Requests /\ Account(i) \in AccountIds
  BY <1>2, <1>4, KnownAccount DEF Account, Request, StoresTypeOK
<1>6. CASE Return(i, "error")
  BY <1>1, <1>3, <1>6, QuietReturnPreserves
<1>7. CASE Goto(i, "recordFind") /\ UNCHANGED rowLock
  <2>1. /\ StoresTypeOK' /\ worker'[i].pc = "recordFind" /\ worker'[i].tx = worker[i].tx
        /\ Request(i)' = Request(i) /\ Account(i)' = Account(i)
    BY <1>1, <1>7, GotoFacts DEF WorkerPCs
  <2>2. HoldsLock(i) /\ HoldsLock(i)'
    BY <1>1, <1>4, <2>1 DEF HoldsLock, Valid
  <2>3. InstanceOK(i)'
    BY <1>7, <1>4, <2>1, <2>2 DEF IInv, InstanceOK, CallOK, LockOK, SnapshotOK, InTransaction
  <2> QED BY <1>1, <1>7, <2>1, <2>3, GotoPreserves DEF WorkerPCs
<1>8. CASE /\ refusal = "NONE" /\ Storable(accounts[Account(i)], new)
           /\ GotoWith(i, "outbox", new, 0) /\ UNCHANGED rowLock
  <2>1. new \in AccountRecords
    <3>1. worker[i].acc \in AccountRecords
      BY <1>2, <1>4, <1>5 DEF StoresTypeOK
    <3>2. NewBalance(Request(i), worker[i].acc.balance) \in 0 .. MaxInt
      BY <1>4, <1>5, <1>8, <3>1, AcceptedBalance DEF Storable, Applied, AccountRecords
    <3> QED BY <3>1, <3>2 DEF Applied, AccountRecords
  <2>2. /\ worker'[i].pc = "outbox" /\ worker'[i].tx = worker[i].tx /\ worker'[i].acc = new
        /\ worker' \in [Instances -> WorkerRecords]
        /\ \A j \in Instances \ {i} : worker'[j] = worker[j]
        /\ Request(i)' = Request(i) /\ Account(i)' = Account(i)
    BY <1>1, <1>4, <1>8, <2>1, GotoWithFacts DEF WorkerPCs
  <2>3. StoresTypeOK'
    BY <1>1, <1>2, <1>3, <1>8 DEF StoresTypeOK
  <2>4. LockOK(i)'
    BY <1>1, <1>8, <2>2 DEF IInv, InstanceOK, LockOK, HoldsLock
  <2>5. CallOK(i)' /\ SnapshotOK(i)'
    BY <1>1, <1>4, <1>8, <2>2 DEF CallOK, SnapshotOK, InTransaction, Valid
  <2> QED BY <1>1, <1>8, <2>2, <2>3, <2>4, <2>5, StepPreserves DEF InstanceOK
<1> QED BY <1>6, <1>7, <1>8 DEF UpdateAccount, ReturnError

LEMMA CreateOutboxEntryPreserves ==
    ASSUME IInv, NEW i \in Instances, CreateOutboxEntry(i)
    PROVE  IInv'
<1>1. /\ worker[i].pc = "outbox"
      /\ UNCHANGED <<request, accounts, outbox, ledger>>
      /\ Succeeds \/ Fails
  BY DEF CreateOutboxEntry, ReturnError
<1>2. StoresTypeOK /\ worker \in [Instances -> WorkerRecords]
  BY DEF IInv, ProcessingTypeOK
<1>3. ledger' \in [TxIds -> [LedgerStatuses -> Nat]] /\ faults' \in 0 .. MaxFaults
  BY <1>1, <1>2, FaultsTyped DEF StoresTypeOK
<1>4. worker[i].tx \in TxIds /\ worker[i].acc \in AccountRecords
  BY <1>1, <1>2 DEF IInv, InstanceOK, CallOK, WorkerRecords
<1>5. CASE Return(i, "error")
  BY <1>1, <1>3, <1>5, QuietReturnPreserves
<1>6. ASSUME NEW stamp \in Stamps, GotoWith(i, "commit", worker[i].acc, stamp),
             UNCHANGED rowLock, ~HasRow(worker[i].tx)
      PROVE  IInv'
  <2>1. /\ worker'[i].pc = "commit" /\ worker'[i].tx = worker[i].tx
        /\ worker'[i].acc = worker[i].acc
        /\ worker' \in [Instances -> WorkerRecords]
        /\ \A j \in Instances \ {i} : worker'[j] = worker[j]
        /\ Request(i)' = Request(i) /\ Account(i)' = Account(i)
    BY <1>1, <1>4, <1>6, GotoWithFacts DEF WorkerPCs
  <2>2. StoresTypeOK'
    BY <1>1, <1>2, <1>3, <1>6 DEF StoresTypeOK
  <2>3. LockOK(i)'
    BY <1>1, <1>6, <2>1 DEF IInv, InstanceOK, LockOK, HoldsLock
  <2>4. CallOK(i)' /\ SnapshotOK(i)'
    BY <1>1, <1>6, <2>1
    DEF IInv, InstanceOK, CallOK, SnapshotOK, InTransaction, Valid, HasRow
  <2> QED BY <1>1, <1>6, <2>1, <2>2, <2>3, <2>4, StepPreserves DEF InstanceOK
<1> QED BY <1>5, <1>6 DEF CreateOutboxEntry, ReturnError, TransactionIdTaken

\* The two ways a commit can end in the tables.
LEMMA CommitPreserves ==
    ASSUME IInv, NEW i \in Instances, Commit(i)
    PROVE  IInv'
<1>1. /\ worker[i].pc = "commit"
      /\ UNCHANGED <<request, ledger>>
      /\ Succeeds \/ Fails
      /\ CommitEffects(i) \/ UNCHANGED <<accounts, outbox>>
  BY DEF Commit, ReturnError
<1>2. PICK result \in {"ok", "error"} : Return(i, result)
  BY DEF Commit, ReturnError
<1>3. StoresTypeOK /\ worker \in [Instances -> WorkerRecords]
  BY DEF IInv, ProcessingTypeOK
<1>4. ledger' \in [TxIds -> [LedgerStatuses -> Nat]] /\ faults' \in 0 .. MaxFaults
  BY <1>1, <1>3, FaultsTyped DEF StoresTypeOK
<1>5. CASE UNCHANGED <<accounts, outbox>>
  BY <1>1, <1>2, <1>4, <1>5, QuietReturnPreserves
<1>6. CASE CommitEffects(i)
  <2>1. /\ worker[i].tx \in TxIds /\ worker[i].acc \in AccountRecords
        /\ Account(i) # UnknownAccount
        /\ worker[i].stamp \in Nat
    <3>1. worker[i].acc \in AccountRecords /\ worker[i].stamp \in Stamps \cup {0}
      BY <1>3 DEF WorkerRecords
    <3>2. \A stamp \in Stamps \cup {0} : stamp \in Nat
      BY StoresAssumption DEF StoresAssumption
    <3>4. worker[i].stamp \in Nat
      BY <3>1, <3>2, Zenon
    <3>3. worker[i].tx \in TxIds /\ Account(i) # UnknownAccount
      BY <1>1 DEF IInv, InstanceOK, CallOK, InTransaction
    <3> QED BY <3>1, <3>3, <3>4
  <2>2. Account(i) \in AccountIds
    BY <1>3, <2>1, KnownAccount DEF Account, Request, StoresTypeOK
  <2>3. rowLock[Account(i)] = i
    BY <1>1, <2>2 DEF IInv, InstanceOK, LockOK, HoldsLock
  <2>4. StoresTypeOK'
    <3>1. accounts' \in [AccountIds -> AccountRecords]
      BY <1>3, <1>6, <2>1 DEF CommitEffects, InsertRow, StoresTypeOK
    <3>2. outbox' \in [TxIds -> OutboxRows]
      BY <1>3, <1>6, <2>1 DEF CommitEffects, InsertRow, StoresTypeOK, PendingRow, OutboxRows, OutboxStatuses
    <3> QED BY <1>1, <1>2, <1>3, <1>4, <3>1, <3>2, ReturnPreserves DEF StoresTypeOK
  <2>5. ASSUME NEW j \in Instances \ {i}
        PROVE  /\ worker'[j] = worker[j]
               /\ \A a \in AccountIds : rowLock'[a] = j <=> rowLock[a] = j
               /\ \A a \in AccountIds : rowLock[a] = j => accounts'[a] = accounts[a]
               /\ \A t \in TxIds : (worker[j].pc = "commit" /\ worker[j].tx = t)
                                     => outbox'[t] = outbox[t]
    <3>1. worker'[j] = worker[j] /\ \A a \in AccountIds : rowLock'[a] = j <=> rowLock[a] = j
      BY <1>1, <1>2, ReturnPreserves
    <3>2. \A a \in AccountIds : rowLock[a] = j => accounts'[a] = accounts[a]
      BY <1>3, <1>6, <2>3 DEF CommitEffects, InsertRow, StoresTypeOK
    <3>3. ASSUME worker[j].pc = "commit" PROVE worker[j].tx # worker[i].tx
      <4>1. SUFFICES ASSUME worker[j].tx = worker[i].tx PROVE FALSE
        OBVIOUS
      <4>2. Account(j) = Account(i)
        BY <4>1 DEF Account, Request
      <4>3. rowLock[Account(i)] = j
        BY <2>2, <3>3, <4>2 DEF IInv, InstanceOK, LockOK, HoldsLock
      <4> QED BY <2>3, <4>3
    <3>4. \A t \in TxIds : (worker[j].pc = "commit" /\ worker[j].tx = t)
                             => outbox'[t] = outbox[t]
      BY <1>3, <1>6, <3>3 DEF CommitEffects, InsertRow, StoresTypeOK
    <3> QED BY <3>1, <3>2, <3>4
  <2> QED BY <1>1, <1>2, <2>4, <2>5, ReturnPreserves, StepPreserves
<1> QED BY <1>1, <1>5, <1>6

LEMMA RecordFindPreserves ==
    ASSUME IInv, NEW i \in Instances, RecordFind(i)
    PROVE  IInv'
<1>1. /\ worker[i].pc = "recordFind"
      /\ UNCHANGED <<request, accounts, outbox, ledger>>
      /\ Succeeds \/ Fails
  BY DEF RecordFind
<1>2. ledger \in [TxIds -> [LedgerStatuses -> Nat]] /\ faults \in 0 .. MaxFaults
  BY DEF IInv, ProcessingTypeOK, StoresTypeOK
<1>3. ledger' \in [TxIds -> [LedgerStatuses -> Nat]] /\ faults' \in 0 .. MaxFaults
  BY <1>1, <1>2, FaultsTyped
<1>4. CASE Return(i, "ok")
  BY <1>1, <1>3, <1>4, QuietReturnPreserves
<1>5. ASSUME NEW pc \in {"recordCheck", "recordUpdate"}, Goto(i, pc), UNCHANGED rowLock
      PROVE  IInv'
  <2>1. /\ StoresTypeOK' /\ worker'[i].pc = pc /\ worker'[i].tx = worker[i].tx
        /\ Request(i)' = Request(i) /\ Account(i)' = Account(i)
    BY <1>1, <1>5, GotoFacts DEF WorkerPCs
  <2>2. HoldsLock(i)' = HoldsLock(i)
    BY <1>1, <2>1 DEF HoldsLock, Valid
  <2>3. InstanceOK(i)'
    BY <1>1, <1>5, <2>1, <2>2 DEF IInv, InstanceOK, CallOK, LockOK, SnapshotOK, InTransaction
  <2> QED BY <1>1, <1>5, <2>1, <2>3, GotoPreserves DEF WorkerPCs
<1>6. \/ Return(i, "ok")
      \/ \E pc \in {"recordCheck", "recordUpdate"} : Goto(i, pc) /\ UNCHANGED rowLock
  BY DEF RecordFind
<1> QED BY <1>4, <1>5, <1>6

LEMMA RecordCheckPreserves ==
    ASSUME IInv, NEW i \in Instances, RecordCheck(i)
    PROVE  IInv'
<1>1. /\ worker[i].pc = "recordCheck"
      /\ UNCHANGED <<request, accounts, outbox, ledger>>
      /\ Succeeds \/ Fails
  BY DEF RecordCheck
<1>2. ledger \in [TxIds -> [LedgerStatuses -> Nat]] /\ faults \in 0 .. MaxFaults
  BY DEF IInv, ProcessingTypeOK, StoresTypeOK
<1>3. ledger' \in [TxIds -> [LedgerStatuses -> Nat]] /\ faults' \in 0 .. MaxFaults
  BY <1>1, <1>2, FaultsTyped
<1>4. CASE Return(i, "ok")
  BY <1>1, <1>3, <1>4, QuietReturnPreserves
<1>5. CASE Goto(i, "recordInsert") /\ UNCHANGED rowLock
  <2>1. /\ StoresTypeOK' /\ worker'[i].pc = "recordInsert" /\ worker'[i].tx = worker[i].tx
        /\ Request(i)' = Request(i) /\ Account(i)' = Account(i)
    BY <1>1, <1>5, GotoFacts DEF WorkerPCs
  <2>2. HoldsLock(i)' = HoldsLock(i)
    BY <1>1, <2>1 DEF HoldsLock, Valid
  <2>3. InstanceOK(i)'
    BY <1>1, <1>5, <2>1, <2>2 DEF IInv, InstanceOK, CallOK, LockOK, SnapshotOK, InTransaction
  <2> QED BY <1>1, <1>5, <2>1, <2>3, GotoPreserves DEF WorkerPCs
<1> QED BY <1>4, <1>5 DEF RecordCheck

LEMMA RecordWritePreserves ==
    ASSUME IInv, NEW i \in Instances, RecordUpdate(i) \/ RecordInsert(i)
    PROVE  IInv'
<1>1. /\ worker[i].pc \in {"recordUpdate", "recordInsert"}
      /\ Return(i, "ok")
      /\ UNCHANGED <<request, accounts, outbox>>
      /\ Succeeds \/ Fails
      /\ \/ InsertEntry(worker[i].tx, "FAILED")
         \/ UpdateEntry(worker[i].tx, "FAILED")
         \/ UNCHANGED ledger
  BY DEF RecordUpdate, RecordInsert
<1>2. worker[i].tx \in TxIds
  BY <1>1 DEF IInv, InstanceOK, CallOK
<1>3. ledger \in [TxIds -> [LedgerStatuses -> Nat]] /\ faults \in 0 .. MaxFaults
  BY DEF IInv, ProcessingTypeOK, StoresTypeOK
<1>4. ledger' \in [TxIds -> [LedgerStatuses -> Nat]]
  BY <1>1, <1>2, <1>3, LedgerTyped DEF LedgerStatuses
<1>5. faults' \in 0 .. MaxFaults
  BY <1>1, <1>3, FaultsTyped
<1> QED BY <1>1, <1>4, <1>5, QuietReturnPreserves

LEMMA TakeResultPreserves ==
    ASSUME IInv, NEW i \in Instances, TakeResult(i)
    PROVE  IInv'
<1> USE DEF TakeResult, storeVars
<1>1. worker \in [Instances -> WorkerRecords] /\ StoresTypeOK
  BY DEF IInv, ProcessingTypeOK
<1>2. StoresTypeOK'
  BY <1>1 DEF StoresTypeOK
<1>3. NoAccount \in AccountRecords
  BY BankAssumption DEF BankAssumption, NoAccount, AccountRecords
<1>4. worker' \in [Instances -> WorkerRecords]
  BY <1>1, <1>3 DEF WorkerRecords, WorkerPCs, IdleWorker
<1>5. worker'[i].pc = "idle"
  BY <1>1 DEF IdleWorker
<1>6. \A a \in AccountIds : rowLock[a] # i
  BY DEF IInv, InstanceOK, LockOK, HoldsLock
<1>7. InstanceOK(i)'
  BY <1>5, <1>6 DEF InstanceOK, CallOK, LockOK, SnapshotOK, HoldsLock, InTransaction
<1>8. \A j \in Instances \ {i} : worker'[j] = worker[j]
  BY <1>1
<1> QED BY <1>2, <1>4, <1>7, <1>8, StepPreserves

\* The poller changes neither accounts nor locks, and no row of a transaction
\* that is about to commit, for that one has no row yet.
LEMMA PublishRowPreserves ==
    ASSUME IInv, NEW t \in TxIds, PublishRow(t)
    PROVE  IInv'
<1>1. worker \in [Instances -> WorkerRecords] /\ StoresTypeOK
  BY DEF IInv, ProcessingTypeOK
<1>2. UNCHANGED <<request, accounts, rowLock, faults, worker>>
  BY DEF PublishRow
<1>3. outbox' = [outbox EXCEPT ![t].status = "PROCESSED"]
  BY DEF PublishRow, SetOutboxStatus
<1>4. outbox' \in [TxIds -> OutboxRows]
  BY <1>1, <1>3 DEF StoresTypeOK, OutboxRows, OutboxStatuses
<1>5. ledger' \in [TxIds -> [LedgerStatuses -> Nat]]
  BY <1>1, LedgerTyped DEF PublishRow, StoresTypeOK, LedgerStatuses
<1>6. StoresTypeOK'
  BY <1>1, <1>2, <1>4, <1>5 DEF StoresTypeOK
<1>7. ASSUME NEW j \in Instances, NEW u \in TxIds, worker[j].pc = "commit", worker[j].tx = u
      PROVE  outbox'[u] = outbox[u]
  <2>1. ~HasRow(u)
    BY <1>7 DEF IInv, InstanceOK, CallOK
  <2>2. u # t
    BY <2>1 DEF PublishRow, HasRow
  <2> QED BY <1>1, <1>3, <2>2 DEF StoresTypeOK
<1>8. \A j \in Instances : InstanceOK(j)'
  BY <1>2, <1>7, OthersPreserved
<1> QED BY <1>1, <1>2, <1>6, <1>8 DEF IInv, ProcessingTypeOK

-----------------------------------------------------------------------------
(* The theorems *)

LEMMA NextIInv == IInv /\ [ProcessingNext]_processingVars => IInv'
<1> SUFFICES ASSUME IInv, [ProcessingNext]_processingVars PROVE IInv'
  OBVIOUS
<1>1. CASE UNCHANGED processingVars
  BY <1>1 DEF processingVars, IInv, ProcessingTypeOK, StoresTypeOK, InstanceOK, CallOK, LockOK,
              SnapshotOK, HoldsLock, HasRow, Request, Account, Valid
<1>2. ASSUME NEW i \in Instances, ProcessingStep(i) PROVE IInv'
  BY <1>2, CheckIdempotencyPreserves, BeginPreserves, LockForUpdatePreserves,
     UpdateAccountPreserves, CreateOutboxEntryPreserves, CommitPreserves, RecordFindPreserves,
     RecordCheckPreserves, RecordWritePreserves
  DEF ProcessingStep
<1> QED BY <1>1, <1>2, DeliverPreserves, TakeResultPreserves, PublishRowPreserves
        DEF ProcessingNext

\* IInv is an invariant of Processing.
THEOREM Invariance == ProcessingSpec => []IInv
<1>1. ProcessingInit => IInv
  BY InitIInv
<1>2. IInv /\ [ProcessingNext]_processingVars => IInv'
  BY NextIInv
<1> QED BY <1>1, <1>2, PTL DEF ProcessingSpec

\* Every variable of the worker and the databases keeps its type; in particular
\* no balance ever leaves 0 .. MaxInt, whatever is deposited or withdrawn.
THEOREM TypeCorrect == ProcessingSpec => []ProcessingTypeOK
<1>1. IInv => ProcessingTypeOK
  BY DEF IInv
<1> QED BY <1>1, Invariance, PTL

\* Row locks are held exactly by the calls inside their database transaction
\* (processing_service.go:86-146): none leaks through any return path.
THEOREM LocksCorrect == ProcessingSpec => []LocksMatchCalls
<1>1. IInv => LocksMatchCalls
  BY DEF IInv, InstanceOK, LockOK, LocksMatchCalls
<1> QED BY <1>1, Invariance, PTL

\* What a call read under the row lock stays true until it commits
\* (account_manager.go:41-80): no update is lost.
THEOREM SnapshotsCorrect == ProcessingSpec => []SnapshotIsCurrent
<1>1. IInv => SnapshotIsCurrent
  BY DEF IInv, InstanceOK, SnapshotOK, SnapshotIsCurrent
<1> QED BY <1>1, Invariance, PTL

-----------------------------------------------------------------------------
(* The refinement of ExactlyOnce *)

LEMMA SameValid == \A r : Promise!Valid(r) <=> Valid(r)
<1> QED BY DEF Promise!Valid, Valid, Promise!TransactionTypes, TransactionTypes

LEMMA SameRefusal == \A r, c, b : Promise!Refusal(r, c, b) = Refusal(r, c, b)
<1> QED BY DEF Promise!Refusal, Refusal

LEMMA SameSignedAmount == \A r : Promise!SignedAmount(r) = SignedAmount(r)
<1> QED BY DEF Promise!SignedAmount, SignedAmount

\* What a commit does to the two tables, and what it knows of its request.
LEMMA CommitMoves ==
    ASSUME IInv, NEW i \in Instances, worker[i].pc = "commit", CommitEffects(i)
    PROVE  /\ worker[i].tx \in TxIds \ AppliedTxs
           /\ Request(i) \in Requests /\ Account(i) \in AccountIds
           /\ Valid(Request(i))
           /\ Refusal(Request(i), Opening[Account(i)].currency, accounts[Account(i)].balance) = "NONE"
           /\ accounts'[Account(i)].version = accounts[Account(i)].version + 1
           /\ accounts'[Account(i)].balance =
                accounts[Account(i)].balance + SignedAmount(Request(i))
           /\ accounts'[Account(i)].balance \in 0 .. MaxInt
           /\ \A a \in AccountIds \ {Account(i)} : accounts'[a] = accounts[a]
           /\ AppliedTxs' = AppliedTxs \cup {worker[i].tx}
           /\ outbox'[worker[i].tx].createdAt = worker[i].stamp
           /\ \A t \in TxIds \ {worker[i].tx} : outbox'[t] = outbox[t]
<1> DEFINE t == worker[i].tx
           a == Account(i)
           r == Request(i)
<1>1. StoresTypeOK /\ worker \in [Instances -> WorkerRecords]
  BY DEF IInv, ProcessingTypeOK
<1>2. /\ t \in TxIds /\ Valid(r) /\ a # UnknownAccount /\ ~HasRow(t)
      /\ Refusal(r, Opening[a].currency, accounts[a].balance) = "NONE"
      /\ worker[i].acc = Applied(r, accounts[a])
  BY DEF IInv, InstanceOK, CallOK, SnapshotOK, InTransaction
<1>3. r \in Requests /\ a \in AccountIds
  BY <1>1, <1>2, KnownAccount DEF Account, Request, StoresTypeOK
<1>4. accounts[a].balance \in 0 .. MaxInt /\ worker[i].acc \in AccountRecords
  BY <1>1, <1>3 DEF StoresTypeOK, AccountRecords, WorkerRecords
<1>5. /\ worker[i].acc.balance = NewBalance(r, accounts[a].balance)
      /\ worker[i].acc.version = accounts[a].version + 1
  BY <1>2 DEF Applied
<1>6. /\ NewBalance(r, accounts[a].balance) \in 0 .. MaxInt
      /\ NewBalance(r, accounts[a].balance) = accounts[a].balance + SignedAmount(r)
  <2>1. NewBalance(r, accounts[a].balance) >= 0
    BY <1>4, <1>5, BankAssumption DEF AccountRecords, BankAssumption
  <2> QED BY <1>2, <1>3, <1>4, <2>1, AcceptedBalance
<1>7. \A b \in AccountIds : accounts'[b] = IF b = a THEN worker[i].acc ELSE accounts[b]
  BY <1>1 DEF StoresTypeOK, CommitEffects, InsertRow
<1>8. \A u \in TxIds : outbox'[u] = IF u = t THEN PendingRow(worker[i].stamp) ELSE outbox[u]
  BY <1>1 DEF StoresTypeOK, CommitEffects, InsertRow
<1>9. AppliedTxs' = AppliedTxs \cup {t} /\ t \notin AppliedTxs
  BY <1>2, <1>8 DEF AppliedTxs, HasRow, PendingRow
<1>10. outbox'[t].createdAt = worker[i].stamp
  BY <1>2, <1>8 DEF PendingRow
<1> QED BY <1>2, <1>3, <1>5, <1>6, <1>7, <1>8, <1>9, <1>10

\* A commit is the abstract step of its transaction.
LEMMA CommitApplies ==
    ASSUME IInv, NEW i \in Instances, worker[i].pc = "commit", CommitEffects(i),
           request' = request
    PROVE  Promise!Apply(worker[i].tx)
<1> DEFINE t == worker[i].tx
           a == Account(i)
           r == request[t]
<1>1. /\ r \in Requests /\ a \in AccountIds /\ a = r.account /\ Valid(r)
      /\ t \in TxIds /\ t \notin AppliedTxs /\ AppliedTxs' = AppliedTxs \cup {t}
      /\ Refusal(r, Opening[a].currency, accounts[a].balance) = "NONE"
      /\ accounts'[a].balance \in 0 .. MaxInt
      /\ accounts'[a].balance = accounts[a].balance + SignedAmount(r)
      /\ \A b \in AccountIds \ {a} : accounts'[b] = accounts[b]
  BY CommitMoves DEF Request, Account
<1>2. a # UnknownAccount
  BY <1>1, BankAssumption DEF BankAssumption
<1>3. Promise!Acceptable(r)
  BY <1>1, <1>2, SameValid, SameRefusal, SameSignedAmount DEF Promise!Acceptable
<1>4. [b \in AccountIds |-> accounts'[b].balance] =
        [[b \in AccountIds |-> accounts[b].balance]
           EXCEPT ![a] = accounts[a].balance + SignedAmount(r)]
  BY <1>1
<1> QED BY <1>1, <1>3, <1>4, SameSignedAmount DEF Promise!Apply

LEMMA InitImplements == ProcessingInit => Promise!Init
<1> SUFFICES ASSUME ProcessingInit PROVE Promise!Init
  OBVIOUS
<1>1. [a \in AccountIds |-> accounts[a].balance] = [a \in AccountIds |-> Opening[a].balance]
  BY DEF ProcessingInit, StoresInit
<1>2. AppliedTxs = {}
  BY DEF ProcessingInit, StoresInit, AppliedTxs, HasRow, NoRow
<1> QED BY <1>1, <1>2 DEF Promise!Init, ProcessingInit, StoresInit

LEMMA NextImplements == IInv /\ [ProcessingNext]_processingVars => [Promise!Next]_Promise!vars
<1> SUFFICES ASSUME IInv, [ProcessingNext]_processingVars PROVE [Promise!Next]_Promise!vars
  OBVIOUS
<1>1. CASE UNCHANGED <<request, accounts, AppliedTxs>>
  BY <1>1 DEF Promise!vars
<1>2. ASSUME NEW i \in Instances, worker[i].pc = "commit", CommitEffects(i), request' = request
      PROVE  Promise!Next
  <2>1. worker[i].tx \in TxIds
    BY <1>2 DEF IInv, InstanceOK, CallOK
  <2>2. Promise!Apply(worker[i].tx)
    BY <1>2, CommitApplies
  <2> QED BY <2>1, <2>2, Zenon DEF Promise!Next, Promise!Apply
<1>3. UNCHANGED <<request, accounts, outbox>> => UNCHANGED <<request, accounts, AppliedTxs>>
  BY DEF AppliedTxs, HasRow
<1>4. ASSUME NEW i \in Instances, ProcessingStep(i)
      PROVE  \/ UNCHANGED <<request, accounts, outbox>>
             \/ worker[i].pc = "commit" /\ CommitEffects(i) /\ request' = request
  BY <1>4 DEF ProcessingStep, CheckIdempotency, Begin, LockForUpdate, UpdateAccount,
              CreateOutboxEntry, Commit, RecordFind, RecordUpdate, RecordCheck, RecordInsert
<1>5. ASSUME NEW i \in Instances, (\E t \in TxIds : Deliver(i, t)) \/ TakeResult(i)
      PROVE  UNCHANGED <<request, accounts, outbox>>
  BY <1>5 DEF Deliver, TakeResult, storeVars
<1>6. ASSUME NEW t \in TxIds, PublishRow(t)
      PROVE  UNCHANGED <<request, accounts, AppliedTxs>>
  <2>1. outbox \in [TxIds -> OutboxRows]
    BY DEF IInv, ProcessingTypeOK, StoresTypeOK
  <2>2. outbox' = [outbox EXCEPT ![t].status = "PROCESSED"] /\ HasRow(t)
    BY <1>6 DEF PublishRow, SetOutboxStatus, HasRow
  <2>3. \A u \in TxIds : HasRow(u)' <=> HasRow(u)
    BY <2>1, <2>2 DEF HasRow, OutboxRows
  <2>4. AppliedTxs' = AppliedTxs
    BY <2>3 DEF AppliedTxs
  <2> QED BY <1>6, <2>4 DEF PublishRow
<1> QED BY <1>1, <1>2, <1>3, <1>4, <1>5, <1>6 DEF ProcessingNext, processingVars

\* Every behaviour of Processing is one of ExactlyOnce: however often and to
\* whichever instances a transaction is delivered, and whichever statements
\* fail, its account changes at most once, by the signed amount, and only when
\* the account accepts it (processing_service.go:70-146).
THEOREM Refinement == ProcessingSpec => ImplementsExactlyOnce
<1>1. ProcessingInit => Promise!Init
  BY InitImplements
<1>2. IInv /\ [ProcessingNext]_processingVars => [Promise!Next]_Promise!vars
  BY NextImplements
<1> QED BY <1>1, <1>2, Invariance, PTL DEF ProcessingSpec, ImplementsExactlyOnce, Promise!Spec

-----------------------------------------------------------------------------
(* The books.  A call stamps its row before it commits, while it holds the  *)
(* row lock of its account: no other row of that account can come between.  *)

StampOK(i) ==
    worker[i].pc = "commit" =>
        \A t \in AppliedTo(Account(i)) : outbox[t].createdAt <= worker[i].stamp

\* What BooksBalance needs beside IInv.
BooksInv ==
    /\ BooksBalance
    /\ \A a \in AccountIds : IsFiniteSet(AppliedTo(a))
    /\ \A i \in Instances : StampOK(i)

\* An account whose rows keep their stamps stays balanced.
LEMMA BalancedKept ==
    ASSUME NEW a \in AccountIds, Balanced(a), request' = request, accounts'[a] = accounts[a],
           AppliedTo(a)' = AppliedTo(a),
           \A t \in AppliedTo(a) : outbox'[t].createdAt = outbox[t].createdAt
    PROVE  Balanced(a)'
<1> DEFINE n == Cardinality(AppliedTo(a))
<1>1. n' = n
  OBVIOUS
<1>2. PICK order \in [1 .. n -> AppliedTo(a)], sums \in [0 .. n -> 0 .. MaxInt] :
        Replays(a, order, sums) /\ sums[n] = accounts[a].balance
  BY DEF Balanced
<1>3. Replays(a, order, sums)'
  BY <1>2 DEF Replays
<1>4. accounts'[a].version = n' + 1
  BY <1>1 DEF Balanced
<1> QED BY <1>1, <1>2, <1>3, <1>4 DEF Balanced

\* A step that writes no balance and no new row.  A call that is about to
\* commit after it already was, or has just taken a stamp no row exceeds.
LEMMA BooksKept ==
    ASSUME BooksInv, UNCHANGED <<request, accounts>>,
           \A t \in TxIds : /\ HasRow(t)' <=> HasRow(t)
                            /\ outbox'[t].createdAt = outbox[t].createdAt,
           \A i \in Instances : worker'[i].pc = "commit" =>
              \/ worker'[i] = worker[i]
              \/ \A t \in TxIds : outbox[t].createdAt <= worker'[i].stamp
    PROVE  BooksInv'
<1>1. \A a : AppliedTo(a)' = AppliedTo(a)
  BY DEF AppliedTo, AppliedTxs
<1>2. \A a : \A t \in AppliedTo(a) : outbox'[t].createdAt = outbox[t].createdAt
  BY DEF AppliedTo, AppliedTxs
<1>3. ASSUME NEW a \in AccountIds PROVE Balanced(a)'
  <2>1. Balanced(a)
    BY DEF BooksInv, BooksBalance
  <2> QED BY <1>1, <1>2, <2>1, BalancedKept
<1>4. \A a \in AccountIds : IsFiniteSet(AppliedTo(a))'
  BY <1>1 DEF BooksInv
<1>5. ASSUME NEW i \in Instances PROVE StampOK(i)'
  <2>1. SUFFICES ASSUME worker'[i].pc = "commit", NEW t \in AppliedTo(Account(i)')
                 PROVE  outbox'[t].createdAt <= worker'[i].stamp
    BY <1>1 DEF StampOK
  <2>2. t \in TxIds /\ outbox'[t].createdAt = outbox[t].createdAt
    BY <1>2 DEF AppliedTo, AppliedTxs
  <2>3. CASE worker'[i] = worker[i]
    <3>1. Account(i)' = Account(i)
      BY <2>3 DEF Account, Request
    <3> QED BY <2>1, <2>2, <2>3, <3>1 DEF BooksInv, StampOK
  <2> QED BY <2>1, <2>2, <2>3
<1> QED BY <1>3, <1>4, <1>5 DEF BooksInv, BooksBalance

\* One more transaction at the end of the books of its account.
LEMMA BalancedExtended ==
    ASSUME NEW a \in AccountIds, Balanced(a), IsFiniteSet(AppliedTo(a)), request' = request,
           NEW t, t \notin AppliedTo(a), AppliedTo(a)' = AppliedTo(a) \cup {t},
           \A u \in AppliedTo(a) : /\ outbox'[u].createdAt = outbox[u].createdAt
                                   /\ outbox[u].createdAt <= outbox'[t].createdAt,
           Valid(request[t]),
           Refusal(request[t], Opening[a].currency, accounts[a].balance) = "NONE",
           accounts'[a].version = accounts[a].version + 1,
           accounts'[a].balance = accounts[a].balance + SignedAmount(request[t]),
           accounts'[a].balance \in 0 .. MaxInt
    PROVE  Balanced(a)'
<1> DEFINE n == Cardinality(AppliedTo(a))
<1>1. n \in Nat /\ n' = n + 1
  BY FS_CardinalityType, FS_AddElement
<1> HIDE DEF n
<1>2. accounts[a].version = n + 1
  BY DEF Balanced, n
<1>3. PICK order \in [1 .. n -> AppliedTo(a)], sums \in [0 .. n -> 0 .. MaxInt] :
        Replays(a, order, sums) /\ sums[n] = accounts[a].balance
  BY DEF Balanced, n
<1>4. PICK order2 \in [1 .. n + 1 -> AppliedTo(a) \cup {t}], sums2 \in [0 .. n + 1 -> 0 .. MaxInt] :
        /\ \A k \in 1 .. n : order2[k] = order[k]
        /\ order2[n + 1] = t
        /\ \A k \in 0 .. n : sums2[k] = sums[k]
        /\ sums2[n + 1] = accounts'[a].balance
  <2> DEFINE o == [k \in 1 .. n + 1 |-> IF k = n + 1 THEN t ELSE order[k]]
             s == [k \in 0 .. n + 1 |-> IF k = n + 1 THEN accounts'[a].balance ELSE sums[k]]
  <2>1. /\ o \in [1 .. n + 1 -> AppliedTo(a) \cup {t}]
        /\ s \in [0 .. n + 1 -> 0 .. MaxInt]
        /\ \A k \in 1 .. n : o[k] = order[k]
        /\ o[n + 1] = t
        /\ \A k \in 0 .. n : s[k] = sums[k]
        /\ s[n + 1] = accounts'[a].balance
    BY <1>1, <1>3
  <2> HIDE DEF o, s
  <2> QED BY <2>1
<1>5. /\ \A k \in 1 .. n : k \in DOMAIN order /\ order[k] \in AppliedTo(a)
      /\ DOMAIN order2 = 1 .. n + 1
  BY <1>3, <1>4
<1>6. Replays(a, order2, sums2)'
  <2>1. ASSUME NEW k \in 1 .. n + 1, NEW m \in 1 .. n + 1, k < m
        PROVE  /\ order2[k] # order2[m]
               /\ outbox'[order2[k]].createdAt <= outbox'[order2[m]].createdAt
    <3>1. k \in 1 .. n
      BY <1>1, <2>1
    <3>2. CASE m = n + 1
      BY <1>4, <1>5, <3>1, <3>2
    <3>3. CASE m # n + 1
      <4>1. m \in 1 .. n
        BY <1>1, <3>3
      <4> QED BY <1>3, <1>4, <1>5, <2>1, <3>1, <4>1 DEF Replays
    <3> QED BY <3>2, <3>3
  <2>2. sums2[0] = Opening[a].balance
    <3>1. 0 \in 0 .. n
      BY <1>1
    <3> QED BY <1>3, <1>4, <3>1 DEF Replays
  <2>3. ASSUME NEW k \in 1 .. n + 1
        PROVE  /\ Valid(request'[order2[k]])
               /\ Refusal(request'[order2[k]], Opening[a].currency, sums2[k - 1]) = "NONE"
               /\ sums2[k] = sums2[k - 1] + SignedAmount(request'[order2[k]])
    <3>1. CASE k = n + 1
      <4>1. k - 1 = n /\ n \in 0 .. n
        BY <1>1, <3>1
      <4>2. sums2[k - 1] = accounts[a].balance
        BY <1>3, <1>4, <4>1
      <4> QED BY <1>4, <3>1, <4>2
    <3>2. CASE k # n + 1
      <4>1. k \in 1 .. n /\ k \in 0 .. n /\ k - 1 \in 0 .. n
        BY <1>1, <3>2
      <4>2. order2[k] = order[k] /\ sums2[k] = sums[k] /\ sums2[k - 1] = sums[k - 1]
        BY <1>4, <4>1
      <4>3. /\ Valid(request[order[k]])
            /\ Refusal(request[order[k]], Opening[a].currency, sums[k - 1]) = "NONE"
            /\ sums[k] = sums[k - 1] + SignedAmount(request[order[k]])
        BY <1>3, <1>5, <4>1 DEF Replays
      <4> QED BY <4>2, <4>3
    <3> QED BY <3>1, <3>2
  <2> QED BY <1>5, <2>1, <2>2, <2>3 DEF Replays
<1>7. accounts'[a].version = n' + 1
  BY <1>1, <1>2
<1>8. /\ order2 \in [1 .. n' -> AppliedTo(a)'] /\ sums2 \in [0 .. n' -> 0 .. MaxInt]
      /\ sums2[n'] = accounts'[a].balance
  BY <1>1, <1>4
<1> QED BY <1>6, <1>7, <1>8 DEF Balanced, n

\* A commit appends its transaction to the books of its account.
LEMMA CommitBooks ==
    ASSUME IInv, BooksInv, NEW i \in Instances, worker[i].pc = "commit", CommitEffects(i),
           request' = request,
           \A j \in Instances : worker'[j].pc = "commit" => j # i /\ worker'[j] = worker[j]
    PROVE  BooksInv'
<1>1. PICK t \in TxIds, own \in AccountIds :
        /\ t = worker[i].tx /\ own = Account(i) /\ t \notin AppliedTxs
        /\ AppliedTxs' = AppliedTxs \cup {t}
        /\ outbox'[t].createdAt = worker[i].stamp
        /\ \A u \in TxIds \ {t} : outbox'[u] = outbox[u]
        /\ \A a \in AccountIds \ {own} : accounts'[a] = accounts[a]
  BY CommitMoves
<1>2. /\ own = request[t].account
      /\ AppliedTo(own)' = AppliedTo(own) \cup {t} /\ t \notin AppliedTo(own)
      /\ \A a \in AccountIds \ {own} : AppliedTo(a)' = AppliedTo(a)
  BY <1>1 DEF AppliedTo, Account, Request
<1>3. \A a \in AccountIds : \A u \in AppliedTo(a) : u # t /\ outbox'[u] = outbox[u]
  BY <1>1 DEF AppliedTo, AppliedTxs
<1>4. \A u \in AppliedTo(own) : outbox[u].createdAt <= outbox'[t].createdAt
  BY <1>1 DEF BooksInv, StampOK
<1>5. Balanced(own)'
  <2>1. /\ Balanced(own) /\ IsFiniteSet(AppliedTo(own))
        /\ Valid(request[t])
        /\ Refusal(request[t], Opening[own].currency, accounts[own].balance) = "NONE"
        /\ accounts'[own].version = accounts[own].version + 1
        /\ accounts'[own].balance = accounts[own].balance + SignedAmount(request[t])
        /\ accounts'[own].balance \in 0 .. MaxInt
    BY <1>1, CommitMoves DEF BooksInv, BooksBalance, Request
  <2> QED BY <1>2, <1>3, <1>4, <2>1, BalancedExtended
<1>6. ASSUME NEW a \in AccountIds \ {own} PROVE Balanced(a)'
  BY <1>1, <1>2, <1>3, BalancedKept DEF BooksInv, BooksBalance
<1>7. \A a \in AccountIds : IsFiniteSet(AppliedTo(a))'
  BY <1>2, FS_AddElement DEF BooksInv
<1>8. ASSUME NEW j \in Instances PROVE StampOK(j)'
  <2>1. SUFFICES ASSUME worker'[j].pc = "commit" PROVE StampOK(j)'
    BY DEF StampOK
  <2>2. j # i /\ worker'[j] = worker[j] /\ worker[j].pc = "commit"
    BY <2>1
  <2>3. Account(j)' = Account(j)
    BY <2>2 DEF Account, Request
  <2>4. Account(j) \in AccountIds \ {own}
    <3>1. Account(j) \in AccountIds
      BY <2>2, KnownAccount DEF IInv, InstanceOK, CallOK, InTransaction, ProcessingTypeOK, StoresTypeOK,
                  Account, Request
    <3>2. rowLock[Account(j)] = j /\ rowLock[own] = i
      BY <1>1, <2>2, <3>1 DEF IInv, InstanceOK, LockOK, HoldsLock
    <3> QED BY <2>2, <3>1, <3>2
  <2>5. StampOK(j)
    BY DEF BooksInv
  <2> QED BY <1>2, <1>3, <2>2, <2>3, <2>4, <2>5 DEF StampOK
<1> QED BY <1>1, <1>5, <1>6, <1>7, <1>8 DEF BooksInv, BooksBalance

LEMMA CallBooks ==
    ASSUME IInv, BooksInv, NEW i \in Instances, ProcessingStep(i)
    PROVE  BooksInv'
<1>1. worker \in [Instances -> WorkerRecords]
  BY DEF IInv, ProcessingTypeOK
<1>2. \A j \in Instances \ {i} : worker'[j] = worker[j]
  BY <1>1 DEF ProcessingStep, CheckIdempotency, Begin, LockForUpdate, UpdateAccount,
              CreateOutboxEntry, Commit, RecordFind, RecordUpdate, RecordCheck, RecordInsert,
              ReturnError, Return, Done, Goto, GotoWith
<1>3. \/ /\ UNCHANGED <<request, accounts, outbox>>
         /\ worker'[i].pc = "commit" => \A t \in TxIds : outbox[t].createdAt <= worker'[i].stamp
      \/ /\ worker[i].pc = "commit" /\ CommitEffects(i) /\ request' = request
         /\ worker'[i].pc # "commit"
  <2>1. CASE CreateOutboxEntry(i)
    BY <1>1, <2>1 DEF CreateOutboxEntry, GotoWith, ReturnError, Return, Done
  <2>2. CASE Commit(i)
    BY <1>1, <2>2 DEF Commit, ReturnError, Return, Done
  <2>3. CASE ~CreateOutboxEntry(i) /\ ~Commit(i)
    <3>1. UNCHANGED <<request, accounts, outbox>>
      BY <2>3 DEF ProcessingStep, CheckIdempotency, Begin, LockForUpdate, UpdateAccount,
                  RecordFind, RecordUpdate, RecordCheck, RecordInsert
    <3>2. \/ \E result \in {"ok", "error"} : Done(i, result)
          \/ \E pc \in WorkerPCs \ {"commit"} : Goto(i, pc)
          \/ \E acc : \E pc \in WorkerPCs \ {"commit"} : GotoWith(i, pc, acc, 0)
      BY <2>3 DEF ProcessingStep, CheckIdempotency, Begin, LockForUpdate, UpdateAccount,
                  RecordFind, RecordUpdate, RecordCheck, RecordInsert, ReturnError, Return,
                  WorkerPCs
    <3>3. worker'[i].pc # "commit"
      BY <1>1, <3>2 DEF Done, Goto, GotoWith, WorkerRecords
    <3> QED BY <3>1, <3>3
  <2> QED BY <2>1, <2>2, <2>3
<1>4. CASE UNCHANGED <<request, accounts, outbox>>
           /\ (worker'[i].pc = "commit" => \A t \in TxIds : outbox[t].createdAt <= worker'[i].stamp)
  BY <1>2, <1>4, BooksKept DEF HasRow
<1>5. CASE /\ worker[i].pc = "commit" /\ CommitEffects(i) /\ request' = request
           /\ worker'[i].pc # "commit"
  BY <1>2, <1>5, CommitBooks
<1> QED BY <1>3, <1>4, <1>5

LEMMA InitBooks == ProcessingInit => BooksInv
<1> SUFFICES ASSUME ProcessingInit PROVE BooksInv
  OBVIOUS
<1> USE DEF ProcessingInit, StoresInit
<1>1. \A i \in Instances : StampOK(i)
  BY DEF StampOK, IdleWorker
<1>2. \A a : AppliedTo(a) = {}
  BY DEF AppliedTo, AppliedTxs, HasRow, NoRow
<1>3. IsFiniteSet({}) /\ Cardinality({}) = 0
  BY FS_EmptySet
<1>4. ASSUME NEW a \in AccountIds PROVE Balanced(a)
  <2>1. Opening[a].balance \in 0 .. MaxInt
    BY BankAssumption DEF BankAssumption
  <2> DEFINE order == [k \in 1 .. 0 |-> k]
             sums == [k \in 0 .. 0 |-> Opening[a].balance]
  <2>2. order \in [1 .. 0 -> {}] /\ sums \in [0 .. 0 -> 0 .. MaxInt] /\ sums[0] = Opening[a].balance
    BY <2>1
  <2>3. DOMAIN order = {}
    OBVIOUS
  <2> HIDE DEF order, sums
  <2>4. Replays(a, order, sums)
    BY <2>2, <2>3 DEF Replays
  <2>5. accounts[a].version = 0 + 1 /\ accounts[a].balance = Opening[a].balance
    OBVIOUS
  <2>6. Cardinality(AppliedTo(a)) = 0 /\ AppliedTo(a) = {}
    BY <1>2, <1>3
  <2> QED BY <2>2, <2>4, <2>5, <2>6 DEF Balanced
<1> QED BY <1>1, <1>2, <1>3, <1>4 DEF BooksInv, BooksBalance

LEMMA NextBooks == IInv /\ BooksInv /\ [ProcessingNext]_processingVars => BooksInv'
<1> SUFFICES ASSUME IInv, BooksInv, [ProcessingNext]_processingVars PROVE BooksInv'
  OBVIOUS
<1>1. worker \in [Instances -> WorkerRecords] /\ outbox \in [TxIds -> OutboxRows]
  BY DEF IInv, ProcessingTypeOK, StoresTypeOK
<1>2. CASE UNCHANGED processingVars
  BY <1>2, BooksKept DEF processingVars, HasRow
<1>3. ASSUME NEW i \in Instances, NEW t \in TxIds, Deliver(i, t) PROVE BooksInv'
  <2>1. \A j \in Instances : worker'[j].pc = "commit" => worker'[j] = worker[j]
    BY <1>1, <1>3 DEF Deliver, IdleWorker
  <2> QED BY <1>3, <2>1, BooksKept DEF Deliver, storeVars, HasRow
<1>4. ASSUME NEW i \in Instances, TakeResult(i) PROVE BooksInv'
  <2>1. \A j \in Instances : worker'[j].pc = "commit" => worker'[j] = worker[j]
    BY <1>1, <1>4 DEF TakeResult, IdleWorker
  <2> QED BY <1>4, <2>1, BooksKept DEF TakeResult, storeVars, HasRow
<1>5. ASSUME NEW t \in TxIds, PublishRow(t) PROVE BooksInv'
  <2>1. \A u \in TxIds : /\ HasRow(u)' <=> HasRow(u)
                         /\ outbox'[u].createdAt = outbox[u].createdAt
    BY <1>1, <1>5 DEF PublishRow, SetOutboxStatus, HasRow, OutboxRows
  <2> QED BY <1>5, <2>1, BooksKept DEF PublishRow
<1> QED BY <1>2, <1>3, <1>4, <1>5, CallBooks DEF ProcessingNext

\* The version of every account counts its outbox rows, and its balance is what
\* replaying these by created_at gives, each transaction acceptable when its turn
\* comes: the stamp is taken under the row lock, so the order of the stamps is the
\* order of the commits (account_manager.go:41-80, processing_service.go:99-143).
THEOREM BooksCorrect == ProcessingSpec => []BooksBalance
<1>1. ProcessingInit => IInv /\ BooksInv
  BY InitIInv, InitBooks
<1>2. IInv /\ BooksInv /\ [ProcessingNext]_processingVars => IInv' /\ BooksInv'
  BY NextIInv, NextBooks
<1>3. BooksInv => BooksBalance
  BY DEF BooksInv
<1> QED BY <1>1, <1>2, <1>3, PTL DEF ProcessingSpec
=============================================================================
