----------------------- MODULE MCTransactionProcessor -----------------------
(***************************************************************************)
(* Small instances of TransactionProcessor for TLC: one account with a     *)
(* balance of 2.                                                           *)
(***************************************************************************)
EXTENDS TransactionProcessor, TLC

CONSTANTS t1, t2, i1, i2, a1

MCOpening == [a \in {a1} |-> [balance |-> 2, currency |-> "EUR"]]

MCRequest(type, amount) ==
    [account |-> a1, type |-> type, amount |-> amount, currency |-> "EUR"]

\* A withdrawal that empties the account, a deposit that does not overflow with
\* MaxInt = 7, and a request that fails validation.
MCRequests == {MCRequest("WITHDRAWAL", 2), MCRequest("DEPOSIT", 1), MCRequest("DEPOSIT", 0)}

\* The same withdrawal only.
MCWithdrawals == {MCRequest("WITHDRAWAL", 2)}

MCSymmetry == Permutations(TxIds) \cup Permutations(Instances)
=============================================================================
