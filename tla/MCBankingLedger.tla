--------------------------- MODULE MCBankingLedger ---------------------------
(***************************************************************************)
(* Small instances of BankingLedger for TLC: one account with a balance of *)
(* 2, and one idempotency key for all submissions.                         *)
(***************************************************************************)
EXTENDS BankingLedger, TLC

CONSTANTS t1, t2, i1, i2, a1, k1

MCOpening == [a \in {a1} |-> [balance |-> 2, currency |-> "EUR"]]

\* A client submits the withdrawal of the whole balance, twice.
MCRequests ==
    {[account |-> a1, type |-> "WITHDRAWAL", amount |-> 2, currency |-> "EUR"]}

MCSymmetry == Permutations(TxIds) \cup Permutations(Instances)
=============================================================================
