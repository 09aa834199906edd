---------------------------- MODULE MCPublication ----------------------------
(***************************************************************************)
(* Small instances of Publication for TLC: an empty account, deposits that  *)
(* are accepted, and withdrawals that are refused until a deposit is        *)
(* committed and when they are delivered again.                             *)
(***************************************************************************)
EXTENDS Publication, TLC

CONSTANTS t1, t2, i1, i2, a1

MCOpening == [a \in {a1} |-> [balance |-> 0, currency |-> "EUR"]]

MCRequest(type) == [account |-> a1, type |-> type, amount |-> 1, currency |-> "EUR"]

MCRequests == {MCRequest("DEPOSIT"), MCRequest("WITHDRAWAL")}

\* Nothing that is ever refused.
MCDeposits == {MCRequest("DEPOSIT")}

MCSymmetry == Permutations(TxIds) \cup Permutations(Instances)
=============================================================================
