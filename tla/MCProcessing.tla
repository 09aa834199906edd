---------------------------- MODULE MCProcessing ----------------------------
(***************************************************************************)
(* Small instances of Processing for TLC.  The integer type is -4 .. 3, so *)
(* that a deposit of 2 on a balance of 2 overflows.                        *)
(***************************************************************************)
EXTENDS Processing, TLC

CONSTANTS t1, t2, i1, i2, a1, a2

MCOpening == [a \in {a1, a2} |-> [balance |-> IF a = a1 THEN 2 ELSE 1, currency |-> "EUR"]]

MCRequest(account, type, amount, currency) ==
    [account |-> account, type |-> type, amount |-> amount, currency |-> currency]

\* Every way through ProcessTransaction: accepted deposits and withdrawals, an
\* overflowing deposit, each refusal, and both validation failures.
MCRequests ==
    {MCRequest(a1, "DEPOSIT", 1, "EUR"),
     MCRequest(a1, "DEPOSIT", 2, "EUR"),
     MCRequest(a1, "WITHDRAWAL", 2, "EUR"),
     MCRequest(a1, "WITHDRAWAL", 1, "EUR"),
     MCRequest(a2, "WITHDRAWAL", 2, "EUR"),
     MCRequest(a1, "DEPOSIT", 1, "USD"),
     MCRequest(UnknownAccount, "DEPOSIT", 1, "EUR"),
     MCRequest(a1, "DEPOSIT", 0, "EUR"),
     MCRequest(a1, "OTHER", 1, "EUR")}

MCSymmetry == Permutations({t1, t2}) \cup Permutations({i1, i2})
=============================================================================
