----------------------------- MODULE ExactlyOnce -----------------------------
(***************************************************************************)
(* What the transaction processor promises about money: every transaction  *)
(* id changes its account at most once, by exactly the requested amount,   *)
(* and only when the account accepts the request at that moment.  There    *)
(* are no messages, no locks, no retries and no machine integers here.     *)
(***************************************************************************)
EXTENDS Bank

VARIABLES
    request,  \* the content of each transaction id
    balance,  \* the balance of each account
    applied   \* the transactions that have taken effect

vars == <<request, balance, applied>>

Init ==
    /\ request \in [TxIds -> Requests]
    /\ balance = [a \in AccountIds |-> Opening[a].balance]
    /\ applied = {}

\* The account accepts the request, and the result is a representable balance.
Acceptable(r) ==
    /\ r.account \in AccountIds
    /\ Valid(r)
    /\ Refusal(r, Opening[r.account].currency, balance[r.account]) = "NONE"
    /\ balance[r.account] + SignedAmount(r) \in 0 .. MaxInt

Apply(t) ==
    /\ t \notin applied
    /\ Acceptable(request[t])
    /\ balance' = [balance EXCEPT ![request[t].account] = @ + SignedAmount(request[t])]
    /\ applied' = applied \cup {t}
    /\ UNCHANGED request

Next == \E t \in TxIds : Apply(t)

Spec == Init /\ [][Next]_vars
=============================================================================
