----------------------------- MODULE BankProofs -----------------------------
(***************************************************************************)
(* Lemmas about the arithmetic of Bank, for any integer width.              *)
(***************************************************************************)
EXTENDS Bank, TLAPS

\* A balance the table accepts after an accepted request is within the integer
\* type and is the old one plus the signed amount: it did not wrap around.
LEMMA AcceptedBalance ==
    ASSUME NEW r \in Requests, NEW b \in 0 .. MaxInt, Valid(r), NewBalance(r, b) >= 0
    PROVE  /\ NewBalance(r, b) \in 0 .. MaxInt
           /\ NewBalance(r, b) = b + SignedAmount(r)
<1>1. r \in RequestRecords
  BY BankAssumption DEF BankAssumption
<1>2. r.amount \in (-MaxInt - 1) .. MaxInt /\ r.amount > 0 /\ r.type \in TransactionTypes
  BY <1>1 DEF RequestRecords, Valid
<1>3. MaxInt \in Nat
  BY BankAssumption DEF BankAssumption
<1>4. CASE r.type = "DEPOSIT"
  BY <1>2, <1>3, <1>4 DEF NewBalance, WrappedSum, SignedAmount
<1>5. CASE r.type # "DEPOSIT"
  BY <1>2, <1>3, <1>5 DEF NewBalance, SignedAmount
<1> QED BY <1>4, <1>5

\* The account a known request names exists.
LEMMA KnownAccount ==
    ASSUME NEW r \in Requests, r.account # UnknownAccount
    PROVE  r.account \in AccountIds
<1>1. r \in RequestRecords
  BY BankAssumption DEF BankAssumption
<1> QED BY <1>1 DEF RequestRecords

\* The account an accepted request leaves behind is one the table can hold.
LEMMA AcceptedAccount ==
    ASSUME NEW r \in Requests, NEW acc \in AccountRecords,
           Valid(r), NewBalance(r, acc.balance) >= 0
    PROVE  Applied(r, acc) \in AccountRecords
BY AcceptedBalance DEF AccountRecords, Applied
=============================================================================
