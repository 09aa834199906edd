-------------------------------- MODULE Bank --------------------------------
(***************************************************************************)
(* The data of the ledger and the arithmetic of the domain model           *)
(* (internal/domain/account, internal/domain/shared): accounts, requests,  *)
(* the validation of a request and its effect on an account.  Nothing here *)
(* has state; every other module builds on these definitions.              *)
(***************************************************************************)
EXTENDS Integers

CONSTANTS
    TxIds,           \* transaction ids (UUIDs minted by the API gateway)
    NoTx,            \* stands for "no transaction"
    AccountIds,      \* accounts that exist in PostgreSQL
    UnknownAccount,  \* an account id a request may name although no row has it
    Currencies,      \* currency codes
    MaxInt,          \* largest value of the integer type of balances (2^63 - 1)
    Opening,         \* opening balance and currency of every account
    Requests         \* the requests clients may submit

\* shared.TransactionType; a request from the topic may carry any other string.
TransactionTypes == {"DEPOSIT", "WITHDRAWAL"}

\* shared.TransactionRequest, without the fields no decision depends on.
RequestRecords ==
    [account : AccountIds \cup {UnknownAccount},
     type : TransactionTypes \cup {"OTHER"},
     amount : (-MaxInt - 1) .. MaxInt,
     currency : Currencies]

ASSUME BankAssumption ==
    /\ NoTx \notin TxIds
    /\ UnknownAccount \notin AccountIds
    /\ MaxInt \in Nat \ {0}
    /\ Opening \in [AccountIds -> [balance : 0 .. MaxInt, currency : Currencies]]
    /\ Requests \subseteq RequestRecords

\* account.Account: the two columns that change.  The currency of an account
\* never does, it is Opening[a].currency.
AccountRecords == [balance : 0 .. MaxInt, version : Nat]

NoAccount == [balance |-> 0, version |-> 0]

\* Two's-complement addition of two non-negative integers of the balance type.
WrappedSum(m, n) == IF m + n > MaxInt THEN m + n - 2 * (MaxInt + 1) ELSE m + n

\* TransactionValidatorImpl.Validate
Valid(r) == r.type \in TransactionTypes /\ r.amount > 0

\* The business errors of LockAndUpdateAccount once the row is read, in the
\* order it checks them; "NONE" when the account accepts the request.
Refusal(r, currency, balance) ==
    CASE currency # r.currency -> "CURRENCY_MISMATCH"
      [] currency = r.currency /\ r.amount <= 0 -> "INVALID_AMOUNT"
      [] /\ currency = r.currency /\ r.amount > 0
         /\ r.type = "WITHDRAWAL" /\ balance < r.amount -> "INSUFFICIENT_FUNDS"
      [] OTHER -> "NONE"

\* Account.Deposit and Account.Withdraw on an account that accepts the request.
NewBalance(r, balance) ==
    IF r.type = "DEPOSIT" THEN WrappedSum(balance, r.amount) ELSE balance - r.amount

Applied(r, acc) ==
    [balance |-> NewBalance(r, acc.balance), version |-> acc.version + 1]

\* What a request does to the balance when no overflow occurs.
SignedAmount(r) == IF r.type = "DEPOSIT" THEN r.amount ELSE -r.amount
=============================================================================
