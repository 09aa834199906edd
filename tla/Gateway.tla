------------------------------- MODULE Gateway -------------------------------
(***************************************************************************)
(* The services of the API gateway that change something: submitting a     *)
(* transaction under an idempotency key (TransactionService.                *)
(* CreateTransaction) and creating an account (AccountService.              *)
(* CreateAccount), one action per database statement or publication.        *)
(* Requests run concurrently, in any number of gateway replicas.            *)
(*                                                                          *)
(* Record is the environment: the transaction processor and its poller, at  *)
(* the end of whose work the ledger has an entry for the transaction.       *)
(***************************************************************************)
EXTENDS Naturals

CONSTANTS
    TxIds,              \* one per submission: the handler mints a fresh id each time
    Keys,               \* idempotency keys; the handler replaces a missing one by a fresh one
    Registrations,      \* one per account creation: the id of the account, too
    NationalIds,
    MaxGatewayFaults    \* bound on failed statements and dropped messages

ASSUME GatewayAssumption ==
    /\ MaxGatewayFaults \in Nat
    /\ TxIds \cap {"none", "accepted", "error"} = {}

VARIABLES
    key,           \* the idempotency key of each submission
    submission,    \* per submission, what its call does next and what it answered
    buffered,      \* requests accepted by the asynchronous producer, not yet written
    written,       \* requests in the topic
    recorded,      \* transactions that have a ledger entry
    form,          \* the national id of each registration, and whether NewAccount accepts it
    registration,  \* per registration, what its call does next and what it answered
    customers,     \* table accounts: the registrations that have a row
    troubles       \* faults that may still happen

submissionVars == <<key, submission, buffered, written, recorded>>
registrationVars == <<form, registration, customers>>
gatewayVars == <<submissionVars, registrationVars, troubles>>

Call(pc, answer) == [pc |-> pc, answer |-> answer]
NewCall == Call("idle", "none")

SubmissionAnswers == {"none", "accepted", "error"} \cup TxIds
RegistrationAnswers == {"none", "created", "duplicate", "error"}

Works == UNCHANGED troubles
GoesWrong == troubles > 0 /\ troubles' = troubles - 1

-----------------------------------------------------------------------------
(* CreateTransaction *)

Resume(t, pc) == submission' = [submission EXCEPT ![t] = Call(pc, "none")]
AnswerSubmission(t, answer) == submission' = [submission EXCEPT ![t] = Call("done", answer)]

\* The entries GetByIdempotencyKey may find.
EntriesWith(k) == {t \in recorded : key[t] = k}

Submit(t) ==
    /\ submission[t].pc = "idle"
    /\ Resume(t, "lookup")
    /\ UNCHANGED <<key, buffered, written, recorded, registrationVars, troubles>>

\* A lookup whose errors count as "no entry".
LookupKeyIgnoringErrors(t) ==
    /\ submission[t].pc = "lookup"
    /\ \/ /\ Works
          /\ \E entry \in EntriesWith(key[t]) : AnswerSubmission(t, entry)
       \/ Works /\ EntriesWith(key[t]) = {} /\ Resume(t, "publish")
       \/ GoesWrong /\ Resume(t, "publish")
    /\ UNCHANGED <<key, buffered, written, recorded, registrationVars>>

LookupKey(t) ==
    /\ submission[t].pc = "lookup"
    /\ \/ /\ Works
          /\ \E entry \in EntriesWith(key[t]) : AnswerSubmission(t, entry)
       \/ Works /\ EntriesWith(key[t]) = {} /\ Resume(t, "publish")
       \/ GoesWrong /\ AnswerSubmission(t, "error")
    /\ UNCHANGED <<key, buffered, written, recorded, registrationVars>>

\* A synchronous producer, whose error leaves open whether the message is sent.
PublishAmbiguously(t) ==
    /\ submission[t].pc = "publish"
    /\ \/ Works /\ AnswerSubmission(t, "accepted")
       \/ GoesWrong /\ AnswerSubmission(t, "error")
    /\ buffered' = buffered \cup {t}
    /\ UNCHANGED <<key, written, recorded, registrationVars>>

\* The producer is asynchronous: nil means that the message is in its buffer.
PublishRequest(t) ==
    /\ submission[t].pc = "publish"
    /\ \/ Works /\ buffered' = buffered \cup {t} /\ AnswerSubmission(t, "accepted")
       \/ GoesWrong /\ UNCHANGED buffered /\ AnswerSubmission(t, "error")
    /\ UNCHANGED <<key, written, recorded, registrationVars>>

\* The producer writes a message, or drops it: only its Completion callback,
\* which logs the error, ever knows.  A write whose acknowledgement is lost took
\* effect and is done again.
WriteBuffered(t) ==
    /\ t \in buffered
    /\ \/ Works /\ written' = written \cup {t} /\ buffered' = buffered \ {t}
       \/ GoesWrong /\ UNCHANGED written /\ buffered' = buffered \ {t}
       \/ GoesWrong /\ written' = written \cup {t} /\ UNCHANGED buffered
    /\ UNCHANGED <<key, submission, recorded, registrationVars>>

Record(t) ==
    /\ t \in written \ recorded
    /\ recorded' = recorded \cup {t}
    /\ UNCHANGED <<key, submission, buffered, written, registrationVars, troubles>>

-----------------------------------------------------------------------------
(* CreateAccount *)

Proceed(r, pc) == registration' = [registration EXCEPT ![r] = Call(pc, "none")]
AnswerRegistration(r, answer) == registration' = [registration EXCEPT ![r] = Call("done", answer)]

RowsWith(id) == {r \in customers : form[r].nationalId = id}

\* The UNIQUE constraint of accounts.national_id; and a table without it.
NationalIdNeverTaken(r) == FALSE
NationalIdTaken(r) == RowsWith(form[r].nationalId) # {}

Register(r) ==
    /\ registration[r].pc = "idle"
    /\ Proceed(r, "lookup")
    /\ UNCHANGED <<form, customers, submissionVars, troubles>>

\* A lookup that is not followed by the checks of NewAccount.
LookupNationalIdOnly(r) ==
    /\ registration[r].pc = "lookup"
    /\ \/ /\ Works
          /\ RowsWith(form[r].nationalId) # {}
          /\ AnswerRegistration(r, "duplicate")
       \/ Works /\ RowsWith(form[r].nationalId) = {} /\ Proceed(r, "insert")
       \/ GoesWrong /\ AnswerRegistration(r, "error")
    /\ UNCHANGED <<form, customers, submissionVars>>

\* GetByNationalID, and NewAccount when it finds nothing.
LookupNationalId(r) ==
    /\ registration[r].pc = "lookup"
    /\ \/ /\ Works
          /\ RowsWith(form[r].nationalId) # {}
          /\ AnswerRegistration(r, "duplicate")
       \/ /\ Works
          /\ RowsWith(form[r].nationalId) = {}
          /\ IF form[r].wellFormed THEN Proceed(r, "insert") ELSE AnswerRegistration(r, "error")
       \/ GoesWrong /\ AnswerRegistration(r, "error")
    /\ UNCHANGED <<form, customers, submissionVars>>

\* A creation that takes every error of the INSERT for a duplicate.
InsertAccountGuessing(r) ==
    /\ registration[r].pc = "insert"
    /\ \/ /\ Works /\ ~NationalIdTaken(r)
          /\ customers' = customers \cup {r}
          /\ AnswerRegistration(r, "created")
       \/ Works /\ NationalIdTaken(r) /\ UNCHANGED customers /\ AnswerRegistration(r, "duplicate")
       \/ GoesWrong /\ UNCHANGED customers /\ AnswerRegistration(r, "duplicate")
    /\ UNCHANGED <<form, submissionVars>>

\* The INSERT.  A violation of the UNIQUE constraint is an error like any other.
InsertAccount(r) ==
    /\ registration[r].pc = "insert"
    /\ \/ /\ Works /\ ~NationalIdTaken(r)
          /\ customers' = customers \cup {r}
          /\ AnswerRegistration(r, "created")
       \/ Works /\ NationalIdTaken(r) /\ UNCHANGED customers /\ AnswerRegistration(r, "error")
       \/ /\ GoesWrong
          /\ \/ ~NationalIdTaken(r) /\ customers' = customers \cup {r}
             \/ UNCHANGED customers
          /\ AnswerRegistration(r, "error")
    /\ UNCHANGED <<form, submissionVars>>

-----------------------------------------------------------------------------

GatewayInit ==
    /\ key \in [TxIds -> Keys]
    /\ submission = [t \in TxIds |-> NewCall]
    /\ buffered = {} /\ written = {} /\ recorded = {}
    /\ form \in [Registrations -> [nationalId : NationalIds, wellFormed : BOOLEAN]]
    /\ registration = [r \in Registrations |-> NewCall]
    /\ customers = {}
    /\ troubles = MaxGatewayFaults

GatewayNext ==
    \/ \E t \in TxIds :
        \/ Submit(t) \/ LookupKey(t) \/ PublishRequest(t)
        \/ WriteBuffered(t) \/ Record(t)
    \/ \E r \in Registrations : Register(r) \/ LookupNationalId(r) \/ InsertAccount(r)

GatewaySpec == GatewayInit /\ [][GatewayNext]_gatewayVars

-----------------------------------------------------------------------------
(* Properties *)

GatewayTypeOK ==
    /\ key \in [TxIds -> Keys]
    /\ submission \in [TxIds -> [pc : {"idle", "lookup", "publish", "done"},
                                 answer : SubmissionAnswers]]
    /\ buffered \subseteq TxIds
    /\ written \subseteq TxIds
    /\ recorded \subseteq written
    /\ form \in [Registrations -> [nationalId : NationalIds, wellFormed : BOOLEAN]]
    /\ registration \in [Registrations -> [pc : {"idle", "lookup", "insert", "done"},
                                           answer : RegistrationAnswers]]
    /\ customers \subseteq {r \in Registrations : form[r].wellFormed}
    /\ troubles \in 0 .. MaxGatewayFaults

Sent == buffered \cup written

\* A submission that starts when its key is already in the ledger is never sent
\* (transaction_service.go:35-53), whatever fails and whatever runs beside it.
RecordedKeyIsFinal ==
    \A t \in TxIds :
        [](submission[t].pc = "idle" /\ EntriesWith(key[t]) # {} => [](t \notin Sent))

\* What a client is told is true: an answer that names a transaction names one
\* with its key and sends nothing, an error sends nothing; "created" means a row,
\* "duplicate" a row of somebody else under the same national id, and an error no
\* row unless a statement failed (account_service.go:24-41), also when the INSERT
\* races, its answer is lost, or the process is being stopped.
AnswersAreTrue ==
    /\ \A t \in TxIds :
        /\ submission[t].answer \in TxIds =>
              submission[t].answer \in EntriesWith(key[t]) /\ t \notin Sent
        /\ submission[t].answer = "error" => t \notin Sent
    /\ \A r \in Registrations :
        /\ registration[r].answer = "created" => r \in customers
        /\ registration[r].answer = "duplicate" => RowsWith(form[r].nationalId) \ {r} # {}
        /\ registration[r].answer = "error" /\ troubles = MaxGatewayFaults => r \notin customers

\* Concurrent registrations under one national id leave one account: the check
\* of account_service.go:24 alone would not see to it.
OneAccountPerNationalId ==
    \A r, s \in customers : form[r].nationalId = form[s].nationalId => r = s

\* README.md:216: the check of the key prevents a second publication under it.
OneRequestPerKey == \A t, u \in Sent : key[t] = key[u] => t = u
=============================================================================
