---------------------------- MODULE GatewayProofs ----------------------------
(***************************************************************************)
(* Theorems about a process of the API gateway, for any number of calls,   *)
(* keys and national ids, and any number of faults, also while the process *)
(* is being stopped: the type invariant, that the answers are true, that a  *)
(* national id has one account, that a recorded key is final, and that the  *)
(* shutdown sequence sends what was accepted.                               *)
(***************************************************************************)
EXTENDS GatewayMain, TLAPS

NoTrouble == troubles = MaxGatewayFaults

\* What is true of a submission: nothing is sent before the call answers, and
\* what it answers says what was sent.
SubmissionOK(t) ==
    /\ submission[t].pc # "done" => submission[t].answer = "none" /\ t \notin Sent
    /\ submission[t].answer \in TxIds =>
          submission[t].answer \in EntriesWith(key[t]) /\ t \notin Sent
    /\ submission[t].answer = "error" => t \notin Sent
    /\ NoTrouble /\ submission[t].answer = "accepted" => t \in Sent

\* What is true of a registration: no row before the call answers.
RegistrationOK(r) ==
    /\ registration[r].pc # "done" => registration[r].answer = "none" /\ r \notin customers
    /\ registration[r].pc = "insert" => form[r].wellFormed
    /\ registration[r].answer = "created" => r \in customers
    /\ registration[r].answer = "duplicate" => RowsWith(form[r].nationalId) \ {r} # {}
    /\ NoTrouble /\ registration[r].answer = "error" => r \notin customers

\* The producer is closed before the exit, and has nothing left then.
ExitOK == Began("exit") => Began("closeProducer") /\ buffered = {}

\* The inductive invariant.
GatewayInv ==
    /\ GatewayTypeOK
    /\ OneAccountPerNationalId
    /\ \A t \in TxIds : SubmissionOK(t)
    /\ \A r \in Registrations : RegistrationOK(r)
    /\ ExitOK

-----------------------------------------------------------------------------

LEMMA InitGatewayInv == GatewayMainInit => GatewayInv
<1> SUFFICES ASSUME GatewayMainInit PROVE GatewayInv
  OBVIOUS
<1>1. /\ \A t \in TxIds : submission[t] = [pc |-> "idle", answer |-> "none"]
      /\ \A r \in Registrations : registration[r] = [pc |-> "idle", answer |-> "none"]
  BY DEF GatewayMainInit, GatewayInit, NewCall, Call
<1>2. GatewayTypeOK
  <2>1. /\ submission \in [TxIds -> [pc : {"idle", "lookup", "publish", "done"},
                                     answer : SubmissionAnswers]]
        /\ registration \in [Registrations -> [pc : {"idle", "lookup", "insert", "done"},
                                               answer : RegistrationAnswers]]
    BY DEF GatewayMainInit, GatewayInit, NewCall, Call, SubmissionAnswers, RegistrationAnswers
  <2> QED BY <2>1, GatewayAssumption DEF GatewayMainInit, GatewayInit, GatewayTypeOK, GatewayAssumption
<1>3. /\ customers = {} /\ buffered = {} /\ written = {} /\ stopping = {}
  BY DEF GatewayMainInit, GatewayInit
<1>4. ASSUME NEW t \in TxIds PROVE SubmissionOK(t)
  <2>1. submission[t].pc = "idle" /\ submission[t].answer = "none" /\ t \notin Sent
    BY <1>1, <1>3 DEF Sent
  <2>2. "none" \notin TxIds
    BY GatewayAssumption DEF GatewayAssumption
  <2> QED BY <2>1, <2>2 DEF SubmissionOK
<1>5. \A r \in Registrations : RegistrationOK(r)
  BY <1>1, <1>3 DEF RegistrationOK
<1> QED BY <1>2, <1>3, <1>4, <1>5 DEF GatewayInv, OneAccountPerNationalId, ExitOK, Began

\* The faults that are left, after any step.
LEMMA TroublesOK ==
    ASSUME troubles \in 0 .. MaxGatewayFaults, Works \/ GoesWrong
    PROVE  troubles' \in 0 .. MaxGatewayFaults /\ (NoTrouble' => NoTrouble)
<1> QED BY GatewayAssumption DEF GatewayAssumption, Works, GoesWrong, NoTrouble

-----------------------------------------------------------------------------
(* Submissions.  They change nothing that a registration knows.             *)

\* The facts of the registrations survive a step of a submission.
LEMMA RegistrationsKept ==
    ASSUME GatewayInv, UNCHANGED registrationVars, NoTrouble' => NoTrouble
    PROVE  OneAccountPerNationalId' /\ \A r \in Registrations : RegistrationOK(r)'
<1> QED BY DEF GatewayInv, registrationVars, OneAccountPerNationalId, RegistrationOK, RowsWith

\* A submission moves on, or answers, and all facts about it are kept.
LEMMA SubmissionMoves ==
    ASSUME GatewayInv, NEW t \in TxIds,
           NEW pc \in {"lookup", "publish", "done"}, NEW answer \in SubmissionAnswers,
           submission' = [submission EXCEPT ![t] = Call(pc, answer)],
           UNCHANGED <<key, written, recorded, registrationVars, stopping>>,
           Works \/ GoesWrong,
           buffered' \in {buffered, buffered \cup {t}},
           Began("exit") => buffered' = buffered,
           SubmissionOK(t)'
    PROVE  GatewayInv'
<1>1. troubles' \in 0 .. MaxGatewayFaults /\ (NoTrouble' => NoTrouble)
  BY TroublesOK DEF GatewayInv, GatewayTypeOK
<1>2. submission' \in [TxIds -> [pc : {"idle", "lookup", "publish", "done"},
                                 answer : SubmissionAnswers]]
  BY DEF GatewayInv, GatewayTypeOK, Call
<1>3. GatewayTypeOK'
  BY <1>1, <1>2 DEF GatewayInv, GatewayTypeOK, registrationVars, SubmissionAnswers, RegistrationAnswers
<1>4. ASSUME NEW u \in TxIds, u # t PROVE SubmissionOK(u)'
  <2>1. submission'[u] = submission[u]
    BY <1>4 DEF GatewayInv, GatewayTypeOK
  <2>2. u \in Sent' <=> u \in Sent
    BY <1>4 DEF Sent
  <2>3. EntriesWith(key[u])' = EntriesWith(key[u])
    BY DEF EntriesWith
  <2> QED BY <1>1, <2>1, <2>2, <2>3 DEF GatewayInv, SubmissionOK
<1>5. \A u \in TxIds : SubmissionOK(u)'
  BY <1>4
<1>6. ExitOK'
  BY DEF GatewayInv, ExitOK, Began
<1> QED BY <1>1, <1>3, <1>5, <1>6, RegistrationsKept DEF GatewayInv

LEMMA SubmitPreserves ==
    ASSUME GatewayInv, NEW t \in TxIds, Submit(t), UNCHANGED stopping
    PROVE  GatewayInv'
<1>1. submission'[t] = Call("lookup", "none") /\ t \notin Sent'
  BY DEF Submit, Resume, GatewayInv, GatewayTypeOK, SubmissionOK, Sent
<1>2. SubmissionOK(t)'
  BY <1>1, GatewayAssumption DEF SubmissionOK, Call, GatewayAssumption
<1> QED BY <1>2, SubmissionMoves DEF Submit, Resume, Works, SubmissionAnswers

LEMMA LookupKeyPreserves ==
    ASSUME GatewayInv, NEW t \in TxIds, LookupKey(t), UNCHANGED stopping
    PROVE  GatewayInv'
<1>1. t \notin Sent' /\ EntriesWith(key[t])' = EntriesWith(key[t])
  BY DEF LookupKey, GatewayInv, SubmissionOK, Sent, EntriesWith
<1>2. CASE \E entry \in EntriesWith(key[t]) : Works /\ AnswerSubmission(t, entry)
  <2>1. PICK entry \in EntriesWith(key[t]) : Works /\ AnswerSubmission(t, entry)
    BY <1>2
  <2>2. entry \in TxIds
    BY DEF EntriesWith, GatewayInv, GatewayTypeOK
  <2>3. submission'[t] = Call("done", entry)
    BY <2>1 DEF AnswerSubmission, GatewayInv, GatewayTypeOK
  <2>4. SubmissionOK(t)'
    BY <1>1, <2>2, <2>3, GatewayAssumption DEF SubmissionOK, Call, GatewayAssumption
  <2> QED BY <2>1, <2>2, <2>4, SubmissionMoves
          DEF LookupKey, AnswerSubmission, SubmissionAnswers
<1>3. CASE Works /\ Resume(t, "publish")
  <2>1. submission'[t] = Call("publish", "none")
    BY <1>3 DEF Resume, GatewayInv, GatewayTypeOK
  <2>2. SubmissionOK(t)'
    BY <1>1, <2>1, GatewayAssumption DEF SubmissionOK, Call, GatewayAssumption
  <2> QED BY <1>3, <2>2, SubmissionMoves DEF LookupKey, Resume, SubmissionAnswers
<1>4. CASE GoesWrong /\ AnswerSubmission(t, "error")
  <2>1. submission'[t] = Call("done", "error")
    BY <1>4 DEF AnswerSubmission, GatewayInv, GatewayTypeOK
  <2>2. SubmissionOK(t)'
    BY <1>1, <2>1, GatewayAssumption DEF SubmissionOK, Call, GatewayAssumption
  <2> QED BY <1>4, <2>2, SubmissionMoves DEF LookupKey, AnswerSubmission, SubmissionAnswers
<1> QED BY <1>2, <1>3, <1>4 DEF LookupKey

LEMMA PublishRequestPreserves ==
    ASSUME GatewayInv, NEW t \in TxIds, ~Began("closeProducer"), PublishRequest(t),
           UNCHANGED stopping
    PROVE  GatewayInv'
<1>1. ~Began("exit")
  BY DEF GatewayInv, ExitOK
<1>2. CASE Works /\ buffered' = buffered \cup {t} /\ AnswerSubmission(t, "accepted")
  <2>1. submission'[t] = Call("done", "accepted") /\ t \in Sent'
    BY <1>2 DEF AnswerSubmission, GatewayInv, GatewayTypeOK, Sent
  <2>2. SubmissionOK(t)'
    BY <2>1, GatewayAssumption DEF SubmissionOK, Call, GatewayAssumption
  <2> QED BY <1>1, <1>2, <2>2, SubmissionMoves
          DEF PublishRequest, AnswerSubmission, SubmissionAnswers
<1>3. CASE GoesWrong /\ UNCHANGED buffered /\ AnswerSubmission(t, "error")
  <2>1. submission'[t] = Call("done", "error") /\ t \notin Sent'
    BY <1>3 DEF PublishRequest, AnswerSubmission, GatewayInv, GatewayTypeOK, SubmissionOK, Sent
  <2>2. SubmissionOK(t)'
    BY <2>1, GatewayAssumption DEF SubmissionOK, Call, GatewayAssumption
  <2> QED BY <1>3, <2>2, SubmissionMoves DEF PublishRequest, AnswerSubmission, SubmissionAnswers
<1> QED BY <1>2, <1>3 DEF PublishRequest

LEMMA MeetClosedProducerPreserves ==
    ASSUME GatewayInv, NEW t \in TxIds, MeetClosedProducer(t)
    PROVE  GatewayInv'
<1>1. submission'[t] = Call("done", "error") /\ t \notin Sent'
  BY DEF MeetClosedProducer, AnswerSubmission, GatewayInv, GatewayTypeOK, SubmissionOK, Sent
<1>2. SubmissionOK(t)'
  BY <1>1, GatewayAssumption DEF SubmissionOK, Call, GatewayAssumption
<1> QED BY <1>2, SubmissionMoves DEF MeetClosedProducer, AnswerSubmission, SubmissionAnswers, Works

\* The producer and the processor change no call.
LEMMA DeliveryPreserves ==
    ASSUME GatewayInv, NEW t \in TxIds,
           WriteBuffered(t) \/ Record(t), UNCHANGED stopping
    PROVE  GatewayInv'
<1>1. troubles' \in 0 .. MaxGatewayFaults /\ (NoTrouble' => NoTrouble)
  <2>1. Works \/ GoesWrong
    BY DEF WriteBuffered, Record, Works
  <2> QED BY <2>1, TroublesOK DEF GatewayInv, GatewayTypeOK
<1>2. UNCHANGED <<key, submission, form, registration, customers>> /\ UNCHANGED registrationVars
  BY DEF WriteBuffered, Record, registrationVars
<1>3. /\ Sent' \subseteq Sent /\ (NoTrouble' => Sent \subseteq Sent')
      /\ recorded \subseteq recorded' /\ buffered' \subseteq buffered
  BY <1>1 DEF WriteBuffered, Record, Sent, GoesWrong, NoTrouble, GatewayInv, GatewayTypeOK
<1>4. GatewayTypeOK'
  BY <1>1, <1>2 DEF GatewayInv, GatewayTypeOK, WriteBuffered, Record, SubmissionAnswers,
                    RegistrationAnswers
<1>5. ASSUME NEW u \in TxIds PROVE SubmissionOK(u)'
  <2>1. EntriesWith(key[u]) \subseteq EntriesWith(key[u])'
    BY <1>2, <1>3 DEF EntriesWith
  <2> QED BY <1>1, <1>2, <1>3, <2>1 DEF GatewayInv, SubmissionOK
<1>6. ExitOK'
  BY <1>3 DEF GatewayInv, ExitOK, Began
<1> QED BY <1>1, <1>2, <1>4, <1>5, <1>6, RegistrationsKept DEF GatewayInv

-----------------------------------------------------------------------------
(* Registrations.  They change nothing that a submission knows.             *)

\* The facts of the submissions survive a step of a registration.
LEMMA SubmissionsKept ==
    ASSUME GatewayInv, UNCHANGED submissionVars, NoTrouble' => NoTrouble
    PROVE  \A t \in TxIds : SubmissionOK(t)'
<1> QED BY DEF GatewayInv, submissionVars, SubmissionOK, EntriesWith, Sent

\* A registration moves on, or answers, and may insert its row.
LEMMA RegistrationMoves ==
    ASSUME GatewayInv, NEW r \in Registrations,
           NEW pc \in {"lookup", "insert", "done"}, NEW answer \in RegistrationAnswers,
           registration' = [registration EXCEPT ![r] = Call(pc, answer)],
           UNCHANGED <<form, submissionVars, stopping>>,
           Works \/ GoesWrong,
           \/ UNCHANGED customers
           \/ /\ ~NationalIdTaken(r) /\ form[r].wellFormed
              /\ customers' = customers \cup {r},
           RegistrationOK(r)'
    PROVE  GatewayInv'
<1>1. troubles' \in 0 .. MaxGatewayFaults /\ (NoTrouble' => NoTrouble)
  BY TroublesOK DEF GatewayInv, GatewayTypeOK
<1>2. registration' \in [Registrations -> [pc : {"idle", "lookup", "insert", "done"},
                                           answer : RegistrationAnswers]]
  BY DEF GatewayInv, GatewayTypeOK, Call
<1>3. customers \subseteq customers' /\ customers' \subseteq customers \cup {r}
  OBVIOUS
<1>4. customers' \subseteq {s \in Registrations : form[s].wellFormed}
  BY DEF GatewayInv, GatewayTypeOK
<1>5. GatewayTypeOK'
  BY <1>1, <1>2, <1>4 DEF GatewayInv, GatewayTypeOK, submissionVars, SubmissionAnswers, RegistrationAnswers
<1>6. ASSUME NEW s \in Registrations, s # r PROVE RegistrationOK(s)'
  <2>1. registration'[s] = registration[s] /\ form' = form
    BY <1>6 DEF GatewayInv, GatewayTypeOK
  <2>2. s \in customers' <=> s \in customers
    BY <1>6, <1>3
  <2>3. RowsWith(form[s].nationalId) \subseteq RowsWith(form[s].nationalId)'
    BY <1>3, <2>1 DEF RowsWith
  <2> QED BY <1>1, <2>1, <2>2, <2>3 DEF GatewayInv, RegistrationOK
<1>7. OneAccountPerNationalId'
  <2>1. CASE UNCHANGED customers
    BY <2>1 DEF GatewayInv, OneAccountPerNationalId
  <2>2. CASE ~NationalIdTaken(r) /\ customers' = customers \cup {r}
    <3>1. \A s \in customers : form[s].nationalId # form[r].nationalId
      BY <2>2 DEF NationalIdTaken, RowsWith
    <3> QED BY <2>2, <3>1 DEF GatewayInv, OneAccountPerNationalId
  <2> QED BY <2>1, <2>2
<1>8. \A s \in Registrations : RegistrationOK(s)'
  BY <1>6
<1>9. ExitOK'
  BY DEF GatewayInv, ExitOK, Began, submissionVars
<1> QED BY <1>1, <1>5, <1>7, <1>8, <1>9, SubmissionsKept DEF GatewayInv

LEMMA RegisterPreserves ==
    ASSUME GatewayInv, NEW r \in Registrations, Register(r), UNCHANGED stopping
    PROVE  GatewayInv'
<1>1. registration'[r] = Call("lookup", "none") /\ r \notin customers'
  BY DEF Register, Proceed, GatewayInv, GatewayTypeOK, RegistrationOK
<1>2. RegistrationOK(r)'
  BY <1>1 DEF RegistrationOK, Call
<1> QED BY <1>2, RegistrationMoves DEF Register, Proceed, Works, RegistrationAnswers

\* A registration that answers without having inserted a row.
LEMMA EmptyHanded ==
    ASSUME GatewayInv, NEW r \in Registrations, registration[r].pc # "done",
           UNCHANGED <<form, customers, submissionVars, stopping>>, Works \/ GoesWrong,
           NEW answer \in {"duplicate", "error"}, AnswerRegistration(r, answer),
           answer = "duplicate" => RowsWith(form[r].nationalId) # {}
    PROVE  GatewayInv'
<1>1. registration'[r] = Call("done", answer) /\ r \notin customers'
  BY DEF AnswerRegistration, GatewayInv, GatewayTypeOK, RegistrationOK
<1>2. answer = "duplicate" => RowsWith(form[r].nationalId)' \ {r} # {}
  BY <1>1 DEF RowsWith
<1>3. RegistrationOK(r)'
  BY <1>1, <1>2 DEF RegistrationOK, Call
<1> QED BY <1>3, RegistrationMoves DEF AnswerRegistration, RegistrationAnswers

LEMMA LookupNationalIdPreserves ==
    ASSUME GatewayInv, NEW r \in Registrations, LookupNationalId(r), UNCHANGED stopping
    PROVE  GatewayInv'
<1>1. CASE Works /\ RowsWith(form[r].nationalId) # {} /\ AnswerRegistration(r, "duplicate")
  BY <1>1, EmptyHanded DEF LookupNationalId
<1>2. CASE (Works \/ GoesWrong) /\ AnswerRegistration(r, "error")
  BY <1>2, EmptyHanded DEF LookupNationalId
<1>3. CASE Works /\ form[r].wellFormed /\ Proceed(r, "insert")
  <2>1. registration'[r] = Call("insert", "none") /\ r \notin customers' /\ form' = form
    BY <1>3 DEF LookupNationalId, Proceed, GatewayInv, GatewayTypeOK, RegistrationOK
  <2>2. RegistrationOK(r)'
    BY <1>3, <2>1 DEF RegistrationOK, Call
  <2> QED BY <1>3, <2>2, RegistrationMoves DEF LookupNationalId, Proceed, RegistrationAnswers
<1> QED BY <1>1, <1>2, <1>3 DEF LookupNationalId

LEMMA InsertAccountPreserves ==
    ASSUME GatewayInv, NEW r \in Registrations, InsertAccount(r), UNCHANGED stopping
    PROVE  GatewayInv'
<1>1. form[r].wellFormed
  BY DEF InsertAccount, GatewayInv, RegistrationOK
<1>2. CASE /\ Works /\ ~NationalIdTaken(r)
           /\ customers' = customers \cup {r} /\ AnswerRegistration(r, "created")
  <2>1. registration'[r] = Call("done", "created") /\ r \in customers'
    BY <1>2 DEF AnswerRegistration, GatewayInv, GatewayTypeOK
  <2>2. RegistrationOK(r)'
    BY <2>1 DEF RegistrationOK, Call
  <2> QED BY <1>1, <1>2, <2>2, RegistrationMoves
          DEF InsertAccount, AnswerRegistration, RegistrationAnswers
<1>3. CASE (Works \/ GoesWrong) /\ UNCHANGED customers /\ AnswerRegistration(r, "error")
  BY <1>3, EmptyHanded DEF InsertAccount
<1>4. CASE /\ GoesWrong /\ ~NationalIdTaken(r)
           /\ customers' = customers \cup {r} /\ AnswerRegistration(r, "error")
  <2>1. registration'[r] = Call("done", "error")
    BY <1>4 DEF AnswerRegistration, GatewayInv, GatewayTypeOK
  <2>2. ~NoTrouble'
    BY <1>4, GatewayAssumption DEF GoesWrong, NoTrouble, GatewayInv, GatewayTypeOK, GatewayAssumption
  <2>3. RegistrationOK(r)'
    BY <2>1, <2>2 DEF RegistrationOK, Call
  <2> QED BY <1>1, <1>4, <2>3, RegistrationMoves
          DEF InsertAccount, AnswerRegistration, RegistrationAnswers
<1> QED BY <1>2, <1>3, <1>4 DEF InsertAccount

LEMMA MeetClosedPoolPreserves ==
    ASSUME GatewayInv, NEW r \in Registrations, MeetClosedPool(r)
    PROVE  GatewayInv'
<1> QED BY EmptyHanded DEF MeetClosedPool, Works

-----------------------------------------------------------------------------
(* The shutdown sequence                                                    *)

\* A step of main changes no call; the exit waits for the producer.
LEMMA ShutdownPreserves ==
    ASSUME GatewayInv, UNCHANGED gatewayVars, ExitOK'
    PROVE  GatewayInv'
<1>1. GatewayTypeOK' /\ OneAccountPerNationalId'
  BY DEF GatewayInv, gatewayVars, submissionVars, registrationVars, GatewayTypeOK,
         SubmissionAnswers, RegistrationAnswers, OneAccountPerNationalId
<1>2. NoTrouble' => NoTrouble
  BY DEF gatewayVars, NoTrouble
<1> QED BY <1>1, <1>2, SubmissionsKept, RegistrationsKept DEF GatewayInv, gatewayVars

LEMMA MainPreserves ==
    ASSUME GatewayInv,
           Signal \/ ClosePostgres \/ StopServer \/ CloseProducer \/ Exit
    PROVE  GatewayInv'
<1>1. UNCHANGED gatewayVars /\ buffered' = buffered
  BY DEF Signal, ClosePostgres, StopServer, CloseProducer, Exit, Begin, gatewayVars, submissionVars
<1>2. ExitOK'
  <2>1. CASE Signal
    BY <2>1 DEF Signal, ExitOK, Began
  <2>2. CASE ClosePostgres \/ StopServer \/ CloseProducer
    BY <1>1, <2>2 DEF ClosePostgres, StopServer, CloseProducer, Begin, GatewayInv, ExitOK, Began
  <2>3. CASE Exit
    BY <1>1, <2>3 DEF Exit, Begin, ExitOK, Began
  <2> QED BY <2>1, <2>2, <2>3
<1> QED BY <1>1, <1>2, ShutdownPreserves

LEMMA NextGatewayInv == GatewayInv /\ [GatewayMainNext]_gatewayMainVars => GatewayInv'
<1> SUFFICES ASSUME GatewayInv, [GatewayMainNext]_gatewayMainVars PROVE GatewayInv'
  OBVIOUS
<1>1. CASE Accept
  BY <1>1, SubmitPreserves, RegisterPreserves DEF Accept
<1>2. CASE Handle
  BY <1>2, LookupKeyPreserves, PublishRequestPreserves, DeliveryPreserves,
     LookupNationalIdPreserves, InsertAccountPreserves DEF Handle
<1>3. ASSUME NEW r \in Registrations, MeetClosedPool(r) PROVE GatewayInv'
  BY <1>3, MeetClosedPoolPreserves
<1>4. ASSUME NEW t \in TxIds, MeetClosedProducer(t) \/ (Record(t) /\ UNCHANGED stopping)
      PROVE  GatewayInv'
  BY <1>4, MeetClosedProducerPreserves, DeliveryPreserves
<1>5. CASE Signal \/ ClosePostgres \/ StopServer \/ CloseProducer \/ Exit
  BY <1>5, MainPreserves
<1>6. CASE UNCHANGED gatewayMainVars
  <2>1. UNCHANGED gatewayVars /\ UNCHANGED <<buffered, stopping>>
    BY <1>6 DEF gatewayMainVars, gatewayVars, submissionVars
  <2>2. ExitOK'
    BY <2>1 DEF GatewayInv, ExitOK, Began
  <2> QED BY <2>1, <2>2, ShutdownPreserves
<1> QED BY <1>1, <1>2, <1>3, <1>4, <1>5, <1>6 DEF GatewayMainNext

-----------------------------------------------------------------------------

\* GatewayInv is an invariant of a gateway process.
THEOREM GatewayInvariance == GatewayMainSpec => []GatewayInv
<1> QED BY InitGatewayInv, NextGatewayInv, PTL DEF GatewayMainSpec

\* Every variable of the gateway keeps its type; in particular an account that
\* NewAccount does not accept never gets a row (account_service.go:22-41).
THEOREM GatewayTypeCorrect == GatewayMainSpec => []GatewayTypeOK
<1>1. GatewayInv => GatewayTypeOK
  BY DEF GatewayInv
<1> QED BY <1>1, GatewayInvariance, PTL

\* What clients are told is true, however many calls race, whatever fails, and
\* while main closes what the calls use (transaction_service.go:33-75,
\* account_service.go:22-41).
THEOREM AnswersCorrect == GatewayMainSpec => []AnswersAreTrue
<1>1. GatewayInv => AnswersAreTrue
  BY DEF GatewayInv, SubmissionOK, RegistrationOK, NoTrouble, AnswersAreTrue
<1> QED BY <1>1, GatewayInvariance, PTL

\* However many registrations race, a national id has one account
\* (account_service.go:24-41).
THEOREM AccountsUnique == GatewayMainSpec => []OneAccountPerNationalId
<1>1. GatewayInv => OneAccountPerNationalId
  BY DEF GatewayInv
<1> QED BY <1>1, GatewayInvariance, PTL

\* Unless a write fails, the exit leaves no accepted request behind
\* (main.go:104-128).
THEOREM ShutdownSends == GatewayMainSpec => []AcceptedIsSent
<1>1. GatewayInv => AcceptedIsSent
  BY DEF GatewayInv, SubmissionOK, ExitOK, NoTrouble, AcceptedIsSent, Sent
<1> QED BY <1>1, GatewayInvariance, PTL

-----------------------------------------------------------------------------
(* A recorded key                                                           *)

\* A submission whose key is in the ledger, and that is not past the lookup.
Final(t) == EntriesWith(key[t]) # {} /\ submission[t].pc # "publish" /\ t \notin Sent

LEMMA FinalStays ==
    ASSUME GatewayInv, NEW t \in TxIds, Final(t), [GatewayMainNext]_gatewayMainVars
    PROVE  Final(t)'
<1>1. key' = key /\ recorded \subseteq recorded'
  BY DEF GatewayMainNext, gatewayMainVars, gatewayVars, submissionVars, Accept, Submit, Register,
         Handle, LookupKey, PublishRequest, WriteBuffered, LookupNationalId, InsertAccount,
         MeetClosedPool, MeetClosedProducer, Record, Signal, ClosePostgres, StopServer,
         CloseProducer, Exit, Begin
<1>2. EntriesWith(key[t])' # {}
  BY <1>1 DEF Final, EntriesWith
<1>3. submission'[t].pc # "publish"
  <2>1. submission \in [TxIds -> [pc : {"idle", "lookup", "publish", "done"},
                                 answer : SubmissionAnswers]]
    BY DEF GatewayInv, GatewayTypeOK
  <2>2. ASSUME NEW u \in TxIds, Submit(u) \/ LookupKey(u) \/ MeetClosedProducer(u)
        PROVE  submission'[t].pc # "publish"
    BY <2>1, <2>2 DEF Final, Submit, LookupKey, MeetClosedProducer, Resume, AnswerSubmission, Call
  <2>3. ASSUME NEW u \in TxIds, PublishRequest(u) PROVE submission'[t].pc # "publish"
    BY <2>1, <2>3 DEF Final, PublishRequest, AnswerSubmission, Call
  <2>4. \/ UNCHANGED submission
        \/ \E u \in TxIds : \/ Submit(u) \/ LookupKey(u) \/ MeetClosedProducer(u)
                            \/ PublishRequest(u)
    BY DEF GatewayMainNext, gatewayMainVars, gatewayVars, submissionVars, Accept, Register,
           Handle, WriteBuffered, LookupNationalId, InsertAccount, MeetClosedPool, Record,
           Signal, ClosePostgres, StopServer, CloseProducer, Exit, Begin
  <2> QED BY <2>2, <2>3, <2>4 DEF Final
<1>4. t \notin Sent'
  BY DEF Final, Sent, GatewayMainNext, gatewayMainVars, gatewayVars, submissionVars, Accept,
         Submit, Register, Handle, LookupKey, PublishRequest, WriteBuffered, LookupNationalId,
         InsertAccount, MeetClosedPool, MeetClosedProducer, Record, Signal, ClosePostgres,
         StopServer, CloseProducer, Exit, Begin
<1> QED BY <1>2, <1>3, <1>4 DEF Final

\* A submission that starts when its key is in the ledger is never sent, however
\* many others use the key and whatever fails (transaction_service.go:35-53).
THEOREM RecordedKeyStaysFinal == GatewayMainSpec => RecordedKeyIsFinal
<1> SUFFICES ASSUME NEW t \in TxIds
             PROVE  GatewayMainSpec =>
                      [](submission[t].pc = "idle" /\ EntriesWith(key[t]) # {} => [](t \notin Sent))
  BY DEF RecordedKeyIsFinal
<1>1. GatewayInv /\ submission[t].pc = "idle" /\ EntriesWith(key[t]) # {} => Final(t)
  BY DEF GatewayInv, SubmissionOK, Final
<1>2. GatewayInv /\ Final(t) /\ [GatewayMainNext]_gatewayMainVars => Final(t)'
  BY FinalStays
<1>3. Final(t) => t \notin Sent
  BY DEF Final
<1> QED BY <1>1, <1>2, <1>3, GatewayInvariance, PTL DEF GatewayMainSpec
=============================================================================
