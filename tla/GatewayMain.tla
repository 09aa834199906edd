----------------------------- MODULE GatewayMain -----------------------------
(***************************************************************************)
(* One process of the API gateway from start to exit                       *)
(* (cmd/api_gateway/main.go): the calls of Gateway, and the shutdown        *)
(* sequence of main, which closes what the calls use one after the other.   *)
(***************************************************************************)
EXTENDS Gateway

VARIABLE
    stopping  \* the steps of the shutdown sequence that main has begun

gatewayMainVars == <<gatewayVars, stopping>>

ShutdownSteps == {"cancel", "closePostgres", "stopServer", "closeProducer", "exit"}

Began(step) == step \in stopping

\* The step follows the ones begun so far.
Begin(step, before) ==
    /\ Began(before) /\ ~Began(step)
    /\ stopping' = stopping \cup {step}
    /\ UNCHANGED gatewayVars

\* The server accepts requests until it is stopped.
Accept ==
    /\ ~Began("stopServer")
    /\ (\E t \in TxIds : Submit(t)) \/ (\E r \in Registrations : Register(r))
    /\ UNCHANGED stopping

Handle ==
    /\ ~Began("exit")
    /\ \/ \E t \in TxIds :
            LookupKey(t) \/ (~Began("closeProducer") /\ PublishRequest(t)) \/ WriteBuffered(t)
       \/ /\ ~Began("closePostgres")
          /\ \E r \in Registrations : LookupNationalId(r) \/ InsertAccount(r)
    /\ UNCHANGED stopping

\* A call in flight meets a closed pool of connections, or a closed producer.
MeetClosedPool(r) ==
    /\ Began("closePostgres") /\ ~Began("exit")
    /\ registration[r].pc \in {"lookup", "insert"}
    /\ AnswerRegistration(r, "error")
    /\ UNCHANGED <<form, customers, submissionVars, troubles, stopping>>

MeetClosedProducer(t) ==
    /\ Began("closeProducer") /\ ~Began("exit")
    /\ submission[t].pc = "publish"
    /\ AnswerSubmission(t, "error")
    /\ UNCHANGED <<key, buffered, written, recorded, registrationVars, troubles, stopping>>

-----------------------------------------------------------------------------
(* main.  PostgreSQL is closed before the server is stopped, so that account *)
(* requests still accepted, or in flight, fail.                              *)

Signal ==
    /\ ~Began("cancel")
    /\ stopping' = {"cancel"}
    /\ UNCHANGED gatewayVars

ClosePostgres == Begin("closePostgres", "cancel")

\* Shutdown waits for the calls in flight until its timeout, so the next step
\* may find some.
StopServer == Begin("stopServer", "closePostgres")
CloseProducer == Begin("closeProducer", "stopServer")

\* A main that does not close the producer.
ExitWithoutFlush == Begin("exit", "stopServer")

\* Close has written out, or dropped, what the producer had buffered.  MongoDB is
\* closed, main returns, and calls still in flight end without an answer.
Exit == buffered = {} /\ Begin("exit", "closeProducer")

GatewayMainInit == GatewayInit /\ stopping = {}

GatewayMainNext ==
    \/ Accept \/ Handle
    \/ \E r \in Registrations : MeetClosedPool(r)
    \/ \E t \in TxIds : MeetClosedProducer(t) \/ (Record(t) /\ UNCHANGED stopping)
    \/ Signal \/ ClosePostgres \/ StopServer \/ CloseProducer \/ Exit

GatewayMainSpec == GatewayMainInit /\ [][GatewayMainNext]_gatewayMainVars

-----------------------------------------------------------------------------
(* Properties *)

\* A request that was answered "accepted" is in the topic when the gateway has
\* stopped, unless a write failed: main closes the producer, which flushes, after
\* the last call that could publish (main.go:107-113).
AcceptedIsSent ==
    Began("exit") /\ troubles = MaxGatewayFaults =>
        \A t \in TxIds : submission[t].answer = "accepted" => t \in written
=============================================================================
