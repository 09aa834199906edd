---------------------------- MODULE BankingLedger ----------------------------
(***************************************************************************)
(* The whole system: the gateway's submissions (module Gateway), the topic, *)
(* the processor with its pollers (module TransactionProcessor), and the    *)
(* ledger, which closes the loop: the gateway looks idempotency keys up in  *)
(* the collection that the processor and the pollers write.                 *)
(*                                                                          *)
(* Gateway runs here without its environment action Record: what it calls   *)
(* recorded are the transactions that have a document.                      *)
(***************************************************************************)
EXTENDS TransactionProcessor

CONSTANTS
    Keys,             \* idempotency keys
    MaxGatewayFaults  \* bound on failed lookups and publications, and dropped requests

ASSUME BankingLedgerAssumption == MaxGatewayFaults \in Nat

VARIABLES
    key,         \* the idempotency key of each submission
    submission,  \* what the call of each submission does next and what it answered
    buffered,    \* requests in the buffer of the asynchronous producer
    written,     \* requests in the topic
    troubles     \* faults of the gateway that may still happen

submissionVars == <<key, submission, buffered, written, troubles>>
systemVars == <<vars, submissionVars>>

Recorded == {t \in TxIds : HasEntry(t)}

G == INSTANCE Gateway
    WITH recorded <- Recorded,
         Registrations <- {}, NationalIds <- {},
         form <- <<>>, registration <- <<>>, customers <- {}

-----------------------------------------------------------------------------

\* A step of a call of CreateTransaction.  The lookup reads the ledger.
SubmissionStep(t) ==
    /\ UNCHANGED vars
    /\ G!Submit(t) \/ G!LookupKey(t) \/ G!PublishRequest(t)

\* The producer appends a request to the topic, and again when the first write
\* was not acknowledged, or it drops the request.
WriteRequest(t) ==
    \/ Publish(t) /\ G!WriteBuffered(t) /\ t \in written'
    \/ UNCHANGED vars /\ G!WriteBuffered(t) /\ written' = written /\ t \notin buffered'

SystemInit ==
    /\ Init
    /\ key \in [TxIds -> Keys]
    /\ submission = [t \in TxIds |-> G!NewCall]
    /\ buffered = {} /\ written = {}
    /\ troubles = MaxGatewayFaults

\* The steps of TransactionProcessor other than Publish.
InstanceStep(i) ==
    /\ \/ FetchMessage(i) \/ ProcessorStep(i) \/ AfterMessage(i) \/ PollStep(i)
       \/ Crash(i) \/ Restart(i) \/ Assign(i)
    /\ UNCHANGED submissionVars

SystemNext ==
    \/ \E t \in TxIds : SubmissionStep(t) \/ WriteRequest(t)
    \/ \E i \in Instances : InstanceStep(i)
    \/ Revoke /\ UNCHANGED submissionVars

SystemSpec == SystemInit /\ [][SystemNext]_systemVars

-----------------------------------------------------------------------------
(* Properties *)

\* The system implements Gateway: what the processor and the pollers do to the
\* ledger, after crashes, rebalances and duplicates, is what Gateway expects of
\* its environment.  Entries appear for written requests only, and stay.
ImplementsGateway == G!GatewaySpec

\* Not in the topic, not applied and not in the ledger.
LeftNoTrace(t) == ~HasRow(t) /\ ~HasEntry(t) /\ Copies(t) = 0

\* What a client was told against what became of its money: a submission that
\* ended in an error, or that was answered with an earlier transaction, is not
\* applied, not in the ledger and not on its way.
OnlyAcceptedIsApplied ==
    \A t \in TxIds :
        submission[t].answer # "accepted" => LeftNoTrace(t)

KeyRecorded(t) == \E u \in Recorded : key[u] = key[t]

\* Idempotency from end to end: a submission that starts when its key is in the
\* ledger moves no money and leaves no entry, whatever is retried, written
\* twice, redelivered or crashes anywhere in the system.
RecordedKeyMovesNothing ==
    \A t \in TxIds : [](submission[t].pc = "idle" /\ KeyRecorded(t) => []LeftNoTrace(t))
=============================================================================
