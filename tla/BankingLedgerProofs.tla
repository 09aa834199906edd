------------------------- MODULE BankingLedgerProofs -------------------------
(***************************************************************************)
(* Theorems about BankingLedger, for any number of submissions, keys,       *)
(* instances, failures, crashes and rebalances: the system behaves as       *)
(* TransactionProcessor with its processor and as Gateway with its gateway, *)
(* so what is proved of the two holds in the system; only submissions that   *)
(* were accepted ever leave a trace, and none under a recorded key does.     *)
(***************************************************************************)
EXTENDS BankingLedger, TransactionProcessorProofs

\* What reached the topic was accepted, and whatever the processor knows of a
\* transaction comes from the topic.
SubmissionsOK ==
    /\ submission \in [TxIds -> [pc : {"idle", "lookup", "publish", "done"},
                                 answer : G!SubmissionAnswers]]
    /\ buffered \subseteq TxIds /\ written \subseteq TxIds
    /\ \A t \in buffered \cup written :
          submission[t].pc = "done" /\ submission[t].answer = "accepted"
    /\ \A n \in DOMAIN topic : topic[n] \in written
    /\ \A t \in TxIds : HasRow(t) \/ HasEntry(t) \/ InWork(t) => t \in written

\* The inductive invariant.
SystemInv == ProcessorInv /\ SubmissionsOK

-----------------------------------------------------------------------------
(* The processor in the system *)

LEMMA SystemStepIsProcessorStep == [SystemNext]_systemVars => [Next]_vars
<1>1. ASSUME NEW t \in TxIds, SubmissionStep(t) \/ WriteRequest(t) PROVE [Next]_vars
  BY <1>1 DEF SubmissionStep, WriteRequest, Next
<1>2. ASSUME NEW i \in Instances, InstanceStep(i) PROVE Next
  BY <1>2 DEF InstanceStep, Next
<1>3. Revoke => Next
  BY DEF Next
<1>4. UNCHANGED systemVars => UNCHANGED vars
  BY DEF systemVars
<1> QED BY <1>1, <1>2, <1>3, <1>4 DEF SystemNext

\* The gateway and the ledger it reads add no behaviour to the processor.
THEOREM SystemImplementsProcessor == SystemSpec => Spec
<1>1. SystemInit => Init
  BY DEF SystemInit
<1> QED BY <1>1, SystemStepIsProcessorStep, PTL DEF SystemSpec, Spec

-----------------------------------------------------------------------------
(* Only what reached the topic is known to the processor *)

Known(t) == HasRow(t) \/ HasEntry(t) \/ InWork(t)

LEMMA CallKnows ==
    ASSUME ProcessorInv, NEW i \in Instances, ProcessorStep(i)
    PROVE  \A u \in TxIds : Known(u)' => Known(u)
<1>1. /\ worker[i].pc # "idle" /\ worker[i].tx \in TxIds
      /\ Concerns(worker[i].tx)
  BY CallConcerns DEF ProcessorInv, ProcessorStep
<1>2. Known(worker[i].tx)
  BY <1>1 DEF Known, InWork
<1>3. \A u \in TxIds : InWork(u)' => InWork(u)
  <2>1. /\ worker'[i].tx = worker[i].tx
        /\ \A j \in Instances \ {i} : worker'[j] = worker[j]
    BY CallKeepsTx DEF ProcessorInv, ProcessorStep
  <2> QED BY <1>1, <2>1 DEF InWork
<1>4. \A u \in TxIds \ {worker[i].tx} : (HasRow(u)' => HasRow(u)) /\ (HasEntry(u)' => HasEntry(u))
  BY <1>1 DEF Concerns
<1> QED BY <1>2, <1>3, <1>4 DEF Known

LEMMA PollKnows ==
    ASSUME ProcessorInv, NEW i \in Instances, PollStep(i)
    PROVE  \A u \in TxIds : Known(u)' => Known(u)
<1>1. \A u \in TxIds : InWork(u)' => InWork(u)
  BY DEF PollStep, Poll, InWork
<1>2. \A u \in TxIds : HasRow(u)' <=> HasRow(u)
  BY PollConcerns DEF ProcessorInv, PollStep
<1>3. \A u \in TxIds : HasEntry(u)' => HasEntry(u) \/ HasRow(u)
  BY PollConcerns DEF ProcessorInv, PollStep, Concerns
<1> QED BY <1>1, <1>2, <1>3 DEF Known

\* A message taken from the topic is a written request; the other steps of the
\* consumer and of the group take nothing in hand.
LEMMA ConsumerKnows ==
    ASSUME ProcessorInv, SubmissionsOK, NEW i \in Instances,
           FetchMessage(i) \/ AfterMessage(i) \/ Crash(i) \/ Restart(i) \/ Assign(i)
    PROVE  \A u \in TxIds : Known(u)' => u \in written
<1>1. worker \in [Instances -> WorkerRecords] /\ topic \in Seq(TxIds)
  BY DEF ProcessorInv, PubInv, IInv, ProcessingTypeOK, GroupOK
<1>2. UNCHANGED <<outbox, ledger>>
  BY DEF FetchMessage, Receive, Deliver, AfterMessage, SkipMessage, CommitMessage, TakeResult,
         Crash, Die, Restart, Assign, storeVars
<1>3. \A u \in TxIds : HasRow(u) \/ HasEntry(u) \/ InWork(u) => u \in written
  BY DEF SubmissionsOK
<1>4. \A u \in TxIds : InWork(u)' => u \in written
  <2>1. CASE FetchMessage(i)
    <3>1. reader[i].next \in Nat /\ reader[i].next < Len(topic) /\ Len(topic) \in Nat
      BY <1>1, <2>1, LenProperties DEF FetchMessage, ProcessorInv, GroupOK, ReaderRecords
    <3>2. reader[i].next + 1 \in DOMAIN topic
      BY <1>1, <3>1, LenProperties
    <3>3. topic[reader[i].next + 1] \in written
      BY <3>2 DEF SubmissionsOK
    <3>4. worker'[i].tx = topic[reader[i].next + 1]
      BY <1>1, <2>1 DEF FetchMessage, Receive, Deliver, IdleWorker
    <3>5. \A j \in Instances \ {i} : worker'[j] = worker[j]
      BY <1>1, <2>1 DEF FetchMessage, Receive, Deliver
    <3> QED BY <1>3, <3>3, <3>4, <3>5 DEF InWork
  <2>2. CASE AfterMessage(i) \/ Crash(i)
    <3>1. worker' = [worker EXCEPT ![i] = IdleWorker]
      BY <2>2 DEF AfterMessage, SkipMessage, CommitMessage, TakeResult, Crash, Die
    <3>2. worker'[i].pc = "idle" /\ \A j \in Instances \ {i} : worker'[j] = worker[j]
      BY <1>1, <3>1 DEF IdleWorker
    <3> QED BY <1>3, <3>2 DEF InWork
  <2>3. CASE Restart(i) \/ Assign(i)
    <3>1. worker' = worker
      BY <2>3 DEF Restart, Assign
    <3> QED BY <1>3, <3>1 DEF InWork
  <2> QED BY <2>1, <2>2, <2>3
<1>5. \A u \in TxIds : (HasRow(u)' => HasRow(u)) /\ (HasEntry(u)' => HasEntry(u))
  BY <1>2 DEF HasRow, HasEntry, StatusesOf
<1> QED BY <1>3, <1>4, <1>5 DEF Known

LEMMA SubmissionsKept ==
    ASSUME SubmissionsOK, UNCHANGED submissionVars, topic' = topic,
           \A u \in TxIds : Known(u)' => u \in written
    PROVE  SubmissionsOK'
<1> QED BY DEF SubmissionsOK, submissionVars, Known

LEMMA InstanceStepKeeps ==
    ASSUME ProcessorInv, SubmissionsOK, NEW i \in Instances, InstanceStep(i)
    PROVE  SubmissionsOK'
<1>1. UNCHANGED submissionVars
  BY DEF InstanceStep
<1>2. \A u \in TxIds : Known(u) => u \in written
  BY DEF SubmissionsOK, Known
<1>3. topic' = topic
  BY DEF InstanceStep, FetchMessage, ProcessorStep, AfterMessage, SkipMessage, CommitMessage,
         PollStep, Crash, Restart, Assign, groupVars
<1>4. \A u \in TxIds : Known(u)' => u \in written
  BY <1>2, CallKnows, PollKnows, ConsumerKnows DEF InstanceStep
<1> QED BY <1>1, <1>3, <1>4, SubmissionsKept

-----------------------------------------------------------------------------
(* The gateway's steps *)

LEMMA TablesOfProcessorStay ==
    ASSUME UNCHANGED <<storeVars, worker>>
    PROVE  \A u \in TxIds : (Known(u)' <=> Known(u)) /\ (HasEntry(u)' <=> HasEntry(u))
<1> QED BY DEF storeVars, Known, HasRow, HasEntry, StatusesOf, InWork

\* A call of CreateTransaction moves only while its request is nowhere.
LEMMA SubmissionStepKeeps ==
    ASSUME SubmissionsOK, NEW t \in TxIds, SubmissionStep(t)
    PROVE  SubmissionsOK'
<1>1. /\ submission[t].pc # "done"
      /\ \E pc \in {"lookup", "publish", "done"}, answer \in G!SubmissionAnswers :
            /\ submission' = [submission EXCEPT ![t] = [pc |-> pc, answer |-> answer]]
            /\ \/ buffered' = buffered
               \/ /\ buffered' = buffered \cup {t}
                  /\ pc = "done" /\ answer = "accepted"
  BY DEF SubmissionStep, G!Submit, G!LookupKey, G!PublishRequest, G!Resume,
         G!AnswerSubmission, G!Call, G!SubmissionAnswers, G!EntriesWith, Recorded
<1>2. PICK pc \in {"lookup", "publish", "done"}, answer \in G!SubmissionAnswers :
            /\ submission' = [submission EXCEPT ![t] = [pc |-> pc, answer |-> answer]]
            /\ \/ buffered' = buffered
               \/ /\ buffered' = buffered \cup {t}
                  /\ pc = "done" /\ answer = "accepted"
  BY <1>1
<1>3. UNCHANGED vars /\ written' = written
  BY DEF SubmissionStep, G!Submit, G!LookupKey, G!PublishRequest
<1>4. t \notin buffered \cup written
  BY <1>1 DEF SubmissionsOK
<1>5. /\ submission'[t] = [pc |-> pc, answer |-> answer]
      /\ \A u \in TxIds \ {t} : submission'[u] = submission[u]
      /\ submission' \in [TxIds -> [pc : {"idle", "lookup", "publish", "done"},
                                    answer : G!SubmissionAnswers]]
  BY <1>2 DEF SubmissionsOK
<1>6. \A u \in TxIds : Known(u)' <=> Known(u)
  BY <1>3, TablesOfProcessorStay DEF vars, storeVars
<1>7. \A u \in (buffered \cup written)' :
         submission'[u].pc = "done" /\ submission'[u].answer = "accepted"
  BY <1>2, <1>3, <1>4, <1>5 DEF SubmissionsOK
<1>8. topic' = topic
  BY <1>3 DEF vars
<1> QED BY <1>2, <1>3, <1>5, <1>6, <1>7, <1>8 DEF SubmissionsOK, Known

\* The producer writes a request, once more or for the first time, or drops it.
LEMMA WriteRequestKeeps ==
    ASSUME ProcessorInv, SubmissionsOK, NEW t \in TxIds, WriteRequest(t)
    PROVE  SubmissionsOK'
<1>1. /\ t \in buffered /\ submission' = submission
      /\ buffered' \subseteq buffered
      /\ written' \in {written, written \cup {t}}
  BY DEF WriteRequest, G!WriteBuffered
<1>2. topic \in Seq(TxIds)
  BY DEF ProcessorInv, GroupOK
<1>3. \/ topic' = topic
      \/ topic' = Append(topic, t) /\ t \in written'
  BY DEF WriteRequest, Publish, vars
<1>4. \A n \in DOMAIN topic' : topic'[n] \in written'
  BY <1>1, <1>2, <1>3 DEF SubmissionsOK
<1>5. \A u \in TxIds : Known(u)' <=> Known(u)
  BY TablesOfProcessorStay DEF WriteRequest, Publish, vars, storeVars
<1> QED BY <1>1, <1>4, <1>5 DEF SubmissionsOK, Known

-----------------------------------------------------------------------------
(* The invariant *)

LEMMA InitSystemInv == SystemInit => SystemInv
<1> SUFFICES ASSUME SystemInit PROVE SystemInv
  OBVIOUS
<1>1. ProcessorInv
  BY InitProcessorInv DEF SystemInit
<1>2. \A t \in TxIds : ~HasRow(t) /\ ~HasEntry(t) /\ ~InWork(t)
  <2> SUFFICES ASSUME NEW t \in TxIds PROVE ~HasRow(t) /\ ~HasEntry(t) /\ ~InWork(t)
    OBVIOUS
  <2>1. ~HasRow(t)
    BY DEF SystemInit, Init, PublicationInit, ProcessingInit, StoresInit, NoRow, HasRow
  <2>2. ~HasEntry(t)
    BY DEF SystemInit, Init, PublicationInit, ProcessingInit, StoresInit, HasEntry, StatusesOf
  <2>3. ~InWork(t)
    BY DEF SystemInit, Init, PublicationInit, ProcessingInit, IdleWorker, InWork
  <2> QED BY <2>1, <2>2, <2>3
<1>3. DOMAIN topic = {}
  BY DEF SystemInit, Init
<1>4. submission \in [TxIds -> [pc : {"idle", "lookup", "publish", "done"},
                               answer : G!SubmissionAnswers]]
  BY DEF SystemInit, G!NewCall, G!Call, G!SubmissionAnswers
<1> QED BY <1>1, <1>2, <1>3, <1>4 DEF SystemInit, SystemInv, SubmissionsOK

LEMMA NextSystemInv == SystemInv /\ [SystemNext]_systemVars => SystemInv'
<1> SUFFICES ASSUME SystemInv, [SystemNext]_systemVars PROVE SystemInv'
  OBVIOUS
<1>1. ProcessorInv /\ SubmissionsOK
  BY DEF SystemInv
<1>2. ProcessorInv'
  BY <1>1, SystemStepIsProcessorStep, NextProcessorInv
<1>3. ASSUME NEW t \in TxIds, SubmissionStep(t) \/ WriteRequest(t) PROVE SubmissionsOK'
  BY <1>1, <1>3, SubmissionStepKeeps, WriteRequestKeeps
<1>4. ASSUME NEW i \in Instances, InstanceStep(i) PROVE SubmissionsOK'
  BY <1>1, <1>4, InstanceStepKeeps
<1>5. ASSUME (Revoke /\ UNCHANGED submissionVars) \/ UNCHANGED systemVars
      PROVE  SubmissionsOK'
  <2>1. /\ UNCHANGED <<storeVars, worker>> /\ topic' = topic
        /\ UNCHANGED submissionVars
    BY <1>5 DEF Revoke, systemVars, vars, storeVars
  <2>2. \A u \in TxIds : Known(u)' => Known(u)
    BY <2>1, TablesOfProcessorStay
  <2>3. \A u \in TxIds : Known(u)' => u \in written
    BY <1>1, <2>2 DEF SubmissionsOK, Known
  <2> QED BY <1>1, <2>1, <2>3, SubmissionsKept
<1>6. SubmissionsOK'
  BY <1>3, <1>4, <1>5 DEF SystemNext
<1> QED BY <1>2, <1>6 DEF SystemInv

\* SystemInv is an invariant of the system.
THEOREM SystemInvariance == SystemSpec => []SystemInv
<1> QED BY InitSystemInv, NextSystemInv, PTL DEF SystemSpec

\* What is not in the topic moved nothing.
LEMMA UnwrittenMovesNothing ==
    ASSUME SystemInv, NEW t \in TxIds, t \notin written
    PROVE  LeftNoTrace(t)
<1>1. {n \in DOMAIN topic : topic[n] = t} = {}
  BY DEF SystemInv, SubmissionsOK
<1>2. Copies(t) = 0
  BY <1>1, FS_EmptySet DEF Copies
<1> QED BY <1>2 DEF SystemInv, SubmissionsOK, LeftNoTrace

\* A submission that was not accepted is not in the topic, not applied and not
\* in the ledger, whatever is retried, redelivered or crashes
\* (transaction_service.go:35-68, consumer.go:56-109).
THEOREM OnlyAcceptedCorrect == SystemSpec => []OnlyAcceptedIsApplied
<1>1. SystemInv => OnlyAcceptedIsApplied
  <2> SUFFICES ASSUME SystemInv, NEW t \in TxIds, submission[t].answer # "accepted"
               PROVE  LeftNoTrace(t)
    BY DEF OnlyAcceptedIsApplied
  <2>1. t \notin written
    BY DEF SystemInv, SubmissionsOK
  <2> QED BY <2>1, UnwrittenMovesNothing
<1> QED BY <1>1, SystemInvariance, PTL

-----------------------------------------------------------------------------
(* The gateway in the system *)

\* A step of an instance records a written request, or nothing.
LEMMA InstanceStepRecords ==
    ASSUME SystemInv, NEW i \in Instances, InstanceStep(i)
    PROVE  Recorded' = Recorded \/ \E t \in written : Recorded' = Recorded \cup {t}
<1>1. ProcessorInv /\ SubmissionsOK
  BY DEF SystemInv
<1>2. /\ \A u \in TxIds : HasRow(u) \/ HasEntry(u) \/ InWork(u) => u \in written
      /\ written \subseteq TxIds
  BY <1>1 DEF SubmissionsOK
<1>3. ASSUME NEW t \in TxIds, t \in written, Concerns(t)
      PROVE  Recorded' = Recorded \/ Recorded' = Recorded \cup {t}
  BY <1>3 DEF Concerns, Recorded
<1>4. CASE ProcessorStep(i)
  <2>1. /\ worker[i].pc # "idle" /\ worker[i].tx \in TxIds
        /\ Concerns(worker[i].tx)
    BY <1>1, <1>4, CallConcerns DEF ProcessorInv, ProcessorStep
  <2>2. worker[i].tx \in written
    BY <1>2, <2>1 DEF InWork
  <2> QED BY <1>3, <2>1, <2>2
<1>5. CASE PollStep(i)
  <2>1. \/ \A u \in TxIds : HasEntry(u)' <=> HasEntry(u)
        \/ \E t \in TxIds : HasRow(t) /\ Concerns(t)
    BY <1>1, <1>5, PollConcerns DEF ProcessorInv, PollStep
  <2>2. CASE \A u \in TxIds : HasEntry(u)' <=> HasEntry(u)
    BY <2>2 DEF Recorded
  <2>3. ASSUME NEW t \in TxIds, HasRow(t), Concerns(t)
        PROVE  \E u \in written : Recorded' = Recorded \/ Recorded' = Recorded \cup {u}
    BY <1>2, <1>3, <2>3
  <2> QED BY <2>1, <2>2, <2>3
<1>6. CASE FetchMessage(i) \/ AfterMessage(i) \/ Crash(i) \/ Restart(i) \/ Assign(i)
  <2>1. ledger' = ledger
    BY <1>6 DEF FetchMessage, Receive, Deliver, AfterMessage, SkipMessage, CommitMessage, TakeResult,
                Crash, Die, Restart, Assign, storeVars
  <2> QED BY <2>1 DEF Recorded, HasEntry, StatusesOf
<1> QED BY <1>4, <1>5, <1>6 DEF InstanceStep

LEMMA SystemStepIsGatewayStep ==
    SystemInv /\ [SystemNext]_systemVars => [G!GatewayNext]_G!gatewayVars
<1> SUFFICES ASSUME SystemInv, [SystemNext]_systemVars
             PROVE  [G!GatewayNext]_G!gatewayVars
  OBVIOUS
<1> USE DEF G!gatewayVars, G!submissionVars, G!registrationVars
<1>1. ledger' = ledger => Recorded' = Recorded
  BY DEF Recorded, HasEntry, StatusesOf
<1>2. ASSUME NEW t \in TxIds, SubmissionStep(t) PROVE G!GatewayNext
  BY <1>2 DEF SubmissionStep, G!GatewayNext
<1>3. ASSUME NEW t \in TxIds, WriteRequest(t) PROVE G!GatewayNext
  BY <1>3 DEF WriteRequest, G!GatewayNext
<1>4. ASSUME NEW i \in Instances, InstanceStep(i) PROVE [G!GatewayNext]_G!gatewayVars
  <2>1. UNCHANGED <<key, submission, buffered, written, troubles>>
    BY <1>4 DEF InstanceStep, submissionVars
  <2>2. CASE Recorded' = Recorded
    BY <2>1, <2>2
  <2>3. ASSUME NEW t \in written, Recorded' = Recorded \cup {t}, Recorded' # Recorded
        PROVE  G!GatewayNext
    <3>1. t \in TxIds /\ t \notin Recorded
      BY <2>3 DEF SystemInv, SubmissionsOK
    <3>2. G!Record(t)
      BY <2>1, <2>3, <3>1 DEF G!Record
    <3> QED BY <3>1, <3>2 DEF G!GatewayNext
  <2> QED BY <1>4, <2>2, <2>3, InstanceStepRecords
<1>5. CASE (Revoke /\ UNCHANGED submissionVars) \/ UNCHANGED systemVars
  <2>1. UNCHANGED <<ledger, key, submission, buffered, written, troubles>>
    BY <1>5 DEF Revoke, systemVars, submissionVars, vars, storeVars
  <2> QED BY <1>1, <2>1
<1> QED BY <1>2, <1>3, <1>4, <1>5 DEF SystemNext

\* The system implements Gateway: entries of the ledger appear for written
\* requests only and stay, so an idempotency key, once in the ledger, stays
\* there for every later lookup (transaction_service.go:35-53).
THEOREM GatewayRefinement == SystemSpec => ImplementsGateway
<1>1. SystemInit => G!GatewayInit
  <2> SUFFICES ASSUME SystemInit PROVE G!GatewayInit
    OBVIOUS
  <2>1. Recorded = {}
    BY DEF SystemInit, Init, PublicationInit, ProcessingInit, StoresInit, Recorded, HasEntry, StatusesOf
  <2>2. <<>> \in [{} -> [nationalId : {}, wellFormed : BOOLEAN]] /\ <<>> = [r \in {} |-> G!NewCall]
    OBVIOUS
  <2> QED BY <2>1, <2>2 DEF SystemInit, G!GatewayInit, G!NewCall, G!Call
<1> QED BY <1>1, SystemStepIsGatewayStep, SystemInvariance, PTL
        DEF SystemSpec, ImplementsGateway, G!GatewaySpec

-----------------------------------------------------------------------------
(* A recorded key *)

\* A submission whose key is in the ledger, and that is not past the lookup.
Final(t) ==
    /\ KeyRecorded(t)
    /\ submission[t].pc # "publish" /\ t \notin buffered \cup written

LEMMA FinalStays ==
    ASSUME SystemInv, NEW t \in TxIds, Final(t), [SystemNext]_systemVars
    PROVE  Final(t)'
<1>1. key' = key
  BY DEF SystemNext, SubmissionStep, WriteRequest, InstanceStep, systemVars, submissionVars,
         G!Submit, G!LookupKey, G!PublishRequest, G!WriteBuffered
<1>2. Recorded \subseteq Recorded'
  <2>1. ledger' = ledger => Recorded' = Recorded
    BY DEF Recorded, HasEntry, StatusesOf
  <2>2. \/ ledger' = ledger
        \/ \E i \in Instances : InstanceStep(i)
    BY DEF SystemNext, SubmissionStep, WriteRequest, Publish, Revoke, systemVars, vars, storeVars
  <2> QED BY <2>1, <2>2, InstanceStepRecords
<1>3. submission \in [TxIds -> [pc : {"idle", "lookup", "publish", "done"},
                               answer : G!SubmissionAnswers]]
  BY DEF SystemInv, SubmissionsOK
<1>4. ASSUME NEW u \in TxIds, SubmissionStep(u)
      PROVE  submission'[t].pc # "publish" /\ t \notin (buffered \cup written)'
  <2>1. CASE G!Submit(u)
    BY <1>3, <2>1 DEF Final, G!Submit, G!Resume, G!Call
  <2>2. CASE G!LookupKey(u)
    BY <1>3, <2>2 DEF Final, KeyRecorded, G!LookupKey, G!EntriesWith, G!Resume, G!AnswerSubmission, G!Call
  <2>3. CASE G!PublishRequest(u)
    BY <1>3, <2>3 DEF Final, G!PublishRequest, G!AnswerSubmission, G!Call
  <2> QED BY <1>4, <2>1, <2>2, <2>3 DEF SubmissionStep
<1>5. ASSUME NEW u \in TxIds, WriteRequest(u)
      PROVE  submission'[t].pc # "publish" /\ t \notin (buffered \cup written)'
  BY <1>5 DEF Final, WriteRequest, G!WriteBuffered
<1>6. ASSUME \/ \E i \in Instances : InstanceStep(i)
             \/ Revoke /\ UNCHANGED submissionVars
             \/ UNCHANGED systemVars
      PROVE  submission'[t].pc # "publish" /\ t \notin (buffered \cup written)'
  BY <1>6 DEF Final, InstanceStep, systemVars, submissionVars
<1>7. submission'[t].pc # "publish" /\ t \notin (buffered \cup written)'
  BY <1>4, <1>5, <1>6 DEF SystemNext
<1> QED BY <1>1, <1>2, <1>7 DEF Final, KeyRecorded

\* A submission that starts when its key is in the ledger moves no money, whatever
\* fails, crashes or is delivered twice from the gateway to the ledger
\* (transaction_service.go:35-53, processing_service.go:58-146).
THEOREM RecordedKeyCorrect == SystemSpec => RecordedKeyMovesNothing
<1> SUFFICES ASSUME NEW t \in TxIds
             PROVE  SystemSpec =>
                      [](submission[t].pc = "idle" /\ KeyRecorded(t) => []LeftNoTrace(t))
  BY DEF RecordedKeyMovesNothing
<1>1. SystemInv /\ submission[t].pc = "idle" /\ KeyRecorded(t) => Final(t)
  BY DEF SystemInv, SubmissionsOK, Final
<1>2. SystemInv /\ Final(t) /\ [SystemNext]_systemVars => Final(t)'
  BY FinalStays
<1>3. SystemInv /\ Final(t) => LeftNoTrace(t)
  BY UnwrittenMovesNothing DEF Final
<1> QED BY <1>1, <1>2, <1>3, SystemInvariance, PTL DEF SystemSpec

-----------------------------------------------------------------------------
(* What the processor promises, in the system *)

\* Every variable of the processor keeps its type in the whole system.
THEOREM SystemTypeCorrect == SystemSpec => []TypeOK
<1> QED BY SystemImplementsProcessor, ProcessorTypeCorrect, PTL

\* Row locks match the calls in the whole system (processing_service.go:79-146).
THEOREM SystemLocksCorrect == SystemSpec => []LocksMatchCalls
<1> QED BY SystemImplementsProcessor, ProcessorLocksCorrect, PTL

\* What the gateway may read as completed is applied (ledger_publisher.go:41-104).
THEOREM SystemCompletedCorrect == SystemSpec => []CompletedIsApplied
<1> QED BY SystemImplementsProcessor, ProcessorCompletedCorrect, PTL

\* From the submission to the balance, a transaction is applied at most once, by
\* its amount, when the account accepts it (processing_service.go:70-146).
THEOREM SystemRefinement == SystemSpec => ImplementsExactlyOnce
<1> QED BY SystemImplementsProcessor, ProcessorRefinement, PTL

\* As long as no statement fails and no deposit overflows, no accepted request that
\* reached the topic is lost in the whole system (consumer.go:81-94).
THEOREM SystemLosesNothing == SystemSpec /\ []Undisturbed => []NoRequestLost
<1> QED BY SystemImplementsProcessor, NothingLostUndisturbed, PTL

\* From the submission to the balance, the books of every account balance
\* (account_manager.go:41-80, processing_service.go:99-143).
THEOREM SystemBooksCorrect == SystemSpec => []BooksBalance
<1> QED BY SystemImplementsProcessor, ProcessorBooksCorrect, PTL

\* In the whole system too a row is given up only after its retry budget was spent
\* (poller.go:97-113).
THEOREM SystemBudgetIsSpent == SystemSpec => []GivesUpOnlyAfterMaxAttempts
<1> QED BY SystemImplementsProcessor, ProcessorBudgetIsSpent, PTL

\* A transaction whose row is PROCESSED has a document the gateway can show
\* (ledger_publisher.go:95, transaction_service.go:79-89).
THEOREM SystemMarkedIsRecorded == SystemSpec => []MarkedIsRecorded
<1> QED BY SystemImplementsProcessor, ProcessorMarksCorrect, PTL

\* What the gateway shows of a transaction that was delivered once agrees with the
\* balances: it is not shown as failed when it is applied, and is shown as completed
\* when its row is PROCESSED (ledger_publisher.go:41-104, failure_recorder.go:50-77).
THEOREM SystemRightWhenDeliveredOnce == SystemSpec => []RightWhenDeliveredOnce
<1> QED BY SystemImplementsProcessor, ProcessorOnceIsRight, PTL
=============================================================================
