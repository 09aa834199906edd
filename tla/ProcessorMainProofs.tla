------------------------- MODULE ProcessorMainProofs -------------------------
(***************************************************************************)
(* Proofs about ProcessorMain, for every set of topics and any number of    *)
(* failing calls, panics, signals and crashes: types, and what a stop, a    *)
(* crash or a failure may lose.                                             *)
(***************************************************************************)
EXTENDS ProcessorMain, SequenceTheorems, TLAPS

-----------------------------------------------------------------------------
(* The invariant *)

Handled(n) == Decided(n) \/ n \in logged

\* Not lost, as far as ShutdownLosesNothing counts a message.
Clean(n) == topic[n] # "refused" => Decided(n)

Undecided == {"deadLetter", "submit", "wait"}

\* The message in hand is the last one fetched, and of the kind its step is for.
HandOK ==
    /\ consumer.pc \in Undecided \cup {"commit"} =>
          consumer.current = consumer.next /\ consumer.next > 0
    /\ consumer.pc = "deadLetter" => topic[consumer.current] = "malformed"
    /\ consumer.pc \in {"submit", "wait"} => topic[consumer.current] # "malformed"

\* There is a task exactly while the consumer waits for one, and its reply is a
\* true one: an error without any failure means a cancelled context, or that the
\* transaction is applied.
TaskOK ==
    /\ task.pc # "none" <=> consumer.pc = "wait"
    /\ task.pc = "sent" =>
          \/ task.reply = "ok" /\ Handled(consumer.current) /\ Clean(consumer.current)
          \/ /\ task.reply = "error"
             /\ consumer.current \in settled \/ Cancelled \/ failures < MaxFailures

StoppingOK ==
    /\ stopping # {} => Cancelled
    /\ Exited => consumer.pc = "stopped"

\* What the consumer has passed in this life is handled.
PassedHandled ==
    \A n \in 1 .. consumer.next :
        Handled(n) \/ (n = consumer.current /\ consumer.pc \in Undecided)

\* The consumer may still reach a commit.
GoesOn == consumer.pc # "stopped" /\ ~(consumer.pc = "loop" /\ Cancelled)

\* What it has passed is clean as long as it may still reach a commit.
PassedClean ==
    failures = MaxFailures /\ GoesOn =>
        \A n \in 1 .. consumer.next :
            Clean(n) \/ (n = consumer.current /\ consumer.pc \in Undecided)

MainInv ==
    /\ MainTypeOK /\ HandOK /\ TaskOK /\ StoppingOK
    /\ PassedHandled /\ PassedClean
    /\ NothingVanishes /\ ShutdownLosesNothing

LEMMA TopicTyped ==
    ASSUME MainTypeOK
    PROVE  /\ Len(topic) \in Nat
           /\ topic \in [1 .. Len(topic) -> Kinds]
           /\ DOMAIN topic = 1 .. Len(topic)
           /\ consumer.next \in 0 .. Len(topic)
           /\ consumer.current \in 0 .. Len(topic)
           /\ committed \in 0 .. Len(topic)
  BY ProcessorMainAssumption, LenProperties DEF MainTypeOK

-----------------------------------------------------------------------------
(* Initial states *)

LEMMA InitInv == MainInit => MainInv
<1> SUFFICES ASSUME MainInit PROVE MainInv
  OBVIOUS
<1>1. Len(topic) \in Nat
  BY ProcessorMainAssumption, LenProperties DEF MainInit
<1>2. MainTypeOK
  BY <1>1, ProcessorMainAssumption
  DEF MainInit, MainTypeOK, Starting, NoTask, ConsumerPCs, TaskPCs, ShutdownSteps
<1>3. QED
  BY <1>2
  DEF MainInit, MainInv, HandOK, TaskOK, StoppingOK, PassedHandled, PassedClean, NothingVanishes,
      ShutdownLosesNothing, Starting, NoTask, Undecided, Cancelled, Exited, Began

LEMMA StutterInv == MainInv /\ UNCHANGED mainVars => MainInv'
  BY DEF MainInv, mainVars, kafkaVars, outcomeVars, budgetVars, MainTypeOK, HandOK, TaskOK, StoppingOK,
         PassedHandled, PassedClean, NothingVanishes, ShutdownLosesNothing, Handled, Clean, Decided,
         GoesOn, Cancelled, Exited, Began

-----------------------------------------------------------------------------
(* The consumer *)

LEMMA LoopInv == MainInv /\ Loop => MainInv'
<1> SUFFICES ASSUME MainInv, Loop PROVE MainInv'
  OBVIOUS
<1> USE DEF MainInv, Loop, Continue, kafkaVars, outcomeVars, budgetVars
<1>1. consumer' = [consumer EXCEPT !.pc = consumer'.pc] /\ consumer'.pc \in {"fetch", "stopped"}
  BY DEF MainTypeOK
<1>2. MainTypeOK'
  BY <1>1 DEF MainTypeOK, ConsumerPCs
<1>3. HandOK' /\ TaskOK' /\ StoppingOK'
  BY <1>1 DEF MainTypeOK, HandOK, TaskOK, StoppingOK, Handled, Clean, Decided, Undecided, Cancelled, Exited, Began
<1>4. PassedHandled'
  BY <1>1 DEF MainTypeOK, PassedHandled, Handled, Decided, Undecided
<1>5. PassedClean'
  BY <1>1 DEF MainTypeOK, PassedClean, GoesOn, Clean, Decided, Undecided, Cancelled, Began
<1>6. NothingVanishes' /\ ShutdownLosesNothing'
  BY DEF NothingVanishes, ShutdownLosesNothing, Decided
<1>7. QED
  BY <1>2, <1>3, <1>4, <1>5, <1>6

LEMMA FetchInv == MainInv /\ Fetch => MainInv'
<1> SUFFICES ASSUME MainInv, Fetch PROVE MainInv'
  OBVIOUS
<1> USE DEF MainInv, kafkaVars, outcomeVars
<1>0. /\ Len(topic) \in Nat /\ topic \in [1 .. Len(topic) -> Kinds]
      /\ consumer.next \in 0 .. Len(topic) /\ consumer.current \in 0 .. Len(topic)
  BY TopicTyped
<1>1. CASE /\ consumer.next < Len(topic)
           /\ Works
           /\ consumer' = [pc |-> IF topic[consumer.next + 1] = "malformed" THEN "deadLetter" ELSE "submit",
                           next |-> consumer.next + 1, current |-> consumer.next + 1]
  <2>1. /\ consumer'.next = consumer.next + 1 /\ consumer'.current = consumer.next + 1
        /\ consumer'.pc \in {"deadLetter", "submit"}
        /\ consumer'.pc = "deadLetter" <=> topic[consumer.next + 1] = "malformed"
    BY <1>1
  <2>2. MainTypeOK'
    BY <1>0, <1>1, <2>1 DEF Fetch, MainTypeOK, Works, ConsumerPCs
  <2>3. HandOK' /\ TaskOK' /\ StoppingOK'
    BY <1>0, <1>1, <2>1 DEF Fetch, MainTypeOK, HandOK, TaskOK, StoppingOK, Undecided, Cancelled, Exited, Began
  <2>4. PassedHandled'
    BY <1>0, <1>1, <2>1 DEF Fetch, PassedHandled, Handled, Decided, Undecided
  <2>5. PassedClean'
    BY <1>0, <1>1, <2>1 DEF Fetch, Works, PassedClean, GoesOn, Clean, Decided, Undecided, Cancelled, Began
  <2>6. QED
    BY <1>1, <2>2, <2>3, <2>4, <2>5 DEF Fetch, Works, NothingVanishes, ShutdownLosesNothing, Decided
<1>2. CASE Breaks /\ Continue(IF Cancelled THEN "stopped" ELSE "loop")
  <2>1. /\ consumer'.next = consumer.next /\ consumer'.current = consumer.current
        /\ consumer'.pc \in {"loop", "stopped"}
        /\ consumer' \in [pc : ConsumerPCs, next : 0 .. Len(topic), current : 0 .. Len(topic)]
    BY <1>2 DEF MainTypeOK, Continue, ConsumerPCs
  <2>2. failures' \in 0 .. MaxFailures /\ failures' <= failures
        /\ (failures' = failures => Cancelled)
    BY <1>2, ProcessorMainAssumption DEF Breaks, MainTypeOK
  <2>3. MainTypeOK'
    BY <2>1, <2>2 DEF Fetch, MainTypeOK
  <2>4. HandOK' /\ TaskOK' /\ StoppingOK'
    BY <2>1 DEF Fetch, MainTypeOK, HandOK, TaskOK, StoppingOK, Undecided, Cancelled, Exited, Began
  <2>5. PassedHandled'
    BY <2>1 DEF Fetch, PassedHandled, Handled, Decided, Undecided
  <2>6. PassedClean'
    BY <2>1, <2>2 DEF Fetch, MainTypeOK, PassedClean, GoesOn, Cancelled, Began
  <2>7. QED
    BY <2>2, <2>3, <2>4, <2>5, <2>6 DEF Fetch, MainTypeOK, NothingVanishes, ShutdownLosesNothing, Decided
<1>3. QED
  BY <1>1, <1>2 DEF Fetch

\* The message in hand becomes decided or logged and the consumer goes on.
LEMMA DecideInv ==
    ASSUME MainInv, NEW pc \in {"loop", "commit"},
           consumer.pc \in Undecided,
           consumer' = [consumer EXCEPT !.pc = pc],
           UNCHANGED <<topic, committed, settled, stopping, panics, terminations>>,
           task'.pc = "none", task' \in [pc : TaskPCs, conn : BOOLEAN, reply : {"none", "ok", "error"}],
           failures' \in 0 .. failures,
           logged \subseteq logged', logged' \subseteq logged \cup {consumer.current},
           deadLetters \subseteq deadLetters',
           \/ deadLetters' = deadLetters
           \/ consumer.pc = "deadLetter" /\ deadLetters' = deadLetters \cup {consumer.current},
           consumer.current \in settled \cup deadLetters' \cup logged',
           \/ pc = "loop" /\ (failures' # MaxFailures \/ "cancel" \in stopping)
           \/ topic[consumer.current] = "refused"
           \/ consumer.current \in settled \cup deadLetters'
    PROVE  MainInv'
<1> USE DEF MainInv
<1>1. /\ Len(topic) \in Nat /\ DOMAIN topic = 1 .. Len(topic)
      /\ consumer.next \in 0 .. Len(topic) /\ consumer.current \in 0 .. Len(topic)
      /\ failures \in 0 .. MaxFailures /\ MaxFailures \in Nat
  BY TopicTyped, ProcessorMainAssumption DEF MainTypeOK
<1>2. consumer.current = consumer.next /\ consumer.next > 0
  BY DEF HandOK
<1>3. /\ consumer'.next = consumer.next /\ consumer'.current = consumer.current
      /\ consumer'.pc = pc
      /\ consumer' \in [pc : ConsumerPCs, next : 0 .. Len(topic), current : 0 .. Len(topic)]
  BY DEF MainTypeOK, ConsumerPCs
<1>4. consumer.pc = "deadLetter" => topic[consumer.current] = "malformed"
  BY DEF HandOK
<1>5. MainTypeOK'
  <2>1. deadLetters' \subseteq {n \in DOMAIN topic : topic[n] = "malformed"}
    BY <1>1, <1>2, <1>4 DEF MainTypeOK
  <2>2. logged' \subseteq DOMAIN topic
    BY <1>1, <1>2 DEF MainTypeOK
  <2>3. QED
    BY <1>1, <1>3, <2>1, <2>2 DEF MainTypeOK
<1>6. HandOK' /\ TaskOK' /\ StoppingOK'
  BY <1>2, <1>3 DEF HandOK, TaskOK, StoppingOK, Undecided, Cancelled, Exited, Began
<1>7. PassedHandled'
  <2> SUFFICES ASSUME NEW n \in 1 .. consumer.next PROVE Handled(n)'
    BY <1>3 DEF PassedHandled
  <2>1. CASE n = consumer.current
    BY <2>1 DEF Handled, Decided
  <2>2. CASE n # consumer.current
    BY <2>2 DEF PassedHandled, Handled, Decided
  <2>3. QED
    BY <2>1, <2>2
<1>8. PassedClean'
  <2> SUFFICES ASSUME failures' = MaxFailures, ~(pc = "loop" /\ Cancelled),
                      NEW n \in 1 .. consumer.next
               PROVE  Clean(n)'
    BY <1>3 DEF PassedClean, GoesOn, Cancelled, Began
  <2>1. failures = MaxFailures
    BY <1>1
  <2>2. CASE n = consumer.current
    BY <2>2 DEF Clean, Decided, Cancelled, Began
  <2>3. CASE n # consumer.current
    BY <2>1, <2>3 DEF PassedClean, GoesOn, Undecided, Clean, Decided
  <2>4. QED
    BY <2>2, <2>3
<1>9. NothingVanishes' /\ ShutdownLosesNothing'
  BY <1>1 DEF NothingVanishes, ShutdownLosesNothing, Decided
<1>10. QED
  BY <1>5, <1>6, <1>7, <1>8, <1>9

LEMMA BreaksTyped == MainInv /\ Breaks => failures' \in 0 .. failures /\ (failures' = failures => Cancelled)
  BY ProcessorMainAssumption DEF MainInv, MainTypeOK, Breaks

LEMMA WorksTyped == MainInv /\ UNCHANGED failures => failures' \in 0 .. failures
  BY ProcessorMainAssumption DEF MainInv, MainTypeOK

LEMMA DeadLetterInv == MainInv /\ DeadLetter => MainInv'
<1> SUFFICES ASSUME MainInv, DeadLetter PROVE MainInv'
  OBVIOUS
<1> USE DEF kafkaVars, outcomeVars
<1>1. /\ consumer.pc = "deadLetter" /\ consumer.pc \in Undecided
      /\ task.pc = "none" /\ task' = task /\ consumer'.current = consumer.current
      /\ task \in [pc : TaskPCs, conn : BOOLEAN, reply : {"none", "ok", "error"}]
  BY DEF MainInv, DeadLetter, TaskOK, Undecided, MainTypeOK, Continue
<1>2. CASE Works /\ deadLetters' = deadLetters \cup {consumer.current} /\ Continue("commit") /\ UNCHANGED logged
  <2>1. consumer.current \in deadLetters'
    BY <1>2
  <2>2. QED
    BY <1>1, <1>2, <2>1, DecideInv, WorksTyped DEF DeadLetter, Works, Continue
<1>3. CASE /\ Breaks /\ deadLetters' \in {deadLetters, deadLetters \cup {consumer.current}}
           /\ LogError /\ Continue("loop")
  <2>1. consumer.current \in logged'
    BY <1>3 DEF LogError
  <2>2. failures' # MaxFailures \/ "cancel" \in stopping
    BY <1>3, BreaksTyped, ProcessorMainAssumption DEF MainInv, MainTypeOK, Cancelled, Began
  <2>3. failures' \in 0 .. failures
    BY <1>3, BreaksTyped
  <2>4. logged \subseteq logged' /\ logged' \subseteq logged \cup {consumer.current}
    BY <1>3 DEF LogError
  <2>5. consumer' = [consumer EXCEPT !.pc = "loop"]
    BY <1>3 DEF Continue
  <2>6. UNCHANGED <<topic, committed, settled, task, stopping, panics, terminations>>
    BY DEF DeadLetter
  <2>7. /\ deadLetters \subseteq deadLetters'
        /\ \/ deadLetters' = deadLetters
           \/ consumer.pc = "deadLetter" /\ deadLetters' = deadLetters \cup {consumer.current}
    BY <1>1, <1>3
  <2>8. QED
    BY <1>1, <2>1, <2>2, <2>3, <2>4, <2>5, <2>6, <2>7, DecideInv
<1>4. QED
  BY <1>2, <1>3 DEF DeadLetter

LEMMA SubmitInv == MainInv /\ Submit => MainInv'
<1> SUFFICES ASSUME MainInv, Submit PROVE MainInv'
  OBVIOUS
<1> USE DEF kafkaVars, outcomeVars, budgetVars
<1>1. consumer.pc = "submit" /\ consumer.pc \in Undecided
  BY DEF Submit, Undecided
<1>2. CASE task' = [NoTask EXCEPT !.pc = "running"] /\ Continue("wait") /\ UNCHANGED logged
  <2>1. /\ consumer'.next = consumer.next /\ consumer'.current = consumer.current
        /\ consumer'.pc = "wait" /\ task'.pc = "running"
        /\ consumer' \in [pc : ConsumerPCs, next : 0 .. Len(topic), current : 0 .. Len(topic)]
        /\ task' \in [pc : TaskPCs, conn : BOOLEAN, reply : {"none", "ok", "error"}]
    BY <1>2 DEF MainInv, MainTypeOK, Continue, NoTask, ConsumerPCs, TaskPCs
  <2>2. MainTypeOK'
    BY <2>1, <1>2 DEF Submit, MainInv, MainTypeOK
  <2>3. HandOK' /\ TaskOK' /\ StoppingOK'
    BY <1>1, <1>2, <2>1 DEF Submit, MainInv, HandOK, TaskOK, StoppingOK, Undecided, Cancelled, Exited, Began
  <2>4. PassedHandled' /\ PassedClean'
    BY <1>1, <1>2, <2>1
    DEF Submit, MainInv, PassedHandled, PassedClean, GoesOn, Handled, Clean, Decided, Undecided
  <2>5. QED
    BY <1>2, <2>2, <2>3, <2>4 DEF Submit, MainInv, NothingVanishes, ShutdownLosesNothing, Decided
<1>3. CASE Began("release") /\ LogError /\ Continue("loop") /\ UNCHANGED task
  <2>1. "cancel" \in stopping
    BY <1>3 DEF MainInv, StoppingOK, Cancelled, Began
  <2>2. /\ task.pc = "none"
        /\ task \in [pc : TaskPCs, conn : BOOLEAN, reply : {"none", "ok", "error"}]
        /\ consumer'.current = consumer.current
    BY <1>1, <1>3 DEF MainInv, TaskOK, MainTypeOK, Continue
  <2>3. consumer.current \in logged'
    BY <1>3 DEF LogError
  <2>4. failures' \in 0 .. failures
    BY WorksTyped DEF Submit
  <2>5. logged \subseteq logged' /\ logged' \subseteq logged \cup {consumer.current}
    BY <1>3 DEF LogError
  <2>6. consumer' = [consumer EXCEPT !.pc = "loop"]
    BY <1>3 DEF Continue
  <2>7. UNCHANGED <<topic, committed, settled, deadLetters, task, stopping, panics, terminations>>
    BY <1>3 DEF Submit
  <2>8. QED
    BY <1>1, <2>1, <2>2, <2>3, <2>4, <2>5, <2>6, <2>7, DecideInv
<1>4. QED
  BY <1>2, <1>3 DEF Submit

LEMMA TakeReplyInv == MainInv /\ TakeReply => MainInv'
<1> SUFFICES ASSUME MainInv, TakeReply PROVE MainInv'
  OBVIOUS
<1> USE DEF kafkaVars, outcomeVars, budgetVars
<1>1. consumer.pc = "wait" /\ consumer.pc \in Undecided /\ task.pc = "sent"
  BY DEF TakeReply, Undecided
<1>2. /\ task'.pc = "none"
      /\ task' \in [pc : TaskPCs, conn : BOOLEAN, reply : {"none", "ok", "error"}]
  BY DEF TakeReply, NoTask, TaskPCs
<1>3. failures' \in 0 .. failures
  BY WorksTyped DEF TakeReply
<1>4. UNCHANGED <<topic, committed, settled, deadLetters, stopping, panics, terminations>>
  BY DEF TakeReply
<1>5. CASE task.reply = "ok"
  <2>1. consumer' = [consumer EXCEPT !.pc = "commit"] /\ UNCHANGED logged
    BY <1>5 DEF TakeReply, Continue
  <2>2. /\ consumer.current \in settled \cup deadLetters' \cup logged'
        /\ \/ topic[consumer.current] = "refused"
           \/ consumer.current \in settled \cup deadLetters'
    BY <1>1, <1>4, <1>5, <2>1 DEF MainInv, TaskOK, Handled, Clean, Decided
  <2>3. QED
    BY <1>1, <1>2, <1>3, <1>4, <2>1, <2>2, DecideInv
<1>6. CASE task.reply # "ok"
  <2>1. consumer' = [consumer EXCEPT !.pc = "loop"]
    BY <1>6 DEF TakeReply, Continue
  <2>2. /\ logged \subseteq logged' /\ logged' \subseteq logged \cup {consumer.current}
        /\ consumer.current \in settled \cup deadLetters' \cup logged'
    BY <1>6 DEF TakeReply, LogError
  <2>3. \/ failures' # MaxFailures \/ "cancel" \in stopping
        \/ consumer.current \in settled \cup deadLetters'
    BY <1>1, <1>6, ProcessorMainAssumption DEF TakeReply, MainInv, MainTypeOK, TaskOK, Cancelled, Began
  <2>4. QED
    BY <1>1, <1>2, <1>3, <1>4, <2>1, <2>2, <2>3, DecideInv
<1>7. QED
  BY <1>5, <1>6

\* The commit passes what the consumer has passed, all of it handled.
LEMMA CommitOffsetInv == MainInv /\ CommitOffset => MainInv'
<1> SUFFICES ASSUME MainInv, CommitOffset PROVE MainInv'
  OBVIOUS
<1> USE DEF kafkaVars, outcomeVars
<1>1. /\ Len(topic) \in Nat
      /\ consumer.next \in 0 .. Len(topic) /\ consumer.current \in 0 .. Len(topic)
      /\ committed \in 0 .. Len(topic)
  BY TopicTyped DEF MainInv
<1>2. consumer.pc = "commit" /\ consumer.current = consumer.next
  BY DEF CommitOffset, MainInv, HandOK
<1>3. /\ consumer'.next = consumer.next /\ consumer'.current = consumer.current
      /\ consumer'.pc = "loop"
      /\ consumer' \in [pc : ConsumerPCs, next : 0 .. Len(topic), current : 0 .. Len(topic)]
  BY DEF CommitOffset, Continue, MainInv, MainTypeOK, ConsumerPCs
<1>4. failures' \in 0 .. failures
  <2>1. CASE Works
    BY <2>1, WorksTyped DEF Works
  <2>2. CASE Breaks
    BY <2>2, BreaksTyped
  <2>3. QED
    BY <2>1, <2>2 DEF CommitOffset
<1>5. committed' = committed \/ committed' = consumer.next
  BY <1>2 DEF CommitOffset
<1>6. MainTypeOK'
  BY <1>1, <1>3, <1>4, <1>5, ProcessorMainAssumption DEF CommitOffset, MainInv, MainTypeOK
<1>7. HandOK' /\ TaskOK' /\ StoppingOK'
  BY <1>2, <1>3
  DEF CommitOffset, MainInv, HandOK, TaskOK, StoppingOK, Undecided, Cancelled, Exited, Began
<1>8. PassedHandled'
  BY <1>2, <1>3 DEF CommitOffset, MainInv, PassedHandled, Handled, Decided, Undecided
<1>9. failures' = MaxFailures => failures = MaxFailures
  BY <1>4, ProcessorMainAssumption DEF MainInv, MainTypeOK
<1>10. PassedClean'
  BY <1>2, <1>3, <1>9 DEF CommitOffset, MainInv, PassedClean, GoesOn, Clean, Decided, Undecided
<1>11. NothingVanishes'
  BY <1>1, <1>2, <1>5 DEF CommitOffset, MainInv, NothingVanishes, PassedHandled, Handled, Decided, Undecided
<1>12. ShutdownLosesNothing'
  BY <1>1, <1>2, <1>5, <1>9
  DEF CommitOffset, MainInv, ShutdownLosesNothing, PassedClean, GoesOn, Clean, Decided, Undecided
<1>13. QED
  BY <1>6, <1>7, <1>8, <1>10, <1>11, <1>12 DEF MainInv

-----------------------------------------------------------------------------
(* The task *)

\* A step of the task, which may settle the message in hand.
LEMMA TaskMoves ==
    ASSUME MainInv,
           task.pc # "none", task'.pc # "none",
           task' \in [pc : TaskPCs, conn : BOOLEAN, reply : {"none", "ok", "error"}],
           UNCHANGED <<topic, committed, deadLetters, consumer, stopping, terminations>>,
           failures' \in 0 .. failures, panics' \in 0 .. panics,
           settled \subseteq settled', settled' \subseteq settled \cup {consumer.current},
           logged \subseteq logged', logged' \subseteq logged \cup {consumer.current},
           \/ task'.pc # "sent"
           \/ /\ task'.reply = "ok"
              /\ consumer.current \in settled'
           \/ /\ task'.reply = "ok"
              /\ topic[consumer.current] = "refused"
              /\ consumer.current \in settled' \cup logged'
           \/ /\ task'.reply = "error"
              /\ consumer.current \in settled' \/ "cancel" \in stopping \/ failures' # MaxFailures
    PROVE  MainInv'
<1> USE DEF MainInv
<1>1. /\ Len(topic) \in Nat /\ DOMAIN topic = 1 .. Len(topic)
      /\ consumer.next \in 0 .. Len(topic) /\ consumer.current \in 0 .. Len(topic)
      /\ failures \in 0 .. MaxFailures /\ MaxFailures \in Nat
      /\ panics \in 0 .. MaxPanics /\ MaxPanics \in Nat
  BY TopicTyped, ProcessorMainAssumption DEF MainTypeOK
<1>2. /\ consumer.pc = "wait" /\ consumer.pc \in Undecided
      /\ consumer.current = consumer.next /\ consumer.next > 0
      /\ topic[consumer.current] # "malformed"
  BY DEF HandOK, TaskOK, Undecided
<1>3. MainTypeOK'
  <2>1. settled' \subseteq {n \in DOMAIN topic : topic[n] # "malformed"}
    BY <1>1, <1>2 DEF MainTypeOK
  <2>2. logged' \subseteq DOMAIN topic
    BY <1>1, <1>2 DEF MainTypeOK
  <2>3. QED
    BY <1>1, <2>1, <2>2 DEF MainTypeOK
<1>4. HandOK' /\ StoppingOK'
  BY DEF HandOK, StoppingOK, Cancelled, Exited, Began
<1>5. TaskOK'
  BY <1>1, <1>2 DEF TaskOK, Handled, Clean, Decided, Cancelled, Began
<1>6. PassedHandled'
  BY DEF PassedHandled, Handled, Decided
<1>7. failures' = MaxFailures => failures = MaxFailures
  BY <1>1
<1>8. PassedClean'
  BY <1>7 DEF PassedClean, GoesOn, Clean, Decided, Cancelled, Began
<1>9. NothingVanishes' /\ ShutdownLosesNothing'
  BY <1>7 DEF NothingVanishes, ShutdownLosesNothing, Decided
<1>10. QED
  BY <1>3, <1>4, <1>5, <1>6, <1>8, <1>9

LEMMA TaskStepInv == MainInv /\ TaskStep => MainInv'
<1> SUFFICES ASSUME MainInv, TaskStep PROVE MainInv'
  OBVIOUS
<1> USE DEF kafkaVars, outcomeVars, TaskFrame
<1>1. /\ task \in [pc : TaskPCs, conn : BOOLEAN, reply : {"none", "ok", "error"}]
      /\ panics \in 0 .. panics
  BY ProcessorMainAssumption DEF MainInv, MainTypeOK
<1>2. ASSUME NEW result \in {"ok", "error"}, Reply(result)
      PROVE  /\ task'.pc = "sent" /\ task'.reply = result
             /\ task' \in [pc : TaskPCs, conn : BOOLEAN, reply : {"none", "ok", "error"}]
  BY <1>2 DEF Reply, TaskPCs
<1>3. CASE SkipProcessed
  <2>1. Reply("ok") /\ consumer.current \in settled' /\ failures' \in 0 .. failures
    BY <1>3, WorksTyped DEF SkipProcessed, Works
  <2>2. QED
    BY <1>1, <1>2, <1>3, <2>1, TaskMoves DEF SkipProcessed, Running
<1>4. CASE BeginTx
  <2>1. task'.pc = "inTx" /\ failures' \in 0 .. failures
    BY <1>1, <1>4, WorksTyped DEF BeginTx, Works
  <2>2. task' \in [pc : TaskPCs, conn : BOOLEAN, reply : {"none", "ok", "error"}]
    BY <1>1, <1>4 DEF BeginTx, TaskPCs
  <2>3. QED
    BY <1>1, <1>4, <2>1, <2>2, TaskMoves DEF BeginTx, Running
<1>5. CASE TaskError
  <2>1. /\ Reply("error") /\ failures' \in 0 .. failures
        /\ \/ consumer.current \in settled'
           \/ "cancel" \in stopping
           \/ failures' # MaxFailures
    BY <1>5, WorksTyped, BreaksTyped, ProcessorMainAssumption
    DEF TaskError, Works, MainInv, MainTypeOK, Cancelled, Began
  <2>2. task.pc # "none"
    BY <1>5 DEF TaskError, Running
  <2>3. QED
    BY <1>1, <1>2, <1>5, <2>1, <2>2, TaskMoves DEF TaskError
<1>6. CASE CommitTx
  <2>1. task.pc # "none"
    BY <1>6 DEF CommitTx, Running
  <2>2. CASE Works /\ Settle /\ Reply("ok")
    <3>1. consumer.current \in settled' /\ failures' \in 0 .. failures
      BY <2>2, WorksTyped DEF Works, Settle
    <3>2. QED
      BY <1>1, <1>2, <1>6, <2>1, <2>2, <3>1, TaskMoves DEF CommitTx, Settle
  <2>3. CASE Breaks /\ MaybeSettle /\ Reply("error")
    <3>1. failures' \in 0 .. failures /\ ("cancel" \in stopping \/ failures' # MaxFailures)
      BY <2>3, BreaksTyped, ProcessorMainAssumption DEF MainInv, MainTypeOK, Cancelled, Began
    <3>2. settled \subseteq settled' /\ settled' \subseteq settled \cup {consumer.current}
      BY <2>3 DEF MaybeSettle, Settle
    <3>3. QED
      BY <1>1, <1>2, <1>6, <2>1, <2>3, <3>1, <3>2, TaskMoves DEF CommitTx
  <2>4. QED
    BY <1>6, <2>2, <2>3 DEF CommitTx
<1>7. CASE RecordRefusal
  <2>1. task.pc # "none" /\ topic[consumer.current] = "refused" /\ Reply("ok")
    BY <1>7 DEF RecordRefusal, Running, Kind
  <2>2. /\ settled \subseteq settled' /\ settled' \subseteq settled \cup {consumer.current}
        /\ logged \subseteq logged' /\ logged' \subseteq logged \cup {consumer.current}
        /\ consumer.current \in settled' \cup logged'
    BY <1>7 DEF RecordRefusal, MaybeSettle, Settle, LogError
  <2>3. failures' \in 0 .. failures
    BY <1>7, WorksTyped, BreaksTyped DEF RecordRefusal, Works
  <2>4. QED
    BY <1>1, <1>2, <1>7, <2>1, <2>2, <2>3, TaskMoves DEF RecordRefusal
<1>8. QED
  BY <1>3, <1>4, <1>5, <1>6, <1>7 DEF TaskStep

LEMMA PanicInv == MainInv /\ Panic => MainInv'
<1> SUFFICES ASSUME MainInv, Panic PROVE MainInv'
  OBVIOUS
<1>1. panics' \in 0 .. panics /\ failures' \in 0 .. failures
  BY WorksTyped, ProcessorMainAssumption DEF Panic, MainInv, MainTypeOK
<1>2. /\ task.pc # "none" /\ task'.pc = "dead"
      /\ task' \in [pc : TaskPCs, conn : BOOLEAN, reply : {"none", "ok", "error"}]
  BY DEF Panic, Running, MainInv, MainTypeOK, TaskPCs
<1>3. QED
  BY <1>1, <1>2, TaskMoves DEF Panic, kafkaVars, outcomeVars

-----------------------------------------------------------------------------
(* main *)

\* A step of the shutdown sequence other than the last one.
LEMMA StoppingMoves ==
    ASSUME MainInv,
           UNCHANGED <<kafkaVars, outcomeVars, consumer, task, failures, panics>>,
           terminations' \in 0 .. MaxTerminations,
           stopping' \subseteq ShutdownSteps,
           "cancel" \in stopping', "exit" \in stopping' => "exit" \in stopping
    PROVE  MainInv'
<1> USE DEF MainInv, kafkaVars, outcomeVars
<1>1. MainTypeOK'
  BY DEF MainTypeOK
<1>2. HandOK' /\ TaskOK' /\ StoppingOK'
  BY DEF HandOK, TaskOK, StoppingOK, Handled, Clean, Decided, Cancelled, Exited, Began
<1>3. PassedHandled' /\ PassedClean'
  BY DEF PassedHandled, PassedClean, GoesOn, Handled, Clean, Decided, Cancelled, Began
<1>4. NothingVanishes' /\ ShutdownLosesNothing'
  BY DEF NothingVanishes, ShutdownLosesNothing, Decided
<1>5. QED
  BY <1>1, <1>2, <1>3, <1>4

\* The process ends.
LEMMA EndMoves ==
    ASSUME MainInv,
           UNCHANGED <<kafkaVars, outcomeVars, failures, panics>>,
           terminations' \in 0 .. MaxTerminations,
           stopping' = ShutdownSteps,
           consumer' = [Starting(0) EXCEPT !.pc = "stopped"],
           task' = NoTask
    PROVE  MainInv'
<1> USE DEF MainInv, kafkaVars, outcomeVars
<1>1. consumer' = [pc |-> "stopped", next |-> 0, current |-> 0]
  BY DEF Starting
<1>2. MainTypeOK'
  BY <1>1, TopicTyped DEF MainTypeOK, NoTask, TaskPCs, ConsumerPCs
<1>3. HandOK' /\ TaskOK' /\ StoppingOK'
  BY <1>1 DEF HandOK, TaskOK, StoppingOK, Undecided, NoTask, Cancelled, Exited, Began, ShutdownSteps
<1>4. PassedHandled' /\ PassedClean'
  BY <1>1 DEF PassedHandled, PassedClean
<1>5. NothingVanishes' /\ ShutdownLosesNothing'
  BY DEF NothingVanishes, ShutdownLosesNothing, Decided
<1>6. QED
  BY <1>2, <1>3, <1>4, <1>5

\* The next life starts behind what the offset has passed, which is handled.
LEMMA StartInv == MainInv /\ Start => MainInv'
<1> SUFFICES ASSUME MainInv, Start PROVE MainInv'
  OBVIOUS
<1> USE DEF MainInv, Start, kafkaVars, outcomeVars, budgetVars
<1>1. consumer' = [pc |-> "loop", next |-> committed, current |-> 0]
  BY DEF Starting
<1>2. MainTypeOK'
  BY <1>1, TopicTyped DEF MainTypeOK, ConsumerPCs
<1>3. consumer.pc = "stopped" /\ task.pc = "none"
  BY DEF StoppingOK, TaskOK, MainTypeOK, TaskPCs
<1>4. HandOK' /\ TaskOK' /\ StoppingOK'
  BY <1>1, <1>3 DEF HandOK, TaskOK, StoppingOK, Undecided, Exited, Began
<1>5. PassedHandled' /\ PassedClean'
  BY <1>1 DEF PassedHandled, PassedClean, NothingVanishes, ShutdownLosesNothing, Handled, Clean, Decided
<1>6. NothingVanishes' /\ ShutdownLosesNothing'
  BY DEF NothingVanishes, ShutdownLosesNothing, Decided
<1>7. QED
  BY <1>2, <1>4, <1>5, <1>6

LEMMA SignalInv == MainInv /\ Signal => MainInv'
<1> SUFFICES ASSUME MainInv, Signal PROVE MainInv'
  OBVIOUS
<1>1. terminations' \in 0 .. MaxTerminations
  BY ProcessorMainAssumption DEF Signal, MainInv, MainTypeOK
<1>2. QED
  BY <1>1, StoppingMoves DEF Signal, ShutdownSteps

LEMMA ShutdownStepInv == MainInv /\ ShutdownStep => MainInv'
<1> SUFFICES ASSUME MainInv, ShutdownStep PROVE MainInv'
  OBVIOUS
<1>1. terminations \in 0 .. MaxTerminations /\ stopping \subseteq ShutdownSteps
  BY DEF MainInv, MainTypeOK
<1>2. ASSUME NEW step \in ShutdownSteps \ {"exit"}, NEW before, Begin(step, before)
      PROVE  MainInv'
  <2>1. "cancel" \in stopping
    BY <1>2 DEF Begin, Began, MainInv, StoppingOK, Cancelled
  <2>2. QED
    BY <1>1, <1>2, <2>1, StoppingMoves DEF Begin, budgetVars
<1>3. CASE Exit
  BY <1>1, <1>3, EndMoves DEF Exit, budgetVars
<1>4. CASE ReleasePool \/ WaitForServices \/ CloseDLQ \/ CloseConsumer \/ ClosePostgres
  BY <1>2, <1>4
  DEF ReleasePool, WaitForServices, CloseDLQ, CloseConsumer, ClosePostgres, ShutdownSteps
<1>5. QED
  BY <1>3, <1>4 DEF ShutdownStep

LEMMA CrashInv == MainInv /\ Crash => MainInv'
<1> SUFFICES ASSUME MainInv, Crash PROVE MainInv'
  OBVIOUS
<1>1. terminations' \in 0 .. MaxTerminations
  BY ProcessorMainAssumption DEF Crash, MainInv, MainTypeOK
<1>2. QED
  BY <1>1, EndMoves DEF Crash

-----------------------------------------------------------------------------
(* The theorems *)

\* MainInv holds in every reachable state of the process.
THEOREM MainInvariance == MainSpec => []MainInv
<1>1. MainInv /\ [MainNext]_mainVars => MainInv'
  <2> SUFFICES ASSUME MainInv, [MainNext]_mainVars PROVE MainInv'
    OBVIOUS
  <2>1. CASE ConsumerStep
    BY <2>1, LoopInv, FetchInv, DeadLetterInv, SubmitInv, TakeReplyInv, CommitOffsetInv DEF ConsumerStep
  <2>2. CASE TaskStep \/ Panic
    BY <2>2, TaskStepInv, PanicInv
  <2>3. CASE Signal \/ ShutdownStep \/ Crash \/ Start
    BY <2>3, SignalInv, ShutdownStepInv, CrashInv, StartInv
  <2>4. CASE UNCHANGED mainVars
    BY <2>4, StutterInv
  <2>5. QED
    BY <2>1, <2>2, <2>3, <2>4 DEF MainNext
<1>2. QED
  BY InitInv, <1>1, PTL DEF MainSpec

\* The values of the process stay in their sets; in particular only requests are
\* settled and only malformed messages are dead letters (transaction_event_handler.go:37).
THEOREM MainTypeCorrect == MainSpec => []MainTypeOK
<1>1. MainInv => MainTypeOK
  BY DEF MainInv
<1>2. QED
  BY MainInvariance, <1>1, PTL

\* Whatever fails, panics, is stopped or crashes, and however often, no committed
\* message has disappeared in silence (consumer.go:81-94).
THEOREM NothingVanishesEver == MainSpec => []NothingVanishes
<1>1. MainInv => NothingVanishes
  BY DEF MainInv
<1>2. QED
  BY MainInvariance, <1>1, PTL

\* Without a failure, any number of shutdowns, crashes and panics lose no accepted
\* request and no malformed message (main.go:149-198).
THEOREM ShutdownIsSafe == MainSpec => []ShutdownLosesNothing
<1>1. MainInv => ShutdownLosesNothing
  BY DEF MainInv
<1>2. QED
  BY MainInvariance, <1>1, PTL
=============================================================================
