------------------------ MODULE TransactionProcessor ------------------------
(***************************************************************************)
(* The transaction processor as it is deployed: the request topic (one     *)
(* partition) and the consumer group of the instances (KafkaConsumer), in   *)
(* front of the calls of ProcessTransaction and the outbox pollers (module  *)
(* Publication); with crashes, restarts and rebalances of the group.        *)
(***************************************************************************)
EXTENDS Publication

CONSTANTS
    MaxCopies,       \* bound on the copies of a request the producer may append
    MaxDisruptions   \* bound on crashes plus rebalances away from a live owner

ASSUME ProcessorAssumption == MaxCopies \in Nat \ {0} /\ MaxDisruptions \in Nat

VARIABLES
    topic,       \* the messages of the partition; the one at offset n is topic[n + 1]
    committed,   \* the committed offset of the consumer group
    owner,       \* the instance the partition is assigned to
    reader,      \* per instance: is it up, the next offset to fetch, the offset in hand
    disruptions  \* disruptions that may still happen

groupVars == <<topic, committed, owner, reader, disruptions>>
vars == <<request, accounts, rowLock, outbox, ledger, faults, worker, poller, delivered,
          topic, committed, owner, reader, disruptions>>

Copies(t) == Cardinality({n \in DOMAIN topic : topic[n] = t})

ReaderRecords == [up : BOOLEAN, next : Nat, current : Nat]

-----------------------------------------------------------------------------

\* The gateway's producer: asynchronous, so a request may be lost (it is never
\* published) or, after a retry of the write, appended more than once.
Publish(t) ==
    /\ Copies(t) < MaxCopies
    /\ topic' = Append(topic, t)
    /\ UNCHANGED <<storeVars, worker, poller, delivered, committed, owner, reader, disruptions>>

\* A consumer that commits when it reads (kafka.Reader.ReadMessage).
ReadMessage(i) ==
    /\ reader[i].up /\ owner = i
    /\ reader[i].next < Len(topic)
    /\ Receive(i, topic[reader[i].next + 1])
    /\ reader' = [reader EXCEPT ![i].next = @ + 1, ![i].current = reader[i].next]
    /\ committed' = reader[i].next + 1
    /\ UNCHANGED <<topic, owner, disruptions>>

\* FetchMessage returns the next message, which goes to the handler and, when
\* it is a request, on to ProcessTransaction.
FetchMessage(i) ==
    /\ reader[i].up /\ owner = i
    /\ reader[i].next < Len(topic)
    /\ Receive(i, topic[reader[i].next + 1])
    /\ reader' = [reader EXCEPT ![i].next = @ + 1, ![i].current = reader[i].next]
    /\ UNCHANGED <<topic, committed, owner, disruptions>>

\* The handler returned an error: the loop leaves the offset uncommitted and
\* goes on with the next message.
SkipMessage(i) ==
    /\ worker[i].result = "error"
    /\ TakeResult(i)
    /\ UNCHANGED <<poller, delivered, groupVars>>

\* The handler returned nil: CommitMessages sets the group's offset.  An error
\* is only logged.  Kafka checks the member, not who owns the partition, so the
\* commit of an instance that lost the partition meanwhile may be accepted too.
CommitMessage(i) ==
    /\ worker[i].result = "ok"
    /\ \/ TakeResult(i) /\ committed' = reader[i].current + 1
       \/ owner # i /\ TakeResult(i) /\ UNCHANGED committed
       \/ /\ worker[i].pc = "done" /\ Fails
          /\ worker' = [worker EXCEPT ![i] = IdleWorker]
          /\ UNCHANGED <<request, accounts, rowLock, outbox, ledger, committed>>
    /\ UNCHANGED <<poller, delivered, topic, owner, reader, disruptions>>

-----------------------------------------------------------------------------

\* The process dies; the memory of its reader is gone as well.
Crash(i) ==
    /\ disruptions > 0 /\ disruptions' = disruptions - 1
    /\ reader[i].up
    /\ reader' = [reader EXCEPT ![i] = [up |-> FALSE, next |-> 0, current |-> 0]]
    /\ owner' = IF owner = i THEN NoInstance ELSE owner
    /\ Die(i)
    /\ UNCHANGED <<topic, committed>>

Restart(i) ==
    /\ ~reader[i].up
    /\ reader' = [reader EXCEPT ![i].up = TRUE]
    /\ UNCHANGED <<storeVars, worker, poller, delivered, topic, committed, owner, disruptions>>

\* A reader that starts at the end of the topic, and one that skips a message.
AssignAtEnd(i) ==
    /\ reader[i].up /\ owner = NoInstance
    /\ owner' = i
    /\ reader' = [reader EXCEPT ![i].next = Len(topic)]
    /\ UNCHANGED <<storeVars, worker, poller, delivered, topic, committed, disruptions>>
AssignAfterCommitted(i) ==
    /\ reader[i].up /\ owner = NoInstance
    /\ owner' = i
    /\ reader' = [reader EXCEPT ![i].next = committed + 1]
    /\ UNCHANGED <<storeVars, worker, poller, delivered, topic, committed, disruptions>>

\* The group assigns the free partition to a live instance, whose reader starts
\* at the committed offset.
Assign(i) ==
    /\ reader[i].up /\ owner = NoInstance
    /\ owner' = i
    /\ reader' = [reader EXCEPT ![i].next = committed]
    /\ UNCHANGED <<storeVars, worker, poller, delivered, topic, committed, disruptions>>

\* The group takes the partition away from a live instance, which goes on with
\* the message it has in hand.
Revoke ==
    /\ owner # NoInstance
    /\ disruptions > 0 /\ disruptions' = disruptions - 1
    /\ owner' = NoInstance
    /\ UNCHANGED <<storeVars, worker, poller, delivered, topic, committed, reader>>

-----------------------------------------------------------------------------

Init ==
    /\ PublicationInit
    /\ topic = <<>>
    /\ committed = 0
    /\ owner = NoInstance
    /\ reader = [i \in Instances |-> [up |-> TRUE, next |-> 0, current |-> 0]]
    /\ disruptions = MaxDisruptions

ProcessorStep(i) == CallStep(i) /\ UNCHANGED groupVars

PollStep(i) == reader[i].up /\ Poll(i) /\ UNCHANGED groupVars

AfterMessage(i) == SkipMessage(i) \/ CommitMessage(i)

Next ==
    \/ \E t \in TxIds : Publish(t)
    \/ \E i \in Instances :
        \/ FetchMessage(i) \/ ProcessorStep(i) \/ AfterMessage(i) \/ PollStep(i)
        \/ Crash(i) \/ Restart(i) \/ Assign(i)
    \/ Revoke

Spec == Init /\ [][Next]_vars

\* The loop of the consumer, in a process that is restarted after a crash.
ConsumerStep(i) == FetchMessage(i) \/ ProcessorStep(i) \/ AfterMessage(i) \/ Restart(i)

\* Consumers run, pollers tick, and the group assigns a free partition to some live
\* instance.  A call waiting for a row lock proceeds only while the row is free:
\* nothing stronger is needed, since no row is locked again and again for ever.
\* Nothing obliges a statement to fail, a client to submit a request or an
\* instance to crash.
Fairness ==
    /\ \A i \in Instances :
         WF_vars(ConsumerStep(i) /\ Succeeds) /\ WF_vars(PollStep(i) /\ Succeeds)
    /\ WF_vars(\E i \in Instances : Assign(i))

FairSpec == Spec /\ Fairness

-----------------------------------------------------------------------------
(* Properties *)

TypeOK ==
    /\ PublicationTypeOK
    /\ topic \in Seq(TxIds)
    /\ committed \in 0 .. Len(topic)
    /\ owner \in Instances \cup {NoInstance}
    /\ reader \in [Instances -> ReaderRecords]
    /\ \A i \in Instances : reader[i].next <= Len(topic)
    /\ disruptions \in 0 .. MaxDisruptions

\* No message is passed by the committed offset before its request is settled
\* (consumer.go:90): whichever instance commits it, after whatever crash.
NoRequestLost == \A n \in 1 .. committed : Settled(topic[n])

\* As long as no statement fails, every request that reaches the topic is settled
\* in the end and shown by the ledger, and its outbox row, if any, is published,
\* after crashes, rebalances and duplicates, although the consumer never goes back
\* by itself (consumer.go:56-109).  With a retry budget of one attempt, a poller
\* that meets another one's document would give the row up.
EventuallyReported ==
    \A t \in TxIds :
        Copies(t) > 0 ~> \/ faults < MaxFaults
                         \/ HasEntry(t) /\ outbox[t].status \in {"ABSENT", "PROCESSED"}

\* Every row is published or given up in the end, whatever fails or crashes: also
\* when the statement that was to end the retries fails, or the process dies before
\* it, and the row is left with a spent budget (poller.go:97-113).
RetriesEnd ==
    \A t \in TxIds :
        HasRow(t) ~> outbox[t].status \in {"PROCESSED", "FAILED_TO_PUBLISH"}
=============================================================================
