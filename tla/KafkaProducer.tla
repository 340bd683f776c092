--------------------------- MODULE KafkaProducer ----------------------------
(* KafkaProducer.cpp: one producer shared by the packet threads without a      *)
(* lock.  The client library behind it (librdkafka) is external: a queue of    *)
(* records, each settled by a thread of the library within message.timeout.ms, *)
(* whose delivery reports wait until the caller polls and count against the    *)
(* queue's limit until then.                                                   *)
EXTENDS Naturals, FiniteSets, PacketThreads

CONSTANTS Records,          \* identities of queued records, used again
          QueueMax,         \* queue.buffering.max.messages (1000000 in the code)
          MessageTimeout,   \* message.timeout.ms, in ticks (10 s in the code)
          FlushTimeout      \* the destructor's rd_kafka_flush, in ticks (5 s)

ASSUME TimeoutsAssumption == MessageTimeout \in Nat /\ FlushTimeout \in Nat

VARIABLES kafka,        \* the client handle: "null", "open"
          topic,        \* the topic's entry in topicHandleMap: "absent", "present"
          record,       \* what became of each record
          age,          \* how long each queued record has waited
          sending,      \* where each thread is in SendData
          flushLeft     \* what is left of the destructor's flush

clientVars == <<kafka, topic, record, age, flushLeft>>
kafkaVars == <<clientVars, sending>>

SendSteps == {"no", "lookup", "create", "insert", "produce", "poll", "sent"}
Outcomes == {"delivered", "failed"}

Held == {r \in Records : record[r] = "queued"}
Settled == {r \in Records : record[r] \in Outcomes}
Outstanding == Held \cup Settled
Room == Cardinality(Outstanding) < QueueMax

Told == [r \in Records |-> IF r \in Settled THEN "free" ELSE record[r]]

KafkaInit ==
    /\ kafka = "null" /\ topic = "absent"
    /\ record = [r \in Records |-> "free"]
    /\ age = [r \in Records |-> 0]
    /\ sending = [t \in Threads |-> "no"]
    /\ flushLeft = 0

\* How KafkaConnection ends: connected, no handle (-1), no broker added (-2, the
\* handle stays and goes with the producer), metadata probe failed (-3).
ConnectionResults == {"connected", "no_handle", "no_broker", "probe_failed"}

\* The producer as feat_config_read leaves it: connected and with its topic, or
\* deleted again because one of the two failed.
BringWithoutTopic(result, topicMade) ==
    /\ kafka = "null"
    /\ IF result = "connected"
       THEN kafka' = "open" /\ UNCHANGED topic
       ELSE UNCHANGED <<kafka, topic>>
    /\ UNCHANGED <<record, age, sending, flushLeft>>

Bring(result, topicMade) ==
    /\ kafka = "null"
    /\ IF result = "connected" /\ topicMade
       THEN kafka' = "open" /\ topic' = "present"
       ELSE UNCHANGED <<kafka, topic>>
    /\ UNCHANGED <<record, age, sending, flushLeft>>

Goes(t, from, to) == sending[t] = from /\ sending' = [sending EXCEPT ![t] = to]

StartSend(t) ==
    /\ Goes(t, "no", IF kafka = "open" THEN "lookup" ELSE "sent")
    /\ UNCHANGED clientVars

LookUp(t) ==
    /\ Goes(t, "lookup", IF topic = "present" THEN "produce" ELSE "create")
    /\ UNCHANGED clientVars

\* CreateTopicHandle looks the name up once more, makes a handle and probes the
\* broker for up to 3 s, whose answer it only prints.
CreateTopic(t) ==
    /\ \/ topic = "present" /\ Goes(t, "create", "produce")
       \/ topic = "absent" /\ \E next \in {"insert", "sent"} : Goes(t, "create", next)
    /\ UNCHANGED clientVars

InsertTopic(t) ==
    /\ Goes(t, "insert", "produce")
    /\ topic' = "present"
    /\ UNCHANGED <<kafka, record, age, flushLeft>>

Enqueued(r) ==
    /\ record[r] = "free"
    /\ record' = [record EXCEPT ![r] = "queued"]
    /\ UNCHANGED age

\* rd_kafka_produce copies the payload onto the queue or refuses it; either way
\* SendData goes on to poll.
AfterProduceOrLeave(accepted) == IF accepted THEN "poll" ELSE "sent"
AfterProduce(accepted) == "poll"

Produce(t) ==
    /\ \/ Room /\ (\E r \in Records : Enqueued(r)) /\ Goes(t, "produce", AfterProduce(TRUE))
       \/ Goes(t, "produce", AfterProduce(FALSE)) /\ UNCHANGED <<record, age>>
    /\ UNCHANGED <<kafka, topic, flushLeft>>

\* rd_kafka_poll(kafka, 0) runs the report callback for all that is settled.
Poll(t) ==
    /\ Goes(t, "poll", "sent")
    /\ record' = Told
    /\ UNCHANGED <<kafka, topic, age, flushLeft>>

Return(t) == Goes(t, "sent", "no") /\ UNCHANGED clientVars

\* SendData of thread t; the caller takes its result with Return.
SendData(t) ==
    LookUp(t) \/ CreateTopic(t) \/ InsertTopic(t) \/ Produce(t) \/ Poll(t)

-----------------------------------------------------------------------------
\* The client library.

Settle(r) ==
    /\ record[r] = "queued"
    /\ \E outcome \in Outcomes : record' = [record EXCEPT ![r] = outcome]
    /\ age' = [age EXCEPT ![r] = 0]
    /\ UNCHANGED <<kafka, topic, sending, flushLeft>>

\* Time cannot pass a queued record's timeout: it fails first.  Nor does it pass
\* in a flush that has something to tell: the flush polls while it waits.
Tick ==
    /\ Held # {} \/ flushLeft > 0
    /\ flushLeft > 0 => Settled = {}
    /\ \A r \in Held : age[r] < MessageTimeout
    /\ age' = [r \in Records |-> IF r \in Held THEN age[r] + 1 ELSE age[r]]
    /\ flushLeft' = IF flushLeft > 0 THEN flushLeft - 1 ELSE 0
    /\ UNCHANGED <<kafka, topic, record, sending>>

-----------------------------------------------------------------------------
\* The destructor: flush, destroy the topic handles, destroy the client.

NoFlushTicks == 0
LongFlushTicks == FlushTimeout + 1
FlushTicks == FlushTimeout

BeginFlush ==
    /\ kafka = "open"
    /\ flushLeft' = FlushTicks
    /\ UNCHANGED <<kafka, topic, record, age, sending>>

FlushPoll ==
    /\ Settled # {}
    /\ record' = Told
    /\ UNCHANGED <<kafka, topic, age, sending, flushLeft>>

\* The flush is over when nothing is outstanding or its time is up; what is
\* queued then is dropped with the client, and so is a report not yet told.
EndFlush ==
    /\ Outstanding = {} \/ flushLeft = 0
    /\ record' = [r \in Records |-> IF r \in Held THEN "lost"
                                    ELSE IF r \in Settled THEN "untold" ELSE "free"]
    /\ kafka' = "null" /\ topic' = "absent"
    /\ age' = [r \in Records |-> 0]
    /\ flushLeft' = 0
    /\ UNCHANGED sending
=============================================================================
