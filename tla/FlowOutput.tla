----------------------------- MODULE FlowOutput -----------------------------
(* The way of a closed flow's record out of the plugin: start of the plugin,   *)
(* the CLOSE branch of traffic_process on several packet threads, the shared   *)
(* Kafka producer, the bridges, and the end of the plugin.  The host starts    *)
(* packet threads only after a successful start and ends the plugin when none  *)
(* of them is in a handler.                                                    *)
EXTENDS KafkaProducer, StreamBridge

CONSTANT Configurations     \* the sets of outputs that a configuration turns on

Outputs == {"kafka", "sni", "features"}

ASSUME ConfigurationsAssumption == Configurations \subseteq SUBSET Outputs

VARIABLES phase,        \* of the plugin
          flags,        \* outputs the configuration turns on and that came up
          stage,        \* where each thread is in its stream
          closeAge      \* history: how long each record had waited when the plugin
                      \* ended, a settled one as long as any may

vars == <<kafkaVars, bridgeVars, phase, flags, stage, closeAge>>

Phases == {"new", "running", "flushing", "ended", "refused"}
Stages == {"open", "send", "bridge", "note", "free", "dropped", "closed"}

Init ==
    /\ KafkaInit /\ BridgeInit
    /\ phase = "new" /\ flags = {}
    /\ stage = [t \in Threads |-> "closed"]
    /\ closeAge = [r \in Records |-> 0]

\* feat_config_read: log, SNI bridge, feature bridge and Kafka come up one after
\* the other.  A failure of the log, of the SNI bridge (bridgesUp) or of Kafka
\* ends the start; a feature bridge without an identity is only logged.
Read(on, bridgesUp, featureId, result, topicMade) ==
    /\ phase = "new"
    /\ IF "kafka" \in on /\ bridgesUp
       THEN Bring(result, topicMade)
       ELSE UNCHANGED kafkaVars
    /\ phase' = IF bridgesUp /\ ("kafka" \in on => kafka' = "open")
                THEN "running" ELSE "refused"
    /\ flags' = IF featureId THEN on ELSE on \ {"features"}
    /\ UNCHANGED <<bridgeVars, stage, closeAge>>

StartPlugin ==
    \E on \in Configurations, result \in ConnectionResults :
      \E bridgesUp, featureId, topicMade \in BOOLEAN :
        Read(on, bridgesUp, featureId, result, topicMade)

Moves(t, from, to) == stage[t] = from /\ stage' = [stage EXCEPT ![t] = to]

OpenStream(t) ==
    /\ phase = "running"
    /\ Moves(t, "closed", "open") /\ NextStream(t)
    /\ UNCHANGED <<kafkaVars, phase, flags, closeAge>>

Hello(t) ==
    /\ stage[t] = "open" /\ "sni" \in flags /\ ClientHello(t)
    /\ UNCHANGED <<kafkaVars, phase, flags, stage, closeAge>>

\* CLOSE: the features are computed and printed; without memory, or with every
\* output off, the handler is done.
PrintRecord(t) ==
    /\ \/ Moves(t, "open", "dropped") /\ UNCHANGED <<kafkaVars, bridgeVars>>
       \/ /\ Moves(t, "open", IF "kafka" \in flags THEN "send" ELSE "bridge")
          /\ MakeJson(t)
          /\ IF "kafka" \in flags THEN StartSend(t) ELSE UNCHANGED kafkaVars
    /\ UNCHANGED <<phase, flags, closeAge>>

Send(t) ==
    /\ stage[t] = "send" /\ SendData(t)
    /\ UNCHANGED <<bridgeVars, phase, flags, stage, closeAge>>

\* A record that was not accepted is only logged.
Sent(t) ==
    /\ Return(t) /\ Moves(t, "send", "bridge")
    /\ UNCHANGED <<bridgeVars, phase, flags, closeAge>>

\* strdup may fail; a copy that was put on the bridge is read again for the log.
CopyToBridge(t) ==
    /\ \/ "features" \in flags /\ HandOver(t) /\ Moves(t, "bridge", "note")
       \/ UNCHANGED bridgeVars /\ Moves(t, "bridge", "free")
    /\ UNCHANGED <<kafkaVars, phase, flags, closeAge>>

NoteCopy(t) ==
    /\ Moves(t, "note", "free")
    /\ UNCHANGED <<kafkaVars, bridgeVars, phase, flags, closeAge>>

FreeRecord(t) ==
    /\ Moves(t, "free", "dropped") /\ FreeJson(t)
    /\ UNCHANGED <<kafkaVars, phase, flags, closeAge>>

HostCloses(t) ==
    /\ Moves(t, "dropped", "closed") /\ StreamClosed(t)
    /\ UNCHANGED <<kafkaVars, phase, flags, closeAge>>

CloseStep(t) ==
    \/ Send(t) \/ Sent(t) \/ CopyToBridge(t) \/ NoteCopy(t)
    \/ FreeRecord(t) \/ HostCloses(t)

Thread(t) == OpenStream(t) \/ Hello(t) \/ PrintRecord(t) \/ CloseStep(t)

\* The client library at work.
Client ==
    /\ Tick \/ \E r \in Records : Settle(r)
    /\ UNCHANGED <<bridgeVars, phase, flags, stage, closeAge>>

\* feat_config_destroy: a producer is deleted, after its flush.
EndPlugin ==
    /\ phase = "running" /\ \A t \in Threads : stage[t] = "closed"
    /\ IF "kafka" \in flags
       THEN /\ phase' = "flushing" /\ BeginFlush
            /\ closeAge' = [r \in Records |-> IF r \in Settled THEN MessageTimeout ELSE age[r]]
       ELSE phase' = "ended" /\ UNCHANGED <<kafkaVars, closeAge>>
    /\ UNCHANGED <<bridgeVars, flags, stage>>

Flush ==
    /\ phase = "flushing"
    /\ \/ FlushPoll /\ UNCHANGED phase
       \/ EndFlush /\ phase' = "ended"
    /\ UNCHANGED <<bridgeVars, flags, stage, closeAge>>

Next == StartPlugin \/ Client \/ EndPlugin \/ Flush \/ \E t \in Threads : Thread(t)

\* The library settles what it holds, a handler that began runs to its end, time
\* passes, and a flush that may return returns.  Nothing makes the host open or
\* close streams or end the plugin.
Fairness ==
    /\ \A r \in Records : WF_vars(Settle(r) /\ UNCHANGED <<bridgeVars, phase, flags, stage, closeAge>>)
    /\ \A t \in Threads : WF_vars(CloseStep(t))
    /\ WF_vars(Client) /\ WF_vars(Flush)

Spec == Init /\ [][Next]_vars /\ Fairness

-----------------------------------------------------------------------------
\* Types of all variables of the output stage.
OutputTypeOK ==
    /\ kafka \in {"null", "open"} /\ topic \in {"absent", "present"}
    /\ record \in [Records -> {"free", "queued", "lost", "untold"} \cup Outcomes]
    /\ age \in [Records -> 0 .. MessageTimeout]
    /\ closeAge \in [Records -> 0 .. MessageTimeout]
    /\ sending \in [Threads -> SendSteps]
    /\ flushLeft \in 0 .. FlushTimeout
    /\ heap \in [Threads -> SUBSET Strings]
    /\ bridge \in [Threads -> [Bridges -> Strings \cup {Nothing}]]
    /\ hellos \in [Threads -> 0 .. MaxHellos]
    /\ phase \in Phases /\ flags \in SUBSET Outputs /\ stage \in [Threads -> Stages]

\* The exporter keeps the promise of RecordFate: SendData comes to its end, and
\* never without the poll that tells all that is settled, whether its own record
\* was taken or refused; each accepted record is settled; never more than QueueMax
\* are open; and only the end of the plugin, when no thread is in SendData, drops
\* records or reports.
InSendData == {t \in Threads : sending[t] \notin {"no", "sent"}}
Promise == INSTANCE RecordFate WITH fate <- record, open <- (kafka = "open"),
                                    asked <- InSendData, Callers <- Threads
PromiseKept == Promise!Spec

\* topicHandleMap is shared without a lock: no thread may insert while another
\* looks up or inserts.  It holds because feat_config_read made the only entry.
Reads(t) == sending[t] \in {"lookup", "create"}
Writes(t) == sending[t] = "insert"
NoRacyTopicMap ==
    \A t, u \in Threads : t # u /\ Writes(t) => ~(Reads(u) \/ Writes(u))

\* The destructor gives up after FlushTimeout although a record may take
\* MessageTimeout: the records it loses, or never tells of, are those that had
\* waited no longer than the difference when it began.
LostWereRecent ==
    \A r \in Records : record[r] \in {"lost", "untold"} =>
        phase = "ended" /\ closeAge[r] + FlushTimeout <= MessageTimeout

\* A full queue does not stay full: as long as flows keep closing, SendData's
\* poll, which it reaches for refused records too, gives room again and again.
QueueDrains ==
    ([]<>(\E t \in Threads : sending[t] = "produce")) => []<>(Room \/ kafka = "null")

\* A string that is on a bridge, or that a handler still has to read, has not been
\* freed: the record until its end, the copy between the hand-over and its log
\* line, and whatever the host will free at the close of the stream.
StringsLive ==
    \A t \in Threads :
        /\ KeptBy(t, Bridges) \subseteq heap[t]
        /\ stage[t] \in {"send", "bridge", "note", "free"} => Json \in heap[t]
        /\ stage[t] = "note" => Copy \in heap[t]

\* The copy of the record for the feature bridge is freed by the time the host has
\* closed its stream, as the documentation of the bridge says.  It is not when the
\* bridge refuses it: nobody looks at the result of the put.
FeatureCopiesFreed ==
    \A t \in Threads : stage[t] = "closed" => Copy \notin heap[t]
=============================================================================
