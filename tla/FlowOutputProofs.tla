-------------------------- MODULE FlowOutputProofs --------------------------
(* Proofs about FlowOutput, for every number of threads, records, hellos   *)
(* and ticks: types, the unlocked topic map, what the end of the plugin    *)
(* may lose, the strings of the streams, and that the exporter implements  *)
(* RecordFate.                                                             *)
EXTENDS FlowOutput, Integers, TLAPS

(* The types, by the module that keeps them.                               *)
KafkaTypes ==
  /\ kafka \in {"null", "open"} /\ topic \in {"absent", "present"}
  /\ record \in [Records -> {"free", "queued", "lost", "untold"} \cup Outcomes]
  /\ age \in [Records -> 0 .. MessageTimeout]
  /\ flushLeft \in 0 .. FlushTimeout
  /\ sending \in [Threads -> SendSteps]
BridgeTypes ==
  /\ heap \in [Threads -> SUBSET Strings]
  /\ bridge \in [Threads -> [Bridges -> Strings \cup {Nothing}]]
  /\ hellos \in [Threads -> 0 .. MaxHellos]
StageTypes ==
  /\ closeAge \in [Records -> 0 .. MessageTimeout]
  /\ phase \in Phases /\ flags \in SUBSET Outputs /\ stage \in [Threads -> Stages]

LEMMA TypesByModule == OutputTypeOK <=> KafkaTypes /\ BridgeTypes /\ StageTypes
BY Zenon DEF OutputTypeOK, KafkaTypes, BridgeTypes, StageTypes

LEMMA KafkaTypesUnchanged ==
  ASSUME KafkaTypes, UNCHANGED kafkaVars PROVE KafkaTypes'
BY Zenon DEF KafkaTypes, kafkaVars, clientVars

LEMMA BridgeTypesUnchanged ==
  ASSUME BridgeTypes, UNCHANGED bridgeVars PROVE BridgeTypes'
BY Zenon DEF BridgeTypes, bridgeVars

(* What a record may become.                                               *)
LEMMA TimeoutsAreNat == 0 \in 0 .. MessageTimeout /\ 0 \in 0 .. FlushTimeout
BY TimeoutsAssumption, SMT

LEMMA ToldTypes ==
  ASSUME KafkaTypes PROVE Told \in [Records -> {"free", "queued", "lost", "untold"} \cup Outcomes]
BY DEF KafkaTypes, Told

LEMMA GoesTypes ==
  ASSUME KafkaTypes, NEW t \in Threads, NEW from, NEW to \in SendSteps, Goes(t, from, to)
  PROVE  sending' \in [Threads -> SendSteps]
BY DEF KafkaTypes, Goes

LEMMA SendDataTypes ==
  ASSUME KafkaTypes, NEW t \in Threads, SendData(t)
  PROVE  KafkaTypes'
<1>1. CASE LookUp(t)
  <2>1. UNCHANGED clientVars
    BY <1>1 DEF LookUp
  <2>2. sending' \in [Threads -> SendSteps]
    BY <1>1, GoesTypes DEF LookUp, SendSteps
  <2> QED BY <2>1, <2>2 DEF KafkaTypes, clientVars
<1>2. CASE CreateTopic(t)
  <2>1. UNCHANGED clientVars
    BY <1>2 DEF CreateTopic
  <2>2. sending' \in [Threads -> SendSteps]
    BY <1>2, GoesTypes DEF CreateTopic, SendSteps
  <2> QED BY <2>1, <2>2 DEF KafkaTypes, clientVars
<1>3. CASE InsertTopic(t)
  <2>1. sending' \in [Threads -> SendSteps]
    BY <1>3, GoesTypes DEF InsertTopic, SendSteps
  <2> QED BY <1>3, <2>1 DEF KafkaTypes, InsertTopic
<1>4. CASE Produce(t)
  <2>1. sending' \in [Threads -> SendSteps]
    BY <1>4, GoesTypes DEF Produce, AfterProduce, SendSteps
  <2>2. record' \in [Records -> {"free", "queued", "lost", "untold"} \cup Outcomes] /\ UNCHANGED age
    BY <1>4 DEF KafkaTypes, Produce, Enqueued
  <2> QED BY <1>4, <2>1, <2>2 DEF KafkaTypes, Produce
<1>5. CASE Poll(t)
  <2>1. sending' \in [Threads -> SendSteps]
    BY <1>5, GoesTypes DEF Poll, SendSteps
  <2> QED BY <1>5, <2>1, ToldTypes DEF KafkaTypes, Poll
<1> QED BY <1>1, <1>2, <1>3, <1>4, <1>5 DEF SendData

LEMMA SettleTypes ==
  ASSUME KafkaTypes, NEW r \in Records, Settle(r)
  PROVE  KafkaTypes'
BY TimeoutsAreNat DEF KafkaTypes, Settle, Outcomes

LEMMA TickTypes ==
  ASSUME KafkaTypes, Tick
  PROVE  KafkaTypes'
<1>1. age' \in [Records -> 0 .. MessageTimeout]
  <2>1. \A r \in Held : age[r] + 1 \in 0 .. MessageTimeout
    BY TimeoutsAssumption DEF KafkaTypes, Tick, Held
  <2> QED BY <2>1 DEF KafkaTypes, Tick
<1>2. flushLeft' \in 0 .. FlushTimeout
  BY TimeoutsAssumption DEF KafkaTypes, Tick
<1> QED BY <1>1, <1>2 DEF KafkaTypes, Tick

LEMMA EndFlushTypes ==
  ASSUME KafkaTypes, EndFlush
  PROVE  KafkaTypes'
BY TimeoutsAreNat DEF KafkaTypes, EndFlush

LEMMA FlushPollTypes ==
  ASSUME KafkaTypes, FlushPoll
  PROVE  KafkaTypes'
BY ToldTypes DEF KafkaTypes, FlushPoll

LEMMA BeginFlushTypes ==
  ASSUME KafkaTypes, BeginFlush
  PROVE  KafkaTypes'
BY TimeoutsAssumption DEF KafkaTypes, BeginFlush, FlushTicks

LEMMA StartSendTypes ==
  ASSUME KafkaTypes, NEW t \in Threads, StartSend(t)
  PROVE  KafkaTypes'
<1>1. sending' \in [Threads -> SendSteps]
  BY GoesTypes DEF StartSend, SendSteps
<1> QED BY <1>1 DEF KafkaTypes, StartSend, clientVars

LEMMA ReturnTypes ==
  ASSUME KafkaTypes, NEW t \in Threads, Return(t)
  PROVE  KafkaTypes'
<1>1. sending' \in [Threads -> SendSteps]
  BY GoesTypes DEF Return, SendSteps
<1> QED BY <1>1 DEF KafkaTypes, Return, clientVars

(* The strings of a thread's stream.                                       *)
LEMMA StringsAreStrings ==
  /\ Json \in Strings /\ Copy \in Strings
  /\ \A n \in 1 .. MaxHellos : Sni(n) \in Strings
BY DEF Strings

LEMMA ClientHelloTypes ==
  ASSUME BridgeTypes, NEW t \in Threads, ClientHello(t)
  PROVE  BridgeTypes'
<1> DEFINE s == Sni(hellos[t] + 1)
<1>1. hellos[t] + 1 \in 1 .. MaxHellos
  BY MaxHellosAssumption DEF BridgeTypes, ClientHello
<1>2. s \in Strings
  BY <1>1, StringsAreStrings
<1>3. hellos' \in [Threads -> 0 .. MaxHellos]
  <2>1. hellos[t] + 1 \in 0 .. MaxHellos
    BY <1>1, SMT
  <2>2. hellos' = [hellos EXCEPT ![t] = hellos[t] + 1]
    BY DEF ClientHello
  <2> QED BY <2>1, <2>2 DEF BridgeTypes
<1>4. \/ UNCHANGED <<heap, bridge>>
      \/ Allocate(t, s) /\ Keep(t, "sni", s)
      \/ heap' = [heap EXCEPT ![t] = ReleasedIfRefused(t, s)] /\ UNCHANGED bridge
  BY Zenon DEF ClientHello
<1> HIDE DEF s
<1>5. heap' \in [Threads -> SUBSET Strings]
  BY <1>2, <1>4 DEF BridgeTypes, Allocate, ReleasedIfRefused
<1>6. bridge' \in [Threads -> [Bridges -> Strings \cup {Nothing}]]
  BY <1>2, <1>4 DEF BridgeTypes, Keep
<1> QED BY <1>3, <1>5, <1>6 DEF BridgeTypes

LEMMA HandOverTypes ==
  ASSUME BridgeTypes, NEW t \in Threads, HandOver(t)
  PROVE  BridgeTypes'
<1>1. heap' \in [Threads -> SUBSET Strings]
  BY StringsAreStrings DEF BridgeTypes, HandOver, Allocate
<1>2. bridge' \in [Threads -> [Bridges -> Strings \cup {Nothing}]]
  <2>1. CASE UNCHANGED bridge
    BY <2>1 DEF BridgeTypes
  <2>2. CASE Keep(t, "features", Copy)
    <3> HIDE DEF Copy
    <3> QED BY <2>2, StringsAreStrings DEF BridgeTypes, Keep
  <2> QED BY <2>1, <2>2 DEF HandOver
<1>3. UNCHANGED hellos
  BY DEF HandOver
<1> QED BY <1>1, <1>2, <1>3 DEF BridgeTypes

LEMMA StreamTypes ==
  ASSUME BridgeTypes, NEW t \in Threads,
         NextStream(t) \/ MakeJson(t) \/ FreeJson(t) \/ StreamClosed(t)
  PROVE  BridgeTypes'
<1>1. CASE NextStream(t)
  BY <1>1, MaxHellosAssumption DEF BridgeTypes, NextStream
<1>2. CASE MakeJson(t)
  BY <1>2, StringsAreStrings DEF BridgeTypes, MakeJson, Allocate
<1>3. CASE FreeJson(t)
  BY <1>3 DEF BridgeTypes, FreeJson, Free
<1>4. CASE StreamClosed(t)
  BY <1>4 DEF BridgeTypes, StreamClosed, Bridges
<1> QED BY <1>1, <1>2, <1>3, <1>4

(* A step of a thread through its stream.                                  *)
LEMMA MovesTypes ==
  ASSUME StageTypes, NEW t \in Threads, NEW from, NEW to \in Stages, Moves(t, from, to),
         UNCHANGED <<phase, flags, closeAge>>
  PROVE  StageTypes'
BY DEF StageTypes, Moves

LEMMA StageTypesUnchanged ==
  ASSUME StageTypes, UNCHANGED <<phase, flags, stage, closeAge>> PROVE StageTypes'
BY Zenon DEF StageTypes

LEMMA ThreadTypes ==
  ASSUME OutputTypeOK, NEW t \in Threads, Thread(t)
  PROVE  OutputTypeOK'
<1> USE TypesByModule
<1>0. KafkaTypes /\ BridgeTypes /\ StageTypes
  OBVIOUS
<1>1. SUFFICES KafkaTypes' /\ BridgeTypes' /\ StageTypes'
  BY Zenon DEF OutputTypeOK, KafkaTypes, BridgeTypes, StageTypes
<1>2. CASE OpenStream(t)
  BY <1>0, <1>2, KafkaTypesUnchanged, StreamTypes, MovesTypes, Zenon DEF OpenStream, Stages
<1>3. CASE Hello(t)
  BY <1>0, <1>3, KafkaTypesUnchanged, ClientHelloTypes, StageTypesUnchanged, Zenon DEF Hello
<1>4. CASE PrintRecord(t)
  <2>1. StageTypes'
    BY <1>0, <1>4, MovesTypes DEF PrintRecord, Stages
  <2>2. BridgeTypes'
    BY <1>0, <1>4, StreamTypes, BridgeTypesUnchanged, Zenon DEF PrintRecord
  <2>3. KafkaTypes'
    BY <1>0, <1>4, StartSendTypes, KafkaTypesUnchanged, Zenon DEF PrintRecord
  <2> QED BY <2>1, <2>2, <2>3
<1>5. CASE Send(t)
  BY <1>0, <1>5, SendDataTypes, BridgeTypesUnchanged, StageTypesUnchanged, Zenon DEF Send
<1>6. CASE Sent(t)
  BY <1>0, <1>6, ReturnTypes, BridgeTypesUnchanged, MovesTypes, Zenon DEF Sent, Stages
<1>7. CASE CopyToBridge(t)
  <2>1. StageTypes'
    BY <1>0, <1>7, MovesTypes DEF CopyToBridge, Stages
  <2>2. BridgeTypes'
    BY <1>0, <1>7, HandOverTypes, BridgeTypesUnchanged, Zenon DEF CopyToBridge
  <2> QED BY <1>0, <1>7, <2>1, <2>2, KafkaTypesUnchanged, Zenon DEF CopyToBridge
<1>8. CASE NoteCopy(t)
  BY <1>0, <1>8, KafkaTypesUnchanged, BridgeTypesUnchanged, MovesTypes, Zenon
  DEF NoteCopy, Stages
<1>9. CASE FreeRecord(t)
  BY <1>0, <1>9, KafkaTypesUnchanged, StreamTypes, MovesTypes, Zenon DEF FreeRecord, Stages
<1>10. CASE HostCloses(t)
  BY <1>0, <1>10, KafkaTypesUnchanged, StreamTypes, MovesTypes, Zenon DEF HostCloses, Stages
<1> QED
  BY <1>2, <1>3, <1>4, <1>5, <1>6, <1>7, <1>8, <1>9, <1>10, Zenon DEF Thread, CloseStep

LEMMA StartTypes ==
  ASSUME OutputTypeOK, StartPlugin
  PROVE  OutputTypeOK'
<1>0. KafkaTypes /\ BridgeTypes /\ StageTypes
  BY TypesByModule
<1>1. PICK on \in Configurations, result \in ConnectionResults,
           bridgesUp \in BOOLEAN, featureId \in BOOLEAN, topicMade \in BOOLEAN :
             Read(on, bridgesUp, featureId, result, topicMade)
  BY Zenon DEF StartPlugin
<1>2. KafkaTypes'
  <2>1. CASE UNCHANGED kafkaVars
    BY <1>0, <2>1, KafkaTypesUnchanged
  <2>2. CASE Bring(result, topicMade)
    BY <1>0, <2>2 DEF KafkaTypes, Bring
  <2> QED BY <1>1, <2>1, <2>2 DEF Read
<1>3. BridgeTypes'
  BY <1>0, <1>1, BridgeTypesUnchanged, Zenon DEF Read
<1>4. StageTypes'
  BY <1>0, <1>1, ConfigurationsAssumption DEF StageTypes, Read, Phases
<1> QED BY <1>2, <1>3, <1>4, Zenon DEF OutputTypeOK, KafkaTypes, BridgeTypes, StageTypes

LEMMA NextTypes ==
  ASSUME OutputTypeOK, [Next]_vars
  PROVE  OutputTypeOK'
<1>0. KafkaTypes /\ BridgeTypes /\ StageTypes
  BY TypesByModule
<1>1. CASE StartPlugin
  BY <1>1, StartTypes
<1>2. CASE Client
  <2>1. KafkaTypes'
    BY <1>0, <1>2, TickTypes, SettleTypes, Zenon DEF Client
  <2>2. BridgeTypes' /\ StageTypes'
    BY <1>0, <1>2, BridgeTypesUnchanged, StageTypesUnchanged, Zenon DEF Client
  <2> QED BY <2>1, <2>2, Zenon DEF OutputTypeOK, KafkaTypes, BridgeTypes, StageTypes
<1>3. CASE EndPlugin
  <2>1. KafkaTypes'
    BY <1>0, <1>3, BeginFlushTypes, KafkaTypesUnchanged, Zenon DEF EndPlugin
  <2>2. BridgeTypes'
    BY <1>0, <1>3, BridgeTypesUnchanged, Zenon DEF EndPlugin
  <2>3. StageTypes'
    <3>1. phase' \in Phases /\ UNCHANGED <<flags, stage>>
      BY <1>3 DEF EndPlugin, Phases
    <3>2. closeAge' \in [Records -> 0 .. MessageTimeout]
      BY <1>0, <1>3, TimeoutsAssumption DEF EndPlugin, StageTypes, KafkaTypes
    <3> QED BY <1>0, <3>1, <3>2 DEF StageTypes
  <2> QED BY <2>1, <2>2, <2>3, Zenon DEF OutputTypeOK, KafkaTypes, BridgeTypes, StageTypes
<1>4. CASE Flush
  <2>1. KafkaTypes'
    BY <1>0, <1>4, FlushPollTypes, EndFlushTypes, Zenon DEF Flush
  <2>2. BridgeTypes'
    BY <1>0, <1>4, BridgeTypesUnchanged, Zenon DEF Flush
  <2>3. StageTypes'
    BY <1>0, <1>4 DEF Flush, StageTypes, Phases
  <2> QED BY <2>1, <2>2, <2>3, Zenon DEF OutputTypeOK, KafkaTypes, BridgeTypes, StageTypes
<1>5. ASSUME NEW t \in Threads, Thread(t) PROVE OutputTypeOK'
  BY <1>5, ThreadTypes
<1>6. CASE UNCHANGED vars
  BY <1>6, Zenon DEF vars, kafkaVars, clientVars, bridgeVars, OutputTypeOK
<1> QED BY <1>1, <1>2, <1>3, <1>4, <1>5, <1>6, Zenon DEF Next

LEMMA InitTypes == Init => OutputTypeOK
<1> SUFFICES ASSUME Init PROVE OutputTypeOK
  OBVIOUS
<1>1. KafkaTypes
  BY TimeoutsAreNat DEF Init, KafkaInit, KafkaTypes, SendSteps
<1>2. BridgeTypes
  BY MaxHellosAssumption DEF Init, BridgeInit, BridgeTypes
<1>3. StageTypes
  BY TimeoutsAreNat DEF Init, StageTypes, Phases, Stages
<1> QED BY <1>1, <1>2, <1>3, TypesByModule

(* The types of the output stage, whatever the threads and the client do.  *)
THEOREM OutputStaysTyped == Spec => []OutputTypeOK
<1>1. Init => OutputTypeOK
  BY InitTypes
<1>2. OutputTypeOK /\ [Next]_vars => OutputTypeOK'
  BY NextTypes
<1> QED BY <1>1, <1>2, PTL DEF Spec
-----------------------------------------------------------------------------
(* Where the plugin is and what the threads may be doing: a thread outside *)
(* running is between streams, a thread in SendData is at that stage of    *)
(* its stream, and whoever is past the test for the client has a client    *)
(* with its topic, so that nobody goes on to make one.                     *)
ThreadPlaces ==
  /\ phase # "running" => \A t \in Threads : stage[t] = "closed"
  /\ \A t \in Threads : sending[t] # "no" => stage[t] = "send"
  /\ \A t \in Threads : sending[t] \in {"no", "lookup", "produce", "poll", "sent"}
  /\ \A t \in Threads : sending[t] \in {"lookup", "produce", "poll"} => kafka = "open"
ClientPlaces ==
  /\ kafka = "open" <=> topic = "present"
  /\ phase = "new" => kafka = "null"
  /\ phase = "running" /\ "kafka" \in flags => kafka = "open"
  /\ phase = "flushing" => kafka = "open"

(* What has become of the records: before the start nothing, before the    *)
(* end nothing is lost; during the flush each record that is still queued  *)
(* has grown older by as much of the flush as is over, and one that has    *)
(* settled had room for as much.                                           *)
RecordPlaces ==
  /\ phase = "new" => \A r \in Records : record[r] = "free"
  /\ phase = "flushing" =>
       /\ \A r \in Held : age[r] + flushLeft >= closeAge[r] + FlushTimeout
       /\ \A r \in Settled : MessageTimeout + flushLeft >= closeAge[r] + FlushTimeout
  /\ LostWereRecent

OutputInv == OutputTypeOK /\ ThreadPlaces /\ ClientPlaces /\ RecordPlaces

LEMMA PlacesUnchanged ==
  ASSUME UNCHANGED <<kafka, topic, record, age, flushLeft, phase, flags, closeAge>>
  PROVE  /\ ClientPlaces => ClientPlaces'
         /\ RecordPlaces => RecordPlaces'
BY Zenon DEF ClientPlaces, RecordPlaces, LostWereRecent, Held, Settled

LEMMA ThreadPlacesUnchanged ==
  ASSUME ThreadPlaces, UNCHANGED <<kafka, sending, phase, stage>>
  PROVE  ThreadPlaces'
BY Zenon DEF ThreadPlaces

(* A thread that is not at the stage of SendData moves on.                 *)
LEMMA StageMoves ==
  ASSUME OutputTypeOK, ThreadPlaces, NEW t \in Threads, NEW from, NEW to,
         Moves(t, from, to), from # "send", from # "closed" \/ phase = "running",
         UNCHANGED <<kafka, sending, phase>>
  PROVE  ThreadPlaces'
BY DEF OutputTypeOK, ThreadPlaces, Moves

LEMMA StartPlaces ==
  ASSUME OutputInv, StartPlugin
  PROVE  ThreadPlaces' /\ ClientPlaces' /\ RecordPlaces'
<1>1. PICK on \in Configurations, result \in ConnectionResults,
           bridgesUp \in BOOLEAN, featureId \in BOOLEAN, topicMade \in BOOLEAN :
             Read(on, bridgesUp, featureId, result, topicMade)
  BY Zenon DEF StartPlugin
<1>2. /\ phase = "new" /\ UNCHANGED <<record, age, sending, flushLeft, stage, closeAge>>
      /\ phase' \in {"running", "refused"}
      /\ \/ kafka' = kafka /\ topic' = topic
         \/ kafka' = "open" /\ topic' = "present"
      /\ phase' = "running" /\ "kafka" \in on => kafka' = "open"
      /\ flags' \subseteq on
  BY <1>1 DEF Read, Bring, kafkaVars, clientVars
<1>3. ThreadPlaces'
  BY <1>2 DEF OutputInv, ThreadPlaces
<1>4. ClientPlaces'
  BY <1>2 DEF OutputInv, ClientPlaces
<1>5. RecordPlaces'
  BY <1>2 DEF OutputInv, RecordPlaces, LostWereRecent
<1> QED BY <1>3, <1>4, <1>5

LEMMA ClientStepPlaces ==
  ASSUME OutputInv, Client
  PROVE  ThreadPlaces' /\ ClientPlaces' /\ RecordPlaces'
<1>1. UNCHANGED <<kafka, topic, sending, phase, flags, stage, closeAge>>
  BY Zenon DEF Client, Tick, Settle
<1>2. ThreadPlaces' /\ ClientPlaces'
  BY <1>1 DEF OutputInv, ThreadPlaces, ClientPlaces
<1>3. CASE Tick
  <2>1. UNCHANGED record
    BY <1>3 DEF Tick
  <2>2. ASSUME phase = "flushing", NEW r \in Held
        PROVE  age'[r] + flushLeft' >= closeAge[r] + FlushTimeout
    <3>1. age'[r] = age[r] + 1
      BY <1>3, <2>2 DEF Tick, Held
    <3>2. flushLeft' >= flushLeft - 1 /\ flushLeft' \in Int
      BY <1>3 DEF Tick, OutputInv, OutputTypeOK
    <3>3. age[r] + flushLeft >= closeAge[r] + FlushTimeout
      BY <2>2 DEF OutputInv, RecordPlaces
    <3>4. age[r] \in Int /\ closeAge[r] \in Int /\ flushLeft \in Int /\ FlushTimeout \in Int
      BY <2>2, TimeoutsAssumption DEF OutputInv, OutputTypeOK, Held
    <3> QED BY <3>1, <3>2, <3>3, <3>4, SMT
  <2>3. flushLeft' # flushLeft => Settled = {}
    BY <1>3 DEF Tick, OutputInv, OutputTypeOK
  <2>4. Settled' = Settled
    BY <2>1 DEF Settled
  <2>5. RecordPlaces'
    BY <1>1, <2>1, <2>2, <2>3, <2>4 DEF OutputInv, RecordPlaces, LostWereRecent, Held
  <2> QED BY <1>2, <2>5
<1>4. ASSUME NEW r \in Records, Settle(r) PROVE RecordPlaces'
  <2>1. /\ record[r] = "queued" /\ record'[r] \in Outcomes /\ UNCHANGED flushLeft
        /\ \A s \in Records \ {r} : record'[s] = record[s] /\ age'[s] = age[s]
    BY <1>4 DEF Settle, OutputInv, OutputTypeOK
  <2>2. ASSUME phase = "flushing"
        PROVE  /\ age[r] + flushLeft >= closeAge[r] + FlushTimeout
               /\ age[r] \in 0 .. MessageTimeout /\ closeAge[r] \in Int
               /\ flushLeft \in Int /\ FlushTimeout \in Int /\ MessageTimeout \in Int
    BY <2>1, <2>2, TimeoutsAssumption DEF OutputInv, OutputTypeOK, RecordPlaces, Held
  <2>3. ASSUME phase = "flushing"
        PROVE  MessageTimeout + flushLeft >= closeAge[r] + FlushTimeout
    BY <2>2, <2>3, SMT
  <2> QED
    BY <1>1, <2>1, <2>3
    DEF Outcomes, OutputInv, RecordPlaces, LostWereRecent, Held, Settled
<1> QED BY <1>2, <1>3, <1>4 DEF Client

LEMMA EndPlaces ==
  ASSUME OutputInv, EndPlugin
  PROVE  ThreadPlaces' /\ ClientPlaces' /\ RecordPlaces'
<1>1. ThreadPlaces'
  BY DEF EndPlugin, OutputInv, ThreadPlaces, BeginFlush, kafkaVars, clientVars
<1>2. ClientPlaces'
  BY DEF EndPlugin, OutputInv, ClientPlaces, BeginFlush, kafkaVars, clientVars
<1>3. CASE "kafka" \in flags
  <2>1. /\ phase = "running" /\ phase' = "flushing" /\ flushLeft' = FlushTimeout
        /\ closeAge' = [r \in Records |-> IF r \in Settled THEN MessageTimeout ELSE age[r]]
        /\ UNCHANGED <<record, age>>
    BY <1>3 DEF EndPlugin, BeginFlush, FlushTicks
  <2>2. \A r \in Held : age[r] \in Int /\ r \notin Settled /\ r \in Records
    BY DEF OutputInv, OutputTypeOK, Held, Settled, Outcomes
  <2>3. \A r \in Records : record[r] \notin {"lost", "untold"}
    BY <2>1 DEF OutputInv, RecordPlaces, LostWereRecent
  <2>4. \A r \in Settled : closeAge'[r] = MessageTimeout
    BY <2>1 DEF Settled
  <2>5. RecordPlaces'
    BY <2>1, <2>2, <2>3, <2>4, TimeoutsAssumption
    DEF RecordPlaces, LostWereRecent, Held, Settled
  <2> QED BY <1>1, <1>2, <2>5
<1>4. CASE "kafka" \notin flags
  <2>1. phase = "running" /\ phase' = "ended" /\ UNCHANGED record
    BY <1>4 DEF EndPlugin, kafkaVars, clientVars
  <2>2. \A r \in Records : record[r] \notin {"lost", "untold"}
    BY <2>1 DEF OutputInv, RecordPlaces, LostWereRecent
  <2>3. RecordPlaces'
    BY <2>1, <2>2 DEF RecordPlaces, LostWereRecent
  <2> QED BY <1>1, <1>2, <2>3
<1> QED BY <1>1, <1>2, <1>3, <1>4

LEMMA FlushPlaces ==
  ASSUME OutputInv, Flush
  PROVE  ThreadPlaces' /\ ClientPlaces' /\ RecordPlaces'
<1>1. phase = "flushing" /\ UNCHANGED <<flags, stage, closeAge>>
  BY DEF Flush
<1>2. \A t \in Threads : stage[t] = "closed" /\ sending[t] = "no"
  BY <1>1 DEF OutputInv, ThreadPlaces
<1>3. CASE FlushPoll /\ UNCHANGED phase
  <2>1. UNCHANGED <<kafka, topic, sending, age, flushLeft>> /\ record' = Told
    BY <1>3 DEF FlushPoll
  <2>2. ThreadPlaces' /\ ClientPlaces'
    BY <1>1, <1>3, <2>1 DEF OutputInv, ThreadPlaces, ClientPlaces
  <2>3. RecordPlaces'
    BY <1>1, <1>3, <2>1
    DEF OutputInv, RecordPlaces, LostWereRecent, Held, Told, Settled, Outcomes
  <2> QED BY <2>2, <2>3
<1>4. CASE EndFlush /\ phase' = "ended"
  <2>1. ThreadPlaces' /\ ClientPlaces'
    BY <1>1, <1>2, <1>4 DEF OutputInv, ThreadPlaces, ClientPlaces, EndFlush
  <2>2. ASSUME NEW r \in Records, record'[r] \in {"lost", "untold"}
        PROVE  closeAge[r] + FlushTimeout <= MessageTimeout
    <3>1. r \in Outstanding
      BY <1>4, <2>2 DEF EndFlush, Outstanding
    <3>2. flushLeft = 0
      BY <1>4, <3>1 DEF EndFlush
    <3>3. \/ age[r] + flushLeft >= closeAge[r] + FlushTimeout
          \/ MessageTimeout + flushLeft >= closeAge[r] + FlushTimeout
      BY <1>1, <3>1 DEF OutputInv, RecordPlaces, Outstanding
    <3>4. age[r] \in 0 .. MessageTimeout /\ closeAge[r] \in Int
          /\ FlushTimeout \in Int /\ MessageTimeout \in Int
      BY <2>2, TimeoutsAssumption DEF OutputInv, OutputTypeOK
    <3> QED BY <3>2, <3>3, <3>4, SMT
  <2>3. RecordPlaces'
    BY <1>1, <1>4, <2>2 DEF RecordPlaces, LostWereRecent
  <2> QED BY <2>1, <2>3
<1> QED BY <1>3, <1>4 DEF Flush

(* SendData, whose steps that would make a topic are never reached.        *)
LEMMA SendPlaces ==
  ASSUME OutputInv, NEW t \in Threads, Send(t)
  PROVE  ThreadPlaces' /\ ClientPlaces' /\ RecordPlaces'
<1>1. stage[t] = "send" /\ phase = "running"
  BY DEF Send, OutputInv, ThreadPlaces
<1>2. UNCHANGED <<phase, flags, stage, closeAge>>
  BY DEF Send
<1>3. CASE LookUp(t)
  <2>1. topic = "present"
    BY <1>3 DEF LookUp, Goes, OutputInv, ThreadPlaces, ClientPlaces
  <2>2. UNCHANGED clientVars /\ Goes(t, "lookup", "produce")
    BY <1>3, <2>1 DEF LookUp
  <2>3. ThreadPlaces'
    BY <1>2, <2>2 DEF OutputInv, OutputTypeOK, ThreadPlaces, Goes, clientVars
  <2> QED BY <1>2, <2>2, <2>3, PlacesUnchanged DEF OutputInv, clientVars
<1>4. ~CreateTopic(t) /\ ~InsertTopic(t)
  BY DEF CreateTopic, InsertTopic, Goes, OutputInv, ThreadPlaces
<1>5. CASE Produce(t)
  <2>1. /\ Goes(t, "produce", "poll") /\ UNCHANGED <<kafka, topic, flushLeft>>
        /\ \A r \in Records : record'[r] \in {record[r], "queued"}
    BY <1>5 DEF Produce, AfterProduce, Enqueued, OutputInv, OutputTypeOK
  <2>2. ThreadPlaces'
    BY <1>2, <2>1 DEF OutputInv, OutputTypeOK, ThreadPlaces, Goes
  <2>3. ClientPlaces'
    BY <1>2, <2>1 DEF OutputInv, ClientPlaces
  <2>4. RecordPlaces'
    BY <1>1, <1>2, <2>1 DEF OutputInv, RecordPlaces, LostWereRecent
  <2> QED BY <2>2, <2>3, <2>4
<1>6. CASE Poll(t)
  <2>1. /\ Goes(t, "poll", "sent") /\ UNCHANGED <<kafka, topic, age, flushLeft>>
        /\ \A r \in Records : record'[r] \in {record[r], "free"}
    BY <1>6 DEF Poll, Told
  <2>2. ThreadPlaces'
    BY <1>2, <2>1 DEF OutputInv, OutputTypeOK, ThreadPlaces, Goes
  <2>3. ClientPlaces'
    BY <1>2, <2>1 DEF OutputInv, ClientPlaces
  <2>4. RecordPlaces'
    BY <1>1, <1>2, <2>1 DEF OutputInv, RecordPlaces, LostWereRecent
  <2> QED BY <2>2, <2>3, <2>4
<1> QED BY <1>3, <1>4, <1>5, <1>6 DEF Send, SendData

LEMMA ThreadStepPlaces ==
  ASSUME OutputInv, NEW t \in Threads, Thread(t)
  PROVE  ThreadPlaces' /\ ClientPlaces' /\ RecordPlaces'
<1>0. OutputTypeOK /\ ThreadPlaces /\ ClientPlaces /\ RecordPlaces
  BY DEF OutputInv
<1>1. CASE Send(t)
  BY <1>1, SendPlaces
<1>2. CASE PrintRecord(t)
  <2>1. stage[t] = "open" /\ phase = "running" /\ sending[t] = "no"
    BY <1>0, <1>2 DEF PrintRecord, Moves, ThreadPlaces
  <2>2. UNCHANGED <<clientVars, phase, flags, closeAge>>
    BY <1>2, Zenon DEF PrintRecord, StartSend, kafkaVars, clientVars
  <2>3. CASE UNCHANGED sending
    <3>1. stage' = [stage EXCEPT ![t] = stage'[t]]
      BY <1>0, <1>2 DEF PrintRecord, Moves, OutputTypeOK
    <3> QED BY <1>0, <2>1, <2>2, <2>3, <3>1, PlacesUnchanged DEF ThreadPlaces, OutputTypeOK, clientVars
  <2>4. CASE "kafka" \in flags /\ StartSend(t) /\ Moves(t, "open", "send")
    <3>1. kafka = "open"
      BY <1>0, <2>1, <2>4 DEF ClientPlaces
    <3>2. ThreadPlaces'
      BY <1>0, <2>1, <2>2, <2>4, <3>1
      DEF ThreadPlaces, StartSend, Goes, Moves, OutputTypeOK, clientVars
    <3> QED BY <1>0, <2>2, <3>2, PlacesUnchanged DEF clientVars
  <2> QED BY <1>2, <2>3, <2>4 DEF PrintRecord, kafkaVars
<1>3. CASE Sent(t)
  <2>1. UNCHANGED <<clientVars, phase, flags, closeAge>>
    BY <1>3, Zenon DEF Sent, Return
  <2>2. phase = "running"
    BY <1>0, <1>3 DEF Sent, Moves, ThreadPlaces
  <2>3. ThreadPlaces'
    BY <1>0, <1>3, <2>1, <2>2 DEF Sent, Return, Goes, Moves, ThreadPlaces, OutputTypeOK, clientVars
  <2> QED BY <1>0, <2>1, <2>3, PlacesUnchanged DEF clientVars
<1>4. CASE Hello(t)
  BY <1>0, <1>4, PlacesUnchanged, ThreadPlacesUnchanged, Zenon DEF Hello, kafkaVars, clientVars
<1>5. CASE OpenStream(t) \/ CopyToBridge(t) \/ NoteCopy(t) \/ FreeRecord(t) \/ HostCloses(t)
  <2>1. UNCHANGED <<kafkaVars, phase, flags, closeAge>>
    BY <1>5, Zenon DEF OpenStream, CopyToBridge, NoteCopy, FreeRecord, HostCloses
  <2>2. \E from \in Stages, to \in Stages :
          Moves(t, from, to) /\ from # "send" /\ (from # "closed" \/ phase = "running")
    BY <1>5 DEF OpenStream, CopyToBridge, NoteCopy, FreeRecord, HostCloses, Stages
  <2>3. ThreadPlaces'
    BY <1>0, <2>1, <2>2, StageMoves DEF kafkaVars, clientVars
  <2> QED BY <1>0, <2>1, <2>3, PlacesUnchanged DEF kafkaVars, clientVars
<1> QED BY <1>1, <1>2, <1>3, <1>4, <1>5, Zenon DEF Thread, CloseStep

LEMMA InvInit == Init => OutputInv
BY InitTypes
DEF Init, KafkaInit, OutputInv, ThreadPlaces, ClientPlaces, RecordPlaces, LostWereRecent

LEMMA InvNext == OutputInv /\ [Next]_vars => OutputInv'
<1> SUFFICES ASSUME OutputInv, [Next]_vars PROVE OutputInv'
  OBVIOUS
<1>1. OutputTypeOK'
  BY NextTypes DEF OutputInv
<1>2. ThreadPlaces' /\ ClientPlaces' /\ RecordPlaces'
  <2>1. CASE UNCHANGED vars
    BY <2>1, PlacesUnchanged, ThreadPlacesUnchanged, Zenon
    DEF vars, kafkaVars, clientVars, OutputInv
  <2> QED
    BY <2>1, StartPlaces, ClientStepPlaces, EndPlaces, FlushPlaces, ThreadStepPlaces, Zenon
    DEF Next
<1> QED BY <1>1, <1>2 DEF OutputInv

LEMMA InvAlways == Spec => []OutputInv
BY InvInit, InvNext, PTL DEF Spec

(* The topic map is never written while another thread may use it: in      *)
(* traffic it is never written at all.                                     *)
THEOREM TopicMapIsNotRaced == Spec => []NoRacyTopicMap
<1>1. OutputInv => NoRacyTopicMap
  BY DEF OutputInv, ThreadPlaces, NoRacyTopicMap, Writes
<1> QED BY <1>1, InvAlways, PTL

(* Only records that had waited no longer than the two timeouts differ are *)
(* lost when the plugin ends.                                              *)
THEOREM OnlyRecentAreLost == Spec => []LostWereRecent
<1>1. OutputInv => LostWereRecent
  BY DEF OutputInv, RecordPlaces
<1> QED BY <1>1, InvAlways, PTL
-----------------------------------------------------------------------------
(* What the strings of a stream are for: bridge and record keep their own, *)
(* whatever is on a bridge is allocated, and a handler has the strings it still *)
(* needs.                                                                  *)
RecordStages == {"send", "bridge", "note", "free"}
Kept(t) == KeptBy(t, Bridges)

SoundStrings(t) ==
  /\ bridge[t]["sni"] \in {Sni(n) : n \in 1 .. hellos[t]} \cup {Nothing}
  /\ bridge[t]["features"] \in {Copy, Nothing}
  /\ Kept(t) \subseteq heap[t]
  /\ stage[t] \in RecordStages => Json \in heap[t]
  /\ stage[t] = "note" => Copy \in heap[t]
  /\ stage[t] = "closed" => Kept(t) = {}

StringInv == OutputTypeOK /\ \A t \in Threads : SoundStrings(t)

(* The strings are told apart by their kinds.                              *)
LEMMA StringsDiffer ==
  /\ Json # Copy /\ Json # Nothing /\ Copy # Nothing
  /\ \A n : Sni(n) # Json /\ Sni(n) # Copy /\ Sni(n) # Nothing
  /\ \A m, n : Sni(m) = Sni(n) => m = n
BY DEF Json, Copy, Nothing, Sni

LEMMA KeptPair ==
  \A t : /\ Kept(t) = {bridge[t]["sni"], bridge[t]["features"]} \ {Nothing}
        /\ Kept(t)' = {bridge'[t]["sni"], bridge'[t]["features"]} \ {Nothing}
BY DEF Kept, KeptBy, Bridges

(* A stream is not disturbed by what other threads do.                     *)
LEMMA OthersKeepStrings ==
  ASSUME NEW t \in Threads, NEW u \in Threads, OutputTypeOK, u # t, Thread(t)
  PROVE  SoundStrings(u) => SoundStrings(u)'
<1>1. /\ heap'[u] = heap[u] /\ bridge'[u] = bridge[u] /\ hellos'[u] = hellos[u]
      /\ stage'[u] = stage[u]
  <2>1. /\ \A v : heap' = [heap EXCEPT ![t] = v] => heap'[u] = heap[u]
        /\ \A v : bridge' = [bridge EXCEPT ![t] = v] => bridge'[u] = bridge[u]
        /\ \A v : hellos' = [hellos EXCEPT ![t] = v] => hellos'[u] = hellos[u]
        /\ \A v : stage' = [stage EXCEPT ![t] = v] => stage'[u] = stage[u]
    BY DEF OutputTypeOK
  <2>2. CASE Send(t) \/ Sent(t) \/ NoteCopy(t) \/ OpenStream(t)
    BY <2>1, <2>2, Zenon DEF Send, Sent, NoteCopy, OpenStream, NextStream, Moves, bridgeVars
  <2>3. CASE Hello(t)
    BY <2>1, <2>3, Zenon DEF Hello, ClientHello, Allocate, Keep
  <2>4. CASE PrintRecord(t)
    BY <2>1, <2>4, Zenon DEF PrintRecord, MakeJson, Allocate, Moves, bridgeVars
  <2>5. CASE CopyToBridge(t)
    BY <2>1, <2>5, Zenon DEF CopyToBridge, HandOver, Allocate, Keep, Moves, bridgeVars
  <2>6. CASE FreeRecord(t) \/ HostCloses(t)
    BY <2>1, <2>6, Zenon DEF FreeRecord, HostCloses, FreeJson, Free, StreamClosed, Moves
  <2> QED BY <2>2, <2>3, <2>4, <2>5, <2>6, Zenon DEF Thread, CloseStep
<1> QED BY <1>1, Zenon DEF SoundStrings, Kept, KeptBy

LEMMA HelloStrings ==
  ASSUME OutputTypeOK, NEW t \in Threads, SoundStrings(t), Hello(t)
  PROVE  SoundStrings(t)'
<1> DEFINE s == Sni(hellos[t] + 1)
<1>1. /\ stage[t] = "open" /\ UNCHANGED stage
      /\ hellos'[t] = hellos[t] + 1 /\ hellos[t] \in Nat
  BY DEF Hello, ClientHello, OutputTypeOK
<1>2. CASE UNCHANGED <<heap, bridge>>
  BY <1>1, <1>2 DEF SoundStrings, Kept, KeptBy
<1>3. CASE Allocate(t, s) /\ Keep(t, "sni", s)
  <2>1. /\ heap'[t] = heap[t] \cup {s}
        /\ bridge'[t]["sni"] = s /\ bridge'[t]["features"] = bridge[t]["features"]
    BY <1>3 DEF Allocate, Keep, OutputTypeOK, Bridges
  <2>2. s \in {Sni(n) : n \in 1 .. hellos'[t]}
    BY <1>1
  <2>3. s # Nothing
    BY StringsDiffer
  <2> HIDE DEF s
  <2>4. Kept(t)' = {s, bridge[t]["features"]} \ {Nothing}
    BY <2>1, KeptPair
  <2>5. Kept(t) = {bridge[t]["sni"], bridge[t]["features"]} \ {Nothing}
    BY KeptPair
  <2> QED BY <1>1, <2>1, <2>2, <2>3, <2>4, <2>5 DEF SoundStrings, RecordStages
<1>4. CASE heap' = [heap EXCEPT ![t] = ReleasedIfRefused(t, s)] /\ UNCHANGED bridge
  <2>1. heap'[t] = heap[t] /\ bridge' = bridge
    BY <1>4 DEF ReleasedIfRefused, OutputTypeOK
  <2> QED BY <1>1, <2>1 DEF SoundStrings, Kept, KeptBy
<1> QED BY <1>2, <1>3, <1>4 DEF Hello, ClientHello

LEMMA HandOverStrings ==
  ASSUME OutputTypeOK, NEW t \in Threads, SoundStrings(t), CopyToBridge(t)
  PROVE  SoundStrings(t)'
<1>1. CASE UNCHANGED bridgeVars /\ Moves(t, "bridge", "free")
  <2>1. stage[t] = "bridge" /\ stage'[t] = "free" /\ UNCHANGED <<heap, bridge, hellos>>
    BY <1>1 DEF Moves, OutputTypeOK, bridgeVars
  <2> QED BY <2>1 DEF SoundStrings, Kept, KeptBy, RecordStages
<1>2. CASE HandOver(t) /\ Moves(t, "bridge", "note")
  <2>1. /\ stage[t] = "bridge" /\ stage'[t] = "note" /\ UNCHANGED hellos
        /\ heap'[t] = heap[t] \cup {Copy}
    BY <1>2 DEF Moves, HandOver, Allocate, OutputTypeOK
  <2>2. CASE Keep(t, "features", Copy)
    <3>1. bridge'[t]["features"] = Copy /\ bridge'[t]["sni"] = bridge[t]["sni"]
      BY <2>2 DEF Keep, OutputTypeOK, Bridges
    <3>2. Kept(t)' = {bridge[t]["sni"], Copy} \ {Nothing}
      BY <3>1, KeptPair
    <3>3. Kept(t) \subseteq Kept(t)' /\ Copy \in Kept(t)'
      BY <3>2, KeptPair, StringsDiffer DEF SoundStrings
    <3> QED BY <2>1, <3>1, <3>2, <3>3, KeptPair DEF SoundStrings, RecordStages
  <2>3. CASE UNCHANGED bridge
    <3> QED BY <2>1, <2>3 DEF SoundStrings, Kept, KeptBy, RecordStages
  <2> QED BY <1>2, <2>2, <2>3 DEF HandOver
<1> QED BY <1>1, <1>2 DEF CopyToBridge

LEMMA ThreadStrings ==
  ASSUME OutputTypeOK, NEW t \in Threads, SoundStrings(t), Thread(t)
  PROVE  SoundStrings(t)'
<1>1. CASE OpenStream(t)
  <2>1. /\ stage[t] = "closed" /\ stage'[t] = "open" /\ UNCHANGED bridge
        /\ heap'[t] = {} /\ hellos'[t] = 0
    BY <1>1 DEF OpenStream, Moves, NextStream, OutputTypeOK
  <2>2. Kept(t) = {} /\ Kept(t)' = {}
    BY <2>1 DEF SoundStrings, Kept, KeptBy
  <2>3. bridge[t]["sni"] = Nothing
    BY <2>2, KeptPair
  <2> QED BY <2>1, <2>2, <2>3 DEF SoundStrings, RecordStages
<1>2. CASE Hello(t)
  BY <1>2, HelloStrings
<1>3. CASE PrintRecord(t)
  <2>1. /\ stage[t] = "open" /\ UNCHANGED <<bridge, hellos>>
        /\ \/ stage'[t] = "dropped" /\ heap' = heap
           \/ stage'[t] \in {"send", "bridge"} /\ heap'[t] = heap[t] \cup {Json}
    BY <1>3 DEF PrintRecord, Moves, MakeJson, Allocate, OutputTypeOK, bridgeVars
  <2> QED BY <2>1 DEF SoundStrings, Kept, KeptBy, RecordStages
<1>4. CASE Send(t)
  BY <1>4, Zenon DEF Send, SoundStrings, Kept, KeptBy, bridgeVars
<1>5. CASE Sent(t)
  <2>1. stage[t] = "send" /\ stage'[t] = "bridge" /\ UNCHANGED <<heap, bridge, hellos>>
    BY <1>5 DEF Sent, Moves, OutputTypeOK, bridgeVars
  <2> QED BY <2>1 DEF SoundStrings, Kept, KeptBy, RecordStages
<1>6. CASE CopyToBridge(t)
  BY <1>6, HandOverStrings
<1>7. CASE NoteCopy(t)
  <2>1. stage[t] = "note" /\ stage'[t] = "free" /\ UNCHANGED <<heap, bridge, hellos>>
    BY <1>7 DEF NoteCopy, Moves, OutputTypeOK, bridgeVars
  <2> QED BY <2>1 DEF SoundStrings, Kept, KeptBy, RecordStages
<1>8. CASE FreeRecord(t)
  <2>1. /\ stage[t] = "free" /\ stage'[t] = "dropped" /\ UNCHANGED <<bridge, hellos>>
        /\ heap'[t] = heap[t] \ {Json}
    BY <1>8 DEF FreeRecord, FreeJson, Free, Moves, OutputTypeOK
  <2>2. Kept(t)' = Kept(t)
    BY <2>1 DEF Kept, KeptBy
  <2>3. bridge[t]["sni"] # Json /\ bridge[t]["features"] # Json
    BY StringsDiffer DEF SoundStrings
  <2>4. Json \notin Kept(t)
    BY <2>3, KeptPair
  <2> QED BY <2>1, <2>2, <2>4 DEF SoundStrings, RecordStages
<1>9. CASE HostCloses(t)
  <2>1. /\ stage[t] = "dropped" /\ stage'[t] = "closed" /\ UNCHANGED hellos
        /\ heap'[t] \subseteq heap[t]
        /\ bridge'[t]["sni"] = Nothing /\ bridge'[t]["features"] = Nothing
    BY <1>9 DEF HostCloses, StreamClosed, Moves, OutputTypeOK, Bridges
  <2>2. Kept(t)' = {}
    BY <2>1, KeptPair
  <2> QED BY <2>1, <2>2 DEF SoundStrings, RecordStages
<1> QED
  BY <1>1, <1>2, <1>3, <1>4, <1>5, <1>6, <1>7, <1>8, <1>9, Zenon DEF Thread, CloseStep

LEMMA StringsAlways == Spec => []StringInv
<1>1. Init => StringInv
  <2> SUFFICES ASSUME Init, NEW t \in Threads PROVE SoundStrings(t)
    BY InitTypes DEF StringInv
  <2>1. /\ heap[t] = {} /\ stage[t] = "closed"
        /\ bridge[t]["sni"] = Nothing /\ bridge[t]["features"] = Nothing
    BY DEF Init, BridgeInit, Bridges
  <2>2. Kept(t) = {}
    BY <2>1, KeptPair
  <2> QED BY <2>1, <2>2 DEF SoundStrings, RecordStages
<1>2. StringInv /\ [Next]_vars => StringInv'
  <2> SUFFICES ASSUME StringInv, [Next]_vars, NEW u \in Threads PROVE SoundStrings(u)'
    BY NextTypes DEF StringInv
  <2>1. ASSUME NEW t \in Threads, Thread(t) PROVE SoundStrings(u)'
    BY <2>1, OthersKeepStrings, ThreadStrings DEF StringInv
  <2>2. CASE UNCHANGED <<bridgeVars, stage>>
    <3>1. UNCHANGED <<heap, bridge, hellos, stage>>
      BY <2>2 DEF bridgeVars
    <3>2. SoundStrings(u)
      BY DEF StringInv
    <3> QED BY <3>1, <3>2, Zenon DEF SoundStrings, Kept, KeptBy
  <2>3. StartPlugin \/ Client \/ EndPlugin \/ Flush \/ UNCHANGED vars
          => UNCHANGED <<bridgeVars, stage>>
    BY Zenon DEF StartPlugin, Read, Client, EndPlugin, Flush, vars
  <2> QED BY <2>1, <2>2, <2>3, Zenon DEF Next
<1> QED BY <1>1, <1>2, PTL DEF Spec

(* A string that is on a bridge, or is still to be read, is allocated, for *)
(* every number of threads and hellos.                                     *)
THEOREM StringsStayLive == Spec => []StringsLive
<1>1. StringInv => StringsLive
  BY Zenon DEF StringInv, SoundStrings, StringsLive, RecordStages, Kept
<1> QED BY <1>1, StringsAlways, PTL
-----------------------------------------------------------------------------
(* The output stage implements the safety part of RecordFate: every step   *)
(* opens the exporter, makes or answers an offer, accepts, settles or      *)
(* tells records, closes the exporter, or leaves all of them alone.        *)
LEMMA SendDataKeepsPromise ==
  ASSUME OutputInv, NEW t \in Threads, SendData(t)
  PROVE  [Promise!Next]_(Promise!vars)
<1>1. CASE LookUp(t)
  <2>1. topic = "present"
    BY <1>1 DEF LookUp, Goes, OutputInv, ThreadPlaces, ClientPlaces
  <2>2. UNCHANGED <<kafka, record>> /\ Goes(t, "lookup", "produce")
    BY <1>1, <2>1 DEF LookUp, clientVars
  <2>3. InSendData' = InSendData
    BY <2>2 DEF InSendData, Goes, OutputInv, OutputTypeOK
  <2> QED BY <2>2, <2>3 DEF Promise!vars
<1>2. ~CreateTopic(t) /\ ~InsertTopic(t)
  BY DEF CreateTopic, InsertTopic, Goes, OutputInv, ThreadPlaces
<1>3. CASE Produce(t)
  <2>1. kafka = "open" /\ UNCHANGED kafka /\ Goes(t, "produce", "poll")
    BY <1>3 DEF Produce, AfterProduce, Goes, OutputInv, ThreadPlaces
  <2>2. InSendData' = InSendData /\ t \in InSendData
    BY <2>1 DEF InSendData, Goes, OutputInv, OutputTypeOK
  <2>3. CASE UNCHANGED record
    BY <2>1, <2>2, <2>3 DEF Promise!vars
  <2>4. ASSUME NEW r \in Records, Room, Enqueued(r) PROVE Promise!Accept(r)
    <3>1. Promise!Held \cup Promise!Settled = Outstanding
      BY DEF Promise!Held, Promise!Settled, Outstanding, Held, Settled, Outcomes
    <3>2. Promise!Cardinality(Outstanding) = Cardinality(Outstanding)
      BY Zenon DEF Promise!Cardinality, Cardinality, IsFiniteSet, Promise!IsFiniteSet
    <3>3. Promise!Cardinality(Promise!Held \cup Promise!Settled) < QueueMax
      BY <2>4, <3>1, <3>2, Zenon DEF Room
    <3>4. InSendData # {}
      BY <2>2
    <3> QED BY <2>1, <2>2, <2>4, <3>3, <3>4, Zenon DEF Promise!Accept, Enqueued
  <2> QED BY <1>3, <2>3, <2>4, Zenon DEF Produce, Promise!Next
<1>4. CASE Poll(t)
  <2>1. kafka = "open" /\ UNCHANGED kafka /\ record' = Told /\ Goes(t, "poll", "sent")
    BY <1>4 DEF Poll, Goes, OutputInv, ThreadPlaces
  <2>2. InSendData' = InSendData \ {t} /\ t \in InSendData
    BY <2>1 DEF InSendData, Goes, OutputInv, OutputTypeOK
  <2>3. Promise!Told = Told
    BY DEF Promise!Told, Promise!Settled, Told, Settled, Outcomes
  <2>4. Promise!Answer(t)
    BY <2>1, <2>2, <2>3, Zenon DEF Promise!Answer
  <2> QED BY <2>4, Zenon DEF Promise!Next
<1> QED BY <1>1, <1>2, <1>3, <1>4 DEF SendData

(* A thread that is not in SendData between two steps of its handler.      *)
LEMMA OutsideSendData ==
  ASSUME OutputInv, NEW t \in Threads, Thread(t), ~Send(t)
  PROVE  [Promise!Next]_(Promise!vars)
<1>1. UNCHANGED <<kafka, record>>
  BY Zenon
  DEF Thread, CloseStep, OpenStream, Hello, PrintRecord, Sent, CopyToBridge, NoteCopy,
      FreeRecord, HostCloses, StartSend, Return, kafkaVars, clientVars
<1>2. CASE UNCHANGED sending
  BY <1>1, <1>2, Zenon DEF Promise!vars, InSendData
<1>3. CASE StartSend(t)
  <2>1. CASE kafka = "open"
    <3>1. t \notin InSendData /\ InSendData' = InSendData \cup {t}
      BY <1>3, <2>1 DEF StartSend, Goes, InSendData, OutputInv, OutputTypeOK
    <3>2. Promise!Offer(t)
      BY <1>1, <2>1, <3>1, Zenon DEF Promise!Offer
    <3> QED BY <3>2, Zenon DEF Promise!Next
  <2>2. CASE kafka # "open"
    <3>1. InSendData' = InSendData
      BY <1>3, <2>2 DEF StartSend, Goes, InSendData, OutputInv, OutputTypeOK
    <3> QED BY <1>1, <3>1, Zenon DEF Promise!vars
  <2> QED BY <2>1, <2>2
<1>4. CASE Return(t)
  <2>1. InSendData' = InSendData
    BY <1>4 DEF Return, Goes, InSendData, OutputInv, OutputTypeOK
  <2> QED BY <1>1, <2>1, Zenon DEF Promise!vars
<1>5. UNCHANGED sending \/ StartSend(t) \/ Return(t)
  BY Zenon
  DEF Thread, CloseStep, OpenStream, Hello, PrintRecord, Sent, CopyToBridge, NoteCopy,
      FreeRecord, HostCloses, kafkaVars, clientVars
<1> QED BY <1>2, <1>3, <1>4, <1>5

LEMMA StepKeepsPromise ==
  ASSUME OutputInv, [Next]_vars
  PROVE  [Promise!Next]_(Promise!vars)
<1>1. CASE StartPlugin
  <2>1. PICK on \in Configurations, result \in ConnectionResults,
             bridgesUp \in BOOLEAN, featureId \in BOOLEAN, topicMade \in BOOLEAN :
               Read(on, bridgesUp, featureId, result, topicMade)
    BY <1>1, Zenon DEF StartPlugin
  <2>2. /\ UNCHANGED <<record, sending>> /\ kafka = "null"
        /\ record = [r \in Records |-> "free"]
    BY <2>1 DEF Read, Bring, kafkaVars, clientVars, OutputInv, OutputTypeOK, ClientPlaces,
                RecordPlaces
  <2>3. kafka' \in {"null", "open"}
    BY NextTypes DEF OutputInv, OutputTypeOK
  <2>4. InSendData' = InSendData
    BY <2>2 DEF InSendData
  <2> QED BY <2>2, <2>3, <2>4 DEF Promise!Next, Promise!Open, Promise!Idle, Promise!vars
<1>2. CASE Client
  <2>1. UNCHANGED <<kafka, sending>>
    BY <1>2 DEF Client, Tick, Settle
  <2>2. InSendData' = InSendData
    BY <2>1 DEF InSendData
  <2>3. CASE Tick
    BY <2>1, <2>2, <2>3 DEF Tick, Promise!vars
  <2>4. ASSUME NEW r \in Records, Settle(r) PROVE Promise!Settle(r)
    BY <2>1, <2>2, <2>4 DEF Settle, Outcomes, Promise!Settle
  <2> QED BY <1>2, <2>3, <2>4, Zenon DEF Client, Promise!Next
<1>3. CASE EndPlugin
  <2>1. UNCHANGED <<kafka, record, sending>>
    BY <1>3, Zenon DEF EndPlugin, BeginFlush, kafkaVars, clientVars
  <2> QED BY <2>1, Zenon DEF Promise!vars, InSendData
<1>4. CASE Flush
  <2>1. kafka = "open"
    BY <1>4 DEF Flush, OutputInv, ClientPlaces
  <2>2. InSendData = {} /\ InSendData' = {}
    <3>1. \A t \in Threads : sending[t] = "no"
      BY <1>4 DEF Flush, OutputInv, ThreadPlaces
    <3>2. UNCHANGED sending
      BY <1>4 DEF Flush, FlushPoll, EndFlush
    <3> QED BY <3>1, <3>2 DEF InSendData
  <2>3. CASE FlushPoll
    <3>1. Promise!Told = Told
      BY DEF Promise!Told, Promise!Settled, Told, Settled, Outcomes
    <3>2. Promise!Tell
      BY <2>1, <2>2, <2>3, <3>1, Zenon DEF FlushPoll, Promise!Tell
    <3> QED BY <3>2, Zenon DEF Promise!Next
  <2>4. CASE EndFlush
    <3>1. Promise!Close
      BY <2>1, <2>2, <2>4
      DEF EndFlush, Promise!Close, Promise!Held, Promise!Settled, Held, Settled, Outcomes
    <3> QED BY <3>1, Zenon DEF Promise!Next
  <2> QED BY <1>4, <2>3, <2>4 DEF Flush
<1>5. ASSUME NEW t \in Threads, Thread(t) PROVE [Promise!Next]_(Promise!vars)
  BY <1>5, SendDataKeepsPromise, OutsideSendData DEF Send
<1>6. CASE UNCHANGED vars
  <2>1. UNCHANGED <<kafka, record, sending>>
    BY <1>6, Zenon DEF vars, kafkaVars, clientVars
  <2> QED BY <2>1, Zenon DEF Promise!vars, InSendData
<1> QED BY <1>1, <1>2, <1>3, <1>4, <1>5, <1>6, Zenon DEF Next

(* Every step of threads, client and host is one that RecordFate allows:   *)
(* no thread leaves SendData with something settled untold, no more than   *)
(* QueueMax records are open, and only the end of the plugin drops records *)
(* or reports: the safety part of PromiseKept.                             *)
THEOREM ExporterKeepsPromise ==
  Spec => Promise!Init /\ [][Promise!Next]_(Promise!vars)
<1>1. Init => Promise!Init
  BY DEF Init, KafkaInit, Promise!Init, Promise!Idle, InSendData
<1>2. OutputInv /\ [Next]_vars => [Promise!Next]_(Promise!vars)
  BY StepKeepsPromise
<1> QED BY <1>1, <1>2, InvAlways, PTL DEF Spec
=============================================================================
