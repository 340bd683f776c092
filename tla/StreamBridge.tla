---------------------------- MODULE StreamBridge ----------------------------
(* The strings a stream's handlers make and hand to other plugins.  The bridge *)
(* of the host is external: a stream keeps one pointer per bridge, a put may   *)
(* be refused, a later put replaces the pointer, and when the stream closes    *)
(* the host calls the bridge's free callback for the pointer it keeps.         *)
(* feat_config_read registers that callback for the SNI bridge.  For the       *)
(* feature bridge, whose identity it takes from the traffic framework, the     *)
(* registration is compiled out: it has a callback only if the plugin that     *)
(* built it registered one.                                                    *)
EXTENDS Naturals, PacketThreads

CONSTANTS MaxHellos,    \* ClientHellos of a stream that carry an SNI
          Callbacks     \* the bridges for which a free callback is registered

Bridges == {"sni", "features"}

ASSUME MaxHellosAssumption == MaxHellos \in Nat
ASSUME CallbacksAssumption == Callbacks \subseteq Bridges

VARIABLES heap,         \* the strings of each stream that are allocated
          bridge,       \* the string each bridge of a stream keeps
          hellos        \* SNIs made so far

bridgeVars == <<heap, bridge, hellos>>

Sni(n) == <<"sni", n>>
Json == <<"json", 0>>
Copy == <<"copy", 0>>
Nothing == <<"none", 0>>
Strings == {Json, Copy} \cup {Sni(n) : n \in 1 .. MaxHellos}

BridgeInit ==
    /\ heap = [t \in Threads |-> {}]
    /\ bridge = [t \in Threads |-> [b \in Bridges |-> Nothing]]
    /\ hellos = [t \in Threads |-> 0]

Allocate(t, s) == heap' = [heap EXCEPT ![t] = @ \cup {s}]
Free(t, s) == heap' = [heap EXCEPT ![t] = @ \ {s}]
Keep(t, b, s) == bridge' = [bridge EXCEPT ![t] = [@ EXCEPT ![b] = s]]

\* The SNI entry of TLS or QUIC on a hello with a name: a string that the bridge
\* refuses is freed again.
ReleasedIfRefused(t, s) == heap[t]

ClientHello(t) ==
    /\ hellos[t] < MaxHellos
    /\ LET s == Sni(hellos[t] + 1) IN
       /\ hellos' = [hellos EXCEPT ![t] = @ + 1]
       /\ \/ UNCHANGED <<heap, bridge>>                         \* no memory
          \/ Allocate(t, s) /\ Keep(t, "sni", s)
          \/ /\ heap' = [heap EXCEPT ![t] = ReleasedIfRefused(t, s)]
             /\ UNCHANGED bridge

\* cJSON_PrintUnformatted makes the record.
MakeJson(t) == Allocate(t, Json) /\ UNCHANGED <<bridge, hellos>>

\* The copy for the feature bridge, which takes it or refuses it: the result of
\* the put is ignored.
HandOverAndFree(t) ==
    /\ Keep(t, "features", Copy) \/ UNCHANGED bridge
    /\ UNCHANGED <<heap, hellos>>

HandOver(t) ==
    /\ Allocate(t, Copy)
    /\ Keep(t, "features", Copy) \/ UNCHANGED bridge
    /\ UNCHANGED hellos

FreeJson(t) == Free(t, Json) /\ UNCHANGED <<bridge, hellos>>

\* The host closes the stream and calls the callbacks there are.
KeptBy(t, bridges) == {bridge[t][b] : b \in bridges} \ {Nothing}

StreamClosed(t) ==
    /\ heap' = [heap EXCEPT ![t] = @ \ KeptBy(t, Callbacks)]
    /\ bridge' = [bridge EXCEPT ![t] = [b \in Bridges |-> Nothing]]
    /\ UNCHANGED hellos

\* The next stream of the thread.
NextStream(t) ==
    /\ heap' = [heap EXCEPT ![t] = {}]
    /\ hellos' = [hellos EXCEPT ![t] = 0]
    /\ UNCHANGED bridge
=============================================================================
