-------------------------- MODULE FeatureSwitches --------------------------
(* The feature switches of src/src/feature_config.cpp: which data a packet *)
(* adds to a flow's state, and which sections of the record read them when *)
(* the flow closes.  The two sides are written in different files, each    *)
(* with tests of its own; this module puts them next to each other.  Data  *)
(* are the groups of fields of flow_feature_state_t that are filled        *)
(* together; the switch "enable_x" is written "x".                         *)
EXTENDS FiniteSets, TLC

CONSTANTS
  Configurations,   \* the sets of switches that the file may turn on
  Packets           \* the packets that may arrive

(* The master switches, each with the switches it governs: a section of    *)
(* the record for each.  burst is its own master.                          *)
Governs ==
  [ basic |-> {"basic_ratios", "basic_payload_dir", "basic_first_n", "basic_pkt_length"},
    iat |-> {"iat_stats", "iat_fwd_bwd", "iat_active", "iat_response"},
    burst |-> {"burst"},
    protocol |-> {"protocol_tcp_flags", "protocol_tcp_window", "protocol_ip",
                  "protocol_udp", "protocol_port"},
    payload |-> {"payload_size", "payload_content", "payload_hist",
                 "payload_magic", "payload_stats"},
    sequence |-> {"sequence_stats", "raw_sequences", "chunk_sequences", "rate_sequences"},
    fft |-> {"fft_global", "fft_fwd", "fft_bwd"},
    window |-> {"window_pkt", "window_byte"},
    behavior |-> {"behavior_basic", "behavior_pattern", "behavior_bitrate"} ]

Master == DOMAIN Governs
Section == UNION {Governs[m] : m \in Master}
Switch == Master \cup Section

(* A condition on the switches, as the sets of which one must be on.       *)
AnyOf(S) == {{s} : s \in S}
AllOf(S) == {S}
Holds(condition, on) == \E S \in condition : S \subseteq on

(* The flags that feat_config_read derives from the switches, given the    *)
(* sections it counts as readers of directions and of timestamps.          *)
NeedsFor(dirReaders, tsReaders) ==
  [ need_pkt_len_seq |-> AnyOf({"fft_global", "sequence_stats", "raw_sequences",
                                "chunk_sequences", "rate_sequences"}),
    need_dir_seq |-> AnyOf(dirReaders),
    need_ts_seq |-> AnyOf(tsReaders),
    need_l3_l4_payload_seq |-> AnyOf({"raw_sequences"}),
    need_fwd_bwd_pkt_lens |-> AnyOf({"basic_pkt_length", "fft_fwd", "fft_bwd"}),
    need_first_n |-> AllOf({"basic", "basic_first_n"}),
    need_payload_dir |-> AllOf({"basic", "basic_payload_dir"}),
    need_fwd_bwd_iats |-> AllOf({"iat", "iat_fwd_bwd"}),
    need_window_update |-> AnyOf({"window_pkt", "window_byte",
                                  "behavior_pattern", "behavior_bitrate"}),
    need_iat_seq |-> AnyOf({"iat_stats", "sequence_stats", "raw_sequences"}) ]

(* Mutants: a reader that is forgotten, and one that reads nothing.        *)
NeedsWithoutRate ==
  NeedsFor({"sequence_stats", "raw_sequences", "chunk_sequences"},
           {"chunk_sequences", "rate_sequences"})
NeedsDirectionsForFft ==
  NeedsFor({"fft_global", "sequence_stats", "raw_sequences", "chunk_sequences",
            "rate_sequences"},
           {"chunk_sequences", "rate_sequences"})

Needs ==
  NeedsFor({"sequence_stats", "raw_sequences", "chunk_sequences", "rate_sequences"},
           {"chunk_sequences", "rate_sequences"})

(* Masters that are off over switches that are on.  The load says of each  *)
(* that its switches will be ignored, but of window and behavior nothing.  *)
Overridden(on) == {m \in Master \ on : Governs[m] \cap on # {}}

(* What the guards of the packet's branch can see.                         *)
Flags(on) == on \cup {n \in DOMAIN Needs : Holds(Needs[n], on)}
-----------------------------------------------------------------------------
(* The data a packet adds to, each under the condition that guards it.     *)
CollectedIf ==
  [ counters |-> {{}},
    length_counts |-> AnyOf({"basic_pkt_length"}),
    fwd_bwd_pkt_lens |-> AnyOf({"need_fwd_bwd_pkt_lens"}),
    pkt_len_seq |-> AnyOf({"need_pkt_len_seq"}),
    first_n |-> AnyOf({"need_first_n"}),
    payload_dir |-> AnyOf({"need_payload_dir"}),
    dir_seq |-> AnyOf({"need_dir_seq"}),
    ts_seq |-> AnyOf({"need_ts_seq"}),
    l3_l4_payload_seq |-> AnyOf({"need_l3_l4_payload_seq"}),
    iat_stats |-> AnyOf({"iat_stats"}),
    fwd_bwd_iats |-> AnyOf({"need_fwd_bwd_iats"}),
    iat_seq |-> AnyOf({"need_iat_seq"}),
    active_idle |-> AnyOf({"iat_active"}),
    resp_delays |-> AnyOf({"iat_response"}),
    ip |-> AnyOf({"protocol_ip"}),
    ports |-> AnyOf({"protocol_port"}),
    tcp |-> AnyOf({"protocol_tcp_flags", "protocol_tcp_window"}),
    udp_lens |-> AnyOf({"protocol_udp"}),
    payload_magic |-> AnyOf({"payload_magic"}),
    payload_stats |-> AnyOf({"payload_stats"}),
    bursts |-> AnyOf({"burst"}),
    bigrams |-> AnyOf({"sequence_stats"}),
    windows |-> AnyOf({"need_window_update"}) ]

Datum == DOMAIN CollectedIf

(* What there is to collect in a packet: IP fields and payload only from   *)
(* its raw bytes, ports only of IPv4 flows.                                *)
Carried(p) ==
  { d \in Datum :
      /\ d \in {"ip", "tcp", "payload_magic", "payload_stats"} => p.raw
      /\ d \in {"payload_magic", "payload_stats", "payload_dir"} => p.payload
      /\ d = "ports" => p.v4
      /\ d = "tcp" => p.proto = "TCP"
      /\ d = "udp_lens" => p.proto = "UDP" }

Collected(p, on) == {d \in Carried(p) : Holds(CollectedIf[d], Flags(on))}

(* What each section reads of them when the flow closes.                   *)
Reads ==
  [ basic_ratios |-> {"counters"},
    basic_payload_dir |-> {"counters", "payload_dir"},
    basic_first_n |-> {"first_n"},
    basic_pkt_length |-> {"counters", "length_counts", "fwd_bwd_pkt_lens"},
    iat_stats |-> {"iat_seq", "iat_stats"},
    iat_fwd_bwd |-> {"fwd_bwd_iats"},
    iat_active |-> {"active_idle"},
    iat_response |-> {"resp_delays"},
    burst |-> {"bursts"},
    protocol_tcp_flags |-> {"counters", "tcp"},
    protocol_tcp_window |-> {"tcp"},
    protocol_ip |-> {"ip"},
    protocol_udp |-> {"udp_lens"},
    protocol_port |-> {"counters", "ports", "tcp", "ip"},
    payload_size |-> {"payload_stats"},
    payload_content |-> {"counters", "payload_stats"},
    payload_hist |-> {"payload_stats"},
    payload_magic |-> {"payload_magic", "payload_stats"},
    payload_stats |-> {"payload_stats"},
    sequence_stats |-> {"pkt_len_seq", "iat_seq", "dir_seq", "bigrams"},
    raw_sequences |-> {"pkt_len_seq", "iat_seq", "dir_seq", "l3_l4_payload_seq"},
    chunk_sequences |-> {"ts_seq", "pkt_len_seq", "dir_seq"},
    rate_sequences |-> {"ts_seq", "pkt_len_seq", "dir_seq"},
    fft_global |-> {"pkt_len_seq"},
    fft_fwd |-> {"fwd_bwd_pkt_lens"},
    fft_bwd |-> {"fwd_bwd_pkt_lens"},
    window_pkt |-> {"windows"},
    window_byte |-> {"windows"},
    behavior_basic |-> {"counters"},
    behavior_pattern |-> {"counters", "iat_stats", "tcp", "windows"},
    behavior_bitrate |-> {"windows"} ]

(* The sections that flow_state_compute_features reaches.                  *)
Sections(on) == UNION {Governs[m] \cap on : m \in Master \cap on}
-----------------------------------------------------------------------------
ASSUME SwitchConstants ==
  /\ \A c \in Configurations : c \subseteq Switch
  /\ Packets \subseteq [proto : {"TCP", "UDP"}, v4 : BOOLEAN,
                        payload : BOOLEAN, raw : BOOLEAN]

VARIABLES
  phase,       \* of the flow: "new", "open" or "closed"
  cfg,         \* g_feat_config: the switches that are on
  proto,       \* of the flow
  carried,     \* history: what its packets had to offer
  collected,   \* the data that its packets filled
  emitted      \* the sections of its record

vars == <<phase, cfg, proto, carried, collected, emitted>>

Init ==
  /\ phase = "new"
  /\ cfg \in Configurations
  /\ proto \in {"TCP", "UDP"}
  /\ carried = {} /\ collected = {} /\ emitted = {}

Packet(p) ==
  /\ phase \in {"new", "open"} /\ p.proto = proto
  /\ phase' = "open"
  /\ carried' = carried \cup Carried(p)
  /\ collected' = collected \cup Collected(p, cfg)
  /\ UNCHANGED <<cfg, proto, emitted>>

Close ==
  /\ phase = "open"
  /\ phase' = "closed"
  /\ emitted' = Sections(cfg)
  /\ UNCHANGED <<cfg, proto, carried, collected>>

Next == Close \/ \E p \in Packets : Packet(p)

Spec == Init /\ [][Next]_vars
-----------------------------------------------------------------------------
(* Data that a section reads although its own switch does not have them    *)
(* collected.  Of these docs/feature_module_list.md names only the TCP     *)
(* state that the ports read (:152); the others show in the record as      *)
(* zeros, and as the 1e18 of an empty minimum.                             *)
KnownGaps ==
  ({"payload_size", "payload_content", "payload_hist", "payload_magic"} \X {"payload_stats"})
  \cup ({"protocol_port"} \X {"tcp", "ip"})
  \cup ({"behavior_pattern"} \X {"tcp", "iat_stats"})

(* A section reads only what the packets were made to collect: whatever    *)
(* the configuration, a datum that the flow's packets carried and that an  *)
(* emitted section reads was filled, but for the known gaps.  The guards   *)
(* are in traffic_process and the calculators, the readers in calc_derived.*)
SectionsReadCollected ==
  \A s \in emitted :
    \A d \in Reads[s] \cap carried : d \in collected \/ <<s, d>> \in KnownGaps

(* Nothing is collected in vain: in a configuration that overrides no      *)
(* switch, each datum that was filled is read by some emitted section; the *)
(* counters are written into every record.                                 *)
CollectedIsRead ==
  phase = "closed" /\ Overridden(cfg) = {} =>
    collected \subseteq (UNION {Reads[s] : s \in emitted}) \cup {"counters"}

(* docs/feature_module_list.md:118, "when the master switch is off, its    *)
(* sub-switches take no effect even if they are set to 1": what the flow   *)
(* collects is what the effective switches alone would have it collect.    *)
Effective(on) == on \ UNION {Governs[m] : m \in Master \ on}

OverriddenHaveNoEffect ==
  \A d \in collected : Holds(CollectedIf[d], Flags(Effective(cfg)))
=============================================================================
