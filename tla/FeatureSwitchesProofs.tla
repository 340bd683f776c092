----------------------- MODULE FeatureSwitchesProofs -----------------------
(***************************************************************************)
(* Proofs about FeatureSwitches, for every configuration of the switches   *)
(* and every mix of packets: the sections of a record read what packets    *)
(* were made to collect, but for the known gaps, and nothing is collected  *)
(* that no section reads.                                                  *)
(***************************************************************************)
EXTENDS FeatureSwitches, TLAPS

(* One of the switches of S is on.                                         *)
AnyOn(S, on) == \E s \in S : s \in on

LEMMA AnyHolds ==
  ASSUME NEW on, NEW S
  PROVE  Holds(AnyOf(S), on) <=> AnyOn(S, on)
<1>1. ASSUME NEW s \in S, s \in on PROVE Holds(AnyOf(S), on)
  <2>1. {s} \in AnyOf(S) /\ {s} \subseteq on
    BY <1>1 DEF AnyOf
  <2> QED BY <2>1 DEF Holds
<1>2. ASSUME Holds(AnyOf(S), on) PROVE AnyOn(S, on)
  <2>1. PICK C \in AnyOf(S) : C \subseteq on
    BY <1>2 DEF Holds
  <2>2. PICK s \in S : C = {s}
    BY <2>1 DEF AnyOf
  <2> QED BY <2>1, <2>2 DEF AnyOn
<1> QED BY <1>1, <1>2 DEF AnyOn

LEMMA AllHold ==
  ASSUME NEW on, NEW S
  PROVE  Holds(AllOf(S), on) <=> S \subseteq on
<1>1. \A C : C \in AllOf(S) <=> C = S
  BY Zenon DEF AllOf
<1>2. ASSUME Holds(AllOf(S), on) PROVE S \subseteq on
  <2>1. PICK C \in AllOf(S) : C \subseteq on
    BY <1>2 DEF Holds
  <2> QED BY <1>1, <2>1
<1>3. ASSUME S \subseteq on PROVE Holds(AllOf(S), on)
  BY <1>1, <1>3 DEF Holds
<1> QED BY <1>2, <1>3

LEMMA Masters ==
  Master = {"basic", "iat", "burst", "protocol", "payload", "sequence", "fft",
            "window", "behavior"}
BY SMT DEF Master, Governs

LEMMA NeedNames ==
  DOMAIN Needs = {"need_pkt_len_seq", "need_dir_seq", "need_ts_seq",
                  "need_l3_l4_payload_seq", "need_fwd_bwd_pkt_lens",
                  "need_first_n", "need_payload_dir", "need_fwd_bwd_iats", "need_window_update", "need_iat_seq"}
BY SMT DEF Needs, NeedsFor

(* The derived flags are no switches, and no switch is a derived flag.     *)
LEMMA NamesApart == Switch \cap DOMAIN Needs = {}
<1> SUFFICES ASSUME NEW x \in Switch, x \in DOMAIN Needs PROVE FALSE
  OBVIOUS
<1>1. x \notin Master
  BY NeedNames, Masters
<1>2. ASSUME NEW m \in Master PROVE x \notin Governs[m]
  BY <1>2, NeedNames, Masters, SMT DEF Governs
<1>3. x \notin Section
  BY <1>2 DEF Section
<1> QED BY <1>1, <1>3 DEF Switch

(* What the guards of the packet's branch see of the switches.             *)
LEMMA FlagsAre ==
  ASSUME NEW on \in SUBSET Switch
  PROVE  /\ \A n \in DOMAIN Needs : n \in Flags(on) <=> Holds(Needs[n], on)
         /\ \A x : x \notin DOMAIN Needs => (x \in Flags(on) <=> x \in on)
BY NamesApart DEF Flags

(* A packet's data of kind d are collected.                                *)
Fed(d, on) == Holds(CollectedIf[d], Flags(on))

LEMMA FedBySwitch ==
  ASSUME NEW on \in SUBSET Switch, NEW d, NEW S, CollectedIf[d] = AnyOf(S),
         S \cap DOMAIN Needs = {}
  PROVE  Fed(d, on) <=> AnyOn(S, on)
<1>1. Fed(d, on) <=> AnyOn(S, Flags(on))
  BY AnyHolds DEF Fed
<1> QED BY <1>1, FlagsAre DEF AnyOn

LEMMA FedByNeed ==
  ASSUME NEW on \in SUBSET Switch, NEW d, NEW n \in DOMAIN Needs,
         CollectedIf[d] = AnyOf({n})
  PROVE  Fed(d, on) <=> Holds(Needs[n], on)
<1>1. Fed(d, on) <=> n \in Flags(on)
  BY AnyHolds DEF Fed, AnyOn
<1> QED BY <1>1, FlagsAre

(* Which switches make a packet's data be collected: the guards of the     *)
(* packet's branch in terms of the configuration alone.                    *)
LEMMA FedAre ==
  ASSUME NEW on \in SUBSET Switch
  PROVE  /\ Fed("counters", on)
         /\ Fed("length_counts", on) <=> AnyOn({"basic_pkt_length"}, on)
         /\ Fed("iat_stats", on) <=> AnyOn({"iat_stats"}, on)
         /\ Fed("active_idle", on) <=> AnyOn({"iat_active"}, on)
         /\ Fed("resp_delays", on) <=> AnyOn({"iat_response"}, on)
         /\ Fed("ip", on) <=> AnyOn({"protocol_ip"}, on)
         /\ Fed("ports", on) <=> AnyOn({"protocol_port"}, on)
         /\ Fed("tcp", on) <=> AnyOn({"protocol_tcp_flags",
                                      "protocol_tcp_window"}, on)
         /\ Fed("udp_lens", on) <=> AnyOn({"protocol_udp"}, on)
         /\ Fed("payload_magic", on) <=> AnyOn({"payload_magic"}, on)
         /\ Fed("payload_stats", on) <=> AnyOn({"payload_stats"}, on)
         /\ Fed("bursts", on) <=> AnyOn({"burst"}, on)
         /\ Fed("bigrams", on) <=> AnyOn({"sequence_stats"}, on)
         /\ Fed("fwd_bwd_pkt_lens", on) <=>
              AnyOn({"basic_pkt_length", "fft_fwd", "fft_bwd"}, on)
         /\ Fed("pkt_len_seq", on) <=>
              AnyOn({"fft_global", "sequence_stats", "raw_sequences",
                     "chunk_sequences", "rate_sequences"}, on)
         /\ Fed("first_n", on) <=> {"basic", "basic_first_n"} \subseteq on
         /\ Fed("payload_dir", on) <=> {"basic", "basic_payload_dir"} \subseteq on
         /\ Fed("dir_seq", on) <=>
              AnyOn({"sequence_stats", "raw_sequences", "chunk_sequences",
                     "rate_sequences"}, on)
         /\ Fed("ts_seq", on) <=>
              AnyOn({"chunk_sequences", "rate_sequences"}, on)
         /\ Fed("l3_l4_payload_seq", on) <=>
              AnyOn({"raw_sequences"}, on)
         /\ Fed("fwd_bwd_iats", on) <=> {"iat", "iat_fwd_bwd"} \subseteq on
         /\ Fed("iat_seq", on) <=>
              AnyOn({"iat_stats", "sequence_stats", "raw_sequences"}, on)
         /\ Fed("windows", on) <=>
              AnyOn({"window_pkt", "window_byte", "behavior_pattern",
                     "behavior_bitrate"}, on)
<1>1. Fed("counters", on)
  <2>1. CollectedIf["counters"] = {{}}
    BY SMT DEF CollectedIf
  <2> QED BY <2>1 DEF Fed, Holds
<1>2. Fed("length_counts", on) <=> AnyOn({"basic_pkt_length"}, on)
  <2>1. CollectedIf["length_counts"] = AnyOf({"basic_pkt_length"})
    BY SMT DEF CollectedIf
  <2>2. {"basic_pkt_length"} \cap DOMAIN Needs = {}
    BY NeedNames
  <2> QED BY <2>1, <2>2, FedBySwitch
<1>3. Fed("iat_stats", on) <=> AnyOn({"iat_stats"}, on)
  <2>1. CollectedIf["iat_stats"] = AnyOf({"iat_stats"})
    BY SMT DEF CollectedIf
  <2>2. {"iat_stats"} \cap DOMAIN Needs = {}
    BY NeedNames
  <2> QED BY <2>1, <2>2, FedBySwitch
<1>4. Fed("active_idle", on) <=> AnyOn({"iat_active"}, on)
  <2>1. CollectedIf["active_idle"] = AnyOf({"iat_active"})
    BY SMT DEF CollectedIf
  <2>2. {"iat_active"} \cap DOMAIN Needs = {}
    BY NeedNames
  <2> QED BY <2>1, <2>2, FedBySwitch
<1>5. Fed("resp_delays", on) <=> AnyOn({"iat_response"}, on)
  <2>1. CollectedIf["resp_delays"] = AnyOf({"iat_response"})
    BY SMT DEF CollectedIf
  <2>2. {"iat_response"} \cap DOMAIN Needs = {}
    BY NeedNames
  <2> QED BY <2>1, <2>2, FedBySwitch
<1>6. Fed("ip", on) <=> AnyOn({"protocol_ip"}, on)
  <2>1. CollectedIf["ip"] = AnyOf({"protocol_ip"})
    BY SMT DEF CollectedIf
  <2>2. {"protocol_ip"} \cap DOMAIN Needs = {}
    BY NeedNames
  <2> QED BY <2>1, <2>2, FedBySwitch
<1>7. Fed("ports", on) <=> AnyOn({"protocol_port"}, on)
  <2>1. CollectedIf["ports"] = AnyOf({"protocol_port"})
    BY SMT DEF CollectedIf
  <2>2. {"protocol_port"} \cap DOMAIN Needs = {}
    BY NeedNames
  <2> QED BY <2>1, <2>2, FedBySwitch
<1>8. Fed("tcp", on) <=> AnyOn({"protocol_tcp_flags", "protocol_tcp_window"}, on)
  <2>1. CollectedIf["tcp"] = AnyOf({"protocol_tcp_flags", "protocol_tcp_window"})
    BY SMT DEF CollectedIf
  <2>2. {"protocol_tcp_flags", "protocol_tcp_window"} \cap DOMAIN Needs = {}
    BY NeedNames
  <2> QED BY <2>1, <2>2, FedBySwitch
<1>9. Fed("udp_lens", on) <=> AnyOn({"protocol_udp"}, on)
  <2>1. CollectedIf["udp_lens"] = AnyOf({"protocol_udp"})
    BY SMT DEF CollectedIf
  <2>2. {"protocol_udp"} \cap DOMAIN Needs = {}
    BY NeedNames
  <2> QED BY <2>1, <2>2, FedBySwitch
<1>10. Fed("payload_magic", on) <=> AnyOn({"payload_magic"}, on)
  <2>1. CollectedIf["payload_magic"] = AnyOf({"payload_magic"})
    BY SMT DEF CollectedIf
  <2>2. {"payload_magic"} \cap DOMAIN Needs = {}
    BY NeedNames
  <2> QED BY <2>1, <2>2, FedBySwitch
<1>11. Fed("payload_stats", on) <=> AnyOn({"payload_stats"}, on)
  <2>1. CollectedIf["payload_stats"] = AnyOf({"payload_stats"})
    BY SMT DEF CollectedIf
  <2>2. {"payload_stats"} \cap DOMAIN Needs = {}
    BY NeedNames
  <2> QED BY <2>1, <2>2, FedBySwitch
<1>12. Fed("bursts", on) <=> AnyOn({"burst"}, on)
  <2>1. CollectedIf["bursts"] = AnyOf({"burst"})
    BY SMT DEF CollectedIf
  <2>2. {"burst"} \cap DOMAIN Needs = {}
    BY NeedNames
  <2> QED BY <2>1, <2>2, FedBySwitch
<1>13. Fed("bigrams", on) <=> AnyOn({"sequence_stats"}, on)
  <2>1. CollectedIf["bigrams"] = AnyOf({"sequence_stats"})
    BY SMT DEF CollectedIf
  <2>2. {"sequence_stats"} \cap DOMAIN Needs = {}
    BY NeedNames
  <2> QED BY <2>1, <2>2, FedBySwitch
<1>14. Fed("fwd_bwd_pkt_lens", on) <=>
       AnyOn({"basic_pkt_length", "fft_fwd", "fft_bwd"}, on)
  <2>1. CollectedIf["fwd_bwd_pkt_lens"] = AnyOf({"need_fwd_bwd_pkt_lens"})
    BY SMT DEF CollectedIf
  <2>2. Needs["need_fwd_bwd_pkt_lens"] =
          AnyOf({"basic_pkt_length", "fft_fwd", "fft_bwd"})
    BY SMT DEF Needs, NeedsFor
  <2>3. "need_fwd_bwd_pkt_lens" \in DOMAIN Needs
    BY NeedNames
  <2>4. Fed("fwd_bwd_pkt_lens", on) <=> Holds(Needs["need_fwd_bwd_pkt_lens"], on)
    BY <2>1, <2>3, FedByNeed
  <2> QED BY <2>2, <2>4, AnyHolds
<1>15. Fed("pkt_len_seq", on) <=>
       AnyOn({"fft_global", "sequence_stats", "raw_sequences",
              "chunk_sequences", "rate_sequences"}, on)
  <2>1. CollectedIf["pkt_len_seq"] = AnyOf({"need_pkt_len_seq"})
    BY SMT DEF CollectedIf
  <2>2. Needs["need_pkt_len_seq"] =
          AnyOf({"fft_global", "sequence_stats", "raw_sequences",
                 "chunk_sequences", "rate_sequences"})
    BY SMT DEF Needs, NeedsFor
  <2>3. "need_pkt_len_seq" \in DOMAIN Needs
    BY NeedNames
  <2>4. Fed("pkt_len_seq", on) <=> Holds(Needs["need_pkt_len_seq"], on)
    BY <2>1, <2>3, FedByNeed
  <2> QED BY <2>2, <2>4, AnyHolds
<1>16. Fed("first_n", on) <=>
       {"basic", "basic_first_n"} \subseteq on
  <2>1. CollectedIf["first_n"] = AnyOf({"need_first_n"})
    BY SMT DEF CollectedIf
  <2>2. Needs["need_first_n"] =
          AllOf({"basic", "basic_first_n"})
    BY SMT DEF Needs, NeedsFor
  <2>3. "need_first_n" \in DOMAIN Needs
    BY NeedNames
  <2>4. Fed("first_n", on) <=> Holds(Needs["need_first_n"], on)
    BY <2>1, <2>3, FedByNeed
  <2> QED BY <2>2, <2>4, AllHold
<1>17. Fed("payload_dir", on) <=>
       {"basic", "basic_payload_dir"} \subseteq on
  <2>1. CollectedIf["payload_dir"] = AnyOf({"need_payload_dir"})
    BY SMT DEF CollectedIf
  <2>2. Needs["need_payload_dir"] =
          AllOf({"basic", "basic_payload_dir"})
    BY SMT DEF Needs, NeedsFor
  <2>3. "need_payload_dir" \in DOMAIN Needs
    BY NeedNames
  <2>4. Fed("payload_dir", on) <=> Holds(Needs["need_payload_dir"], on)
    BY <2>1, <2>3, FedByNeed
  <2> QED BY <2>2, <2>4, AllHold
<1>18. Fed("dir_seq", on) <=>
       AnyOn({"sequence_stats", "raw_sequences", "chunk_sequences",
              "rate_sequences"}, on)
  <2>1. CollectedIf["dir_seq"] = AnyOf({"need_dir_seq"})
    BY SMT DEF CollectedIf
  <2>2. Needs["need_dir_seq"] =
          AnyOf({"sequence_stats", "raw_sequences", "chunk_sequences",
                 "rate_sequences"})
    BY SMT DEF Needs, NeedsFor
  <2>3. "need_dir_seq" \in DOMAIN Needs
    BY NeedNames
  <2>4. Fed("dir_seq", on) <=> Holds(Needs["need_dir_seq"], on)
    BY <2>1, <2>3, FedByNeed
  <2> QED BY <2>2, <2>4, AnyHolds
<1>19. Fed("ts_seq", on) <=>
       AnyOn({"chunk_sequences", "rate_sequences"}, on)
  <2>1. CollectedIf["ts_seq"] = AnyOf({"need_ts_seq"})
    BY SMT DEF CollectedIf
  <2>2. Needs["need_ts_seq"] =
          AnyOf({"chunk_sequences", "rate_sequences"})
    BY SMT DEF Needs, NeedsFor
  <2>3. "need_ts_seq" \in DOMAIN Needs
    BY NeedNames
  <2>4. Fed("ts_seq", on) <=> Holds(Needs["need_ts_seq"], on)
    BY <2>1, <2>3, FedByNeed
  <2> QED BY <2>2, <2>4, AnyHolds
<1>20. Fed("l3_l4_payload_seq", on) <=>
       AnyOn({"raw_sequences"}, on)
  <2>1. CollectedIf["l3_l4_payload_seq"] = AnyOf({"need_l3_l4_payload_seq"})
    BY SMT DEF CollectedIf
  <2>2. Needs["need_l3_l4_payload_seq"] =
          AnyOf({"raw_sequences"})
    BY SMT DEF Needs, NeedsFor
  <2>3. "need_l3_l4_payload_seq" \in DOMAIN Needs
    BY NeedNames
  <2>4. Fed("l3_l4_payload_seq", on) <=> Holds(Needs["need_l3_l4_payload_seq"], on)
    BY <2>1, <2>3, FedByNeed
  <2> QED BY <2>2, <2>4, AnyHolds
<1>21. Fed("fwd_bwd_iats", on) <=>
       {"iat", "iat_fwd_bwd"} \subseteq on
  <2>1. CollectedIf["fwd_bwd_iats"] = AnyOf({"need_fwd_bwd_iats"})
    BY SMT DEF CollectedIf
  <2>2. Needs["need_fwd_bwd_iats"] =
          AllOf({"iat", "iat_fwd_bwd"})
    BY SMT DEF Needs, NeedsFor
  <2>3. "need_fwd_bwd_iats" \in DOMAIN Needs
    BY NeedNames
  <2>4. Fed("fwd_bwd_iats", on) <=> Holds(Needs["need_fwd_bwd_iats"], on)
    BY <2>1, <2>3, FedByNeed
  <2> QED BY <2>2, <2>4, AllHold
<1>22. Fed("iat_seq", on) <=>
       AnyOn({"iat_stats", "sequence_stats", "raw_sequences"}, on)
  <2>1. CollectedIf["iat_seq"] = AnyOf({"need_iat_seq"})
    BY SMT DEF CollectedIf
  <2>2. Needs["need_iat_seq"] =
          AnyOf({"iat_stats", "sequence_stats", "raw_sequences"})
    BY SMT DEF Needs, NeedsFor
  <2>3. "need_iat_seq" \in DOMAIN Needs
    BY NeedNames
  <2>4. Fed("iat_seq", on) <=> Holds(Needs["need_iat_seq"], on)
    BY <2>1, <2>3, FedByNeed
  <2> QED BY <2>2, <2>4, AnyHolds
<1>23. Fed("windows", on) <=>
       AnyOn({"window_pkt", "window_byte", "behavior_pattern",
              "behavior_bitrate"}, on)
  <2>1. CollectedIf["windows"] = AnyOf({"need_window_update"})
    BY SMT DEF CollectedIf
  <2>2. Needs["need_window_update"] =
          AnyOf({"window_pkt", "window_byte", "behavior_pattern",
                 "behavior_bitrate"})
    BY SMT DEF Needs, NeedsFor
  <2>3. "need_window_update" \in DOMAIN Needs
    BY NeedNames
  <2>4. Fed("windows", on) <=> Holds(Needs["need_window_update"], on)
    BY <2>1, <2>3, FedByNeed
  <2> QED BY <2>2, <2>4, AnyHolds
<1> QED
  BY <1>1, <1>2, <1>3, <1>4, <1>5, <1>6, <1>7, <1>8, <1>9, <1>10, <1>11, <1>12,
     <1>13, <1>14, <1>15, <1>16, <1>17, <1>18, <1>19, <1>20, <1>21, <1>22, <1>23
(* The other way round: what a switch makes a packet's data be collected.  *)
LEMMA SwitchFeeds ==
  ASSUME NEW on \in SUBSET Switch
  PROVE  /\ Fed("counters", on)
         /\ "basic" \in on /\ "basic_first_n" \in on => Fed("first_n", on)
         /\ "basic" \in on /\ "basic_payload_dir" \in on =>
              Fed("payload_dir", on)
         /\ "basic_pkt_length" \in on =>
              Fed("length_counts", on) /\ Fed("fwd_bwd_pkt_lens", on)
         /\ "behavior_bitrate" \in on => Fed("windows", on)
         /\ "behavior_pattern" \in on => Fed("windows", on)
         /\ "burst" \in on => Fed("bursts", on)
         /\ "chunk_sequences" \in on =>
              Fed("pkt_len_seq", on) /\ Fed("dir_seq", on) /\ Fed("ts_seq", on)
         /\ "fft_bwd" \in on => Fed("fwd_bwd_pkt_lens", on)
         /\ "fft_fwd" \in on => Fed("fwd_bwd_pkt_lens", on)
         /\ "fft_global" \in on => Fed("pkt_len_seq", on)
         /\ "iat" \in on /\ "iat_fwd_bwd" \in on => Fed("fwd_bwd_iats", on)
         /\ "iat_active" \in on => Fed("active_idle", on)
         /\ "iat_response" \in on => Fed("resp_delays", on)
         /\ "iat_stats" \in on => Fed("iat_stats", on) /\ Fed("iat_seq", on)
         /\ "payload_magic" \in on => Fed("payload_magic", on)
         /\ "payload_stats" \in on => Fed("payload_stats", on)
         /\ "protocol_ip" \in on => Fed("ip", on)
         /\ "protocol_port" \in on => Fed("ports", on)
         /\ "protocol_tcp_flags" \in on => Fed("tcp", on)
         /\ "protocol_tcp_window" \in on => Fed("tcp", on)
         /\ "protocol_udp" \in on => Fed("udp_lens", on)
         /\ "rate_sequences" \in on =>
              Fed("pkt_len_seq", on) /\ Fed("dir_seq", on) /\ Fed("ts_seq", on)
         /\ "raw_sequences" \in on =>
              Fed("pkt_len_seq", on) /\ Fed("dir_seq", on)
                /\ Fed("l3_l4_payload_seq", on) /\ Fed("iat_seq", on)
         /\ "sequence_stats" \in on =>
              Fed("bigrams", on) /\ Fed("pkt_len_seq", on)
                /\ Fed("dir_seq", on) /\ Fed("iat_seq", on)
         /\ "window_byte" \in on => Fed("windows", on)
         /\ "window_pkt" \in on => Fed("windows", on)
<1>1. Fed("counters", on)
  BY FedAre
<1>2. ASSUME "basic" \in on, "basic_first_n" \in on
      PROVE  Fed("first_n", on)
  BY <1>2, FedAre DEF AnyOn
<1>3. ASSUME "basic" \in on, "basic_payload_dir" \in on
      PROVE  Fed("payload_dir", on)
  BY <1>3, FedAre DEF AnyOn
<1>4. ASSUME "basic_pkt_length" \in on
      PROVE  Fed("length_counts", on) /\ Fed("fwd_bwd_pkt_lens", on)
  BY <1>4, FedAre DEF AnyOn
<1>5. ASSUME "behavior_bitrate" \in on
      PROVE  Fed("windows", on)
  BY <1>5, FedAre DEF AnyOn
<1>6. ASSUME "behavior_pattern" \in on
      PROVE  Fed("windows", on)
  BY <1>6, FedAre DEF AnyOn
<1>7. ASSUME "burst" \in on
      PROVE  Fed("bursts", on)
  BY <1>7, FedAre DEF AnyOn
<1>8. ASSUME "chunk_sequences" \in on
      PROVE  Fed("pkt_len_seq", on) /\ Fed("dir_seq", on) /\ Fed("ts_seq", on)
  BY <1>8, FedAre DEF AnyOn
<1>9. ASSUME "fft_bwd" \in on
      PROVE  Fed("fwd_bwd_pkt_lens", on)
  BY <1>9, FedAre DEF AnyOn
<1>10. ASSUME "fft_fwd" \in on
      PROVE  Fed("fwd_bwd_pkt_lens", on)
  BY <1>10, FedAre DEF AnyOn
<1>11. ASSUME "fft_global" \in on
      PROVE  Fed("pkt_len_seq", on)
  BY <1>11, FedAre DEF AnyOn
<1>12. ASSUME "iat" \in on, "iat_fwd_bwd" \in on
      PROVE  Fed("fwd_bwd_iats", on)
  BY <1>12, FedAre DEF AnyOn
<1>13. ASSUME "iat_active" \in on
      PROVE  Fed("active_idle", on)
  BY <1>13, FedAre DEF AnyOn
<1>14. ASSUME "iat_response" \in on
      PROVE  Fed("resp_delays", on)
  BY <1>14, FedAre DEF AnyOn
<1>15. ASSUME "iat_stats" \in on
      PROVE  Fed("iat_stats", on) /\ Fed("iat_seq", on)
  BY <1>15, FedAre DEF AnyOn
<1>16. ASSUME "payload_magic" \in on
      PROVE  Fed("payload_magic", on)
  BY <1>16, FedAre DEF AnyOn
<1>17. ASSUME "payload_stats" \in on
      PROVE  Fed("payload_stats", on)
  BY <1>17, FedAre DEF AnyOn
<1>18. ASSUME "protocol_ip" \in on
      PROVE  Fed("ip", on)
  BY <1>18, FedAre DEF AnyOn
<1>19. ASSUME "protocol_port" \in on
      PROVE  Fed("ports", on)
  BY <1>19, FedAre DEF AnyOn
<1>20. ASSUME "protocol_tcp_flags" \in on
      PROVE  Fed("tcp", on)
  BY <1>20, FedAre DEF AnyOn
<1>21. ASSUME "protocol_tcp_window" \in on
      PROVE  Fed("tcp", on)
  BY <1>21, FedAre DEF AnyOn
<1>22. ASSUME "protocol_udp" \in on
      PROVE  Fed("udp_lens", on)
  BY <1>22, FedAre DEF AnyOn
<1>23. ASSUME "rate_sequences" \in on
      PROVE  Fed("pkt_len_seq", on) /\ Fed("dir_seq", on) /\ Fed("ts_seq", on)
  BY <1>23, FedAre DEF AnyOn
<1>24. ASSUME "raw_sequences" \in on
      PROVE  Fed("pkt_len_seq", on) /\ Fed("dir_seq", on)
               /\ Fed("l3_l4_payload_seq", on) /\ Fed("iat_seq", on)
  BY <1>24, FedAre DEF AnyOn
<1>25. ASSUME "sequence_stats" \in on
      PROVE  Fed("bigrams", on) /\ Fed("pkt_len_seq", on)
               /\ Fed("dir_seq", on) /\ Fed("iat_seq", on)
  BY <1>25, FedAre DEF AnyOn
<1>26. ASSUME "window_byte" \in on
      PROVE  Fed("windows", on)
  BY <1>26, FedAre DEF AnyOn
<1>27. ASSUME "window_pkt" \in on
      PROVE  Fed("windows", on)
  BY <1>27, FedAre DEF AnyOn
<1> QED
  BY <1>1, <1>2, <1>3, <1>4, <1>5, <1>6, <1>7, <1>8, <1>9, <1>10, <1>11,
     <1>12, <1>13, <1>14, <1>15, <1>16, <1>17, <1>18, <1>19, <1>20, <1>21,
     <1>22, <1>23, <1>24, <1>25, <1>26, <1>27

(* What is read although the section's own switch does not collect it.     *)
LEMMA GapsAre ==
  /\ \A s \in {"payload_size", "payload_content", "payload_hist", "payload_magic"} :
       << s, "payload_stats" >> \in KnownGaps
  /\ \A d \in {"tcp", "ip"} : << "protocol_port", d >> \in KnownGaps
  /\ \A d \in {"tcp", "iat_stats"} : << "behavior_pattern", d >> \in KnownGaps
BY DEF KnownGaps

(* Each section of a master that is on finds its data collected.           *)
LEMMA SectionIsFed ==
  ASSUME NEW on \in SUBSET Switch, NEW s \in Sections(on), NEW d \in Reads[s]
  PROVE  Fed(d, on) \/ << s, d >> \in KnownGaps
<1>1. PICK m \in Master : m \in on /\ s \in on /\ s \in Governs[m]
  BY DEF Sections
<1>2. CASE m = "basic"
  <2>1. s \in {"basic_ratios", "basic_payload_dir", "basic_first_n", "basic_pkt_length"}
    BY <1>1, <1>2, SMT DEF Governs
  <2>2. CASE s = "basic_ratios"
    <3>1. d \in {"counters"}
      BY <2>2, SMT DEF Reads
    <3> QED BY <1>1, <1>2, <2>2, <3>1, SwitchFeeds
  <2>3. CASE s = "basic_payload_dir"
    <3>1. d \in {"counters", "payload_dir"}
      BY <2>3, SMT DEF Reads
    <3> QED BY <1>1, <1>2, <2>3, <3>1, SwitchFeeds
  <2>4. CASE s = "basic_first_n"
    <3>1. d \in {"first_n"}
      BY <2>4, SMT DEF Reads
    <3> QED BY <1>1, <1>2, <2>4, <3>1, SwitchFeeds
  <2>5. CASE s = "basic_pkt_length"
    <3>1. d \in {"counters", "length_counts", "fwd_bwd_pkt_lens"}
      BY <2>5, SMT DEF Reads
    <3> QED BY <1>1, <1>2, <2>5, <3>1, SwitchFeeds
  <2> QED BY <2>1, <2>2, <2>3, <2>4, <2>5
<1>3. CASE m = "iat"
  <2>1. s \in {"iat_stats", "iat_fwd_bwd", "iat_active", "iat_response"}
    BY <1>1, <1>3, SMT DEF Governs
  <2>2. CASE s = "iat_stats"
    <3>1. d \in {"iat_seq", "iat_stats"}
      BY <2>2, SMT DEF Reads
    <3> QED BY <1>1, <1>3, <2>2, <3>1, SwitchFeeds
  <2>3. CASE s = "iat_fwd_bwd"
    <3>1. d \in {"fwd_bwd_iats"}
      BY <2>3, SMT DEF Reads
    <3> QED BY <1>1, <1>3, <2>3, <3>1, SwitchFeeds
  <2>4. CASE s = "iat_active"
    <3>1. d \in {"active_idle"}
      BY <2>4, SMT DEF Reads
    <3> QED BY <1>1, <1>3, <2>4, <3>1, SwitchFeeds
  <2>5. CASE s = "iat_response"
    <3>1. d \in {"resp_delays"}
      BY <2>5, SMT DEF Reads
    <3> QED BY <1>1, <1>3, <2>5, <3>1, SwitchFeeds
  <2> QED BY <2>1, <2>2, <2>3, <2>4, <2>5
<1>4. CASE m = "burst"
  <2>1. s \in {"burst"}
    BY <1>1, <1>4, SMT DEF Governs
  <2>2. CASE s = "burst"
    <3>1. d \in {"bursts"}
      BY <2>2, SMT DEF Reads
    <3> QED BY <1>1, <1>4, <2>2, <3>1, SwitchFeeds
  <2> QED BY <2>1, <2>2
<1>5. CASE m = "protocol"
  <2>1. s \in {"protocol_tcp_flags", "protocol_tcp_window", "protocol_ip", "protocol_udp", "protocol_port"}
    BY <1>1, <1>5, SMT DEF Governs
  <2>2. CASE s = "protocol_tcp_flags"
    <3>1. d \in {"counters", "tcp"}
      BY <2>2, SMT DEF Reads
    <3> QED BY <1>1, <1>5, <2>2, <3>1, SwitchFeeds
  <2>3. CASE s = "protocol_tcp_window"
    <3>1. d \in {"tcp"}
      BY <2>3, SMT DEF Reads
    <3> QED BY <1>1, <1>5, <2>3, <3>1, SwitchFeeds
  <2>4. CASE s = "protocol_ip"
    <3>1. d \in {"ip"}
      BY <2>4, SMT DEF Reads
    <3> QED BY <1>1, <1>5, <2>4, <3>1, SwitchFeeds
  <2>5. CASE s = "protocol_udp"
    <3>1. d \in {"udp_lens"}
      BY <2>5, SMT DEF Reads
    <3> QED BY <1>1, <1>5, <2>5, <3>1, SwitchFeeds
  <2>6. CASE s = "protocol_port"
    <3>1. d \in {"counters", "ports", "tcp", "ip"}
      BY <2>6, SMT DEF Reads
    <3> QED BY <1>1, <1>5, <2>6, <3>1, SwitchFeeds, GapsAre
  <2> QED BY <2>1, <2>2, <2>3, <2>4, <2>5, <2>6
<1>6. CASE m = "payload"
  <2>1. s \in {"payload_size", "payload_content", "payload_hist", "payload_magic", "payload_stats"}
    BY <1>1, <1>6, SMT DEF Governs
  <2>2. CASE s = "payload_size"
    <3>1. d \in {"payload_stats"}
      BY <2>2, SMT DEF Reads
    <3> QED BY <1>1, <1>6, <2>2, <3>1, SwitchFeeds, GapsAre
  <2>3. CASE s = "payload_content"
    <3>1. d \in {"counters", "payload_stats"}
      BY <2>3, SMT DEF Reads
    <3> QED BY <1>1, <1>6, <2>3, <3>1, SwitchFeeds, GapsAre
  <2>4. CASE s = "payload_hist"
    <3>1. d \in {"payload_stats"}
      BY <2>4, SMT DEF Reads
    <3> QED BY <1>1, <1>6, <2>4, <3>1, SwitchFeeds, GapsAre
  <2>5. CASE s = "payload_magic"
    <3>1. d \in {"payload_magic", "payload_stats"}
      BY <2>5, SMT DEF Reads
    <3> QED BY <1>1, <1>6, <2>5, <3>1, SwitchFeeds, GapsAre
  <2>6. CASE s = "payload_stats"
    <3>1. d \in {"payload_stats"}
      BY <2>6, SMT DEF Reads
    <3> QED BY <1>1, <1>6, <2>6, <3>1, SwitchFeeds
  <2> QED BY <2>1, <2>2, <2>3, <2>4, <2>5, <2>6
<1>7. CASE m = "sequence"
  <2>1. s \in {"sequence_stats", "raw_sequences", "chunk_sequences", "rate_sequences"}
    BY <1>1, <1>7, SMT DEF Governs
  <2>2. CASE s = "sequence_stats"
    <3>1. d \in {"pkt_len_seq", "iat_seq", "dir_seq", "bigrams"}
      BY <2>2, SMT DEF Reads
    <3> QED BY <1>1, <1>7, <2>2, <3>1, SwitchFeeds
  <2>3. CASE s = "raw_sequences"
    <3>1. d \in {"pkt_len_seq", "iat_seq", "dir_seq", "l3_l4_payload_seq"}
      BY <2>3, SMT DEF Reads
    <3> QED BY <1>1, <1>7, <2>3, <3>1, SwitchFeeds
  <2>4. CASE s = "chunk_sequences"
    <3>1. d \in {"ts_seq", "pkt_len_seq", "dir_seq"}
      BY <2>4, SMT DEF Reads
    <3> QED BY <1>1, <1>7, <2>4, <3>1, SwitchFeeds
  <2>5. CASE s = "rate_sequences"
    <3>1. d \in {"ts_seq", "pkt_len_seq", "dir_seq"}
      BY <2>5, SMT DEF Reads
    <3> QED BY <1>1, <1>7, <2>5, <3>1, SwitchFeeds
  <2> QED BY <2>1, <2>2, <2>3, <2>4, <2>5
<1>8. CASE m = "fft"
  <2>1. s \in {"fft_global", "fft_fwd", "fft_bwd"}
    BY <1>1, <1>8, SMT DEF Governs
  <2>2. CASE s = "fft_global"
    <3>1. d \in {"pkt_len_seq"}
      BY <2>2, SMT DEF Reads
    <3> QED BY <1>1, <1>8, <2>2, <3>1, SwitchFeeds
  <2>3. CASE s = "fft_fwd"
    <3>1. d \in {"fwd_bwd_pkt_lens"}
      BY <2>3, SMT DEF Reads
    <3> QED BY <1>1, <1>8, <2>3, <3>1, SwitchFeeds
  <2>4. CASE s = "fft_bwd"
    <3>1. d \in {"fwd_bwd_pkt_lens"}
      BY <2>4, SMT DEF Reads
    <3> QED BY <1>1, <1>8, <2>4, <3>1, SwitchFeeds
  <2> QED BY <2>1, <2>2, <2>3, <2>4
<1>9. CASE m = "window"
  <2>1. s \in {"window_pkt", "window_byte"}
    BY <1>1, <1>9, SMT DEF Governs
  <2>2. CASE s = "window_pkt"
    <3>1. d \in {"windows"}
      BY <2>2, SMT DEF Reads
    <3> QED BY <1>1, <1>9, <2>2, <3>1, SwitchFeeds
  <2>3. CASE s = "window_byte"
    <3>1. d \in {"windows"}
      BY <2>3, SMT DEF Reads
    <3> QED BY <1>1, <1>9, <2>3, <3>1, SwitchFeeds
  <2> QED BY <2>1, <2>2, <2>3
<1>10. CASE m = "behavior"
  <2>1. s \in {"behavior_basic", "behavior_pattern", "behavior_bitrate"}
    BY <1>1, <1>10, SMT DEF Governs
  <2>2. CASE s = "behavior_basic"
    <3>1. d \in {"counters"}
      BY <2>2, SMT DEF Reads
    <3> QED BY <1>1, <1>10, <2>2, <3>1, SwitchFeeds
  <2>3. CASE s = "behavior_pattern"
    <3>1. d \in {"counters", "iat_stats", "tcp", "windows"}
      BY <2>3, SMT DEF Reads
    <3> QED BY <1>1, <1>10, <2>3, <3>1, SwitchFeeds, GapsAre
  <2>4. CASE s = "behavior_bitrate"
    <3>1. d \in {"windows"}
      BY <2>4, SMT DEF Reads
    <3> QED BY <1>1, <1>10, <2>4, <3>1, SwitchFeeds
  <2> QED BY <2>1, <2>2, <2>3, <2>4
<1> QED BY <1>1, Masters, <1>2, <1>3, <1>4, <1>5, <1>6, <1>7, <1>8, <1>9, <1>10
(* Where no switch is overridden, a section that is on is reached.         *)
LEMMA SectionIsReached ==
  ASSUME NEW on, Overridden(on) = {}, NEW s \in on,
         NEW m \in Master, s \in Governs[m]
  PROVE  s \in Sections(on)
<1>1. m \in on
  BY DEF Overridden
<1> QED BY <1>1 DEF Sections

LEMMA OnIsReached ==
  ASSUME NEW on, Overridden(on) = {}, NEW s \in on,
         s \in {"basic_ratios", "basic_payload_dir", "basic_first_n",
                "basic_pkt_length", "iat_stats", "iat_fwd_bwd", "iat_active",
                "iat_response", "burst", "protocol_tcp_flags",
                "protocol_tcp_window", "protocol_ip", "protocol_udp",
                "protocol_port", "payload_size", "payload_content",
                "payload_hist", "payload_magic", "payload_stats",
                "sequence_stats", "raw_sequences", "chunk_sequences",
                "rate_sequences", "fft_global", "fft_fwd", "fft_bwd",
                "window_pkt", "window_byte", "behavior_basic",
                "behavior_pattern", "behavior_bitrate"}
  PROVE  s \in Sections(on)
<1>1. CASE s \in {"basic_ratios", "basic_payload_dir", "basic_first_n",
                  "basic_pkt_length"}
  <2>1. s \in Governs["basic"]
    BY <1>1, SMT DEF Governs
  <2> QED BY <2>1, Masters, SectionIsReached
<1>2. CASE s \in {"iat_stats", "iat_fwd_bwd", "iat_active", "iat_response"}
  <2>1. s \in Governs["iat"]
    BY <1>2, SMT DEF Governs
  <2> QED BY <2>1, Masters, SectionIsReached
<1>3. CASE s \in {"burst"}
  <2>1. s \in Governs["burst"]
    BY <1>3, SMT DEF Governs
  <2> QED BY <2>1, Masters, SectionIsReached
<1>4. CASE s \in {"protocol_tcp_flags", "protocol_tcp_window", "protocol_ip",
                  "protocol_udp", "protocol_port"}
  <2>1. s \in Governs["protocol"]
    BY <1>4, SMT DEF Governs
  <2> QED BY <2>1, Masters, SectionIsReached
<1>5. CASE s \in {"payload_size", "payload_content", "payload_hist",
                  "payload_magic", "payload_stats"}
  <2>1. s \in Governs["payload"]
    BY <1>5, SMT DEF Governs
  <2> QED BY <2>1, Masters, SectionIsReached
<1>6. CASE s \in {"sequence_stats", "raw_sequences", "chunk_sequences",
                  "rate_sequences"}
  <2>1. s \in Governs["sequence"]
    BY <1>6, SMT DEF Governs
  <2> QED BY <2>1, Masters, SectionIsReached
<1>7. CASE s \in {"fft_global", "fft_fwd", "fft_bwd"}
  <2>1. s \in Governs["fft"]
    BY <1>7, SMT DEF Governs
  <2> QED BY <2>1, Masters, SectionIsReached
<1>8. CASE s \in {"window_pkt", "window_byte"}
  <2>1. s \in Governs["window"]
    BY <1>8, SMT DEF Governs
  <2> QED BY <2>1, Masters, SectionIsReached
<1>9. CASE s \in {"behavior_basic", "behavior_pattern", "behavior_bitrate"}
  <2>1. s \in Governs["behavior"]
    BY <1>9, SMT DEF Governs
  <2> QED BY <2>1, Masters, SectionIsReached
<1> QED BY <1>1, <1>2, <1>3, <1>4, <1>5, <1>6, <1>7, <1>8, <1>9

LEMMA Data ==
  Datum = {"counters", "length_counts", "iat_stats", "active_idle",
           "resp_delays", "ip", "ports", "tcp", "udp_lens", "payload_magic",
           "payload_stats", "bursts", "bigrams", "fwd_bwd_pkt_lens",
           "pkt_len_seq", "first_n", "payload_dir", "dir_seq", "ts_seq",
           "l3_l4_payload_seq", "fwd_bwd_iats", "iat_seq", "windows"}
BY SMT DEF Datum, CollectedIf

(* Whatever a configuration that overrides nothing has collected, a        *)
(* section that is reached reads.                                          *)
LEMMA FedIsRead ==
  ASSUME NEW on \in SUBSET Switch, Overridden(on) = {},
         NEW d \in Datum \ {"counters"}, Fed(d, on)
  PROVE  \E s \in Sections(on) : d \in Reads[s]
<1>1. CASE d = "length_counts"
  <2>1. "basic_pkt_length" \in on
    BY <1>1, FedAre DEF AnyOn
  <2>2. d \in Reads["basic_pkt_length"]
    BY <1>1, SMT DEF Reads
  <2>3. "basic_pkt_length" \in Sections(on)
    BY <2>1, OnIsReached
  <2> QED BY <2>2, <2>3
<1>2. CASE d = "iat_stats"
  <2>1. "iat_stats" \in on
    BY <1>2, FedAre DEF AnyOn
  <2>2. d \in Reads["iat_stats"]
    BY <1>2, SMT DEF Reads
  <2>3. "iat_stats" \in Sections(on)
    BY <2>1, OnIsReached
  <2> QED BY <2>2, <2>3
<1>3. CASE d = "active_idle"
  <2>1. "iat_active" \in on
    BY <1>3, FedAre DEF AnyOn
  <2>2. d \in Reads["iat_active"]
    BY <1>3, SMT DEF Reads
  <2>3. "iat_active" \in Sections(on)
    BY <2>1, OnIsReached
  <2> QED BY <2>2, <2>3
<1>4. CASE d = "resp_delays"
  <2>1. "iat_response" \in on
    BY <1>4, FedAre DEF AnyOn
  <2>2. d \in Reads["iat_response"]
    BY <1>4, SMT DEF Reads
  <2>3. "iat_response" \in Sections(on)
    BY <2>1, OnIsReached
  <2> QED BY <2>2, <2>3
<1>5. CASE d = "ip"
  <2>1. "protocol_ip" \in on
    BY <1>5, FedAre DEF AnyOn
  <2>2. d \in Reads["protocol_ip"]
    BY <1>5, SMT DEF Reads
  <2>3. "protocol_ip" \in Sections(on)
    BY <2>1, OnIsReached
  <2> QED BY <2>2, <2>3
<1>6. CASE d = "ports"
  <2>1. "protocol_port" \in on
    BY <1>6, FedAre DEF AnyOn
  <2>2. d \in Reads["protocol_port"]
    BY <1>6, SMT DEF Reads
  <2>3. "protocol_port" \in Sections(on)
    BY <2>1, OnIsReached
  <2> QED BY <2>2, <2>3
<1>7. CASE d = "tcp"
  <2>1. PICK s \in {"protocol_tcp_flags", "protocol_tcp_window"} :
          s \in on
    BY <1>7, FedAre DEF AnyOn
  <2>2. d \in Reads[s]
    BY <1>7, SMT DEF Reads
  <2>3. s \in Sections(on)
    BY <2>1, OnIsReached
  <2> QED BY <2>2, <2>3
<1>8. CASE d = "udp_lens"
  <2>1. "protocol_udp" \in on
    BY <1>8, FedAre DEF AnyOn
  <2>2. d \in Reads["protocol_udp"]
    BY <1>8, SMT DEF Reads
  <2>3. "protocol_udp" \in Sections(on)
    BY <2>1, OnIsReached
  <2> QED BY <2>2, <2>3
<1>9. CASE d = "payload_magic"
  <2>1. "payload_magic" \in on
    BY <1>9, FedAre DEF AnyOn
  <2>2. d \in Reads["payload_magic"]
    BY <1>9, SMT DEF Reads
  <2>3. "payload_magic" \in Sections(on)
    BY <2>1, OnIsReached
  <2> QED BY <2>2, <2>3
<1>10. CASE d = "payload_stats"
  <2>1. "payload_stats" \in on
    BY <1>10, FedAre DEF AnyOn
  <2>2. d \in Reads["payload_stats"]
    BY <1>10, SMT DEF Reads
  <2>3. "payload_stats" \in Sections(on)
    BY <2>1, OnIsReached
  <2> QED BY <2>2, <2>3
<1>11. CASE d = "bursts"
  <2>1. "burst" \in on
    BY <1>11, FedAre DEF AnyOn
  <2>2. d \in Reads["burst"]
    BY <1>11, SMT DEF Reads
  <2>3. "burst" \in Sections(on)
    BY <2>1, OnIsReached
  <2> QED BY <2>2, <2>3
<1>12. CASE d = "bigrams"
  <2>1. "sequence_stats" \in on
    BY <1>12, FedAre DEF AnyOn
  <2>2. d \in Reads["sequence_stats"]
    BY <1>12, SMT DEF Reads
  <2>3. "sequence_stats" \in Sections(on)
    BY <2>1, OnIsReached
  <2> QED BY <2>2, <2>3
<1>13. CASE d = "fwd_bwd_pkt_lens"
  <2>1. PICK s \in {"basic_pkt_length", "fft_fwd", "fft_bwd"} :
          s \in on
    BY <1>13, FedAre DEF AnyOn
  <2>2. d \in Reads[s]
    BY <1>13, SMT DEF Reads
  <2>3. s \in Sections(on)
    BY <2>1, OnIsReached
  <2> QED BY <2>2, <2>3
<1>14. CASE d = "pkt_len_seq"
  <2>1. PICK s \in {"fft_global", "sequence_stats", "raw_sequences",
                    "chunk_sequences", "rate_sequences"} :
          s \in on
    BY <1>14, FedAre DEF AnyOn
  <2>2. d \in Reads[s]
    BY <1>14, SMT DEF Reads
  <2>3. s \in Sections(on)
    BY <2>1, OnIsReached
  <2> QED BY <2>2, <2>3
<1>15. CASE d = "first_n"
  <2>1. "basic_first_n" \in on
    BY <1>15, FedAre
  <2>2. d \in Reads["basic_first_n"]
    BY <1>15, SMT DEF Reads
  <2>3. "basic_first_n" \in Sections(on)
    BY <2>1, OnIsReached
  <2> QED BY <2>2, <2>3
<1>16. CASE d = "payload_dir"
  <2>1. "basic_payload_dir" \in on
    BY <1>16, FedAre
  <2>2. d \in Reads["basic_payload_dir"]
    BY <1>16, SMT DEF Reads
  <2>3. "basic_payload_dir" \in Sections(on)
    BY <2>1, OnIsReached
  <2> QED BY <2>2, <2>3
<1>17. CASE d = "dir_seq"
  <2>1. PICK s \in {"sequence_stats", "raw_sequences", "chunk_sequences",
                    "rate_sequences"} :
          s \in on
    BY <1>17, FedAre DEF AnyOn
  <2>2. d \in Reads[s]
    BY <1>17, SMT DEF Reads
  <2>3. s \in Sections(on)
    BY <2>1, OnIsReached
  <2> QED BY <2>2, <2>3
<1>18. CASE d = "ts_seq"
  <2>1. PICK s \in {"chunk_sequences", "rate_sequences"} :
          s \in on
    BY <1>18, FedAre DEF AnyOn
  <2>2. d \in Reads[s]
    BY <1>18, SMT DEF Reads
  <2>3. s \in Sections(on)
    BY <2>1, OnIsReached
  <2> QED BY <2>2, <2>3
<1>19. CASE d = "l3_l4_payload_seq"
  <2>1. "raw_sequences" \in on
    BY <1>19, FedAre DEF AnyOn
  <2>2. d \in Reads["raw_sequences"]
    BY <1>19, SMT DEF Reads
  <2>3. "raw_sequences" \in Sections(on)
    BY <2>1, OnIsReached
  <2> QED BY <2>2, <2>3
<1>20. CASE d = "fwd_bwd_iats"
  <2>1. "iat_fwd_bwd" \in on
    BY <1>20, FedAre
  <2>2. d \in Reads["iat_fwd_bwd"]
    BY <1>20, SMT DEF Reads
  <2>3. "iat_fwd_bwd" \in Sections(on)
    BY <2>1, OnIsReached
  <2> QED BY <2>2, <2>3
<1>21. CASE d = "iat_seq"
  <2>1. PICK s \in {"iat_stats", "sequence_stats", "raw_sequences"} :
          s \in on
    BY <1>21, FedAre DEF AnyOn
  <2>2. d \in Reads[s]
    BY <1>21, SMT DEF Reads
  <2>3. s \in Sections(on)
    BY <2>1, OnIsReached
  <2> QED BY <2>2, <2>3
<1>22. CASE d = "windows"
  <2>1. PICK s \in {"window_pkt", "window_byte", "behavior_pattern", "behavior_bitrate"} :
          s \in on
    BY <1>22, FedAre DEF AnyOn
  <2>2. d \in Reads[s]
    BY <1>22, SMT DEF Reads
  <2>3. s \in Sections(on)
    BY <2>1, OnIsReached
  <2> QED BY <2>2, <2>3
<1> QED
  BY Data, <1>1, <1>2, <1>3, <1>4, <1>5, <1>6, <1>7, <1>8, <1>9, <1>10,
     <1>11, <1>12, <1>13, <1>14, <1>15, <1>16, <1>17, <1>18, <1>19, <1>20,
     <1>21, <1>22
-----------------------------------------------------------------------------
(* What a flow has collected is what its packets offered and the switches  *)
(* admit; a record has the sections of the configuration.                  *)
SwitchesInv ==
  /\ cfg \in SUBSET Switch
  /\ carried \subseteq Datum
  /\ \A d \in carried : d \in collected <=> Fed(d, cfg)
  /\ collected \subseteq carried
  /\ emitted = IF phase = "closed" THEN Sections(cfg) ELSE {}

LEMMA SwitchesInvInit == Init => SwitchesInv
BY SwitchConstants DEF Init, SwitchesInv

LEMMA SwitchesInvStep == SwitchesInv /\ [Next]_vars => SwitchesInv'
<1> SUFFICES ASSUME SwitchesInv, [Next]_vars PROVE SwitchesInv'
  OBVIOUS
<1>1. CASE UNCHANGED vars
  BY <1>1, Zenon DEF vars, SwitchesInv, Fed, Flags
<1>2. CASE Close
  BY <1>2, Zenon DEF Close, SwitchesInv, Fed, Flags
<1>3. ASSUME NEW p \in Packets, Packet(p) PROVE SwitchesInv'
  <2>1. /\ carried' = carried \cup Carried(p)
        /\ collected' = collected \cup Collected(p, cfg)
        /\ cfg' = cfg /\ emitted' = emitted
        /\ phase # "closed" /\ phase' # "closed"
    BY <1>3 DEF Packet
  <2>2. Carried(p) \subseteq Datum
    BY DEF Carried
  <2>3. \A d : d \in Collected(p, cfg) <=> d \in Carried(p) /\ Fed(d, cfg)
    BY DEF Collected, Fed
  <2>4. \A d \in carried' : d \in collected' <=> Fed(d, cfg)
    BY <2>1, <2>3 DEF SwitchesInv
  <2>5. carried' \subseteq Datum /\ collected' \subseteq carried'
    BY <2>1, <2>2, <2>3 DEF SwitchesInv
  <2>6. emitted' = {}
    BY <2>1 DEF SwitchesInv
  <2> QED BY <2>1, <2>4, <2>5, <2>6, Zenon DEF SwitchesInv
<1> QED BY <1>1, <1>2, <1>3 DEF Next

(* For every configuration and every mix of packets, a section of the      *)
(* record reads what the packets were made to collect, but for the known   *)
(* gaps: the derived flags of feat_config_read cover the readers in        *)
(* flow_state_compute_features.                                            *)
THEOREM SectionsFindTheirData == Spec => []SectionsReadCollected
<1>1. SwitchesInv => SectionsReadCollected
  <2> SUFFICES ASSUME SwitchesInv, NEW s \in emitted, NEW d \in Reads[s] \cap carried
               PROVE  d \in collected \/ << s, d >> \in KnownGaps
    BY DEF SectionsReadCollected
  <2>1. s \in Sections(cfg) /\ cfg \in SUBSET Switch
    BY DEF SwitchesInv
  <2> QED BY <2>1, SectionIsFed DEF SwitchesInv
<1> QED BY SwitchesInvInit, SwitchesInvStep, <1>1, PTL DEF Spec

(* Whatever the switches, as long as none is overridden by its master: no  *)
(* packet adds to data that no section of the record reads.                *)
THEOREM NothingCollectedInVain == Spec => []CollectedIsRead
<1>1. SwitchesInv => CollectedIsRead
  <2> SUFFICES ASSUME SwitchesInv, phase = "closed", Overridden(cfg) = {},
                      NEW d \in collected
               PROVE  d = "counters" \/ d \in UNION {Reads[s] : s \in emitted}
    BY DEF CollectedIsRead
  <2>1. /\ cfg \in SUBSET Switch /\ d \in Datum /\ Fed(d, cfg)
        /\ emitted = Sections(cfg)
    BY DEF SwitchesInv
  <2>2. d = "counters" \/ \E s \in emitted : d \in Reads[s]
    BY <2>1, FedIsRead
  <2> QED BY <2>2
<1> QED BY SwitchesInvInit, SwitchesInvStep, <1>1, PTL DEF Spec
=============================================================================
