---------------------------- MODULE PacketStream ----------------------------
(***************************************************************************)
(* What traffic_process (src/src/ti_features.cpp) hands to the calculators *)
(* of a flow: its packets, one at a time, the configuration, and how many  *)
(* elements the flow's arrays have at that moment.                         *)
(*                                                                         *)
(* A packet's time is never 0: the code takes 0 for "no packet yet".       *)
(***************************************************************************)
EXTENDS MemoryPool, Sums, FiniteSets

CONSTANTS
  LLongSpan,       \* 2^64
  Packets,         \* the packets that may arrive
  Configurations,  \* the configurations the plugin may be started with
  MaxPackets       \* bound: the packets of the flow

Direction == {"fwd", "bwd", "unknown"}

Packet == [ts : 1 .. LLongSpan - 1, len : 0 .. UIntMax, dir : Direction]

(* The feature switches, and flags derived from them, that guard the       *)
(* calculators.                                                            *)
Switch == { "need_window_update", "enable_burst", "enable_iat_stats",
            "need_fwd_bwd_iats", "enable_iat_active", "enable_iat_response" }

Configuration == [on : SUBSET Switch, window_size_us : Nat]

ASSUME StreamConstants ==
  /\ LLongSpan \in Nat \ {0}
  /\ Packets \subseteq Packet
  /\ Configurations \subseteq Configuration
  /\ MaxPackets \in Nat

VARIABLES
  cfg,               \* g_feat_config, written before the first flow
  pool,              \* mem_pool
  last_arrival_us,
  arrivals           \* history: every packet

streamVars == << cfg, pool, last_arrival_us, arrivals >>

(* The time from one packet to another, as an unsigned long long.          *)
Since(ts, earlier) == (ts - earlier) % LLongSpan

(* The pool after a packet: one more packet, and the block of the next     *)
(* level when that is due and its memory can be had.                       *)
PoolAfterPacket(allocated) ==
  LET counted == CheckUpgrade(pool)
  IN  IF UpgradeDue(counted)
        THEN Upgrade(counted, counted.level + 1, allocated) ELSE counted

(* What flow_mem_pool_upgrade copies of an array; without an upgrade there *)
(* is no more in it.                                                       *)
Carried(array) == SubSeq(array, 1, Min({Len(array), pool.seq_len}))

(* The packets came in the order of their times.                           *)
InOrder == \A i, j \in 1 .. Len(arrivals) : i < j => arrivals[i].ts <= arrivals[j].ts

(* The bytes of the packets at the positions of S.                         *)
BytesAt(S) == Total([i \in 1 .. Len(arrivals) |-> IF i \in S THEN arrivals[i].len ELSE 0])

StreamInit ==
  /\ cfg \in Configurations
  /\ pool = PoolOfLevel(Tiny, 0)
  /\ last_arrival_us = 0
  /\ arrivals = << >>
=============================================================================
