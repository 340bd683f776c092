----------------------------- MODULE FlowMeters -----------------------------
(***************************************************************************)
(* The DATA branch of traffic_process, src/src/ti_features.cpp 493-695, as *)
(* far as the calculators that keep time go: for each packet the pool is   *)
(* asked for more room first, then every calculator is given the packet.   *)
(* They share the pool and last_arrival_us, which calc_iat_update moves    *)
(* and calc_burst_update is given the gap from.                            *)
(***************************************************************************)
EXTENDS WindowStats, BurstDetector, IatTracker

vars == << streamVars, windowVars, burstVars, iatVars >>

Init == StreamInit /\ WindowInit /\ BurstInit /\ IatInit

Data(p, allocated) ==
  LET after == PoolAfterPacket(allocated)
  IN  /\ Len(arrivals) < MaxPackets
      /\ pool' = after
      /\ IatPacket(p, after.seq_len)
      /\ BurstPacket(p, after.seq_len)
      /\ WindowPacket(p)
      /\ arrivals' = Append(arrivals, p)
      /\ UNCHANGED cfg

Next == \E p \in Packets, allocated \in BOOLEAN : Data(p, allocated)

Spec == Init /\ [][Next]_vars
=============================================================================
