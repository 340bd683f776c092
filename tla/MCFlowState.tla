---------------------------- MODULE MCFlowState ----------------------------
(***************************************************************************)
(* FlowState for TLC: levels of 2, 4, 5 and 6 packets, so that upgrades    *)
(* are due at the first, third and fourth packet and a flow of eight       *)
(* packets can wrap its rings at every level.                              *)
(***************************************************************************)
EXTENDS FlowState

MCSeqLen == [l \in 0 .. 3 |-> << 2, 4, 5, 6 >>[l + 1]]

MCValue == 1 .. MaxPackets

MCPackets ==
  { [dir |-> "fwd", payload |-> TRUE, raw |-> TRUE],
    [dir |-> "bwd", payload |-> TRUE, raw |-> FALSE] }
=============================================================================
