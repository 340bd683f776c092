----------------------------- MODULE MCPoolLife -----------------------------
(***************************************************************************)
(* PoolLife for TLC: levels of 8, 16, 24 and 40 packets, multiples of      *)
(* eight as in the code, and a packet counter that saturates a little      *)
(* above the largest of them.                                              *)
(***************************************************************************)
EXTENDS PoolLife

MCSeqLen == [l \in 0 .. 3 |-> << 8, 16, 24, 40 >>[l + 1]]
=============================================================================
