---------------------------- MODULE MCFlowMeters ----------------------------
(***************************************************************************)
(* FlowMeters for TLC.  The first level has room for one element, so that  *)
(* a flow that gets no memory overfills its arrays at once.  The times     *)
(* have gaps of, just above and far above the thresholds, lie on both      *)
(* sides of a window's border, and one is beyond the last window.          *)
(***************************************************************************)
EXTENDS DerivedMeters

MCSeqLen == [l \in 0 .. 3 |-> << 1, 6, 7, 8 >>[l + 1]]

MCPackets ==
  { [ts |-> 5,  len |-> 1, dir |-> "fwd"],
    [ts |-> 5,  len |-> 3, dir |-> "bwd"],
    [ts |-> 14, len |-> 3, dir |-> "bwd"],
    [ts |-> 15, len |-> 1, dir |-> "fwd"],
    [ts |-> 26, len |-> 3, dir |-> "fwd"],
    [ts |-> 26, len |-> 0, dir |-> "unknown"],
    [ts |-> 60, len |-> 1, dir |-> "bwd"] }

MCConfigurations ==
  { [on |-> Switch, window_size_us |-> 10],
    [on |-> {"need_window_update", "enable_iat_response"}, window_size_us |-> 0] }
=============================================================================
