---------------------------- MODULE MCFlowRecord ----------------------------
(***************************************************************************)
(* FlowRecord for TLC.  The packets are a handshake's first, a request, an *)
(* answer and a reset of unknown direction, each of which may be repeated, *)
(* left out and reordered; headers are one byte long.  Memory is there,    *)
(* never there, late, or there but for two snapshots.                      *)
(***************************************************************************)
EXTENDS FlowRecord

MCSeqLen == [l \in Level |-> <<2, 4, 7, 8>>[l + 1]]

Template(ts, dir, flags, seq, win, pay, l2) ==
  [ ts |-> ts, dir |-> dir, flags |-> flags, seq |-> seq, win |-> win, pay |-> pay,
    l3 |-> 1, l4 |-> 1, len |-> l2 + 2 + Len(pay), ttl |-> 64, tos |-> 0, frag |-> FALSE,
    saddr |-> IF dir = "fwd" THEN <<10, 1>> ELSE <<8, 8>>,
    daddr |-> IF dir = "fwd" THEN <<8, 8>> ELSE <<10, 1>> ]

MCPackets ==
  { Template(5,  "fwd", {"syn"}, 7, 2, <<>>, 0),
    Template(9,  "fwd", {"psh", "ack"}, 8, 3, GET \o <<47>>, 1),
    Template(9,  "bwd", {"syn", "ack"}, 4, 0, <<123, 125>>, 0),
    Template(40, "unknown", {"rst", "ack"}, 8, 3, <<>>, 1),
    Template(40, "fwd", {"ack"}, 9, 3, <<65>>, 0) }

All(n, fate) == [i \in 1 .. n |-> fate]

MCSupplies ==
  { All(MaxPackets, GrantedBut({})),
    All(MaxPackets, Denied),
    [All(MaxPackets, GrantedBut({})) EXCEPT ![1] = Denied, ![2] = Denied, ![3] = Denied],
    [All(MaxPackets, GrantedBut({})) EXCEPT ![3] = GrantedBut({"pkt_len_seq", "iat_seq"})] }
=============================================================================
