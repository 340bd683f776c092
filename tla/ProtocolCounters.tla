-------------------------- MODULE ProtocolCounters --------------------------
(* What src/src/calc_protocol.cpp keeps of a flow's headers, as operators  *)
(* on a record, and what it reports of them.  A packet has the fields ts,  *)
(* dir, flags, seq, win, ttl, pay (the bytes of its payload) and the       *)
(* addresses and fragment mark of its IP header.                           *)
EXTENDS Statistics

CONSTANTS FwdPort, BwdPort   \* the flow's source and destination port

(* An unset last_tcp_window or last sequence number; the code has a flag   *)
(* beside each.                                                            *)
NoneYet == -1

NoTcp ==
  [ packets |-> 0, syn |-> 0, syn_only |-> 0, syn_ack |-> 0, fin |-> 0, rst |-> 0,
    psh |-> 0, ack |-> 0, urg |-> 0, ack_only |-> 0, payload |-> 0,
    window_updates |-> 0, zero_windows |-> 0, retransmissions |-> 0,
    last_window |-> NoneYet, last_rst_ts |-> 0, rst_interval_sum |-> 0,
    rst_intervals |-> 0, last_seq |-> [d \in Way |-> NoneYet] ]

One(condition) == IF condition THEN 1 ELSE 0

(* A payload packet whose sequence number is not above its direction's     *)
(* last one; the mutant lets an exact repetition pass.                     *)
FallsBack(t, p) ==
  /\ p.pay # <<>> /\ p.dir \in Way
  /\ t.last_seq[p.dir] # NoneYet /\ p.seq <= t.last_seq[p.dir]
FallsBackStrictly(t, p) ==
  /\ p.pay # <<>> /\ p.dir \in Way
  /\ t.last_seq[p.dir] # NoneYet /\ p.seq < t.last_seq[p.dir]

(* calc_protocol_tcp_update, given the test for retransmissions.           *)
TcpUpdateBy(Test(_, _), t, p) ==
  LET has(f)    == f \in p.flags
      bare      == p.pay = <<>>
      since_rst == has("rst") /\ t.last_rst_ts > 0 /\ p.ts > t.last_rst_ts
  IN  [ packets  |-> t.packets + 1,
        syn      |-> t.syn + One(has("syn")),
        syn_only |-> t.syn_only + One(has("syn") /\ ~has("ack")),
        syn_ack  |-> t.syn_ack + One(has("syn") /\ has("ack")),
        fin      |-> t.fin + One(has("fin")),
        rst      |-> t.rst + One(has("rst")),
        psh      |-> t.psh + One(has("psh")),
        ack      |-> t.ack + One(has("ack")),
        urg      |-> t.urg + One(has("urg")),
        ack_only |-> t.ack_only + One(has("ack") /\ bare /\ p.flags \subseteq {"ack", "urg"}),
        payload  |-> t.payload + One(~bare),
        window_updates |-> t.window_updates
                           + One(t.last_window # NoneYet /\ has("ack") /\ bare /\ p.win # t.last_window),
        zero_windows   |-> t.zero_windows + One(p.win = 0),
        retransmissions |-> t.retransmissions + One(Test(t, p)),
        last_window    |-> p.win,
        last_rst_ts    |-> IF has("rst") THEN p.ts ELSE t.last_rst_ts,
        rst_interval_sum |-> t.rst_interval_sum + (IF since_rst THEN p.ts - t.last_rst_ts ELSE 0),
        rst_intervals    |-> t.rst_intervals + One(since_rst),
        last_seq |-> IF bare \/ p.dir \notin Way THEN t.last_seq
                     ELSE [t.last_seq EXCEPT ![p.dir] = p.seq] ]

(* The mutant of TcpUpdate that lets an exact repetition pass.             *)
TcpUpdateStrictly(t, p) == TcpUpdateBy(FallsBackStrictly, t, p)

TcpUpdate(t, p) == TcpUpdateBy(FallsBack, t, p)
-----------------------------------------------------------------------------
NoIp == [src_private |-> FALSE, dst_private |-> FALSE, frags |-> 0]

(* is_private_ip, on the first two bytes of an address.                    *)
IsPrivateIp(ip) ==
  \/ ip[1] \in {10, 127}
  \/ ip[1] = 172 /\ ip[2] \in 16 .. 31
  \/ ip = <<192, 168>>

(* calc_protocol_ip_update; the TTL and the type of service also go to a   *)
(* ring and to running statistics.                                         *)
IpUpdate(h, p) ==
  [ src_private |-> IsPrivateIp(p.saddr), dst_private |-> IsPrivateIp(p.daddr),
    frags       |-> h.frags + One(p.frag) ]

NoPorts == [src |-> 0, dst |-> 0, well_known_src |-> 0, well_known_dst |-> 0]

IsWellKnownPort(port) == port < 1024

(* calc_protocol_port_update: the ports are the flow's, not the packet's.  *)
PortUpdate(q) ==
  [ src |-> FwdPort, dst |-> BwdPort,
    well_known_src |-> q.well_known_src + One(IsWellKnownPort(FwdPort)),
    well_known_dst |-> q.well_known_dst + One(IsWellKnownPort(BwdPort)) ]
-----------------------------------------------------------------------------
(* calc_derived_protocol: the sections of the flags, of TTLs, and of       *)
(* ports; those of windows, types of service and UDP lengths are sampled   *)
(* sections.                                                               *)
TcpFlagsSection(t) ==
  [ connection_success |-> Ratio(t.syn_ack, t.syn),
    half_open          |-> Ratio(t.syn - t.syn_ack, t.syn),
    syn_ratio          |-> Ratio(t.syn, t.packets),
    rst_ratio          |-> Ratio(t.rst, t.packets),
    ack_only_ratio     |-> Ratio(t.ack_only, t.packets),
    payload_ratio      |-> Ratio(t.payload, t.packets),
    syn_only_ratio     |-> Ratio(t.syn_only, t.packets) ]

CommonTtls == <<32, 64, 128, 255>>

TtlSection(stats, ring) ==
  [ stats |-> SampledSection(stats, ring),
    equal |-> [i \in 1 .. 4 |-> Len(SelectSeq(ring, LAMBDA v : v = CommonTtls[i]))] ]

PortRange(port) ==
  IF port < 1024 THEN "well_known" ELSE IF port < 49152 THEN "registered" ELSE "dynamic"

PortSection(t, h, q, total_packets) ==
  [ retransmission_rate |-> Ratio(t.retransmissions, t.payload),
    rst_interval        |-> Ratio(t.rst_interval_sum, t.rst_intervals),
    src_ip_is_private   |-> h.src_private, dst_ip_is_private |-> h.dst_private,
    fragmented          |-> h.frags > 0,
    src_ephemeral       |-> q.src >= 1024, dst_ephemeral |-> q.dst >= 1024,
    well_known_dst_ratio |-> Ratio(q.well_known_dst, total_packets),
    well_known_src_ratio |-> Ratio(q.well_known_src, total_packets),
    common_service      |-> q.dst < 1024 \/ q.src < 1024,
    quic                |-> q.dst = 443,
    src_range           |-> PortRange(q.src) ]
=============================================================================
