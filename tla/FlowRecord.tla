----------------------------- MODULE FlowRecord -----------------------------
(* The features of one TCP flow over IPv4, with every switch on: what the  *)
(* DATA branch of traffic_process collects of each packet, and what        *)
(* flow_state_compute_features makes of it when the flow closes            *)
(* (src/src/ti_features.cpp).  Features of times are in FlowMeters.        *)
(*                                                                         *)
(* A ring is the sequence of its newest elements, which is what            *)
(* SequenceRing shows a reader to see.  What becomes of the pool's         *)
(* requests for memory is given beforehand, by packet.                     *)
EXTENDS MemoryPool, LengthFeatures, ProtocolCounters, PayloadContent,
        SequenceFeatures, Spectrum

CONSTANTS
  Packets,       \* the packets that may arrive
  Supplies,      \* what may become of the upgrades, by packet
  MaxPackets     \* bound: the packets of the flow

(* An upgrade is denied, or has no snapshot of the rings of a set.         *)
Denied == [granted |-> FALSE, lost |-> {}]
GrantedBut(lost) == [granted |-> TRUE, lost |-> lost]

ASSUME RecordConstants ==
  /\ CountSpan = UIntMax + 1
  /\ TimeSpan \in Nat
  /\ MaxPackets \in Nat
  /\ RateWindow \in Nat \ {0} /\ FirstBytes \in Nat
  /\ \A p \in Packets :
       /\ p.ts \in 1 .. TimeSpan - 1 /\ p.seq \in 0 .. CountSpan - 1
       /\ p.dir \in Way \cup {"unknown"} /\ p.pay \in Seq(0 .. 255)
       /\ p.l3 \in Nat /\ p.l4 \in Nat /\ p.len \in 0 .. EmptyMin
       /\ p.l3 + p.l4 + Len(p.pay) <= p.len
       /\ 2 * p.len < CountSpan
  /\ Supplies \subseteq [1 .. MaxPackets -> {Denied} \cup {GrantedBut(r) : r \in SUBSET Ring}]

VARIABLES
  supply,        \* what becomes of this flow's upgrades
  flow,          \* flow_feature_state_t
  record,        \* the features, once the flow has closed
  arrivals       \* history: every packet

vars == <<supply, flow, record, arrivals>>

NoRecord == [closed |-> FALSE]
-----------------------------------------------------------------------------
DirValue == [fwd |-> 1, bwd |-> -1, unknown |-> 0]

(* What a packet pushes to each ring: one element or none.                 *)
Pushes(f, p) ==
  LET pay == Len(p.pay)
      always == [ pkt_len_seq |-> p.len, dir_seq |-> DirValue[p.dir], ts_seq |-> p.ts,
                  l3_len_seq |-> p.l3, l4_len_seq |-> p.l4, payload_len_seq |-> pay,
                  ip_ttl_seq |-> p.ttl, ip_tos_seq |-> p.tos, tcp_window_seq |-> p.win ]
      pushed(r) ==
        CASE r \in DOMAIN always -> <<always[r]>>
          [] r = "iat_seq" /\ f.last_arrival_us > 0 ->
               <<(p.ts - f.last_arrival_us) % TimeSpan>>
          [] r = "payload_size_seq" /\ pay > 0 -> <<pay>>
          [] r = "payload_size_diff_seq" /\ pay > 0 /\ f.payload.last_len # NoLength ->
               <<SizeChange(f.payload, p.pay)>>
          [] OTHER -> <<>>
  IN  [r \in Ring |-> pushed(r)]

Newest(seq, n) == SubSeq(seq, Max({1, Len(seq) - n + 1}), Len(seq))

(* The flow once the pool was asked for more room, with the n-th supply.   *)
MadeRoom(f, n) ==
  LET counted == CheckUpgrade(f.pool)
      moved   == UpgradeDue(counted) /\ supply[n].granted
  IN  [f EXCEPT !.pool = IF moved THEN Upgrade(counted, counted.level + 1, TRUE) ELSE counted,
                !.ring = IF moved THEN [r \in Ring |-> IF r \in supply[n].lost THEN <<>> ELSE @[r]]
                         ELSE @]

(* The rest of the DATA branch: the calculators one after the other.       *)
Collected(f, p) ==
  LET room  == f.pool.seq_len
      class == SizeClass(p.len)
  IN  [ pool     |-> f.pool,
        ring     |-> [r \in Ring |-> Newest(f.ring[r] \o Pushes(f, p)[r], room)],
        last_arrival_us |-> p.ts,
        lengths  |-> LengthUpdate(f.lengths, p, room),
        tcp      |-> TcpUpdate(f.tcp, p),
        ip       |-> IpUpdate(f.ip, p),
        ports    |-> PortUpdate(f.ports),
        win_stats |-> Sampled(f.win_stats, p.win),
        ttl_stats |-> Sampled(f.ttl_stats, p.ttl),
        tos_stats |-> Sampled(f.tos_stats, p.tos),
        payload  |-> IF p.pay = <<>> THEN f.payload ELSE PayloadUpdate(f.payload, p.pay),
        bigrams  |-> [f.bigrams EXCEPT ![<<f.last_class, class>>] = @ + 1],
        last_class |-> class ]

(* flow_state_compute_features; the memory of the rate sequences grows     *)
(* with the time between the oldest and the newest packet, and may not be  *)
(* there.                                                                  *)
Computed(f, allocated) ==
  LET ring    == f.ring
      max_len == TempLen(f.pool.seq_len)
      lens    == ring.pkt_len_seq
      dirs    == ring.dir_seq
      times   == ring.ts_seq
  IN  [ closed   |-> TRUE,
        basic    |-> LengthSections(f.lengths, max_len),
        tcp      |-> TcpFlagsSection(f.tcp),
        windows  |-> SampledSection(f.win_stats, ring.tcp_window_seq),
        ttl      |-> TtlSection(f.ttl_stats, ring.ip_ttl_seq),
        tos      |-> SampledSection(f.tos_stats, ring.ip_tos_seq),
        ports    |-> PortSection(f.tcp, f.ip, f.ports, f.lengths.packets),
        payload  |-> PayloadSections(f.payload, ring.payload_size_seq,
                                     ring.payload_size_diff_seq, f.lengths.packets),
        sequence |-> SequenceSection(lens, dirs, ring.iat_seq, f.bigrams),
        composite |-> Composite(lens, ring.l3_len_seq, ring.l4_len_seq, ring.payload_len_seq,
                                ring.iat_seq),
        chunks   |-> ChunkSection(times, lens, dirs),
        rates    |-> RateSection(times, lens, dirs, allocated),
        fft      |-> [all |-> FrequencySection(lens),
                      fwd |-> FrequencySection(f.lengths.pkt_lens["fwd"]),
                      bwd |-> FrequencySection(f.lengths.pkt_lens["bwd"])] ]
-----------------------------------------------------------------------------
Init ==
  /\ supply \in Supplies
  /\ flow = [ pool |-> PoolOfLevel(Tiny, 0), ring |-> [r \in Ring |-> <<>>],
              last_arrival_us |-> 0, lengths |-> NoLengths, tcp |-> NoTcp, ip |-> NoIp,
              ports |-> NoPorts, win_stats |-> NoSamples, ttl_stats |-> NoSamples,
              tos_stats |-> NoSamples, payload |-> NoPayload,
              bigrams |-> [pair \in ToSet(Bigrams) |-> 0], last_class |-> "s" ]
  /\ record = NoRecord
  /\ arrivals = <<>>

(* DATA, or PENDING once the state is there.                               *)
Data(p) ==
  /\ ~record.closed /\ Len(arrivals) < MaxPackets
  /\ flow' = Collected(MadeRoom(flow, Len(arrivals) + 1), p)
  /\ arrivals' = Append(arrivals, p)
  /\ UNCHANGED <<supply, record>>

(* CLOSE, which only follows a packet: the first one makes the state.      *)
Close ==
  /\ ~record.closed /\ arrivals # <<>>
  /\ \E allocated \in BOOLEAN : record' = Computed(flow, allocated)
  /\ UNCHANGED <<supply, flow, arrivals>>

Next == Close \/ \E p \in Packets : Data(p)

Spec == Init /\ [][Next]_vars
-----------------------------------------------------------------------------
(* The lengths of each direction, the sizes of payloads and all bytes of   *)
(* payloads, each in the order of the packets.                             *)
Seen(s, p) ==
  [ lens  |-> [d \in Way |-> IF p.dir = d THEN Append(s.lens[d], p.len) ELSE s.lens[d]],
    sizes |-> IF p.pay = <<>> THEN s.sizes ELSE Append(s.sizes, Len(p.pay)),
    bytes |-> s.bytes \o p.pay ]
History ==
  FoldLeft(Seen, [lens |-> [d \in Way |-> <<>>], sizes |-> <<>>, bytes |-> <<>>], arrivals)

InOrder == \A i, j \in 1 .. Len(arrivals) : i < j => arrivals[i].ts <= arrivals[j].ts

(* So far no snapshot was lost, and no request for room was denied.        *)
NothingLost == \A n \in 1 .. Len(arrivals) : supply[n].lost = {}
NeverDenied == \A n \in 1 .. Len(arrivals) : supply[n].granted

(* The packets with payload of a direction, and the resets.                *)
PayloadOf(d) == {i \in 1 .. Len(arrivals) : arrivals[i].dir = d /\ arrivals[i].pay # <<>>}
Resets == {i \in 1 .. Len(arrivals) : "rst" \in arrivals[i].flags}

(* Retransmissions are counted exactly when the payload of a direction     *)
(* does not come in ascending sequence numbers, whatever the other         *)
(* direction and packets without payload do in between.  The intervals of  *)
(* resets add up to the time from the first reset to the last while time   *)
(* does not go back.                                                       *)
TcpCountersAgree ==
  LET t == flow.tcp
  IN  /\ t.retransmissions = 0 <=>
           \A d \in Way : \A i, j \in PayloadOf(d) : i < j => arrivals[i].seq < arrivals[j].seq
      /\ t.retransmissions <= t.payload
      /\ t.ack_only + t.payload <= t.packets
      /\ InOrder => \A i, j \in Resets :
           (\A k \in Resets : i <= k /\ k <= j)
             => t.rst_interval_sum = arrivals[j].ts - arrivals[i].ts

(* The packets of a direction.                                             *)
OfWay(d) == {i \in 1 .. Len(arrivals) : arrivals[i].dir = d}

(* What the report keeps of a direction's lengths.  While memory is there, *)
(* or nothing was dropped, the array holds the first packets; it drops     *)
(* none before it is full.  The mean of the array is then that of the      *)
(* direction's counters, and the extremes are those of all packets even    *)
(* when the array dropped some.                                            *)
LengthsExact ==
  record.closed => \A d \in Way :
    LET own     == OfWay(d)
        array   == flow.lengths.pkt_lens[d]
        section == record.basic.pkt_length[d]
        whole   == Len(array) = Cardinality(own)
    IN  /\ Len(array) <= Cardinality(own)
        /\ ~whole => Len(array) >= SeqLen[Tiny]
        /\ whole \/ NeverDenied =>
             \A i \in own : Rank(own, i) <= Len(array) => array[Rank(own, i)] = arrivals[i].len
        /\ section # <<>> =>
             /\ whole => section[1].mean = record.basic.ratios.dir_avg[d]
             /\ section[1].min = Min({arrivals[i].len : i \in own})
             /\ section[1].max = Max({arrivals[i].len : i \in own})

(* The sequences of a report cut the same packets in different ways: runs, *)
(* chunks and, where there was memory for them, rates account for each     *)
(* packet and byte the rings still have once, with packets out of order    *)
(* too, and the composite sequence puts the parts of one packet together,  *)
(* with the time since the packet before it while no ring has wrapped. The *)
(* bigrams count every packet once.                                        *)
SequencesAligned ==
  record.closed =>
    LET lens == flow.ring.pkt_len_seq
        dirs == flow.ring.dir_seq
        n    == Len(lens)
        kept == [i \in 1 .. n |-> arrivals[Len(arrivals) - n + i]]
        bytesOf(sign) == Total([i \in 1 .. n |-> IF dirs[i] = sign THEN lens[i] ELSE 0])
    IN  /\ NothingLost =>
             /\ Total(RunLengths(lens)) = n
             /\ record.chunks # <<>> /\ Total(record.chunks[1]) = Total(lens)
             /\ record.rates # <<>> /\ RatesInReach(flow.ring.ts_seq) =>
                  /\ Total(record.rates[1].up) = bytesOf(1)
                  /\ Total(record.rates[1].down) = bytesOf(-1)
             /\ Len(record.composite) = n
             /\ \A i \in 1 .. n : LET e == record.composite[i]
                                  IN  /\ e.l2 + e.l3 + e.l4 + e.payload = kept[i].len
                                      /\ e.payload = Len(kept[i].pay)
        /\ NothingLost /\ n = Len(arrivals) =>
             \A i \in 2 .. n :
               record.composite[i].iat = (arrivals[i].ts - arrivals[i - 1].ts) % TimeSpan
        /\ Total([k \in 1 .. 9 |-> flow.bigrams[Bigrams[k]]]) = Len(arrivals)

(* The online statistics are those of all packets: the means and the       *)
(* variances of lengths and payload sizes are exact, in whatever order and *)
(* however many upgrades.  The histograms, the first bytes and the         *)
(* quartiles agree with the bytes themselves, the marks of protocols with  *)
(* the heuristics, and the quartiles of lengths lie between the extremes.  *)
StatisticsAgree ==
  LET c     == flow.payload
      seen  == History
      sizes == seen.sizes
      bytes == seen.bytes
      n     == Len(bytes)
  IN  /\ \A d \in Way :
           LET lens == seen.lens[d]
           IN  lens # <<>> =>
                 /\ flow.lengths.len_stats[d].mean = Mean(lens)
                 /\ RunningVariance(flow.lengths.len_stats[d]) = Variance(lens)
                 /\ BagOf(flow.lengths.pkt_lens[d]) \sqsubseteq BagOf(lens)
      /\ record.closed => \A d \in Way :
           record.basic.pkt_length[d] # <<>> =>
             LET s == record.basic.pkt_length[d][1]
             IN  /\ AtMost(Whole(s.min), s.quartiles[1])
                 /\ AtMost(s.quartiles[1], s.quartiles[2])
                 /\ AtMost(s.quartiles[2], s.quartiles[3])
                 /\ AtMost(s.quartiles[3], Whole(s.max))
      /\ sizes # <<>> =>
           /\ c.size_stats.mean = Mean(sizes)
           /\ RunningVariance(c.size_stats) = Variance(sizes)
           /\ c.size_stats.min = Min(ToSet(sizes)) /\ c.size_stats.max = Max(ToSet(sizes))
           /\ c.diff_stats.count = Len(sizes) - 1
           /\ c.total = n /\ BytesIn(c.hist) = n
           /\ \A b \in DOMAIN c.hist_full : c.hist_full[b] <= c.hist[b \div 16]
           /\ c.first = SubSeq(bytes, 1, Min({n, FirstBytes}))
           /\ \A i \in 1 .. 3 : HistQuartiles(c.hist_full)[i]
                                  = Sorted(bytes)[(25 * i * (n - 1)) \div 100 + 1]
           /\ \A mark \in {<<"http_get", "http">>, <<"tls_1_2", "tls">>, <<"ssh", "ssh">>} :
                mark[1] \in c.magic => mark[2] \in c.looks

(* The frequencies reported first are the strongest, each named once, and  *)
(* nothing stronger is left out, ties and missing samples included; so are *)
(* the bigrams reported first the most frequent of the nine.               *)
TopFrequencies ==
  record.closed =>
    /\ \A which \in DOMAIN record.fft : record.fft[which] # <<>> =>
         LET s     == record.fft[which][1]
             used  == {j \in 1 .. K : s.top[j] # -1}
             freqs == {s.top[j] : j \in used}
         IN  Cardinality(DOMAIN s.mags) > 1 =>
               /\ Cardinality(freqs) = Cardinality(used)
               /\ used = 1 .. Min({K, Cardinality(DOMAIN s.mags) - 1})
               /\ \A i, j \in used : i < j => ~Greater(s.mags[s.top[j]], s.mags[s.top[i]])
               /\ \A k \in DOMAIN s.mags \ (freqs \cup {0}), j \in used :
                    ~Greater(s.mags[k], s.mags[s.top[j]])
               /\ s.psd_peak = s.mags[s.top[1]]
    /\ LET top   == record.sequence.bigrams
           named == {top[k].name : k \in 1 .. 5}
       IN  /\ Cardinality(named) = 5
           /\ \A k \in 1 .. 4 : AtMost(top[k + 1].freq, top[k].freq)
           /\ \A b \in ToSet(Bigrams) \ named, k \in named : flow.bigrams[b] <= flow.bigrams[k]
=============================================================================
