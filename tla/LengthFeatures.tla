--------------------------- MODULE LengthFeatures ---------------------------
(* The basic counters and lengths of a flow, src/src/calc_basic.cpp, as    *)
(* operators on a record, and what is reported of them.  A packet has the  *)
(* fields len, dir and pay (its payload).                                  *)
EXTENDS Statistics

CONSTANTS
  FirstN,       \* first_n_capacity
  SmallPkt,     \* small_pkt_threshold
  LargePkt      \* large_pkt_threshold

NoLengths ==
  [ packets |-> 0, bytes |-> 0, small |-> 0, large |-> 0, first_n |-> <<>>,
    dir_packets   |-> [d \in Way |-> 0],
    dir_bytes     |-> [d \in Way |-> 0],
    payload_bytes |-> [d \in Way |-> 0],
    payload_stats |-> [d \in Way |-> NoSamples],
    payload_sizes |-> [d \in Way |-> <<>>],
    len_stats     |-> [d \in Way |-> NoSamples],
    pkt_lens      |-> [d \in Way |-> <<>>] ]

(* An array with a count and a capacity: what does not fit is dropped.     *)
Stored(array, value, capacity) ==
  IF Len(array) < capacity THEN Append(array, value) ELSE array

AddedByWay(counts, dir, amount) ==
  [d \in Way |-> counts[d] + (IF d = dir THEN amount ELSE 0)]
StoredByWay(arrays, dir, value, capacity) ==
  [d \in Way |-> IF d = dir THEN Stored(arrays[d], value, capacity) ELSE arrays[d]]

(* calc_basic_counters and calc_packet_length_stats, for direction arrays  *)
(* of the given capacity.                                                  *)
LengthUpdate(l, p, capacity) ==
  LET n == Len(p.pay)
  IN  [ packets |-> l.packets + 1,
        bytes   |-> l.bytes + p.len,
        small   |-> l.small + (IF p.len <= SmallPkt THEN 1 ELSE 0),
        large   |-> l.large + (IF p.len >= LargePkt THEN 1 ELSE 0),
        first_n |-> Stored(l.first_n, p.len, FirstN),
        dir_packets   |-> AddedByWay(l.dir_packets, p.dir, 1),
        dir_bytes     |-> AddedByWay(l.dir_bytes, p.dir, p.len),
        payload_bytes |-> AddedByWay(l.payload_bytes, p.dir, n),
        payload_stats |-> IF n = 0 THEN l.payload_stats
                          ELSE SampledByWay(l.payload_stats, p.dir, n),
        payload_sizes |-> IF n = 0 THEN l.payload_sizes
                          ELSE StoredByWay(l.payload_sizes, p.dir, n, capacity),
        len_stats     |-> SampledByWay(l.len_stats, p.dir, p.len),
        pkt_lens      |-> StoredByWay(l.pkt_lens, p.dir, p.len, capacity) ]

(* get_pkt_size_class; a length of exactly LargePkt is a large packet to   *)
(* LengthUpdate and a medium one here.                                     *)
SizeClass(len) == IF len <= SmallPkt THEN "s" ELSE IF len <= LargePkt THEN "m" ELSE "l"
-----------------------------------------------------------------------------
Infinity == <<1, 0>>

RatioOrInfinity(num, den) == IF den > 0 THEN Fraction(num, den) ELSE Infinity

(* calc_derived_basic, section by section.                                 *)
RatiosSection(l) ==
  [ packets |-> RatioOrInfinity(l.dir_packets["fwd"], l.dir_packets["bwd"]),
    bytes   |-> RatioOrInfinity(l.dir_bytes["fwd"], l.dir_bytes["bwd"]),
    avg     |-> Ratio(l.bytes, l.packets),
    dir_avg |-> [d \in Way |-> Ratio(l.dir_bytes[d], l.dir_packets[d])] ]

(* What does not fit a temporary buffer of max_len elements is left out.   *)
Fits(array, max_len) == array # <<>> /\ Len(array) <= max_len

(* The payloads of a direction: the mean counts packets without payload,   *)
(* the skewness is that of the array about the mean of all samples.        *)
PayloadDirSection(l, d, max_len) ==
  LET stats == l.payload_stats[d]
      sizes == l.payload_sizes[d]
  IN  [ total    |-> l.payload_bytes[d],
        mean     |-> Ratio(l.payload_bytes[d], l.dir_packets[d]),
        variance |-> RunningVariance(stats),
        min      |-> IF stats.count > 0 THEN stats.min ELSE 0,
        max      |-> IF stats.count > 0 THEN stats.max ELSE 0,
        ranked   |-> IF Fits(sizes, max_len)
                       THEN << [ skew |-> Skewness(sizes, stats.mean, RunningVariance(stats)),
                                 quartiles |-> UintQuartiles(Sorted(sizes)) ] >>
                       ELSE <<>> ]

(* The first packets, however many: a heap array stands in for a temporary *)
(* buffer that is too small.                                               *)
FirstNSection(l) ==
  IF l.first_n = <<>> THEN <<>>
  ELSE << UintSummary(l.first_n) >>

(* The mutant of PktLengthSection whose extremes are those of the array.   *)
PktLengthOfArray(l, d, max_len) ==
  LET lens == l.pkt_lens[d]
  IN  IF Fits(lens, max_len) THEN << UintSummary(lens) >> ELSE <<>>

(* The lengths of a direction: the mean, the variance and the quartiles    *)
(* are those of the array, the extremes those of all packets.              *)
PktLengthSection(l, d, max_len) ==
  LET lens == l.pkt_lens[d]
  IN  IF Fits(lens, max_len)
        THEN << [UintSummary(lens) EXCEPT !.min = l.len_stats[d].min,
                                          !.max = l.len_stats[d].max] >>
        ELSE <<>>

LengthSections(l, max_len) ==
  [ ratios      |-> RatiosSection(l),
    payload_dir |-> [d \in Way |-> PayloadDirSection(l, d, max_len)],
    first_n     |-> FirstNSection(l),
    small       |-> Ratio(l.small, l.packets),
    large       |-> Ratio(l.large, l.packets),
    pkt_length  |-> [d \in Way |-> PktLengthSection(l, d, max_len)] ]
=============================================================================
