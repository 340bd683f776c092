--------------------------- MODULE DerivedMeters ---------------------------
(* What is reported of a flow's times when it closes: calc_derived_iat     *)
(* (src/src/calc_iat.cpp), calc_burst_statistics (calc_burst.cpp),         *)
(* calc_derived_window (calc_window.cpp) and calc_derived_behavior         *)
(* (calc_behavior.cpp), as operators on the state of FlowMeters.           *)
(*                                                                         *)
(* A section that is left out, or all of zeros, is << >>.  The logarithms  *)
(* themselves are not computed: log(x + 1) is x with a mark.               *)
EXTENDS FlowMeters, Statistics

CONSTANTS
  Interactive,     \* interactive_threshold_ms
  BulkTransfer,    \* bulk_transfer_kbps
  ShortConn        \* short_conn_threshold_s

ASSUME CountsAreUnsigned == CountSpan = UIntMax + 1

(* What running statistics come to: those of their samples.                *)
Moments(samples) ==
  [ count |-> Len(samples),
    mean |-> IF samples = <<>> THEN Zero ELSE Mean(samples), variance |-> Variance(samples),
    min |-> Min({EmptyMin} \cup ToSet(samples)), max |-> Max({EmptyMax} \cup ToSet(samples)) ]

(* The square of a coefficient of variation, 0 for a mean of 0.            *)
CvSquared(mean, variance) ==
  IF mean = Zero THEN Zero ELSE Times(variance, Times(<<mean[2], mean[1]>>, <<mean[2], mean[1]>>))
-----------------------------------------------------------------------------
(* calc_iat_entropy_double: what falls into its 32 bins.                   *)
EntropyBins(seq) ==
  LET low  == Min(ToSet(seq))
      span == Max(ToSet(seq)) - low
  IN  IF span = 0 THEN EmptyBag ELSE BagOf([i \in 1 .. Len(seq) |-> ((seq[i] - low) * 31) \div span])

IatAutocorr(seq) == [lag \in 1 .. 5 |-> IF Len(seq) <= lag THEN Zero ELSE Autocorr(seq, lag)]

SumOfFractions(fractions) == FoldLeft(Plus, Zero, fractions)

(* interval_ratio_mean: of each gap to the one before, unless that is 0.   *)
IntervalRatio(seq) ==
  LET after  == {i \in 1 .. Len(seq) - 1 : seq[i] > 0}
      ratios == [i \in 1 .. Len(seq) - 1 |->
                   IF i \in after THEN Fraction(seq[i + 1], seq[i]) ELSE Zero]
  IN  IF after = {} THEN Zero ELSE Times(SumOfFractions(ratios), <<1, Cardinality(after)>>)

(* The two temporary buffers, which are the halves of one area.  The gaps  *)
(* go to the front half and their logarithms to the back half; then the    *)
(* copy of the gaps to be sorted goes behind the front half as well.       *)
IatScratchLoaded(ring) == [front |-> ring, back |-> [log |-> TRUE, of |-> ring]]

(* The mutant of IatScratch that sorts where the gaps are.                 *)
IatScratchInPlace(ring) ==
  [front |-> Sorted(ring), back |-> [log |-> FALSE, of |-> Sorted(ring)]]

IatScratch(ring) ==
  LET loaded == IatScratchLoaded(ring)
  IN  [loaded EXCEPT !.back = [log |-> FALSE, of |-> Sorted(loaded.front)]]

(* enable_iat_stats, when the ring of gaps has the given contents.         *)
IatSection(ring, max_len) ==
  IF ring = <<>> \/ Len(ring) > max_len THEN <<>>
  ELSE LET m      == IatScratch(ring)
           seq    == m.front
           sorted == m.back.of
       IN  << [ entropy   |-> EntropyBins(seq),
                autocorr  |-> IatAutocorr(seq),
                ratio     |-> IntervalRatio(seq),
                sequence  |-> [ mean |-> Mean(seq), variance |-> Variance(seq),
                                skew |-> Skewness(seq, Mean(seq), Variance(seq)),
                                min |-> sorted[1], max |-> Last(sorted),
                                quartiles |-> Quartiles(sorted) ],
                log_sequence |-> [log |-> m.back.log, stats |-> Summary(m.back.of)] ] >>

(* enable_iat_fwd_bwd.                                                     *)
DirectionSection(max_len) ==
  [ d \in Known |->
      [ stats |-> Moments(dir_stats[d]),
        quartiles |-> IF dir_iats[d] = <<>> \/ Len(dir_iats[d]) > max_len THEN <<>>
                      ELSE Quartiles(Sorted(dir_iats[d])) ] ]

(* enable_iat_active.                                                      *)
ActiveSection ==
  [ active |-> active_time_us, idle |-> idle_time_us,
    ratio  |-> Ratio(active_time_us, (active_time_us + idle_time_us) % LLongSpan) ]

(* enable_iat_response: the maximum starts from 0, and one delay is its    *)
(* own median and quartiles.                                               *)
ResponseSection(max_len) ==
  IF resp_delays = <<>> \/ Len(resp_delays) > max_len THEN <<>>
  ELSE << [ delays |-> [Summary(resp_delays) EXCEPT !.max = Max({0} \cup ToSet(resp_delays))],
            interactive |-> ~AtMost(Whole(Interactive), Mean(resp_delays)) ] >>
-----------------------------------------------------------------------------
NotANumber == <<0, 0>>

(* calc_burstiness_index, squared.  Two bursts have one interval, whose    *)
(* variance is 0.0 / 0.0; the comparison of the mean with 0 does not stop  *)
(* it, for an interval exceeds the threshold.                              *)
BurstinessIndex(intervals) ==
  CASE intervals = <<>>   -> Zero
    [] Len(intervals) = 1 -> NotANumber
    [] OTHER              -> CvSquared(Mean(intervals), Variance(intervals))

(* calc_burst_statistics.                                                  *)
PeakOf(fractions) == FoldLeft(LAMBDA peak, q : IF AtMost(q, peak) THEN peak ELSE q, Zero, fractions)

PacketRate(bs) ==
  PeakOf([i \in 1 .. Len(bs) |->
            IF bs[i].duration > 0 THEN Fraction(bs[i].packets, bs[i].duration) ELSE Zero])

BurstSection(bs, intervals) ==
  IF bs = <<>> THEN <<>>
  ELSE LET sizes == [i \in 1 .. Len(bs) |-> bs[i].size]
       IN  << [ size |-> Mean(sizes), variance |-> Variance(sizes),
                duration |-> Mean([i \in 1 .. Len(bs) |-> bs[i].duration]),
                packets  |-> Mean([i \in 1 .. Len(bs) |-> bs[i].packets]),
                peak     |-> PacketRate(bs),
                interval |-> IF Len(bs) > 1 THEN Mean(intervals) ELSE Zero,
                index    |-> BurstinessIndex(intervals) ] >>
-----------------------------------------------------------------------------
(* The array has the counts that are not 0.  A window with packets but no  *)
(* bytes leaves an element of it unassigned; then nothing is known of the  *)
(* quartiles.                                                              *)
WindowQuartiles(seq, valid) ==
  LET counted == SelectSeq(seq, LAMBDA x : x > 0)
  IN  IF Len(counted) = valid THEN UintQuartiles(Sorted(counted)) ELSE <<>>

(* One block of calc_derived_window: the sums, to which the windows        *)
(* without a count add nothing, are divided by the number of windows with  *)
(* packets.  The squares are those of unsigned ints.                       *)
WindowSection(counts) ==
  LET valid == Cardinality(ValidWindows)
      seq   == [i \in 1 .. NumWindows |-> counts[i - 1]]
      sum   == Total(seq)
  IN  IF valid = 0 THEN <<>>
      ELSE << [ mean |-> Fraction(sum, valid),
                variance |-> IF valid < 2 THEN Zero
                             ELSE Fraction(valid * SumOf(UintSquare, seq) - sum * sum,
                                           valid * (valid - 1)),
                min |-> ReportedMin(counts), max |-> Max({0} \cup ToSet(seq)),
                quartiles |-> WindowQuartiles(seq, valid) ] >>
-----------------------------------------------------------------------------
(* calc_derived_behavior.  The counters of calc_basic_counters stand for   *)
(* the packets they count.                                                 *)
BytesOf(packets) == Total([i \in 1 .. Len(packets) |-> packets[i].len])
BytesTowards(dir) == BytesOf(SelectSeq(arrivals, LAMBDA p : p.dir = dir))

(* enable_behavior_basic; nothing but the duration when that is 0.         *)
BehaviorBasic ==
  LET duration == Since(last_arrival_us, arrivals[1].ts)
      bytes    == BytesOf(arrivals)
  IN  IF duration = 0 THEN <<>>
      ELSE << [ duration |-> duration,
                bitrate  |-> Fraction(bytes * 8 * Second, duration),
                packet_rate |-> Fraction(Len(arrivals) * Second, duration),
                bulk  |-> bytes * Second > BulkTransfer * duration,
                short |-> duration < ShortConn * Second ] >>

(* calc_flow_asymmetry_ratio and get_flow_pattern, where a quotient by 0   *)
(* is infinite.                                                            *)
Asymmetry ==
  LET fwd == BytesTowards("fwd")
      bwd == BytesTowards("bwd")
  IN  IF bwd > 0 THEN Fraction(fwd, bwd) ELSE IF fwd = 0 THEN Whole(1) ELSE <<1, 0>>

FlowPattern(ratio) ==
  CASE ~AtMost(<<1, 2>>, ratio)   -> "download_heavy"
    [] ~AtMost(ratio, Whole(2))   -> "upload_heavy"
    [] AtMost(<<4, 5>>, ratio) /\ AtMost(ratio, <<5, 4>>) -> "balanced"
    [] OTHER                      -> "asymmetric"

(* enable_behavior_pattern, and the bitrates of enable_behavior_bitrate.   *)
BehaviorPattern ==
  LET gaps  == Moments(iat_stats)
      rates == {window_bitrate[w] : w \in ValidWindows}
  IN  [ asymmetry |-> Asymmetry, pattern |-> FlowPattern(Asymmetry),
        regular   |-> ~AtMost(<<1, 4>>, CvSquared(gaps.mean, gaps.variance)),
        peak_bitrate |-> IF rates = {} THEN <<>> ELSE <<Max({0} \cup rates)>> ]

(* The bytes of which enable_behavior_bitrate takes the entropy.           *)
TrafficShares ==
  LET total == Total([i \in 1 .. NumWindows |-> window_byte_counts[i - 1]])
  IN  [w \in Window |-> IF w \in WindowsWithBytes
                          THEN Fraction(window_byte_counts[w], total) ELSE Zero]
-----------------------------------------------------------------------------
(* What the ring of gaps may have: the newest of them, as many as fit, and *)
(* fewer after the loss of a snapshot.                                     *)
Rings ==
  {SubSeq(iat_stats, k, Len(iat_stats)) :
     k \in Max({1, Len(iat_stats) - pool.seq_len + 1}) .. Len(iat_stats) + 1}

(* How many elements a bag has, value by value.                            *)
Occurrences(bag) ==
  LET values == SetToSeq(DOMAIN bag)
  IN  Total([k \in 1 .. Len(values) |-> bag[values[k]]])

(* The sequence statistics of the gaps agree with the running statistics   *)
(* while the ring has them all, and so they are taken from a buffer that   *)
(* was not overwritten, but for a least gap beyond what the running        *)
(* minimum starts from; ratios and autocorrelations are of the order of    *)
(* arrival, although the quartiles need the gaps sorted; and every gap     *)
(* falls into one of the 32 bins.                                          *)
GapSectionsAgree ==
  \A ring \in Rings :
    LET section == IatSection(ring, TempLen(pool.seq_len))
    IN  section # <<>> =>
          LET s == section[1]
          IN  /\ ring = iat_stats =>
                   /\ s.sequence.mean = Moments(iat_stats).mean
                   /\ s.sequence.variance = Moments(iat_stats).variance
                   /\ Moments(iat_stats).min = Min({EmptyMin, s.sequence.min})
                   /\ s.sequence.max = Moments(iat_stats).max
              /\ Len(ring) = 2 /\ ring[1] > 0 => s.ratio = Fraction(ring[2], ring[1])
              /\ s.entropy # EmptyBag =>
                   DOMAIN s.entropy \subseteq 0 .. 31 /\ Occurrences(s.entropy) = Len(ring)

(* The bursts' mean and peak rates: the packets of all bursts are at most  *)
(* those of the flow, and no mean over the bursts exceeds the peak.        *)
BurstSectionAgrees ==
  LET section == BurstSection(bursts, burst_intervals)
      packets == Total([i \in 1 .. Len(bursts) |->
                          IF bursts[i].duration > 0 THEN bursts[i].packets ELSE 0])
      time    == Total([i \in 1 .. Len(bursts) |-> bursts[i].duration])
  IN  section # <<>> =>
        /\ AtMost(Times(section[1].packets, Whole(Len(bursts))), Whole(Len(arrivals)))
        /\ time > 0 => AtMost(Fraction(packets, time), section[1].peak)
        /\ AtMost(section[1].size, Whole(BytesOf(arrivals)))

(* The sections of the windows agree with each other: the mean of the      *)
(* packets lies between the extremes of valid windows, although it divides *)
(* by them a sum over all, and the shares of the traffic add up to 1.      *)
WindowSectionAgrees ==
  LET section == WindowSection(window_pkt_counts)
      shares  == [i \in 1 .. NumWindows |-> TrafficShares[i - 1]]
  IN  section # <<>> =>
        /\ AtMost(Whole(section[1].min), section[1].mean)
        /\ AtMost(section[1].mean, Whole(section[1].max))
        /\ WindowsWithBytes # {} => SumOfFractions(shares) = Whole(1)

(* The times of the sections fit the flow's duration: the active and idle  *)
(* time make it up, no delay of an answer exceeds it while packets come in *)
(* order, and the quartiles of a direction's gaps lie within the extremes  *)
(* of its running statistics, whatever the array dropped.                  *)
TimeSectionsAgree ==
  LET duration  == IF BehaviorBasic = <<>> THEN 0 ELSE BehaviorBasic[1].duration
      responses == ResponseSection(TempLen(pool.seq_len))
      ways      == DirectionSection(TempLen(pool.seq_len))
  IN  /\ "enable_iat_active" \in cfg.on =>
           (ActiveSection.active + ActiveSection.idle) % LLongSpan = duration
      /\ responses # <<>> =>
           /\ AtMost(Whole(responses[1].delays.min), responses[1].delays.mean)
           /\ AtMost(responses[1].delays.mean, Whole(responses[1].delays.max))
           /\ InOrder => responses[1].delays.max <= duration
      /\ \A d \in Known : ways[d].quartiles # <<>> =>
           /\ AtMost(Whole(ways[d].stats.min), ways[d].quartiles[1])
           /\ AtMost(ways[d].quartiles[3], Whole(ways[d].stats.max))

(* What a report says of a flow's times in different sections is about the *)
(* same packets.                                                           *)
ReportsAgree ==
  arrivals # <<>> =>
    GapSectionsAgree /\ BurstSectionAgrees /\ WindowSectionAgrees /\ TimeSectionsAgree

(* README.md:271, log_iat_sequence_* are statistics of the logarithms of   *)
(* the gaps.                                                               *)
LogFeaturesAreOfLogs ==
  \A ring \in Rings :
    LET section == IatSection(ring, TempLen(pool.seq_len))
    IN  section # <<>> => section[1].log_sequence.log
=============================================================================
