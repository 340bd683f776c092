-------------------------- MODULE SequenceFeatures --------------------------
(* What src/src/calc_sequence.cpp reports of the contents of a flow's      *)
(* rings, oldest first: lens, dirs (1 forward, -1 backward, 0 unknown),    *)
(* iats and times.  Left out are Hurst's exponent and the periodicity,     *)
(* which need 16 and 7 interarrival times, and the logarithms of           *)
(* entropies, of which the counts are kept.                                *)
EXTENDS Statistics

CONSTANTS
  ChunkGap,        \* 100000 us
  RateWindow,      \* 50000 us
  TimeSpan         \* 2^64

Pairs(seq) == [i \in 1 .. Len(seq) - 1 |-> <<seq[i], seq[i + 1]>>]

(* The five lags of calc_autocorr_packet_length.                           *)
LengthAutocorr(lens) ==
  [lag \in 1 .. 5 |-> IF Len(lens) <= 5 THEN Zero ELSE Autocorr(lens, lag)]

(* The mutant of RunLengths whose later runs miss their first element.     *)
RunLengthsFromZero(seq) ==
  LET scan == FoldLeft(LAMBDA s, pair : IF pair[1] = pair[2] THEN [s EXCEPT !.cur = @ + 1]
                                        ELSE [runs |-> Append(s.runs, s.cur), cur |-> 0],
                       [runs |-> <<>>, cur |-> 1], Pairs(seq))
  IN  Append(scan.runs, scan.cur)

(* calc_run_length: how often each length comes in a row.                  *)
RunLengths(seq) ==
  LET scan == FoldLeft(LAMBDA s, pair : IF pair[1] = pair[2] THEN [s EXCEPT !.cur = @ + 1]
                                        ELSE [runs |-> Append(s.runs, s.cur), cur |-> 1],
                       [runs |-> <<>>, cur |-> 1], Pairs(seq))
  IN  Append(scan.runs, scan.cur)

RunSection(lens) ==
  IF lens = <<>> THEN <<>>
  ELSE LET runs == RunLengths(lens)
       IN  << [Summary(runs) EXCEPT !.quartiles = UintQuartiles(Sorted(runs))] >>

(* calc_lz78_complexity: the phrases of the sequence, where a phrase is    *)
(* the shortest prefix of the rest that is no phrase yet.                  *)
Lz78(seq) ==
  IF Len(seq) <= 1 THEN 0
  ELSE Cardinality(
         FoldLeft(LAMBDA s, x : LET longer == Append(s.cur, x)
                                IN  IF longer \in s.dict THEN [s EXCEPT !.cur = longer]
                                    ELSE [dict |-> s.dict \cup {longer}, cur |-> <<>>],
                  [dict |-> {}, cur |-> <<>>], seq).dict)

(* The two terms calc_direction_entropy takes logarithms of.               *)
DirectionCounts(dirs) ==
  LET count(sign) == Len(SelectSeq(dirs, LAMBDA d : d * sign > 0))
  IN  IF count(1) = 0 \/ count(-1) = 0 THEN <<0, 0>> ELSE <<count(1), count(-1)>>

(* The numerator and the square of the denominator of Pearson's            *)
(* correlation of the n first elements.                                    *)
Correlation(xs, ys, n) ==
  LET sum(f(_)) == Total([i \in 1 .. n |-> f(i)])
      spread(s) == n * sum(LAMBDA i : s[i] * s[i]) - sum(LAMBDA i : s[i]) ^ 2
  IN  [ num |-> n * sum(LAMBDA i : xs[i] * ys[i])
                - sum(LAMBDA i : xs[i]) * sum(LAMBDA i : ys[i]),
        den2 |-> spread(xs) * spread(ys) ]

NoCorrelation == [num |-> 0, den2 |-> 0]

(* calc_length_direction_correlation and calc_length_iat_correlation.      *)
LengthDirection(lens, dirs) ==
  IF lens = <<>> \/ Len(lens) # Len(dirs) THEN NoCorrelation
  ELSE Correlation(lens, dirs, Len(lens))
LengthIat(lens, iats) ==
  IF iats = <<>> \/ Len(lens) # Len(iats) + 1 THEN NoCorrelation
  ELSE Correlation(lens, iats, Len(iats))

(* The changes of direction, and the kinds of transitions, for which an    *)
(* unknown direction is a backward one.                                    *)
Transitions(dirs) ==
  LET sign(d) == IF d > 0 THEN "fwd" ELSE "bwd"
  IN  [ changes |-> Ratio(Len(SelectSeq(Pairs(dirs), LAMBDA p : p[1] # p[2])), Len(dirs) - 1),
        kinds   |-> {<<sign(p[1]), sign(p[2])>> : p \in ToSet(Pairs(dirs))} ]

(* The distribution of the lengths: long ones share the last bin.          *)
LengthBins(lens) == BagOf([i \in 1 .. Len(lens) |-> Min({lens[i], 4095})])

LengthShape(lens) ==
  IF lens = <<>> THEN <<>>
  ELSE << [ unique |-> Fraction(Cardinality(ToSet(lens)), Len(lens)),
            bins   |-> LengthBins(lens),
            percentiles |-> [p \in {1, 5, 10, 90, 95, 99, 100} |->
                               Floor(Percentile(Sorted(lens), p))],
            lz78   |-> Lz78(lens) ] >>

(* The ranking of the nine bigrams, most frequent first: an exchange sort, *)
(* which keeps no order among equals.                                      *)
Bigrams ==
  << <<"s", "s">>, <<"s", "m">>, <<"s", "l">>, <<"m", "s">>, <<"m", "m">>, <<"m", "l">>,
     <<"l", "s">>, <<"l", "m">>, <<"l", "l">> >>

Exchanged(counts, ranks, i, j) ==
  IF counts[ranks[i]] < counts[ranks[j]]
    THEN [ranks EXCEPT ![i] = ranks[j], ![j] = ranks[i]]
    ELSE ranks

Settled(counts, ranks, i) ==
  FoldLeft(LAMBDA r, j : Exchanged(counts, r, i, j), ranks, [j \in 1 .. 9 - i |-> i + j])

RankedBigrams(counts) ==
  FoldLeft(LAMBDA ranks, i : Settled(counts, ranks, i), Bigrams, [i \in 1 .. 8 |-> i])

TopBigrams(counts) ==
  LET total == Total([i \in 1 .. 9 |-> counts[Bigrams[i]]])
      ranks == RankedBigrams(counts)
  IN  IF total = 0 THEN <<>>
      ELSE [k \in 1 .. 5 |-> [name |-> ranks[k], freq |-> Fraction(counts[ranks[k]], total)]]

(* The section of enable_sequence_stats.                                   *)
SequenceSection(lens, dirs, iats, counts) ==
  [ autocorr         |-> LengthAutocorr(lens),
    runs             |-> RunSection(lens),
    length_iat       |-> LengthIat(lens, iats),
    directions       |-> DirectionCounts(dirs),
    transitions      |-> Transitions(dirs),
    length_direction |-> LengthDirection(lens, dirs),
    shape            |-> LengthShape(lens),
    bigrams          |-> TopBigrams(counts) ]
-----------------------------------------------------------------------------
(* The composite sequence l2l3l4pl_iat: its elements join the rings' i-th  *)
(* elements and the interarrival time before.                              *)
Composite(lens, l3, l4, payload, iats) ==
  [ i \in 1 .. Min({Len(lens), Len(l3), Len(l4), Len(payload)}) |->
      LET upper == l3[i] + l4[i] + payload[i]
      IN  [ l2 |-> IF lens[i] >= upper THEN lens[i] - upper ELSE 0,
            l3 |-> l3[i], l4 |-> l4[i], payload |-> payload[i],
            iat |-> IF i > 1 /\ i - 1 <= Len(iats) THEN iats[i - 1] ELSE 0 ] ]

(* dl_chunk_seq: the bytes of what a change of direction or a long gap     *)
(* separates; a last chunk without bytes is left out.                      *)
Chunks(times, lens, dirs) ==
  LET breaks(i) == \/ dirs[i] # dirs[i - 1]
                   \/ (times[i] - times[i - 1]) % TimeSpan > ChunkGap
      scan == FoldLeft(LAMBDA s, i : IF breaks(i)
                                       THEN [done |-> Append(s.done, s.cur), cur |-> lens[i]]
                                       ELSE [s EXCEPT !.cur = @ + lens[i]],
                       [done |-> <<>>, cur |-> lens[1]],
                       [i \in 1 .. Len(times) - 1 |-> i + 1])
  IN  IF scan.cur > 0 THEN Append(scan.done, scan.cur) ELSE scan.done

(* The rates of both directions, as the bytes of each window since the     *)
(* oldest time; the window of a time beyond the newest one is the last.    *)
RateWindows(times) ==
  (((((Last(times) - times[1]) % TimeSpan) \div RateWindow) % CountSpan) + 1) % CountSpan

RateWindowOf(times, i) ==
  Min({((((times[i] - times[1]) % TimeSpan) \div RateWindow) % CountSpan) + 1,
       RateWindows(times)})

(* The number of windows, cut to 32 bits, is 0 when it is a multiple of    *)
(* CountSpan.  Then nothing is allocated and every rate is written outside *)
(* of it: if the process survives, the report has two empty lists.         *)
RatesInReach(times) == RateWindows(times) > 0

Rates(times, lens, dirs, sign) ==
  [ w \in 1 .. RateWindows(times) |->
      Total([i \in 1 .. Len(times) |->
               IF dirs[i] * sign > 0 /\ RateWindowOf(times, i) = w THEN lens[i] ELSE 0]) ]

(* Chunks and rates need rings of equal length.                            *)
SameLength(times, lens, dirs) ==
  times # <<>> /\ Len(times) = Len(lens) /\ Len(times) = Len(dirs)

ChunkSection(times, lens, dirs) ==
  IF SameLength(times, lens, dirs) THEN <<Chunks(times, lens, dirs)>> ELSE <<>>

(* Left out as well when there is no memory for the windows.               *)
RateSection(times, lens, dirs, allocated) ==
  IF SameLength(times, lens, dirs) /\ allocated
    THEN << [up |-> Rates(times, lens, dirs, 1), down |-> Rates(times, lens, dirs, -1)] >>
    ELSE <<>>
=============================================================================
