----------------------------- MODULE Statistics -----------------------------
(* The statistics that the calculators share: src/src/utils/stats_utils.h, *)
(* and the running statistics and size classes of src/src/feature_stats.h. *)
(* A double is an exact fraction <<num, den>> in lowest terms; a standard  *)
(* deviation is represented by the variance it is the root of, a skewness  *)
(* by the third central moment that it scales.                             *)
EXTENDS Sums

CONSTANT CountSpan     \* 2^32, the values of an unsigned int

ASSUME CountSpanAssumption == CountSpan \in Nat \ {0}

gcd[p \in Nat \X Nat] == IF p[2] = 0 THEN p[1] ELSE gcd[<<p[2], p[1] % p[2]>>]

Abs(x) == IF x < 0 THEN -x ELSE x

Fraction(num, den) ==
  LET g == gcd[<<Abs(num), den>>] IN <<num \div g, den \div g>>

Whole(x) == <<x, 1>>
Zero == Whole(0)

Plus(a, b) ==
  LET g == gcd[<<a[2], b[2]>>]
  IN  Fraction(a[1] * (b[2] \div g) + b[1] * (a[2] \div g), (a[2] \div g) * b[2])
Times(a, b) ==
  LET x == Fraction(a[1], b[2])
      y == Fraction(b[1], a[2])
  IN  <<x[1] * y[1], x[2] * y[2]>>
Minus(a, b) == Plus(a, <<-b[1], b[2]>>)
AtMost(a, b) == a[1] * b[2] <= b[1] * a[2]

(* How often each value occurs in a sequence.                              *)
BagOf(seq) == [x \in ToSet(seq) |-> Cardinality({i \in DOMAIN seq : seq[i] = x})]

(* Each element goes behind those that are at most as large.               *)
SortedIn(s, x) == InsertAt(s, Cardinality({i \in DOMAIN s : s[i] <= x}) + 1, x)
Sorted(seq) == FoldLeft(SortedIn, <<>>, seq)
-----------------------------------------------------------------------------
(* calc_percentile_double: the p-th percentile of a sorted sequence,       *)
(* interpolated between its neighbours.                                    *)
Percentile(s, p) ==
  LET n   == Len(s)
      pos == p * (n - 1)
      at  == pos \div 100 + 1
  IN  CASE n = 0             -> Zero
        [] n = 1 \/ p <= 0   -> Whole(s[1])
        [] n > 1 /\ p >= 100 -> Whole(s[n])
        [] OTHER             -> Fraction(s[at] * (100 - (pos % 100)) + s[at + 1] * (pos % 100), 100)

(* calc_median_double.                                                     *)
Median(s) ==
  LET n == Len(s)
  IN  CASE n = 0     -> Zero
        [] n % 2 = 1 -> Whole(s[n \div 2 + 1])
        [] OTHER     -> Fraction(s[n \div 2] + s[n \div 2 + 1], 2)

(* What the uint versions of both keep of it; the sum of two values may    *)
(* wrap around in that of the median.                                      *)
Floor(q) == Whole(q[1] \div q[2])

UintMedian(s) ==
  LET n == Len(s)
  IN  IF n > 0 /\ n % 2 = 0 THEN Whole(((s[n \div 2] + s[n \div 2 + 1]) % CountSpan) \div 2)
      ELSE Median(s)

Quartiles(s) == <<Percentile(s, 25), Median(s), Percentile(s, 75)>>
UintQuartiles(s) == <<Floor(Percentile(s, 25)), UintMedian(s), Floor(Percentile(s, 75))>>

(* The variance whose root is taken for the standard deviation, from a sum *)
(* and a sum of squares.                                                   *)
Mean(seq) == Fraction(Total(seq), Len(seq))
Variance(seq) ==
  LET n == Len(seq)
  IN  IF n < 2 THEN Zero
      ELSE Fraction(n * SumOf(LAMBDA x : x * x, seq) - Total(seq) * Total(seq), n * (n - 1))

(* The product of an unsigned int with itself, and the variance of a sum   *)
(* of such products: negative, and its root not a number, when they wrap.  *)
UintSquare(x) == (x * x) % CountSpan

UintVariance(seq) ==
  LET n == Len(seq)
  IN  IF n < 2 THEN Zero
      ELSE Fraction(n * SumOf(UintSquare, seq) - Total(seq) * Total(seq), n * (n - 1))

(* calc_skewness of seq about a given mean, unscaled.                      *)
Skewness(seq, mean, variance) ==
  IF Len(seq) < 3 \/ variance = Zero THEN Zero
  ELSE Fraction(SumOf(LAMBDA x : (x * mean[2] - mean[1]) ^ 3, seq), mean[2] ^ 3)

(* calc_autocorr, which the interarrival times have a copy of.             *)
Autocorr(seq, lag) ==
  LET n == Len(seq)
      d == [i \in 1 .. n |-> n * seq[i] - Total(seq)]
      den == Total([i \in 1 .. n - lag |-> d[i] * d[i]])
  IN  IF den = 0 THEN Zero
      ELSE Fraction(Total([i \in 1 .. n - lag |-> d[i] * d[i + lag]]), den)

(* The block of statistics that most sections compute in a loop of their   *)
(* own.                                                                    *)
Summary(seq) ==
  [ mean |-> Mean(seq), variance |-> Variance(seq),
    min |-> Min(ToSet(seq)), max |-> Max(ToSet(seq)),
    quartiles |-> Quartiles(Sorted(seq)),
    skew |-> Skewness(seq, Mean(seq), Variance(seq)) ]

(* The same of an array of lengths, which the code squares and adds as     *)
(* unsigned ints.                                                          *)
UintSummary(seq) ==
  [ Summary(seq) EXCEPT !.variance = UintVariance(seq),
                        !.quartiles = UintQuartiles(Sorted(seq)),
                        !.skew = Skewness(seq, Mean(seq), UintVariance(seq)) ]
-----------------------------------------------------------------------------
(* running_stats_t without M4, and the three updates of its moments.       *)
(* EmptyMin and EmptyMax stand for 1e18 and -1e18.                         *)
EmptyMin == 1000000000
EmptyMax == -1000000000

NoSamples ==
  [count |-> 0, mean |-> Zero, M2 |-> Zero, M3 |-> Zero, min |-> EmptyMin, max |-> EmptyMax]

(* The mutant of Sampled that takes both deviations from the new mean.     *)
SampledByNewMean(s, x) ==
  LET n    == s.count + 1
      mean == Plus(s.mean, Times(Minus(Whole(x), s.mean), <<1, n>>))
      d    == Minus(Whole(x), mean)
  IN  [ count |-> n, mean |-> mean, M2 |-> Plus(s.M2, Times(d, d)), M3 |-> Zero,
        min |-> Min({s.min, x}), max |-> Max({s.max, x}) ]

(* running_stats_update.                                                   *)
Sampled(s, x) ==
  LET n      == s.count + 1
      delta  == Minus(Whole(x), s.mean)
      mean   == Plus(s.mean, Times(delta, <<1, n>>))
      delta2 == Minus(Whole(x), mean)
      delta3 == Times(delta, delta2)
  IN  [ count |-> n, mean |-> mean,
        M2    |-> Plus(s.M2, delta3),
        M3    |-> Plus(s.M3, Minus(Times(delta3, delta2),
                                   Times(<<3, n>>, Times(delta2, delta3)))),
        min   |-> Min({s.min, x}), max |-> Max({s.max, x}) ]

RunningStats(samples) == FoldLeft(Sampled, NoSamples, samples)

(* running_stats_variance and running_stats_skew, the latter unscaled.     *)
RunningVariance(s) == IF s.count > 1 THEN Times(s.M2, <<1, s.count - 1>>) ELSE Zero
RunningSkew(s) == IF s.count < 3 \/ s.M2 = Zero THEN Zero ELSE s.M3

(* The two directions that directional_stats_update tells apart.           *)
Way == {"fwd", "bwd"}

SampledByWay(stats, dir, x) == [d \in Way |-> IF d = dir THEN Sampled(stats[d], x) ELSE stats[d]]

(* A ratio, which is 0, or left out, when there is nothing to divide by.   *)
Ratio(num, den) == IF den > 0 THEN Fraction(num, den) ELSE Zero

(* The section most sequences get: from the running statistics of all      *)
(* samples, but for the quartiles, which are of what the ring still has.   *)
SampledSection(stats, ring) ==
  [ mean |-> stats.mean, variance |-> RunningVariance(stats),
    min |-> stats.min, max |-> stats.max, skew |-> RunningSkew(stats),
    quartiles |-> IF ring = <<>> THEN <<>> ELSE UintQuartiles(Sorted(ring)) ]
=============================================================================
