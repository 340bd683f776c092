------------------------------ MODULE Spectrum ------------------------------
(* The frequency features of src/src/utils/fft.cpp.  For up to eight       *)
(* samples they are exact: there the transform has its values in the       *)
(* numbers a + b*sqrt(2), which are pairs <<a, b>> here.  Values of the    *)
(* transform are doubled and magnitudes squared, which changes no          *)
(* comparison.  Of more samples the magnitudes are any numbers but         *)
(* negative ones: nothing that ranks them depends on more.                 *)
EXTENDS Statistics

Add(x, y) == <<x[1] + y[1], x[2] + y[2]>>
Square(x) == <<x[1] * x[1] + 2 * x[2] * x[2], 2 * x[1] * x[2]>>

(* x is positive: the sign of a + b*sqrt(2).                               *)
Positive(x) ==
  \/ x[1] >= 0 /\ x[2] >= 0 /\ x # <<0, 0>>
  \/ x[1] > 0 /\ x[2] < 0 /\ x[1] * x[1] > 2 * x[2] * x[2]
  \/ x[1] < 0 /\ x[2] > 0 /\ x[1] * x[1] < 2 * x[2] * x[2]
Greater(x, y) == Positive(<<x[1] - y[1], x[2] - y[2]>>)

(* Twice the cosine and the sine of j eighths of a turn.                   *)
Cosine == [j \in 0 .. 7 |->
  <<<<2, 0>>, <<0, 1>>, <<0, 0>>, <<0, -1>>, <<-2, 0>>, <<0, -1>>, <<0, 0>>, <<0, 1>>>>[j + 1]]
Sine == [j \in 0 .. 7 |-> Cosine[(j + 6) % 8]]

(* fft_compute pads the samples with zeros to a power of two, and fails if *)
(* that exceeds half of INT_MAX.                                           *)
Sizes == {2 ^ k : k \in 0 .. 30}

PaddedSize(n) == Min({s \in Sizes : s >= n})

(* fft_butterfly, for one frequency: the sum over the samples.             *)
Component(wave, samples, size, k) ==
  FoldLeftDomain(
    LAMBDA sum, t : Add(sum, [c \in 1 .. 2 |->
                          samples[t] * wave[(k * (t - 1) * (8 \div size)) % 8][c]]),
    <<0, 0>>, samples)

NotNegative == {x \in Int \X Int : ~Greater(<<0, 0>>, x)}
SomeMagnitude == CHOOSE f \in [Seq(Nat) \X Nat \X Nat -> NotNegative] : TRUE

SquaredMagnitude(samples, size, k) ==
  IF size <= 8
    THEN Add(Square(Component(Cosine, samples, size, k)), Square(Component(Sine, samples, size, k)))
    ELSE SomeMagnitude[<<samples, size, k>>]

(* The magnitudes that fft_compute keeps: those below half the size.       *)
Magnitudes(samples) ==
  LET size == PaddedSize(Len(samples))
  IN  [k \in 0 .. size \div 2 - 1 |-> SquaredMagnitude(samples, size, k)]
-----------------------------------------------------------------------------
(* fft_get_top_k: each frequency but 0 is put in front of the first entry  *)
(* that it exceeds.  An entry that stays empty is -1; with one magnitude   *)
(* the call fails, which calc_derived_fft ignores, and the zeros of the    *)
(* fresh result are reported.                                              *)
K == 5

Exceeds(mags, k, entry) == entry = -1 \/ Greater(mags[k], mags[entry])

(* The mutant of Inserted that writes over the entry it exceeds.           *)
InsertedOver(mags, top, k) ==
  LET places == {j \in 1 .. K : Exceeds(mags, k, top[j])}
  IN  IF places = {} THEN top ELSE [top EXCEPT ![Min(places)] = k]

Inserted(mags, top, k) ==
  LET places == {j \in 1 .. K : Exceeds(mags, k, top[j])}
  IN  IF places = {} THEN top ELSE SubSeq(InsertAt(top, Min(places), k), 1, K)

TopK(mags) ==
  LET n == Cardinality(DOMAIN mags)
  IN  IF n <= 1 THEN [j \in 1 .. K |-> 0]
      ELSE FoldLeft(LAMBDA top, k : Inserted(mags, top, k),
                    [j \in 1 .. K |-> -1], [k \in 1 .. n - 1 |-> k])

(* fft_compute_statistics, as far as it ranks the magnitudes.              *)
Ranked(mags) ==
  SortSeq([k \in 1 .. Cardinality(DOMAIN mags) |-> mags[k - 1]], LAMBDA x, y : Greater(y, x))

MagnitudeRanks(mags) ==
  LET ranked == Ranked(mags)
      n == Len(ranked)
  IN  [ min |-> ranked[1], max |-> ranked[n], median |-> ranked[n \div 2 + 1],
        q1 |-> ranked[n \div 4 + 1], q3 |-> ranked[(3 * n) \div 4 + 1] ]

(* fft_compute_psd_peak.                                                   *)
PsdPeak(mags) ==
  FoldLeft(LAMBDA peak, k : IF Greater(mags[k], peak) THEN mags[k] ELSE peak,
           <<0, 0>>, [k \in 1 .. Cardinality(DOMAIN mags) - 1 |-> k])

(* calc_fft_all, calc_fft_fwd and calc_fft_bwd, of two lengths or more.    *)
FrequencySection(samples) ==
  IF Len(samples) < 2 \/ Len(samples) > 2 ^ 30 THEN <<>>
  ELSE LET mags == Magnitudes(samples)
       IN  << [ mags |-> mags, ranks |-> MagnitudeRanks(mags), top |-> TopK(mags),
                psd_peak |-> PsdPeak(mags) ] >>
=============================================================================
