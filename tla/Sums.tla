-------------------------------- MODULE Sums --------------------------------
(* Sums over a sequence, which the loops of the calculators compute, and   *)
(* ranks, by which properties number what came before.                     *)
EXTENDS Integers, Sequences, FiniteSetsExt, SequencesExt

(* The sum of what f makes of the elements, and of the elements.           *)
SumOf(f(_), seq) == FoldLeft(LAMBDA sum, x : sum + f(x), 0, seq)
Total(seq) == SumOf(LAMBDA x : x, seq)

(* The rank of the number i among those of S, from 1.                      *)
Rank(S, i) == Cardinality({j \in S : j <= i})
=============================================================================
