------------------------------ MODULE SignedRank ------------------------------
(***************************************************************************)
(* _wilcoxon_signed_rank of scripts/report.py on whole deltas.  Ranks are  *)
(* doubled, the variance is multiplied by 48 and the p-value is compared   *)
(* with alpha through the critical value of z squared, so that everything  *)
(* is an integer.                                                          *)
(***************************************************************************)
EXTENDS Integers, Sequences, FiniteSets, FiniteSetsExt

Abs(x) == IF x < 0 THEN -x ELSE x

\* sorted() keeps the order of equal keys: a position comes behind those of
\* smaller keys and behind the earlier ones of its own.
UpTo(key, p) == {q \in DOMAIN key : key[q] < key[p] \/ (key[q] = key[p] /\ q <= p)}

\* The positions in the order of their keys.
SortedBy(key) ==
    [k \in 1..Cardinality(DOMAIN key) |->
        CHOOSE p \in DOMAIN key : Cardinality(UpTo(key, p)) = k]

\* Zero deltas are dropped, the others sorted by size.
BySize(deltas) ==
    LET places == SortedBy([p \in {q \in DOMAIN deltas : deltas[q] # 0} |-> Abs(deltas[p])])
    IN  [k \in DOMAIN places |-> deltas[places[k]]]

ByValue(deltas) ==
    LET places == SortedBy(deltas) IN [k \in DOMAIN places |-> deltas[places[k]]]

\* The run i..j of equal sizes around position k of a sorted sequence.
Ties(s, k) == {i \in DOMAIN s : Abs(s[i]) = Abs(s[k])}

TwiceRank(s, k) == Min(Ties(s, k)) + Max(Ties(s, k))

\* The sum of a sequence of numbers.
Total(s) ==
    LET sum[k \in 0..Len(s)] == IF k = 0 THEN 0 ELSE sum[k - 1] + s[k]
    IN  sum[Len(s)]

TwiceWPlus(s) ==
    Total([k \in 1..Len(s) |-> IF s[k] > 0 THEN TwiceRank(s, k) ELSE 0])

TieTerm(s) ==
    Total([k \in 1..Len(s) |->
              IF k = Min(Ties(s, k))
              THEN LET t == Max(Ties(s, k)) - k + 1 IN t * t * t - t
              ELSE 0])

Variance48(s) ==
    LET n == Len(s) IN 2 * n * (n + 1) * (2 * n + 1) - TieTerm(s)

\* p < 0.05 of a gap of 4 |W+ - mean| and this variance: with the continuity
\* correction z is over 1.96, z^2 over 3.8415.
Below5(gap, variance48) ==
    variance48 > 0 /\ gap > 2 /\ 2000 * (gap - 2) * (gap - 2) > 2561 * variance48

\* Mutant: no continuity correction.
SignificantUncorrected(deltas) ==
    LET s == BySize(deltas)
        n == Len(s)
    IN  Below5(Abs(2 * TwiceWPlus(s) - n * (n + 1)) + 2, Variance48(s))

Significant(deltas) ==
    LET s == BySize(deltas)
        n == Len(s)
    IN  Below5(Abs(2 * TwiceWPlus(s) - n * (n + 1)), Variance48(s))

\* statistics.median, doubled.
TwiceMedian(deltas) ==
    LET s == ByValue(deltas)
        n == Len(s)
    IN  s[(n + 1) \div 2] + s[(n + 2) \div 2]
-----------------------------------------------------------------------------
(* The same statistics by their definitions, of deltas indexed by any set.  *)

Differing(d) == {p \in DOMAIN d : d[p] # 0}

\* W+ counts the Walsh averages over zero, and half those that are zero.
FourWPlus(d) ==
    LET D == Differing(d)
        Over == {w \in D \X D : d[w[1]] + d[w[2]] > 0}
        Even == {w \in D \X D : d[w[1]] + d[w[2]] = 0}
    IN  2 * Cardinality(Over) + Cardinality(Even) + 2 * Cardinality({p \in D : d[p] > 0})

\* Twice the average of the places that the deltas of this size take.
TwiceRankOf(d, p) ==
    LET D == Differing(d)
    IN  2 * Cardinality({q \in D : Abs(d[q]) < Abs(d[p])})
        + Cardinality({q \in D : Abs(d[q]) = Abs(d[p])}) + 1

\* Each rank is in W+ with probability one half: four times its variance is
\* the sum of the squared ranks; of the doubled ranks, here.
SquaredRanks(d) ==
    MapThenSumSet(LAMBDA p : TwiceRankOf(d, p) * TwiceRankOf(d, p), Differing(d))

SignificantByDefinition(d) ==
    LET n == Cardinality(Differing(d))
    IN  Below5(Abs(FourWPlus(d) - n * (n + 1)), 3 * SquaredRanks(d))

\* The median is over zero: most deltas are, or half of them and the greatest of
\* the others is nearer to zero than any of these.
MedianSlower(d) ==
    LET slower == {p \in DOMAIN d : d[p] > 0}
        rest == DOMAIN d \ slower
    IN  \/ 2 * Cardinality(slower) > Cardinality(DOMAIN d)
        \/ /\ 2 * Cardinality(slower) = Cardinality(DOMAIN d)
           /\ \E x \in rest : \A y \in slower : d[x] + d[y] > 0
===============================================================================
