----------------------------- MODULE MCPerfGate -----------------------------
(* Three files, two thread counts: six rows a run, the fewest for which the *)
(* signed-rank test can find a slowdown.                                    *)
EXTENDS PerfGate

TwoCounts == <<1, 8>>
Both == BOOLEAN
Some == {<<100, 105>>, <<40, 43>>, <<100, 95>>, <<100, Failed>>, <<Failed, 100>>}
Symmetry == Permutations(Axes) \cup Permutations(Levels)

\* The ranks, the variance and the median's sign are the ones of the definitions.
ASSUME RankTestByDefinition ==
    \A n \in 0..5 : \A d \in [1..n -> -2..2] :
        LET s == BySize(d)
        IN  /\ 2 * TwiceWPlus(s) = FourWPlus(d)
            /\ Variance48(s) = 3 * SquaredRanks(d)
            /\ n > 0 => (TwiceMedian(d) > 0 <=> MedianSlower(d))

\* The gate's docstring (report.py 328-332) passes a significant change only if
\* the signed sum is negative; the code looks at the median instead.  With many
\* small changes one way and not quite as many greater ones the other way (or
\* with enough zeros) the two disagree, in either direction.
SlowerBySum(d) ==
    LET n == Cardinality(Differing(d)) IN FourWPlus(d) > n * (n + 1)
Mixed(small, great) == [k \in 1..31 |-> IF k <= 16 THEN small ELSE great]
ASSUME MedianIsNotTheSignedSum ==
    /\ \A d \in {[k \in 1..13 |-> IF k <= 6 THEN 1 ELSE 0], Mixed(-1, 2)} :
           Significant(d) /\ SlowerBySum(d) /\ TwiceMedian(d) <= 0
    /\ LET d == Mixed(1, -2)
       IN  Significant(d) /\ ~SlowerBySum(d) /\ TwiceMedian(d) > 0
=============================================================================
