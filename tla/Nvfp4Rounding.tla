---------------------------- MODULE Nvfp4Rounding ----------------------------
(***************************************************************************)
(* NVFP4 rounding: a group of magnitudes shares an E4M3 scale, and each    *)
(* magnitude is an E2M1 code.  Three programs round: the optimizer of the  *)
(* weights (probes/optimize_nvfp4_rounding.py), the writer of the latent   *)
(* cache (patch_b12x_nvfp4_four_over_six.py, patch_b12x_nvfp4_gscale.py)   *)
(* and the CPU reference the calibration trusts                            *)
(* (kv_calibration/numerics.py).                                           *)
(*                                                                         *)
(* Everything is exact in integers: E2M1 in halves, E4M3 in units of its   *)
(* least step, an outer scale G in halves, so that a value x under G = g/2 *)
(* is compared as x * g with code * scale.  Signs, packing and the         *)
(* approximate reciprocal of the GPU are left out.                         *)
(***************************************************************************)
EXTENDS Integers, Sequences, FiniteSets, FiniteSetsExt, SequencesExt

CONSTANTS
    TopCode,            \* greatest finite scale code, 126 in E4M3
    RadiusBelow, RadiusAbove,  \* the window of scale codes that is searched
    Phases,             \* outer scales that are tried, in halves
    WeightGroups        \* the groups a row of a matrix is made of

ASSUME RoundingAssumption ==
    /\ TopCode \in Nat /\ TopCode % 2 = 0
    /\ {RadiusBelow, RadiusAbove} \subseteq Nat
    /\ Phases \subseteq 1 .. 4 /\ 2 \in Phases
    /\ WeightGroups \subseteq Seq(Nat) \ {<<>>}

VARIABLES
    matrix,     \* the rows of a matrix, a group each
    optimized   \* what the optimizer made of it

optVars == <<matrix, optimized>>

One == 2                                   \* an outer scale of 1, in halves
E2M1 == <<0, 1, 2, 3, 4, 6, 8, 12>>
Scales ==
    [code \in 0 .. TopCode + 1 |->
        IF code < 8 THEN code ELSE (8 + (code % 8)) * 2 ^ (code \div 8 - 1)]
Scale(code) == Scales[code]

Amax(group) == Max({group[i] : i \in DOMAIN group})
Square(n) == n * n
SumOf(f) == FoldFunction(+, 0, f)

(* Index of the nearest entry of a sorted table; a midpoint goes to the    *)
(* even code, which has an odd index.                                      *)
NearestEven(value, table) ==
    1 + Cardinality({i \in 2 .. Len(table) :
            \/ 2 * value > table[i - 1] + table[i]
            \/ 2 * value = table[i - 1] + table[i] /\ i % 2 = 1})

(* Squared error of a group under codes for its magnitudes, times g * g.   *)
ErrorOf(group, codes, code, g) ==
    SumOf([i \in DOMAIN group |-> Square(E2M1[codes[i] + 1] * Scale(code) - group[i] * g)])

----------------------------------------------------------------------------
(* The cache: candidates with amax / 6 and amax / 4.                       *)

ScaleCode(group, divisor, g) ==
    NearestEven(Amax(group) * g, [c \in 1 .. TopCode + 1 |-> divisor * 2 * Scale(c - 1)]) - 1

Codes(group, code, g) ==
    [i \in DOMAIN group |->
        IF code = 0 THEN 0
        ELSE NearestEven(group[i] * g, [k \in 1 .. 8 |-> E2M1[k] * Scale(code)]) - 1]

Candidate(group, divisor, g) ==
    LET code == ScaleCode(group, divisor, g)
        codes == Codes(group, code, g)
    IN  [code |-> code, codes |-> codes, error |-> ErrorOf(group, codes, code, g)]

SixOnly(group, g) == Candidate(group, 6, g)  \* a variant: the reference before four-over-six

\* numerics.quantize_groups_four_over_six.
FourOverSix(group, g) ==
    LET six == Candidate(group, 6, g)
        four == Candidate(group, 4, g)
    IN  IF four.error < six.error THEN four ELSE six

\* The record the kernel writes for outer scale g, and what the reader makes of it
\* under the outer scale it was given.
WriteRecord(group, g) ==
    LET six == Candidate(group, 6, g)
        four == Candidate(group, 4, g)
        best == IF four.error < six.error THEN four ELSE six
    IN  [code |-> best.code, codes |-> best.codes]

Served(record, i) == E2M1[record.codes[i] + 1] * Scale(record.code)

----------------------------------------------------------------------------
(* The weights: scale codes near the one of amax / 6 are all tried.  A     *)
(* scale out of range is NaN, code TopCode + 1.                            *)

BaselineCode(group, g) ==
    NearestEven(Amax(group) * g, [c \in 1 .. TopCode + 2 |-> 12 * Scale(c - 1)]) - 1

CodesBelow(group, g) ==  \* a variant: only codes below the baseline are tried
    {Max({1, Min({TopCode, BaselineCode(group, g) + d})}) : d \in - RadiusBelow .. 0}

Window(group, g) ==
    {Max({1, Min({TopCode, BaselineCode(group, g) + d})}) : d \in - RadiusBelow .. RadiusAbove}

Thresholds == {1, 3, 5, 7, 10, 14, 20}     \* quarters

Magnitudes(group, code, g) ==
    [i \in DOMAIN group |-> Cardinality({t \in Thresholds : 2 * group[i] * g > t * Scale(code)})]

OptimizeGroup(group, g) ==
    LET tried == {LET codes == Magnitudes(group, c, g)
                  IN  [code |-> c, codes |-> codes, error |-> ErrorOf(group, codes, c, g)] :
                    c \in Window(group, g)}
    IN  CHOOSE t \in tried : \A u \in tried :
            t.error < u.error \/ (t.error = u.error /\ t.code <= u.code)

(* Rows are dealt to training and to held-out rows in turn; a divisor that *)
(* does worse on those falls back to that of the checkpoint.               *)
RowsError(rows, g) == SumOf([r \in rows |-> OptimizeGroup(matrix[r], g).error])
Train == {r \in DOMAIN matrix : r % 2 = 1}
Heldout == IF Len(matrix) = 1 THEN Train ELSE DOMAIN matrix \ Train

\* How far an outer scale is from 1, as the logarithm orders it.
Distance(g) == IF g >= One THEN g ELSE 4 \div g

\* An error is taken under the outer scale it is measured with.
Exceeds(e, f) == e.error * f.phase * f.phase > f.error * e.phase * e.phase
BestOf(tried) ==
    CHOOSE t \in tried : \A u \in tried :
        \/ Exceeds(u, t)
        \/ /\ ~ Exceeds(t, u)
           /\ \/ Distance(t.phase) < Distance(u.phase)
              \/ Distance(t.phase) = Distance(u.phase) /\ t.phase <= u.phase

RowsUnder(rows, g) == [phase |-> g, error |-> RowsError(rows, g)]
BestPhase == BestOf({RowsUnder(Train, g) : g \in Phases}).phase

SelectUnguarded == BestPhase  \* a variant: no fall-back

SelectDivisor ==
    LET best == BestPhase IN
    IF Exceeds(RowsUnder(Heldout, best), RowsUnder(Heldout, One)) THEN One ELSE best

OptimizeMatrix ==
    /\ optimized = <<>>
    /\ LET g == SelectDivisor IN
        optimized' = [r \in DOMAIN matrix |->
                        [phase |-> g, group |-> OptimizeGroup(matrix[r], g)]]
    /\ UNCHANGED matrix

OptInit == matrix \in UNION {[1 .. n -> WeightGroups] : n \in 1 .. 2} /\ optimized = <<>>

----------------------------------------------------------------------------
(* An optimized group is as near to the weights as any choice of a scale   *)
(* code of the window with any codes of its magnitudes, the rounding of    *)
(* amax / 6 among them when it is a scale at all, and the divisor that was *)
(* chosen is, on held-out rows, no worse than that of the checkpoint.      *)
OptimizerNeverLoses ==
    \A r \in DOMAIN optimized :
        LET g == optimized[r].phase
            group == matrix[r]
            Least(c) == SumOf([i \in DOMAIN group |->
                            Min({Square(m * Scale(c) - group[i] * g) : m \in Range(E2M1)})])
            baseline == BaselineCode(group, g)
        IN  /\ \A c \in Max({1, baseline - RadiusBelow}) .. Min({TopCode, baseline + RadiusAbove}) :
                    optimized[r].group.error <= Least(c)
            /\ ~ Exceeds(RowsUnder(Heldout, g), RowsUnder(Heldout, One))
=============================================================================
