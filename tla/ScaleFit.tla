------------------------------ MODULE ScaleFit ------------------------------
(***************************************************************************)
(* The fit of one layer's outer scale (kv_calibration/fit.py) from the     *)
(* groups captured on each root, and its use by the server                 *)
(* (kv_calibration/runtime.py, patch_vllm_nvfp4_gscale.py).                *)
(*                                                                         *)
(* A sample is a root and a position in its capture.  Priorities and       *)
(* permutations are random, so any choice of the right size may be made.   *)
(* The strata of a layer are split alike; one stands for them.  A run fits *)
(* the layers one after the other, and this is one of them; a capture may  *)
(* lack it.  The objective is the squared error, and the least improvement *)
(* that is asked for is none.                                              *)
(***************************************************************************)
EXTENDS Nvfp4Rounding

CONSTANTS
    Root,           \* the capture roots, each also a cross-validation root
    CaptureGroups,  \* the groups a capture may hold
    StratumLimit    \* --per-stratum-limit

ASSUME FitAssumption ==
    /\ IsFiniteSet(Root)
    /\ CaptureGroups \subseteq Seq(Nat) \ {<<>>}
    /\ StratumLimit \in Nat \ {0, 1}

VARIABLES
    capture,   \* root -> its groups
    gates,     \* the gates of this run: "heldout" unless regressions are allowed, "cross"
    heldout,   \* samples of the merged captures kept back
    validated, \* root -> samples of it the scale was validated on
    outer,     \* the outer scale of the layer
    latent,    \* the scale the server gives the layer
    fitted     \* how far the run is

fitVars == <<capture, gates, heldout, validated, outer, latent, fitted>>

SamplesOf(roots) == {s \in roots \X (1 .. 2) : s[2] \in DOMAIN capture[s[1]]}
GroupOf(s) == capture[s[1]][s[2]]

FitInit ==
    /\ capture \in [Root -> UNION {[1 .. n -> CaptureGroups] : n \in 0 .. 2}]
    /\ gates \in SUBSET {"heldout", "cross"}
    /\ heldout = {} /\ validated = [r \in Root |-> {}]
    /\ outer = One /\ latent = One /\ fitted = "loaded"

Captured == \E r \in Root : capture[r] # <<>>

(* load_capture keeps the samples of the greatest priorities; split_layer  *)
(* holds a fifth of them back, at least one if there are two.              *)
Loads(roots) ==
    LET all == SamplesOf(roots) IN
    {kept \in SUBSET all : Cardinality(kept) = Min({StratumLimit, Cardinality(all)})}

HoldoutCount(n) == IF n > 1 THEN Min({Max({1, (2 * n + 5) \div 10}), n - 1}) ELSE 0

Holdouts(samples) ==
    {h \in SUBSET samples : Cardinality(h) = HoldoutCount(Cardinality(samples))}

\* evaluate_groups.
ReferenceError(samples, g) == SumOf([s \in samples |-> FourOverSix(GroupOf(s), g).error])

SamplesUnder(samples, g) == [phase |-> g, error |-> ReferenceError(samples, g)]
Worse(samples, g) == Exceeds(SamplesUnder(samples, g), SamplesUnder(samples, One))

\* The grid of --steps-per-octave, with the scale 1 in any case.
GlobalScales == Phases \cup {One}
BestScale(samples) == BestOf({SamplesUnder(samples, g) : g \in GlobalScales}).phase

FitLayer ==
    /\ fitted = "loaded" /\ Captured /\ fitted' = "fitted"
    /\ \E kept \in Loads(Root) : \E held \in Holdouts(kept) :
        LET best == BestScale(kept \ held) IN
        /\ heldout' = held
        /\ outer' = IF "heldout" \in gates /\ held # {} /\ Worse(held, best) THEN One ELSE best
    /\ UNCHANGED <<capture, gates, validated, latent>>

(* apply_cross_validation_gate: every root must agree.  A root without a   *)
(* sample of the layer is an error, and so is one with a single sample: it *)
(* has no holdout, and evaluate_groups refuses to run.                     *)
PassesSome(holdouts) == outer = One \/ \E r \in Root : ~ Worse(holdouts[r], outer)  \* a variant
Passes(holdouts) == outer = One \/ \A r \in Root : ~ Worse(holdouts[r], outer)

CrossValidate ==
    /\ fitted = "fitted" /\ "cross" \in gates
    /\ \E holdouts \in [Root -> SUBSET SamplesOf(Root)] :
        /\ \A r \in Root : \E kept \in Loads({r}) : holdouts[r] \in Holdouts(kept)
        /\ validated' = holdouts
        /\ IF \E r \in Root : holdouts[r] = {}
           THEN fitted' = "failed" /\ UNCHANGED outer
           ELSE fitted' = "validated" /\ outer' = IF Passes(holdouts) THEN outer ELSE One
    /\ UNCHANGED <<capture, gates, heldout, latent>>

\* When no layer failed the artifact of all layers is renamed into place.
WriteArtifact ==
    /\ fitted = IF ~Captured THEN "loaded" ELSE IF "cross" \in gates THEN "validated" ELSE "fitted"
    /\ fitted' = "written"
    /\ UNCHANGED <<capture, gates, heldout, validated, outer, latent>>

(* _load_scale_layers refuses an artifact of another schema, algorithm or  *)
(* record layout; runtime_for_layer gives the writer and the reader of the *)
(* layer its scale, or 1 if the artifact lacks it and is not taken         *)
(* strictly.                                                               *)
LatentScale == IF Captured THEN outer ELSE One

Serve(compatible, strict) ==
    /\ fitted = "written"
    /\ IF compatible /\ (strict => Captured)
       THEN fitted' = "served" /\ latent' = LatentScale
       ELSE fitted' = "refused" /\ UNCHANGED latent
    /\ UNCHANGED <<capture, gates, heldout, validated, outer>>

FitNext ==
    \/ FitLayer \/ CrossValidate \/ WriteArtifact
    \/ \E compatible, strict \in BOOLEAN : Serve(compatible, strict)

----------------------------------------------------------------------------
\* What the attention kernel reads back, against what the model computed.
ServedError(samples, g) ==
    SumOf([s \in samples |->
        LET group == GroupOf(s)
            record == WriteRecord(group, g)
        IN  SumOf([i \in DOMAIN group |-> Square(Served(record, i) - group[i] * g)])])

(* A scale other than 1 that is served passed every gate of its run: on    *)
(* the merged holdout, and on that of each root, the records the kernel    *)
(* writes and reads are no worse than with the scale 1.                    *)
ServedScaleIsSafe ==
    fitted = "served" =>
        \A samples \in (IF "heldout" \in gates THEN {heldout} ELSE {})
                        \cup (IF "cross" \in gates THEN Range(validated) ELSE {}) :
            ~ Exceeds([phase |-> latent, error |-> ServedError(samples, latent)],
                      [phase |-> One, error |-> ServedError(samples, One)])
=============================================================================
