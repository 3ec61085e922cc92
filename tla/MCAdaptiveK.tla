----------------------------- MODULE MCAdaptiveK -----------------------------
(***************************************************************************)
(* Blocks of three drafts, verified one or three at a time.                *)
(***************************************************************************)
EXTENDS AdaptiveK, TLC

MCBootPolicy ==
    [mode |-> "ema", alpha |-> 2, margin |-> 2, min_steps |-> 1, saturate |-> "max", set |-> {}]

NoKeys == [key \in {"mode", "alpha", "margin", "min_steps", "saturate", "set"} |-> Absent]

\* Narrowed to one length and without the jump of a full block; narrowed to a
\* length no graph exists for.
Ratchet == [NoKeys EXCEPT !["set"] = {2, 3}, !["saturate"] = "n", !["min_steps"] = 2]
Foreign == [NoKeys EXCEPT !["set"] = {2}]

\* Switched off by a file whose margin does not convert.
HalfBad == [NoKeys EXCEPT !["mode"] = "off", !["margin"] = Bad]

MCOverrides == {Ratchet, Foreign, HalfBad}
BadOverrides == {HalfBad, Bad}
=============================================================================
