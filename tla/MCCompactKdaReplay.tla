------------------------- MODULE MCCompactKdaReplay -------------------------
(***************************************************************************)
(* Two requests that move between three blocks, replay buffers of three    *)
(* rows, and a graph that is wider than some of the batches it runs.       *)
(***************************************************************************)
EXTENDS CompactKdaReplay, TLC

Symmetry == Permutations(Req) \cup Permutations(Blocks)
=============================================================================
