--------------------------- MODULE MCKpoolRollback ---------------------------
(***************************************************************************)
(* Steps of three tokens, of which two may be rejected: the second takes   *)
(* the place of the first token of a pool that lacks only one.             *)
(***************************************************************************)
EXTENDS KpoolIndexer

KpSpec == KpInit /\ [][KpNext]_kpVars
=============================================================================
