--------------------------- MODULE MCClusterStart ---------------------------
(***************************************************************************)
(* A head and a worker, a few starts with deaths and wedged engines        *)
(* between and within them, and a wait of two rounds.                      *)
(***************************************************************************)
EXTENDS ClusterStart

CONSTANTS head, worker

MCRank == {head, worker}
=============================================================================
