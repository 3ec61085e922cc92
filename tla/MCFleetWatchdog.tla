--------------------------- MODULE MCFleetWatchdog ---------------------------
(***************************************************************************)
(* A head and two workers: faults that hit different ranks of one recovery *)
(* and faults that hit a recovery and its retry. Every launch of the fleet *)
(* beyond the first two is owed to a fault, so that MaxGen cuts off none.  *)
(***************************************************************************)
EXTENDS FleetWatchdog

MCOrder == <<2, 1, 0>>
=============================================================================
