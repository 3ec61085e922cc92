-------------------------- MODULE MCPrefillPolicy --------------------------
(***************************************************************************)
(* Static: three requests for two slots, a cadence of three steps, and a   *)
(* cap of two tokens for each prefill beside decoders. Adaptive: two good  *)
(* profiles, one that names no tiers, and one bad one for each way a       *)
(* profile can be rejected.                                                *)
(***************************************************************************)
EXTENDS PrefillPolicy

MCRawTier(decoders, packet, interval, extra, maximum) ==
    [max_decoders |-> decoders, packet_tokens |-> packet, interval |-> interval,
     extra |-> extra, max_packet |-> maximum]

MCRaw(tiers, global, pure) ==
    [tiers |-> tiers, global_budget |-> global, pure_threshold |-> pure]

MCOneTier == MCRawTier(6, 4, 2, Absent, Absent)

GoodRaw ==
    {MCRaw(Absent, Absent, Absent),
     MCRaw(<<MCOneTier>>, FALSE, 2),
     MCRaw(<<MCRawTier(2, 3, 3, 1, 5), MCOneTier>>, TRUE, 0)}

BadRaw ==
    {BadType,
     MCRaw(BadType, TRUE, 0), MCRaw(<<>>, TRUE, 0),
     MCRaw(<<MCOneTier>>, BadType, 0), MCRaw(<<MCOneTier>>, TRUE, -1),
     MCRaw(<<MCOneTier, MCRawTier(6, 1, 1, 0, 1)>>, TRUE, 0),
     MCRaw(<<MCRawTier(0, 1, 1, 0, 1), MCOneTier>>, TRUE, 0),
     MCRaw(<<MCRawTier(6, 0, 1, 0, 1)>>, TRUE, 0),
     MCRaw(<<MCRawTier(6, 1, 0, 0, 1)>>, TRUE, 0),
     MCRaw(<<MCRawTier(6, 1, 1, -1, 1)>>, TRUE, 0),
     MCRaw(<<MCRawTier(6, 2, 1, 0, 1)>>, TRUE, 0),
     MCRaw(<<MCRawTier(5, 1, 1, 0, 1)>>, TRUE, 0)}

AllRaw == GoodRaw \cup BadRaw
MCFirstRaw == MCRaw(Absent, Absent, Absent)
=============================================================================
