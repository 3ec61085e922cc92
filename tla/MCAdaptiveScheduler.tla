------------------------ MODULE MCAdaptiveScheduler ------------------------
(***************************************************************************)
(* Small instances of AdaptiveScheduler: four requests for three slots,    *)
(* packets of a few tokens, and profiles whose tiers differ in packet,     *)
(* interval and growth, so that tiers, packets and profiles change under   *)
(* a mixed run.                                                            *)
(***************************************************************************)
EXTENDS AdaptiveScheduler, TLC

MCTier(decoders, packet, interval, extra, maximum) ==
    [max_decoders |-> decoders, packet_tokens |-> packet, interval |-> interval,
     extra |-> extra, max_packet |-> maximum]

MCProfile(global, pure, tiers) ==
    [global_budget |-> global, pure_threshold |-> pure, tiers |-> tiers]

\* One decoder: three tokens in three steps, growing with the prefills that
\* share them. More decoders: four tokens in two steps.
Growing == MCProfile(TRUE, 0, <<MCTier(1, 3, 3, 1, 5), MCTier(6, 4, 2, 0, 4)>>)

\* Packets that take longer to earn than they have tokens.
Slow == MCProfile(TRUE, 2, <<MCTier(1, 4, 5, 0, 4), MCTier(6, 3, 5, 0, 3)>>)

\* A packet smaller than the number of prefills that may share it.
Tiny == MCProfile(TRUE, 0, <<MCTier(6, 1, 1, 0, 1)>>)

\* A packet each, as with global_budget set to false.
PerRequest == MCProfile(FALSE, 0, <<MCTier(6, 3, 2, 0, 3)>>)

CoveringProfiles == {Growing, Slow}
AllProfiles == {Growing, Slow, Tiny, PerRequest}
TinyProfiles == {Tiny}

Symmetry == Permutations(Req)
=============================================================================
