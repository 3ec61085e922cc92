-------------------------- MODULE SchedulerProfile --------------------------
(***************************************************************************)
(* The adaptive scheduler profile of docker/glm_decode_first_scheduler.py: *)
(* what a validated profile is, how a tier is selected for a number of     *)
(* decoders, how large the aggregate prefill packet of a tier is, and how  *)
(* much credit a decode-bearing step earns.                                *)
(***************************************************************************)
EXTENDS Integers, Sequences, FiniteSets

\* The tiers of a profile must cover this many decoders (source line 91).
CoveredDecoders == 6

AtMost(a, b) == IF a <= b THEN a ELSE b
AtLeast(a, b) == IF a >= b THEN a ELSE b

(***************************************************************************)
(* A normalized tier, and what _validate_adaptive_profile lets through.    *)
(***************************************************************************)
Tier == [max_decoders : Nat, packet_tokens : Nat, interval : Nat,
         extra : Nat, max_packet : Nat]

ValidTier(t) ==
    /\ t \in Tier
    /\ t.packet_tokens > 0
    /\ t.interval > 0
    /\ t.max_packet >= t.packet_tokens

ValidProfile(p) ==
    /\ p.tiers \in Seq(Tier)
    /\ p.tiers # <<>>
    /\ \A i \in 1..Len(p.tiers) : ValidTier(p.tiers[i])
    /\ p.tiers[1].max_decoders > 0
    /\ \A i, j \in 1..Len(p.tiers) :
          i < j => p.tiers[i].max_decoders < p.tiers[j].max_decoders
    /\ p.tiers[Len(p.tiers)].max_decoders >= CoveredDecoders
    /\ p.global_budget \in BOOLEAN
    /\ p.pure_threshold \in Nat

(***************************************************************************)
(* The first tier that covers n decoders, the last one when none does.     *)
(***************************************************************************)
Covering(p, n) == {i \in 1..Len(p.tiers) : n <= p.tiers[i].max_decoders}

SelectTier(p, n) ==
    IF Covering(p, n) = {}
      THEN p.tiers[Len(p.tiers)]
      ELSE p.tiers[CHOOSE i \in Covering(p, n) : \A j \in Covering(p, n) : i <= j]

EffectivePacketTokens(t, prefills) ==
    AtMost(t.max_packet, t.packet_tokens + AtLeast(0, prefills - 1) * t.extra)

FloorIncrement(packet, interval) ==
    IF packet <= 0 THEN 0 ELSE packet \div AtLeast(1, interval)

CreditIncrement(packet, interval) ==
    IF packet <= 0
      THEN 0
      ELSE (packet + AtLeast(1, interval) - 1) \div AtLeast(1, interval)

=============================================================================
