------------------------- MODULE ProfileValidation -------------------------
(***************************************************************************)
(* _validate_adaptive_profile of docker/glm_decode_first_scheduler.py:     *)
(* which parsed JSON objects are accepted as a scheduler profile, and the  *)
(* normalized profile an accepted one becomes.                             *)
(***************************************************************************)
EXTENDS SchedulerProfile

(***************************************************************************)
(* A raw profile, as parsed from the JSON file: optional fields hold       *)
(* Absent when the file does not have them, and a value of the wrong type  *)
(* is BadType. Everything else is an integer, possibly out of range.       *)
(***************************************************************************)
CONSTANTS Absent, BadType

RawTier ==
    [max_decoders : Int, packet_tokens : Int, interval : Int,
     extra : Int \cup {Absent}, max_packet : Int \cup {Absent}]

RawProfile ==
    [tiers          : Seq(RawTier) \cup {Absent, BadType},
     global_budget  : BOOLEAN \cup {Absent, BadType},
     pure_threshold : Int \cup {Absent}]

OrDefault(value, default) == IF value = Absent THEN default ELSE value

\* The tiers of a profile that names none.
DefaultTiers(packet, interval) ==
    [i \in 1..3 |->
        [max_decoders |-> 2 * i, packet_tokens |-> packet,
         interval |-> IF i = 1 THEN interval ELSE AtLeast(1, interval - (i - 1)),
         extra |-> Absent, max_packet |-> Absent]]

NormalTier(t) ==
    [t EXCEPT !.extra = OrDefault(t.extra, 0),
              !.max_packet = OrDefault(t.max_packet, t.packet_tokens)]

AcceptsAnyOrder(t, previousMax) ==
    /\ t.packet_tokens > 0
    /\ t.interval > 0
    /\ t.extra >= 0
    /\ t.max_packet >= t.packet_tokens

\* What the loop over the tiers rejects, tier by tier.
AcceptsTier(t, previousMax) ==
    /\ t.max_decoders > previousMax
    /\ t.packet_tokens > 0
    /\ t.interval > 0
    /\ t.extra >= 0
    /\ t.max_packet >= t.packet_tokens

AcceptsTiers(tiers) ==
    /\ \A i \in 1..Len(tiers) :
          AcceptsTier(tiers[i], IF i = 1 THEN 0 ELSE tiers[i - 1].max_decoders)
    /\ tiers[Len(tiers)].max_decoders >= CoveredDecoders

(***************************************************************************)
(* _validate_adaptive_profile: Rejected stands for the exceptions it       *)
(* raises, among them those of a file that does not parse (BadType).       *)
(***************************************************************************)
Rejected == [rejected |-> TRUE]

Validate(raw, packet, interval) ==
    IF raw = BadType THEN Rejected
    ELSE LET given == OrDefault(raw.tiers, DefaultTiers(packet, interval))
             tiers == [i \in 1..Len(given) |-> NormalTier(given[i])]
             pure  == OrDefault(raw.pure_threshold, 0)
             flag  == OrDefault(raw.global_budget, TRUE)
         IN  IF /\ given # BadType
                /\ given # <<>>
                /\ AcceptsTiers(tiers)
                /\ flag # BadType
                /\ pure >= 0
               THEN [tiers |-> tiers, global_budget |-> flag, pure_threshold |-> pure]
               ELSE Rejected

=============================================================================
