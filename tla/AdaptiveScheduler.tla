-------------------------- MODULE AdaptiveScheduler --------------------------
(***************************************************************************)
(* AdaptiveDecodeFirstScheduler.schedule: prefill packets are admitted     *)
(* beside active decoders out of a credit that each decode-bearing step    *)
(* refills, and the settings of the stock scheduler are replaced for the   *)
(* length of one call.                                                     *)
(*                                                                         *)
(* A call is Enter, the grants of the stock loop, and Return or Raise.     *)
(* schedule() is synchronous: requests come and go, and the capacity flag  *)
(* moves, only between two calls. The profile a call works with is any     *)
(* valid one, because the file it is read from may be edited at any time   *)
(* (module ProfileReload says which one it really is).                     *)
(*                                                                         *)
(* bucket and deferred are history: an ideal token bucket that every       *)
(* prefill token of a mixed run is drawn from, and the number of protected *)
(* steps since a packet was last admitted or refused by someone else.      *)
(***************************************************************************)
EXTENDS StockScheduler

CONSTANTS
    Profiles,             \* profiles the file may hold
    Burst                 \* the largest packet of any of them

ASSUME ProfilesAssumption == \A p \in Profiles : ValidProfile(p)

ASSUME BurstAssumption ==
    /\ Burst \in Nat
    /\ \A p \in Profiles : \A i \in 1..Len(p.tiers) : p.tiers[i].max_packet <= Burst

VARIABLES
    credit,               \* _mixed_prefill_credit
    mixedActive,          \* _mixed_prefill_active
    call,                 \* the locals of the call in progress
    bucket, deferred      \* history

vars == <<stockVars, credit, mixedActive, call, bucket, deferred>>

NoCall == [active |-> FALSE]
InCall == call.active

Calls == [active : {TRUE}, global : BOOLEAN, decoders : Nat, prefills : Nat,
          packet : Nat, earned : Nat, credit : Nat, mixed : BOOLEAN,
          admit : BOOLEAN, upstream : BOOLEAN, throttle : BOOLEAN,
          threshold : Nat, capacity : BOOLEAN, force : BOOLEAN]

TypeOK ==
    /\ StockTypeOK
    /\ credit \in Nat
    /\ mixedActive \in BOOLEAN
    /\ call \in Calls \cup {NoCall}
    /\ bucket \in Int
    /\ deferred \in Nat

Init ==
    /\ StockInit
    /\ credit = 0            \* unset: read only once mixedActive has been TRUE
    /\ mixedActive = FALSE
    /\ call = NoCall
    /\ bucket = Burst
    /\ deferred = 0

(***************************************************************************)
(* Prefills that can run in this step: those in a slot, and as many of     *)
(* the queued ones as there are free slots.                                *)
(***************************************************************************)
FreeSlots == AtLeast(0, MaxRunning - Cardinality(running))

RunningPrefillsOnly == Cardinality(running \cap flagged)

SchedulablePrefills ==
    Cardinality(running \cap flagged)
      + AtMost(FreeSlots, Cardinality(waiting \cap flagged))

(***************************************************************************)
(* The credit a step starts with: a full packet unless the previous call   *)
(* was mixed too, in which case one step's worth is added to what is left. *)
(***************************************************************************)
StartUnsaved(mixed, packet, earned) ==
    IF mixed /\ mixedActive THEN AtMost(packet, earned) ELSE packet

StartRefilled(mixed, packet, earned) == packet

StartCredit(mixed, packet, earned) ==
    IF mixed /\ mixedActive
      THEN AtMost(packet, AtMost(packet, credit) + earned)
      ELSE packet

\* The throttle is made effective where the capacity flag would release it.
ForceNothing(throttle, decoders) == FALSE

ForceThrottle(throttle, decoders) == throttle /\ decoders > 0 /\ capacityBound

(***************************************************************************)
(* Everything schedule() decides before it calls its parent.               *)
(***************************************************************************)
Decide(p, upstream) ==
    LET decoders == Cardinality(Decoders)
        prefills == SchedulablePrefills
        tier     == SelectTier(p, AtLeast(1, decoders))
        packet   == EffectivePacketTokens(tier, prefills)
        earned   == CreditIncrement(packet, tier.interval)
        mixed    == decoders > 0 /\ prefills > 0
        start    == StartCredit(mixed, packet, earned)
        admit    == mixed /\ start >= packet /\ ~upstream
        throttle == upstream \/ (mixed /\ ~admit)
    IN  [active |-> TRUE, global |-> p.global_budget, decoders |-> decoders,
         prefills |-> prefills, packet |-> packet, earned |-> earned,
         credit |-> start, mixed |-> mixed, admit |-> admit,
         upstream |-> upstream, throttle |-> throttle,
         threshold |-> threshold, capacity |-> capacityBound,
         force |-> ForceThrottle(throttle, decoders)]

\* The per-request cap installed for the call.
ScopedThreshold(p, c) ==
    CASE c.decoders = 0       -> p.pure_threshold
      [] c.admit /\ c.global  -> AtLeast(1, c.packet \div c.prefills)
      [] OTHER                -> c.packet

Enter(p, upstream) ==
    /\ ~InCall
    /\ LET c == Decide(p, upstream)
       IN  /\ call' = c
           /\ threshold' = ScopedThreshold(p, c)
           /\ capacityBound' = (capacityBound /\ ~c.force)
    /\ UNCHANGED <<queueVars, served, stepTokens, credit, mixedActive, bucket, deferred>>

(***************************************************************************)
(* The stock loop, and the end of the call. The finally block runs on both *)
(* ways out; the credit is stored only when the parent returned.           *)
(***************************************************************************)
ParentStep ==
    /\ InCall
    /\ PrefillsAllowed(call.throttle, call.decoders > 0)
    /\ \E r \in Req, n \in GrantSizes, lastChunk \in BOOLEAN :
          GrantRunning(r, n, lastChunk) \/ GrantWaiting(r, n, lastChunk)
    /\ UNCHANGED <<credit, mixedActive, call, bucket, deferred>>

Restore ==
    /\ threshold' = call.threshold
    /\ capacityBound' = (IF call.force THEN call.capacity ELSE capacityBound)
    /\ call' = NoCall
    /\ served' = {}
    /\ stepTokens' = 0
    /\ UNCHANGED queueVars

ChargeEveryCall == call.credit - stepTokens

ChargedCredit ==
    IF call.admit THEN AtLeast(0, call.credit - stepTokens) ELSE call.credit

\* The ideal bucket: full when a mixed run starts, then filled by what each
\* step earns, never above Burst, and drained by every token scheduled. An
\* overdrawn bucket is Overdrawn, however large the debt.
Overdrawn == -1

DrainedBucket ==
    IF ~call.mixed THEN Burst
    ELSE IF mixedActive THEN AtLeast(Overdrawn, AtMost(Burst, bucket + call.earned) - stepTokens)
    ELSE AtLeast(Overdrawn, call.packet - stepTokens)

Return ==
    /\ InCall
    /\ Restore
    /\ credit' = ChargedCredit
    /\ mixedActive' = call.mixed
    /\ bucket' = DrainedBucket
    /\ deferred' = IF call.mixed /\ ~call.admit /\ ~call.upstream
                     THEN AtMost(Burst, deferred + 1) ELSE 0

RaiseWithoutFinally ==
    /\ InCall
    /\ call' = NoCall
    /\ served' = {} /\ stepTokens' = 0
    /\ UNCHANGED <<queueVars, threshold, capacityBound, credit, mixedActive, bucket, deferred>>

Raise ==
    /\ InCall
    /\ Restore
    /\ UNCHANGED <<credit, mixedActive, bucket, deferred>>

Environment ==
    /\ ~InCall
    /\ \/ \E r \in Req : Arrive(r) \/ Leave(r)
       \/ BalanceCapacity
    /\ UNCHANGED <<credit, mixedActive, call, bucket, deferred>>

EnterSome == \E p \in Profiles, upstream \in BOOLEAN : Enter(p, upstream)

Next == Environment \/ EnterSome \/ ParentStep \/ Return \/ Raise

Spec == Init /\ [][Next]_vars

\* The engine loop keeps calling schedule() while it has requests, and an
\* engine whose parent scheduler raises on every call is dead, not slow.
Fairness == WF_vars(EnterSome) /\ SF_vars(Return)

FairSpec == Spec /\ Fairness
-----------------------------------------------------------------------------
\* A step that runs beside decoders schedules no prompt token unless a packet
\* was admitted: not when the credit is short, not when the caller throttles,
\* not when the slots are full, and not when the capacity flag would release
\* the throttle. (force_throttle, lines 282-298)
DecodeProtection ==
    InCall /\ call.decoders > 0 /\ (call.upstream \/ ~call.admit)
        => stepTokens = 0

\* With a global budget, the shares of an admitted packet never add up to more
\* than the packet, whichever prefills the stock loop serves and however many
\* queued ones it pulls into free slots. (lines 276-280)
StrictPacket ==
    InCall /\ call.admit /\ call.global => stepTokens <= call.packet

\* Over a whole mixed run, across changes of the tier, of the number of
\* prefills, of the profile and of the caller's throttle, the stored credit
\* never promises more than an ideal token bucket still holds, so prefills
\* never outrun the configured rate. (lines 249-268, 301-309)
BucketConformance == mixedActive => credit <= bucket

\* No run of protected steps is as long as the largest packet: every one of
\* them adds credit, and no change of tier may take it away. (lines 263-268)
BoundedDeferral == mixedActive => deferred <= credit /\ deferred < Burst

\* On both ways out of a call, a parent that raised half-way included, the
\* settings are again what they were at its start. (lines 311-316)
SettingsRestored ==
    [][InCall /\ ~InCall'
         => threshold' = ConfiguredThreshold /\ capacityBound' = call.capacity]_vars

\* Once callers stop throttling, a prefill that keeps competing with decoders
\* is admitted again and again, however tiers and profiles change under it.
AdmissionProgress ==
    <>[](InCall => ~call.upstream)
        => [](mixedActive => <>(~mixedActive \/ (InCall /\ call.admit)))

\* What the strict packet needs of a profile: a share of at least one token.
PacketsCoverSlots ==
    \A p \in Profiles :
        /\ p.global_budget
        /\ \A i \in 1..Len(p.tiers) : p.tiers[i].packet_tokens >= MaxRunning

=============================================================================
