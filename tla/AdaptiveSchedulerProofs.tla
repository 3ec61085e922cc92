----------------------- MODULE AdaptiveSchedulerProofs -----------------------
(***************************************************************************)
(* What AdaptiveScheduler guarantees for every number of requests, slots   *)
(* and tokens and for every set of valid profiles.                         *)
(***************************************************************************)
EXTENDS AdaptiveScheduler, NaturalsLemmas, FiniteSetTheorems, TLAPS

-----------------------------------------------------------------------------
(***************************************************************************)
(* Lemmas about the operators of SchedulerProfile.                         *)
(***************************************************************************)

\* A selected tier is one of the tiers of the profile.
LEMMA SelectTierIsATier ==
    ASSUME NEW p \in Profiles, NEW n \in Nat
    PROVE  \E i \in 1..Len(p.tiers) : SelectTier(p, n) = p.tiers[i]
<1>1. ValidProfile(p)
  BY ProfilesAssumption
<1>2. Len(p.tiers) \in 1..Len(p.tiers)
  BY <1>1 DEF ValidProfile
<1>3. CASE Covering(p, n) = {}
  BY <1>2, <1>3 DEF SelectTier
<1>4. CASE Covering(p, n) # {}
  <2>1. Covering(p, n) \in SUBSET Nat /\ Covering(p, n) \subseteq 1..Len(p.tiers)
    BY <1>2 DEF Covering
  <2>2. \E i \in Covering(p, n) : \A j \in Covering(p, n) : i <= j
    BY <1>4, <2>1, LeastElement
  <2> QED
    BY <1>4, <2>1, <2>2 DEF SelectTier
<1> QED
  BY <1>3, <1>4

\* The packet of a selected tier is positive and at most Burst.
LEMMA PacketRange ==
    ASSUME NEW p \in Profiles, NEW n \in Nat, NEW prefills \in Nat
    PROVE  LET tier   == SelectTier(p, n)
               packet == EffectivePacketTokens(tier, prefills)
           IN  /\ ValidTier(tier)
               /\ packet \in 1..Burst
               /\ tier.packet_tokens <= packet
<1> DEFINE tier == SelectTier(p, n)
           growth == AtLeast(0, prefills - 1) * tier.extra
<1>1. PICK i \in 1..Len(p.tiers) : tier = p.tiers[i]
  BY SelectTierIsATier
<1>2. ValidTier(tier) /\ tier.max_packet <= Burst
  BY <1>1, ProfilesAssumption, BurstAssumption DEF ValidProfile
<1> HIDE DEF tier
<1>3. /\ tier.packet_tokens \in Nat \ {0}
      /\ tier.extra \in Nat
      /\ tier.max_packet \in Nat
      /\ tier.max_packet >= tier.packet_tokens
  BY <1>2 DEF ValidTier, Tier
<1>4. AtLeast(0, prefills - 1) \in Nat
  BY DEF AtLeast
<1>5. growth \in Nat
  BY <1>3, <1>4
<1> HIDE DEF growth
<1>6. EffectivePacketTokens(tier, prefills) = AtMost(tier.max_packet, tier.packet_tokens + growth)
  BY DEF EffectivePacketTokens, growth
<1>7. /\ EffectivePacketTokens(tier, prefills) \in 1..Burst
      /\ tier.packet_tokens <= EffectivePacketTokens(tier, prefills)
  BY <1>2, <1>3, <1>5, <1>6, BurstAssumption DEF AtMost
<1> QED
  BY <1>2, <1>7 DEF tier

\* A decode-bearing step earns at least one token of credit and at most the
\* packet.
LEMMA CreditIncrementRange ==
    ASSUME NEW packet \in Nat \ {0}, NEW interval \in Nat \ {0}
    PROVE  CreditIncrement(packet, interval) \in 1..packet
<1>1. /\ (packet + interval - 1) \div interval >= 1
      /\ (packet + interval - 1) \div interval <= packet
      /\ (packet + interval - 1) \div interval \in Nat
  OBVIOUS
<1>2. AtLeast(1, interval) = interval
  BY DEF AtLeast
<1> QED
  BY <1>1, <1>2 DEF CreditIncrement

\* Equal shares of a packet do not add up to more than the packet.
LEMMA SharesFit ==
    ASSUME NEW packet \in Nat, NEW shares \in Nat \ {0}
    PROVE  /\ packet \div shares \in Nat
           /\ shares * (packet \div shares) <= packet
           /\ packet >= shares => packet \div shares >= 1
OBVIOUS

-----------------------------------------------------------------------------
(***************************************************************************)
(* The inductive invariant.                                                *)
(***************************************************************************)

\* How many prefills the call may still serve, in a slot or from the queue.
Servable ==
    Cardinality((running \cap flagged) \ served)
      + AtMost(FreeSlots, Cardinality((waiting \cap flagged) \ served))

\* What schedule() decided, kept unchanged while its parent runs.
CallFacts ==
    /\ call \in Calls
    /\ call.packet \in 1..Burst
    /\ call.earned >= 1
    /\ call.credit <= call.packet
    /\ call.prefills <= MaxRunning
    /\ call.mixed <=> call.decoders > 0 /\ call.prefills > 0
    /\ call.admit => call.mixed /\ ~call.upstream /\ call.credit = call.packet
    /\ call.mixed /\ ~call.admit /\ ~call.upstream => call.credit < call.packet
    /\ call.throttle <=> call.upstream \/ (call.mixed /\ ~call.admit)
    /\ call.force <=> call.throttle /\ call.decoders > 0 /\ call.capacity
    /\ call.credit = IF call.mixed /\ mixedActive
                       THEN AtMost(call.packet, AtMost(call.packet, credit) + call.earned)
                       ELSE call.packet

\* The settings of the call, and the ones it will put back.
SettingFacts ==
    /\ call.threshold = ConfiguredThreshold
    /\ capacityBound <=> call.capacity /\ ~call.force
    /\ call.admit /\ call.global => threshold = AtLeast(1, call.packet \div call.prefills)

\* The parent serves no more prefills than schedule() counted, and none at
\* all on a protected step.
ServeFacts ==
    /\ Cardinality(served) + Servable <= call.prefills
    /\ call.admit /\ call.global => stepTokens <= Cardinality(served) * threshold
    /\ call.decoders > 0 /\ (call.upstream \/ ~call.admit) => stepTokens = 0

CallInv ==
    /\ TypeOK
    /\ InCall => CallFacts /\ SettingFacts /\ ServeFacts
    /\ ~InCall => threshold = ConfiguredThreshold /\ served = {} /\ stepTokens = 0

-----------------------------------------------------------------------------
(***************************************************************************)
(* Counting.                                                               *)
(***************************************************************************)

LEMMA FiniteQueues ==
    ASSUME StockTypeOK, NEW S, S \subseteq running \/ S \subseteq waiting \/ S \subseteq served
    PROVE  IsFiniteSet(S) /\ Cardinality(S) \in Nat
<1>1. IsFiniteSet(S)
  <2>1. S \in SUBSET Req
    BY DEF StockTypeOK
  <2> QED
    BY <2>1, StockAssumption, FS_Subset
<1> QED
  BY <1>1, FS_CardinalityType

\* No more prefills are schedulable than there are slots.
LEMMA SchedulableRange ==
    ASSUME StockTypeOK
    PROVE  /\ FreeSlots \in Nat
           /\ Cardinality(Decoders) \in Nat
           /\ SchedulablePrefills \in Nat
           /\ SchedulablePrefills <= MaxRunning
<1>1. /\ Cardinality(running) \in Nat
      /\ Cardinality(running \cap flagged) \in Nat
      /\ Cardinality(waiting \cap flagged) \in Nat
      /\ Cardinality(Decoders) \in Nat
      /\ IsFiniteSet(running)
  <2>1. /\ running \cap flagged \subseteq running
        /\ waiting \cap flagged \subseteq waiting
        /\ Decoders \subseteq running
    BY DEF Decoders
  <2> QED
    BY <2>1, FiniteQueues
<1>2. Cardinality(running \cap flagged) <= Cardinality(running)
  BY <1>1, FS_Subset
<1>3. Cardinality(running) <= MaxRunning /\ MaxRunning \in Nat
  BY StockAssumption DEF StockTypeOK
<1> QED
  BY <1>1, <1>2, <1>3 DEF FreeSlots, SchedulablePrefills, AtLeast, AtMost

-----------------------------------------------------------------------------
(***************************************************************************)
(* One lemma per kind of step.                                             *)
(***************************************************************************)

\* What Decide computes, for any profile.
LEMMA DecideFacts ==
    ASSUME TypeOK, NEW p \in Profiles, NEW upstream \in BOOLEAN,
           NEW c, c = Decide(p, upstream)
    PROVE  /\ c \in Calls
           /\ c.packet \in 1..Burst
           /\ c.earned >= 1
           /\ c.credit <= c.packet
           /\ c.prefills = SchedulablePrefills
           /\ c.prefills <= MaxRunning
           /\ c.mixed <=> c.decoders > 0 /\ c.prefills > 0
           /\ c.admit => c.mixed /\ ~c.upstream /\ c.credit = c.packet
           /\ c.mixed /\ ~c.admit /\ ~c.upstream => c.credit < c.packet
           /\ c.throttle <=> c.upstream \/ (c.mixed /\ ~c.admit)
           /\ c.force <=> c.throttle /\ c.decoders > 0 /\ c.capacity
           /\ c.credit = IF c.mixed /\ mixedActive
                           THEN AtMost(c.packet, AtMost(c.packet, credit) + c.earned)
                           ELSE c.packet
           /\ c.threshold = threshold
           /\ c.capacity = capacityBound
           /\ c.global = p.global_budget
<1> DEFINE decoders == Cardinality(Decoders)
           prefills == SchedulablePrefills
           tier     == SelectTier(p, AtLeast(1, decoders))
           packet   == EffectivePacketTokens(tier, prefills)
           earned   == CreditIncrement(packet, tier.interval)
           mixed    == decoders > 0 /\ prefills > 0
           start    == StartCredit(mixed, packet, earned)
           admit    == mixed /\ start >= packet /\ ~upstream
           throttle == upstream \/ (mixed /\ ~admit)
           force    == ForceThrottle(throttle, decoders)
<1>1. /\ decoders \in Nat
      /\ prefills \in Nat
      /\ prefills <= MaxRunning
  BY SchedulableRange DEF TypeOK
<1>2. AtLeast(1, decoders) \in Nat
  BY <1>1 DEF AtLeast
<1>3. packet \in 1..Burst /\ tier.interval \in Nat \ {0}
  BY <1>1, <1>2, PacketRange DEF ValidTier, Tier
<1>4. earned \in 1..packet
  BY <1>3, CreditIncrementRange
<1>5. credit \in Nat /\ mixedActive \in BOOLEAN /\ threshold \in Nat /\ capacityBound \in BOOLEAN
  BY DEF TypeOK, StockTypeOK
<1>6. p.global_budget \in BOOLEAN
  BY ProfilesAssumption DEF ValidProfile
<1>7. c = [active |-> TRUE, global |-> p.global_budget, decoders |-> decoders,
           prefills |-> prefills, packet |-> packet, earned |-> earned,
           credit |-> start, mixed |-> mixed, admit |-> admit,
           upstream |-> upstream, throttle |-> throttle,
           threshold |-> threshold, capacity |-> capacityBound, force |-> force]
  BY DEF Decide
<1> HIDE DEF decoders, prefills, tier, packet, earned
<1>8. start \in Nat /\ start <= packet /\ (~(mixed /\ mixedActive) => start = packet)
  BY <1>3, <1>4, <1>5 DEF AtMost, StartCredit
<1> HIDE DEF start
<1>9. mixed \in BOOLEAN /\ admit \in BOOLEAN /\ throttle \in BOOLEAN /\ force \in BOOLEAN
  BY <1>5 DEF ForceThrottle
<1>10. c \in Calls
  <2> HIDE DEF mixed, admit, throttle, force
  <2> QED
    BY <1>1, <1>3, <1>4, <1>5, <1>6, <1>7, <1>8, <1>9 DEF Calls
<1>11. /\ admit => start = packet
       /\ mixed /\ ~admit /\ ~upstream => start < packet
  BY <1>3, <1>8
<1>12. start = IF mixed /\ mixedActive
                 THEN AtMost(packet, AtMost(packet, credit) + earned) ELSE packet
  BY DEF start, StartCredit
<1>13. /\ c.packet = packet /\ c.earned = earned /\ c.credit = start
       /\ c.prefills = prefills /\ c.decoders = decoders
       /\ c.mixed = mixed /\ c.admit = admit /\ c.upstream = upstream
       /\ c.throttle = throttle /\ c.force = force
       /\ c.threshold = threshold /\ c.capacity = capacityBound
       /\ c.global = p.global_budget
  <2> HIDE DEF mixed, admit, throttle, force
  <2> QED
    BY <1>7
<1>14. prefills = SchedulablePrefills
  BY DEF prefills
<1>15. /\ c.packet \in 1..Burst /\ c.earned >= 1 /\ c.credit <= c.packet
       /\ c.prefills = SchedulablePrefills /\ c.prefills <= MaxRunning
  BY <1>1, <1>3, <1>4, <1>8, <1>13, <1>14
<1>16. c.mixed <=> c.decoders > 0 /\ c.prefills > 0
  BY <1>13
<1>17. /\ c.admit => c.mixed /\ ~c.upstream /\ c.credit = c.packet
       /\ c.mixed /\ ~c.admit /\ ~c.upstream => c.credit < c.packet
  BY <1>9, <1>11, <1>13
<1>18. c.throttle <=> c.upstream \/ (c.mixed /\ ~c.admit)
  <2> HIDE DEF mixed, admit
  <2> QED
    BY <1>9, <1>13
<1>19. c.force <=> c.throttle /\ c.decoders > 0 /\ c.capacity
  <2> HIDE DEF throttle
  <2> QED
    BY <1>9, <1>13 DEF ForceThrottle
<1>20. c.credit = IF c.mixed /\ mixedActive
                    THEN AtMost(c.packet, AtMost(c.packet, credit) + c.earned)
                    ELSE c.packet
  <2> HIDE DEF mixed
  <2> QED
    BY <1>12, <1>13
<1> QED
  BY <1>10, <1>13, <1>15, <1>16, <1>17, <1>18, <1>19, <1>20

LEMMA InitInv == Init => CallInv
<1> SUFFICES ASSUME Init PROVE CallInv
  OBVIOUS
<1>1. Cardinality({}) = 0
  BY FS_EmptySet
<1>2. ~InCall
  BY DEF Init, InCall, NoCall
<1>3. StockTypeOK
  <2>1. /\ running = {} /\ waiting = {} /\ flagged = {} /\ served = {}
        /\ threshold = ConfiguredThreshold /\ capacityBound = FALSE /\ stepTokens = 0
    BY DEF Init, StockInit
  <2>2. Cardinality(running) <= MaxRunning /\ threshold \in Nat /\ stepTokens \in Nat
    BY <1>1, <2>1, StockAssumption
  <2> QED
    BY <2>1, <2>2 DEF StockTypeOK
<1>4. TypeOK
  <2>1. Burst \in Int
    BY BurstAssumption
  <2>2. credit \in Nat /\ mixedActive \in BOOLEAN /\ call \in {NoCall} /\ deferred \in Nat
    BY DEF Init
  <2>3. bucket \in Int
    BY <2>1 DEF Init
  <2> QED
    BY <1>3, <2>2, <2>3 DEF TypeOK
<1> QED
  BY <1>2, <1>4 DEF Init, StockInit, CallInv

LEMMA EnterInv ==
    ASSUME CallInv, NEW p \in Profiles, NEW upstream \in BOOLEAN, Enter(p, upstream)
    PROVE  CallInv'
<1> DEFINE c == Decide(p, upstream)
<1>1. /\ TypeOK /\ StockTypeOK /\ ~InCall
      /\ threshold = ConfiguredThreshold /\ served = {} /\ stepTokens = 0
  BY DEF CallInv, Enter, TypeOK
<1>2. /\ call' = c
      /\ threshold' = ScopedThreshold(p, c)
      /\ capacityBound' = (capacityBound /\ ~c.force)
      /\ UNCHANGED <<queueVars, served, stepTokens, credit, mixedActive, bucket, deferred>>
  BY DEF Enter
<1> HIDE DEF c
<1>3. /\ c \in Calls
      /\ c.packet \in 1..Burst /\ c.earned >= 1 /\ c.credit <= c.packet
      /\ c.prefills = SchedulablePrefills /\ c.prefills <= MaxRunning
      /\ c.mixed <=> c.decoders > 0 /\ c.prefills > 0
      /\ c.admit => c.mixed /\ ~c.upstream /\ c.credit = c.packet
      /\ c.mixed /\ ~c.admit /\ ~c.upstream => c.credit < c.packet
      /\ c.throttle <=> c.upstream \/ (c.mixed /\ ~c.admit)
      /\ c.force <=> c.throttle /\ c.decoders > 0 /\ c.capacity
      /\ c.credit = IF c.mixed /\ mixedActive
                      THEN AtMost(c.packet, AtMost(c.packet, credit) + c.earned)
                      ELSE c.packet
      /\ c.threshold = threshold /\ c.capacity = capacityBound
  BY <1>1, DecideFacts DEF c
<1>4. /\ c.active = TRUE /\ c.decoders \in Nat /\ c.prefills \in Nat /\ c.packet \in Nat
      /\ c.admit \in BOOLEAN /\ c.global \in BOOLEAN /\ c.force \in BOOLEAN
  BY <1>3 DEF Calls
<1>5. InCall'
  BY <1>2, <1>4 DEF InCall
<1>6. /\ threshold' \in Nat
      /\ c.admit /\ c.global => threshold' = AtLeast(1, c.packet \div c.prefills)
  <2>1. p.pure_threshold \in Nat
    BY ProfilesAssumption DEF ValidProfile
  <2>2. ASSUME c.admit, c.global
        PROVE  /\ c.decoders # 0
               /\ AtLeast(1, c.packet \div c.prefills) \in Nat
    BY <1>3, <1>4, <2>2, SharesFit DEF AtLeast
  <2> QED
    BY <1>2, <1>4, <2>1, <2>2 DEF ScopedThreshold
<1>7. TypeOK'
  BY <1>1, <1>2, <1>3, <1>6 DEF TypeOK, StockTypeOK, queueVars
<1>8. CallFacts'
  BY <1>2, <1>3 DEF CallFacts
<1>9. SettingFacts'
  BY <1>1, <1>2, <1>3, <1>6 DEF SettingFacts
<1>10. ServeFacts'
  <2>1. Servable' = SchedulablePrefills
    <3>1. served' = {} /\ running' = running /\ waiting' = waiting /\ flagged' = flagged
      BY <1>1, <1>2 DEF queueVars
    <3>2. (running' \cap flagged') \ served' = running \cap flagged
      BY <3>1
    <3>3. (waiting' \cap flagged') \ served' = waiting \cap flagged
      BY <3>1
    <3> QED
      BY <3>1, <3>2, <3>3 DEF Servable, SchedulablePrefills, FreeSlots
  <2>2. Cardinality(served') = 0 /\ stepTokens' = 0
    BY <1>1, <1>2, FS_EmptySet
  <2>3. threshold' \in Nat /\ SchedulablePrefills \in Nat
    BY <1>1, <1>6, SchedulableRange
  <2> QED
    BY <1>2, <1>3, <2>1, <2>2, <2>3 DEF ServeFacts
<1> QED
  BY <1>5, <1>7, <1>8, <1>9, <1>10 DEF CallInv

\* Serving one more prefill uses up one of those that could be served.
LEMMA ServingUsesOne ==
    ASSUME StockTypeOK, NEW r,
           \/ /\ r \in (running \cap flagged) \ served
              /\ running' = running /\ waiting' = waiting
           \/ /\ r \in (waiting \cap flagged) \ served
              /\ Cardinality(running) < MaxRunning
              /\ running' = running \cup {r} /\ waiting' = waiting \ {r},
           served' = served \cup {r},
           flagged' = flagged \/ flagged' = flagged \ {r}
    PROVE  /\ Cardinality(served') = Cardinality(served) + 1
           /\ Servable \in Nat /\ Servable' \in Nat
           /\ Servable' = Servable - 1
           /\ Cardinality(running') <= MaxRunning
<1> DEFINE inSlot  == (running \cap flagged) \ served
           inQueue == (waiting \cap flagged) \ served
<1>1. /\ IsFiniteSet(served) /\ IsFiniteSet(running)
      /\ IsFiniteSet(inSlot) /\ IsFiniteSet(inQueue)
      /\ Cardinality(served) \in Nat /\ Cardinality(running) \in Nat
      /\ Cardinality(inSlot) \in Nat /\ Cardinality(inQueue) \in Nat
  <2>1. inSlot \subseteq running /\ inQueue \subseteq waiting
    OBVIOUS
  <2> HIDE DEF inSlot, inQueue
  <2> QED
    BY <2>1, FiniteQueues
<1>2. MaxRunning \in Nat /\ Cardinality(running) <= MaxRunning
  BY StockAssumption DEF StockTypeOK
<1>3. running \cap waiting = {}
  BY DEF StockTypeOK
<1>4. r \notin served
  OBVIOUS
<1>5. Cardinality(served') = Cardinality(served) + 1
  BY <1>1, <1>4, FS_AddElement
<1>6. Servable = Cardinality(inSlot) + AtMost(FreeSlots, Cardinality(inQueue))
  BY DEF Servable
<1>7. Servable' = Cardinality(inSlot') + AtMost(FreeSlots', Cardinality(inQueue'))
  BY DEF Servable
<1>8. CASE r \in inSlot /\ running' = running /\ waiting' = waiting
  <2>1. inSlot' = inSlot \ {r} /\ inQueue' = inQueue
    BY <1>3, <1>8
  <2> HIDE DEF inSlot, inQueue
  <2>2. Cardinality(inSlot') = Cardinality(inSlot) - 1
    BY <1>1, <1>8, <2>1, FS_RemoveElement
  <2>3. Cardinality(inSlot) >= 1
    BY <1>1, <1>8, FS_EmptySet
  <2> QED
    BY <1>1, <1>2, <1>5, <1>6, <1>7, <1>8, <2>1, <2>2, <2>3 DEF FreeSlots, AtMost, AtLeast
<1>9. CASE /\ r \in inQueue
           /\ Cardinality(running) < MaxRunning
           /\ running' = running \cup {r} /\ waiting' = waiting \ {r}
  <2>1. inSlot' = inSlot /\ inQueue' = inQueue \ {r} /\ r \notin running
    BY <1>3, <1>9
  <2> HIDE DEF inSlot, inQueue
  <2>2. Cardinality(inQueue') = Cardinality(inQueue) - 1
    BY <1>1, <1>9, <2>1, FS_RemoveElement
  <2>3. Cardinality(inQueue) >= 1
    BY <1>1, <1>9, FS_EmptySet
  <2>4. Cardinality(running') = Cardinality(running) + 1
    BY <1>1, <1>9, <2>1, FS_AddElement
  <2> QED
    BY <1>1, <1>2, <1>5, <1>6, <1>7, <1>9, <2>1, <2>2, <2>3, <2>4 DEF FreeSlots, AtMost, AtLeast
<1> QED
  BY <1>8, <1>9

LEMMA ParentInv ==
    ASSUME CallInv, ParentStep
    PROVE  CallInv'
<1>1. /\ TypeOK /\ StockTypeOK /\ InCall /\ CallFacts /\ SettingFacts /\ ServeFacts
      /\ UNCHANGED <<credit, mixedActive, call, bucket, deferred>>
      /\ PrefillsAllowed(call.throttle, call.decoders > 0)
  BY DEF CallInv, ParentStep, TypeOK
<1>2. PICK r \in Req, n \in GrantSizes, lastChunk \in BOOLEAN :
          GrantRunning(r, n, lastChunk) \/ GrantWaiting(r, n, lastChunk)
  BY DEF ParentStep
<1>3. /\ n \in Nat \ {0}
      /\ threshold > 0 => n <= threshold
      /\ stepTokens' = stepTokens + n
      /\ served' = served \cup {r}
      /\ flagged' = flagged \/ flagged' = flagged \ {r}
      /\ UNCHANGED <<threshold, capacityBound>>
  BY <1>2, StockAssumption DEF GrantRunning, GrantWaiting, Grant, GrantSizes
<1>4. \/ /\ r \in (running \cap flagged) \ served
         /\ running' = running /\ waiting' = waiting
      \/ /\ r \in (waiting \cap flagged) \ served
         /\ Cardinality(running) < MaxRunning
         /\ running' = running \cup {r} /\ waiting' = waiting \ {r}
  BY <1>2 DEF GrantRunning, GrantWaiting
<1>5. /\ Cardinality(served') = Cardinality(served) + 1
      /\ Servable \in Nat /\ Servable' \in Nat
      /\ Servable' = Servable - 1
      /\ Cardinality(running') <= MaxRunning
  BY <1>1, <1>3, <1>4, ServingUsesOne
<1>6. TypeOK'
  <2>1. /\ running' \subseteq Req /\ waiting' \subseteq Req \ running'
        /\ flagged' \subseteq running' \cup waiting' /\ served' \subseteq Req
    BY <1>1, <1>3, <1>4 DEF StockTypeOK
  <2>2. threshold' \in Nat /\ capacityBound' \in BOOLEAN /\ stepTokens' \in Nat
    BY <1>1, <1>3 DEF StockTypeOK
  <2>3. StockTypeOK'
    BY <1>5, <2>1, <2>2 DEF StockTypeOK
  <2> QED
    BY <1>1, <2>3 DEF TypeOK
<1>7. InCall' /\ CallFacts' /\ SettingFacts'
  BY <1>1, <1>3 DEF InCall, CallFacts, SettingFacts
<1>8. Cardinality(served) \in Nat
  BY <1>1, FiniteQueues
<1>9. /\ call.prefills \in Nat /\ call.decoders \in Nat /\ call.packet \in Nat
      /\ threshold \in Nat /\ stepTokens \in Nat
  BY <1>1 DEF CallFacts, Calls, StockTypeOK
<1>10. ServeFacts'
  <2>1. Cardinality(served') + Servable' <= call'.prefills
    BY <1>1, <1>5, <1>8, <1>9 DEF ServeFacts
  <2>2. ASSUME call.admit, call.global
        PROVE  stepTokens' <= Cardinality(served') * threshold'
    <3>1. call.prefills > 0
      BY <1>1, <2>2 DEF CallFacts
    <3>2. threshold > 0
      BY <1>1, <1>9, <2>2, <3>1, SharesFit DEF SettingFacts, AtLeast
    <3>3. n <= threshold /\ stepTokens <= Cardinality(served) * threshold
      BY <1>1, <1>3, <2>2, <3>2 DEF ServeFacts
    <3>4. (Cardinality(served) + 1) * threshold = Cardinality(served) * threshold + threshold
      BY <1>8, <1>9
    <3>5. Cardinality(served) * threshold \in Nat
      BY <1>8, <1>9
    <3> QED
      BY <1>3, <1>5, <1>9, <3>3, <3>4, <3>5
  <2>3. ASSUME call.decoders > 0, call.upstream \/ ~call.admit
        PROVE  FALSE
    <3>1. CASE call.throttle
      <4>1. ~capacityBound
        BY <1>1, <2>3, <3>1 DEF CallFacts, SettingFacts
      <4> QED
        BY <1>1, <2>3, <3>1, <4>1 DEF PrefillsAllowed
    <3>2. CASE ~call.throttle
      <4>1. call.prefills = 0
        BY <1>1, <1>9, <2>3, <3>2 DEF CallFacts
      <4> QED
        BY <1>1, <1>5, <1>8, <4>1 DEF ServeFacts
    <3> QED
      BY <3>1, <3>2
  <2> QED
    BY <1>1, <2>1, <2>2, <2>3 DEF ServeFacts
<1> QED
  BY <1>6, <1>7, <1>10 DEF CallInv

LEMMA RestoreInv ==
    ASSUME CallInv, InCall, Restore,
           credit' \in Nat, mixedActive' \in BOOLEAN, bucket' \in Int, deferred' \in Nat
    PROVE  /\ CallInv' /\ ~InCall'
           /\ threshold' = ConfiguredThreshold /\ capacityBound' = call.capacity
<1>1. /\ TypeOK /\ StockTypeOK /\ CallFacts /\ SettingFacts
      /\ call.capacity \in BOOLEAN /\ call.force \in BOOLEAN
  BY DEF CallInv, TypeOK, CallFacts, Calls
<1>2. /\ threshold' = ConfiguredThreshold
      /\ capacityBound' = call.capacity
      /\ call' = NoCall /\ served' = {} /\ stepTokens' = 0
      /\ running' = running /\ waiting' = waiting /\ flagged' = flagged
  <2>1. call.threshold = ConfiguredThreshold /\ (capacityBound <=> call.capacity /\ ~call.force)
    BY <1>1 DEF SettingFacts
  <2>2. capacityBound \in BOOLEAN
    BY <1>1 DEF StockTypeOK
  <2>3. ~call.force => capacityBound = call.capacity
    BY <1>1, <2>1, <2>2
  <2> QED
    BY <2>1, <2>3 DEF Restore, queueVars
<1>3. ~InCall'
  BY <1>2 DEF InCall, NoCall
<1>4. StockTypeOK'
  BY <1>1, <1>2, StockAssumption DEF StockTypeOK
<1>5. TypeOK'
  BY <1>2, <1>4 DEF TypeOK
<1> QED
  BY <1>2, <1>3, <1>5 DEF CallInv

LEMMA ChargeType ==
    ASSUME CallInv, InCall
    PROVE  ChargedCredit \in Nat /\ DrainedBucket \in Int
<1>1. /\ call.credit \in Nat /\ call.packet \in Nat /\ call.earned \in Nat
      /\ stepTokens \in Nat /\ bucket \in Int /\ Burst \in Nat
  BY BurstAssumption DEF CallInv, CallFacts, Calls, TypeOK, StockTypeOK
<1>2. ChargedCredit \in Nat
  BY <1>1 DEF ChargedCredit, AtLeast
<1>3. DrainedBucket \in Int
  BY <1>1 DEF DrainedBucket, Overdrawn, AtLeast, AtMost
<1> QED
  BY <1>2, <1>3

LEMMA EnvironmentInv ==
    ASSUME CallInv, Environment
    PROVE  CallInv'
<1>1. /\ TypeOK /\ StockTypeOK /\ ~InCall
      /\ threshold = ConfiguredThreshold /\ served = {} /\ stepTokens = 0
      /\ UNCHANGED <<credit, mixedActive, call, bucket, deferred>>
  BY DEF CallInv, Environment, TypeOK
<1>2. UNCHANGED <<threshold, served, stepTokens>>
  BY DEF Environment, Arrive, Leave, BalanceCapacity
<1>3. /\ running' \subseteq Req /\ waiting' \subseteq Req \ running'
      /\ flagged' \subseteq running' \cup waiting'
      /\ running' \subseteq running
      /\ capacityBound' \in BOOLEAN
  BY <1>1 DEF Environment, Arrive, Leave, BalanceCapacity, queueVars, StockTypeOK
<1>4. Cardinality(running') <= MaxRunning
  <2>1. IsFiniteSet(running) /\ Cardinality(running) \in Nat
    BY <1>1, FiniteQueues
  <2>2. Cardinality(running') <= Cardinality(running) /\ Cardinality(running') \in Nat
    BY <1>3, <2>1, FS_Subset, FS_CardinalityType
  <2> QED
    BY <1>1, <2>1, <2>2, StockAssumption DEF StockTypeOK
<1>5. StockTypeOK'
  BY <1>1, <1>2, <1>3, <1>4 DEF StockTypeOK
<1>6. TypeOK' /\ ~InCall'
  BY <1>1, <1>5 DEF TypeOK, InCall
<1> QED
  BY <1>1, <1>2, <1>6 DEF CallInv

\* CallInv is inductive.
LEMMA NextInv ==
    ASSUME CallInv, [Next]_vars
    PROVE  CallInv'
<1>1. CASE Environment
  BY <1>1, EnvironmentInv
<1>2. CASE EnterSome
  BY <1>2, EnterInv DEF EnterSome
<1>3. CASE ParentStep
  BY <1>3, ParentInv
<1>4. CASE Return
  <2>1. InCall /\ Restore /\ credit' = ChargedCredit /\ mixedActive' = call.mixed
        /\ bucket' = DrainedBucket
    BY <1>4 DEF Return
  <2>2. call.mixed \in BOOLEAN /\ deferred \in Nat
    BY <2>1 DEF CallInv, CallFacts, Calls, TypeOK
  <2>3. deferred' \in Nat
    BY <1>4, <2>2, BurstAssumption DEF Return, AtMost
  <2> QED
    BY <2>1, <2>2, <2>3, ChargeType, RestoreInv
<1>5. CASE Raise
  <2>1. /\ InCall /\ Restore
        /\ credit' = credit /\ mixedActive' = mixedActive
        /\ bucket' = bucket /\ deferred' = deferred
    BY <1>5 DEF Raise
  <2>2. credit \in Nat /\ mixedActive \in BOOLEAN /\ bucket \in Int /\ deferred \in Nat
    BY DEF CallInv, TypeOK
  <2> QED
    BY <2>1, <2>2, RestoreInv
<1>6. CASE UNCHANGED vars
  BY <1>6 DEF vars, stockVars, CallInv, TypeOK, StockTypeOK, InCall, CallFacts,
              SettingFacts, ServeFacts, Servable, FreeSlots
<1> QED
  BY <1>1, <1>2, <1>3, <1>4, <1>5, <1>6 DEF Next

THEOREM CallInvariant == Spec => []CallInv
<1>1. Init => CallInv
  BY InitInv
<1>2. CallInv /\ [Next]_vars => CallInv'
  BY NextInv
<1> QED
  BY <1>1, <1>2, PTL DEF Spec

-----------------------------------------------------------------------------
(***************************************************************************)
(* The theorems.                                                           *)
(***************************************************************************)

\* Every variable keeps its type.
THEOREM TypeCorrect == Spec => []TypeOK
<1>1. CallInv => TypeOK
  BY DEF CallInv
<1> QED
  BY <1>1, CallInvariant, PTL

\* A step beside decoders schedules prompt tokens only when it admitted a
\* packet, for every profile and every schedule of the stock loop.
THEOREM DecodeIsProtected == Spec => []DecodeProtection
<1>1. CallInv => DecodeProtection
  BY DEF CallInv, ServeFacts, DecodeProtection
<1> QED
  BY <1>1, CallInvariant, PTL

\* The settings a call replaces are put back on every way out of it.
THEOREM SettingsAreRestored == Spec => SettingsRestored
<1>1. CallInv /\ [Next]_vars
        => [InCall /\ ~InCall'
             => threshold' = ConfiguredThreshold /\ capacityBound' = call.capacity]_vars
  <2> SUFFICES ASSUME CallInv, Next, InCall, ~InCall'
               PROVE  threshold' = ConfiguredThreshold /\ capacityBound' = call.capacity
    BY DEF vars
  <2>1. CASE Environment
    BY <2>1 DEF Environment
  <2>2. CASE EnterSome
    BY <2>2 DEF EnterSome, Enter
  <2>3. CASE ParentStep
    BY <2>3 DEF ParentStep, InCall
  <2>4. CASE Return \/ Raise
    <3>1. CallInv'
      BY <2>4, NextInv DEF Next
    <3>2. /\ credit' \in Nat /\ mixedActive' \in BOOLEAN
          /\ bucket' \in Int /\ deferred' \in Nat
      BY <3>1 DEF CallInv, TypeOK
    <3>3. Restore
      BY <2>4 DEF Return, Raise
    <3> QED
      BY <3>2, <3>3, RestoreInv
  <2> QED
    BY <2>1, <2>2, <2>3, <2>4 DEF Next
<1> QED
  BY <1>1, CallInvariant, PTL DEF Spec, SettingsRestored

\* Protected steps never last as long as the largest packet: each of them
\* adds to the credit, and a step that clips the credit is not a protected one.
THEOREM DeferralIsBounded == Spec => []BoundedDeferral
<1>1. Init => BoundedDeferral
  BY DEF Init, BoundedDeferral
<1>2. ASSUME CallInv, BoundedDeferral, [Next]_vars
      PROVE  BoundedDeferral'
  <2>1. CASE Return
    <3>1. /\ InCall /\ CallFacts /\ TypeOK
          /\ credit' = ChargedCredit /\ mixedActive' = call.mixed
          /\ deferred' = IF call.mixed /\ ~call.admit /\ ~call.upstream
                           THEN AtMost(Burst, deferred + 1) ELSE 0
      BY <1>2, <2>1 DEF Return, CallInv
    <3>2. /\ call.credit \in Nat /\ call.packet \in 1..Burst /\ call.earned \in Nat \ {0}
          /\ call.mixed \in BOOLEAN /\ call.admit \in BOOLEAN /\ call.upstream \in BOOLEAN
          /\ credit \in Nat /\ deferred \in Nat /\ mixedActive \in BOOLEAN /\ Burst \in Nat
      BY <3>1, BurstAssumption DEF CallFacts, Calls, TypeOK
    <3>3. ChargedCredit \in Nat
      BY <1>2, <3>1, ChargeType
    <3>4. CASE call.mixed /\ ~call.admit /\ ~call.upstream
      <4>1. call.credit < call.packet /\ mixedActive
        BY <3>1, <3>2, <3>4 DEF CallFacts
      <4>2. call.credit = AtMost(call.packet, AtMost(call.packet, credit) + call.earned)
        BY <3>1, <3>4, <4>1 DEF CallFacts
      <4>3. call.credit >= credit + 1
        BY <3>2, <4>1, <4>2 DEF AtMost
      <4>4. deferred <= credit
        BY <1>2, <4>1 DEF BoundedDeferral
      <4>5. credit' = call.credit /\ deferred' = AtMost(Burst, deferred + 1)
        BY <3>1, <3>4 DEF ChargedCredit
      <4> QED
        BY <3>2, <4>1, <4>3, <4>4, <4>5 DEF BoundedDeferral, AtMost
    <3>5. CASE ~(call.mixed /\ ~call.admit /\ ~call.upstream)
      BY <3>1, <3>2, <3>3, <3>5 DEF BoundedDeferral
    <3> QED
      BY <3>4, <3>5
  <2>2. CASE ~Return
    <3>1. UNCHANGED <<credit, mixedActive, deferred>>
      BY <1>2, <2>2 DEF Next, vars, Environment, EnterSome, Enter, ParentStep, Raise
    <3> QED
      BY <1>2, <3>1 DEF BoundedDeferral
  <2> QED
    BY <2>1, <2>2
<1>3. CallInv /\ BoundedDeferral /\ [Next]_vars => BoundedDeferral'
  BY <1>2
<1> QED
  BY <1>1, <1>3, CallInvariant, PTL DEF Spec

\* The packet of the call in progress has a token for each of its prefills.
Covered == InCall => call.global /\ call.packet >= call.prefills

LEMMA CoveredInvariant == PacketsCoverSlots => (Spec => []Covered)
<1> SUFFICES ASSUME PacketsCoverSlots PROVE Spec => []Covered
  OBVIOUS
<1>1. Init => Covered
  BY DEF Init, InCall, NoCall, Covered
<1>2. ASSUME CallInv, Covered, [Next]_vars
      PROVE  Covered'
  <2>1. CASE EnterSome
    <3>1. PICK p \in Profiles, upstream \in BOOLEAN : Enter(p, upstream)
      BY <2>1 DEF EnterSome
    <3> DEFINE c    == Decide(p, upstream)
               tier == SelectTier(p, AtLeast(1, Cardinality(Decoders)))
    <3>2. TypeOK /\ StockTypeOK
      BY <1>2 DEF CallInv, TypeOK
    <3>3. /\ c.prefills = SchedulablePrefills
          /\ c.prefills <= MaxRunning
          /\ c.global = p.global_budget
          /\ c.packet \in 1..Burst
      BY <3>2, DecideFacts
    <3>4. c.packet = EffectivePacketTokens(tier, SchedulablePrefills)
      BY DEF Decide
    <3>5. AtLeast(1, Cardinality(Decoders)) \in Nat /\ SchedulablePrefills \in Nat
      BY <3>2, SchedulableRange DEF AtLeast
    <3>6. PICK i \in 1..Len(p.tiers) : tier = p.tiers[i]
      BY <3>5, SelectTierIsATier
    <3>7. ValidTier(tier) /\ tier.packet_tokens <= EffectivePacketTokens(tier, SchedulablePrefills)
      BY <3>5, PacketRange
    <3>8. call' = c
      BY <3>1 DEF Enter
    <3> HIDE DEF c, tier
    <3>9. p.global_budget /\ tier.packet_tokens >= MaxRunning
      BY <3>6 DEF PacketsCoverSlots
    <3>10. tier.packet_tokens \in Nat
      BY <3>7 DEF ValidTier, Tier
    <3>11. c.packet >= c.prefills
      BY <3>3, <3>4, <3>5, <3>7, <3>9, <3>10, StockAssumption
    <3> QED
      BY <3>3, <3>8, <3>9, <3>11 DEF Covered
  <2>2. CASE Return \/ Raise
    BY <2>2 DEF Return, Raise, Restore, InCall, NoCall, Covered
  <2>3. CASE Environment \/ ParentStep \/ UNCHANGED vars
    BY <1>2, <2>3 DEF Environment, ParentStep, vars, InCall, Covered
  <2> QED
    BY <1>2, <2>1, <2>2, <2>3 DEF Next
<1>3. CallInv /\ Covered /\ [Next]_vars => Covered'
  BY <1>2
<1> QED
  BY <1>1, <1>3, CallInvariant, PTL DEF Spec

LEMMA CoveredIsStrict ==
    ASSUME CallInv, Covered
    PROVE  StrictPacket
<1> SUFFICES ASSUME InCall, call.admit, call.global PROVE stepTokens <= call.packet
  BY DEF StrictPacket
<1>1. StockTypeOK /\ CallFacts /\ SettingFacts /\ ServeFacts /\ call.packet >= call.prefills
  BY DEF CallInv, TypeOK, Covered
<1>2. /\ call.prefills \in Nat \ {0} /\ call.packet \in Nat /\ stepTokens \in Nat
      /\ threshold \in Nat
  BY <1>1 DEF CallFacts, Calls, StockTypeOK
<1>3. threshold = call.packet \div call.prefills
  BY <1>1, <1>2, SharesFit DEF SettingFacts, AtLeast
<1>4. call.prefills * threshold <= call.packet
  BY <1>2, <1>3, SharesFit
<1>5. Cardinality(served) \in Nat /\ Servable \in Nat
  <2>1. Cardinality(served) \in Nat
    BY <1>1, FiniteQueues
  <2>2. (running \cap flagged) \ served \subseteq running
    OBVIOUS
  <2>3. (waiting \cap flagged) \ served \subseteq waiting
    OBVIOUS
  <2>4. /\ Cardinality((running \cap flagged) \ served) \in Nat
        /\ Cardinality((waiting \cap flagged) \ served) \in Nat
    BY <1>1, <2>2, <2>3, FiniteQueues
  <2> QED
    BY <1>1, <2>1, <2>4, SchedulableRange DEF Servable, AtMost
<1>6. Cardinality(served) <= call.prefills
  BY <1>1, <1>2, <1>5 DEF ServeFacts
<1>7. stepTokens <= Cardinality(served) * threshold
  BY <1>1 DEF ServeFacts
<1>8. Cardinality(served) * threshold <= call.prefills * threshold
  BY <1>2, <1>5, <1>6
<1>9. Cardinality(served) * threshold \in Nat /\ call.prefills * threshold \in Nat
  BY <1>2, <1>5
<1> QED
  BY <1>2, <1>4, <1>7, <1>8, <1>9

\* No assignment of equal shares to the prefills that can run exceeds the
\* packet, provided a packet holds at least one token for each slot.
THEOREM PacketIsStrict == PacketsCoverSlots => (Spec => []StrictPacket)
<1> SUFFICES ASSUME PacketsCoverSlots PROVE Spec => []StrictPacket
  OBVIOUS
<1>1. CallInv /\ Covered => StrictPacket
  BY CoveredIsStrict
<1>2. Spec => []Covered
  BY CoveredInvariant
<1> QED
  BY <1>1, <1>2, CallInvariant, PTL

\* Prefills that compete with decoders conform to a token bucket over every
\* mixed run, provided a packet holds at least one token for each slot.
THEOREM BucketIsRespected == PacketsCoverSlots => (Spec => []BucketConformance)
<1> SUFFICES ASSUME PacketsCoverSlots PROVE Spec => []BucketConformance
  OBVIOUS
<1>1. Init => BucketConformance
  BY DEF Init, BucketConformance
<1>2. ASSUME CallInv, Covered, BucketConformance, [Next]_vars
      PROVE  BucketConformance'
  <2>1. CASE Return
    <3>1. /\ InCall /\ CallFacts /\ ServeFacts /\ TypeOK /\ call.global /\ StrictPacket
          /\ credit' = ChargedCredit /\ mixedActive' = call.mixed /\ bucket' = DrainedBucket
      BY <1>2, <2>1, CoveredIsStrict DEF Return, CallInv, Covered
    <3>2. /\ call.credit \in Nat /\ call.packet \in 1..Burst /\ call.earned \in Nat \ {0}
          /\ call.mixed \in BOOLEAN /\ call.admit \in BOOLEAN /\ call.decoders \in Nat
          /\ credit \in Nat /\ bucket \in Int /\ Burst \in Nat /\ stepTokens \in Nat
          /\ mixedActive \in BOOLEAN
      BY <3>1, BurstAssumption DEF CallFacts, Calls, TypeOK, StockTypeOK
    <3> SUFFICES ASSUME call.mixed PROVE ChargedCredit <= DrainedBucket
      BY <3>1 DEF BucketConformance
    <3>3. call.credit <= call.packet
      BY <3>1 DEF CallFacts
    <3>4. ChargedCredit = call.credit - stepTokens
      <4>1. CASE call.admit
        <5>1. stepTokens <= call.credit
          BY <3>1, <4>1 DEF StrictPacket, CallFacts
        <5> QED
          BY <3>2, <4>1, <5>1 DEF ChargedCredit, AtLeast
      <4>2. CASE ~call.admit
        <5>1. stepTokens = 0
          BY <3>1, <4>2 DEF CallFacts, ServeFacts
        <5> QED
          BY <3>2, <4>2, <5>1 DEF ChargedCredit
      <4> QED
        BY <4>1, <4>2
    <3>5. CASE mixedActive
      <4>1. call.credit = AtMost(call.packet, AtMost(call.packet, credit) + call.earned)
        BY <3>1, <3>5 DEF CallFacts
      <4>2. credit <= bucket
        BY <1>2, <3>5 DEF BucketConformance
      <4>3. call.credit <= AtMost(Burst, bucket + call.earned)
        BY <3>2, <4>1, <4>2 DEF AtMost
      <4>4. AtMost(Burst, bucket + call.earned) \in Int
        BY <3>2 DEF AtMost
      <4>5. DrainedBucket >= AtMost(Burst, bucket + call.earned) - stepTokens
        BY <3>2, <3>5, <4>4 DEF DrainedBucket, AtLeast, Overdrawn
      <4>6. DrainedBucket \in Int
        BY <1>2, <3>1, ChargeType
      <4> QED
        BY <3>2, <3>4, <4>3, <4>4, <4>5, <4>6
    <3>6. CASE ~mixedActive
      BY <3>2, <3>3, <3>4, <3>6 DEF DrainedBucket, AtLeast, Overdrawn
    <3> QED
      BY <3>5, <3>6
  <2>2. CASE ~Return
    <3>1. UNCHANGED <<credit, mixedActive, bucket>>
      BY <1>2, <2>2 DEF Next, vars, Environment, EnterSome, Enter, ParentStep, Raise
    <3> QED
      BY <1>2, <3>1 DEF BucketConformance
  <2> QED
    BY <2>1, <2>2
<1>3. CallInv /\ Covered /\ BucketConformance /\ [Next]_vars => BucketConformance'
  BY <1>2
<1>4. Spec => []Covered
  BY CoveredInvariant
<1> QED
  BY <1>1, <1>3, <1>4, CallInvariant, PTL DEF Spec

=============================================================================
