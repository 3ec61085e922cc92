------------------------- MODULE PrefillPolicyProofs -------------------------
(***************************************************************************)
(* What the two admission policies guarantee.                              *)
(*                                                                         *)
(* The static cadence, for every interval, number of requests, slots and   *)
(* tokens, and whatever the stock loop does. Neither property is           *)
(* inductive. That a protected call schedules no prompt token rests on     *)
(* what Enter did to the capacity flag; that one of Interval calls is open *)
(* rests on deferred lagging behind the step counter, as a call that       *)
(* raises moves the counter or leaves it.                                  *)
(*                                                                         *)
(* The profile of the adaptive policy: every profile that the validation   *)
(* lets through is one the scheduler can work with, and only such profiles *)
(* are ever cached, whatever is written into the file and whenever. This   *)
(* discharges the assumption of the adaptive scheduler that its profiles   *)
(* are valid.                                                              *)
(***************************************************************************)
EXTENDS PrefillPolicy, NaturalsLemmas

\* The counter of protected calls is behind the step counter.
Lag == deferred \in Nat /\ deferred <= (IF step = 0 THEN Interval - 1 ELSE step - 1)

\* What Enter decided, kept unchanged while the parent runs.
CallFacts ==
    /\ call \in Calls
    /\ call.closed => Interval > 1 /\ step # 0
    /\ Protected => call.throttle /\ ~capacityBound /\ stepTokens = 0

\* The settings between calls, and in a call what is to be put back.
SettingsFacts ==
    /\ ~InCall => threshold = ConfiguredThreshold /\ stepTokens = 0
    /\ InCall => /\ call.threshold = ConfiguredThreshold
                 /\ ~call.uncap => threshold = ConfiguredThreshold
                 /\ ~call.force => capacityBound = call.capacity

CadenceInv ==
    /\ step \in 0..(Interval - 1)
    /\ capacityBound \in BOOLEAN /\ threshold \in Nat
    /\ Lag
    /\ call = NoCall \/ CallFacts
    /\ SettingsFacts

-----------------------------------------------------------------------------
\* The step counter modulo the interval.
LEMMA NextStepValue ==
  ASSUME step \in 0..(Interval - 1)
  PROVE  NextStep = IF step = Interval - 1 THEN 0 ELSE step + 1
  <1> USE IntervalAssumption DEF NextStep
  <1>1. CASE step = Interval - 1
    <2>1. step + 1 = Interval
      BY <1>1
    <2> QED BY <1>1, <2>1
  <1>2. CASE step # Interval - 1
    BY <1>2
  <1> QED BY <1>1, <1>2

LEMMA CadenceInit == Init => CadenceInv
  <1> SUFFICES ASSUME Init PROVE CadenceInv
    OBVIOUS
  <1>1. step = 0 /\ deferred = 0 /\ call = NoCall /\ ~InCall
    BY DEF Init, InCall, NoCall
  <1>2. threshold = ConfiguredThreshold /\ stepTokens = 0 /\ threshold \in Nat
    BY StockAssumption DEF Init, StockInit
  <1>3. capacityBound \in BOOLEAN
    BY Zenon DEF Init, StockInit
  <1>4. Lag
    BY <1>1, IntervalAssumption DEF Lag
  <1>5. SettingsFacts
    BY <1>1, <1>2 DEF SettingsFacts
  <1> QED BY <1>1, <1>2, <1>3, <1>4, <1>5, IntervalAssumption DEF CadenceInv

\* A call decides, and takes the flag away when the queue is capacity-bound.
LEMMA EnterInv ==
  ASSUME CadenceInv, NEW upstream \in BOOLEAN, Enter(upstream)
  PROVE  CadenceInv'
  <1> DEFINE decoding == Decoders # {}
             c == [active |-> TRUE, closed |-> CadenceCloses, decoding |-> decoding,
                   throttle |-> (upstream \/ CadenceCloses), threshold |-> threshold,
                   uncap |-> UncapsPurePrefill(decoding), capacity |-> capacityBound,
                   force |-> ForceCadence(CadenceCloses, decoding)]
  <1>1. /\ call' = c /\ stepTokens' = stepTokens /\ step' = step /\ deferred' = deferred
        /\ threshold' = (IF c.uncap THEN 0 ELSE threshold)
        /\ capacityBound' = (capacityBound /\ ~c.force)
        /\ ~InCall
    BY DEF Enter
  <1>2. c \in Calls
    <2>1. /\ CadenceCloses \in BOOLEAN /\ decoding \in BOOLEAN
          /\ (upstream \/ CadenceCloses) \in BOOLEAN
          /\ UncapsPurePrefill(decoding) \in BOOLEAN
          /\ ForceCadence(CadenceCloses, decoding) \in BOOLEAN
      BY Zenon DEF CadenceCloses, UncapsPurePrefill, ForceCadence
    <2>2. threshold \in Nat /\ capacityBound \in BOOLEAN
      BY DEF CadenceInv
    <2> QED BY <2>1, <2>2, Zenon DEF Calls
  <1>3. capacityBound' \in BOOLEAN /\ threshold' \in Nat
    <2>1. capacityBound' \in BOOLEAN
      BY <1>1, Zenon
    <2>2. threshold' \in Nat
      BY <1>1 DEF CadenceInv
    <2> QED BY <2>1, <2>2
  <1>4. Lag'
    BY <1>1 DEF CadenceInv, Lag
  <1>5. CallFacts'
    BY <1>1, <1>2 DEF CadenceInv, SettingsFacts, CallFacts, Protected, CadenceCloses, ForceCadence
  <1>6. SettingsFacts'
    BY <1>1 DEF CadenceInv, SettingsFacts, InCall
  <1> QED BY <1>1, <1>3, <1>4, <1>5, <1>6 DEF CadenceInv

\* The stock loop hands out no prompt token in a protected call.
LEMMA ParentInv == ASSUME CadenceInv, ParentStep PROVE CadenceInv'
  <1>1. /\ InCall /\ PrefillsAllowed(call.throttle, call.decoding)
        /\ UNCHANGED <<step, call, deferred, threshold, capacityBound>>
    BY DEF ParentStep, GrantRunning, GrantWaiting, Grant
  <1>2. call # NoCall /\ CallFacts
    BY <1>1 DEF CadenceInv, InCall, NoCall
  <1>3. ~Protected
    BY <1>1, <1>2 DEF CallFacts, PrefillsAllowed, Protected
  <1>4. CallFacts'
    BY <1>1, <1>2, <1>3 DEF CallFacts, Protected
  <1>5. Lag' /\ SettingsFacts'
    BY <1>1 DEF CadenceInv, Lag, SettingsFacts, InCall
  <1> QED BY <1>1, <1>4, <1>5 DEF CadenceInv

\* A call that ends puts back what it replaced, and the counters keep their
\* distance: a protected call is not at step 0, so an open one comes before
\* deferred reaches the interval.
LEMMA LeaveInv == ASSUME CadenceInv, Return \/ Raise PROVE CadenceInv'
  <1>1. /\ InCall /\ Restore
        /\ step' \in {step, NextStep}
        /\ \/ step' = NextStep /\ deferred' = (IF Protected THEN AtMost(Interval, deferred + 1) ELSE 0)
           \/ deferred' = (IF Protected THEN deferred ELSE 0)
    BY DEF Return, Raise
  <1>2. CallFacts
    BY <1>1 DEF CadenceInv, InCall, NoCall
  <1>3. call' = NoCall /\ ~InCall' /\ stepTokens' = 0
    BY <1>1 DEF Restore, InCall, NoCall
  <1>4. step \in 0..(Interval - 1) /\ step' \in {step, IF step = Interval - 1 THEN 0 ELSE step + 1}
    BY <1>1, NextStepValue DEF CadenceInv
  <1>5. Lag'
    <2>1. CASE Protected
      <3>1. step # 0
        BY <1>2, <2>1 DEF CallFacts, Protected
      <3>2. deferred \in Nat /\ deferred <= step - 1
        BY <3>1 DEF CadenceInv, Lag
      <3>3. \/ step' = NextStep /\ deferred' = AtMost(Interval, deferred + 1)
            \/ deferred' = deferred
        BY <1>1, <2>1
      <3>4. NextStep = IF step = Interval - 1 THEN 0 ELSE step + 1
        BY <1>4, NextStepValue
      <3> QED BY <1>4, <3>1, <3>2, <3>3, <3>4, IntervalAssumption DEF Lag, AtMost
    <2>2. CASE ~Protected
      BY <1>1, <1>4, <2>2, IntervalAssumption DEF Lag
    <2> QED BY <2>1, <2>2
  <1>6. threshold' = ConfiguredThreshold /\ threshold' \in Nat
    BY <1>1, StockAssumption DEF CadenceInv, SettingsFacts, Restore
  <1>7. capacityBound' \in BOOLEAN
    BY <1>1, <1>2 DEF CadenceInv, CallFacts, Calls, Restore
  <1>8. SettingsFacts'
    BY <1>3, <1>6 DEF SettingsFacts
  <1>9. step' \in 0..(Interval - 1)
    BY <1>4, IntervalAssumption
  <1> QED BY <1>3, <1>5, <1>6, <1>7, <1>8, <1>9 DEF CadenceInv

\* Requests come and go between calls.
LEMMA EnvironmentInv == ASSUME CadenceInv, Environment PROVE CadenceInv'
  <1>1. ~InCall /\ UNCHANGED <<step, call, deferred, threshold, stepTokens>>
    BY DEF Environment, Arrive, Leave, BalanceCapacity
  <1>2. capacityBound' \in BOOLEAN
    <2>1. capacityBound' = capacityBound \/ capacityBound' = ~capacityBound
      BY Zenon DEF Environment, Arrive, Leave, BalanceCapacity
    <2> QED BY <2>1 DEF CadenceInv
  <1>3. call = NoCall /\ ~InCall'
    BY <1>1 DEF CadenceInv, CallFacts, Calls, InCall
  <1>4. Lag' /\ SettingsFacts'
    BY <1>1, <1>3 DEF CadenceInv, Lag, SettingsFacts
  <1> QED BY <1>1, <1>2, <1>3, <1>4 DEF CadenceInv

LEMMA CadenceStep == CadenceInv /\ [Next]_vars => CadenceInv'
  <1> SUFFICES ASSUME CadenceInv, [Next]_vars PROVE CadenceInv'
    OBVIOUS
  <1>1. CASE UNCHANGED vars
    BY <1>1 DEF vars, stockVars, CadenceInv, Lag, CallFacts, SettingsFacts, Protected, InCall
  <1>2. CASE Next
    BY <1>2, EnterInv, ParentInv, LeaveInv, EnvironmentInv DEF Next, EnterSome
  <1> QED BY <1>1, <1>2

LEMMA CadenceInvariant == Spec => []CadenceInv
  BY CadenceInit, CadenceStep, PTL DEF Spec

-----------------------------------------------------------------------------
\* A step that the cadence closes schedules no prompt token beside decoders, though
\* the queue be capacity-bound (glm_decode_first_scheduler.py, 199-203).
THEOREM CadenceStaysStrict == Spec => []CadenceIsStrict
  <1>1. CadenceInv => CadenceIsStrict
    BY DEF CadenceInv, CallFacts, CadenceIsStrict, InCall, NoCall
  <1> QED BY <1>1, CadenceInvariant, PTL

\* Of any Interval calls in a row one is open to prefills, calls that raise
\* included (glm_decode_first_scheduler.py, 187-189).
THEOREM EveryIntervalOpens == Spec => []OpenEveryInterval
  <1>1. CadenceInv => OpenEveryInterval
    BY IntervalAssumption DEF CadenceInv, Lag, OpenEveryInterval
  <1> QED BY <1>1, CadenceInvariant, PTL

\* Cap and capacity flag are put back by every call, also by one whose parent
\* raised (glm_decode_first_scheduler.py, 212-218).
THEOREM CadenceRestoresSettings == Spec => SettingsRestored
  <1>1. ASSUME CadenceInv, [Next]_vars, InCall /\ ~InCall'
        PROVE  threshold' = ConfiguredThreshold /\ capacityBound' = call.capacity
    <2>1. Return \/ Raise
      BY <1>1 DEF Next, vars, EnterSome, Enter, ParentStep, Environment, InCall
    <2> QED BY <1>1, <2>1 DEF Return, Raise, Restore, CadenceInv, SettingsFacts
  <1>2. CadenceInv /\ [Next]_vars
          => [InCall /\ ~InCall'
                => threshold' = ConfiguredThreshold /\ capacityBound' = call.capacity]_vars
    BY <1>1
  <1> QED BY <1>2, CadenceInvariant, PTL DEF Spec, SettingsRestored

-----------------------------------------------------------------------------
\* The loop over the tiers compares neighbours; so any two tiers are in order.
LEMMA TiersIncrease ==
  ASSUME NEW n \in Nat, NEW max \in [1..n -> Int],
         \A i \in 1..n : max[i] > IF i = 1 THEN 0 ELSE max[i - 1]
  PROVE  /\ \A i, j \in 1..n : i < j => max[i] < max[j]
         /\ \A i \in 1..n : max[i] > 0
  <1> DEFINE Wrong == {j \in 1..n : \E i \in 1..n : i < j /\ ~(max[i] < max[j])}
  <1>1. Wrong = {}
    <2> SUFFICES ASSUME Wrong # {} PROVE FALSE
      OBVIOUS
    <2>1. Wrong \in SUBSET Nat
      OBVIOUS
    <2> HIDE DEF Wrong
    <2>2. PICK j \in Wrong : \A k \in Wrong : j <= k
      BY <2>1, LeastElement
    <2> USE DEF Wrong
    <2>3. PICK i \in 1..n : i < j /\ ~(max[i] < max[j])
      OBVIOUS
    <2>4. j \in 1..n /\ j - 1 \in 1..n /\ j # 1 /\ j - 1 < j
      BY <2>3
    <2>5. max[j - 1] < max[j] /\ max[j] \in Int /\ max[j - 1] \in Int /\ max[i] \in Int
      BY <2>3, <2>4
    <2>6. i # j - 1
      BY <2>3, <2>5
    <2>7. i < j - 1
      BY <2>3, <2>4, <2>6
    <2>8. j - 1 \notin Wrong
      BY <2>2, <2>4
    <2>9. max[i] < max[j - 1]
      BY <2>4, <2>7, <2>8
    <2> QED BY <2>3, <2>5, <2>9
  <1>2. \A i, j \in 1..n : i < j => max[i] < max[j]
    BY <1>1
  <1>3. ASSUME NEW i \in 1..n PROVE max[i] > 0
    <2>1. 1 \in 1..n /\ max[1] > 0 /\ max[1] \in Int /\ max[i] \in Int
      BY <1>3
    <2>2. CASE i = 1
      BY <2>1, <2>2
    <2>3. CASE i # 1
      <3>1. max[1] < max[i]
        BY <1>2, <2>1, <2>3
      <3> QED BY <2>1, <3>1
    <2> QED BY <2>2, <2>3
  <1> QED BY <1>2, <1>3

\* The tiers that stand in for none are typed as tiers of a file are.
LEMMA DefaultTiersType ==
  ASSUME NEW packet \in Nat, NEW interval \in Nat
  PROVE  DefaultTiers(packet, interval) \in Seq(RawTier)
  <1>1. ASSUME NEW i \in 1..3
        PROVE  [max_decoders |-> 2 * i, packet_tokens |-> packet,
                interval |-> IF i = 1 THEN interval ELSE AtLeast(1, interval - (i - 1)),
                extra |-> Absent, max_packet |-> Absent] \in RawTier
    BY DEF RawTier, AtLeast
  <1> QED BY <1>1 DEF DefaultTiers

\* Absent fields have their defaults, present ones their values.
LEMMA NormalTierType ==
  ASSUME NEW t \in RawTier
  PROVE  /\ NormalTier(t) \in [max_decoders : Int, packet_tokens : Int, interval : Int,
                               extra : Int, max_packet : Int]
         /\ NormalTier(t).max_decoders = t.max_decoders
  <1> DEFINE extra == OrDefault(t.extra, 0)
             maximum == OrDefault(t.max_packet, t.packet_tokens)
  <1>1. extra \in Int /\ maximum \in Int
    BY DEF RawTier, OrDefault
  <1> HIDE DEF extra, maximum
  <1>2. NormalTier(t) = [t EXCEPT !.extra = extra, !.max_packet = maximum]
    BY DEF NormalTier, extra, maximum
  <1>3. NormalTier(t) = [max_decoders |-> t.max_decoders, packet_tokens |-> t.packet_tokens,
                         interval |-> t.interval, extra |-> extra, max_packet |-> maximum]
    BY <1>2 DEF RawTier
  <1> QED BY <1>1, <1>3 DEF RawTier

\* What _validate_adaptive_profile returns is a valid profile, for every object the
\* file may hold (glm_decode_first_scheduler.py, 31-105).
THEOREM ValidatedIsValid ==
  ASSUME NEW raw \in RawProfile \cup {BadType}, NEW packet \in Nat, NEW interval \in Nat,
         Validate(raw, packet, interval) # Rejected
  PROVE  ValidProfile(Validate(raw, packet, interval))
  <1> DEFINE given == OrDefault(raw.tiers, DefaultTiers(packet, interval))
             tiers == [i \in 1..Len(given) |-> NormalTier(given[i])]
             pure  == OrDefault(raw.pure_threshold, 0)
             flag  == OrDefault(raw.global_budget, TRUE)
  <1>1. raw # BadType /\ raw \in RawProfile
    BY DEF Validate
  <1>2. /\ given # BadType /\ given # <<>> /\ AcceptsTiers(tiers) /\ flag # BadType /\ pure >= 0
        /\ Validate(raw, packet, interval)
             = [tiers |-> tiers, global_budget |-> flag, pure_threshold |-> pure]
    BY <1>1 DEF Validate
  <1>3. given \in Seq(RawTier)
    BY <1>1, <1>2, DefaultTiersType DEF RawProfile, OrDefault
  <1>4. flag \in BOOLEAN /\ pure \in Nat
    <2>1. pure \in Int
      BY <1>1 DEF RawProfile, OrDefault
    <2>2. flag \in BOOLEAN
      BY <1>1, <1>2, Zenon DEF RawProfile, OrDefault
    <2> HIDE DEF flag, pure
    <2>3. pure \in Nat
      BY <1>2, <2>1
    <2> QED BY <2>2, <2>3
  <1> DEFINE n == Len(given)
             Raw == [max_decoders : Int, packet_tokens : Int, interval : Int,
                     extra : Int, max_packet : Int]
  <1>5. n \in Nat /\ n # 0
    BY <1>2, <1>3
  <1>6. \A i \in 1..n : tiers[i] = NormalTier(given[i]) /\ tiers[i] \in Raw
    <2>1. \A i \in 1..n : tiers[i] = NormalTier(given[i])
      OBVIOUS
    <2>2. \A i \in 1..n : given[i] \in RawTier
      <3> HIDE DEF given
      <3> QED BY <1>3
    <2> HIDE DEF given, tiers, n
    <2> QED BY <2>1, <2>2, NormalTierType
  <1>7. Len(tiers) = n /\ tiers \in [1..n -> Raw]
    <2>1. tiers = [i \in 1..n |-> tiers[i]]
      OBVIOUS
    <2>2. DOMAIN tiers = 1..n
      BY Zenon
    <2>3. tiers \in Seq(Raw)
      <3>1. given \in Seq(RawTier) /\ n \in Nat
        BY <1>3, <1>5
      <3> HIDE DEF tiers, n, Raw
      <3>2. tiers \in [1..n -> Raw]
        BY <1>6, <2>1
      <3> QED BY <3>1, <3>2 
    <2> HIDE DEF tiers, n, Raw
    <2>4. Len(tiers) = n
      BY <1>5, <2>2, <2>3
    <2>5. tiers \in [1..n -> Raw]
      BY <1>6, <2>1
    <2> QED BY <2>4, <2>5
  <1> HIDE DEF given, tiers, pure, flag, n
  <1>8. \A i \in 1..n : AcceptsTier(tiers[i], IF i = 1 THEN 0 ELSE tiers[i - 1].max_decoders)
    BY <1>2, <1>7 DEF AcceptsTiers
  <1>9. /\ \A i, j \in 1..n : i < j => tiers[i].max_decoders < tiers[j].max_decoders
        /\ \A i \in 1..n : tiers[i].max_decoders > 0
    <2> DEFINE max == [i \in 1..n |-> tiers[i].max_decoders]
    <2>1. max \in [1..n -> Int]
      BY <1>6
    <2>2. \A i \in 1..n : max[i] > IF i = 1 THEN 0 ELSE max[i - 1]
      <3> SUFFICES ASSUME NEW i \in 1..n PROVE max[i] > IF i = 1 THEN 0 ELSE max[i - 1]
        OBVIOUS
      <3>1. i # 1 => i - 1 \in 1..n
        BY <1>5
      <3> QED BY <1>8, <3>1 DEF AcceptsTier
    <2> HIDE DEF max
    <2>3. \A i, j \in 1..n : i < j => max[i] < max[j]
      BY <1>5, <2>1, <2>2, TiersIncrease
    <2>4. \A i \in 1..n : max[i] > 0
      BY <1>5, <2>1, <2>2, TiersIncrease
    <2> QED BY <2>3, <2>4 DEF max
  <1>10. \A i \in 1..n : ValidTier(tiers[i])
    BY <1>6, <1>8, <1>9 DEF AcceptsTier, ValidTier, Tier
  <1>11. tiers \in Seq(Tier) /\ tiers # <<>>
    <2>1. tiers \in [1..n -> Tier]
      BY <1>7, <1>10 DEF ValidTier
    <2> QED BY <1>5, <1>7, <2>1
  <1>12. tiers[1].max_decoders > 0 /\ tiers[n].max_decoders >= CoveredDecoders
    BY <1>2, <1>5, <1>7, <1>9 DEF AcceptsTiers
  <1> QED BY <1>2, <1>4, <1>7, <1>9, <1>10, <1>11, <1>12 DEF ValidProfile

-----------------------------------------------------------------------------
(***************************************************************************)
(* The reload, under any edits at any time.                                *)
(***************************************************************************)
ReloadSpec == ReloadInit /\ [][ReloadNext]_reloadVars

\* A profile in use is the accepted content of a version, and no call failed
\* since it was there.
ReloadInv ==
    /\ \A v \in versions : v.raw \in RawProfile \cup {BadType}
    /\ file \in versions \cup {NoFile}
    /\ CacheIsAccepted
    /\ cache # NoProfile => ~failed

\* What a good version holds is valid and not the missing profile.
LEMMA GoodIsValid ==
  ASSUME NEW v, v.raw \in RawProfile \cup {BadType}, Good(v)
  PROVE  ValidProfile(Parsed(v)) /\ Parsed(v) # NoProfile
  <1>1. Validate(v.raw, FallbackPacket, FallbackInterval) # Rejected
    BY DEF Good, Parsed
  <1>2. ValidProfile(Parsed(v))
    BY <1>1, ValidatedIsValid, RawAssumption DEF Parsed
  <1>3. \E x, y, z : Parsed(v) = [tiers |-> x, global_budget |-> y, pure_threshold |-> z]
    BY <1>1, Zenon DEF Parsed, Validate
  <1>4. DOMAIN Parsed(v) # DOMAIN NoProfile
    BY <1>3 DEF NoProfile
  <1> QED BY <1>2, <1>4

LEMMA ReloadInitInv == ReloadInit => ReloadInv
  BY RawAssumption DEF ReloadInit, ReloadInv, Version, CacheIsAccepted

\* The operator adds typed versions, and goes back to known ones.
LEMMA OperatorInv == ASSUME ReloadInv, Operator PROVE ReloadInv'
  <1>1. /\ cache' = cache /\ failed' = failed
        /\ versions \subseteq versions'
    BY DEF Operator, Edit, PutBack, checkVars
  <1>2. CacheIsAccepted'
    BY <1>1 DEF ReloadInv, CacheIsAccepted, Good, Parsed
  <1>3. (\A v \in versions' : v.raw \in RawProfile \cup {BadType}) /\ file' \in versions' \cup {NoFile}
    <2>1. CASE \E raw \in RawProfiles : Edit(raw)
      BY <2>1, RawAssumption DEF ReloadInv, Edit, Version
    <2>2. CASE \E v \in versions \cup {NoFile} : PutBack(v)
      BY <2>2 DEF ReloadInv, PutBack
    <2> QED BY <2>1, <2>2 DEF Operator
  <1> QED BY <1>1, <1>2, <1>3 DEF ReloadInv

\* A check leaves the cache alone or replaces it by what it has just accepted.
LEMMA CheckInv == ASSUME ReloadInv, PeriodElapses \/ StatFile \/ ReadFile PROVE ReloadInv'
  <1>1. file' = file /\ versions' = versions
    BY DEF PeriodElapses, StatFile, ReadFile
  <1>2. \/ cache' = cache /\ (cache # NoProfile => ~failed')
        \/ Good(file) /\ cache' = Parsed(file) /\ ~failed'
    <2>1. CASE PeriodElapses
      BY <2>1 DEF PeriodElapses, ReloadInv
    <2>2. CASE StatFile
      BY <2>2 DEF StatFile, KeepCache, ReloadInv
    <2>3. CASE ReadFile
      BY <2>3 DEF ReadFile, KeepCache, ReloadInv
    <2> QED BY <2>1, <2>2, <2>3
  <1>3. CASE cache' = cache /\ (cache # NoProfile => ~failed')
    BY <1>1, <1>3 DEF ReloadInv, CacheIsAccepted, Good, Parsed
  <1>4. CASE Good(file) /\ cache' = Parsed(file) /\ ~failed'
    <2>1. file \in versions /\ file.raw \in RawProfile \cup {BadType}
      BY <1>4 DEF ReloadInv, Good
    <2>2. ValidProfile(cache') /\ cache' # NoProfile
      BY <1>4, <2>1, GoodIsValid
    <2>3. CacheIsAccepted'
      BY <1>1, <1>4, <2>1, <2>2 DEF CacheIsAccepted, Good, Parsed
    <2> QED BY <1>1, <1>4, <2>3 DEF ReloadInv
  <1> QED BY <1>2, <1>3, <1>4

LEMMA ReloadStep == ReloadInv /\ [ReloadNext]_reloadVars => ReloadInv'
  <1> SUFFICES ASSUME ReloadInv, [ReloadNext]_reloadVars PROVE ReloadInv'
    OBVIOUS
  <1>1. CASE UNCHANGED reloadVars
    BY <1>1 DEF reloadVars, checkVars, ReloadInv, CacheIsAccepted, Good, Parsed
  <1>2. CASE ReloadNext
    BY <1>2, OperatorInv, CheckInv DEF ReloadNext
  <1> QED BY <1>1, <1>2

LEMMA ReloadInvariant == ReloadSpec => []ReloadInv
  BY ReloadInitInv, ReloadStep, PTL DEF ReloadSpec

\* What is cached was accepted from some version of the file and is valid
\* (glm_decode_first_scheduler.py, 31-105).
THEOREM CachedIsAccepted == ReloadSpec => []CacheIsAccepted
  <1>1. ReloadInv => CacheIsAccepted
    BY DEF ReloadInv
  <1> QED BY <1>1, ReloadInvariant, PTL

\* A good profile in use is never lost (glm_decode_first_scheduler.py, 146-150).
THEOREM ProfileStays == ReloadSpec => ProfileIsKept
  <1>1. ASSUME ReloadInv, ReloadInv', ReloadNext, cache # NoProfile
        PROVE  cache' # NoProfile /\ ~failed'
    <2>1. CASE Operator
      BY <1>1, <2>1 DEF Operator, Edit, PutBack, checkVars, ReloadInv
    <2>2. CASE PeriodElapses \/ StatFile
      BY <1>1, <2>2 DEF PeriodElapses, StatFile, KeepCache, ReloadInv
    <2>3. CASE ReadFile
      <3>1. CASE ~Good(file)
        BY <1>1, <2>3, <3>1 DEF ReadFile, KeepCache, ReloadInv
      <3>2. CASE Good(file)
        <4>1. file.raw \in RawProfile \cup {BadType}
          BY <1>1, <3>2 DEF ReloadInv, Good
        <4> QED BY <2>3, <3>2, <4>1, GoodIsValid DEF ReadFile
      <3> QED BY <3>1, <3>2
    <2> QED BY <1>1, <2>1, <2>2, <2>3 DEF ReloadNext
  <1>2. ReloadInv /\ ReloadInv' /\ [ReloadNext]_reloadVars
          => [cache # NoProfile => cache' # NoProfile /\ ~failed']_reloadVars
    BY <1>1
  <1> QED BY <1>2, ReloadInvariant, PTL DEF ReloadSpec, ProfileIsKept
-----------------------------------------------------------------------------
(***************************************************************************)
(* An engine under either policy: a step of one leaves the other's state.  *)
(***************************************************************************)
\* Every behaviour of the composition is one of each policy.
LEMMA PolicyIsEither == PolicySpec => Spec /\ ReloadSpec
<1>1. PolicyInit => Init /\ ReloadInit
  BY DEF PolicyInit
<1>2. [PolicyNext]_policyVars => [Next]_vars
  BY DEF PolicyNext, StaticStep, AdaptiveStep, policyVars
<1>3. [PolicyNext]_policyVars => [ReloadNext]_reloadVars
  BY DEF PolicyNext, StaticStep, AdaptiveStep, policyVars
<1> QED
  BY <1>1, <1>2, <1>3, PTL DEF PolicySpec, Spec, ReloadSpec

\* Whichever policy was chosen at boot: protected calls schedule no prompt token,
\* fewer than Interval calls in a row are protected, every call puts back what it
\* replaced, and a profile in use is one that was accepted and stays.
THEOREM PoliciesAreSafe ==
    PolicySpec => /\ []CadenceIsStrict /\ []OpenEveryInterval /\ SettingsRestored
                  /\ []CacheIsAccepted /\ ProfileIsKept
  BY PolicyIsEither, CadenceStaysStrict, EveryIntervalOpens, CadenceRestoresSettings,
     CachedIsAccepted, ProfileStays, PTL
=============================================================================
