-------------------------- MODULE AdaptiveKProofs --------------------------
(***************************************************************************)
(* The verified lengths, for every set of lengths captured at boot, every  *)
(* depth of the pipeline, and whatever the override file holds and         *)
(* whenever it is read.                                                    *)
(*                                                                         *)
(* What runs in a step was chosen one step earlier, so neither property    *)
(* speaks of the draft slots it depends on: the invariant adds that the    *)
(* slots held by decoding requests agree and are of a captured length,     *)
(* and that the set of lengths in use is never empty nor wider than at     *)
(* boot, for the set is what the next choice is made from.                 *)
(***************************************************************************)
EXTENDS AdaptiveK, FiniteSetTheorems, NaturalsLemmas

\* The draft lengths for which a graph was captured.
Lengths == {k \in BootSet : k <= Drafts} \cup {Drafts}

\* The drafts of a scheduled step.
UniformSteps ==
    {f \in UNION {[reqs -> Lengths] : reqs \in SUBSET Req} :
        \A r, s \in DOMAIN f : f[r] = f[s]}

\* The set of lengths in use.
SetInv == "set" \in DOMAIN policy /\ policy.set \subseteq BootSet /\ policy.set # {}

\* The slots that the next step will run with.
SlotInv ==
    /\ decoding \subseteq Req /\ prefilling \subseteq Req
    /\ DOMAIN slots = Req
    /\ \A r \in decoding : slots[r] \in Lengths
    /\ \A r, s \in decoding : slots[r] = slots[s]

LengthInv == SetInv /\ SlotInv /\ pipeline \in Seq(UniformSteps)
-----------------------------------------------------------------------------
\* A set of lengths has a largest and a smallest member.
LEMMA Extremes ==
    ASSUME NEW S \in SUBSET Nat, IsFiniteSet(S), S # {}
    PROVE  /\ Smallest(S) \in S /\ \A k \in S : Smallest(S) <= k
           /\ Largest(S) \in S /\ \A k \in S : k <= Largest(S)
<1>1. \E m \in S : \A k \in S : m <= k
  BY LeastElement
<1>2. \E m \in S : \A k \in S : k <= m
  BY GreatestElement
<1> QED
  BY <1>1, <1>2 DEF Smallest, Largest

\* The smaller and the larger of two numbers.
LEMMA OfTwo ==
    ASSUME NEW a \in Nat, NEW b \in Nat
    PROVE  /\ Smallest({a, b}) = IF a <= b THEN a ELSE b
           /\ Largest({a, b}) = IF a <= b THEN b ELSE a
<1>1. IsFiniteSet({a, b})
  <2>1. IsFiniteSet({a}) /\ {a, b} = {a} \cup {b}
    BY FS_Singleton
  <2> QED
    BY <2>1, FS_AddElement
<1>2. {a, b} \in SUBSET Nat /\ {a, b} # {}
  OBVIOUS
<1>3. /\ Smallest({a, b}) \in {a, b} /\ \A k \in {a, b} : Smallest({a, b}) <= k
      /\ Largest({a, b}) \in {a, b} /\ \A k \in {a, b} : k <= Largest({a, b})
  BY <1>1, <1>2, Extremes
<1> QED
  BY <1>3

\* A request is given a captured length, whatever its average and the margin.
LEMMA PreferredIsCaptured ==
    ASSUME NEW p, p.set \subseteq BootSet, p.set # {}, NEW ema
    PROVE  PreferredLength(p, ema) \in Lengths
<1> DEFINE target == CeilDiv(ema + p.margin, Scale)
           fits == {k \in p.set : k <= target /\ k <= Drafts}
           n == IF fits = {} THEN Smallest(p.set) ELSE Largest(fits)
<1>1. /\ BootSet \in SUBSET Nat /\ IsFiniteSet(BootSet) /\ \A k \in BootSet : k >= 1
      /\ Drafts \in Nat /\ Drafts >= 1
  BY KAssumption
<1>2. p.set \in SUBSET Nat /\ IsFiniteSet(p.set) /\ fits \in SUBSET p.set /\ IsFiniteSet(fits)
  BY <1>1, FS_Subset
<1>3. n \in p.set
  <2>1. CASE fits = {}
    BY <1>2, <2>1, Extremes
  <2>2. CASE fits # {}
    <3>1. Largest(fits) \in fits
      BY <1>2, <2>2, Extremes
    <3> QED
      BY <1>2, <2>2, <3>1
  <2> QED
    BY <2>1, <2>2
<1> HIDE DEF n
<1>4. n \in BootSet /\ n \in Nat /\ n >= 1
  BY <1>1, <1>3
<1>5. Smallest({n, Drafts}) = IF n <= Drafts THEN n ELSE Drafts
  BY <1>1, <1>4, OfTwo
<1>6. Smallest({n, Drafts}) \in Nat /\ Smallest({n, Drafts}) >= 1
  BY <1>1, <1>4, <1>5
<1>7. Largest({1, Smallest({n, Drafts})}) = Smallest({n, Drafts})
  <2>1. 1 \in Nat /\ 1 <= Smallest({n, Drafts})
    BY <1>6
  <2> QED
    BY <1>6, <2>1, OfTwo
<1>8. PreferredLength(p, ema) = Smallest({n, Drafts})
  BY <1>7 DEF PreferredLength, n
<1> QED
  BY <1>1, <1>4, <1>5, <1>8 DEF Lengths

\* So is a batch: one request that may not be trimmed takes it to the full length.
LEMMA BatchIsCaptured ==
    ASSUME NEW p, p.set \subseteq BootSet, p.set # {}, NEW avg, NEW reqs
    PROVE  BatchLength(p, avg, reqs) \in Lengths
<1> DEFINE chosen == {PreferredLength(p, avg[r].ema) : r \in reqs}
<1>1. CASE p.mode = "off" \/ reqs = {} \/ \E r \in reqs : ~Trimmable(p, avg, r)
  BY <1>1 DEF BatchLength, Lengths
<1>2. CASE ~(p.mode = "off" \/ reqs = {} \/ \E r \in reqs : ~Trimmable(p, avg, r))
  <2>1. chosen \subseteq Lengths /\ chosen # {}
    BY <1>2, PreferredIsCaptured
  <2>2. Lengths \in SUBSET Nat
    BY KAssumption DEF Lengths
  <2> HIDE DEF chosen
  <2>3. \E m \in chosen : \A k \in chosen : m <= k
    BY <2>1, <2>2, LeastElement
  <2>4. Smallest(chosen) \in chosen
    BY <2>3 DEF Smallest
  <2>5. BatchLength(p, avg, reqs) = Smallest(chosen)
    BY <1>2 DEF BatchLength, chosen
  <2> QED
    BY <2>1, <2>4, <2>5
<1> QED
  BY <1>1, <1>2

\* Whatever the file holds, the set in use is one of boot lengths and not empty.
LEMMA SetSurvives ==
    ASSUME SetInv
    PROVE  /\ "set" \in DOMAIN PolicyNow
           /\ PolicyNow.set \subseteq BootSet /\ PolicyNow.set # {}
<1>1. CASE ~FileChanged
  BY <1>1 DEF PolicyNow, SetInv
<1>2. CASE FileChanged
  <2> DEFINE o == file.keys
  <2>1. PolicyNow = Overridden(o)
    BY <1>2 DEF PolicyNow
  <2>2. Overridden(o).set \in {policy.set, Override(o, "set")} /\ "set" \in DOMAIN Overridden(o)
    BY DEF Overridden, SetInv
  <2>3. \/ Override(o, "set") = policy.set
        \/ Override(o, "set") = BootSet
        \/ o.set \cap BootSet # {} /\ Override(o, "set") = o.set \cap BootSet
    <3>1. CASE o.set = Absent
      BY <3>1 DEF Override
    <3>2. CASE o.set # Absent
      BY <3>2 DEF Override
    <3> QED
      BY <3>1, <3>2
  <2> QED
    BY <2>1, <2>2, <2>3, KAssumption DEF SetInv
<1> QED
  BY <1>1, <1>2
-----------------------------------------------------------------------------
\* Nothing runs at boot, and every captured length may be chosen.
LEMMA InitLengthInv == Init => LengthInv
<1> SUFFICES ASSUME Init PROVE LengthInv
  OBVIOUS
<1>1. "set" \in DOMAIN BootPolicy
  BY KAssumption
<1>2. SetInv
  BY <1>1, KAssumption DEF Init, SetInv
<1>3. SlotInv
  BY DEF Init, SlotInv
<1> QED
  BY <1>2, <1>3 DEF Init, LengthInv

\* Schedule. What was held is run, and one length is held from now on.
LEMMA ScheduleInv ==
    ASSUME LengthInv, NEW lastChunk \in SUBSET prefilling, Schedule(lastChunk)
    PROVE  LengthInv'
<1> DEFINE n == BatchLength(PolicyNow, AverageNow, decoding)
           step == [r \in decoding |-> slots[r]]
<1>1. n \in Lengths
  BY SetSurvives, BatchIsCaptured DEF LengthInv
<1>2. SetInv'
  BY SetSurvives DEF LengthInv, SetInv, Schedule
<1> HIDE DEF n
<1>3. SlotInv'
  <2>1. slots' = [r \in Req |-> IF r \in decoding \cup lastChunk THEN n ELSE slots[r]]
    BY DEF Schedule, n
  <2>2. decoding' = decoding \cup lastChunk /\ prefilling' = prefilling \ lastChunk
    BY DEF Schedule
  <2> QED
    BY <1>1, <2>1, <2>2 DEF LengthInv, SlotInv
<1>4. step \in UniformSteps
  <2>1. step \in [decoding -> Lengths] /\ decoding \in SUBSET Req
    BY DEF LengthInv, SlotInv
  <2>2. \A r, s \in DOMAIN step : step[r] = step[s]
    BY DEF LengthInv, SlotInv
  <2> QED
    BY <2>1, <2>2 DEF UniformSteps
<1>5. pipeline' \in Seq(UniformSteps)
  BY <1>4 DEF Schedule, LengthInv
<1> QED
  BY <1>2, <1>3, <1>5 DEF LengthInv

\* Observe. The oldest step leaves the pipeline; slots and policy stay.
LEMMA ObserveInv == ASSUME LengthInv, NEW accepted, Observe(accepted) PROVE LengthInv'
<1>1. pipeline' \in Seq(UniformSteps)
  BY DEF Observe, LengthInv
<1> QED
  BY <1>1 DEF Observe, LengthInv, SetInv, SlotInv

\* Requests come and go.
LEMMA RequestsInv == ASSUME LengthInv, Requests PROVE LengthInv'
<1>1. PICK r \in Req : Leave(r) \/ \E isStructured \in BOOLEAN : Arrive(r, isStructured)
  BY DEF Requests
<1>2. CASE Leave(r)
  <2>1. \A s \in decoding' : s # r /\ s \in decoding /\ slots'[s] = slots[s]
    BY <1>2 DEF Leave, LengthInv, SlotInv
  <2> QED
    BY <1>2, <2>1 DEF Leave, LengthInv, SetInv, SlotInv
<1>3. CASE \E isStructured \in BOOLEAN : Arrive(r, isStructured)
  BY <1>3 DEF Arrive, LengthInv, SetInv, SlotInv
<1> QED
  BY <1>1, <1>2, <1>3

\* The operator touches the file only.
LEMMA OperatorInv == ASSUME LengthInv, Operator PROVE LengthInv'
  BY DEF Operator, Edit, Remove, engineVars, LengthInv, SetInv, SlotInv

\* Every step keeps the invariant.
LEMMA LengthStep == LengthInv /\ [Next]_vars => LengthInv'
<1> SUFFICES ASSUME LengthInv, [Next]_vars PROVE LengthInv'
  OBVIOUS
<1>1. CASE ScheduleSome
  BY <1>1, ScheduleInv DEF ScheduleSome
<1>2. CASE ObserveSome
  BY <1>2, ObserveInv DEF ObserveSome
<1>3. CASE Requests
  BY <1>3, RequestsInv
<1>4. CASE Operator
  BY <1>4, OperatorInv
<1>5. CASE UNCHANGED vars
  BY <1>5 DEF vars, engineVars, LengthInv, SetInv, SlotInv
<1> QED
  BY <1>1, <1>2, <1>3, <1>4, <1>5 DEF Next

\* The invariant holds throughout.
THEOREM LengthInvariant == Spec => []LengthInv
  BY InitLengthInv, LengthStep, PTL DEF Spec

\* A decoding request is verified only at a length a graph was captured for.
THEOREM LengthsAreCaptured == Spec => []LengthIsCaptured
<1>1. LengthInv => LengthIsCaptured
  <2> SUFFICES ASSUME LengthInv, NEW i \in 1..Len(pipeline), NEW r \in DOMAIN pipeline[i]
               PROVE  pipeline[i][r] + 1 \in CapturedLengths
    BY DEF LengthIsCaptured
  <2>1. pipeline[i] \in UniformSteps
    BY DEF LengthInv
  <2>2. pipeline[i][r] \in Lengths
    BY <2>1 DEF UniformSteps
  <2> QED
    BY <2>2 DEF Lengths, CapturedLengths
<1> QED
  BY <1>1, LengthInvariant, PTL

\* The decoding requests of one step verify the same number of drafts.
THEOREM StepsAreUniform == Spec => []StepIsUniform
<1>1. LengthInv => StepIsUniform
  <2> SUFFICES ASSUME LengthInv, NEW i \in 1..Len(pipeline)
               PROVE  \A r, s \in DOMAIN pipeline[i] : pipeline[i][r] = pipeline[i][s]
    BY DEF StepIsUniform
  <2>1. pipeline[i] \in UniformSteps
    BY DEF LengthInv
  <2> QED
    BY <2>1 DEF UniformSteps
<1> QED
  BY <1>1, LengthInvariant, PTL
=============================================================================
