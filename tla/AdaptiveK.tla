------------------------------ MODULE AdaptiveK ------------------------------
(***************************************************************************)
(* overlay-exl3-fp8/patch_adaptive_k.py: the scheduler verifies only a     *)
(* prefix of the drafted tokens, as long as a moving average of accepted   *)
(* tokens calls for, the same for every decoding request of a step, and of *)
(* a length a decode graph was captured for. An override file may change   *)
(* the policy while requests run.                                          *)
(*                                                                         *)
(* Scheduling is asynchronous: a step runs with the draft slots that the   *)
(* step before it chose, and its result is observed up to Depth steps      *)
(* later. Averages and margins count 1/Scale tokens and are rounded up, so *)
(* that a positive average stays positive, as a float does; a smoothing    *)
(* factor is given by its inverse.                                         *)
(***************************************************************************)
EXTENDS Integers, Sequences, FiniteSets

CONSTANTS
    Req,                  \* requests
    Drafts,               \* num_spec_tokens: the drafts of a full block
    BootSet,              \* GLM53_ADAPTIVE_K_SET, the lengths to choose from
    BootPolicy,           \* the knobs at boot
    Overrides,            \* contents of the override file
    MaxEdits,             \* bound on the edits explored
    MaxSeen,              \* observations are counted up to here
    Scale,                \* resolution of the averages
    ReloadEvery,          \* schedule calls between two looks at the file (50)
    HistEvery,            \* GLM53_ADAPTIVE_K_HIST
    Depth,                \* steps scheduled ahead of their results
    Absent, Bad           \* a key that is not there, a value that does not convert

ASSUME KAssumption ==
    /\ Drafts \in Nat \ {0}
    /\ BootSet \subseteq Nat \ {0} /\ BootSet # {} /\ IsFiniteSet(BootSet)
    /\ Scale \in Nat \ {0} /\ Depth \in Nat \ {0} /\ MaxSeen \in Nat
    /\ ReloadEvery \in Nat \ {0} /\ HistEvery \in Nat \ {0}
    /\ BootPolicy \in [mode : {"ema"},    \* switched off at boot, it is never asked
                       alpha : Nat \ {0}, margin : Nat, min_steps : Nat,
                       saturate : {"max", "n"}, set : SUBSET BootSet]

VARIABLES
    policy,               \* enabled, alpha, margin, min_steps, saturate, k_set
    average,              \* state: ema and number of observations, per request
    steps,                \* steps, modulo the periods of its uses
    file, fileTime,       \* the override file, and the mtime last seen
    decoding, prefilling, \* running requests, by is_prefill_chunk
    structured,           \* requests with structured output
    slots,                \* draft slots given to each decoding request
    pipeline              \* scheduled steps whose results are not yet observed

engineVars == <<decoding, prefilling, structured, slots, pipeline>>
vars == <<policy, average, steps, file, fileTime, engineVars>>

Largest(S) == CHOOSE k \in S : \A j \in S : j <= k
Smallest(S) == CHOOSE k \in S : \A j \in S : k <= j

\* The step counter is used modulo each of its two periods.
Period == Smallest({n \in 1..(ReloadEvery * HistEvery) : n % ReloadEvery = 0 /\ n % HistEvery = 0})
CeilDiv(a, b) == (a + b - 1) \div b

KMax == Largest(BootSet)
FullEma == Largest({KMax, Drafts}) * Scale

Policies ==
    [mode : {"ema", "off"}, alpha : Nat \ {0}, margin : Nat, min_steps : Nat,
     saturate : {"max", "n"}, set : SUBSET BootSet]

TypeOK ==
    /\ policy \in Policies /\ policy.set # {}
    /\ DOMAIN average \subseteq Req
    /\ \A r \in DOMAIN average : average[r] \in [ema : 0..FullEma, seen : 1..MaxSeen]
    /\ steps \in 0..(Period - 1)
    /\ file.time \in 0..MaxEdits /\ fileTime \in 0..MaxEdits
    /\ decoding \subseteq Req /\ prefilling \subseteq Req \ decoding
    /\ structured \subseteq Req
    /\ slots \in [Req -> 0..Drafts]
    /\ Len(pipeline) <= Depth
    /\ \A i \in 1..Len(pipeline) : DOMAIN pipeline[i] \subseteq Req

NoFile == [time |-> 0]

Init ==
    /\ policy = [BootPolicy EXCEPT !.set = BootSet]
    /\ average = << >>
    /\ steps = 0
    /\ file = NoFile
    /\ fileTime = 0
    /\ decoding = {} /\ prefilling = {} /\ structured = {}
    /\ slots = [r \in Req |-> 0]
    /\ pipeline = << >>

(***************************************************************************)
(* The graph lengths captured at boot, in tokens per request.              *)
(***************************************************************************)
CapturedLengths == {k + 1 : k \in {b \in BootSet : b <= Drafts}} \cup {Drafts + 1}

(***************************************************************************)
(* _reload. The keys are converted one after another, each assigned as     *)
(* soon as it is converted; the first one that fails ends the conversion,  *)
(* and the averages are dropped only when none does.                       *)
(***************************************************************************)
Keys == <<"mode", "alpha", "margin", "min_steps", "saturate", "set">>

Converted(o, i) == \A j \in 1..i : o[Keys[j]] # Bad

OverrideUnclamped(o, key) ==
    CASE key = "mode" /\ o.mode = Absent -> "ema"
      [] key # "mode" /\ o[key] = Absent -> policy[key]
      [] OTHER                           -> o[key]

Override(o, key) ==
    CASE key = "mode" /\ o.mode = Absent -> "ema"
      [] key # "mode" /\ o[key] = Absent -> policy[key]
      [] key = "set" /\ o.set # Absent   -> IF o.set \cap BootSet = {} THEN BootSet
                                                                       ELSE o.set \cap BootSet
      [] OTHER                           -> o[key]

Overridden(o) ==
    [key \in DOMAIN policy |->
        LET i == CHOOSE i \in 1..Len(Keys) : Keys[i] = key
        IN  IF Converted(o, i) THEN Override(o, key) ELSE policy[key]]

LooksAtFile == steps % ReloadEvery = 0
FileChanged == LooksAtFile /\ file.time # fileTime /\ file # NoFile /\ file.keys # Bad

PolicyNow == IF FileChanged THEN Overridden(file.keys) ELSE policy
AverageNow ==
    IF FileChanged /\ Converted(file.keys, Len(Keys)) THEN << >> ELSE average

(***************************************************************************)
(* choose and batch_k. A request that may not be trimmed holds the whole   *)
(* batch at the full length.                                               *)
(***************************************************************************)
Trimmable(p, avg, r) ==
    r \notin structured /\ r \in DOMAIN avg /\ avg[r].seen >= p.min_steps

PreferredLength(p, ema) ==
    LET target == CeilDiv(ema + p.margin, Scale)
        fits   == {k \in p.set : k <= target /\ k <= Drafts}
        n      == IF fits = {} THEN Smallest(p.set) ELSE Largest(fits)
    IN  Largest({1, Smallest({n, Drafts})})

BatchLength(p, avg, reqs) ==
    IF p.mode = "off" \/ reqs = {} \/ \E r \in reqs : ~Trimmable(p, avg, r)
      THEN Drafts
      ELSE Smallest({PreferredLength(p, avg[r].ema) : r \in reqs})

\* _count drops the averages of requests that are gone, every HistEvery steps.
Pruned(avg) ==
    IF (steps + 1) % HistEvery # 0 THEN avg
    ELSE [r \in DOMAIN avg \cap (decoding \cup prefilling) |-> avg[r]]

(***************************************************************************)
(* One engine step is scheduled: every decoding request verifies the slots *)
(* it holds, and is given the ones chosen now, as is a request whose last  *)
(* prompt chunk is in this step.                                           *)
(***************************************************************************)
ScheduleNewInFull(lastChunk) ==
    /\ decoding \cup prefilling # {}
    /\ Len(pipeline) < Depth
    /\ lastChunk \subseteq prefilling
    /\ LET n == BatchLength(PolicyNow, AverageNow, decoding)
       IN  slots' = [r \in Req |-> CASE r \in decoding  -> n
                                    [] r \in lastChunk -> Drafts
                                    [] OTHER           -> slots[r]]
    /\ policy' = PolicyNow
    /\ average' = (IF PolicyNow.mode = "off" THEN AverageNow ELSE Pruned(AverageNow))
    /\ fileTime' = (IF LooksAtFile THEN file.time ELSE fileTime)
    /\ steps' = (steps + 1) % Period
    /\ pipeline' = Append(pipeline, [r \in decoding |-> slots[r]])
    /\ decoding' = decoding \cup lastChunk
    /\ prefilling' = prefilling \ lastChunk
    /\ UNCHANGED <<file, structured>>

Schedule(lastChunk) ==
    /\ decoding \cup prefilling # {}
    /\ Len(pipeline) < Depth
    /\ lastChunk \subseteq prefilling
    /\ LET n == BatchLength(PolicyNow, AverageNow, decoding)
       IN  slots' = [r \in Req |-> IF r \in decoding \cup lastChunk THEN n ELSE slots[r]]
    /\ policy' = PolicyNow
    /\ average' = (IF PolicyNow.mode = "off" THEN AverageNow ELSE Pruned(AverageNow))
    /\ fileTime' = (IF LooksAtFile THEN file.time ELSE fileTime)
    /\ steps' = (steps + 1) % Period
    /\ pipeline' = Append(pipeline, [r \in decoding |-> slots[r]])
    /\ decoding' = decoding \cup lastChunk
    /\ prefilling' = prefilling \ lastChunk
    /\ UNCHANGED <<file, structured>>

(***************************************************************************)
(* observe, for every request of the oldest step that is still there.      *)
(***************************************************************************)
ObservedAsIs(drafted, accepted) == accepted

Observation(drafted, accepted) ==
    IF accepted >= drafted /\ policy.saturate # "n"
      THEN Largest({KMax, drafted}) ELSE accepted

Averaged(r, obs) ==
    LET old == IF r \in DOMAIN average THEN average[r] ELSE [ema |-> KMax * Scale, seen |-> 0]
    IN  [ema  |-> CeilDiv(obs * Scale + old.ema * (policy.alpha - 1), policy.alpha),
         seen |-> Smallest({old.seen + 1, MaxSeen})]

Observe(accepted) ==
    /\ pipeline # << >>
    /\ LET drafted  == Head(pipeline)
           observed == IF policy.mode = "off" THEN {}
                       ELSE {r \in DOMAIN drafted \cap decoding : drafted[r] > 0}
       IN  /\ accepted \in [DOMAIN drafted -> 0..Drafts]
           /\ \A r \in DOMAIN drafted : accepted[r] <= drafted[r]
           /\ average' = [r \in DOMAIN average \cup observed |->
                             IF r \in observed
                               THEN Averaged(r, Observation(drafted[r], accepted[r]))
                               ELSE average[r]]
    /\ pipeline' = Tail(pipeline)
    /\ UNCHANGED <<policy, steps, file, fileTime, decoding, prefilling, structured, slots>>

(***************************************************************************)
(* Requests come, each under an identifier of its own (what an earlier     *)
(* request of the same name left behind is not found under it), and go;    *)
(* the operator writes the override file or removes it.                    *)
(***************************************************************************)
InPipeline(r) == \E i \in 1..Len(pipeline) : r \in DOMAIN pipeline[i]

Arrive(r, isStructured) ==
    /\ r \notin decoding \cup prefilling
    /\ ~InPipeline(r)
    /\ average' = [s \in DOMAIN average \ {r} |-> average[s]]
    /\ prefilling' = prefilling \cup {r}
    /\ structured' = IF isStructured THEN structured \cup {r} ELSE structured
    /\ UNCHANGED <<policy, steps, file, fileTime, decoding, slots, pipeline>>

Leave(r) ==
    /\ r \in decoding \cup prefilling
    /\ decoding' = decoding \ {r}
    /\ prefilling' = prefilling \ {r}
    /\ structured' = structured \ {r}
    /\ slots' = [slots EXCEPT ![r] = 0]
    /\ UNCHANGED <<policy, average, steps, file, fileTime, pipeline>>

Edit(o) ==
    /\ Largest({file.time, fileTime}) < MaxEdits
    /\ file' = [time |-> Largest({file.time, fileTime}) + 1, keys |-> o]
    /\ UNCHANGED <<policy, average, steps, fileTime, engineVars>>

Remove ==
    /\ file # NoFile
    /\ file' = NoFile
    /\ UNCHANGED <<policy, average, steps, fileTime, engineVars>>

ScheduleSome == \E lastChunk \in SUBSET prefilling : Schedule(lastChunk)
ObserveSome == pipeline # << >> /\ \E accepted \in [DOMAIN Head(pipeline) -> 0..Drafts] : Observe(accepted)
Requests == \E r \in Req : Leave(r) \/ \E isStructured \in BOOLEAN : Arrive(r, isStructured)
Operator == Remove \/ \E o \in Overrides : Edit(o)

Next == ScheduleSome \/ ObserveSome \/ Requests \/ Operator

Spec == Init /\ [][Next]_vars

\* The engine loop schedules and processes results as long as it has requests.
FairSpec == Spec /\ WF_vars(ScheduleSome) /\ WF_vars(ObserveSome)
-----------------------------------------------------------------------------
\* Whatever the override file held and whenever it was read, a decoding request
\* is verified only at a length a decode graph was captured for. (lines 109-111,
\* 136-147, 293-306)
LengthIsCaptured ==
    \A i \in 1..Len(pipeline) : \A r \in DOMAIN pipeline[i] :
        pipeline[i][r] + 1 \in CapturedLengths

\* The decoding requests of a step verify the same number of drafts, newly
\* decoding ones and ones scheduled before a reload included. (lines 172-193)
StepIsUniform ==
    \A i \in 1..Len(pipeline) : \A r, s \in DOMAIN pipeline[i] :
        pipeline[i][r] = pipeline[i][s]

\* An override file that is not taken whole is not taken at all: "override file
\* ignored" (line 120).
RejectedOverrideIsIgnored ==
    [][policy' # policy => file.keys # Bad /\ Converted(file.keys, Len(Keys))]_vars

\* Once every draft is accepted and requests and policy stay as they are, the
\* batch climbs back to the longest length the policy allows. (lines 125-126)
SomeRejected ==
    /\ pipeline # << >>
    /\ \E accepted \in [DOMAIN Head(pipeline) -> 0..Drafts] :
          /\ Observe(accepted)
          /\ \E r \in DOMAIN Head(pipeline) : accepted[r] < Head(pipeline)[r]

LongestAllowed ==
    LET fits == {k \in policy.set : k <= Drafts}
    IN  IF policy.mode = "off" \/ fits = {} THEN Drafts ELSE Largest(fits)

ClimbsBack ==
    /\ <>[][~SomeRejected /\ ~Requests /\ ~Operator]_vars
    /\ <>[](policy.mode = "ema" /\ policy.saturate = "max")
    => <>[](\A r \in decoding : slots[r] >= LongestAllowed)
=============================================================================
