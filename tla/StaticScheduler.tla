-------------------------- MODULE StaticScheduler --------------------------
(***************************************************************************)
(* DecodeFirstScheduler.schedule: beside active decoders prefills are      *)
(* admitted once every prefill_schedule_interval engine steps, and a batch *)
(* of prefills alone runs without the per-request cap.                     *)
(*                                                                         *)
(* As in AdaptiveScheduler a call is Enter, the grants of the stock loop,  *)
(* and Return or Raise. step is current_step, which the parent advances,   *)
(* taken modulo the interval; deferred is history, the calls in a row that *)
(* the cadence closed to prefills, Interval standing for too many.         *)
(***************************************************************************)
EXTENDS StockScheduler

CONSTANT Interval         \* prefill_schedule_interval

ASSUME IntervalAssumption == Interval \in Nat \ {0}

VARIABLES
    step,                 \* current_step, modulo Interval
    call,                 \* the locals of the call in progress
    deferred              \* history

vars == <<stockVars, step, call, deferred>>

NoCall == [active |-> FALSE]
InCall == call.active

Calls == [active : {TRUE}, closed : BOOLEAN, decoding : BOOLEAN, throttle : BOOLEAN,
          threshold : Nat, uncap : BOOLEAN, capacity : BOOLEAN, force : BOOLEAN]

TypeOK ==
    /\ StockTypeOK
    /\ step \in 0..(Interval - 1)
    /\ call \in Calls \cup {NoCall}
    /\ deferred \in Nat

Init ==
    /\ StockInit
    /\ step = 0
    /\ call = NoCall
    /\ deferred = 0

\* cadence_throttles, and the two settings a call replaces.
CadenceWithoutModulo == Interval > 1 /\ step # Interval

CadenceCloses == Interval > 1 /\ step # 0

UncapsPurePrefill(decoding) == threshold > 0 /\ ~decoding

ForceNothing(closed, decoding) == FALSE

ForceCadence(closed, decoding) == closed /\ decoding /\ capacityBound

Enter(upstream) ==
    /\ ~InCall
    /\ LET decoding == Decoders # {}
           throttle == upstream \/ CadenceCloses
           c == [active |-> TRUE, closed |-> CadenceCloses, decoding |-> decoding,
                 throttle |-> throttle, threshold |-> threshold,
                 uncap |-> UncapsPurePrefill(decoding), capacity |-> capacityBound,
                 force |-> ForceCadence(CadenceCloses, decoding)]
       IN  /\ call' = c
           /\ threshold' = (IF c.uncap THEN 0 ELSE threshold)
           /\ capacityBound' = (capacityBound /\ ~c.force)
    /\ UNCHANGED <<queueVars, served, stepTokens, step, deferred>>

ParentStep ==
    /\ InCall
    /\ PrefillsAllowed(call.throttle, call.decoding)
    /\ \E r \in Req, n \in GrantSizes, lastChunk \in BOOLEAN :
          GrantRunning(r, n, lastChunk) \/ GrantWaiting(r, n, lastChunk)
    /\ UNCHANGED <<step, call, deferred>>

\* The finally block, on both ways out.
Restore ==
    /\ threshold' = (IF call.uncap THEN call.threshold ELSE threshold)
    /\ capacityBound' = (IF call.force THEN call.capacity ELSE capacityBound)
    /\ call' = NoCall
    /\ served' = {} /\ stepTokens' = 0
    /\ UNCHANGED queueVars

\* The parent counts its calls.
NextStep == (step + 1) % Interval

\* Whether the call was one the cadence closed to prefills.
Protected == call.closed /\ call.decoding

Return ==
    /\ InCall
    /\ Restore
    /\ step' = NextStep
    /\ deferred' = IF Protected THEN AtMost(Interval, deferred + 1) ELSE 0

RaiseUnrestored ==
    /\ InCall
    /\ call' = NoCall
    /\ served' = {} /\ stepTokens' = 0
    /\ UNCHANGED <<queueVars, threshold, capacityBound>>
    /\ step' \in {step, NextStep}
    /\ deferred' = IF Protected THEN deferred ELSE 0

\* The parent may raise before or after it has advanced current_step.
Raise ==
    /\ InCall
    /\ Restore
    /\ step' \in {step, NextStep}
    /\ deferred' = IF Protected THEN deferred ELSE 0

Environment ==
    /\ ~InCall
    /\ \/ \E r \in Req : Arrive(r) \/ Leave(r)
       \/ BalanceCapacity
    /\ UNCHANGED <<step, call, deferred>>

EnterSome == \E upstream \in BOOLEAN : Enter(upstream)

Next == Environment \/ EnterSome \/ ParentStep \/ Return \/ Raise

Spec == Init /\ [][Next]_vars
-----------------------------------------------------------------------------
\* A step that the cadence closes schedules no prompt token beside decoders,
\* though the queue be capacity-bound, as stock balancing would allow. "Cadence
\* must stay strict under saturation" (lines 199-203)
CadenceIsStrict == InCall /\ Protected => stepTokens = 0

\* Of any Interval calls in a row one is open to prefills. (lines 187-189)
OpenEveryInterval == deferred < Interval

\* Between calls the scheduler has the settings of its configuration, a parent
\* that raised half-way included: no call leaves its own cap or flag behind.
\* (lines 212-218)
SettingsRestored ==
    [][InCall /\ ~InCall'
         => threshold' = ConfiguredThreshold /\ capacityBound' = call.capacity]_vars
=============================================================================
