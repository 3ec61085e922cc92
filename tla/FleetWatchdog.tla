---------------------------- MODULE FleetWatchdog ----------------------------
(***************************************************************************)
(* fleet_watchdog.sh: probe /health, and after FAIL_THRESHOLD failures in  *)
(* a row tear down every rank, launch the workers and then the head, and   *)
(* wait for /health. Whatever fails on the way is logged and passed over.  *)
(*                                                                         *)
(* A command on a worker host, a launch and a probe can fail, each at the  *)
(* cost of one fault; docker rm on the head's own host does not. Ranks     *)
(* that are all up and can find each other load within READY_TIMEOUT.      *)
(***************************************************************************)
EXTENDS RankRuntime, Sequences

CONSTANTS
    Order,                \* RANK_ORDER, the head last
    Threshold             \* FAIL_THRESHOLD

ASSUME WatchdogAssumption ==
    /\ Order \in Seq(Rank)
    /\ Rank = {Order[i] : i \in 1..Len(Order)} /\ Order[Len(Order)] = HeadRank
    /\ Threshold \in Nat \ {0}

VARIABLES
    pc,                   \* what the watchdog does next
    at,                   \* the place in Order it has come to
    fails,                \* failed probes in a row
    launches              \* the last launch of the fleet

watchdogVars == <<pc, at, fails, launches>>
vars == <<runtimeVars, watchdogVars>>

TypeOK ==
    /\ RuntimeTypeOK
    /\ pc \in {"probe", "teardown", "launch", "wait"}
    /\ at \in 1..Len(Order)
    /\ fails \in 0..Threshold
    /\ launches \in 0..MaxGen

\* It may be started on nothing or on a fleet that was launched by hand.
Init ==
    /\ box \in {[r \in Rank |-> NoBox], [r \in Rank |-> Container(r, 1)]}
    /\ serving = 0 /\ faults = 0
    /\ pc = "probe" /\ at = 1 /\ fails = 0 /\ launches = 1

SpendsFault == faults < MaxFaults /\ faults' = faults + 1
CanServe == \A r \in Rank : Running(r) /\ box[r].store \in {0, box[HeadRank].gen}

\* On to the next rank of Order, or from the last one to the next phase.
Advance(next) ==
    IF at < Len(Order) THEN at' = at + 1 /\ UNCHANGED pc
    ELSE at' = 1 /\ pc' = next

ProbeSucceeds ==
    /\ pc = "probe" /\ Healthy
    /\ fails' = 0
    /\ UNCHANGED <<runtimeVars, pc, at, launches>>

ProbeFails ==
    /\ pc = "probe"
    /\ \/ ~Healthy /\ UNCHANGED faults
       \/ Healthy /\ SpendsFault
    /\ fails' = fails + 1
    /\ IF fails' < Threshold THEN UNCHANGED <<pc, launches>>
       ELSE launches < MaxGen /\ pc' = "teardown" /\ launches' = launches + 1
    /\ UNCHANGED <<box, serving, at>>

TearDownWorkers ==
    /\ pc = "teardown"
    /\ Advance("launch")
    /\ box' = (IF Order[at] = HeadRank THEN box ELSE Remove(Order[at]))
    /\ UNCHANGED <<serving, faults, fails, launches>>

TearDown ==
    /\ pc = "teardown"
    /\ Advance("launch")
    /\ \/ box' = Remove(Order[at]) /\ UNCHANGED faults
       \/ Order[at] # HeadRank /\ SpendsFault /\ UNCHANGED box
    /\ UNCHANGED <<serving, fails, launches>>

\* A launch that fails has done nothing, has removed the container, has left one
\* that exited, or has succeeded all the same.
FailedLaunch(r) ==
    {box, Remove(r), Run(r, launches), [Run(r, launches) EXCEPT ![r].status = "exited"]}

Launch ==
    /\ pc = "launch"
    /\ Advance("wait")
    /\ \/ box' = Run(Order[at], launches) /\ UNCHANGED faults
       \/ box' \in FailedLaunch(Order[at]) /\ SpendsFault
    /\ UNCHANGED <<serving, fails, launches>>

Recovered ==
    /\ pc = "wait" /\ Healthy
    /\ pc' = "probe" /\ fails' = 0
    /\ UNCHANGED <<runtimeVars, at, launches>>

WaitForever ==
    /\ pc = "wait" /\ ~Healthy
    /\ UNCHANGED vars

GiveUp ==
    /\ pc = "wait" /\ ~Healthy /\ ~CanServe
    /\ pc' = "probe" /\ fails' = 0
    /\ UNCHANGED <<runtimeVars, at, launches>>

Watchdog == ProbeSucceeds \/ ProbeFails \/ TearDown \/ Launch \/ Recovered \/ GiveUp

Runtime == (Settle \/ Fault) /\ UNCHANGED watchdogVars

Next == Watchdog \/ Runtime

Spec == Init /\ [][Next]_vars

\* The loop has no way out, its commands return, and containers go on by themselves.
Fairness == WF_vars(Watchdog) /\ WF_vars(Settle /\ UNCHANGED watchdogVars)

FairSpec == Spec /\ Fairness
-----------------------------------------------------------------------------
\* "A worker must never start while the old head is dying: it joins the stale
\* TCPStore rendezvous": no worker is in the rendezvous of a head older than
\* itself, whatever teardowns and launches have failed. (lines 62-69, 80-87)
NoStaleRendezvous ==
    \A w \in Workers : Present(w) /\ box[w].store # 0 => box[w].store >= box[w].gen

\* Once nothing fails any more the fleet comes to be healthy and stays so,
\* whatever a wedged head, dead workers, half-done recoveries and false alarms
\* have left behind. (lines 59-98, 109-122)
FleetRecovers == <>[]Healthy
=============================================================================
