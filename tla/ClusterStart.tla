---------------------------- MODULE ClusterStart ----------------------------
(***************************************************************************)
(* start-cluster.sh and stop-cluster.sh, run again and again by one        *)
(* operator: check the worker host and its files, remove the containers of *)
(* both hosts, launch the worker and then the head, poll /health, and      *)
(* clean up on an error or a signal. launch-glm53-vllm-tp2-dflash2.sh is   *)
(* what launches a rank; it refuses bad settings only when it runs.        *)
(*                                                                         *)
(* An ssh command can fail with or without having run; when it fails, what *)
(* it started is over. An interrupt kills the local ssh, and what it had   *)
(* started on the worker host goes on; it is over before a later start,    *)
(* after all its checks, removes containers.                               *)
(***************************************************************************)
EXTENDS RankRuntime

CONSTANTS
    Worker,               \* the host of rank 1
    Deadline,             \* READY_TIMEOUT, in rounds of the loop
    SshFails,             \* whether ssh may fail
    Interrupts            \* whether the operator may interrupt

ASSUME StartAssumption ==
    /\ Rank = {HeadRank, Worker} /\ HeadRank # Worker
    /\ Deadline \in Nat
    /\ SshFails \in BOOLEAN /\ Interrupts \in BOOLEAN

VARIABLES
    pc,                   \* what the script does next
    start,                \* number of the current or last start
    valid,                \* its settings are ones a rank accepts
    rounds,               \* rounds of the loop so far
    outcome,              \* how the last script ended
    remote,               \* a cut-off launch that goes on on the worker host, or 0
    spoiled               \* this start was interrupted, or could not reach the
                          \* worker host to clean it up

scriptVars == <<pc, start, valid, rounds, outcome, remote, spoiled>>
vars == <<runtimeVars, scriptVars>>

\* The trap is set just before the worker is launched, and taken away at the end.
Trapped == {"launchWorker", "launchHead", "wait", "verify"}
Untrapped == {"check", "removeHead", "removeWorker", "stopHead", "stopWorker"}
Cleaning == {"cleanHead", "cleanWorker"}

TypeOK ==
    /\ RuntimeTypeOK
    /\ pc \in {"idle"} \cup Untrapped \cup Trapped \cup Cleaning
    /\ start \in 0..MaxGen
    /\ rounds \in 0..Deadline
    /\ valid \in BOOLEAN /\ spoiled \in BOOLEAN
    /\ outcome \in {"none", "healthy", "failed", "refused", "stopped"}
    /\ remote \in 0..start

Init ==
    /\ RuntimeInit
    /\ pc = "idle" /\ start = 0 /\ valid = TRUE /\ rounds = 0
    /\ outcome = "none" /\ remote = 0 /\ spoiled = FALSE

At(p) == pc = p
Goto(p) == pc' = p /\ UNCHANGED <<start, valid, rounds, outcome, remote, spoiled>>
End(o) == pc' = "idle" /\ outcome' = o /\ UNCHANGED <<start, valid, rounds, remote, spoiled>>

SetBox(b) == box' = b /\ UNCHANGED <<serving, faults>>

Begin ==
    /\ At("idle") /\ start < MaxGen
    /\ start' = start + 1 /\ pc' = "check"
    /\ valid' \in BOOLEAN /\ rounds' = 0
    /\ spoiled' = FALSE /\ outcome' = "none"
    /\ UNCHANGED <<runtimeVars, remote>>

\* Lines 94-287: commands, images, runtime files, calibration, drafter. None of
\* the checks looks at the settings that only the launcher or a rank refuses.
Check ==
    /\ At("check")
    /\ Goto("removeHead") \/ End("refused")
    /\ UNCHANGED runtimeVars

KeepHead == box

WithoutHead == Remove(HeadRank)

RemoveHead ==
    /\ At("removeHead")
    /\ Goto("removeWorker")
    /\ SetBox(WithoutHead)

RemoveWorker ==
    /\ At("removeWorker") /\ remote = 0
    /\ \/ Goto("launchWorker") /\ SetBox(Remove(Worker))
       \/ SshFails /\ End("refused") /\ UNCHANGED runtimeVars

\* A rank with bad settings is refused by the launcher, or starts and exits,
\* before or after the launcher has looked at it.
Launched(r) ==
    IF valid THEN {Run(r, start)} ELSE {[Run(r, start) EXCEPT ![r].status = "exited"]}

LaunchFailsUntrapped(r) ==
    /\ End("failed")
    /\ \E b \in {Remove(r)} \cup Launched(r) : SetBox(b)

LaunchFails(r) ==
    /\ Goto("cleanHead")
    /\ \E b \in {Remove(r)} \cup Launched(r) : SetBox(b)

LaunchWorker ==
    /\ At("launchWorker")
    /\ \/ Goto("launchHead") /\ \E b \in Launched(Worker) : SetBox(b)
       \/ LaunchFails(Worker)
       \/ SshFails /\ Goto("cleanHead") /\ \E b \in {box} \cup Launched(Worker) : SetBox(b)

LaunchHead ==
    /\ At("launchHead")
    /\ \/ Goto("wait") /\ \E b \in Launched(HeadRank) : SetBox(b)
       \/ LaunchFails(HeadRank)

\* One round of the loop: health, then the ranks, then the deadline. The probe
\* of a healthy head may fail all the same, and a worker that cannot be inspected
\* counts as one that has exited.
NotRunning(r) == ~Present(r) \/ box[r].status = "exited"

NextRound ==
    /\ \A r \in Rank : ~NotRunning(r)
    /\ rounds' = rounds + 1
    /\ UNCHANGED <<pc, start, valid, outcome, remote, spoiled>>

PollForever ==
    /\ At("wait")
    /\ \/ Healthy /\ Goto("verify")
       \/ (SshFails \/ \E r \in Rank : NotRunning(r)) /\ Goto("cleanHead")
       \/ /\ \A r \in Rank : ~NotRunning(r)
          /\ rounds' = IF rounds = 0 THEN 1 ELSE 0     \* the deadline moves on
          /\ UNCHANGED <<pc, start, valid, outcome, remote, spoiled>>
    /\ UNCHANGED runtimeVars

Poll ==
    /\ At("wait")
    /\ \/ Healthy /\ Goto("verify")
       \/ (SshFails \/ \E r \in Rank : NotRunning(r)) /\ Goto("cleanHead")
       \/ rounds = Deadline /\ Goto("cleanHead")
       \/ rounds < Deadline /\ NextRound
    /\ UNCHANGED runtimeVars

\* The kernel banner in both logs, and the query of the served models.
Verify ==
    /\ At("verify")
    /\ Goto("cleanHead") \/ End("healthy")
    /\ UNCHANGED runtimeVars

CleanHead ==
    /\ At("cleanHead")
    /\ Goto("cleanWorker")
    /\ SetBox(Remove(HeadRank))

CleanWorker ==
    /\ At("cleanWorker")
    /\ \/ End("failed") /\ SetBox(Remove(Worker))
       \/ /\ SshFails
          /\ pc' = "idle" /\ outcome' = "failed" /\ spoiled' = TRUE
          /\ UNCHANGED <<runtimeVars, start, valid, rounds, remote>>

\* INT or TERM: cleaned up after when trapped, and cleanup drops the trap first.
Interrupt ==
    /\ Interrupts
    /\ spoiled' = TRUE
    /\ \/ pc \in Trapped /\ pc' = "cleanHead" /\ UNCHANGED outcome
          /\ \/ At("launchWorker") /\ valid /\ remote' = start
             \/ UNCHANGED remote
       \/ pc \in Untrapped /\ pc' = "idle" /\ outcome' = "refused" /\ UNCHANGED remote
       \/ pc \in Cleaning /\ pc' = "idle" /\ outcome' = "failed" /\ UNCHANGED remote
    /\ UNCHANGED <<runtimeVars, start, valid, rounds>>

RemoteLaunch ==
    /\ remote # 0
    /\ SetBox(Run(Worker, remote))
    /\ remote' = 0
    /\ UNCHANGED <<pc, start, valid, rounds, outcome, spoiled>>

BeginStop ==
    /\ At("idle") /\ outcome # "stopped"
    /\ Goto("stopHead")
    /\ UNCHANGED runtimeVars

StopHead ==
    /\ At("stopHead")
    /\ Goto("stopWorker")
    /\ SetBox(Remove(HeadRank))

StopWorker ==
    /\ At("stopWorker")
    /\ \/ End("stopped") /\ SetBox(Remove(Worker))
       \/ SshFails /\ End("stopped") /\ UNCHANGED runtimeVars

Script ==
    \/ Check \/ RemoveHead \/ RemoveWorker \/ LaunchWorker \/ LaunchHead
    \/ Poll \/ Verify \/ CleanHead \/ CleanWorker \/ StopHead \/ StopWorker

Operator == Begin \/ BeginStop \/ Interrupt

Runtime == (Settle \/ Fault) /\ UNCHANGED scriptVars

Next == Script \/ Operator \/ RemoteLaunch \/ Runtime

Spec == Init /\ [][Next]_vars

\* Commands return; the launch that was cut off comes to its end. ssh and curl
\* have time limits for their connection.
FairSpec == Spec /\ WF_vars(Script) /\ WF_vars(RemoteLaunch)
-----------------------------------------------------------------------------
\* "A stale rank can join the wrong rendezvous": no rank is ever a member of
\* the rendezvous of another start than its own, whatever failed starts, cut
\* off launches and dead engines are left behind. (lines 289-313)
OneRendezvous ==
    \A w \in Workers : Present(w) => box[w].store \in {0, box[w].gen}

\* When a start has failed after its first launch, none of its containers is
\* left, whichever step failed; unless the worker host could not be reached to
\* clean it up, or the operator interrupted: a worker launch that is cut off may
\* end after the cleanup. (trap, lines 94-101 and 295)
FailedStartIsClean ==
    At("idle") /\ outcome = "failed" /\ ~spoiled => \A r \in Rank : box[r].gen # start

\* A start returns, healthy or not: it does not wait for ranks that cannot
\* come up. (lines 362-375)
StartReturns == ~At("idle") ~> At("idle")

\* Settings that a rank refuses are refused before the containers of a running
\* cluster are removed. (patch_spinwait.py, lines 6-7)
SettingsAreCheckedFirst == [][At("removeHead") /\ pc' = "removeWorker" /\ Healthy => valid]_vars
=============================================================================
