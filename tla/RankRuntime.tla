----------------------------- MODULE RankRuntime -----------------------------
(***************************************************************************)
(* Docker and vLLM as the launch scripts meet them: on each host at most   *)
(* one container of the one name, which the scripts remove and run; the    *)
(* headless ranks join the rendezvous store of whatever head container     *)
(* they find; and /health of a head that has all its ranks and has loaded. *)
(*                                                                         *)
(* A head whose engine has died stays there, wedged, as often as it exits, *)
(* and a rank can still join its store. A rank whose store has gone exits. *)
(* (fleet_watchdog.sh 7-9 and 62-64, start-cluster.sh 289)                 *)
(***************************************************************************)
EXTENDS Integers

CONSTANTS
    Rank, HeadRank,       \* hosts, and the one with rank 0
    MaxGen,               \* bound on the launches explored, each one numbered
    MaxFaults             \* bound on the deaths explored

ASSUME RankAssumption ==
    /\ HeadRank \in Rank
    /\ MaxGen \in Nat \ {0} /\ MaxFaults \in Nat

VARIABLES
    box,                  \* the container of each host
    serving,              \* the launch whose head answers /health, or 0
    faults                \* deaths so far

runtimeVars == <<box, serving, faults>>

NoBox == [gen |-> 0]
Container(r, g) ==
    [gen |-> g, status |-> "running", store |-> IF r = HeadRank THEN g ELSE 0]

Containers ==
    [gen : 1..MaxGen, status : {"running", "wedged", "exited"}, store : 0..MaxGen]

RuntimeTypeOK ==
    /\ box \in [Rank -> Containers \cup {NoBox}]
    /\ serving \in 0..MaxGen
    /\ faults \in 0..MaxFaults

Present(r) == box[r] # NoBox
Running(r) == Present(r) /\ box[r].status = "running"
Workers == Rank \ {HeadRank}

\* The store of the current head, which a wedged one still serves.
HasStore(g) == Present(HeadRank) /\ box[HeadRank].status # "exited" /\ box[HeadRank].gen = g

\* All ranks of one head run and have found it.
Complete ==
    /\ Running(HeadRank)
    /\ \A w \in Workers : Running(w) /\ box[w].store = box[HeadRank].gen

\* What a probe of /health sees.
Healthy == Complete /\ serving = box[HeadRank].gen

RuntimeInit ==
    /\ box = [r \in Rank |-> NoBox]
    /\ serving = 0
    /\ faults = 0

\* docker rm -f, and docker run after it.
Remove(r) == [box EXCEPT ![r] = NoBox]
Run(r, g) == [box EXCEPT ![r] = Container(r, g)]

(***************************************************************************)
(* What the containers do of their own.                                    *)
(***************************************************************************)
Join(w) ==
    /\ Running(w) /\ box[w].store = 0
    /\ HasStore(box[HeadRank].gen)
    /\ box' = [box EXCEPT ![w].store = box[HeadRank].gen]
    /\ UNCHANGED <<serving, faults>>

Load ==
    /\ Complete /\ ~Healthy
    /\ serving' = box[HeadRank].gen
    /\ UNCHANGED <<box, faults>>

LosesItsStore(w) ==
    /\ Running(w) /\ box[w].store # 0
    /\ ~HasStore(box[w].store)
    /\ box' = [box EXCEPT ![w].status = "exited"]
    /\ UNCHANGED <<serving, faults>>

Die(r, status) ==
    /\ Running(r) /\ faults < MaxFaults
    /\ status = "wedged" => r = HeadRank
    /\ box' = [box EXCEPT ![r].status = status]
    /\ faults' = faults + 1
    /\ UNCHANGED serving

Settle == Load \/ \E w \in Workers : Join(w) \/ LosesItsStore(w)

Fault == \E r \in Rank, status \in {"wedged", "exited"} : Die(r, status)
=============================================================================
