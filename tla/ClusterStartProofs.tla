-------------------------- MODULE ClusterStartProofs --------------------------
(***************************************************************************)
(* Starts and stops of the cluster, in any number, with any wait, any      *)
(* deaths, and with ssh failures and interrupts wherever they are allowed: *)
(* no rank is in the rendezvous of a start that is not its own, and a      *)
(* start that failed has left nothing of itself.                           *)
(***************************************************************************)
EXTENDS ClusterStart, TLAPS

(***************************************************************************)
(* A worker joins whatever store it finds, and a worker of an earlier      *)
(* start may well be there: ssh could not remove it, or its launch was cut *)
(* off and goes on. So the two containers, when both are there, must be of *)
(* one start; and they are because the head is away from before the worker *)
(* is removed until it is launched after the worker, with no cut-off       *)
(* launch under way.                                                       *)
(***************************************************************************)
HeadIsAway ==
    pc \in {"removeWorker", "launchWorker", "launchHead", "cleanWorker"} \/ remote # 0
        => ~Present(HeadRank)

WorkerIsOfThisStart ==
    /\ pc \in {"launchWorker", "launchHead"} => remote = 0
    /\ pc = "launchWorker" => ~Present(Worker)
    /\ pc = "launchHead" => ~Present(Worker) \/ box[Worker].gen = start

OneStart ==
    Present(HeadRank) /\ Present(Worker) => box[HeadRank].gen = box[Worker].gen

\* What was cut off in this start has marked it.
CutOffIsSpoiled == remote = start /\ remote # 0 => spoiled

Started == pc \notin {"idle", "stopHead", "stopWorker"} => start # 0

StartInv ==
    /\ TypeOK
    /\ Started
    /\ HeadIsAway
    /\ WorkerIsOfThisStart
    /\ OneStart
    /\ CutOffIsSpoiled
    /\ OneRendezvous
    /\ FailedStartIsClean

-----------------------------------------------------------------------------
LEMMA TwoRanks ==
    /\ Workers = {Worker} /\ HeadRank # Worker
    /\ HeadRank \in Rank /\ Worker \in Rank
    /\ \A r \in Rank : r = HeadRank \/ r = Worker
  BY StartAssumption DEF Workers

LEMMA NewContainer ==
  ASSUME NEW r \in Rank, NEW g \in 1..MaxGen
  PROVE  /\ Container(r, g) \in Containers
         /\ Container(r, g).gen = g
         /\ Container(r, g).store \in {0, g}
         /\ [Container(r, g) EXCEPT !.status = "exited"] \in Containers
         /\ [Container(r, g) EXCEPT !.status = "exited"].gen = g
         /\ [Container(r, g) EXCEPT !.status = "exited"].store \in {0, g}
  BY RankAssumption DEF Container, Containers

\* What a launch of a rank leaves in its place, and nowhere else.
LEMMA LaunchedBox ==
  ASSUME TypeOK, start # 0, NEW r \in Rank, NEW b \in Launched(r) \cup {Remove(r)}
  PROVE  /\ b \in [Rank -> Containers \cup {NoBox}]
         /\ \A s \in Rank \ {r} : b[s] = box[s]
         /\ \/ b[r] = NoBox
            \/ b[r] \in Containers /\ b[r].gen = start /\ b[r].store \in {0, start}
  <1>1. start \in 1..MaxGen /\ box \in [Rank -> Containers \cup {NoBox}]
    BY RankAssumption DEF TypeOK, RuntimeTypeOK
  <1> DEFINE up == Container(r, start)
             out == [up EXCEPT !.status = "exited"]
  <1>2. /\ up \in Containers /\ up.gen = start /\ up.store \in {0, start}
        /\ out \in Containers /\ out.gen = start /\ out.store \in {0, start}
    BY <1>1, NewContainer
  <1>3. b \in {[box EXCEPT ![r] = up], [box EXCEPT ![r] = out], [box EXCEPT ![r] = NoBox]}
    BY <1>1 DEF Launched, Run, Remove
  <1> HIDE DEF up, out
  <1> QED BY <1>1, <1>2, <1>3

-----------------------------------------------------------------------------
\* Steps that move no container, wherever they lead: what they have to respect.
LEMMA QuietStep ==
  ASSUME StartInv, TypeOK', box' = box,
         start' = start, remote' = remote, Started', CutOffIsSpoiled',
         pc' \in {"removeWorker", "launchWorker", "launchHead", "cleanWorker"} => pc' = pc,
         pc' = "idle" /\ outcome' = "failed" /\ ~spoiled' =>
            pc = "idle" /\ outcome = "failed" /\ ~spoiled
  PROVE  StartInv'
  BY DEF StartInv, HeadIsAway, WorkerIsOfThisStart, OneStart, OneRendezvous,
    FailedStartIsClean, At, Present

\* Containers on their own: gens stay, and a worker without a store joins the head
\* that is there, which is of its start.
LEMMA RuntimeKeeps ==
  ASSUME StartInv, Runtime
  PROVE  StartInv'
  <1> USE DEF StartInv
  <1>1. UNCHANGED <<pc, start, valid, rounds, outcome, remote, spoiled>>
    BY DEF Runtime, scriptVars
  <1>2. ASSUME box' \in [Rank -> Containers \cup {NoBox}],
               \A r \in Rank : /\ box'[r] = NoBox <=> box[r] = NoBox
                               /\ box'[r].gen = box[r].gen
                               /\ box'[r] = NoBox \/ box'[r].store \in {box[r].store, box'[r].gen},
               serving' \in 0..MaxGen, faults' \in 0..MaxFaults
        PROVE StartInv'
    <2>1. TypeOK'
      BY <1>1, <1>2 DEF TypeOK, RuntimeTypeOK
    <2>2. Started' /\ CutOffIsSpoiled'
      BY <1>1 DEF Started, CutOffIsSpoiled
    <2>3. \A r \in Rank : (Present(r)' <=> Present(r)) /\ box'[r].gen = box[r].gen
      BY <1>2 DEF Present
    <2>4. HeadIsAway' /\ WorkerIsOfThisStart' /\ OneStart' /\ FailedStartIsClean'
      BY <1>1, <2>3, TwoRanks
      DEF HeadIsAway, WorkerIsOfThisStart, OneStart, FailedStartIsClean, At
    <2>5. OneRendezvous'
      BY <1>2, <2>3 DEF OneRendezvous, Workers, Present
    <2> QED BY <2>1, <2>2, <2>4, <2>5
  <1>3. CASE Load
    <2>1. box[HeadRank] \in Containers
      BY <1>3, TwoRanks DEF Load, Complete, Running, Present, TypeOK, RuntimeTypeOK
    <2>2. serving' \in 0..MaxGen /\ faults' \in 0..MaxFaults /\ box' = box
      BY <1>3, <2>1, RankAssumption DEF Load, Containers, TypeOK, RuntimeTypeOK
    <2>3. box \in [Rank -> Containers \cup {NoBox}]
      BY DEF TypeOK, RuntimeTypeOK
    <2> HIDE DEF StartInv
    <2> QED BY <1>2, <2>2, <2>3
  <1>4. ASSUME NEW w \in Workers, Join(w) PROVE StartInv'
    <2>1. /\ box[w] \in Containers /\ box[HeadRank] \in Containers
          /\ w \in Rank /\ w = Worker /\ HeadRank \in Rank
          /\ box[w] # NoBox /\ box[HeadRank] # NoBox
      BY <1>4, TwoRanks DEF Join, Running, Present, HasStore, TypeOK, RuntimeTypeOK
    <2>2. box[HeadRank].gen = box[w].gen
      BY <2>1 DEF OneStart, Present
    <2>3. /\ box' = [box EXCEPT ![w].store = box[w].gen]
          /\ box'[w] \in Containers /\ box'[w].gen = box[w].gen
          /\ box'[w].store = box[w].gen /\ box'[w] # NoBox
          /\ \A r \in Rank \ {w} : box'[r] = box[r]
      BY <1>4, <2>1, <2>2 DEF Join, Containers, TypeOK, RuntimeTypeOK, NoBox
    <2>4. /\ box' \in [Rank -> Containers \cup {NoBox}]
          /\ serving' \in 0..MaxGen /\ faults' \in 0..MaxFaults
      BY <1>4, <2>1, <2>3 DEF Join, TypeOK, RuntimeTypeOK
    <2> HIDE DEF StartInv
    <2> QED BY <1>2, <2>1, <2>3, <2>4
  <1>5. ASSUME NEW r \in Rank, NEW status \in {"wedged", "exited"}, box[r] # NoBox,
               box' = [box EXCEPT ![r].status = status],
               serving' = serving, faults' \in 0..MaxFaults
        PROVE StartInv'
    <2>1. /\ box[r] \in Containers
          /\ box'[r] \in Containers /\ box'[r].gen = box[r].gen /\ box'[r].store = box[r].store
          /\ box'[r] # NoBox
          /\ \A s \in Rank \ {r} : box'[s] = box[s]
      BY <1>5 DEF Containers, TypeOK, RuntimeTypeOK, NoBox
    <2>2. box' \in [Rank -> Containers \cup {NoBox}] /\ serving' \in 0..MaxGen
      BY <1>5, <2>1 DEF TypeOK, RuntimeTypeOK
    <2> HIDE DEF StartInv
    <2> QED BY <1>2, <1>5, <2>1, <2>2
  <1>6. ASSUME NEW w \in Workers, LosesItsStore(w) PROVE StartInv'
    BY <1>5, <1>6 DEF LosesItsStore, Running, Present, Workers, TypeOK, RuntimeTypeOK
  <1>7. ASSUME NEW r \in Rank, NEW status \in {"wedged", "exited"}, Die(r, status)
        PROVE StartInv'
    <2>1. faults' \in 0..MaxFaults
      BY <1>7, RankAssumption DEF Die, TypeOK, RuntimeTypeOK
    <2> QED BY <1>5, <1>7, <2>1 DEF Die, Running, Present
  <1> QED BY <1>3, <1>4, <1>6, <1>7 DEF Runtime, Settle, Fault

-----------------------------------------------------------------------------
LEMMA InitEstablishes == Init => StartInv
  <1> SUFFICES ASSUME Init PROVE StartInv
    OBVIOUS
  <1>1. \A r \in Rank : box[r] = NoBox
    BY DEF Init, RuntimeInit
  <1>2. RuntimeTypeOK
    BY RankAssumption DEF Init, RuntimeInit, RuntimeTypeOK
  <1>3. /\ pc = "idle" /\ start \in 0..MaxGen /\ rounds \in 0..Deadline
        /\ outcome = "none" /\ remote \in 0..start
    BY RankAssumption, StartAssumption DEF Init
  <1>4. valid \in BOOLEAN /\ spoiled \in BOOLEAN
    BY DEF Init
  <1>5. TypeOK
    BY <1>2, <1>3, <1>4 DEF TypeOK
  <1>6. Started /\ HeadIsAway /\ WorkerIsOfThisStart /\ OneStart /\ CutOffIsSpoiled
    BY <1>1, <1>3, TwoRanks
    DEF Init, Started, HeadIsAway, WorkerIsOfThisStart, OneStart, CutOffIsSpoiled, Present
  <1>7. OneRendezvous /\ FailedStartIsClean
    BY <1>1, <1>3, TwoRanks DEF OneRendezvous, FailedStartIsClean, Present
  <1> QED BY <1>5, <1>6, <1>7 DEF StartInv

\* A new start finds what it finds; nothing of its own number is there.
LEMMA BeginKeeps ==
  ASSUME StartInv, Begin
  PROVE  StartInv'
  <1> USE DEF StartInv
  <1>1. /\ pc = "idle" /\ pc' = "check" /\ start' = start + 1 /\ start' \in 1..MaxGen
        /\ box' = box /\ serving' = serving /\ faults' = faults
        /\ remote' = remote /\ remote < start' /\ rounds' \in 0..Deadline /\ outcome' = "none"
    BY RankAssumption, StartAssumption DEF Begin, At, runtimeVars, TypeOK
  <1>2. valid' \in BOOLEAN /\ spoiled' \in BOOLEAN
    BY DEF Begin
  <1>3. TypeOK'
    BY <1>1, <1>2 DEF TypeOK, RuntimeTypeOK, Untrapped
  <1>4. Started' /\ HeadIsAway' /\ WorkerIsOfThisStart' /\ OneStart' /\ CutOffIsSpoiled'
    BY <1>1 DEF Started, HeadIsAway, WorkerIsOfThisStart, OneStart, CutOffIsSpoiled, Present, TypeOK
  <1>5. OneRendezvous' /\ FailedStartIsClean'
    BY <1>1 DEF OneRendezvous, FailedStartIsClean, Present, At
  <1> QED BY <1>3, <1>4, <1>5

\* Checks and polls move no container; they lead on, to the cleanup, or to an end
\* that is not a failure.
LEMMA QuietKeeps ==
  ASSUME StartInv, Check \/ Poll \/ Verify \/ BeginStop
  PROVE  StartInv'
  <1> USE DEF StartInv
  <1>1. /\ UNCHANGED <<box, serving, faults, start, valid, remote, spoiled>>
        /\ rounds' \in 0..Deadline
        /\ pc' \in {"removeHead", "verify", "cleanHead", "wait", "idle", "stopHead"}
        /\ pc' = "idle" => outcome' \in {"refused", "healthy"}
        /\ outcome' \in {outcome, "refused", "healthy"}
        /\ pc' = "stopHead" \/ pc \in {"check", "wait", "verify"}
    BY StartAssumption
    DEF Check, Poll, Verify, BeginStop, Goto, End, NextRound, At, runtimeVars, TypeOK
  <1>2. TypeOK'
    BY <1>1 DEF TypeOK, RuntimeTypeOK, Untrapped, Trapped, Cleaning
  <1>3. Started' /\ CutOffIsSpoiled'
    BY <1>1 DEF Started, CutOffIsSpoiled
  <1> QED BY <1>1, <1>2, <1>3, QuietStep

\* An interrupt spoils the start; what it cuts off is cut off while the head is away.
LEMMA InterruptKeeps ==
  ASSUME StartInv, Interrupt
  PROVE  StartInv'
  <1> USE DEF StartInv
  <1>1. /\ UNCHANGED <<box, serving, faults, start, valid, rounds>>
        /\ spoiled' = TRUE
        /\ \/ remote' = remote
           \/ remote' = start /\ pc = "launchWorker"
        /\ \/ pc' = "cleanHead" /\ outcome' = outcome /\ pc \in Trapped
           \/ pc' = "idle" /\ outcome' \in {"refused", "failed"}
    BY DEF Interrupt, At, runtimeVars
  <1>2. remote' \in 0..start
    BY <1>1 DEF TypeOK
  <1>3. TypeOK'
    BY <1>1, <1>2 DEF TypeOK, RuntimeTypeOK, Untrapped, Trapped, Cleaning
  <1>4. Started' /\ CutOffIsSpoiled' /\ FailedStartIsClean'
    BY <1>1 DEF Started, CutOffIsSpoiled, FailedStartIsClean, Trapped
  <1>5. HeadIsAway'
    BY <1>1 DEF HeadIsAway, Present
  <1>6. WorkerIsOfThisStart' /\ OneStart' /\ OneRendezvous'
    BY <1>1 DEF WorkerIsOfThisStart, OneStart, OneRendezvous, Present
  <1> QED BY <1>3, <1>4, <1>5, <1>6

-----------------------------------------------------------------------------
\* What a step that puts b in place of the containers has to respect.
LEMMA BoxStep ==
  ASSUME StartInv, NEW b \in [Rank -> Containers \cup {NoBox}], box' = b,
         UNCHANGED <<serving, faults, start, valid, rounds>>,
         pc' \in {"idle"} \cup Untrapped \cup Trapped \cup Cleaning,
         outcome' \in {outcome, "failed", "refused", "stopped"},
         remote' \in {remote, 0}, spoiled' \in {spoiled, TRUE}
  PROVE  TypeOK' /\ CutOffIsSpoiled'
  <1>1. spoiled' \in BOOLEAN /\ CutOffIsSpoiled'
    <2>1. CASE spoiled' = TRUE
      BY <2>1 DEF CutOffIsSpoiled
    <2>2. CASE spoiled' = spoiled
      BY <2>2 DEF StartInv, TypeOK, CutOffIsSpoiled
    <2> QED BY <2>1, <2>2
  <1>2. remote' \in 0..start
    BY DEF StartInv, TypeOK
  <1> QED BY <1>1, <1>2 DEF StartInv, TypeOK, RuntimeTypeOK

\* The head is removed first, whether for a start, a cleanup or a stop.
LEMMA RemoveHeadKeeps ==
  ASSUME StartInv, RemoveHead \/ CleanHead \/ StopHead
  PROVE  StartInv'
  <1> USE DEF StartInv
  <1>1. /\ box' = [box EXCEPT ![HeadRank] = NoBox]
        /\ UNCHANGED <<serving, faults, start, valid, rounds, outcome, remote, spoiled>>
        /\ \/ pc = "removeHead" /\ pc' = "removeWorker"
           \/ pc = "cleanHead" /\ pc' = "cleanWorker"
           \/ pc = "stopHead" /\ pc' = "stopWorker"
    BY DEF RemoveHead, CleanHead, StopHead, At, Goto, SetBox, WithoutHead, Remove
  <1>2. /\ box \in [Rank -> Containers \cup {NoBox}]
        /\ box' \in [Rank -> Containers \cup {NoBox}]
        /\ box'[HeadRank] = NoBox /\ box'[Worker] = box[Worker]
    BY <1>1, TwoRanks DEF TypeOK, RuntimeTypeOK
  <1>3. TypeOK' /\ CutOffIsSpoiled'
    BY <1>1, <1>2, BoxStep DEF Untrapped, Cleaning
  <1>4. Started' /\ HeadIsAway' /\ WorkerIsOfThisStart' /\ OneStart'
    BY <1>1, <1>2 DEF Started, HeadIsAway, WorkerIsOfThisStart, OneStart, Present
  <1>5. OneRendezvous' /\ FailedStartIsClean'
    BY <1>1, <1>2, TwoRanks DEF OneRendezvous, FailedStartIsClean, Present, At
  <1> QED BY <1>3, <1>4, <1>5

\* The worker is removed after it, or cannot be reached. A cleanup that reaches it
\* leaves neither container.
LEMMA RemoveWorkerKeeps ==
  ASSUME StartInv, RemoveWorker \/ CleanWorker \/ StopWorker
  PROVE  StartInv'
  <1> USE DEF StartInv
  <1>1. /\ box' = [box EXCEPT ![Worker] = NoBox] \/ box' = box
        /\ UNCHANGED <<serving, faults, start, valid, rounds, remote>>
        /\ spoiled' \in {spoiled, TRUE}
        /\ \/ pc' = "idle" /\ outcome' \in {"refused", "stopped"}
           \/ /\ pc' = "idle" /\ pc = "cleanWorker" /\ outcome' = "failed"
              /\ spoiled' = TRUE \/ box' = [box EXCEPT ![Worker] = NoBox]
           \/ /\ pc' = "launchWorker" /\ pc = "removeWorker" /\ remote = 0
              /\ box' = [box EXCEPT ![Worker] = NoBox] /\ outcome' = outcome
    BY DEF RemoveWorker, CleanWorker, StopWorker, At, Goto, End, SetBox, Remove, runtimeVars
  <1>2. /\ box \in [Rank -> Containers \cup {NoBox}]
        /\ box' \in [Rank -> Containers \cup {NoBox}]
        /\ box'[Worker] \in {NoBox, box[Worker]} /\ box'[HeadRank] = box[HeadRank]
        /\ box' = [box EXCEPT ![Worker] = NoBox] => box'[Worker] = NoBox
    BY <1>1, TwoRanks DEF TypeOK, RuntimeTypeOK
  <1>3. TypeOK' /\ CutOffIsSpoiled'
    BY <1>1, <1>2, BoxStep DEF Trapped
  <1>4. Started' /\ HeadIsAway' /\ WorkerIsOfThisStart' /\ OneStart'
    BY <1>1, <1>2 DEF Started, HeadIsAway, WorkerIsOfThisStart, OneStart, Present
  <1>5. OneRendezvous'
    BY <1>2, TwoRanks DEF OneRendezvous, Present
  <1>6. FailedStartIsClean'
    <2> SUFFICES ASSUME pc' = "idle", outcome' = "failed", ~spoiled', NEW r \in Rank
                 PROVE  box'[r].gen # start'
      BY DEF FailedStartIsClean, At
    <2>1. pc = "cleanWorker" /\ box' = [box EXCEPT ![Worker] = NoBox]
      BY <1>1
    <2>2. box'[Worker] = NoBox /\ box'[HeadRank] = NoBox /\ start' # 0
      BY <1>1, <1>2, <2>1 DEF HeadIsAway, Started, Present
    <2> QED BY <2>2, TwoRanks DEF NoBox
  <1> QED BY <1>3, <1>4, <1>5, <1>6

\* The worker is launched where neither container is.
LEMMA LaunchWorkerKeeps ==
  ASSUME StartInv, LaunchWorker
  PROVE  StartInv'
  <1> USE DEF StartInv
  <1>1. /\ box' \in Launched(Worker) \cup {Remove(Worker), box}
        /\ UNCHANGED <<serving, faults, start, valid, rounds, outcome, remote, spoiled>>
        /\ pc = "launchWorker" /\ pc' \in {"launchHead", "cleanHead"}
    BY DEF LaunchWorker, LaunchFails, At, Goto, SetBox
  <1>2. start # 0 /\ remote = 0 /\ ~Present(HeadRank)
    BY <1>1 DEF Started, WorkerIsOfThisStart, HeadIsAway
  <1>3. box' = box \/ box' \in Launched(Worker) \cup {Remove(Worker)}
    BY <1>1
  <1>4. /\ box' \in [Rank -> Containers \cup {NoBox}]
        /\ box'[HeadRank] = NoBox
        /\ \/ box'[Worker] = NoBox
           \/ box'[Worker].gen = start /\ box'[Worker].store \in {0, start}
    <2>1. CASE box' = box
      BY <1>1, <1>2, <2>1, TwoRanks DEF WorkerIsOfThisStart, Present, TypeOK, RuntimeTypeOK
    <2>2. CASE box' \in Launched(Worker) \cup {Remove(Worker)}
      BY <1>2, <2>2, TwoRanks, LaunchedBox DEF Present
    <2> QED BY <1>3, <2>1, <2>2
  <1>5. TypeOK' /\ CutOffIsSpoiled'
    BY <1>1, <1>4, BoxStep DEF Trapped, Cleaning
  <1>6. Started' /\ HeadIsAway' /\ WorkerIsOfThisStart' /\ OneStart'
    BY <1>1, <1>2, <1>4 DEF Started, HeadIsAway, WorkerIsOfThisStart, OneStart, Present
  <1>7. OneRendezvous' /\ FailedStartIsClean'
    BY <1>1, <1>4, TwoRanks DEF OneRendezvous, FailedStartIsClean, Present, At
  <1> QED BY <1>5, <1>6, <1>7

\* The head comes to a worker of its own start, or to none.
LEMMA LaunchHeadKeeps ==
  ASSUME StartInv, LaunchHead
  PROVE  StartInv'
  <1> USE DEF StartInv
  <1>1. /\ box' \in Launched(HeadRank) \cup {Remove(HeadRank)}
        /\ UNCHANGED <<serving, faults, start, valid, rounds, outcome, remote, spoiled>>
        /\ pc = "launchHead" /\ pc' \in {"wait", "cleanHead"}
    BY DEF LaunchHead, LaunchFails, At, Goto, SetBox
  <1>2. start # 0 /\ remote = 0 /\ (~Present(Worker) \/ box[Worker].gen = start)
    BY <1>1 DEF Started, WorkerIsOfThisStart
  <1>3. /\ box' \in [Rank -> Containers \cup {NoBox}]
        /\ box'[Worker] = box[Worker]
        /\ box'[HeadRank] = NoBox \/ box'[HeadRank].gen = start
    BY <1>1, <1>2, TwoRanks, LaunchedBox
  <1>4. TypeOK' /\ CutOffIsSpoiled'
    BY <1>1, <1>3, BoxStep DEF Trapped, Cleaning
  <1>5. Started' /\ HeadIsAway' /\ WorkerIsOfThisStart' /\ OneStart'
    BY <1>1, <1>2, <1>3 DEF Started, HeadIsAway, WorkerIsOfThisStart, OneStart, Present
  <1>6. OneRendezvous' /\ FailedStartIsClean'
    BY <1>1, <1>3, TwoRanks DEF OneRendezvous, FailedStartIsClean, Present, At
  <1> QED BY <1>4, <1>5, <1>6

\* The launch that was cut off ends while the head is away.
LEMMA RemoteLaunchKeeps ==
  ASSUME StartInv, RemoteLaunch
  PROVE  StartInv'
  <1> USE DEF StartInv
  <1>1. /\ box' = [box EXCEPT ![Worker] = Container(Worker, remote)]
        /\ UNCHANGED <<serving, faults, start, valid, rounds, outcome, pc, spoiled>>
        /\ remote # 0 /\ remote' = 0 /\ remote \in 1..MaxGen
    BY RankAssumption DEF RemoteLaunch, SetBox, Run, TypeOK
  <1>2. box[HeadRank] = NoBox /\ pc \notin {"launchWorker", "launchHead"}
    BY <1>1 DEF HeadIsAway, WorkerIsOfThisStart, Present
  <1>3. /\ box' \in [Rank -> Containers \cup {NoBox}]
        /\ box'[HeadRank] = NoBox
        /\ box'[Worker].gen = remote /\ box'[Worker].store \in {0, remote}
    BY <1>1, <1>2, TwoRanks, NewContainer DEF TypeOK, RuntimeTypeOK
  <1>4. TypeOK' /\ CutOffIsSpoiled'
    BY <1>1, <1>3, BoxStep DEF TypeOK
  <1>5. Started' /\ HeadIsAway' /\ WorkerIsOfThisStart' /\ OneStart'
    BY <1>1, <1>2, <1>3 DEF Started, HeadIsAway, WorkerIsOfThisStart, OneStart, Present
  <1>6. OneRendezvous'
    BY <1>3, TwoRanks DEF OneRendezvous
  <1>7. FailedStartIsClean'
    <2> SUFFICES ASSUME pc = "idle", outcome = "failed", ~spoiled, NEW r \in Rank
                 PROVE  box'[r].gen # start
      BY <1>1 DEF FailedStartIsClean, At
    <2>1. remote # start /\ start # 0
      BY <1>1 DEF CutOffIsSpoiled, TypeOK
    <2> QED BY <1>3, <2>1, TwoRanks DEF NoBox
  <1> QED BY <1>4, <1>5, <1>6, <1>7

-----------------------------------------------------------------------------
\* The inductive invariant, with the types of the model.
THEOREM StartInvariant == Spec => []StartInv
  <1>1. Init => StartInv
    BY InitEstablishes
  <1>2. StartInv /\ [Next]_vars => StartInv'
    <2> SUFFICES ASSUME StartInv, [Next]_vars PROVE StartInv'
      OBVIOUS
    <2>1. CASE Script
      BY <2>1, QuietKeeps, RemoveHeadKeeps, RemoveWorkerKeeps, LaunchWorkerKeeps,
        LaunchHeadKeeps DEF Script
    <2>2. CASE Operator
      BY <2>2, BeginKeeps, QuietKeeps, InterruptKeeps DEF Operator
    <2>3. CASE RemoteLaunch
      BY <2>3, RemoteLaunchKeeps
    <2>4. CASE Runtime
      BY <2>4, RuntimeKeeps
    <2>5. CASE UNCHANGED vars
      <3>1. UNCHANGED <<box, serving, faults, pc, start, valid, rounds, outcome, remote, spoiled>>
        BY <2>5 DEF vars, runtimeVars, scriptVars
      <3>2. TypeOK' /\ Started' /\ CutOffIsSpoiled'
        BY <3>1 DEF StartInv, TypeOK, RuntimeTypeOK, Started, CutOffIsSpoiled
      <3> QED BY <3>1, <3>2, QuietStep
    <2> QED BY <2>1, <2>2, <2>3, <2>4, <2>5 DEF Next
  <1> QED BY <1>1, <1>2, PTL DEF Spec

\* Whatever earlier starts, deaths, ssh failures and interrupts left behind, a rank
\* only ever joins the rendezvous of its own start (start-cluster.sh, 289-313).
THEOREM OneRendezvousHolds == Spec => []OneRendezvous
  <1>1. StartInv => OneRendezvous
    BY DEF StartInv
  <1> QED BY <1>1, StartInvariant, PTL

\* A start that failed, by itself and with the worker host in reach, has left no
\* container of its own (the trap, 94-101 and 295).
THEOREM FailedStartIsCleanHolds == Spec => []FailedStartIsClean
  <1>1. StartInv => FailedStartIsClean
    BY DEF StartInv
  <1> QED BY <1>1, StartInvariant, PTL
=============================================================================
