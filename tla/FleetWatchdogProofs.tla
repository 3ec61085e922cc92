------------------------- MODULE FleetWatchdogProofs -------------------------
(***************************************************************************)
(* The watchdog never starts a worker beside a head that it could wrongly  *)
(* join, for any number of ranks in any order that ends with the head, any *)
(* threshold, and any number of faults and recoveries.                     *)
(***************************************************************************)
EXTENDS FleetWatchdog, TLAPS

(***************************************************************************)
(* A worker joins whatever store it finds, so NoStaleRendezvous needs that *)
(* no head is older than a worker beside it. Teardown can leave workers of *)
(* any age behind; what keeps the order is that it never leaves the head,  *)
(* and that the launches, which go up, reach the head last.                *)
(***************************************************************************)
HeadIsNewest ==
    Present(HeadRank) =>
        \A w \in Workers : Present(w) => box[w].gen <= box[HeadRank].gen

NobodyIsAhead == \A r \in Rank : Present(r) => box[r].gen <= launches

NoOldHeadAtLaunch ==
    pc = "launch" => ~Present(HeadRank) \/ box[HeadRank].gen = launches

ProbingBelowThreshold == pc = "probe" => fails < Threshold

WatchdogInv ==
    /\ TypeOK
    /\ launches # 0
    /\ ProbingBelowThreshold
    /\ NobodyIsAhead
    /\ NoOldHeadAtLaunch
    /\ HeadIsNewest
    /\ NoStaleRendezvous

-----------------------------------------------------------------------------
LEMMA OrderFacts ==
    /\ Len(Order) \in Nat \ {0}
    /\ \A i \in 1..Len(Order) : Order[i] \in Rank
  <1>1. Len(Order) \in Nat
    BY WatchdogAssumption
  <1>2. Len(Order) # 0
    BY <1>1, WatchdogAssumption, RankAssumption
  <1> QED BY <1>1, <1>2, WatchdogAssumption

\* Where the watchdog goes on to is a rank of Order again, in this phase or the next.
LEMMA AdvanceType ==
  ASSUME NEW phase \in {"launch", "wait"}, at \in 1..Len(Order), Advance(phase)
  PROVE  /\ at' \in 1..Len(Order)
         /\ (pc' = pc /\ at < Len(Order)) \/ (pc' = phase /\ at = Len(Order))
  BY OrderFacts DEF Advance

\* A new container is as new as the last launch, and its store is its own or none.
LEMMA NewContainer ==
  ASSUME NEW r \in Rank, NEW g \in 1..MaxGen
  PROVE  /\ Container(r, g) \in Containers
         /\ Container(r, g).gen = g
         /\ Container(r, g).store \in {0, g}
         /\ [Container(r, g) EXCEPT !.status = "exited"] \in Containers
         /\ [Container(r, g) EXCEPT !.status = "exited"].gen = g
         /\ [Container(r, g) EXCEPT !.status = "exited"].store \in {0, g}
  BY RankAssumption DEF Container, Containers

-----------------------------------------------------------------------------
LEMMA InitEstablishes == Init => WatchdogInv
  <1> SUFFICES ASSUME Init PROVE WatchdogInv
    OBVIOUS
  <1>1. \A r \in Rank : Container(r, 1) \in Containers /\ Container(r, 1).gen = 1
                        /\ Container(r, 1).store \in {0, 1}
    <2>1. 1 \in 1..MaxGen
      BY RankAssumption
    <2> QED BY <2>1, NewContainer
  <1>2. box \in [Rank -> Containers \cup {NoBox}]
    BY <1>1 DEF Init
  <1>3. /\ serving \in 0..MaxGen /\ faults \in 0..MaxFaults /\ launches \in 0..MaxGen
        /\ at \in 1..Len(Order) /\ fails \in 0..Threshold /\ fails < Threshold
        /\ pc = "probe" /\ launches # 0
    BY OrderFacts, RankAssumption, WatchdogAssumption DEF Init
  <1>4. TypeOK /\ launches # 0 /\ ProbingBelowThreshold
    BY <1>2, <1>3 DEF TypeOK, RuntimeTypeOK, ProbingBelowThreshold
  <1>5. NobodyIsAhead /\ NoOldHeadAtLaunch /\ HeadIsNewest /\ NoStaleRendezvous
    BY <1>1, RankAssumption
    DEF Init, NobodyIsAhead, NoOldHeadAtLaunch, HeadIsNewest, NoStaleRendezvous, Present, Workers
  <1> QED BY <1>4, <1>5 DEF WatchdogInv

\* Containers only change status, and a worker without a store joins the head's,
\* which is not older.
LEMMA RuntimeKeeps ==
  ASSUME WatchdogInv, Runtime
  PROVE  WatchdogInv'
  <1> USE DEF WatchdogInv, TypeOK, RuntimeTypeOK
  <1>1. CASE Load /\ UNCHANGED watchdogVars
    <2>1. box[HeadRank] \in Containers
      BY <1>1, RankAssumption DEF Load, Complete, Running, Present
    <2> QED
      BY <1>1, <2>1 DEF Load, watchdogVars, Containers, NobodyIsAhead, NoOldHeadAtLaunch,
        HeadIsNewest, NoStaleRendezvous, ProbingBelowThreshold, Present
  <1>2. ASSUME NEW w \in Workers, Join(w), UNCHANGED watchdogVars PROVE WatchdogInv'
    <2>1. /\ box[w] \in Containers /\ box[HeadRank] \in Containers
          /\ w \in Rank /\ w # HeadRank /\ HeadRank \in Rank
      BY <1>2, RankAssumption DEF Join, Running, Present, HasStore, Workers
    <2>2. /\ box' = [box EXCEPT ![w].store = box[HeadRank].gen]
          /\ box'[w] \in Containers /\ box'[w].gen = box[w].gen
          /\ box'[w].store = box[HeadRank].gen
          /\ box[w].gen <= box[HeadRank].gen
          /\ \A r \in Rank \ {w} : box'[r] = box[r]
      BY <1>2, <2>1 DEF Join, Containers, HeadIsNewest, HasStore, Running
    <2>3. TypeOK' /\ launches' # 0 /\ ProbingBelowThreshold'
      BY <1>2, <2>1, <2>2 DEF Join, watchdogVars, ProbingBelowThreshold
    <2>4. \A r \in Rank : /\ Present(r)' => Present(r)
                          /\ Present(r) => box'[r].gen = box[r].gen
      BY <1>2, <2>2 DEF Present, Join, Running
    <2>5. NobodyIsAhead' /\ NoOldHeadAtLaunch' /\ HeadIsNewest'
      BY <1>2, <2>1, <2>2, <2>4
      DEF watchdogVars, NobodyIsAhead, NoOldHeadAtLaunch, HeadIsNewest, Workers
    <2>6. NoStaleRendezvous'
      BY <2>1, <2>2, <2>4 DEF NoStaleRendezvous, Workers
    <2> QED BY <2>3, <2>5, <2>6
  <1>3. ASSUME NEW r \in Rank, NEW status \in {"wedged", "exited"}, box[r] # NoBox,
               box' = [box EXCEPT ![r].status = status],
               UNCHANGED <<serving, watchdogVars>>, faults' \in 0..MaxFaults
        PROVE WatchdogInv'
    <2>1. /\ box[r] \in Containers
          /\ box'[r] \in Containers /\ box'[r].gen = box[r].gen /\ box'[r].store = box[r].store
          /\ \A s \in Rank \ {r} : box'[s] = box[s]
      BY <1>3 DEF Containers
    <2>2. TypeOK' /\ launches' # 0 /\ ProbingBelowThreshold'
      BY <1>3, <2>1 DEF watchdogVars, ProbingBelowThreshold
    <2>3. \A s \in Rank : /\ Present(s)' => Present(s)
                          /\ Present(s) => box'[s].gen = box[s].gen /\ box'[s].store = box[s].store
      BY <1>3, <2>1 DEF Present
    <2>4. NobodyIsAhead' /\ NoOldHeadAtLaunch' /\ HeadIsNewest' /\ NoStaleRendezvous'
      BY <1>3, <2>3, RankAssumption
      DEF watchdogVars, NobodyIsAhead, NoOldHeadAtLaunch, HeadIsNewest, NoStaleRendezvous, Workers
    <2> QED BY <2>2, <2>4
  <1>4. ASSUME NEW w \in Workers, LosesItsStore(w), UNCHANGED watchdogVars PROVE WatchdogInv'
    BY <1>3, <1>4 DEF LosesItsStore, Running, Present, Workers
  <1>5. ASSUME NEW r \in Rank, NEW status \in {"wedged", "exited"}, Die(r, status),
               UNCHANGED watchdogVars
        PROVE WatchdogInv'
    <2>1. faults' \in 0..MaxFaults
      BY <1>5, RankAssumption DEF Die
    <2> QED BY <1>3, <1>5, <2>1 DEF Die, Running, Present
  <1> QED BY <1>1, <1>2, <1>4, <1>5 DEF Runtime, Settle, Fault

-----------------------------------------------------------------------------
\* Probing moves no container; it may open a recovery, with a number of its own.
LEMMA ProbingKeeps ==
  ASSUME WatchdogInv, ProbeSucceeds \/ ProbeFails \/ Recovered \/ GiveUp
  PROVE  WatchdogInv'
  <1> USE DEF WatchdogInv
  <1>1. /\ box' = box /\ launches' \in {launches, launches + 1} /\ launches' \in 0..MaxGen
        /\ pc' \in {"probe", "teardown"} /\ at' = at /\ serving' = serving
    BY RankAssumption
    DEF ProbeSucceeds, ProbeFails, Recovered, GiveUp, runtimeVars, TypeOK
  <1>2. faults' \in 0..MaxFaults
    BY RankAssumption
    DEF ProbeSucceeds, ProbeFails, Recovered, GiveUp, runtimeVars, SpendsFault, TypeOK, RuntimeTypeOK
  <1>3. fails' \in 0..Threshold /\ ProbingBelowThreshold'
    <2>1. Threshold \in Nat \ {0} /\ fails \in 0..Threshold
      BY WatchdogAssumption DEF TypeOK
    <2>2. CASE ProbeSucceeds \/ Recovered \/ GiveUp
      BY <2>1, <2>2 DEF ProbeSucceeds, Recovered, GiveUp, ProbingBelowThreshold
    <2>3. CASE ProbeFails
      BY <2>1, <2>3 DEF ProbeFails, ProbingBelowThreshold
    <2> QED BY <2>2, <2>3
  <1>4. TypeOK' /\ launches' # 0
    BY <1>1, <1>2, <1>3 DEF TypeOK, RuntimeTypeOK
  <1>5. NobodyIsAhead'
    <2> SUFFICES ASSUME NEW r \in Rank, Present(r)' PROVE box'[r].gen <= launches'
      BY DEF NobodyIsAhead
    <2>1. Present(r) /\ box[r] \in Containers /\ box[r].gen <= launches
      BY <1>1 DEF Present, NobodyIsAhead, TypeOK, RuntimeTypeOK
    <2>2. box[r].gen \in Nat /\ launches \in Nat
      BY <2>1 DEF Containers, TypeOK
    <2> QED BY <1>1, <2>1, <2>2
  <1>6. NoOldHeadAtLaunch' /\ HeadIsNewest' /\ NoStaleRendezvous'
    BY <1>1 DEF NoOldHeadAtLaunch, HeadIsNewest, NoStaleRendezvous, Present
  <1> QED BY <1>3, <1>4, <1>5, <1>6

\* A teardown that ends has removed the head, whatever else it left.
LEMMA TearDownKeeps ==
  ASSUME WatchdogInv, TearDown
  PROVE  WatchdogInv'
  <1> USE DEF WatchdogInv
  <1>1. /\ at' \in 1..Len(Order)
        /\ (pc' = pc /\ at < Len(Order)) \/ (pc' = "launch" /\ at = Len(Order))
        /\ pc = "teardown" /\ Order[at] \in Rank
        /\ serving' = serving /\ fails' = fails /\ launches' = launches
    BY AdvanceType, OrderFacts DEF TearDown, TypeOK
  <1>2. \A r \in Rank : box'[r] \in {box[r], NoBox}
    BY DEF TearDown, Remove, TypeOK, RuntimeTypeOK
  <1>3. box' \in [Rank -> Containers \cup {NoBox}] /\ faults' \in 0..MaxFaults
    BY <1>1, RankAssumption DEF TearDown, Remove, SpendsFault, TypeOK, RuntimeTypeOK
  <1>4. TypeOK' /\ launches' # 0 /\ ProbingBelowThreshold'
    BY <1>1, <1>3 DEF TypeOK, RuntimeTypeOK, ProbingBelowThreshold
  <1>5. at = Len(Order) => ~Present(HeadRank)'
    BY <1>1, WatchdogAssumption, RankAssumption
    DEF TearDown, Remove, Present, TypeOK, RuntimeTypeOK
  <1>6. NobodyIsAhead' /\ HeadIsNewest' /\ NoStaleRendezvous' /\ NoOldHeadAtLaunch'
    BY <1>1, <1>2, <1>5, RankAssumption
    DEF NobodyIsAhead, HeadIsNewest, NoStaleRendezvous, NoOldHeadAtLaunch, Present, Workers
  <1> QED BY <1>4, <1>6

\* A launch puts a container of the last launch in place of one rank's, or does
\* nothing, or has only removed it.
LEMMA LaunchKeeps ==
  ASSUME WatchdogInv, Launch
  PROVE  WatchdogInv'
  <1> USE DEF WatchdogInv
  <1> DEFINE r == Order[at]
  <1>1. /\ at' \in 1..Len(Order) /\ pc' \in {"launch", "wait"}
        /\ pc = "launch" /\ r \in Rank
        /\ serving' = serving /\ fails' = fails /\ launches' = launches
        /\ launches \in 1..MaxGen
    BY AdvanceType, OrderFacts, RankAssumption DEF Launch, TypeOK
  <1>2. /\ \A s \in Rank \ {r} : box'[s] = box[s]
        /\ box'[r] \in {box[r], NoBox, Container(r, launches),
                        [Container(r, launches) EXCEPT !.status = "exited"]}
        /\ DOMAIN box' = Rank /\ box' = [s \in Rank |-> box'[s]]
    BY <1>1 DEF Launch, FailedLaunch, Run, Remove, TypeOK, RuntimeTypeOK
  <1>3. \/ box'[r] \in {box[r], NoBox}
        \/ box'[r] \in Containers /\ box'[r].gen = launches /\ box'[r].store \in {0, launches}
    <2> DEFINE up == Container(r, launches)
               out == [up EXCEPT !.status = "exited"]
    <2>1. /\ up \in Containers /\ up.gen = launches /\ up.store \in {0, launches}
          /\ out \in Containers /\ out.gen = launches /\ out.store \in {0, launches}
      BY <1>1, NewContainer
    <2>2. box'[r] \in {box[r], NoBox, up, out}
      BY <1>2
    <2> HIDE DEF r, up, out
    <2> QED BY <2>1, <2>2
  <1> HIDE DEF r
  <1>4. box' \in [Rank -> Containers \cup {NoBox}] /\ faults' \in 0..MaxFaults
    <2>1. faults' \in 0..MaxFaults
      BY RankAssumption DEF Launch, SpendsFault, TypeOK, RuntimeTypeOK
    <2> QED BY <1>1, <1>2, <1>3, <2>1 DEF TypeOK, RuntimeTypeOK
  <1>5. TypeOK' /\ launches' # 0 /\ ProbingBelowThreshold'
    BY <1>1, <1>4 DEF TypeOK, RuntimeTypeOK, ProbingBelowThreshold
  <1>6. NobodyIsAhead'
    BY <1>1, <1>2, <1>3 DEF NobodyIsAhead, Present
  <1>7. NoOldHeadAtLaunch'
    BY <1>1, <1>2, <1>3, RankAssumption DEF NoOldHeadAtLaunch, Present
  <1>8. HeadIsNewest'
    BY <1>1, <1>2, <1>3, <1>6, <1>7, RankAssumption
    DEF HeadIsNewest, NobodyIsAhead, NoOldHeadAtLaunch, Present, Workers
  <1>9. NoStaleRendezvous'
    BY <1>1, <1>2, <1>3 DEF NoStaleRendezvous, Present, Workers
  <1> QED BY <1>5, <1>6, <1>7, <1>8, <1>9

-----------------------------------------------------------------------------
\* The inductive invariant, with the types of the model.
THEOREM WatchdogInvariant == Spec => []WatchdogInv
  <1>1. Init => WatchdogInv
    BY InitEstablishes
  <1>2. WatchdogInv /\ [Next]_vars => WatchdogInv'
    <2> SUFFICES ASSUME WatchdogInv, [Next]_vars PROVE WatchdogInv'
      OBVIOUS
    <2>1. CASE Watchdog
      BY <2>1, ProbingKeeps, TearDownKeeps, LaunchKeeps DEF Watchdog
    <2>2. CASE Runtime
      BY <2>2, RuntimeKeeps
    <2>3. CASE UNCHANGED vars
      BY <2>3 DEF vars, runtimeVars, watchdogVars, WatchdogInv, TypeOK, RuntimeTypeOK,
        ProbingBelowThreshold, NobodyIsAhead, NoOldHeadAtLaunch, HeadIsNewest,
        NoStaleRendezvous, Present
    <2> QED BY <2>1, <2>2, <2>3 DEF Next
  <1> QED BY <1>1, <1>2, PTL DEF Spec

\* Whatever commands, launches and probes fail and whatever dies, and however often
\* the fleet is recovered: no worker is in the rendezvous of a head that was there
\* before it (fleet_watchdog.sh, 62-69 and 80-87).
THEOREM NoStaleRendezvousHolds == Spec => []NoStaleRendezvous
  <1>1. WatchdogInv => NoStaleRendezvous
    BY DEF WatchdogInv
  <1> QED BY <1>1, WatchdogInvariant, PTL
=============================================================================
