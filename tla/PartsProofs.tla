-------------------------- MODULE PartsProofs --------------------------
(***************************************************************************)
(* What the offline tools and the draft side promise, for any checkpoint,  *)
(* corpus, batch, and number of runs that are killed.                      *)
(*                                                                         *)
(* The builder: a shard is never on disk before the rows of its plan are   *)
(* in the report (OutInv), so that rows which agree about a matrix speak   *)
(* for all shards that hold more of it than its divisor.  The repair of    *)
(* shared scales: whatever is linked or restored is the current            *)
(* checkpoint's outside W1/W3 (CloneInv), and nothing is missing once a    *)
(* clone has run to its end (LinkInv).  The passthrough repair: the index  *)
(* is written when all else is (RunInv).  Capture: the flush request finds *)
(* the epoch in every control file (ControlInv), and what is due is still  *)
(* held or displaced, and filed where the epoch has been (DueInv).  The    *)
(* speculator: only candidates of a slot's last draft have a score         *)
(* (ErasedInv).  Rounding: counting the thresholds a value exceeds finds   *)
(* the nearest magnitude (MagnitudeIsNearest), and whatever scale a gate   *)
(* has accepted, or 1 in its place, is still accepted when it is served    *)
(* (GatesInv).  The layout: what the functions of start-up hand on pins    *)
(* down pool and tensors (LayoutInv), all of them count the same bytes     *)
(* (BytesOfPool, CostOfBlock), and each layer has one home (OneHome).      *)
(* Attention: the best of the ranks' bests are the best of all pools       *)
(* (TopOfTops), whatever range of a workspace a rank scored them in.       *)
(* The indexer: what a request carries from step to step is its tokens     *)
(* since the last whole pool and the pools before (KpInv), which a step    *)
(* keeps that rejects at most one draft.                                   *)
(***************************************************************************)
EXTENDS Parts, NaturalsLemmas, FiniteSetTheorems, SequenceTheorems, TLAPS

BuildSpec == BuildInit /\ [][BuildNext]_buildVars

\* A shard as a run under settings u writes it, and as it is before any run.
Written(s, u) ==
    [t \in Tensors(s) |-> IF t \in Replaced(s, u) THEN Result(t[1], t[2], u) ELSE "base"]
Untouched(s) == IF cloned THEN Base(s) ELSE Missing

\* Every matrix of which a run under u replaces a tensor in s has its row.
Reported(n, s, u) == \A m \in Entries(s, u) : Row(m, s, u) \in report[n]

OutInv == \A n \in Node, s \in Shard :
    \/ out[n][s] = Untouched(s)
    \/ \E u \in Settings : out[n][s] = Written(s, u) /\ Reported(n, s, u)

NextJob(n) == [pc : {"next"}, todo : SUBSET Share[n], settings : Settings]
ComputeJob(n) == [pc : {"compute"}, todo : SUBSET Share[n], shard : Share[n],
                  settings : Settings, left : SUBSET Matrix]
SaveJob(n) == [pc : {"save"}, todo : SUBSET Share[n], shard : Share[n], settings : Settings]

JobShape(n) == job[n] = NoJob \/ job[n] \in NextJob(n) \/ job[n] \in ComputeJob(n)
                  \/ job[n] \in SaveJob(n)

JobInv == \A n \in Node :
    /\ JobShape(n)
    /\ job[n].pc = "compute" =>
          \A m \in Entries(job[n].shard, job[n].settings) \ job[n].left :
              Row(m, job[n].shard, job[n].settings) \in report[n]

RowInv == \A n \in Node : \A r \in report[n] : r.packed = (Home[<<r.matrix, "packed">>] = r.shard)

SampleInv ==
    \/ replacements = NoReplacements
    \/ \E ms \in SUBSET Matrix, u \in Settings : replacements = Samples(ms, u)

BuildDomains ==
    /\ DOMAIN out = Node /\ \A n \in Node : DOMAIN out[n] = Shard
    /\ out = [n \in Node |-> out[n]] /\ \A n \in Node : out[n] = [s \in Shard |-> out[n][s]]
    /\ job = [n \in Node |-> job[n]]

BuildInv ==
    /\ BuildTypeOK /\ BuildDomains
    /\ OutInv /\ JobInv /\ RowInv /\ SampleInv
    /\ VerifiedBuildIsWhole

\* A replaced shard has the names of its base and values a search or the base yields.
LEMMA WrittenContents ==
  ASSUME NEW s \in Shard, NEW u \in Settings
  PROVE  Written(s, u) \in Contents(s)
  BY DEF Written, Contents, Result

\* What a shard holds before any run is of its names, too.
LEMMA UntouchedContents == \A s \in Shard : Untouched(s) \in Contents(s)
  BY DEF Untouched, Base, Contents

\* The output of every node is typed.
LEMMA OutTyped == OutInv => \A n \in Node, s \in Shard : out[n][s] \in Contents(s)
  BY WrittenContents, UntouchedContents DEF OutInv

\* A node has shards of the checkpoint to build.
LEMMA ShareIsShards == \A n \in Node : Share[n] \subseteq Shard
  BY BuildAssumption

\* The builders start on an empty output or on a clone of the base.
LEMMA BuildInitInv == BuildInit => BuildInv
  <1> SUFFICES ASSUME BuildInit PROVE BuildInv
    OBVIOUS
  <1>1. BuildDomains
    BY DEF BuildInit, BuildDomains
  <1>2. OutInv
    BY DEF BuildInit, OutInv, Untouched
  <1>3. JobInv
    BY DEF BuildInit, JobInv, JobShape, NoJob
  <1>4. RowInv /\ SampleInv /\ VerifiedBuildIsWhole
    BY DEF BuildInit, RowInv, SampleInv, VerifiedBuildIsWhole
  <1>5. BuildTypeOK
    <2>1. \A s \in Shard : assembled[s] \in Contents(s)
      BY DEF BuildInit, Contents
    <2>2. DOMAIN replacements \subseteq Matrix \X Part /\ \A t \in DOMAIN replacements : replacements[t] \in Settings
      BY DEF BuildInit, NoReplacements
    <2>3. kills \in 0..MaxKills
      BY BuildAssumption DEF BuildInit
    <2>4. cloned \in BOOLEAN /\ verified \in BOOLEAN
      BY Zenon DEF BuildInit
    <2>5. /\ report \in [Node -> SUBSET Rows] /\ completed \in [Node -> SUBSET Shard]
          /\ format \in [Node -> {"block-fp8"} \cup {Format[u] : u \in Settings}]
          /\ \A n \in Node : completed[n] \subseteq Share[n]
      BY DEF BuildInit
    <2> QED BY <1>2, <2>1, <2>2, <2>3, <2>4, <2>5, OutTyped DEF BuildTypeOK
  <1> QED BY <1>1, <1>2, <1>3, <1>4, <1>5 DEF BuildInv

\* A job at a step has the record of that step.
LEMMA JobAt ==
  ASSUME JobInv, NEW n \in Node
  PROVE  /\ job[n].pc = "next" => job[n] \in NextJob(n)
         /\ job[n].pc = "compute" => job[n] \in ComputeJob(n)
         /\ job[n].pc = "save" => job[n] \in SaveJob(n)
  <1>1. JobShape(n)
    BY Zenon DEF JobInv
  <1> QED BY <1>1 DEF JobShape, NoJob, NextJob, ComputeJob, SaveJob

\* A step of one node leaves the other nodes theirs.
LEMMA SameDomains ==
  ASSUME BuildDomains, NEW n, NEW j, job' = [job EXCEPT ![n] = j], out' = out
  PROVE  BuildDomains'
  <1>1. job' = [i \in Node |-> job'[i]]
    BY DEF BuildDomains
  <1> QED BY <1>1 DEF BuildDomains

\* What a step that writes no tensor and no row leaves true.
LEMMA JobStep ==
  ASSUME BuildInv, ~verified, NEW n \in Node, NEW j, job' = [job EXCEPT ![n] = j],
         \/ j = NoJob
         \/ j \in NextJob(n)
         \/ /\ j \in ComputeJob(n)
            /\ \A m \in Entries(j.shard, j.settings) \ j.left :
                  Row(m, j.shard, j.settings) \in report[n],
         UNCHANGED <<cloned, replacements, out, report, assembled, verified>>,
         format' \in [Node -> {"block-fp8"} \cup {Format[u] : u \in Settings}],
         completed' = completed, kills' \in 0..MaxKills
  PROVE  BuildInv'
  <1>1. BuildTypeOK'
    BY DEF BuildInv, BuildTypeOK
  <1>2. BuildDomains'
    BY DEF BuildInv, BuildDomains
  <1>3. OutInv' /\ RowInv' /\ SampleInv'
    <2>1. OutInv'
      BY DEF BuildInv, OutInv, Untouched, Reported
    <2>2. RowInv' /\ SampleInv'
      BY DEF BuildInv, RowInv, SampleInv
    <2> QED BY <2>1, <2>2
  <1>4. JobInv'
    <2>1. \A i \in Node : job'[i] = IF i = n THEN j ELSE job[i]
      BY DEF BuildInv, BuildDomains
    <2> SUFFICES ASSUME NEW i \in Node
                 PROVE  /\ JobShape(i)'
                        /\ job'[i].pc = "compute" =>
                              \A m \in Entries(job'[i].shard, job'[i].settings) \ job'[i].left :
                                  Row(m, job'[i].shard, job'[i].settings) \in report[i]
      BY Zenon DEF JobInv
    <2>2. CASE i # n
      BY <2>1, <2>2, Zenon DEF BuildInv, JobInv, JobShape
    <2>3. CASE i = n
      <3>1. job'[i] = j
        BY <2>1, <2>3
      <3>2. JobShape(i)'
        BY <2>3, <3>1 DEF JobShape
      <3>3. ASSUME j.pc = "compute"
            PROVE  \A m \in Entries(j.shard, j.settings) \ j.left : Row(m, j.shard, j.settings) \in report[n]
        BY <3>3 DEF NoJob, NextJob
      <3> QED BY <2>3, <3>1, <3>2, <3>3
    <2> QED BY <2>2, <2>3
  <1>5. VerifiedBuildIsWhole'
    BY DEF VerifiedBuildIsWhole
  <1> QED BY <1>1, <1>2, <1>3, <1>4, <1>5 DEF BuildInv

\* A run starts with the shards it was asked for.
LEMMA StartBuildInv ==
  ASSUME BuildInv, ~verified, NEW n \in Node, NEW targets \in SUBSET Share[n], NEW u \in Settings,
         StartBuild(n, targets, u)
  PROVE  BuildInv'
  <1>1. [pc |-> "next", todo |-> targets, settings |-> u] \in NextJob(n)
    BY DEF NextJob
  <1>2. format' \in [Node -> {"block-fp8"} \cup {Format[v] : v \in Settings}]
    BY DEF StartBuild, BuildInv, BuildTypeOK
  <1> QED BY <1>1, <1>2, JobStep DEF StartBuild, BuildInv, BuildTypeOK

\* A completed shard is skipped.
LEMMA SkipCompletedInv ==
  ASSUME BuildInv, ~verified, NEW n \in Node, SkipCompleted(n)
  PROVE  BuildInv'
  <1>1. job[n] \in NextJob(n)
    BY JobAt DEF SkipCompleted, BuildInv
  <1>2. PICK s : job' = [job EXCEPT ![n].todo = @ \ {s}]
    BY DEF SkipCompleted
  <1> DEFINE j == [job[n] EXCEPT !.todo = @ \ {s}]
  <1>3. j \in NextJob(n)
    BY <1>1 DEF NextJob
  <1>4. job' = [job EXCEPT ![n] = j]
    BY <1>2
  <1> HIDE DEF j
  <1> QED BY <1>3, <1>4, JobStep DEF SkipCompleted, BuildInv, BuildTypeOK

\* A shard begins with no row of its plan owed.
LEMMA BeginShardInv ==
  ASSUME BuildInv, ~verified, NEW n \in Node, BeginShard(n)
  PROVE  BuildInv'
  <1>1. job[n] \in NextJob(n)
    BY JobAt DEF BeginShard, BuildInv
  <1>2. PICK s \in job[n].todo \ completed[n] :
           job' = [job EXCEPT ![n] = [pc |-> "compute", todo |-> job[n].todo, shard |-> s,
                                      settings |-> job[n].settings,
                                      left |-> Entries(s, job[n].settings)]]
    BY DEF BeginShard
  <1> DEFINE j == [pc |-> "compute", todo |-> job[n].todo, shard |-> s,
                   settings |-> job[n].settings, left |-> Entries(s, job[n].settings)]
  <1>3. j \in ComputeJob(n)
    BY <1>1 DEF NextJob, ComputeJob, Entries
  <1>4. \A m \in Entries(j.shard, j.settings) \ j.left : Row(m, j.shard, j.settings) \in report[n]
    OBVIOUS
  <1>5. job' = [job EXCEPT ![n] = j]
    BY <1>2
  <1> HIDE DEF j
  <1> QED BY <1>3, <1>4, <1>5, JobStep DEF BeginShard, BuildInv, BuildTypeOK

\* A run ends, or is killed: rows and shards stay.
LEMMA FinishBuildInv ==
  ASSUME BuildInv, ~verified, NEW n \in Node, FinishBuild(n) \/ KillBuild(n)
  PROVE  BuildInv'
  <1>1. kills' \in 0..MaxKills
    BY BuildAssumption DEF FinishBuild, KillBuild, BuildInv, BuildTypeOK
  <1> QED BY <1>1, JobStep DEF FinishBuild, KillBuild, BuildInv, BuildTypeOK

\* A matrix is computed: its row is a row of the plan, and rows never go away.
LEMMA ComputeMatrixInv ==
  ASSUME BuildInv, ~verified, NEW n \in Node, ComputeMatrix(n)
  PROVE  BuildInv'
  <1> DEFINE s == job[n].shard  u == job[n].settings
  <1>1. job[n] \in ComputeJob(n)
    BY JobAt DEF ComputeMatrix, BuildInv
  <1>2. PICK m \in job[n].left :
           /\ report' = [report EXCEPT ![n] = @ \cup {Row(m, s, u)}]
           /\ job' = [job EXCEPT ![n].left = @ \ {m}]
    BY DEF ComputeMatrix
  <1>3. s \in Shard /\ u \in Settings /\ m \in Matrix /\ s \in Share[n] /\ job[n].left \subseteq Matrix
    BY <1>1, ShareIsShards DEF ComputeJob
  <1>4. Row(m, s, u) \in Rows /\ Row(m, s, u).packed = (Home[<<m, "packed">>] = s)
        /\ Row(m, s, u).matrix = m /\ Row(m, s, u).shard = s
    BY <1>3 DEF Row, Rows
  <1>5. /\ report' \in [Node -> SUBSET Rows]
        /\ \A i \in Node : report[i] \subseteq report'[i]
        /\ \A i \in Node : i # n => report'[i] = report[i]
        /\ report'[n] = report[n] \cup {Row(m, s, u)}
    BY <1>2, <1>4 DEF BuildInv, BuildTypeOK
  <1>6. BuildTypeOK'
    BY <1>5 DEF ComputeMatrix, BuildInv, BuildTypeOK
  <1>7. BuildDomains'
    <2>1. job' = [job EXCEPT ![n] = [job[n] EXCEPT !.left = @ \ {m}]]
      BY <1>2
    <2> QED BY <2>1, SameDomains DEF ComputeMatrix, BuildInv
  <1>8. OutInv'
    BY <1>5 DEF ComputeMatrix, BuildInv, OutInv, Untouched, Reported
  <1>9. RowInv'
    <2> SUFFICES ASSUME NEW i \in Node, NEW r \in report'[i]
                 PROVE  r.packed = (Home[<<r.matrix, "packed">>] = r.shard)
      BY Zenon DEF RowInv
    <2>1. CASE r \in report[i]
      BY <2>1, Zenon DEF BuildInv, RowInv
    <2>2. CASE r = Row(m, s, u)
      BY <2>2, <1>4
    <2> QED BY <2>1, <2>2, <1>5
  <1>10. SampleInv' /\ VerifiedBuildIsWhole'
    BY DEF ComputeMatrix, BuildInv, SampleInv, VerifiedBuildIsWhole
  <1>11. JobInv'
    <2> DEFINE j == [job[n] EXCEPT !.left = @ \ {m}]
    <2>1. \A i \in Node : job'[i] = IF i = n THEN j ELSE job[i]
      BY <1>2 DEF BuildInv, BuildDomains
    <2>2. j \in ComputeJob(n) /\ j.shard = s /\ j.settings = u /\ j.left = job[n].left \ {m}
      BY <1>1 DEF ComputeJob
    <2> SUFFICES ASSUME NEW i \in Node
                 PROVE  /\ JobShape(i)'
                        /\ job'[i].pc = "compute" =>
                              \A k \in Entries(job'[i].shard, job'[i].settings) \ job'[i].left :
                                  Row(k, job'[i].shard, job'[i].settings) \in report'[i]
      BY Zenon DEF JobInv
    <2>3. CASE i # n
      <3>1. job'[i] = job[i] /\ report'[i] = report[i]
        BY <2>1, <2>3, <1>5
      <3> QED BY <3>1, Zenon DEF BuildInv, JobInv, JobShape
    <2>4. CASE i = n
      <3>1. job'[i] = j
        BY <2>1, <2>4
      <3>2. JobShape(i)'
        BY <2>2, <2>4, <3>1 DEF JobShape
      <3>3. \A k \in Entries(s, u) \ job[n].left : Row(k, s, u) \in report[n]
        BY Zenon DEF BuildInv, JobInv, ComputeMatrix
      <3>4. \A k \in Entries(s, u) \ j.left : Row(k, s, u) \in report'[n]
        BY <3>3, <2>2, <1>5
      <3> QED BY <2>2, <2>4, <3>1, <3>2, <3>4
    <2> QED BY <2>3, <2>4
  <1> QED BY <1>6, <1>7, <1>8, <1>9, <1>10, <1>11 DEF BuildInv

\* A shard is replaced when every matrix of its plan is in the report.
LEMMA ReplaceShardInv ==
  ASSUME BuildInv, ~verified, NEW n \in Node, ReplaceShard(n)
  PROVE  BuildInv'
  <1> DEFINE s == job[n].shard  u == job[n].settings
  <1>1. job[n] \in ComputeJob(n) /\ job[n].left = {}
    BY JobAt DEF ReplaceShard, BuildInv
  <1>2. s \in Shard /\ u \in Settings /\ s \in Share[n] /\ job[n].todo \subseteq Share[n]
    BY <1>1, ShareIsShards DEF ComputeJob
  <1>3. out' = [out EXCEPT ![n][s] = Written(s, u)]
    BY Zenon DEF ReplaceShard, Written
  <1>4. Reported(n, s, u)
    BY <1>1 DEF BuildInv, JobInv, Reported, ReplaceShard
  <1>5. /\ \A i \in Node, k \in Shard : out'[i][k] = IF i = n /\ k = s THEN Written(s, u) ELSE out[i][k]
        /\ BuildDomains'
    <2>1. out'[n] = [out[n] EXCEPT ![s] = Written(s, u)]
      BY <1>3 DEF BuildInv, BuildDomains
    <2>2. \A i \in Node : i # n => out'[i] = out[i]
      BY <1>3 DEF BuildInv, BuildDomains
    <2>3. DOMAIN out[n] = Shard /\ \A i \in Node : DOMAIN out[i] = Shard /\ out[i] = [k \in Shard |-> out[i][k]]
      BY DEF BuildInv, BuildDomains
    <2>4. DOMAIN out'[n] = Shard /\ out'[n] = [k \in Shard |-> out'[n][k]]
      BY <2>1, <2>3
    <2>5. DOMAIN out' = Node /\ out' = [i \in Node |-> out'[i]]
      BY <1>3 DEF BuildInv, BuildDomains
    <2>6. job' = [i \in Node |-> job'[i]]
      BY DEF ReplaceShard, BuildInv, BuildDomains
    <2>7. \A i \in Node : DOMAIN out'[i] = Shard /\ out'[i] = [k \in Shard |-> out'[i][k]]
      BY <2>2, <2>3, <2>4
    <2>8. BuildDomains'
      BY <2>5, <2>6, <2>7 DEF BuildDomains
    <2>9. \A k \in Shard : out'[n][k] = IF k = s THEN Written(s, u) ELSE out[n][k]
      BY <2>1, <2>3
    <2> QED BY <2>2, <2>8, <2>9
  <1> HIDE DEF s, u
  <1>6. OutInv'
    <2> SUFFICES ASSUME NEW i \in Node, NEW k \in Shard
                 PROVE  \/ out'[i][k] = Untouched(k)'
                        \/ \E v \in Settings : out'[i][k] = Written(k, v) /\ Reported(i, k, v)'
      BY Zenon DEF OutInv, Written
    <2>1. \A v : Reported(i, k, v) => Reported(i, k, v)'
      BY DEF Reported, ReplaceShard
    <2>2. Untouched(k)' = Untouched(k)
      BY DEF Untouched, ReplaceShard
    <2>3. CASE i = n /\ k = s
      BY <2>1, <2>3, <1>2, <1>4, <1>5
    <2>4. CASE ~(i = n /\ k = s)
      <3>1. out'[i][k] = out[i][k]
        BY <2>4, <1>5
      <3> QED BY <3>1, <2>1, <2>2 DEF BuildInv, OutInv
    <2> QED BY <2>3, <2>4
  <1>7. BuildTypeOK'
    <2>1. \A i \in Node : \A k \in Shard : out'[i][k] \in Contents(k)
      BY <1>2, <1>5, WrittenContents DEF BuildInv, BuildTypeOK
    <2> QED BY <2>1 DEF ReplaceShard, BuildInv, BuildTypeOK
  <1>8. RowInv' /\ SampleInv' /\ VerifiedBuildIsWhole'
    BY DEF ReplaceShard, BuildInv, RowInv, SampleInv, VerifiedBuildIsWhole
  <1>9. JobInv'
    <2> DEFINE j == [pc |-> "save", todo |-> job[n].todo, shard |-> s, settings |-> u]
    <2>1. \A i \in Node : job'[i] = IF i = n THEN j ELSE job[i]
      BY DEF BuildInv, BuildDomains, ReplaceShard, s, u
    <2>2. j \in SaveJob(n) /\ j.pc = "save"
      BY <1>2 DEF SaveJob
    <2> HIDE DEF j
    <2>3. \A i \in Node : JobShape(i)'
      BY <2>1, <2>2 DEF BuildInv, JobInv, JobShape
    <2>4. \A i \in Node : job'[i].pc = "compute" => i # n /\ job'[i] = job[i]
      BY <2>1, <2>2
    <2>5. report' = report
      BY DEF ReplaceShard
    <2>6. \A i \in Node : job'[i].pc = "compute" =>
            \A m \in Entries(job'[i].shard, job'[i].settings) \ job'[i].left :
                Row(m, job'[i].shard, job'[i].settings) \in report'[i]
      BY <2>4, <2>5 DEF BuildInv, JobInv
    <2> QED BY <2>3, <2>6, Zenon DEF JobInv
  <1> QED BY <1>5, <1>6, <1>7, <1>8, <1>9 DEF BuildInv

\* The state file names the shard that was replaced.
LEMMA SaveStateInv ==
  ASSUME BuildInv, ~verified, NEW n \in Node, SaveState(n)
  PROVE  BuildInv'
  <1>1. job[n] \in SaveJob(n)
    BY JobAt DEF SaveState, BuildInv
  <1> DEFINE j == [pc |-> "next", todo |-> job[n].todo \ {job[n].shard}, settings |-> job[n].settings]
  <1>2. j \in NextJob(n)
    BY <1>1 DEF NextJob, SaveJob
  <1>3. job' = [job EXCEPT ![n] = j]
    BY DEF SaveState
  <1>4. job[n].shard \in Share[n] /\ job[n].shard \in Shard
    BY <1>1, ShareIsShards DEF SaveJob
  <1>5. /\ completed' \in [Node -> SUBSET Shard]
        /\ \A i \in Node : completed'[i] \subseteq Share[i]
    BY <1>4 DEF SaveState, BuildInv, BuildTypeOK
  <1> HIDE DEF j
  <1>6. BuildTypeOK'
    BY <1>5 DEF SaveState, BuildInv, BuildTypeOK
  <1>7. BuildDomains'
    BY <1>3, SameDomains DEF SaveState, BuildInv
  <1>8. OutInv' /\ RowInv' /\ SampleInv' /\ VerifiedBuildIsWhole'
    <2>1. OutInv'
      BY DEF SaveState, BuildInv, OutInv, Untouched, Reported
    <2> QED BY <2>1 DEF SaveState, BuildInv, RowInv, SampleInv, VerifiedBuildIsWhole
  <1>9. JobInv'
    <2>1. \A i \in Node : job'[i] = IF i = n THEN j ELSE job[i]
      BY <1>3 DEF BuildInv, BuildDomains
    <2>2. j.pc = "next"
      BY <1>2 DEF NextJob
    <2>3. \A i \in Node : JobShape(i)'
      BY <2>1, <1>2 DEF BuildInv, JobInv, JobShape
    <2>4. \A i \in Node : job'[i].pc = "compute" => job'[i] = job[i]
      BY <2>1, <2>2
    <2>5. report' = report
      BY DEF SaveState
    <2> QED BY <2>3, <2>4, <2>5 DEF BuildInv, JobInv
  <1> QED BY <1>6, <1>7, <1>8, <1>9 DEF BuildInv

\* Sampled matrices are of one search.
LEMMA OptimizeSamplesInv ==
  ASSUME BuildInv, ~verified, OptimizeSamples
  PROVE  BuildInv'
  <1>1. PICK ms \in SUBSET Matrix, u \in Settings : replacements' = Samples(ms, u)
    BY DEF OptimizeSamples
  <1>2. DOMAIN replacements' \subseteq Matrix \X Part /\ \A t \in DOMAIN replacements' : replacements'[t] \in Settings
    BY <1>1 DEF Samples, Part
  <1>3. BuildTypeOK'
    BY <1>2 DEF OptimizeSamples, BuildInv, BuildTypeOK
  <1>4. SampleInv'
    BY <1>1 DEF SampleInv
  <1>5. OutInv' /\ BuildDomains' /\ RowInv'
    <2>1. OutInv'
      BY DEF OptimizeSamples, BuildInv, OutInv, Untouched, Reported
    <2> QED BY <2>1 DEF OptimizeSamples, BuildInv, BuildDomains, RowInv
  <1>6. JobInv' /\ VerifiedBuildIsWhole'
    BY DEF OptimizeSamples, BuildInv, JobInv, JobShape, VerifiedBuildIsWhole
  <1> QED BY <1>3, <1>4, <1>5, <1>6 DEF BuildInv

\* A tensor a run under v replaced is in a row under v; what it left alone is the
\* base's.
LEMMA WrittenValue ==
  ASSUME NEW s \in Shard, NEW v \in Settings, NEW m \in Matrix, NEW p \in Part,
         Home[<<m, p>>] = s
  PROVE  /\ <<m, p>> \in Tensors(s)
         /\ p # "global" \/ v \in SearchDivisor =>
                m \in Entries(s, v) /\ Written(s, v)[<<m, p>>] = Result(m, p, v)
         /\ p = "global" /\ v \notin SearchDivisor => Written(s, v)[<<m, p>>] = "base"
  <1>1. <<m, p>> \in Tensors(s)
    BY DEF Tensors
  <1>2. <<m, p>> # Other(s)
    BY BuildAssumption DEF Other
  <1>3. <<m, p>> \in Replaced(s, v) <=> (p = "global" => v \in SearchDivisor)
    BY <1>1, <1>2 DEF Replaced
  <1> QED BY <1>1, <1>3 DEF Entries, Written

\* The rows of a matrix whose report the verifier accepts are of one search.
LEMMA OneSearch ==
  ASSUME BuildInv, ReportsCover, RowsAgree, NEW m \in Matrix
  PROVE  \E u \in Settings :
            /\ \A i \in Node, s \in Shard, v \in Settings :
                  Row(m, s, v) \in report[i] => v = u
            /\ m \in ReportedFallbacks <=> u \in SearchDivisor \ Improves[m]
  <1>1. PICK r \in PackedRows : r.matrix = m
    BY DEF ReportsCover
  <1>2. r \in AllRows /\ r \in Rows
    BY DEF PackedRows, AllRows, BuildInv, BuildTypeOK
  <1>3. r.settings \in Settings
    BY <1>2 DEF Rows
  <1>4. \A i \in Node, s \in Shard, v \in Settings : Row(m, s, v) \in report[i] => v = r.settings
    <2> SUFFICES ASSUME NEW i \in Node, NEW s \in Shard, NEW v \in Settings, Row(m, s, v) \in report[i]
                 PROVE  v = r.settings
      OBVIOUS
    <2>1. Row(m, s, v) \in AllRows
      BY DEF AllRows
    <2>2. Row(m, s, v).matrix = m /\ Row(m, s, v).settings = v
      BY DEF Row
    <2> QED BY <1>1, <1>2, <2>1, <2>2 DEF RowsAgree
  <1>5. m \in ReportedFallbacks <=> r.settings \in SearchDivisor \ Improves[m]
    <2>1. \A q \in PackedRows : q.matrix = m => q.settings = r.settings
      BY <1>1, <1>2 DEF PackedRows, RowsAgree
    <2> QED BY <1>1, <2>1 DEF ReportedFallbacks
  <1> QED BY <1>3, <1>4, <1>5

\* An assembled shard is untouched, or written by a run all of whose rows are there.
LEMMA AssembledShard ==
  ASSUME BuildInv, AssembleAndVerify, NEW s \in Shard
  PROVE  /\ DOMAIN assembled'[s] = Tensors(s)
         /\ \/ assembled'[s] = Untouched(s)
            \/ \E v \in Settings, i \in Node :
                  assembled'[s] = Written(s, v) /\ Reported(i, s, v)
  <1>1. \E i \in Node : s \in Share[i]
    BY BuildAssumption
  <1> DEFINE n == CHOOSE i \in Node : s \in Share[i]
  <1>2. n \in Node
    BY <1>1
  <1>3. assembled'[s] = out[n][s]
    BY DEF AssembleAndVerify
  <1> HIDE DEF n
  <1>4. DOMAIN assembled'[s] = Tensors(s)
    BY DEF AssembleAndVerify, ContractHolds
  <1>5. \/ out[n][s] = Untouched(s)
        \/ \E v \in Settings : out[n][s] = Written(s, v) /\ Reported(n, s, v)
    BY <1>2 DEF BuildInv, OutInv
  <1> QED BY <1>2, <1>3, <1>4, <1>5

\* The builders' clone holds the names of the base or nothing.
LEMMA UntouchedShard ==
  ASSUME NEW s \in Shard, DOMAIN Untouched(s) = Tensors(s)
  PROVE  cloned /\ Untouched(s) = Base(s)
  BY DEF Untouched, Missing, Tensors

\* Nothing was cloned: every shard was written, and the rows of a matrix tell of the
\* shards in which it has more than its divisor.
LEMMA WholeWithoutClone ==
  ASSUME BuildInv, AssembleAndVerify, ~cloned, NEW m \in Matrix, NEW u \in Settings,
         \A i \in Node, s \in Shard, v \in Settings : Row(m, s, v) \in report[i] => v = u,
         NEW p \in Part, Witnessed(m, p)
  PROVE  assembled'[Home[<<m, p>>]][<<m, p>>] = Result(m, p, u)
  <1> DEFINE s == Home[<<m, p>>]
  <1>1. s \in Shard
    BY BuildAssumption
  <1>2. PICK v \in Settings, i \in Node : assembled'[s] = Written(s, v) /\ Reported(i, s, v)
    BY <1>1, AssembledShard, UntouchedShard
  <1>3. CASE p # "global" \/ v \in SearchDivisor
    <2>1. m \in Entries(s, v) /\ Written(s, v)[<<m, p>>] = Result(m, p, v)
      BY <1>1, <1>3, WrittenValue
    <2>2. v = u
      BY <2>1, <1>1, <1>2 DEF Reported
    <2> QED BY <1>2, <2>1, <2>2
  <1>4. CASE p = "global" /\ v \notin SearchDivisor
    <2>1. Written(s, v)[<<m, p>>] = "base"
      BY <1>1, <1>4, WrittenValue
    <2>2. PICK q \in {"packed", "scale"} : Home[<<m, q>>] = s
      BY <1>4 DEF Witnessed
    <2>3. m \in Entries(s, v)
      BY <1>1, <2>2, WrittenValue DEF Part
    <2>4. v = u
      BY <2>3, <1>1, <1>2 DEF Reported
    <2>5. Result(m, p, u) = "base"
      BY <1>4, <2>4 DEF Result
    <2> QED BY <1>2, <2>1, <2>5
  <1> QED BY <1>3, <1>4

\* A matrix that was sampled: its packed tensor is the search's, and so the rest is.
LEMMA WholeIfSampled ==
  ASSUME BuildInv, AssembleAndVerify, NEW m \in Matrix, Sampled(m), NEW u \in Settings,
         \A i \in Node, s \in Shard, v \in Settings : Row(m, s, v) \in report[i] => v = u,
         NEW p \in Part
  PROVE  assembled'[Home[<<m, p>>]][<<m, p>>] = Result(m, p, u)
  <1>1. PICK ms \in SUBSET Matrix, w \in Settings : replacements = Samples(ms, w)
    BY DEF BuildInv, SampleInv, Sampled, NoReplacements
  <1>2. m \in ms
    BY <1>1 DEF Sampled, Samples
  <1>3. w # "base"
    BY BuildAssumption
  <1>4. \A q \in Part : q # "global" \/ w \in SearchDivisor =>
            assembled'[Home[<<m, q>>]][<<m, q>>] = w
    <2> SUFFICES ASSUME NEW q \in Part, q # "global" \/ w \in SearchDivisor
                 PROVE  assembled'[Home[<<m, q>>]][<<m, q>>] = w
      OBVIOUS
    <2>1. <<m, q>> \in DOMAIN replacements /\ replacements[<<m, q>>] = w
      BY <1>1, <1>2 DEF Samples, Part
    <2>2. AsSampled(assembled')
      BY DEF AssembleAndVerify
    <2> QED BY <2>1, <2>2 DEF AsSampled
  <1> DEFINE s == Home[<<m, "packed">>]
  <1>5. s \in Shard /\ "packed" \in Part /\ <<m, "packed">> \in Tensors(s)
    BY BuildAssumption DEF Part, Tensors
  <1>6. assembled'[s][<<m, "packed">>] = w
    BY <1>4, <1>5
  <1>7. assembled'[s] # Untouched(s)
    <2>1. SUFFICES ASSUME assembled'[s] = Untouched(s) PROVE FALSE
      OBVIOUS
    <2>2. Untouched(s) = Base(s)
      BY <1>5, <2>1, AssembledShard, UntouchedShard
    <2>3. Base(s)[<<m, "packed">>] = "base"
      BY <1>5 DEF Base
    <2> QED BY <1>3, <1>6, <2>1, <2>2, <2>3
  <1>8. PICK v \in Settings, i \in Node : assembled'[s] = Written(s, v) /\ Reported(i, s, v)
    BY <1>5, <1>7, AssembledShard
  <1>9. m \in Entries(s, v) /\ Written(s, v)[<<m, "packed">>] = Result(m, "packed", v)
    BY <1>5, WrittenValue
  <1>10. v = u
    BY <1>5, <1>8, <1>9 DEF Reported
  <1>11. Result(m, "packed", u) = w
    BY <1>6, <1>8, <1>9, <1>10
  <1>12. w = u /\ ~(u \in SearchDivisor /\ u \notin Improves[m])
    BY <1>3, <1>11 DEF Result
  <1>13. CASE p # "global" \/ u \in SearchDivisor
    BY <1>4, <1>12, <1>13 DEF Result
  <1>14. CASE p = "global" /\ u \notin SearchDivisor
    <2> DEFINE g == Home[<<m, p>>]
    <2>1. g \in Shard /\ <<m, p>> \in Tensors(g)
      BY BuildAssumption DEF Tensors
    <2>2. assembled'[g][<<m, p>>] = "base"
      <3>1. CASE assembled'[g] = Untouched(g)
        <4>1. Untouched(g) = Base(g)
          BY <2>1, <3>1, AssembledShard, UntouchedShard
        <4> QED BY <2>1, <3>1, <4>1 DEF Base
      <3>2. CASE \E x \in Settings, k \in Node : assembled'[g] = Written(g, x) /\ Reported(k, g, x)
        <4>1. PICK x \in Settings, k \in Node : assembled'[g] = Written(g, x) /\ Reported(k, g, x)
          BY <3>2
        <4>2. x \in SearchDivisor => m \in Entries(g, x)
          BY <2>1, WrittenValue
        <4>3. x \notin SearchDivisor
          BY <1>14, <2>1, <4>1, <4>2 DEF Reported
        <4> QED BY <1>14, <2>1, <4>1, <4>3, WrittenValue
      <3> QED BY <2>1, <3>1, <3>2, AssembledShard
    <2>3. Result(m, p, u) = "base"
      BY <1>14 DEF Result
    <2> QED BY <2>2, <2>3
  <1> QED BY <1>13, <1>14

\* The verdict is given on a build that is whole.
LEMMA AssembleAndVerifyInv == ASSUME BuildInv, AssembleAndVerify PROVE BuildInv'
  <1>1. VerifiedBuildIsWhole'
    <2> SUFFICES ASSUME NEW m \in Matrix, ~cloned \/ Sampled(m)
                 PROVE  \E u \in Settings :
                            /\ \A p \in Part : Witnessed(m, p) \/ Sampled(m) =>
                                  assembled'[Home[<<m, p>>]][<<m, p>>] = Result(m, p, u)
                            /\ m \in ReportedFallbacks <=> u \in SearchDivisor \ Improves[m]
      <3>1. UNCHANGED <<cloned, replacements, report>>
        BY DEF AssembleAndVerify
      <3>2. ReportedFallbacks' = ReportedFallbacks
        BY <3>1 DEF ReportedFallbacks, PackedRows, AllRows
      <3>3. \A m \in Matrix : Sampled(m)' <=> Sampled(m)
        BY <3>1 DEF Sampled
      <3> QED BY <3>1, <3>2, <3>3 DEF VerifiedBuildIsWhole
    <2>1. PICK u \in Settings :
            /\ \A i \in Node, s \in Shard, v \in Settings : Row(m, s, v) \in report[i] => v = u
            /\ m \in ReportedFallbacks <=> u \in SearchDivisor \ Improves[m]
      BY OneSearch DEF AssembleAndVerify
    <2>2. \A p \in Part : Witnessed(m, p) \/ Sampled(m) =>
            assembled'[Home[<<m, p>>]][<<m, p>>] = Result(m, p, u)
      BY <2>1, WholeWithoutClone, WholeIfSampled
    <2> QED BY <2>1, <2>2
  <1>2. BuildTypeOK'
    <2>1. \A s \in Shard : assembled'[s] \in Contents(s)
      BY AssembledShard, WrittenContents, UntouchedContents
    <2> QED BY <2>1 DEF AssembleAndVerify, BuildInv, BuildTypeOK
  <1>3. OutInv' /\ BuildDomains' /\ RowInv'
    <2>1. OutInv'
      BY DEF AssembleAndVerify, BuildInv, OutInv, Untouched, Reported
    <2> QED BY <2>1 DEF AssembleAndVerify, BuildInv, BuildDomains, RowInv
  <1>4. JobInv' /\ SampleInv'
    BY DEF AssembleAndVerify, BuildInv, JobInv, JobShape, SampleInv
  <1> QED BY <1>1, <1>2, <1>3, <1>4 DEF BuildInv

\* Every step of the tools keeps the invariant.
LEMMA BuildStepInv == BuildInv /\ [BuildNext]_buildVars => BuildInv'
  <1> SUFFICES ASSUME BuildInv, [BuildNext]_buildVars PROVE BuildInv'
    OBVIOUS
  <1>1. CASE UNCHANGED buildVars
    <2>1. BuildTypeOK' /\ BuildDomains'
      BY <1>1 DEF buildVars, BuildInv, BuildTypeOK, BuildDomains
    <2>2. OutInv' /\ RowInv'
      BY <1>1 DEF buildVars, BuildInv, OutInv, Untouched, Reported, RowInv
    <2>3. JobInv' /\ SampleInv'
      BY <1>1 DEF buildVars, BuildInv, JobInv, JobShape, SampleInv
    <2>4. VerifiedBuildIsWhole'
      BY <1>1 DEF buildVars, BuildInv, VerifiedBuildIsWhole, Sampled, ReportedFallbacks, PackedRows, AllRows
    <2> QED BY <2>1, <2>2, <2>3, <2>4 DEF BuildInv
  <1>2. CASE BuildNext
    <2>1. CASE AssembleAndVerify
      BY <2>1, AssembleAndVerifyInv
    <2>2. CASE ~verified /\ OptimizeSamples
      BY <2>2, OptimizeSamplesInv
    <2>3. ASSUME ~verified, NEW n \in Node, Build(n) PROVE BuildInv'
      BY <2>3, StartBuildInv, SkipCompletedInv, BeginShardInv, ComputeMatrixInv, ReplaceShardInv,
         SaveStateInv, FinishBuildInv DEF Build
    <2> QED BY <1>2, <2>1, <2>2, <2>3 DEF BuildNext
  <1> QED BY <1>1, <1>2

\* BuildInv is an invariant of the build.
LEMMA BuildInvariant == BuildSpec => []BuildInv
  BY BuildInitInv, BuildStepInv, PTL DEF BuildSpec

\* Shards, reports and state files hold what the builder writes into them.
THEOREM BuildTypeCorrect == BuildSpec => []BuildTypeOK
  <1>1. BuildInv => BuildTypeOK
    BY DEF BuildInv
  <1> QED BY <1>1, BuildInvariant, PTL

\* What verify_nvfp4_checkpoint.py passes was built whole, for any number of nodes,
\* shards, settings and killed builders.
THEOREM VerifiedBuilds == BuildSpec => []VerifiedBuildIsWhole
  <1>1. BuildInv => VerifiedBuildIsWhole
    BY DEF BuildInv
  <1> QED BY <1>1, BuildInvariant, PTL

-----------------------------------------------------------------------------
RepairSpec == RepairInit /\ [][RepairNext]_repairVars

Runs(pcs) ==
    [pc : pcs, reference : Reference, plan : SUBSET FullPlan, only : BOOLEAN, todo : SUBSET FullPlan]
Saves ==
    [pc : {"save"}, reference : Reference, plan : SUBSET FullPlan, only : BOOLEAN,
     todo : SUBSET FullPlan, shard : FullPlan]

RunShape == repair = NoRun \/ repair \in Runs({"clone", "next"}) \/ repair \in Saves

\* A run that restores leaves no shard of its plan behind that the state file does
\* not name, but the one it is about to save.
PlanInv ==
    /\ repair.pc \in {"clone", "next"} /\ ~repair.only => repair.plan \subseteq restored \cup repair.todo
    /\ repair.pc = "save" /\ ~repair.only =>
           repair.plan \subseteq restored \cup repair.todo \cup {repair.shard}

\* A shard that is there has the tensors of the current checkpoint in all places the
\* repair is not about.
CloneInv ==
    /\ clone = [s \in RepairShard |-> clone[s]]
    /\ \A s \in RepairShard :
          \/ clone[s] = Unlinked
          \/ /\ clone[s] \in [OfShard(s) -> {"current"} \cup Reference]
             /\ \A t \in OfShard(s) \ W13 : clone[s][t] = "current"

\* Shards are missing only while the clone is made, or when it was cut short.
LinkInv ==
    /\ repair.pc # "idle" => begun
    /\ begun /\ ~cut /\ repair.pc # "clone" => \A s \in RepairShard : Readable(s)

\* A verdict on all shards is of a finished clone; if the run restored them, the state
\* file names them all, and no later run restores one.
VerdictInv ==
    /\ verdict = NoVerdict \/ verdict \in [plan : SUBSET FullPlan, reference : Reference, only : BOOLEAN]
    /\ verdict.plan = FullPlan =>
           /\ begun /\ repair.pc # "clone"
           /\ ~verdict.only => FullPlan \subseteq restored

RepairInv ==
    /\ RepairTypeOK /\ RunShape /\ PlanInv /\ CloneInv /\ LinkInv /\ VerdictInv
    /\ VerifiedRepairIsWhole

\* Every W1/W3 tensor lies in a shard of the full plan.
LEMMA PlanFacts ==
    /\ FullPlan \subseteq RepairShard /\ FullPlan # {}
    /\ \A t \in W13 : RepairHome[t] \in FullPlan /\ t \in OfShard(RepairHome[t])
    /\ \A s \in RepairShard : OfShard(s) # {}
  BY RepairAssumption DEF FullPlan, RepairShard, OfShard

\* The empty verdict is not one on all shards.
LEMMA NoVerdictYet == NoVerdict.plan # FullPlan
  BY PlanFacts DEF NoVerdict

\* A shard with tensors is not one that is missing.
LEMMA LinkedIsReadable ==
  ASSUME NEW s \in RepairShard, NEW c, DOMAIN c = OfShard(s)
  PROVE  c # Unlinked
  BY PlanFacts DEF Unlinked

\* The script starts without an output.
LEMMA RepairInitInv == RepairInit => RepairInv
  <1> SUFFICES ASSUME RepairInit PROVE RepairInv
    OBVIOUS
  <1>1. CloneInv /\ RunShape
    BY DEF RepairInit, CloneInv, RunShape
  <1>2. LinkInv /\ VerdictInv /\ VerifiedRepairIsWhole /\ PlanInv
    BY NoVerdictYet DEF RepairInit, LinkInv, VerdictInv, VerifiedRepairIsWhole, PlanInv, NoRun
  <1>3. RepairTypeOK
    <2>1. \A s \in RepairShard : clone[s] = Unlinked
      BY DEF RepairInit
    <2>2. /\ restored \subseteq FullPlan /\ redone \subseteq FullPlan /\ verdict.plan \subseteq FullPlan
          /\ repairKills \in 0..MaxRepairKills
      BY RepairAssumption DEF RepairInit, NoVerdict
    <2>3. cloneIndex \in BOOLEAN /\ begun \in BOOLEAN /\ cut \in BOOLEAN
      BY Zenon DEF RepairInit
    <2> QED BY <2>1, <2>2, <2>3 DEF RepairTypeOK
  <1> QED BY <1>1, <1>2, <1>3 DEF RepairInv

\* Steps that leave all shards and the verdict alone.
LEMMA RunStep ==
  ASSUME RepairInv, UNCHANGED <<clone, verdict, redone>>, RunShape', PlanInv', RepairTypeOK',
         begun \/ ~begun', begun' \/ ~begun, restored \subseteq restored', cut => cut',
         repair'.pc # "idle" => begun', repair'.pc = "clone" => ~begun \/ repair.pc = "clone",
         begun' /\ ~cut' /\ repair'.pc # "clone" => \A s \in RepairShard : Readable(s)
  PROVE  RepairInv'
  <1>1. CloneInv'
    BY DEF RepairInv, CloneInv
  <1>2. LinkInv'
    BY DEF LinkInv, Readable
  <1>3. VerdictInv'
    BY DEF RepairInv, VerdictInv
  <1>4. VerifiedRepairIsWhole'
    BY DEF RepairInv, VerifiedRepairIsWhole, Origin, Readable
  <1> QED BY <1>1, <1>2, <1>3, <1>4 DEF RepairInv

\* A run at a step has the record of that step.
LEMMA RunAt ==
  ASSUME RepairInv
  PROVE  /\ repair.pc \in {"clone", "next"} => repair \in Runs({"clone", "next"})
         /\ repair.pc = "save" => repair \in Saves
  BY DEF RepairInv, RunShape, Runs, Saves, NoRun

\* A run starts on a finished clone, or clones.
LEMMA StartRepairInv ==
  ASSUME RepairInv, NEW reference \in Reference, NEW plan \in SUBSET FullPlan, NEW only \in BOOLEAN,
         StartRepair(reference, plan, only)
  PROVE  RepairInv'
  <1> DEFINE pc == IF begun THEN "next" ELSE "clone"
             left == IF only THEN {} ELSE plan
  <1>1. repair' = [pc |-> pc, reference |-> reference, plan |-> plan, only |-> only, todo |-> left]
    BY DEF StartRepair
  <1>2. left \subseteq FullPlan /\ pc \in {"clone", "next"} /\ (~only => left = plan)
    OBVIOUS
  <1>3. (pc = "clone" => ~begun) /\ (pc # "clone" => begun)
    OBVIOUS
  <1> HIDE DEF pc, left
  <1>4. RunShape'
    BY <1>1, <1>2 DEF RunShape, Runs
  <1>5. PlanInv'
    BY <1>1, <1>2 DEF PlanInv
  <1>6. RepairTypeOK' /\ restored' = restored /\ UNCHANGED <<clone, verdict, redone, cut>>
    BY DEF StartRepair, RepairInv, RepairTypeOK
  <1>7. begun' /\ repair.pc = "idle"
    BY DEF StartRepair, RepairAt
  <1>8. repair'.pc = pc
    BY <1>1
  <1>9. begun' /\ ~cut' /\ repair'.pc # "clone" => \A s \in RepairShard : Readable(s)
    BY <1>3, <1>6, <1>7, <1>8 DEF RepairInv, LinkInv
  <1>10. CloneInv'
    BY <1>6 DEF RepairInv, CloneInv
  <1>11. LinkInv'
    BY <1>6, <1>7, <1>9 DEF LinkInv, Readable
  <1>12. VerdictInv'
    BY <1>3, <1>6, <1>7, <1>8 DEF RepairInv, VerdictInv
  <1>13. VerifiedRepairIsWhole'
    BY <1>6 DEF RepairInv, VerifiedRepairIsWhole, Origin, Readable
  <1> QED BY <1>4, <1>5, <1>6, <1>10, <1>11, <1>12, <1>13 DEF RepairInv

\* The index is linked.
LEMMA LinkIndexInv == ASSUME RepairInv, LinkIndex PROVE RepairInv'
  <1>1. RepairTypeOK'
    <2>1. cloneIndex' \in BOOLEAN
      BY DEF LinkIndex
    <2> QED BY <2>1 DEF LinkIndex, RepairInv, RepairTypeOK
  <1>2. RunShape' /\ PlanInv'
    BY DEF LinkIndex, RepairInv, RunShape, PlanInv
  <1> QED BY <1>1, <1>2, RunStep DEF LinkIndex, RepairAt, RepairInv, LinkInv

\* The clone ends when no shard is missing.
LEMMA CloneWholeInv == ASSUME RepairInv, CloneWhole PROVE RepairInv'
  <1>1. repair \in Runs({"clone", "next"}) /\ repair' = [repair EXCEPT !.pc = "next"] /\ restored' = restored
    BY RunAt DEF CloneWhole, RepairAt
  <1>2. RunShape'
    BY <1>1 DEF RunShape, Runs
  <1>3. PlanInv'
    BY <1>1 DEF Runs, PlanInv, RepairInv
  <1>4. RepairTypeOK'
    BY DEF CloneWhole, RepairInv, RepairTypeOK
  <1>5. begun' /\ begun /\ repair'.pc = "next" /\ \A s \in RepairShard : Readable(s)
    BY <1>1 DEF CloneWhole, RepairAt, RepairInv, LinkInv, Readable, Runs
  <1> QED BY <1>2, <1>3, <1>4, <1>5, RunStep DEF CloneWhole

\* A restored shard is skipped.
LEMMA SkipRestoredInv == ASSUME RepairInv, SkipRestored PROVE RepairInv'
  <1>1. repair \in Runs({"clone", "next"}) /\ repair.pc = "next" /\ restored' = restored
    BY RunAt DEF SkipRestored, RepairAt
  <1>2. PICK s \in repair.todo \cap restored : repair' = [repair EXCEPT !.todo = @ \ {s}]
    BY DEF SkipRestored
  <1>3. RunShape' /\ repair'.pc = "next"
    BY <1>1, <1>2 DEF RunShape, Runs
  <1>4. PlanInv'
    BY <1>1, <1>2 DEF Runs, PlanInv, RepairInv
  <1>5. RepairTypeOK'
    BY DEF SkipRestored, RepairInv, RepairTypeOK
  <1> QED BY <1>1, <1>3, <1>4, <1>5, RunStep DEF SkipRestored, RepairInv, LinkInv

\* The state file names the shard that was restored.
LEMMA SaveRestoredInv == ASSUME RepairInv, SaveRestored PROVE RepairInv'
  <1>1. repair \in Saves /\ repair.pc = "save"
    BY RunAt DEF SaveRestored, RepairAt
  <1>2. /\ repair' = [pc |-> "next", reference |-> repair.reference, plan |-> repair.plan,
                      only |-> repair.only, todo |-> repair.todo]
        /\ restored' = restored \cup {repair.shard}
    BY DEF SaveRestored
  <1>3. RunShape' /\ repair'.pc = "next"
    BY <1>1, <1>2 DEF RunShape, Runs, Saves
  <1>4. PlanInv'
    BY <1>1, <1>2 DEF PlanInv, RepairInv
  <1>5. RepairTypeOK'
    BY <1>1 DEF SaveRestored, RepairInv, RepairTypeOK, Saves
  <1>6. begun /\ (~cut => \A s \in RepairShard : Readable(s))
    BY DEF SaveRestored, RepairAt, RepairInv, LinkInv
  <1> QED BY <1>2, <1>3, <1>4, <1>5, <1>6, RunStep DEF SaveRestored

\* A killed run leaves its shards; a clone that was cut short is noted.
LEMMA KillRepairInv == ASSUME RepairInv, KillRepair PROVE RepairInv'
  <1>1. RepairTypeOK'
    <2>1. cut' \in BOOLEAN
      BY Zenon DEF KillRepair, RepairAt
    <2>2. repairKills' \in 0..MaxRepairKills
      BY RepairAssumption DEF KillRepair, RepairInv, RepairTypeOK
    <2> QED BY <2>1, <2>2 DEF KillRepair, RepairInv, RepairTypeOK
  <1>2. (~cut' => ~cut /\ repair.pc # "clone") /\ (cut => cut')
    BY DEF KillRepair, RepairAt
  <1>3. begun /\ ~cut' => \A s \in RepairShard : Readable(s)
    BY <1>2 DEF RepairInv, LinkInv
  <1>4. RunShape' /\ PlanInv' /\ repair'.pc = "idle" /\ begun' = begun
    BY DEF KillRepair, RunShape, PlanInv, NoRun
  <1> QED BY <1>1, <1>2, <1>3, <1>4, RunStep DEF KillRepair

\* cp -al links a shard of the current checkpoint; there is no verdict on all yet.
LEMMA LinkShardInv == ASSUME RepairInv, LinkShard PROVE RepairInv'
  <1>1. PICK s \in RepairShard : clone' = [clone EXCEPT ![s] = Current(s)]
    BY DEF LinkShard
  <1>2. /\ Current(s) \in [OfShard(s) -> {"current"} \cup Reference]
        /\ \A t \in OfShard(s) \ W13 : Current(s)[t] = "current"
    BY DEF Current
  <1>3. \A k \in RepairShard : clone'[k] = IF k = s THEN Current(s) ELSE clone[k]
    BY <1>1 DEF RepairInv, CloneInv
  <1>4. clone' = [k \in RepairShard |-> clone'[k]]
    BY <1>1 DEF RepairInv, CloneInv
  <1>5. repair.pc = "clone" /\ verdict.plan # FullPlan
    BY DEF LinkShard, RepairAt, RepairInv, VerdictInv
  <1>6. CloneInv'
    BY <1>2, <1>3, <1>4 DEF RepairInv, CloneInv
  <1>7. RepairTypeOK'
    BY <1>2, <1>3 DEF LinkShard, RepairInv, RepairTypeOK
  <1>8. RunShape' /\ PlanInv'
    BY DEF LinkShard, RepairInv, RunShape, PlanInv
  <1>9. LinkInv' /\ VerdictInv' /\ VerifiedRepairIsWhole'
    BY <1>5 DEF LinkShard, RepairInv, LinkInv, VerdictInv, VerifiedRepairIsWhole
  <1> QED BY <1>6, <1>7, <1>8, <1>9 DEF RepairInv

\* A restored shard has the tensors of the reference in W1/W3 places only, and is not
\* one that a verdict of a run that restored is about.
LEMMA RestoreShardInv == ASSUME RepairInv, RestoreShard PROVE RepairInv'
  <1>1. repair \in Runs({"clone", "next"}) /\ repair.pc = "next"
    BY RunAt DEF RestoreShard, RepairAt
  <1>2. PICK s \in repair.todo \ restored :
          /\ clone' = [clone EXCEPT ![s] =
                          [t \in OfShard(s) |-> IF t \in W13 THEN repair.reference ELSE "current"]]
          /\ repair' = [pc |-> "save", reference |-> repair.reference, plan |-> repair.plan,
                        only |-> repair.only, todo |-> repair.todo \ {s}, shard |-> s]
          /\ redone' = redone \cup {s}
    BY DEF RestoreShard
  <1> DEFINE c == [t \in OfShard(s) |-> IF t \in W13 THEN repair.reference ELSE "current"]
  <1>3. s \in FullPlan /\ s \in RepairShard /\ s \notin restored
    BY <1>1, PlanFacts DEF Runs
  <1>4. /\ c \in [OfShard(s) -> {"current"} \cup Reference]
        /\ \A t \in OfShard(s) \ W13 : c[t] = "current"
    BY <1>1 DEF Runs
  <1>5. RunShape' /\ repair'.pc = "save"
    BY <1>1, <1>2, <1>3 DEF RunShape, Runs, Saves
  <1>6. PlanInv'
    BY <1>1, <1>2 DEF RestoreShard, RepairInv, PlanInv
  <1>7. clone' = [clone EXCEPT ![s] = c] /\ UNCHANGED <<begun, cut, restored, verdict>>
    BY <1>2 DEF RestoreShard
  <1> HIDE DEF c
  <1>8. \A k \in RepairShard : clone'[k] = IF k = s THEN c ELSE clone[k]
    BY <1>7 DEF RepairInv, CloneInv
  <1>9. c # Unlinked
    BY <1>3, <1>4, LinkedIsReadable
  <1>10. clone' = [k \in RepairShard |-> clone'[k]]
    BY <1>7 DEF RepairInv, CloneInv
  <1>11. CloneInv'
    BY <1>3, <1>4, <1>8, <1>10 DEF RepairInv, CloneInv
  <1>12. \A k \in RepairShard : Readable(k) => Readable(k)'
    BY <1>8, <1>9 DEF Readable
  <1>13. LinkInv'
    BY <1>1, <1>5, <1>7, <1>12 DEF RepairInv, LinkInv
  <1>14. RepairTypeOK'
    <2>1. redone' \subseteq FullPlan
      BY <1>2, <1>3 DEF RepairInv, RepairTypeOK
    <2> QED BY <1>3, <1>4, <1>8, <2>1 DEF RestoreShard, RepairInv, RepairTypeOK
  <1>15. VerdictInv'
    BY <1>5, <1>7 DEF RepairInv, VerdictInv
  <1>16. VerifiedRepairIsWhole'
    <2> SUFFICES ASSUME verdict.plan = FullPlan PROVE VerifiedRepairIsWhole'
      BY <1>7 DEF VerifiedRepairIsWhole
    <2>1. verdict.only
      BY <1>3 DEF RepairInv, VerdictInv
    <2>2. ASSUME NEW t \in W13, RepairHome[t] # s
          PROVE  clone'[RepairHome[t]][t] = clone[RepairHome[t]][t]
      BY <1>8, <2>2, PlanFacts
    <2>3. \A t \in W13 : clone'[RepairHome[t]][t] = verdict.reference
                         \/ (verdict.only /\ RepairHome[t] \in redone')
      BY <1>2, <2>1, <2>2 DEF RepairInv, VerifiedRepairIsWhole, Origin
    <2>4. ASSUME ~cut, NEW k \in RepairShard
          PROVE  clone'[k] # Unlinked /\ \A t \in OfShard(k) \ W13 : clone'[RepairHome[t]][t] = "current"
      <3>1. clone[k] # Unlinked /\ \A t \in OfShard(k) \ W13 : clone[k][t] = "current"
        BY <2>4 DEF RepairInv, VerifiedRepairIsWhole, Readable, Origin, OfShard
      <3> QED BY <1>4, <1>8, <1>9, <3>1 DEF OfShard
    <2> QED BY <1>7, <2>3, <2>4 DEF VerifiedRepairIsWhole, Origin, Readable
  <1> QED BY <1>5, <1>6, <1>11, <1>13, <1>14, <1>15, <1>16 DEF RepairInv

\* A verdict on all shards is given on tensors that are all of the run's reference.
LEMMA JudgeInv == ASSUME RepairInv, Judge PROVE RepairInv'
  <1>1. repair \in Runs({"clone", "next"}) /\ repair.pc = "next" /\ repair.todo = {}
    BY RunAt DEF Judge, RepairAt
  <1>2. begun /\ (~cut => \A s \in RepairShard : Readable(s))
    BY <1>1 DEF RepairInv, LinkInv
  <1>3. repair' = NoRun /\ UNCHANGED <<clone, cloneIndex, begun, cut, restored, repairKills>>
    BY DEF Judge
  <1>4. CloneInv' /\ RunShape' /\ LinkInv' /\ PlanInv'
    BY <1>2, <1>3 DEF RepairInv, CloneInv, RunShape, LinkInv, PlanInv, NoRun, Readable
  <1>5. ~repair.only => repair.plan \subseteq restored
    BY <1>1 DEF RepairInv, PlanInv
  <1>6. CASE RestoredContent /\ SharedGlobalScales
    <2>1. /\ verdict' = [plan |-> repair.plan, reference |-> repair.reference, only |-> repair.only]
          /\ redone' = {}
      BY <1>6 DEF Judge
    <2>2. RepairTypeOK'
      BY <1>1, <1>3, <2>1 DEF RepairInv, RepairTypeOK, Runs
    <2>3. VerdictInv'
      BY <1>1, <1>2, <1>3, <1>5, <2>1 DEF VerdictInv, Runs, NoRun
    <2>4. ASSUME repair.plan = FullPlan, NEW t \in W13
          PROVE  clone[RepairHome[t]][t] = repair.reference
      BY <1>6, <2>4, PlanFacts DEF RestoredContent, Origin
    <2>5. ASSUME ~cut, NEW s \in RepairShard
          PROVE  clone[s] # Unlinked /\ \A t \in OfShard(s) \ W13 : clone[RepairHome[t]][t] = "current"
      BY <1>2, <2>5 DEF Readable, RepairInv, CloneInv, OfShard
    <2>6. VerifiedRepairIsWhole'
      BY <1>3, <2>1, <2>4, <2>5 DEF VerifiedRepairIsWhole, Origin, Readable
    <2> QED BY <1>4, <2>2, <2>3, <2>6 DEF RepairInv
  <1>7. CASE ~(RestoredContent /\ SharedGlobalScales)
    <2>1. UNCHANGED <<verdict, redone>>
      BY <1>7 DEF Judge
    <2>2. RepairTypeOK'
      BY <1>3, <2>1 DEF RepairInv, RepairTypeOK
    <2>3. VerdictInv'
      BY <1>3, <2>1 DEF RepairInv, VerdictInv, NoRun
    <2>4. VerifiedRepairIsWhole'
      BY <1>3, <2>1 DEF RepairInv, VerifiedRepairIsWhole, Origin, Readable
    <2> QED BY <1>4, <2>2, <2>3, <2>4 DEF RepairInv
  <1> QED BY <1>6, <1>7

\* Every step of the script keeps the invariant.
LEMMA RepairStepInv == RepairInv /\ [RepairNext]_repairVars => RepairInv'
  <1> SUFFICES ASSUME RepairInv, [RepairNext]_repairVars PROVE RepairInv'
    OBVIOUS
  <1>1. CASE UNCHANGED repairVars
    <2>1. RepairTypeOK' /\ RunShape' /\ PlanInv' /\ CloneInv'
      BY <1>1 DEF repairVars, RepairInv, RepairTypeOK, RunShape, PlanInv, CloneInv
    <2>2. LinkInv' /\ VerdictInv'
      BY <1>1 DEF repairVars, RepairInv, LinkInv, VerdictInv, Readable
    <2>3. VerifiedRepairIsWhole'
      BY <1>1 DEF repairVars, RepairInv, VerifiedRepairIsWhole, Readable, Origin
    <2> QED BY <2>1, <2>2, <2>3 DEF RepairInv
  <1>2. ASSUME NEW reference \in Reference, NEW plan \in SUBSET FullPlan \ {{}}, NEW only \in BOOLEAN,
               StartRepair(reference, plan, only)
        PROVE  RepairInv'
    BY <1>2, StartRepairInv
  <1>3. CASE LinkShard \/ LinkIndex \/ CloneWhole
    BY <1>3, LinkShardInv, LinkIndexInv, CloneWholeInv
  <1>4. CASE SkipRestored \/ RestoreShard \/ SaveRestored \/ Judge \/ KillRepair
    BY <1>4, SkipRestoredInv, RestoreShardInv, SaveRestoredInv, JudgeInv, KillRepairInv
  <1> QED BY <1>1, <1>2, <1>3, <1>4 DEF RepairNext

\* RepairInv is an invariant of the repair.
LEMMA RepairInvariant == RepairSpec => []RepairInv
  BY RepairInitInv, RepairStepInv, PTL DEF RepairSpec

\* The clone, its state file and its verdict hold what the scripts write into them.
THEOREM RepairTypeCorrect == RepairSpec => []RepairTypeOK
  <1>1. RepairInv => RepairTypeOK
    BY DEF RepairInv
  <1> QED BY <1>1, RepairInvariant, PTL

\* A repair that repair_nvfp4_w13_shared_scale.py verified for all shards is whole,
\* whatever runs with other references were killed before it; and stays so whatever
\* runs follow, but for the shards a --verify-only run passed and nobody had recorded.
THEOREM VerifiedRepairs == RepairSpec => []VerifiedRepairIsWhole
  <1>1. RepairInv => VerifiedRepairIsWhole
    BY DEF RepairInv
  <1> QED BY <1>1, RepairInvariant, PTL

-----------------------------------------------------------------------------
PassSpec == PassInit /\ [][PassNext]_passVars

Working == {"support", "shards", "index", "manifest", "verify"}

PassShape ==
    pass = NoPass \/ pass \in [pc : Working, base : Bases, left : SUBSET PassShard]

\* Written so far by the run at hand, in the order of the script.
RunInv ==
    /\ pass.pc = "support" => pass.left = PassShard
    /\ pass.pc \in {"shards", "index"} => support = pass.base
    /\ pass.pc = "shards" => \A s \in PassShard \ pass.left : outShard[s] = pass.base
    /\ pass.pc = "index" => config = pass.base /\ \A s \in PassShard : outShard[s] = pass.base
    /\ pass.pc \in {"support", "shards", "index"} => (index # "absent" => reopened)

PassInv == PassTypeOK /\ PassShape /\ RunInv /\ IndexIsCommit

\* The first run starts with nothing written.
LEMMA PassInitInv == PassInit => PassInv
  <1> SUFFICES ASSUME PassInit PROVE PassInv
    OBVIOUS
  <1>1. PassTypeOK
    <2>1. outShard \in [PassShard -> Origins] /\ {support, config, index, manifest, passVerified} \subseteq Origins
      BY DEF PassInit, Origins
    <2>2. reopened \in BOOLEAN
      BY Zenon DEF PassInit
    <2>3. passKills \in 0..MaxPassKills
      BY PassAssumption DEF PassInit
    <2> QED BY <2>1, <2>2, <2>3 DEF PassTypeOK
  <1>2. PassShape /\ pass.pc = "idle" /\ index = "absent"
    BY DEF PassInit, PassShape, NoPass
  <1> QED BY <1>1, <1>2 DEF PassInv, RunInv, IndexIsCommit

\* A run at hand has its record.
LEMMA WorkingRun ==
  ASSUME PassInv, pass.pc # "idle"
  PROVE  pass \in [pc : Working, base : Bases, left : SUBSET PassShard]
  BY DEF PassInv, PassShape, NoPass

\* A run begins: an index that exists is noted.
LEMMA StartPassInv ==
  ASSUME PassInv, NEW b \in Bases, NEW overwrite \in BOOLEAN, StartPass(b, overwrite)
  PROVE  PassInv'
  <1>1. pass' = [pc |-> "support", base |-> b, left |-> PassShard]
    BY DEF StartPass
  <1>2. PassTypeOK' /\ PassShape'
    <2>1. PassShape'
      BY <1>1 DEF PassShape, Working
    <2>2. reopened' \in BOOLEAN
      BY DEF StartPass
    <2> QED BY <2>1, <2>2 DEF PassInv, PassTypeOK, StartPass
  <1>3. index # "absent" => reopened'
    BY Zenon DEF StartPass
  <1>4. RunInv'
    BY <1>1, <1>3 DEF RunInv, StartPass
  <1>5. IndexIsCommit'
    BY <1>3 DEF PassInv, IndexIsCommit, StartPass
  <1> QED BY <1>2, <1>4, <1>5 DEF PassInv

\* Support files are rewritten while an index exists only if that was noted.
LEMMA CopySupportInv == ASSUME PassInv, CopySupportFiles PROVE PassInv'
  <1> USE DEF CopySupportFiles, PassAt, PassTo
  <1>1. pass \in [pc : Working, base : Bases, left : SUBSET PassShard]
    BY WorkingRun
  <1>2. PassTypeOK' /\ PassShape'
    BY <1>1 DEF PassInv, PassTypeOK, PassShape, Working, Origins
  <1>3. RunInv'
    BY <1>1 DEF PassInv, PassTypeOK, RunInv
  <1>4. IndexIsCommit'
    BY <1>1, PassAssumption DEF PassInv, PassTypeOK, RunInv, IndexIsCommit
  <1> QED BY <1>2, <1>3, <1>4 DEF PassInv

\* A shard that is replaced holds a repaired one, and leaves those left to do; one
\* that cannot be read ends the run and changes nothing.
LEMMA BuildShardInv == ASSUME PassInv, BuildShard PROVE PassInv'
  <1> USE DEF BuildShard, PassAt
  <1>1. pass \in [pc : Working, base : Bases, left : SUBSET PassShard]
    BY WorkingRun
  <1>2. PICK s \in pass.left :
          \/ /\ CopiesWhole(pass.base, s)
             /\ outShard' = [outShard EXCEPT ![s] = pass.base]
             /\ pass' = [pass EXCEPT !.left = @ \ {s}]
          \/ ~CopiesWhole(pass.base, s) /\ pass' = NoPass /\ UNCHANGED outShard
    BY Zenon
  <1>3. CASE /\ outShard' = [outShard EXCEPT ![s] = pass.base]
             /\ pass' = [pass EXCEPT !.left = @ \ {s}]
    <2>1. PassTypeOK' /\ PassShape'
      BY <1>1, <1>3 DEF PassInv, PassTypeOK, PassShape, Working, Origins
    <2>2. RunInv'
      BY <1>1, <1>3 DEF PassInv, PassTypeOK, RunInv
    <2>3. IndexIsCommit'
      BY <1>1, <1>3, PassAssumption DEF PassInv, PassTypeOK, RunInv, IndexIsCommit
    <2> QED BY <2>1, <2>2, <2>3 DEF PassInv
  <1>4. CASE pass' = NoPass /\ UNCHANGED outShard
    <2>1. PassTypeOK' /\ PassShape'
      BY <1>4 DEF PassInv, PassTypeOK, PassShape
    <2>2. RunInv' /\ IndexIsCommit'
      BY <1>4 DEF PassInv, RunInv, IndexIsCommit, NoPass
    <2> QED BY <2>1, <2>2 DEF PassInv
  <1> QED BY <1>2, <1>3, <1>4

\* The config is written when no shard is left.
LEMMA WriteConfigInv == ASSUME PassInv, WriteConfig PROVE PassInv'
  <1> USE DEF WriteConfig, PassAt, PassTo
  <1>1. pass \in [pc : Working, base : Bases, left : SUBSET PassShard]
    BY WorkingRun
  <1>2. PassTypeOK' /\ PassShape'
    BY <1>1 DEF PassInv, PassTypeOK, PassShape, Working, Origins
  <1>3. RunInv'
    BY <1>1 DEF PassInv, PassTypeOK, RunInv
  <1>4. IndexIsCommit'
    BY <1>1, PassAssumption DEF PassInv, PassTypeOK, RunInv, IndexIsCommit
  <1> QED BY <1>2, <1>3, <1>4 DEF PassInv

\* The index is written when shards, support files and config are of the run's base.
LEMMA WriteIndexInv == ASSUME PassInv, WriteIndex PROVE PassInv'
  <1> USE DEF WriteIndex, PassAt, PassTo
  <1>1. pass \in [pc : Working, base : Bases, left : SUBSET PassShard]
    BY WorkingRun
  <1>2. PassTypeOK' /\ PassShape'
    BY <1>1 DEF PassInv, PassTypeOK, PassShape, Working, Origins
  <1>3. RunInv'
    BY <1>1 DEF PassInv, PassTypeOK, RunInv
  <1>4. IndexIsCommit'
    BY <1>1, PassAssumption DEF PassInv, PassTypeOK, RunInv, IndexIsCommit
  <1> QED BY <1>2, <1>3, <1>4 DEF PassInv

\* The manifest changes nothing the loader reads.
LEMMA WriteManifestInv == ASSUME PassInv, WriteManifest PROVE PassInv'
  <1> USE DEF WriteManifest, PassAt, PassTo
  <1>1. pass \in [pc : Working, base : Bases, left : SUBSET PassShard]
    BY WorkingRun
  <1>2. PassTypeOK' /\ PassShape'
    BY <1>1 DEF PassInv, PassTypeOK, PassShape, Working, Origins
  <1>3. RunInv'
    BY <1>1 DEF PassInv, PassTypeOK, RunInv
  <1>4. IndexIsCommit'
    BY <1>1, PassAssumption DEF PassInv, PassTypeOK, RunInv, IndexIsCommit
  <1> QED BY <1>2, <1>3, <1>4 DEF PassInv

\* The run ends, by its report or by being killed: what is written stays.
LEMMA EndInv == ASSUME PassInv, VerifyPass \/ KillPass PROVE PassInv'
  <1> USE DEF VerifyPass, KillPass, PassAt
  <1>1. pass' = NoPass /\ passKills' \in 0..MaxPassKills
    BY PassAssumption DEF PassInv, PassTypeOK
  <1>2. passVerified' \in Origins
    <2>1. CASE VerifyPass
      BY <2>1, WorkingRun DEF PassInv, PassTypeOK, Origins
    <2>2. CASE KillPass
      BY <2>2 DEF PassInv, PassTypeOK
    <2> QED BY <2>1, <2>2
  <1>3. PassTypeOK' /\ PassShape'
    BY <1>1, <1>2 DEF PassInv, PassTypeOK, PassShape
  <1>4. RunInv' /\ IndexIsCommit'
    BY <1>1 DEF PassInv, RunInv, IndexIsCommit, NoPass
  <1> QED BY <1>3, <1>4 DEF PassInv

\* Every step keeps the invariant.
LEMMA PassStepInv == PassInv /\ [PassNext]_passVars => PassInv'
  <1> SUFFICES ASSUME PassInv, [PassNext]_passVars PROVE PassInv'
    OBVIOUS
  <1>1. CASE UNCHANGED passVars
    BY <1>1 DEF passVars, PassInv, PassTypeOK, PassShape, RunInv, IndexIsCommit
  <1>2. CASE PassNext
    BY <1>2, StartPassInv, CopySupportInv, BuildShardInv, WriteConfigInv, WriteIndexInv,
       WriteManifestInv, EndInv DEF PassNext
  <1> QED BY <1>1, <1>2

\* Repair runs keep RunInv and the rest of PassInv for ever.
LEMMA PassInvariant == PassSpec => []PassInv
  BY PassInitInv, PassStepInv, PTL DEF PassSpec

\* The files hold what the scripts write into them (repair_redhat_fp8_passthrough.py).
THEOREM PassTypeCorrect == PassSpec => []PassTypeOK
  <1>1. PassInv => PassTypeOK
    BY DEF PassInv
  <1> QED BY <1>1, PassInvariant, PTL

\* Once the index exists every shard is a repaired one, wherever runs were killed,
\* and nothing of another base is mixed in unless a finished output is being rewritten.
THEOREM IndexCommits == PassSpec => []IndexIsCommit
  <1>1. PassInv => IndexIsCommit
    BY DEF PassInv
  <1> QED BY <1>1, PassInvariant, PTL

-----------------------------------------------------------------------------
(***************************************************************************)
(* Capture and its driver, for any ranks, layers, corpus and reservoirs.   *)
(***************************************************************************)
CaptureSpec == CaptureInit /\ [][CaptureNext]_captureVars

Labelling == {"next", "remote", "request", "wait"}
Flushing == {"sleep", "flushRequest", "flushWait"}
Ending == {"offRemote", "done"}
Asked == {"flushRemote"} \cup Flushing \cup Ending

DriverInv ==
    /\ driver \in Labelling \cup Asked
    /\ successes < row
    /\ driver \in {"remote", "request", "wait"} => row <= Len(Corpus)

\* What the server has when the prompts are over ran across the change of the control;
\* only the flush request comes after it.
ServerInv ==
    /\ UnderWay \subseteq 1..FlushRow
    /\ driver \in Labelling => UnderWay \subseteq 1..Len(Corpus)
    /\ driver \in Asked => UnderWay \subseteq mixed \cup {FlushRow}
    /\ FlushRow \in UnderWay => driver \in {"flushWait"} \cup Ending

\* Reservoirs are within their capacity.
InBucket(S, b) == {s \in S : s.bucket = b}
HeldInv == \A r \in Rank, l \in Layer :
              /\ IsFiniteSet(held[r][l])
              /\ \A b \in Bucket : Cardinality(InBucket(held[r][l], b)) <= Capacity

\* The flush request sees the epoch, also if the driver gives it up, and an epoch once
\* seen is never taken back: the head has it first, then the others, then the collectors.
Told == {Flush, Off(1)}
ControlInv == \A r \in Rank :
    /\ driver \in Labelling =>
          /\ control[r].epoch = 0 /\ control[r].bucket # "capture-flush"
          /\ known[r].epoch = 0 /\ known[r].bucket # "capture-flush"
    /\ driver = "flushRemote" => control[HeadRank] = Flush
    /\ driver \in Flushing => control[r] = Flush
    /\ driver \in {"flushRequest", "flushWait"} /\ recent[r] => known[r] = Flush
    /\ driver \in Ending /\ FlushRow \in UnderWay =>
          control[r] \in Told /\ (recent[r] => known[r] \in Told)
    /\ known[r].epoch <= control[r].epoch /\ control[r].epoch <= control[HeadRank].epoch

EpochInv == \A r \in Rank, l \in Layer :
    /\ epochSeen[r][l] <= known[r].epoch
    /\ driver \in Labelling => InBucket(held[r][l], "capture-flush") = {}

\* What is due is still held or displaced, and in a file or displaced where the new
\* epoch has been; the flush request takes it to every collector.
Kept(r, l) == \A d \in due[r][l] : d \in held[r][l] \/ Displaced(d, r, l)
Durable(r, l) == \A d \in due[r][l] : d \in shards[r][l] \/ Displaced(d, r, l)
DueInv == \A r \in Rank, l \in Layer :
    /\ driver \in Labelling => due[r][l] = {} /\ ~flushed
    /\ \A d \in due[r][l] : d.bucket # "capture-flush"
    /\ Kept(r, l)
    /\ epochSeen[r][l] = 1 => Durable(r, l)
    /\ flushed => epochSeen[r][l] = 1 \/ due[r][l] = {}
    /\ driver = "flushWait" /\ forward.row = FlushRow /\ l <= forward.done[r] => epochSeen[r][l] = 1

\* The driver's own view of the label agrees with the files.
ActiveInv ==
    /\ driver = "next" => active = "none" \/ \A r \in Rank : control[r] = Label(active)
    /\ driver = "remote" => control[HeadRank] = Label(Corpus[row])
    /\ driver \in {"request", "wait"} =>
          active = Corpus[row] /\ \A r \in Rank : control[r] = Label(active)

\* Either all the server has, and the next prompt with it, is marked as mixed; or no
\* rank remembers another label, and none looks while the label changes.
Changing == driver = "remote" \/ (driver = "next" /\ row <= Len(Corpus) /\ Corpus[row] # active)
Marked == UnderWay \cup {row} \subseteq mixed
Steady ==
    /\ driver # "remote" => \A r \in Rank : recent[r] => known[r] = control[r]
    /\ driver # "remote" => \A i \in UnderWay \ mixed : Corpus[i] = active
    /\ Changing => UnderWay = {} /\ \A r \in Rank : ~recent[r]
LabelInv == Delay /\ driver \in Labelling => Marked \/ Steady

CaptureInv ==
    /\ CaptureTypeOK /\ DriverInv /\ ServerInv /\ HeldInv /\ ControlInv /\ EpochInv /\ DueInv
    /\ ActiveInv /\ LabelInv /\ LabelsAreRight

\* The buckets of the corpus are labels of their own.
LEMMA CorpusFacts ==
    /\ Len(Corpus) \in Nat /\ FlushRow \in Nat \ {0} /\ FlushRow = Len(Corpus) + 1
    /\ \A i \in 1..Len(Corpus) : Corpus[i] \in Bucket /\ Corpus[i] \notin {"none", "capture-flush"}
  <1>1. Len(Corpus) \in Nat
    BY CaptureAssumption
  <1> QED BY <1>1, CaptureAssumption DEF FlushRow, Bucket

\* The driver's labels are control files.
LEMMA ControlFacts ==
    /\ NoFile \in Control /\ Flush \in Control
    /\ Off(0) \in Control /\ Off(1) \in Control /\ \A e \in 0..1 : Off(e) \in Control
    /\ \A b \in Bucket : Label(b) \in Control /\ Label(b).epoch = 0 /\ Label(b).bucket = b
    /\ NoFile.epoch = 0 /\ NoFile.bucket # "capture-flush"
    /\ Flush.epoch = 1 /\ Flush.enabled /\ Flush.bucket = "capture-flush"
  BY DEF NoFile, Flush, Off, Label, Control, Bucket

\* An idle server is one of the states of its type.
LEMMA IdleFacts ==
    /\ Idle \in [row : 0..FlushRow, done : [Rank -> 0..Layers]]
    /\ Idle.row = 0 /\ \A r \in Rank : Idle.done[r] = 0
  BY CorpusFacts, CaptureAssumption DEF Idle

\* A reservoir keeps at most its capacity of a stratum, and all of it within that.
LEMMA ReservoirKeeps ==
    ASSUME NEW seen, NEW kept \in Reservoirs(seen), NEW b \in Bucket
    PROVE  /\ kept \subseteq seen
           /\ Cardinality(InBucket(kept, b)) <= Capacity
           /\ Cardinality(InBucket(seen, b)) <= Capacity => InBucket(kept, b) = InBucket(seen, b)
  <1>1. kept \subseteq seen
    BY DEF Reservoirs
  <1>2. IF Cardinality(InBucket(seen, b)) <= Capacity THEN InBucket(kept, b) = InBucket(seen, b)
        ELSE Cardinality(InBucket(kept, b)) = Capacity
    BY DEF Reservoirs, InBucket
  <1>3. Capacity <= Capacity
    BY CaptureAssumption
  <1> QED BY <1>1, <1>2, <1>3

\* Collectors start empty.
LEMMA EmptyCollectors ==
    /\ Nothing \in [Rank -> [Layer -> SUBSET Sample]] /\ Zeros \in [Rank -> [Layer -> 0..1]]
    /\ Zeros \in [Rank -> [Layer -> 0..FlushEvery - 1]]
    /\ \A r \in Rank, l \in Layer : Nothing[r][l] = {} /\ Zeros[r][l] = 0
    /\ \A b \in Bucket : Cardinality(InBucket({}, b)) <= Capacity /\ InBucket({}, b) = {}
  <1>1. \A b \in Bucket : InBucket({}, b) = {}
    BY DEF InBucket
  <1>2. Cardinality({}) = 0 /\ 0 <= Capacity
    BY FS_EmptySet, CaptureAssumption
  <1>3. 0 \in 0..FlushEvery - 1
    BY CaptureAssumption
  <1>4. /\ Nothing \in [Rank -> [Layer -> SUBSET Sample]] /\ Zeros \in [Rank -> [Layer -> 0..1]]
        /\ Zeros \in [Rank -> [Layer -> 0..FlushEvery - 1]]
        /\ \A r \in Rank, l \in Layer : Nothing[r][l] = {} /\ Zeros[r][l] = 0
    BY <1>3 DEF Nothing, Zeros
  <1> QED BY <1>1, <1>2, <1>4

\* Of a full stratum the sample that does not stay makes room for the new one.
LEMMA ReservoirTrades ==
    ASSUME NEW old \in SUBSET Sample, IsFiniteSet(old), NEW new \in Sample,
           \A b \in Bucket : Cardinality(InBucket(old, b)) <= Capacity,
           NEW kept \in Reservoirs(old \cup {new}), NEW d \in old, d \notin kept
    PROVE  new \in kept /\ new.bucket = d.bucket
  <1> DEFINE b == d.bucket
             H == InBucket(old, b)
             W == InBucket(old \cup {new}, b)
             K == InBucket(kept, b)
  <1>1. b \in Bucket
    BY DEF Sample
  <1>2. kept \subseteq old \cup {new}
    BY DEF Reservoirs
  <1>3. IF Cardinality(W) <= Capacity THEN K = W ELSE Cardinality(K) = Capacity
    BY <1>1 DEF Reservoirs, InBucket
  <1>4. d \in H /\ d \in W /\ d \notin K /\ H \subseteq old /\ K \subseteq H \cup {new}
    BY <1>2 DEF InBucket
  <1>5. ~(Cardinality(W) <= Capacity) /\ Cardinality(K) = Capacity
    BY <1>3, <1>4
  <1>6. Cardinality(H) <= Capacity
    BY <1>1
  <1>7. new.bucket = b
    <2> SUFFICES ASSUME new.bucket # b PROVE FALSE
      OBVIOUS
    <2>1. W = H
      BY DEF InBucket
    <2> QED BY <2>1, <1>5, <1>6
  <1>8. IsFiniteSet(H)
    BY <1>4, FS_Subset
  <1>9. Cardinality(H) \in Nat /\ Cardinality(H \ {d}) = Cardinality(H) - 1 /\ IsFiniteSet(H \ {d})
    BY <1>4, <1>8, FS_CardinalityType, FS_RemoveElement
  <1>10. new \in kept
    <2> SUFFICES ASSUME new \notin kept PROVE FALSE
      OBVIOUS
    <2>1. K \subseteq H \ {d}
      BY <1>4 DEF InBucket
    <2>2. Cardinality(K) <= Cardinality(H \ {d})
      BY <2>1, <1>9, FS_Subset
    <2> HIDE DEF H, W, K
    <2> QED BY <2>2, <1>5, <1>6, <1>9, CaptureAssumption
  <1> QED BY <1>7, <1>10

\* Nothing is captured, and nobody has been told anything.
LEMMA CaptureInitInv == CaptureInit => CaptureInv
  <1> SUFFICES ASSUME CaptureInit PROVE CaptureInv
    OBVIOUS
  <1> USE CorpusFacts, ControlFacts, IdleFacts, EmptyCollectors, CaptureAssumption
  <1>0. UnderWay = {}
    BY DEF CaptureInit, UnderWay
  <1>1. CaptureTypeOK
    <2>0. 1 \in 1..FlushRow /\ 0 \in 0..Len(Corpus)
      OBVIOUS
    <2>1. control \in [Rank -> Control] /\ known \in [Rank -> Control] /\ recent \in [Rank -> BOOLEAN]
      BY DEF CaptureInit
    <2>2. /\ row \in 1..FlushRow /\ active \in Bucket \cup {"none"} /\ successes \in 0..Len(Corpus)
          /\ flushed \in BOOLEAN
      BY <2>0 DEF CaptureInit
    <2>3. /\ held \in [Rank -> [Layer -> SUBSET Sample]] /\ shards \in [Rank -> [Layer -> SUBSET Sample]]
          /\ due \in [Rank -> [Layer -> SUBSET Sample]] /\ calls \in [Rank -> [Layer -> 0..FlushEvery - 1]]
          /\ epochSeen \in [Rank -> [Layer -> 0..1]]
          /\ forward \in [row : 0..FlushRow, done : [Rank -> 0..Layers]]
      BY DEF CaptureInit
    <2>4. deaths \in 0..MaxDeaths /\ posted \subseteq 1..FlushRow /\ mixed \subseteq 1..FlushRow
      BY DEF CaptureInit
    <2> QED BY <2>1, <2>2, <2>3, <2>4 DEF CaptureTypeOK
  <1>2. DriverInv /\ ServerInv
    BY <1>0 DEF CaptureInit, DriverInv, ServerInv, Labelling, Asked, Flushing, Ending
  <1>3. HeldInv
    BY FS_EmptySet DEF CaptureInit, HeldInv
  <1>4. EpochInv /\ DueInv
    BY <1>0 DEF CaptureInit, EpochInv, DueInv, Kept, Durable, Labelling, Bucket, InBucket
  <1>5. ControlInv
    BY <1>0 DEF CaptureInit, ControlInv, Labelling, Flushing, Ending
  <1>6. ActiveInv /\ LabelInv /\ LabelsAreRight
    BY <1>0 DEF CaptureInit, ActiveInv, LabelInv, Steady, Changing, LabelsAreRight
  <1> QED BY <1>1, <1>2, <1>3, <1>4, <1>5, <1>6 DEF CaptureInv

-----------------------------------------------------------------------------
\* Steps that leave the collectors alone leave what they hold within capacity, and
\* rightly labelled.
LEMMA CollectorsStay ==
    ASSUME CaptureInv, UNCHANGED collectorVars, mixed \subseteq mixed'
    PROVE  HeldInv' /\ LabelsAreRight'
  BY DEF CaptureInv, collectorVars, HeldInv, LabelsAreRight

\* If besides no label is given any more, the ranks have seen what they had.
LEMMA EpochStays ==
    ASSUME CaptureInv, UNCHANGED <<collectorVars, known>>, driver' \in Labelling => driver \in Labelling
    PROVE  EpochInv'
  BY DEF CaptureInv, collectorVars, EpochInv

\* And what is due stays due.
LEMMA DueStays ==
    ASSUME CaptureInv, UNCHANGED <<collectorVars, due, flushed>>, mixed \subseteq mixed',
           driver' \in Labelling => driver \in Labelling,
           driver' = "flushWait" /\ forward'.row = FlushRow =>
               (driver = "flushWait" /\ forward' = forward) \/ \A r \in Rank : forward'.done[r] = 0
    PROVE  DueInv'
  <1> SUFFICES ASSUME NEW r \in Rank, NEW l \in Layer
               PROVE  /\ driver' \in Labelling => due'[r][l] = {} /\ ~flushed'
                      /\ \A d \in due'[r][l] : d.bucket # "capture-flush"
                      /\ Kept(r, l)'
                      /\ epochSeen'[r][l] = 1 => Durable(r, l)'
                      /\ flushed' => epochSeen'[r][l] = 1 \/ due'[r][l] = {}
                      /\ driver' = "flushWait" /\ forward'.row = FlushRow /\ l <= forward'.done[r] =>
                             epochSeen'[r][l] = 1
    BY DEF DueInv
  <1> USE DEF CaptureInv, collectorVars
  <1>1. /\ driver' \in Labelling => due'[r][l] = {} /\ ~flushed'
        /\ \A d \in due'[r][l] : d.bucket # "capture-flush"
        /\ flushed' => epochSeen'[r][l] = 1 \/ due'[r][l] = {}
    BY DEF DueInv
  <1>2. \A d : Displaced(d, r, l) => Displaced(d, r, l)'
    BY DEF Displaced
  <1>3. Kept(r, l)' /\ (epochSeen'[r][l] = 1 => Durable(r, l)')
    BY <1>2 DEF DueInv, Kept, Durable
  <1>4. ~(l <= 0)
    BY CaptureAssumption DEF Layer
  <1>5. driver' = "flushWait" /\ forward'.row = FlushRow /\ l <= forward'.done[r] => epochSeen'[r][l] = 1
    BY <1>4 DEF DueInv
  <1> QED BY <1>1, <1>3, <1>5

\* The server has what it had, or less.
LEMMA ServerStays ==
    ASSUME CaptureInv, UNCHANGED driver, UnderWay' \subseteq UnderWay, mixed' = mixed
    PROVE  ServerInv'
  BY DEF CaptureInv, ServerInv

\* The server begins, ends or drops a request.
LEMMA ServerStepInv == ASSUME CaptureInv, ServerStep PROVE CaptureInv'
  <1>1. PICK i \in 1..FlushRow : BeginStep(i) \/ EndStep(i) \/ Discard(i)
    BY DEF ServerStep
  <1> USE DEF CaptureInv
  <1>2. /\ UNCHANGED <<controlVars, collectorVars, driverVars, historyVars, deaths>>
        /\ UnderWay' \subseteq UnderWay /\ posted' \subseteq posted
        /\ \/ forward' = forward
           \/ forward' = Idle
           \/ forward' = [row |-> i, done |-> Idle.done]
    <2>1. CASE BeginStep(i)
      <3>1. forward' = [row |-> i, done |-> Idle.done]
        BY <2>1 DEF BeginStep, Idle
      <3> QED BY <2>1, <3>1 DEF BeginStep, UnderWay
    <2>2. CASE EndStep(i)
      BY <2>2, IdleFacts DEF EndStep, UnderWay
    <2>3. CASE Discard(i)
      BY <2>3 DEF Discard, UnderWay
    <2> QED BY <1>1, <2>1, <2>2, <2>3
  <1>3. forward' \in [row : 0..FlushRow, done : [Rank -> 0..Layers]]
    BY <1>2, IdleFacts DEF CaptureTypeOK
  <1> USE DEF controlVars, collectorVars, driverVars, historyVars
  <1>4. CaptureTypeOK'
    BY <1>2, <1>3 DEF CaptureTypeOK
  <1>5. DriverInv' /\ ServerInv'
    BY <1>2, ServerStays DEF DriverInv
  <1>6. HeldInv' /\ LabelsAreRight' /\ EpochInv'
    BY <1>2, CollectorsStay, EpochStays
  <1>7. ControlInv'
    BY <1>2 DEF ControlInv
  <1>8. DueInv'
    <2>1. forward'.row = FlushRow =>
              forward' = forward \/ \A r \in Rank : forward'.done[r] = 0
      BY <1>2, IdleFacts, CorpusFacts
    <2> QED BY <1>2, <2>1, DueStays
  <1>9. ActiveInv' /\ LabelInv'
    BY <1>2 DEF ActiveInv, LabelInv, Marked, Steady, Changing
  <1> QED BY <1>4, <1>5, <1>6, <1>7, <1>8, <1>9

\* Time brings each rank to look at its file again; what it knew no longer binds it.
LEMMA TimePassesInv == ASSUME CaptureInv, NEW r \in Rank, TimePasses(r) PROVE CaptureInv'
  <1> USE DEF TimePasses, collectorVars, serverVars, driverVars, historyVars, CaptureInv
  <1>1. \A q \in Rank : recent'[q] \in BOOLEAN /\ (recent'[q] => recent[q])
    BY DEF CaptureTypeOK
  <1>2. CaptureTypeOK'
    BY DEF CaptureTypeOK
  <1>3. UnderWay' = UnderWay
    BY DEF UnderWay
  <1>4. DriverInv' /\ ServerInv'
    BY <1>3 DEF DriverInv, ServerInv
  <1>5. HeldInv' /\ LabelsAreRight' /\ EpochInv' /\ DueInv'
    BY CollectorsStay, EpochStays, DueStays
  <1>6. ControlInv'
    BY <1>1, <1>3 DEF ControlInv
  <1>7. ActiveInv' /\ LabelInv'
    BY <1>1, <1>3 DEF ActiveInv, LabelInv, Marked, Steady, Changing
  <1> QED BY <1>2, <1>4, <1>5, <1>6, <1>7

\* New processes know nothing, and hold nothing that could be due.
LEMMA RestartInv == ASSUME CaptureInv, Restart PROVE CaptureInv'
  <1> USE DEF Restart, driverVars, CaptureInv
  <1>1. \A r \in Rank, l \in Layer :
            /\ held'[r][l] = {} /\ due'[r][l] = {} /\ epochSeen'[r][l] = 0
            /\ shards'[r][l] \subseteq shards[r][l] \cup held[r][l]
    BY EmptyCollectors DEF CaptureTypeOK, Flushed
  <1>2. shards' \in [Rank -> [Layer -> SUBSET Sample]]
    BY DEF CaptureTypeOK, Flushed
  <1>3. CaptureTypeOK'
    <2>1. /\ known' \in [Rank -> Control] /\ recent' \in [Rank -> BOOLEAN]
          /\ held' \in [Rank -> [Layer -> SUBSET Sample]] /\ due' \in [Rank -> [Layer -> SUBSET Sample]]
          /\ calls' \in [Rank -> [Layer -> 0..FlushEvery - 1]] /\ epochSeen' \in [Rank -> [Layer -> 0..1]]
          /\ forward' \in [row : 0..FlushRow, done : [Rank -> 0..Layers]]
      BY EmptyCollectors, ControlFacts, IdleFacts
    <2>2. deaths' \in 0..MaxDeaths
      BY CaptureAssumption DEF CaptureTypeOK
    <2> QED BY <1>2, <2>1, <2>2 DEF CaptureTypeOK
  <1>4. UnderWay' = {}
    BY IdleFacts DEF UnderWay
  <1>5. DriverInv' /\ ServerInv'
    BY <1>4 DEF DriverInv, ServerInv
  <1>6. HeldInv'
    BY <1>1, EmptyCollectors, FS_EmptySet DEF HeldInv
  <1>7. \A r \in Rank : control[r].epoch \in 0..1 /\ known'[r].epoch = 0
                        /\ known'[r].bucket # "capture-flush" /\ ~recent'[r]
    BY ControlFacts DEF CaptureTypeOK, Control
  <1>8. EpochInv'
    BY <1>1, <1>7 DEF EpochInv, InBucket
  <1>9. DueInv'
    <2> SUFFICES ASSUME NEW r \in Rank, NEW l \in Layer
                 PROVE  /\ driver' \in Labelling => ~flushed'
                        /\ ~(driver' = "flushWait" /\ forward'.row = FlushRow)
      BY <1>1 DEF DueInv, Kept, Durable
    <2> QED BY IdleFacts, CorpusFacts DEF DueInv
  <1>10. ControlInv'
    BY <1>4, <1>7 DEF ControlInv
  <1>11. ActiveInv' /\ LabelInv'
    BY <1>4, <1>7 DEF ActiveInv, LabelInv, Steady
  <1>12. LabelsAreRight'
    <2>1. /\ mixed' = mixed
          /\ \A r \in Rank, l \in Layer :
                 held'[r][l] \cup shards'[r][l] \subseteq held[r][l] \cup shards[r][l]
      BY <1>1
    <2> QED BY <2>1 DEF LabelsAreRight
  <1> QED BY <1>3, <1>5, <1>6, <1>8, <1>9, <1>10, <1>11, <1>12

-----------------------------------------------------------------------------
\* The head is given the next label, if it is not the one in force.
LEMMA NextRowInv == ASSUME CaptureInv, NextRow PROVE CaptureInv'
  <1> USE DEF NextRow, At, Goto, SetLocal, serverVars, historyVars, CaptureInv
  <1>1. /\ row \in 1..Len(Corpus) /\ Corpus[row] \in Bucket
        /\ Corpus[row] \notin {"none", "capture-flush"}
    BY CorpusFacts DEF CaptureTypeOK
  <1>2. CaptureTypeOK'
    BY <1>1, ControlFacts DEF CaptureTypeOK, collectorVars
  <1>3. UnderWay' = UnderWay /\ driver \in Labelling /\ driver' \in {"remote", "request"}
    BY DEF UnderWay, Labelling
  <1>4. DriverInv' /\ ServerInv'
    BY <1>1, <1>3 DEF DriverInv, ServerInv, Labelling, Asked, Flushing, Ending
  <1>5. HeldInv' /\ LabelsAreRight' /\ EpochInv' /\ DueInv'
    BY <1>3, CollectorsStay, EpochStays, DueStays
  <1>6. ControlInv'
    <2>1. \A q \in Rank : control'[q] \in {control[q], Label(Corpus[row])}
      BY DEF CaptureTypeOK
    <2>2. driver' \in Labelling /\ driver' \notin Flushing \cup Ending
      BY <1>3 DEF Labelling, Flushing, Ending
    <2>3. \A q \in Rank : /\ control'[q].epoch = 0 /\ control'[q].bucket # "capture-flush"
                          /\ known'[q].epoch = 0 /\ known'[q].bucket # "capture-flush"
      BY <1>1, <1>3, <2>1, ControlFacts DEF ControlInv
    <2> QED BY <1>3, <2>2, <2>3, CaptureAssumption DEF ControlInv
  <1>7. ActiveInv'
    BY <1>1, CaptureAssumption DEF ActiveInv, CaptureTypeOK
  <1>8. LabelInv'
    <2>1. Marked => Marked'
      BY <1>3 DEF Marked
    <2>2. CASE Corpus[row] = active
      BY <2>1, <2>2, <1>3 DEF LabelInv, Steady, Changing
    <2>3. CASE Corpus[row] # active
      BY <2>1, <2>3, <1>3 DEF LabelInv, Steady, Changing
    <2> QED BY <2>2, <2>3
  <1> QED BY <1>2, <1>4, <1>5, <1>6, <1>7, <1>8

\* Now every rank has the label of the prompt.
LEMMA LabelRemoteInv == ASSUME CaptureInv, LabelRemote PROVE CaptureInv'
  <1> USE DEF LabelRemote, At, Goto, SetRemote, serverVars, historyVars, CaptureInv
  <1>1. /\ row \in 1..Len(Corpus) /\ Corpus[row] \in Bucket
        /\ Corpus[row] \notin {"none", "capture-flush"}
    BY CorpusFacts DEF CaptureTypeOK, DriverInv
  <1>2. CaptureTypeOK'
    BY <1>1, ControlFacts DEF CaptureTypeOK, collectorVars
  <1>3. UnderWay' = UnderWay /\ driver \in Labelling /\ driver' \in Labelling
    BY DEF UnderWay, Labelling
  <1>4. DriverInv' /\ ServerInv'
    BY <1>1, <1>3 DEF DriverInv, ServerInv, Labelling, Asked, Flushing, Ending
  <1>5. HeldInv' /\ LabelsAreRight' /\ EpochInv' /\ DueInv'
    BY <1>3, CollectorsStay, EpochStays, DueStays
  <1>6. ControlInv'
    <2>1. \A q \in Rank : control'[q] \in {control[q], Label(Corpus[row])}
      BY DEF CaptureTypeOK
    <2>2. driver' \notin Flushing \cup Ending \cup {"flushRemote"}
      BY DEF Flushing, Ending
    <2>3. \A q \in Rank : /\ control'[q].epoch = 0 /\ control'[q].bucket # "capture-flush"
                          /\ known'[q].epoch = 0 /\ known'[q].bucket # "capture-flush"
      BY <1>1, <1>3, <2>1, ControlFacts DEF ControlInv
    <2> QED BY <1>3, <2>2, <2>3, CaptureAssumption DEF ControlInv, Flushing
  <1>7. ActiveInv'
    BY <1>1, CaptureAssumption DEF ActiveInv, CaptureTypeOK
  <1>8. LabelInv'
    BY <1>3 DEF LabelInv, Marked, Steady, Changing
  <1> QED BY <1>2, <1>4, <1>5, <1>6, <1>7, <1>8

\* The server has the request; where the label has changed no rank has looked before.
LEMMA RequestInv == ASSUME CaptureInv, Request PROVE CaptureInv'
  <1> USE DEF Request, At, Goto, Post, controlVars, historyVars, CaptureInv
  <1>1. row \in 1..Len(Corpus) /\ Corpus[row] = active
    BY CorpusFacts DEF CaptureTypeOK, DriverInv, ActiveInv
  <1>2. CaptureTypeOK'
    BY <1>1, CorpusFacts DEF CaptureTypeOK, collectorVars
  <1>3. UnderWay' = UnderWay \cup {row} /\ driver \in Labelling /\ driver' \in Labelling
    BY DEF UnderWay, Labelling
  <1>4. DriverInv'
    BY DEF DriverInv, Labelling
  <1>5. ServerInv'
    <2>1. FlushRow \notin UnderWay'
      BY <1>1, <1>3, CorpusFacts DEF ServerInv
    <2>2. UnderWay' \subseteq 1..Len(Corpus) /\ UnderWay' \subseteq 1..FlushRow
      BY <1>1, <1>3, CorpusFacts DEF ServerInv
    <2> QED BY <1>3, <2>1, <2>2 DEF ServerInv, Labelling, Asked, Flushing, Ending
  <1>6. HeldInv' /\ LabelsAreRight' /\ EpochInv' /\ DueInv'
    BY <1>3, CollectorsStay, EpochStays, DueStays
  <1>7. ControlInv'
    BY <1>3 DEF ControlInv, Labelling, Flushing, Ending
  <1>8. ActiveInv'
    BY DEF ActiveInv
  <1>9. LabelInv'
    BY <1>1, <1>3 DEF LabelInv, Marked, Steady, Changing
  <1> QED BY <1>2, <1>4, <1>5, <1>6, <1>7, <1>8, <1>9

\* Answered or not, the driver goes on to the next row after its pause. What the
\* server still has is marked, and the next prompt with it, if the label changes.
LEMMA ReplyInv == ASSUME CaptureInv, Reply \/ RequestFails PROVE CaptureInv'
  <1>1. /\ driver = "wait" /\ NextPrompt /\ driver' = "next" /\ driver \in Labelling /\ driver' \in Labelling
        /\ row' = row + 1 /\ recent' = Rested
        /\ \/ forward' = forward /\ successes' = successes
           \/ forward' = Idle /\ successes' = successes + 1
    BY DEF Reply, RequestFails, NextPrompt, At, Goto, Labelling
  <1>2. /\ UNCHANGED <<control, known, collectorVars, posted, active, flushed, due, deaths>>
        /\ mixed' = IF Mixes THEN mixed \cup UnderWay' \cup {row'} ELSE mixed
    BY <1>1 DEF NextPrompt
  <1> USE DEF CaptureInv
  <1>3. row \in 1..Len(Corpus)
    BY <1>1, CorpusFacts DEF CaptureTypeOK, DriverInv
  <1>4. recent' \in [Rank -> BOOLEAN] /\ (Delay => \A r \in Rank : ~recent'[r])
    BY <1>1 DEF CaptureTypeOK, Rested
  <1>5. row' \in 1..FlushRow /\ successes' \in 0..Len(Corpus) /\ successes' < row'
    BY <1>1, <1>3, CorpusFacts DEF CaptureTypeOK, DriverInv
  <1>6. UnderWay' \subseteq UnderWay /\ UnderWay \subseteq 1..Len(Corpus)
    BY <1>1, <1>2, IdleFacts DEF UnderWay, ServerInv
  <1>7. mixed \subseteq mixed' /\ mixed' \subseteq 1..FlushRow
    BY <1>2, <1>5, <1>6, CorpusFacts DEF CaptureTypeOK
  <1>8. CaptureTypeOK'
    BY <1>1, <1>2, <1>4, <1>5, <1>7, IdleFacts DEF CaptureTypeOK, collectorVars
  <1>9. DriverInv'
    BY <1>1, <1>5 DEF DriverInv
  <1>10. ServerInv'
    BY <1>1, <1>6, CorpusFacts DEF ServerInv, Labelling, Asked, Flushing, Ending
  <1>11. HeldInv' /\ LabelsAreRight' /\ EpochInv' /\ DueInv'
    BY <1>1, <1>2, <1>7, CollectorsStay, EpochStays, DueStays
  <1>12. ControlInv'
    BY <1>1, <1>2 DEF ControlInv, Flushing, Ending
  <1>13. ActiveInv'
    BY <1>1, <1>2 DEF ActiveInv
  <1>14. LabelInv'
    <2> SUFFICES ASSUME Delay, ~Marked' PROVE Steady'
      BY DEF LabelInv
    <2>1. \A r \in Rank : ~recent'[r]
      BY <1>4
    <2>2. ~Mixes
      BY <1>2 DEF Marked
    <2>3. Corpus[row] = active
      BY <1>1 DEF ActiveInv
    <2>4. Changing' => UnderWay' = {}
      <3> SUFFICES ASSUME Changing' PROVE UnderWay' = {}
        OBVIOUS
      <3>1. row + 1 <= Len(Corpus) /\ Corpus[row + 1] # Corpus[row]
        BY <1>1, <1>2, <2>3 DEF Changing
      <3> QED BY <2>2, <3>1, <1>3, CorpusFacts DEF Mixes
    <2>5. \A i \in UnderWay' \ mixed' : Corpus[i] = active'
      <3>1. mixed' = mixed
        BY <1>2, <2>2
      <3>2. CASE Marked
        BY <3>1, <3>2, <1>6 DEF Marked
      <3>3. CASE Steady
        BY <3>1, <3>3, <1>1, <1>2, <1>6 DEF Steady
      <3> QED BY <3>2, <3>3, <1>1 DEF LabelInv
    <2> QED BY <2>1, <2>4, <2>5 DEF Steady
  <1> QED BY <1>8, <1>9, <1>10, <1>11, <1>12, <1>13, <1>14

-----------------------------------------------------------------------------
\* From here on no prompt is labelled; what the server has is marked, and what the
\* collectors hold is due.
LEMMA FinallyInv == ASSUME CaptureInv, Finally PROVE CaptureInv'
  <1> USE DEF CaptureInv
  <1>1. /\ driver \in Labelling /\ driver' \in {"flushRemote", "offRemote"}
        /\ \/ driver' = "flushRemote" /\ due' = held /\ control' = [control EXCEPT ![HeadRank] = Flush]
           \/ driver' = "offRemote" /\ due' = due /\ control' = [control EXCEPT ![HeadRank] = Off(0)]
        /\ mixed' = mixed \cup UnderWay
        /\ UNCHANGED <<known, recent, collectorVars, serverVars, row, active, successes, flushed, deaths>>
    BY DEF Finally, SetLocal, Goto, Labelling
  <1>2. /\ control' \in [Rank -> Control]
        /\ driver' = "flushRemote" => control'[HeadRank] = Flush
        /\ \A r \in Rank : r # HeadRank => control'[r] = control[r]
        /\ \A r \in Rank : control'[r].epoch <= control'[HeadRank].epoch
    <2>1. HeadRank \in Rank /\ control \in [Rank -> Control]
      BY CaptureAssumption DEF CaptureTypeOK
    <2>2. \A r \in Rank : control[r].epoch = 0
      BY <1>1 DEF ControlInv
    <2>3. Off(0).epoch = 0
      BY DEF Off
    <2> QED BY <1>1, <2>1, <2>2, <2>3, ControlFacts
  <1>3. UnderWay' = UnderWay /\ UnderWay \subseteq 1..Len(Corpus)
    BY <1>1 DEF UnderWay, serverVars, ServerInv
  <1>4. driver' \notin Labelling /\ driver' \in Asked /\ driver' \notin Flushing
    BY <1>1 DEF Labelling, Asked, Flushing, Ending
  <1>5. due' \in [Rank -> [Layer -> SUBSET Sample]]
    BY <1>1 DEF CaptureTypeOK
  <1>6. CaptureTypeOK'
    BY <1>1, <1>2, <1>3, <1>5, CorpusFacts DEF CaptureTypeOK, collectorVars, serverVars
  <1>7. DriverInv'
    BY <1>1, <1>4 DEF DriverInv
  <1>8. ServerInv'
    BY <1>1, <1>3, <1>4, CorpusFacts DEF ServerInv
  <1>9. HeldInv' /\ LabelsAreRight' /\ EpochInv'
    BY <1>1, <1>4, CollectorsStay, EpochStays
  <1>10. ControlInv'
    <2>1. \A r \in Rank : known'[r].epoch = 0 /\ control'[r].epoch \in 0..1
      BY <1>1, <1>2 DEF ControlInv, Control
    <2>2. FlushRow \notin UnderWay'
      BY <1>3, CorpusFacts
    <2> QED BY <1>1, <1>2, <1>4, <2>1, <2>2 DEF ControlInv
  <1>11. DueInv'
    <2> SUFFICES ASSUME NEW r \in Rank, NEW l \in Layer
                 PROVE  /\ \A d \in due'[r][l] : d.bucket # "capture-flush" /\ d \in held'[r][l]
                        /\ epochSeen'[r][l] = 0 /\ ~flushed'
      BY <1>1, <1>4 DEF DueInv, Kept
    <2>1. known[r].epoch = 0 /\ epochSeen[r][l] <= known[r].epoch /\ epochSeen[r][l] \in 0..1
      BY <1>1 DEF ControlInv, EpochInv, CaptureTypeOK
    <2>2. due[r][l] = {} /\ ~flushed
      BY <1>1 DEF DueInv
    <2>3. \A d \in held[r][l] : d.bucket # "capture-flush"
      BY <1>1 DEF EpochInv, InBucket
    <2> QED BY <1>1, <2>1, <2>2, <2>3 DEF collectorVars
  <1>12. ActiveInv' /\ LabelInv'
    BY <1>1, <1>4 DEF ActiveInv, LabelInv
  <1> QED BY <1>6, <1>7, <1>8, <1>9, <1>10, <1>11, <1>12

\* Every rank has been told.
LEMMA FlushRemoteInv == ASSUME CaptureInv, FlushRemote PROVE CaptureInv'
  <1> USE DEF FlushRemote, At, Goto, SetRemote, serverVars, historyVars, CaptureInv
  <1>1. /\ \A r \in Rank : control'[r] = Flush
        /\ control' \in [Rank -> Control]
    BY ControlFacts, CaptureAssumption DEF CaptureTypeOK, ControlInv
  <1>2. CaptureTypeOK'
    BY <1>1 DEF CaptureTypeOK, collectorVars
  <1>3. /\ UnderWay' = UnderWay /\ driver' \notin Labelling \cup Ending
        /\ driver \in Asked /\ driver' \in Asked /\ driver \notin Labelling \cup Ending
    BY DEF UnderWay, Labelling, Asked, Flushing, Ending
  <1>4. DriverInv' /\ ServerInv'
    BY <1>3 DEF DriverInv, ServerInv
  <1>5. HeldInv' /\ LabelsAreRight' /\ EpochInv' /\ DueInv'
    BY <1>3, CollectorsStay, EpochStays, DueStays
  <1>6. ControlInv'
    <2>1. \A r \in Rank : known[r].epoch \in 0..1
      BY DEF CaptureTypeOK, Control
    <2> QED BY <1>1, <1>3, <2>1, ControlFacts, CaptureAssumption DEF ControlInv
  <1>7. ActiveInv' /\ LabelInv'
    BY <1>3 DEF ActiveInv, LabelInv
  <1> QED BY <1>2, <1>4, <1>5, <1>6, <1>7

\* After the sleep every rank looks at its file before it answers.
LEMMA SleepInv == ASSUME CaptureInv, Sleep PROVE CaptureInv'
  <1> USE DEF Sleep, At, Goto, serverVars, historyVars, CaptureInv
  <1>1. recent' \in [Rank -> BOOLEAN] /\ \A r \in Rank : ~recent'[r]
    OBVIOUS
  <1>2. CaptureTypeOK'
    BY <1>1 DEF CaptureTypeOK, collectorVars
  <1>3. /\ UnderWay' = UnderWay /\ driver' \notin Labelling \cup Ending
        /\ driver \in Asked /\ driver' \in Asked /\ driver \notin Labelling \cup Ending
        /\ driver \in Flushing
    BY DEF UnderWay, Labelling, Asked, Flushing, Ending
  <1>4. DriverInv' /\ ServerInv'
    BY <1>3 DEF DriverInv, ServerInv
  <1>5. HeldInv' /\ LabelsAreRight' /\ EpochInv' /\ DueInv'
    BY <1>3, CollectorsStay, EpochStays, DueStays
  <1>6. ControlInv'
    BY <1>1, <1>3 DEF ControlInv
  <1>7. ActiveInv' /\ LabelInv'
    BY <1>3 DEF ActiveInv, LabelInv
  <1> QED BY <1>2, <1>4, <1>5, <1>6, <1>7

\* The flush request has not begun.
LEMMA FlushRequestInv == ASSUME CaptureInv, FlushRequest PROVE CaptureInv'
  <1> USE DEF FlushRequest, At, Goto, Post, controlVars, historyVars, CaptureInv
  <1>0. FlushRow \in 1..FlushRow
    BY CorpusFacts
  <1>1. CaptureTypeOK'
    BY <1>0 DEF CaptureTypeOK, collectorVars
  <1>2. /\ UnderWay' = UnderWay \cup {FlushRow} /\ driver' \notin Labelling \cup Ending
        /\ driver \in Asked /\ driver' \in Asked /\ driver \in Flushing /\ driver' \in Flushing
        /\ driver \notin {"flushWait"} \cup Ending
    BY DEF UnderWay, Labelling, Asked, Flushing, Ending
  <1>3. FlushRow \notin UnderWay /\ forward.row # FlushRow
    BY <1>2, CorpusFacts DEF ServerInv, UnderWay
  <1>4. DriverInv' /\ ServerInv'
    <2>1. UnderWay' \subseteq 1..FlushRow /\ UnderWay' \subseteq mixed' \cup {FlushRow}
      BY <1>0, <1>2 DEF ServerInv
    <2> QED BY <1>2, <2>1 DEF DriverInv, ServerInv
  <1>5. HeldInv' /\ LabelsAreRight' /\ EpochInv' /\ DueInv'
    BY <1>2, <1>3, CollectorsStay, EpochStays, DueStays
  <1>6. ControlInv'
    BY <1>2 DEF ControlInv
  <1>7. ActiveInv' /\ LabelInv'
    BY <1>2 DEF ActiveInv, LabelInv
  <1> QED BY <1>1, <1>4, <1>5, <1>6, <1>7

\* The request has been through every layer of every rank, or the flush is given up
\* and not reported as complete. What a rank may still be told is no label.
LEMMA FlushEndsInv == ASSUME CaptureInv, FlushReply \/ FlushFails PROVE CaptureInv'
  <1> USE DEF CaptureInv
  <1>1. /\ driver \in {"flushRemote"} \cup Flushing /\ driver' = "offRemote"
        /\ control' = [control EXCEPT ![HeadRank] = Off(1)]
        /\ UnderWay' \subseteq UnderWay
        /\ UNCHANGED <<known, recent, collectorVars, posted, row, active, successes, historyVars, deaths>>
        /\ forward' \in {forward, Idle}
        /\ \/ flushed' = flushed
           \/ flushed' = TRUE /\ driver = "flushWait" /\ StepDone(FlushRow)
    BY IdleFacts DEF FlushReply, FlushFails, At, Goto, SetLocal, serverVars, UnderWay, Flushing
  <1>2. /\ control' \in [Rank -> Control]
        /\ \A r \in Rank : control'[r] = IF r = HeadRank THEN Off(1) ELSE control[r]
    BY <1>1, ControlFacts DEF CaptureTypeOK
  <1>3. CaptureTypeOK'
    BY <1>1, <1>2, IdleFacts DEF CaptureTypeOK, collectorVars, historyVars
  <1>4. /\ driver' \notin Labelling \cup Flushing \cup {"flushRemote"} /\ driver' \in Asked \cap Ending
        /\ driver \in Asked /\ driver \notin Labelling
    BY <1>1 DEF Labelling, Asked, Flushing, Ending
  <1>5. DriverInv' /\ ServerInv'
    BY <1>1, <1>4 DEF DriverInv, ServerInv, historyVars
  <1>6. HeldInv' /\ LabelsAreRight' /\ EpochInv'
    BY <1>1, <1>4, CollectorsStay, EpochStays DEF historyVars
  <1>7. ControlInv'
    <2>1. FlushRow \in UnderWay' => driver = "flushWait"
      BY <1>1 DEF ServerInv, Flushing, Ending
    <2>2. driver = "flushWait" => \A r \in Rank : control[r] = Flush /\ (recent[r] => known[r] = Flush)
      BY DEF ControlInv, Flushing
    <2>3. Off(1).epoch = 1 /\ \A r \in Rank : control[r].epoch \in 0..1 /\ known[r].epoch \in 0..1
      BY DEF Off, CaptureTypeOK, Control
    <2>4. \A r \in Rank : known'[r].epoch <= control'[r].epoch /\ control'[r].epoch <= control'[HeadRank].epoch
      BY <1>1, <1>2, <2>3, CaptureAssumption DEF ControlInv
    <2> QED BY <1>1, <1>2, <1>4, <2>1, <2>2, <2>4 DEF ControlInv, Told
  <1>8. DueInv'
    <2> SUFFICES ASSUME NEW r \in Rank, NEW l \in Layer
                 PROVE  /\ \A d \in due'[r][l] : d.bucket # "capture-flush"
                        /\ Kept(r, l)'
                        /\ epochSeen'[r][l] = 1 => Durable(r, l)'
                        /\ flushed' => epochSeen'[r][l] = 1 \/ due'[r][l] = {}
      BY <1>1, <1>4 DEF DueInv
    <2>1. \A d : Displaced(d, r, l) => Displaced(d, r, l)'
      BY <1>1 DEF Displaced, collectorVars, historyVars
    <2>2. Kept(r, l)' /\ (epochSeen'[r][l] = 1 => Durable(r, l)')
      BY <1>1, <2>1 DEF DueInv, Kept, Durable, collectorVars, historyVars
    <2>3. driver = "flushWait" /\ StepDone(FlushRow) => epochSeen[r][l] = 1
      BY CaptureAssumption DEF DueInv, StepDone, Layer
    <2> QED BY <1>1, <2>2, <2>3 DEF DueInv, collectorVars, historyVars
  <1>9. ActiveInv' /\ LabelInv'
    BY <1>1, <1>4 DEF ActiveInv, LabelInv
  <1> QED BY <1>3, <1>5, <1>6, <1>7, <1>8, <1>9

\* Capture is switched off, or stays on at a rank that cannot be reached.
LEMMA OffRemoteInv == ASSUME CaptureInv, OffRemote PROVE CaptureInv'
  <1> USE DEF OffRemote, At, Goto, SetRemote, serverVars, historyVars, CaptureInv
  <1> DEFINE last == control[HeadRank].epoch
  <1>0. HeadRank \in Rank /\ last \in 0..1 /\ Off(last) \in Control /\ Off(last).epoch = last
    <2>1. HeadRank \in Rank /\ last \in 0..1
      BY CaptureAssumption DEF CaptureTypeOK, Control
    <2> QED BY <2>1, ControlFacts DEF Off
  <1>1. /\ control' \in [Rank -> Control] /\ control'[HeadRank] = control[HeadRank]
        /\ \A r \in Rank : control'[r] = control[r] \/ control'[r] = Off(last)
    BY <1>0 DEF CaptureTypeOK
  <1>2. CaptureTypeOK'
    BY <1>1 DEF CaptureTypeOK, collectorVars
  <1>3. /\ UnderWay' = UnderWay /\ driver' \notin Labelling \cup Flushing
        /\ driver \in Asked /\ driver' \in Asked /\ driver \in Ending /\ driver' \in Ending
        /\ driver' \notin {"flushRemote", "flushRequest", "flushWait"}
    BY DEF UnderWay, Labelling, Asked, Flushing, Ending
  <1>4. DriverInv' /\ ServerInv'
    BY <1>3 DEF DriverInv, ServerInv
  <1>5. HeldInv' /\ LabelsAreRight' /\ EpochInv' /\ DueInv'
    BY <1>3, CollectorsStay, EpochStays, DueStays
  <1>6. ControlInv'
    <2>1. FlushRow \in UnderWay => last = 1
      BY <1>0, <1>3, ControlFacts DEF ControlInv, Told, Off
    <2>2. \A r \in Rank : /\ known'[r].epoch <= control'[r].epoch
                          /\ control'[r].epoch <= control'[HeadRank].epoch
      <3>1. \A r \in Rank : /\ known[r].epoch \in 0..1 /\ control[r].epoch \in 0..1
                            /\ known[r].epoch <= control[r].epoch /\ control[r].epoch <= last
        BY DEF CaptureTypeOK, Control, ControlInv
      <3>2. control'[HeadRank].epoch = last /\ UNCHANGED known
        BY <1>1
      <3>3. \A r \in Rank : control'[r].epoch \in {control[r].epoch, last}
        BY <1>0, <1>1
      <3> HIDE DEF last
      <3> QED BY <1>0, <3>1, <3>2, <3>3
    <2>3. \A r \in Rank : FlushRow \in UnderWay => control'[r] \in Told /\ (recent'[r] => known'[r] \in Told)
      BY <1>1, <1>3, <2>1 DEF ControlInv, Told
    <2> QED BY <1>3, <2>2, <2>3 DEF ControlInv
  <1>7. ActiveInv' /\ LabelInv'
    BY <1>3 DEF ActiveInv, LabelInv
  <1> QED BY <1>2, <1>4, <1>5, <1>6, <1>7

-----------------------------------------------------------------------------
\* A layer that sees the new epoch puts what it holds into files before it samples.
\* What it samples once the prompts are over is of a marked request, or of the flush
\* request and in a stratum of its own.
LEMMA RunLayerInv == ASSUME CaptureInv, NEW r \in Rank, RunLayer(r) PROVE CaptureInv'
  <1> DEFINE l == forward.done[r] + 1
             c == Looked(r)
             sample == [row |-> forward.row, bucket |-> c.bucket, pid |-> deaths]
             taken == IF c.enabled THEN {sample} ELSE {}
             count == IF c.enabled THEN (calls[r][l] + 1) % FlushEvery ELSE calls[r][l]
             before == IF c.epoch # epochSeen[r][l] THEN Flushed(shards[r][l], held[r][l])
                       ELSE shards[r][l]
  <1> USE DEF CaptureInv
  <1>1. /\ forward.row # 0 /\ forward.done[r] < Layers
        /\ forward' = [forward EXCEPT !.done[r] = @ + 1]
        /\ Look(r) /\ UNCHANGED <<posted, driver, row, active, successes, flushed, due, mixed, deaths>>
        /\ calls' = [calls EXCEPT ![r][l] = count]
        /\ epochSeen' = [epochSeen EXCEPT ![r][l] = c.epoch]
    BY DEF RunLayer, Observe, driverVars, historyVars
  <1>2. PICK kept \in Reservoirs(held[r][l] \cup taken) :
            /\ held' = [held EXCEPT ![r][l] = kept]
            /\ shards' = [shards EXCEPT ![r][l] =
                   IF c.enabled /\ count = 0 THEN Flushed(before, kept) ELSE before]
    BY DEF RunLayer, Observe
  <1> DEFINE files == IF c.enabled /\ count = 0 THEN Flushed(before, kept) ELSE before
  <1>3. l \in Layer /\ l \in Nat /\ forward.done \in [Rank -> 0..Layers]
    BY <1>1, CaptureAssumption, SMTT(20) DEF CaptureTypeOK, Layer
  <1>4. c \in Control /\ c.bucket \in Bucket /\ c.enabled \in BOOLEAN /\ c.epoch \in 0..1
    BY DEF Looked, CaptureTypeOK, Control
  <1>5. sample \in Sample
    BY <1>1, <1>4, CorpusFacts, SMTT(20) DEF CaptureTypeOK, Sample
  <1>6. kept \subseteq held[r][l] \cup taken
    BY <1>2 DEF Reservoirs
  <1>7. /\ files \subseteq shards[r][l] \cup held[r][l] \cup taken
        /\ files \in {before, Flushed(before, kept)}
    BY <1>6 DEF Flushed
  <1>8. kept \subseteq Sample /\ files \subseteq Sample /\ held[r][l] \subseteq Sample
    <2>1. held[r][l] \subseteq Sample /\ shards[r][l] \subseteq Sample
      BY <1>3 DEF CaptureTypeOK
    <2>2. taken \subseteq Sample
      BY <1>5
    <2> HIDE DEF taken, files
    <2> QED BY <1>6, <1>7, <2>1, <2>2
  <1>9. count \in 0..FlushEvery - 1
    <2>1. calls[r][l] \in 0..FlushEvery - 1
      BY <1>3 DEF CaptureTypeOK
    <2>2. (calls[r][l] + 1) % FlushEvery \in 0..FlushEvery - 1
      BY <2>1, CaptureAssumption, SMTT(20)
    <2> QED BY <2>1, <2>2
  <1>10. \A q \in Rank, k \in Layer :
            /\ held'[q][k] = IF q = r /\ k = l THEN kept ELSE held[q][k]
            /\ shards'[q][k] = IF q = r /\ k = l THEN files ELSE shards[q][k]
            /\ epochSeen'[q][k] = IF q = r /\ k = l THEN c.epoch ELSE epochSeen[q][k]
    BY <1>1, <1>2, <1>3 DEF CaptureTypeOK
  <1>11. /\ \A q \in Rank : forward'.done[q] = IF q = r THEN l ELSE forward.done[q]
         /\ forward'.row = forward.row
    BY <1>1 DEF CaptureTypeOK
  <1>12. /\ control' = control
         /\ \A q \in Rank : known'[q] = IF q = r THEN c ELSE known[q]
         /\ \A q \in Rank : recent'[q] = IF q = r THEN TRUE ELSE recent[q]
    BY <1>1 DEF Look, CaptureTypeOK
  <1>13. UnderWay' = UnderWay /\ forward.row \in UnderWay
    BY <1>1, <1>11 DEF UnderWay
  <1>14. c = control[r] \/ (recent[r] /\ c = known[r])
    BY DEF Looked
  <1>15. driver \in Labelling => c.epoch = 0 /\ c.bucket # "capture-flush"
    BY <1>14 DEF ControlInv
  <1>16. driver \in {"flushRequest", "flushWait"} => c = Flush
    BY <1>14 DEF ControlInv, Flushing
  <1>17. known[r].epoch <= c.epoch /\ c.epoch <= control[r].epoch
    BY <1>4, <1>14 DEF ControlInv, CaptureTypeOK, Control
  <1>18. driver \in Asked => forward.row \in mixed \/ (c.enabled => c.bucket = "capture-flush")
    <2> SUFFICES ASSUME driver \in Asked, forward.row \notin mixed
                 PROVE  c.enabled => c.bucket = "capture-flush"
      OBVIOUS
    <2>1. forward.row = FlushRow /\ FlushRow \in UnderWay
      BY <1>13 DEF ServerInv
    <2>2. driver = "flushWait" \/ driver \in Ending
      BY <2>1 DEF ServerInv
    <2>3. c \in Told
      BY <1>14, <1>16, <2>1, <2>2 DEF ControlInv, Told
    <2> QED BY <2>3, ControlFacts DEF Told, Off
  <1> HIDE DEF l, c, sample, count, before, files
  <1>19. CaptureTypeOK'
    <2>1. forward' \in [row : 0..FlushRow, done : [Rank -> 0..Layers]]
      <3>1. forward.done[r] + 1 \in 0..Layers
        BY <1>1, <1>3, CaptureAssumption
      <3>2. forward' = [row |-> forward.row, done |-> [forward.done EXCEPT ![r] = forward.done[r] + 1]]
        BY <1>1 DEF CaptureTypeOK
      <3>3. forward.row \in 0..FlushRow
        BY DEF CaptureTypeOK
      <3> QED BY <3>1, <3>2, <3>3, <1>3
    <2>2. control' \in [Rank -> Control] /\ known' \in [Rank -> Control] /\ recent' \in [Rank -> BOOLEAN]
      BY <1>1, <1>4, <1>12 DEF Look, CaptureTypeOK, c
    <2>3. held' \in [Rank -> [Layer -> SUBSET Sample]]
      BY <1>2, <1>3, <1>8 DEF CaptureTypeOK
    <2>4. shards' \in [Rank -> [Layer -> SUBSET Sample]]
      BY <1>2, <1>3, <1>8 DEF CaptureTypeOK, files
    <2>5. calls' \in [Rank -> [Layer -> 0..FlushEvery - 1]]
      BY <1>1, <1>3, <1>9 DEF CaptureTypeOK
    <2>6. epochSeen' \in [Rank -> [Layer -> 0..1]]
      BY <1>1, <1>3, <1>4 DEF CaptureTypeOK
    <2> QED BY <1>1, <2>1, <2>2, <2>3, <2>4, <2>5, <2>6 DEF CaptureTypeOK
  <1>20. DriverInv' /\ ServerInv'
    BY <1>1, <1>13 DEF DriverInv, ServerInv
  <1>21. HeldInv'
    <2>1. IsFiniteSet(kept)
      <3>1. IsFiniteSet(held[r][l])
        BY <1>3 DEF HeldInv
      <3>2. IsFiniteSet(held[r][l] \cup {sample})
        BY <3>1, FS_AddElement
      <3>3. kept \subseteq held[r][l] \cup {sample}
        BY <1>6
      <3> HIDE DEF taken
      <3> QED BY <3>2, <3>3, FS_Subset
    <2>2. \A b \in Bucket : Cardinality(InBucket(kept, b)) <= Capacity
      BY <1>2, ReservoirKeeps
    <2> QED BY <1>10, <2>1, <2>2 DEF HeldInv
  <1>22. ControlInv'
    <2> SUFFICES ASSUME NEW q \in Rank
                 PROVE  /\ driver \in Labelling => known'[q].epoch = 0 /\ known'[q].bucket # "capture-flush"
                        /\ driver \in {"flushRequest", "flushWait"} /\ recent'[q] => known'[q] = Flush
                        /\ driver \in Ending /\ FlushRow \in UnderWay /\ recent'[q] => known'[q] \in Told
                        /\ known'[q].epoch <= control[q].epoch
      BY <1>1, <1>12, <1>13 DEF ControlInv
    <2>1. CASE q = r
      <3>1. known'[q] = c
        BY <1>12, <2>1
      <3>2. driver \in Ending /\ FlushRow \in UnderWay => c \in Told
        BY <1>14 DEF ControlInv
      <3> QED BY <1>15, <1>16, <1>17, <2>1, <3>1, <3>2
    <2>2. CASE q # r
      BY <1>12, <2>2 DEF ControlInv
    <2> QED BY <2>1, <2>2
  <1>23. EpochInv'
    <2> SUFFICES ASSUME NEW q \in Rank, NEW k \in Layer
                 PROVE  /\ epochSeen'[q][k] <= known'[q].epoch
                        /\ driver' \in Labelling => InBucket(held'[q][k], "capture-flush") = {}
      BY DEF EpochInv
    <2>1. epochSeen[q][k] \in 0..1 /\ known[q].epoch \in 0..1 /\ epochSeen[q][k] <= known[q].epoch
      BY DEF EpochInv, CaptureTypeOK, Control
    <2>2. epochSeen'[q][k] <= known'[q].epoch
      BY <2>1, <1>4, <1>10, <1>12, <1>17
    <2>3. ASSUME driver' \in Labelling PROVE InBucket(held'[q][k], "capture-flush") = {}
      <3>1. InBucket(held[q][k], "capture-flush") = {}
        BY <2>3, <1>1 DEF EpochInv
      <3>2. sample.bucket # "capture-flush"
        BY <2>3, <1>1, <1>15 DEF sample
      <3> QED BY <3>1, <3>2, <1>6, <1>10 DEF InBucket
    <2> QED BY <2>2, <2>3
  \* The sample that is dropped for a marked one is displaced by it.
  <1>24. \A d \in held[r][l] : driver \in Asked /\ d.bucket # "capture-flush" /\ d \notin kept =>
             \E s \in kept : s.bucket = d.bucket /\ s.row \in mixed
    <2> SUFFICES ASSUME NEW d \in held[r][l], driver \in Asked, d.bucket # "capture-flush", d \notin kept
                 PROVE  \E s \in kept : s.bucket = d.bucket /\ s.row \in mixed
      OBVIOUS
    <2>1. /\ IsFiniteSet(held[r][l])
          /\ \A b \in Bucket : Cardinality(InBucket(held[r][l], b)) <= Capacity
      BY <1>3 DEF HeldInv
    <2>2. c.enabled
      <3> SUFFICES ASSUME ~c.enabled PROVE FALSE
        OBVIOUS
      <3>1. held[r][l] \cup taken = held[r][l]
        OBVIOUS
      <3>2. d.bucket \in Bucket
        BY <1>8 DEF Sample
      <3>3. InBucket(kept, d.bucket) = InBucket(held[r][l], d.bucket)
        BY <3>1, <3>2, <2>1, <1>2, ReservoirKeeps
      <3> QED BY <3>3 DEF InBucket
    <2>3. kept \in Reservoirs(held[r][l] \cup {sample})
      BY <2>2, <1>2
    <2>4. sample \in kept /\ sample.bucket = d.bucket
      BY <2>1, <2>3, <1>5, <1>8, ReservoirTrades
    <2>5. sample.row \in mixed
      BY <2>2, <2>4, <1>18 DEF sample
    <2> QED BY <2>4, <2>5
  <1>25. DueInv'
    <2> SUFFICES ASSUME NEW q \in Rank, NEW k \in Layer
                 PROVE  /\ driver' \in Labelling => due'[q][k] = {} /\ ~flushed'
                        /\ \A d \in due'[q][k] : d.bucket # "capture-flush"
                        /\ Kept(q, k)'
                        /\ epochSeen'[q][k] = 1 => Durable(q, k)'
                        /\ flushed' => epochSeen'[q][k] = 1 \/ due'[q][k] = {}
                        /\ driver' = "flushWait" /\ forward'.row = FlushRow /\ k <= forward'.done[q] =>
                               epochSeen'[q][k] = 1
      BY DEF DueInv
    <2>1. /\ driver' \in Labelling => due'[q][k] = {} /\ ~flushed'
          /\ \A d \in due'[q][k] : d.bucket # "capture-flush"
      BY <1>1 DEF DueInv
    <2>2. epochSeen[q][k] = 1 => epochSeen'[q][k] = 1
      <3>1. epochSeen[q][k] <= known[q].epoch /\ known[q].epoch \in 0..1
        BY DEF EpochInv, CaptureTypeOK, Control
      <3> QED BY <3>1, <1>4, <1>10, <1>17
    <2>3. flushed' => epochSeen'[q][k] = 1 \/ due'[q][k] = {}
      BY <1>1, <2>2 DEF DueInv
    <2>4. CASE ~(q = r /\ k = l)
      <3>1. held'[q][k] = held[q][k] /\ shards'[q][k] = shards[q][k] /\ epochSeen'[q][k] = epochSeen[q][k]
        BY <2>4, <1>10
      <3>2. \A d : Displaced(d, q, k) => Displaced(d, q, k)'
        BY <3>1, <1>1 DEF Displaced
      <3>3. Kept(q, k)' /\ (epochSeen'[q][k] = 1 => Durable(q, k)')
        BY <3>1, <3>2, <1>1 DEF DueInv, Kept, Durable
      <3>4. k <= forward'.done[q] => k <= forward.done[q]
        BY <2>4, <1>3, <1>11 DEF l, Layer
      <3>5. driver' = "flushWait" /\ forward'.row = FlushRow /\ k <= forward'.done[q] => epochSeen'[q][k] = 1
        BY <3>1, <3>4, <1>1, <1>11 DEF DueInv
      <3> QED BY <2>1, <2>3, <3>3, <3>5
    <2>5. CASE q = r /\ k = l
      <3>1. driver' = "flushWait" => epochSeen'[q][k] = 1
        BY <2>5, <1>1, <1>10, <1>16, ControlFacts
      <3>2. CASE driver \in Labelling
        BY <2>1, <2>3, <3>1, <3>2, <1>1 DEF Kept, Durable, Labelling
      <3>3. CASE driver \in Asked
        <4>1. held'[q][k] = kept /\ shards'[q][k] = files /\ due'[q][k] = due[r][l]
          BY <2>5, <1>1, <1>10
        <4>2. \A d \in due[r][l] : d \in kept \/ \E s \in kept : s.bucket = d.bucket /\ s.row \in mixed
          <5> SUFFICES ASSUME NEW d \in due[r][l]
                       PROVE  d \in kept \/ \E s \in kept : s.bucket = d.bucket /\ s.row \in mixed
            OBVIOUS
          <5>1. d.bucket # "capture-flush"
            BY <1>3 DEF DueInv
          <5>2. CASE d \in held[r][l]
            BY <5>1, <5>2, <3>3, <1>24
          <5>3. CASE d \notin held[r][l]
            <6>1. PICK s \in held[r][l] : s.bucket = d.bucket /\ s.row \in mixed
              BY <5>3, <1>3 DEF DueInv, Kept, Displaced
            <6>2. s \in kept \/ \E t \in kept : t.bucket = s.bucket /\ t.row \in mixed
              BY <5>1, <6>1, <3>3, <1>24
            <6> QED BY <6>1, <6>2
          <5> QED BY <5>2, <5>3
        <4>3. \A d \in due[r][l] : d \notin kept => Displaced(d, q, k)'
          BY <4>1, <4>2, <1>1 DEF Displaced
        <4>4. Kept(q, k)'
          BY <4>1, <4>3 DEF Kept
        <4>5. ASSUME c.epoch = 1, NEW d \in due[r][l], d \in kept
              PROVE  d \in files \/ Displaced(d, q, k)'
          <5>1. CASE files = Flushed(before, kept)
            BY <4>5, <5>1 DEF Flushed
          <5>2. CASE files = before /\ epochSeen[r][l] # 1
            <6>1. before = Flushed(shards[r][l], held[r][l])
              BY <5>2, <4>5 DEF before
            <6>2. d \in held[r][l] \/ \E s \in held[r][l] : s.bucket = d.bucket /\ s.row \in mixed
              BY <1>3 DEF DueInv, Kept, Displaced
            <6>3. CASE d \in held[r][l]
              BY <6>1, <6>3, <5>2 DEF Flushed
            <6>4. CASE \E s \in held[r][l] : s.bucket = d.bucket /\ s.row \in mixed
              <7>1. PICK s \in held[r][l] : s.bucket = d.bucket /\ s.row \in mixed
                BY <6>4
              <7>2. d.bucket # "capture-flush"
                BY <1>3 DEF DueInv
              <7>3. s \in kept \/ \E t \in kept : t.bucket = s.bucket /\ t.row \in mixed
                BY <7>1, <7>2, <3>3, <1>24
              <7> QED BY <7>1, <7>3, <4>1, <1>1 DEF Displaced
            <6> QED BY <6>2, <6>3, <6>4
          <5>3. CASE files = before /\ epochSeen[r][l] = 1
            <6>1. files = shards[r][l]
              BY <5>3, <4>5 DEF before
            <6>2. d \in shards[r][l] \/ \E s \in held[r][l] : s.bucket = d.bucket /\ s.row \in mixed
              BY <5>3, <1>3 DEF DueInv, Durable, Displaced
            <6>3. CASE \E s \in held[r][l] : s.bucket = d.bucket /\ s.row \in mixed
              <7>1. PICK s \in held[r][l] : s.bucket = d.bucket /\ s.row \in mixed
                BY <6>3
              <7>2. d.bucket # "capture-flush"
                BY <1>3 DEF DueInv
              <7>3. s \in kept \/ \E t \in kept : t.bucket = s.bucket /\ t.row \in mixed
                BY <7>1, <7>2, <3>3, <1>24
              <7> QED BY <7>1, <7>3, <4>1, <1>1 DEF Displaced
            <6> QED BY <6>1, <6>2, <6>3
          <5> QED BY <5>1, <5>2, <5>3, <1>7
        <4>6. epochSeen'[q][k] = 1 => Durable(q, k)'
          BY <2>5, <4>1, <4>3, <4>5, <1>10 DEF Durable
        <4> QED BY <2>1, <2>3, <3>1, <4>4, <4>6
      <3> QED BY <3>2, <3>3 DEF DriverInv
    <2> QED BY <2>4, <2>5
  <1>26. ActiveInv'
    BY <1>1, <1>12 DEF ActiveInv
  <1>27. LabelInv'
    <2> SUFFICES ASSUME Delay, driver \in Labelling PROVE Marked' \/ Steady'
      BY <1>1 DEF LabelInv
    <2>1. Marked => Marked'
      BY <1>1, <1>13 DEF Marked
    <2>2. CASE Steady
      <3>1. ~Changing
        BY <2>2, <1>13 DEF Steady
      <3>2. ~Changing' /\ driver # "remote" /\ driver' # "remote"
        BY <3>1, <1>1 DEF Changing
      <3>3. \A q \in Rank : recent'[q] => known'[q] = control'[q]
        BY <2>2, <3>2, <1>12, <1>14 DEF Steady
      <3>4. \A i \in UnderWay' \ mixed' : Corpus[i] = active'
        BY <2>2, <3>2, <1>1, <1>13 DEF Steady
      <3> QED BY <3>2, <3>3, <3>4 DEF Steady
    <2> QED BY <2>1, <2>2 DEF LabelInv
  <1>28. LabelsAreRight'
    <2> SUFFICES ASSUME Delay, NEW q \in Rank, NEW k \in Layer, NEW s \in held'[q][k] \cup shards'[q][k],
                        s.row <= Len(Corpus), s.row \notin mixed'
                 PROVE  s.bucket = Corpus[s.row]
      BY DEF LabelsAreRight
    <2>1. CASE s \in held[q][k] \cup shards[q][k]
      BY <2>1, <1>1 DEF LabelsAreRight
    <2>2. CASE s = sample
      <3>1. forward.row <= Len(Corpus) /\ forward.row \notin mixed /\ s.row = forward.row
        BY <2>2, <1>1 DEF sample
      <3>2. driver \in Labelling
        <4>1. forward.row # FlushRow
          BY <3>1, CorpusFacts
        <4> QED BY <3>1, <4>1, <1>13 DEF DriverInv, ServerInv
      <3>3. Steady
        BY <3>1, <3>2, <1>13 DEF LabelInv, Marked
      <3>4. ~Changing
        BY <3>3, <1>13 DEF Steady
      <3>5. Corpus[forward.row] = active /\ c = control[r]
        BY <3>1, <3>3, <3>4, <1>13, <1>14 DEF Steady, Changing
      <3>6. active # "none"
        BY <3>2, <3>5, <1>13, CorpusFacts DEF ServerInv
      <3>7. control[r] = Label(active)
        BY <3>2, <3>4, <3>6 DEF ActiveInv, Changing, Labelling
      <3> QED BY <2>2, <3>1, <3>5, <3>7 DEF sample, Label
    <2> QED BY <2>1, <2>2, <1>6, <1>7, <1>10
  <1> QED BY <1>19, <1>20, <1>21, <1>22, <1>23, <1>25, <1>26, <1>27, <1>28

-----------------------------------------------------------------------------
\* Every step keeps the invariant.
LEMMA CaptureStepInv == CaptureInv /\ [CaptureNext]_captureVars => CaptureInv'
  <1> SUFFICES ASSUME CaptureInv, [CaptureNext]_captureVars PROVE CaptureInv'
    OBVIOUS
  <1>1. CASE UNCHANGED captureVars
    <2> USE <1>1 DEF captureVars, controlVars, collectorVars, serverVars, driverVars, historyVars, CaptureInv
    <2>1. UnderWay' = UnderWay
      BY DEF UnderWay
    <2>2. CaptureTypeOK' /\ DriverInv' /\ ServerInv'
      BY <2>1 DEF CaptureTypeOK, DriverInv, ServerInv
    <2>3. HeldInv' /\ LabelsAreRight' /\ EpochInv' /\ DueInv'
      BY CollectorsStay, EpochStays, DueStays
    <2>4. ControlInv' /\ ActiveInv' /\ LabelInv'
      BY <2>1 DEF ControlInv, ActiveInv, LabelInv, Marked, Steady, Changing
    <2> QED BY <2>2, <2>3, <2>4
  <1>2. CASE Drive
    BY <1>2, NextRowInv, LabelRemoteInv, RequestInv, ReplyInv, FinallyInv, FlushRemoteInv,
       SleepInv, FlushRequestInv, FlushEndsInv, OffRemoteInv DEF Drive
  <1>3. CASE ServerStep \/ Restart
    BY <1>3, ServerStepInv, RestartInv
  <1>4. ASSUME NEW r \in Rank, RunLayer(r) \/ TimePasses(r) PROVE CaptureInv'
    BY <1>4, RunLayerInv, TimePassesInv
  <1> QED BY <1>1, <1>2, <1>3, <1>4 DEF CaptureNext

\* Capture and its driver keep CaptureInv for ever.
LEMMA CaptureInvariant == CaptureSpec => []CaptureInv
  BY CaptureInitInv, CaptureStepInv, PTL DEF CaptureSpec

\* A flush that is reported complete has put all that was held into files, whatever
\* fails or dies before it, but for what requests given up under way displaced
\* (drive_capture.py 130-164, runtime.py 210-278).
THEOREM FlushesAreDurable == CaptureSpec => []FlushIsDurable
  <1>1. ASSUME CaptureInv PROVE FlushIsDurable
    <2> SUFFICES ASSUME flushed, NEW r \in Rank, NEW l \in Layer, NEW d \in due[r][l]
                 PROVE  d \in shards[r][l] \/ Displaced(d, r, l)
      BY DEF FlushIsDurable
    <2> QED BY <1>1 DEF CaptureInv, DueInv, Durable
  <1> QED BY <1>1, CaptureInvariant, PTL

\* With a pause between requests a sample carries the bucket of its prompt, unless
\* that prompt ran across a change of the control.
THEOREM SamplesAreLabelled == CaptureSpec => []LabelsAreRight
  <1>1. CaptureInv => LabelsAreRight
    BY DEF CaptureInv
  <1> QED BY <1>1, CaptureInvariant, PTL

-----------------------------------------------------------------------------
(***************************************************************************)
(* The draft side, for any vocabulary, number of slots, steps and taps and *)
(* any captured widths.                                                    *)
(***************************************************************************)
DsSpec == DsInit /\ [][DsNext]_dsVars

\* Only candidates of the last draft have a score.
ErasedInv == \A s \in Slot, k \in DraftStep :
    draftLogits[s][k] \in [Vocab -> {draftLogits[s][k][t] : t \in Vocab}]
    /\ \A t \in Vocab \ cachedIds[s][k] : draftLogits[s][k][t] = NoScore

DsInv ==
    /\ draftLogits = [s \in Slot |-> draftLogits[s]]
    /\ cachedIds = [s \in Slot |-> cachedIds[s]]
    /\ pending = [s \in Slot |-> pending[s]]
    /\ ErasedInv /\ RejectionReadsProposal

\* A batch is never run in a graph that is narrower than it.
LEMMA WidthHolds == ASSUME NEW n \in Nat PROVE Width(n) \in Nat /\ Width(n) >= n
  <1> DEFINE fit == {size \in CaptureSizes : size >= n * QueryBlock}
  <1>1. QueryBlock \in Nat \ {0} /\ GraphBatches \subseteq Nat
    BY SpeculatorAssumption DEF QueryBlock
  <1>2. CASE fit = {}
    BY <1>2 DEF Width
  <1>3. CASE fit # {}
    <2>1. fit \in SUBSET Nat
      BY <1>1 DEF CaptureSizes
    <2>2. Min(fit) \in fit
      BY <1>3, <2>1, LeastElement DEF Min
    <2>3. PICK b \in GraphBatches : Min(fit) = b * QueryBlock /\ b * QueryBlock >= n * QueryBlock
      BY <2>2 DEF CaptureSizes
    <2>4. b \in Nat
      BY <1>1
    <2>5. b >= n
      <3>1. b < n => b * QueryBlock + QueryBlock <= n * QueryBlock
        BY <1>1, <2>4
      <3> QED BY <1>1, <2>3, <2>4, <3>1
    <2>6. (b * QueryBlock + 0) \div QueryBlock = b
      BY <1>1, <2>4, BlockOf
    <2>7. b * QueryBlock + 0 = b * QueryBlock
      BY <1>1, <2>4
    <2> QED BY <1>3, <2>3, <2>4, <2>5, <2>6, <2>7 DEF Width
  <1> QED BY <1>2, <1>3

\* The convolutions stay within the block of a request: its row sees itself alone.
LEMMA RowSeesItself ==
    ASSUME NEW width \in Nat, NEW n \in 1 .. width
    PROVE  RowsSeen(n, width) = {n}
  <1> DEFINE before == n - 1
             base == before * QueryBlock
             block == base .. base + QueryBlock - 1
  <1>1. QueryBlock \in Nat \ {0} /\ before \in Nat /\ Taps \in Nat \ {0} /\ before + 1 = n
    BY SpeculatorAssumption DEF QueryBlock
  <1>2. base \in Nat /\ n * QueryBlock = base + QueryBlock /\ (n - 1) * QueryBlock = base
    BY <1>1
  <1>3. ASSUME NEW i \in 0 .. QueryBlock - 1
        PROVE  (base + i) \div QueryBlock = before /\ (base + i) % QueryBlock = i
    BY <1>1, BlockOf
  <1> HIDE DEF before, base
  <1>4. ASSUME NEW q \in block
        PROVE  q \div QueryBlock = before /\ q % QueryBlock = q - base /\ q \in Nat
    <2>1. q - base \in 0 .. QueryBlock - 1 /\ base + (q - base) = q /\ q \in Nat
      BY <1>1, <1>2
    <2> QED BY <2>1, <1>3
  <1>5. Convolved(block) = block
    <2>1. ASSUME NEW q \in block, NEW tap \in Reach(q), tap <= q PROVE q - tap \in block
      <3>1. tap \in Nat /\ q - base >= tap /\ q \in Nat
        BY <1>1, <1>4 DEF Reach
      <3> QED BY <3>1, <1>1, <1>2
    <2>2. ASSUME NEW q \in block PROVE 0 \in Reach(q) /\ 0 <= q /\ q - 0 = q
      <3>1. q \in Nat /\ q % QueryBlock >= 0
        BY <1>1, <1>2, <1>4
      <3> QED BY <3>1, <1>1 DEF Reach
    <2>3. Convolved(block) \subseteq block
      BY <2>1 DEF Convolved
    <2>4. block \subseteq Convolved(block)
      BY <2>2 DEF Convolved
    <2> QED BY <2>3, <2>4
  <1>6. base \in block
    BY <1>1, <1>2
  <1>7. (n - 1) * QueryBlock .. n * QueryBlock - 1 = block
    <2>1. n * QueryBlock - 1 = base + QueryBlock - 1
      BY <1>1, <1>2
    <2>2. (n - 1) * QueryBlock = base
      BY <1>2
    <2> QED BY <2>1, <2>2, Zenon
  <1>8. RowsSeen(n, width) = {q \div QueryBlock + 1 : q \in block} \cap 1 .. width
    BY <1>5, <1>7 DEF RowsSeen, LayerSees
  <1> HIDE DEF block
  <1> QED BY <1>1, <1>4, <1>6, <1>8

\* Nothing has been drafted.
LEMMA DsInitInv == DsInit => DsInv
  <1> SUFFICES ASSUME DsInit PROVE DsInv
    OBVIOUS
  <1> USE DEF DsInit
  <1>1. ErasedInv
    BY DEF ErasedInv
  <1>2. RejectionReadsProposal
    BY DEF RejectionReadsProposal
  <1> QED BY <1>1, <1>2 DEF DsInv

\* What the walk draws for a row of a batch.
LEMMA DrawnDraft ==
    ASSUME NEW n, NEW width, NEW d \in Drafts(n, width)
    PROVE  /\ d.row = n /\ d.seen = RowsSeen(n, width)
           /\ \A k \in DraftStep :
                  /\ d.candidates[k] \subseteq Vocab /\ d.tokens[k] \in d.candidates[k]
                  /\ Realized(d)[k] = [t \in d.candidates[k] |->
                        Edge[IF k = 1 THEN d.anchor ELSE d.tokens[k - 1]][t]]
  <1>1. d.row = n /\ d.seen = RowsSeen(n, width)
    BY DEF Drafts
  <1>2. ASSUME NEW k \in DraftStep
        PROVE  d.candidates[k] \subseteq Vocab /\ d.tokens[k] \in d.candidates[k]
    BY DEF Drafts, Drawn, kSubset
  <1>3. ASSUME NEW k \in DraftStep
        PROVE  Realized(d)[k] = [t \in d.candidates[k] |->
                  Edge[IF k = 1 THEN d.anchor ELSE d.tokens[k - 1]][t]]
    <2> DEFINE before == IF k = 1 THEN d.anchor ELSE d.tokens[k - 1]
    <2>1. k # 1 => k - 1 \in DraftStep
      BY SpeculatorAssumption DEF DraftStep
    <2>2. before \in IF k = 1 THEN {d.anchor} ELSE d.candidates[k - 1]
      BY <1>2, <2>1
    <2>3. Realized(d)[k] = ScoreEdges(d)[k][before]
      BY DEF Realized
    <2> QED BY <2>2, <2>3 DEF ScoreEdges
  <1> QED BY <1>1, <1>2, <1>3

\* Every request of the batch has a row, and one row only; its draft replaces all
\* that its slot has kept of the last one.
LEMMA DraftKeeps ==
    ASSUME DsInv, NEW batch \in SeqOf(Slot, Cardinality(Slot)), Draft(batch)
    PROVE  DsInv'
  <1> DEFINE Drafted == ToSet(batch)
             RowOf(s) == CHOOSE r \in DOMAIN batch : batch[r] = s
             W == Width(Len(batch))
  <1>1. Len(batch) \in Nat /\ DOMAIN batch = 1 .. Len(batch)
    <2>1. batch \in Seq(Slot)
      BY SeqDef DEF SeqOf
    <2> QED BY <2>1, LenProperties
  <1>2. PICK d \in [Drafted -> UNION {Drafts(r, W) : r \in DOMAIN batch}] :
            /\ \A s \in Drafted : d[s].row = RowOf(s)
            /\ pending' = [s \in Slot |-> IF s \in Drafted THEN d[s] ELSE pending[s]]
            /\ cachedIds' = [s \in Slot |-> IF s \in Drafted THEN d[s].candidates ELSE cachedIds[s]]
            /\ draftLogits' = [s \in Slot |-> IF s \in Drafted
                   THEN [k \in DraftStep |-> Rewrite(draftLogits[s][k], cachedIds[s][k], Realized(d[s])[k])]
                   ELSE draftLogits[s]]
    BY DEF Draft
  <1>3. ASSUME NEW s \in Drafted
        PROVE  \E r \in 1 .. W : d[s] \in Drafts(r, W)
    <2>1. PICK r \in DOMAIN batch : d[s] \in Drafts(r, W)
      BY <1>2
    <2>2. r \in 1 .. W
      BY <1>1, WidthHolds
    <2> QED BY <2>1, <2>2
  <1>4. W \in Nat
    BY <1>1, WidthHolds
  <1> HIDE DEF Drafted, W, RowOf
  <1>5. ASSUME NEW s \in Slot, s \in Drafted, NEW k \in DraftStep
        PROVE  /\ draftLogits'[s][k] = [t \in Vocab |-> IF t \in d[s].candidates[k]
                      THEN Edge[IF k = 1 THEN d[s].anchor ELSE d[s].tokens[k - 1]][t] ELSE NoScore]
               /\ cachedIds'[s] = d[s].candidates /\ pending'[s] = d[s]
               /\ d[s].seen = {d[s].row}
    <2>1. PICK r \in 1 .. W : d[s] \in Drafts(r, W)
      BY <1>3, <1>5
    <2>2. d[s].seen = {d[s].row}
      BY <1>4, <2>1, DrawnDraft, RowSeesItself
    <2>3. Realized(d[s])[k] = [t \in d[s].candidates[k] |->
              Edge[IF k = 1 THEN d[s].anchor ELSE d[s].tokens[k - 1]][t]]
      BY <2>1, DrawnDraft
    <2>4. draftLogits'[s][k] = Rewrite(draftLogits[s][k], cachedIds[s][k], Realized(d[s])[k])
      BY <1>2, <1>5
    <2>5. \A t \in Vocab : t \notin cachedIds[s][k] => draftLogits[s][k][t] = NoScore
      BY DEF DsInv, ErasedInv
    <2>6. cachedIds'[s] = d[s].candidates /\ pending'[s] = d[s]
      BY <1>2, <1>5
    <2> QED BY <2>2, <2>3, <2>4, <2>5, <2>6 DEF Rewrite
  <1>6. ASSUME NEW s \in Slot, s \notin Drafted
        PROVE  draftLogits'[s] = draftLogits[s] /\ cachedIds'[s] = cachedIds[s] /\ pending'[s] = pending[s]
    BY <1>2, <1>6
  <1>7. ErasedInv'
    <2> SUFFICES ASSUME NEW s \in Slot, NEW k \in DraftStep
                 PROVE  /\ draftLogits'[s][k] \in [Vocab -> {draftLogits'[s][k][t] : t \in Vocab}]
                        /\ \A t \in Vocab \ cachedIds'[s][k] : draftLogits'[s][k][t] = NoScore
      BY DEF ErasedInv
    <2>1. CASE s \in Drafted
      <3>1. draftLogits'[s][k] = [t \in Vocab |-> IF t \in d[s].candidates[k]
                THEN Edge[IF k = 1 THEN d[s].anchor ELSE d[s].tokens[k - 1]][t] ELSE NoScore]
        BY <1>5, <2>1
      <3>2. cachedIds'[s][k] = d[s].candidates[k]
        BY <1>5, <2>1
      <3> QED BY <3>1, <3>2
    <2>2. CASE s \notin Drafted
      BY <1>6, <2>2 DEF DsInv, ErasedInv
    <2> QED BY <2>1, <2>2
  <1>8. RejectionReadsProposal'
    <2> SUFFICES ASSUME NEW s \in Slot, pending'[s] # NoDrafts, NEW k \in DraftStep
                 PROVE  /\ pending'[s].seen = {pending'[s].row}
                        /\ draftLogits'[s][k] = [t \in Vocab |->
                              IF t \in pending'[s].candidates[k]
                              THEN Edge[IF k = 1 THEN pending'[s].anchor ELSE pending'[s].tokens[k - 1]][t]
                              ELSE NoScore]
      <3>1. 1 \in DraftStep
        BY SpeculatorAssumption DEF DraftStep
      <3> QED BY <3>1 DEF RejectionReadsProposal
    <2>1. CASE s \in Drafted
      <3>1. draftLogits'[s][k] = [t \in Vocab |-> IF t \in d[s].candidates[k]
                THEN Edge[IF k = 1 THEN d[s].anchor ELSE d[s].tokens[k - 1]][t] ELSE NoScore]
        BY <1>5, <2>1
      <3>2. pending'[s] = d[s] /\ d[s].seen = {d[s].row}
        BY <1>5, <2>1
      <3> QED BY <3>1, <3>2
    <2>2. CASE s \notin Drafted
      BY <1>6, <2>2, SMTT(20) DEF DsInv, RejectionReadsProposal
    <2> QED BY <2>1, <2>2
  <1>9. /\ draftLogits' = [s \in Slot |-> draftLogits'[s]]
        /\ cachedIds' = [s \in Slot |-> cachedIds'[s]] /\ pending' = [s \in Slot |-> pending'[s]]
    BY <1>2
  <1> QED BY <1>7, <1>8, <1>9 DEF DsInv

\* A draft that is verified is no longer read.
LEMMA VerifiedKeeps == ASSUME DsInv, NEW s \in Slot, Verified(s) PROVE DsInv'
  <1> USE DEF Verified, DsInv
  <1>1. \A q \in Slot : pending'[q] = IF q = s THEN NoDrafts ELSE pending[q]
    OBVIOUS
  <1>2. ErasedInv'
    BY DEF ErasedInv
  <1>3. RejectionReadsProposal'
    <2>1. draftLogits' = draftLogits /\ RejectionReadsProposal
      OBVIOUS
    <2> HIDE DEF Verified, DsInv
    <2> SUFFICES ASSUME NEW q \in Slot, pending'[q] # NoDrafts
                 PROVE  /\ pending'[q].seen = {pending'[q].row}
                        /\ \A k \in DraftStep : draftLogits'[q][k] = [t \in Vocab |->
                              IF t \in pending'[q].candidates[k]
                              THEN Edge[IF k = 1 THEN pending'[q].anchor ELSE pending'[q].tokens[k - 1]][t]
                              ELSE NoScore]
      BY DEF RejectionReadsProposal
    <2>2. pending'[q] = pending[q]
      BY <1>1
    <2> QED BY <2>1, <2>2 DEF RejectionReadsProposal
  <1> QED BY <1>1, <1>2, <1>3

\* Every step keeps the invariant.
LEMMA DsStepInv == DsInv /\ [DsNext]_dsVars => DsInv'
  <1> SUFFICES ASSUME DsInv, [DsNext]_dsVars PROVE DsInv'
    OBVIOUS
  <1>1. CASE UNCHANGED dsVars
    BY <1>1 DEF dsVars, DsInv, ErasedInv, RejectionReadsProposal
  <1>2. CASE DsNext
    BY <1>2, DraftKeeps, VerifiedKeeps DEF DsNext
  <1> QED BY <1>1, <1>2

\* Scores and candidates of every slot belong together for ever.
LEMMA DsInvariant == DsSpec => []DsInv
  BY DsInitInv, DsStepInv, PTL DEF DsSpec

\* What the rejection sampler reads is the distribution each pending token was drawn
\* from, computed from its own request alone (speculator.py, qwen3_dflash2.py).
THEOREM ProposalsAreRead == DsSpec => []RejectionReadsProposal
  <1>1. DsInv => RejectionReadsProposal
    BY DEF DsInv
  <1> QED BY <1>1, DsInvariant, PTL

-----------------------------------------------------------------------------
(***************************************************************************)
(* Rounding.  Sums of squared errors are numbers (TotalGrows), so a choice *)
(* of the least of them exists (LeastElement) and keeps what the choice    *)
(* promises.                                                               *)
(***************************************************************************)

\* A square is not negative.
LEMMA SquareNatural == ASSUME NEW n \in Int PROVE Square(n) \in Nat
  BY DEF Square

\* The nearer to zero, the less the square.
LEMMA SquareGrows ==
    ASSUME NEW a \in Int, NEW b \in Int, (b <= a /\ a <= -b) \/ (-b <= a /\ a <= b)
    PROVE  Square(a) <= Square(b)
  <1>1. (b - a) * (b + a) \in Nat
    <2>1. CASE b <= a /\ a <= -b
      <3>1. a - b \in Nat /\ -b - a \in Nat
        BY <2>1
      <3>2. (a - b) * (-b - a) \in Nat
        BY <3>1, ProductOfNaturals
      <3> QED BY <3>2
    <2>2. CASE -b <= a /\ a <= b
      <3>1. b - a \in Nat /\ b + a \in Nat
        BY <2>2
      <3> QED BY <3>1, ProductOfNaturals
    <2> QED BY <2>1, <2>2
  <1>2. (b - a) * (b + a) = b * b - a * a
    OBVIOUS
  <1> QED BY <1>1, <1>2 DEF Square

\* The scale of a code is a natural number.
LEMMA ScaleNatural == ASSUME NEW code \in 0 .. TopCode + 1 PROVE Scale(code) \in Nat
  <1>1. TopCode \in Nat
    BY RoundingAssumption
  <1>2. CASE code < 8
    BY <1>1, <1>2 DEF Scale, Scales
  <1>3. CASE ~ code < 8
    <2> DEFINE n == code \div 8 - 1
               m == 8 + (code % 8)
    <2>1. n \in Nat /\ m \in Nat
      BY <1>1, <1>3
    <2>2. Scale(code) = m * 2 ^ n
      BY <1>1, <1>3 DEF Scale, Scales
    <2> HIDE DEF m, n
    <2>3. 2 ^ n \in Nat
      BY <2>1, PowerNatural
    <2>4. m * 2 ^ n \in Nat
      BY <2>1, <2>3, ProductOfNaturals
    <2> QED BY <2>2, <2>4
  <1> QED BY <1>2, <1>3

\* The nearest entry is an entry.
LEMMA NearestInTable ==
    ASSUME NEW v, NEW table, Len(table) \in Nat \ {0}
    PROVE  NearestEven(v, table) \in 1 .. Len(table)
  <1> DEFINE over == {i \in 2 .. Len(table) :
                         \/ 2 * v > table[i - 1] + table[i]
                         \/ 2 * v = table[i - 1] + table[i] /\ i % 2 = 1}
  <1>1. IsFiniteSet(2 .. Len(table)) /\ Cardinality(2 .. Len(table)) = Len(table) - 1
    BY FS_Interval
  <1>2. over \subseteq 2 .. Len(table)
    OBVIOUS
  <1> HIDE DEF over
  <1>3. Cardinality(over) \in Nat /\ Cardinality(over) <= Len(table) - 1
    BY <1>1, <1>2, FS_Subset, FS_CardinalityType
  <1>4. NearestEven(v, table) = 1 + Cardinality(over)
    BY DEF NearestEven, over
  <1> QED BY <1>3, <1>4

\* The magnitudes are natural numbers.
E2M1Values == \A k \in 1 .. 8 : E2M1[k] \in Nat

\* The table holds eight of them.
LEMMA E2M1Typed == E2M1Values
  BY DEF E2M1, E2M1Values

\* The codes of the writer are codes.
LEMMA CodesInRange ==
    ASSUME NEW group \in Seq(Nat), NEW code \in 0 .. TopCode + 1, NEW g
    PROVE  Codes(group, code, g) \in [DOMAIN group -> 0 .. 7]
  <1> DEFINE table == [k \in 1 .. 8 |-> E2M1[k] * Scale(code)]
  <1>1. table \in Seq(Int) /\ Len(table) = 8
    <2>1. Scale(code) \in Nat
      BY ScaleNatural
    <2>2. ASSUME NEW k \in 1 .. 8 PROVE E2M1[k] * Scale(code) \in Int
      <3>1. E2M1[k] \in Nat
        BY E2M1Typed DEF E2M1Values
      <3> QED BY <2>1, <3>1, ProductOfNaturals
    <2> QED BY <2>2
  <1> HIDE DEF table
  <1>2. ASSUME NEW v PROVE NearestEven(v, table) \in 1 .. 8
    <2>1. Len(table) \in Nat \ {0}
      BY <1>1
    <2>2. NearestEven(v, table) \in 1 .. Len(table)
      BY <2>1, NearestInTable
    <2> QED BY <1>1, <2>2
  <1>3. \A v : NearestEven(v, table) - 1 \in 0 .. 7
    BY <1>2
  <1>4. Codes(group, code, g) = [i \in DOMAIN group |->
            IF code = 0 THEN 0 ELSE NearestEven(group[i] * g, table) - 1]
    BY DEF Codes, table
  <1> QED BY <1>3, <1>4

\* A squared error is a natural number.
LEMMA ErrorNatural ==
    ASSUME NEW group \in Seq(Nat), NEW code \in 0 .. TopCode + 1, NEW g \in Int,
           NEW codes \in [DOMAIN group -> 0 .. 7]
    PROVE  ErrorOf(group, codes, code, g) \in Nat
  <1> DEFINE f == [i \in DOMAIN group |->
                     Square(E2M1[codes[i] + 1] * Scale(code) - group[i] * g)]
  <1>1. ASSUME NEW i \in DOMAIN group
        PROVE  Square(E2M1[codes[i] + 1] * Scale(code) - group[i] * g) \in Nat
    <2>1. DOMAIN group = 1 .. Len(group) /\ \A j \in 1 .. Len(group) : group[j] \in Nat
      BY LenProperties, ElementOfSeq
    <2>2. group[i] \in Nat
      BY <2>1
    <2>3. codes[i] + 1 \in 1 .. 8
      <3>1. codes[i] \in 0 .. 7
        OBVIOUS
      <3> QED BY <3>1
    <2>4. Scale(code) \in Nat /\ E2M1[codes[i] + 1] \in Nat
      BY <2>3, ScaleNatural, E2M1Typed DEF E2M1Values
    <2>5. E2M1[codes[i] + 1] * Scale(code) \in Nat
      BY <2>4, ProductOfNaturals
    <2>6. group[i] * g \in Int
      BY <2>2
    <2>7. E2M1[codes[i] + 1] * Scale(code) - group[i] * g \in Int
      BY <2>5, <2>6
    <2> QED BY <2>7, SquareNatural
  <1>2. f \in [DOMAIN group -> Nat]
    BY <1>1
  <1>3. IsFiniteSet(DOMAIN group)
    BY LenProperties, FS_Interval
  <1>4. ErrorOf(group, codes, code, g) = Total(f)
    BY Zenon DEF ErrorOf, SumOf, Total
  <1> HIDE DEF f
  <1> QED BY <1>2, <1>3, <1>4, TotalNatural

\* A function on an initial segment is the sequence of its values.
LEMMA TableIsSequence ==
    ASSUME NEW n \in Nat, NEW f \in [1 .. n -> Int]
    PROVE  Len(f) = n
  <1>1. f \in Seq(Int)
    BY SeqDef
  <1> QED BY <1>1, LenProperties

\* Each candidate is a scale code and codes under it, with their error.
CandidateOf(group, g) ==
    {c \in [code : 0 .. TopCode, codes : [DOMAIN group -> 0 .. 7], error : Nat] :
        c.error = ErrorOf(group, c.codes, c.code, g)}

\* Whatever the divisor, a candidate is one of those.
LEMMA CandidateTyped ==
    ASSUME NEW group \in Seq(Nat), NEW divisor \in Nat, NEW g \in Int
    PROVE  Candidate(group, divisor, g) \in CandidateOf(group, g)
  <1> DEFINE table == [c \in 1 .. TopCode + 1 |-> divisor * 2 * Scale(c - 1)]
             code == ScaleCode(group, divisor, g)
             codes == Codes(group, code, g)
  <1>1. TopCode \in Nat
    BY RoundingAssumption
  <1>2. ASSUME NEW c \in 1 .. TopCode + 1 PROVE divisor * 2 * Scale(c - 1) \in Int
    <2>1. c - 1 \in 0 .. TopCode + 1
      BY <1>1
    <2>2. Scale(c - 1) \in Nat /\ divisor * 2 \in Nat
      BY <2>1, ScaleNatural
    <2> HIDE DEF code, codes, table
    <2> QED BY <2>2, ProductOfNaturals
  <1>3. Len(table) = TopCode + 1
    BY <1>1, <1>2, TableIsSequence
  <1> HIDE DEF table
  <1>4. NearestEven(Amax(group) * g, table) \in 1 .. TopCode + 1
    <2>1. Len(table) \in Nat \ {0}
      BY <1>1, <1>3
    <2> QED BY <1>3, <2>1, NearestInTable
  <1>5. code = NearestEven(Amax(group) * g, table) - 1
    BY DEF ScaleCode, table
  <1> HIDE DEF code, codes
  <1>6. code \in 0 .. TopCode /\ code \in 0 .. TopCode + 1
    BY <1>1, <1>4, <1>5
  <1>7. codes \in [DOMAIN group -> 0 .. 7]
    BY <1>6, CodesInRange DEF codes
  <1>8. ErrorOf(group, codes, code, g) \in Nat
    BY <1>6, <1>7, ErrorNatural
  <1>9. Candidate(group, divisor, g)
          = [code |-> code, codes |-> codes, error |-> ErrorOf(group, codes, code, g)]
    BY DEF Candidate, code, codes
  <1> QED BY <1>6, <1>7, <1>8, <1>9 DEF CandidateOf

\* The error the reference computes is that of the record the kernel writes.
LEMMA ServedIsReference ==
    ASSUME NEW group \in Seq(Nat), NEW g \in Int
    PROVE  /\ FourOverSix(group, g).error \in Nat
           /\ LET record == WriteRecord(group, g)
              IN  SumOf([i \in DOMAIN group |-> Square(Served(record, i) - group[i] * g)])
                    = FourOverSix(group, g).error
  <1> DEFINE six == Candidate(group, 6, g)
             four == Candidate(group, 4, g)
             best == IF four.error < six.error THEN four ELSE six
             record == WriteRecord(group, g)
  <1>1. six \in CandidateOf(group, g) /\ four \in CandidateOf(group, g)
    BY CandidateTyped
  <1>2. FourOverSix(group, g) = best
    BY DEF FourOverSix
  <1>3. record = [code |-> best.code, codes |-> best.codes]
    BY DEF WriteRecord
  <1> HIDE DEF six, four
  <1>4. best \in CandidateOf(group, g)
    BY <1>1
  <1> HIDE DEF best, record
  <1>5. best.error \in Nat /\ best.error = ErrorOf(group, best.codes, best.code, g)
    BY <1>4 DEF CandidateOf
  <1>6. record.code = best.code /\ record.codes = best.codes
    BY <1>3
  <1>7. [i \in DOMAIN group |-> Square(Served(record, i) - group[i] * g)]
          = [i \in DOMAIN group |->
               Square(E2M1[best.codes[i] + 1] * Scale(best.code) - group[i] * g)]
    BY <1>6 DEF Served
  <1>8. SumOf([i \in DOMAIN group |-> Square(Served(record, i) - group[i] * g)]) = best.error
    BY <1>5, <1>7, Zenon DEF ErrorOf
  <1> QED BY <1>2, <1>5, <1>8 DEF record

\* Errors under outer scales are ordered by their product with a weight of the scale.
Weight(g) == <<144, 36, 16, 9>>[g]
Turn(g) == <<41, 22, 33, 44>>[g]
Scaled(e) == e.error * Weight(e.phase)

\* 144 is divisible by the square of every phase, so the weights are whole.
LEMMA WeightOrders ==
    ASSUME NEW a \in Nat, NEW b \in Nat, NEW p \in 1 .. 4, NEW q \in 1 .. 4
    PROVE  /\ a * q * q > b * p * p <=> a * Weight(p) > b * Weight(q)
           /\ a * Weight(p) \in Nat
  <1>1. Weight(1) = 144 /\ Weight(2) = 36 /\ Weight(3) = 16 /\ Weight(4) = 9
    BY DEF Weight
  <1>2. q = 1 \/ q = 2 \/ q = 3 \/ q = 4
    OBVIOUS
  <1>3. CASE p = 1
    BY <1>1, <1>2, <1>3
  <1>4. CASE p = 2
    BY <1>1, <1>2, <1>4
  <1>5. CASE p = 3
    BY <1>1, <1>2, <1>5
  <1>6. CASE p = 4
    BY <1>1, <1>2, <1>6
  <1> QED BY <1>3, <1>4, <1>5, <1>6

\* One error exceeds another when its weighted value is greater.
LEMMA ExceedsIsGreater ==
    ASSUME NEW e, NEW f, e.error \in Nat, f.error \in Nat, e.phase \in 1 .. 4, f.phase \in 1 .. 4
    PROVE  /\ Exceeds(e, f) <=> Scaled(e) > Scaled(f)
           /\ Scaled(e) \in Nat
  BY WeightOrders DEF Exceeds, Scaled

\* Ties go to the scale nearest to 1, then to the lesser.
LEMMA TurnIsTie ==
    ASSUME NEW g \in 1 .. 4, NEW h \in 1 .. 4
    PROVE  /\ Turn(g) \in Nat
           /\ Turn(g) <= Turn(h) => \/ Distance(g) < Distance(h)
                                    \/ Distance(g) = Distance(h) /\ g <= h
  <1>1. Turn(1) = 41 /\ Turn(2) = 22 /\ Turn(3) = 33 /\ Turn(4) = 44
    BY DEF Turn
  <1>2. Distance(1) = 4 /\ Distance(2) = 2 /\ Distance(3) = 3 /\ Distance(4) = 4
    <2>1. 4 \div 1 = 4
      OBVIOUS
    <2> QED BY <2>1 DEF Distance, One
  <1>3. h = 1 \/ h = 2 \/ h = 3 \/ h = 4
    OBVIOUS
  <1>4. CASE g = 1
    BY <1>1, <1>2, <1>3, <1>4
  <1>5. CASE g = 2
    BY <1>1, <1>2, <1>3, <1>5
  <1>6. CASE g = 3
    BY <1>1, <1>2, <1>3, <1>6
  <1>7. CASE g = 4
    BY <1>1, <1>2, <1>3, <1>7
  <1> QED BY <1>4, <1>5, <1>6, <1>7

\* There is a best outer scale among those that were tried.
LEMMA BestWasTried ==
    ASSUME NEW tried, tried # {}, \A t \in tried : t.error \in Nat /\ t.phase \in 1 .. 4
    PROVE  BestOf(tried) \in tried
  <1> DEFINE keys == {Scaled(t) : t \in tried}
  <1>1. keys # {} /\ keys \subseteq Nat
    BY ExceedsIsGreater
  <1>2. PICK k \in keys : \A other \in keys : k <= other
    BY <1>1, LeastElement
  <1> DEFINE ties == {t \in tried : Scaled(t) = k}
             turns == {Turn(t.phase) : t \in ties}
  <1>3. turns # {} /\ turns \subseteq Nat
    BY <1>2, TurnIsTie
  <1>4. PICK n \in turns : \A other \in turns : n <= other
    BY <1>3, LeastElement
  <1>5. PICK t \in ties : Turn(t.phase) = n
    BY <1>4
  <1>6. ASSUME NEW u \in tried
        PROVE  \/ Exceeds(u, t)
               \/ /\ ~ Exceeds(t, u)
                  /\ \/ Distance(t.phase) < Distance(u.phase)
                     \/ Distance(t.phase) = Distance(u.phase) /\ t.phase <= u.phase
    <2>1. t \in tried /\ Scaled(t) = k /\ k \in Nat /\ Scaled(u) \in Nat /\ k <= Scaled(u)
      BY <1>1, <1>2, <1>5
    <2>2. /\ Exceeds(u, t) <=> Scaled(u) > Scaled(t)
          /\ Exceeds(t, u) <=> Scaled(t) > Scaled(u)
      BY <2>1, ExceedsIsGreater
    <2>3. CASE Scaled(u) > Scaled(t)
      BY <2>2, <2>3
    <2>4. CASE Scaled(u) = Scaled(t)
      <3>1. ~ Exceeds(t, u)
        BY <2>1, <2>2, <2>4
      <3>2. Turn(t.phase) <= Turn(u.phase)
        BY <1>4, <1>5, <2>1, <2>4
      <3>3. \/ Distance(t.phase) < Distance(u.phase)
            \/ Distance(t.phase) = Distance(u.phase) /\ t.phase <= u.phase
        BY <2>1, <3>2, TurnIsTie
      <3> QED BY <3>1, <3>3
    <2> QED BY <2>1, <2>3, <2>4
  <1>7. t \in tried
    BY <1>5
  <1> HIDE DEF ties, turns, keys
  <1> QED BY <1>6, <1>7, Zenon DEF BestOf

----------------------------------------------------------------------------
FitSpec == FitInit /\ [][FitNext]_fitVars

\* Captures hold groups, samples are of some root, and scales are among those of the grid.
CapturesTyped ==
    /\ capture \in [Root -> UNION {[1 .. n -> CaptureGroups] : n \in 0 .. 2}]
    /\ heldout \subseteq SamplesOf(Root)
    /\ validated \in [Root -> SUBSET SamplesOf(Root)]
    /\ outer \in 1 .. 4

(* What the gates have shown: FitLayer has answered for the merged        *)
(* holdout and CrossValidate for those of the roots, and a scale that     *)
(* falls back to 1 undoes neither.                                        *)
GatesInv ==
    /\ CapturesTyped
    /\ "heldout" \in gates /\ heldout # {} => ~ Worse(heldout, outer)
    /\ fitted \in {"loaded", "fitted"} => validated = [r \in Root |-> {}]
    /\ fitted # "failed" => \A r \in Root : validated[r] # {} => ~ Worse(validated[r], outer)
    /\ fitted = "served" => latent = LatentScale

\* There are finitely many samples, each of a group.
LEMMA SamplesTyped ==
    ASSUME CapturesTyped
    PROVE  /\ IsFiniteSet(SamplesOf(Root))
           /\ \A s \in SamplesOf(Root) : GroupOf(s) \in Seq(Nat)
  <1>1. IsFiniteSet(Root \X (1 .. 2))
    <2>1. IsFiniteSet(1 .. 2)
      <3>1. \A n \in Int : IsFiniteSet(1 .. n)
        BY FS_Interval
      <3>2. 2 \in Int
        OBVIOUS
      <3> QED BY <3>1, <3>2, Zenon
    <2> QED BY <2>1, FitAssumption, FS_Product
  <1>2. SamplesOf(Root) \subseteq Root \X (1 .. 2)
    BY DEF SamplesOf
  <1>3. IsFiniteSet(SamplesOf(Root))
    BY <1>1, <1>2, FS_Subset
  <1>4. ASSUME NEW s \in SamplesOf(Root) PROVE GroupOf(s) \in Seq(Nat)
    <2>1. s[1] \in Root /\ s[2] \in DOMAIN capture[s[1]]
      BY DEF SamplesOf
    <2>2. PICK n \in 0 .. 2 : capture[s[1]] \in [1 .. n -> CaptureGroups]
      BY <2>1 DEF CapturesTyped
    <2>3. capture[s[1]][s[2]] \in CaptureGroups
      BY <2>1, <2>2
    <2> QED BY <2>3, FitAssumption DEF GroupOf
  <1> QED BY <1>3, <1>4

\* What the kernel writes and reads is as far from the groups as the reference says.
LEMMA ServedErrorIsReference ==
    ASSUME CapturesTyped, NEW samples \in SUBSET SamplesOf(Root), NEW g \in Int
    PROVE  /\ ServedError(samples, g) = ReferenceError(samples, g)
           /\ ReferenceError(samples, g) \in Nat
           /\ samples = {} => ReferenceError(samples, g) = 0
  <1> DEFINE served(s) == LET group == GroupOf(s)
                             record == WriteRecord(group, g)
                         IN  SumOf([i \in DOMAIN group |->
                                      Square(Served(record, i) - group[i] * g)])
             f == [s \in samples |-> FourOverSix(GroupOf(s), g).error]
  <1>1. ASSUME NEW s \in samples
        PROVE  served(s) = FourOverSix(GroupOf(s), g).error /\ FourOverSix(GroupOf(s), g).error \in Nat
    <2>1. GroupOf(s) \in Seq(Nat)
      BY SamplesTyped
    <2> QED BY <2>1, ServedIsReference
  <1>2. IsFiniteSet(samples)
    BY SamplesTyped, FS_Subset
  <1>3. f \in [samples -> Nat] /\ DOMAIN f = samples
    BY <1>1
  <1>4. ReferenceError(samples, g) = Total(f)
    BY Zenon DEF ReferenceError, SumOf, Total
  <1>5. ServedError(samples, g) = SumOf([s \in samples |-> served(s)])
    BY DEF ServedError
  <1>6. ServedError(samples, g) = ReferenceError(samples, g)
    <2> HIDE DEF served
    <2>1. [s \in samples |-> served(s)] = f
      BY <1>1
    <2> QED BY <1>5, <2>1 DEF ReferenceError
  <1> HIDE DEF f
  <1>7. Total(f) \in Nat
    BY <1>2, <1>3, TotalNatural
  <1>8. samples = {} => Total(f) = 0
    BY <1>3, TotalOfNothing
  <1> QED BY <1>4, <1>6, <1>7, <1>8

\* Errors exceed none of their own, and none of nothing.
LEMMA NoneExceeds ==
    ASSUME CapturesTyped, NEW samples \in SUBSET SamplesOf(Root), NEW g \in 1 .. 4,
           g = One \/ samples = {}
    PROVE  ~ Worse(samples, g)
  <1>1. /\ ReferenceError(samples, g) \in Nat /\ ReferenceError(samples, One) \in Nat
        /\ samples = {} => ReferenceError(samples, g) = 0 /\ ReferenceError(samples, One) = 0
    BY ServedErrorIsReference DEF One
  <1>2. ASSUME NEW e \in Nat PROVE ~ e * g * g > e * g * g
    <2>1. e * g * g \in Int
      OBVIOUS
    <2> QED BY <2>1
  <1>3. CASE g = One
    BY <1>1, <1>2, <1>3 DEF Worse, SamplesUnder, Exceeds
  <1>4. CASE samples = {}
    <2>1. 0 * g * g = 0 /\ 0 * One * One = 0
      BY DEF One
    <2> QED BY <1>1, <1>4, <2>1 DEF Worse, SamplesUnder, Exceeds
  <1> QED BY <1>3, <1>4

\* The best scale is one of the grid.
LEMMA BestScaleTyped ==
    ASSUME CapturesTyped, NEW samples \in SUBSET SamplesOf(Root)
    PROVE  BestScale(samples) \in 1 .. 4
  <1> DEFINE tried == {SamplesUnder(samples, g) : g \in GlobalScales}
  <1>1. GlobalScales \subseteq 1 .. 4 /\ GlobalScales # {}
    BY RoundingAssumption DEF GlobalScales, One
  <1>2. \A t \in tried : t.error \in Nat /\ t.phase \in 1 .. 4
    BY <1>1, ServedErrorIsReference DEF SamplesUnder
  <1>3. tried # {}
    BY <1>1
  <1> HIDE DEF tried
  <1>4. BestOf(tried) \in tried
    BY <1>2, <1>3, BestWasTried
  <1>5. BestScale(samples) = BestOf(tried).phase
    BY DEF BestScale, tried
  <1> QED BY <1>2, <1>4, <1>5

\* The samples and what is known of them depend on the captures alone.
LEMMA SamplesStay ==
    ASSUME capture' = capture
    PROVE  /\ \A roots : SamplesOf(roots)' = SamplesOf(roots)
           /\ \A samples, g : Worse(samples, g)' = Worse(samples, g)
           /\ Captured' = Captured
  BY Zenon DEF SamplesOf, Worse, SamplesUnder, ReferenceError, GroupOf, Captured

\* FitLayer chooses a scale that the samples it keeps back accept, or 1.
LEMMA FitKeeps == ASSUME GatesInv, FitLayer PROVE GatesInv'
  <1>0. PICK kept \in Loads(Root) : \E back \in Holdouts(kept) :
            LET best == BestScale(kept \ back) IN
            /\ heldout' = back
            /\ outer' = IF "heldout" \in gates /\ back # {} /\ Worse(back, best) THEN One ELSE best
    BY DEF FitLayer
  <1>1. PICK back \in Holdouts(kept) :
            LET best == BestScale(kept \ back) IN
            /\ heldout' = back
            /\ outer' = IF "heldout" \in gates /\ back # {} /\ Worse(back, best) THEN One ELSE best
    BY <1>0
  <1> DEFINE best == BestScale(kept \ back)
  <1>2. /\ fitted = "loaded" /\ fitted' = "fitted" /\ capture' = capture
        /\ gates' = gates /\ validated' = validated /\ latent' = latent
    BY DEF FitLayer
  <1>3. back \in SUBSET SamplesOf(Root) /\ kept \ back \in SUBSET SamplesOf(Root)
    BY DEF Loads, Holdouts
  <1>4. CapturesTyped /\ validated = [r \in Root |-> {}]
    BY <1>2 DEF GatesInv
  <1>5. best \in 1 .. 4
    BY <1>3, <1>4, BestScaleTyped
  <1>6. outer' \in {One, best} /\ outer' \in 1 .. 4
    BY <1>1, <1>5 DEF One
  <1>7. "heldout" \in gates /\ back # {} => ~ Worse(back, outer')
    <2>1. CASE "heldout" \in gates /\ back # {} /\ Worse(back, best)
      <3>1. outer' = One /\ ~ Worse(back, One)
        BY <1>1, <1>3, <1>4, <2>1, NoneExceeds DEF One
      <3> QED BY <3>1
    <2>2. CASE ~ ("heldout" \in gates /\ back # {} /\ Worse(back, best))
      <3>1. outer' = best
        BY <1>1, <2>2
      <3> QED BY <2>2, <3>1
    <2> QED BY <2>1, <2>2
  <1> HIDE DEF best
  <1>8. CapturesTyped'
    BY <1>1, <1>2, <1>3, <1>4, <1>6, SamplesStay DEF CapturesTyped
  <1>9. ("heldout" \in gates /\ heldout # {} => ~ Worse(heldout, outer))'
    BY <1>1, <1>2, <1>7, SamplesStay
  <1> QED BY <1>2, <1>4, <1>8, <1>9 DEF GatesInv

\* CrossValidate keeps a scale that the holdouts of every root accept, or falls back to 1.
LEMMA ValidationKeeps == ASSUME GatesInv, CrossValidate PROVE GatesInv'
  <1>1. PICK holdouts \in [Root -> SUBSET SamplesOf(Root)] :
            /\ validated' = holdouts
            /\ IF \E r \in Root : holdouts[r] = {}
               THEN fitted' = "failed" /\ UNCHANGED outer
               ELSE fitted' = "validated" /\ outer' = IF Passes(holdouts) THEN outer ELSE One
    BY DEF CrossValidate
  <1>2. /\ fitted = "fitted" /\ capture' = capture /\ gates' = gates
        /\ heldout' = heldout /\ latent' = latent
    BY DEF CrossValidate
  <1>3. CapturesTyped
    BY DEF GatesInv
  <1>4. outer' \in {One, outer} /\ fitted' \in {"failed", "validated"}
    BY <1>1
  <1>5. CapturesTyped'
    BY <1>1, <1>2, <1>3, <1>4, SamplesStay DEF CapturesTyped, One
  <1>6. ("heldout" \in gates /\ heldout # {} => ~ Worse(heldout, outer))'
    <2>1. ~ Worse(heldout, One)
      BY <1>3, NoneExceeds DEF CapturesTyped, One
    <2>2. "heldout" \in gates /\ heldout # {} => ~ Worse(heldout, outer')
      BY <1>4, <2>1 DEF GatesInv
    <2> QED BY <1>2, <2>2, SamplesStay
  <1>7. ASSUME fitted' # "failed", NEW r \in Root PROVE ~ Worse(holdouts[r], outer')
    <2>1. ~ Worse(holdouts[r], One)
      <3>1. holdouts[r] \in SUBSET SamplesOf(Root)
        BY <1>1
      <3> QED BY <1>3, <3>1, NoneExceeds DEF One
    <2>2. outer' = IF Passes(holdouts) THEN outer ELSE One
      BY <1>1, <1>7
    <2>3. CASE Passes(holdouts)
      BY <2>1, <2>2, <2>3 DEF Passes
    <2>4. CASE ~ Passes(holdouts)
      BY <2>1, <2>2, <2>4
    <2> QED BY <2>3, <2>4
  <1>8. (fitted # "failed" => \A r \in Root : validated[r] # {} => ~ Worse(validated[r], outer))'
    BY <1>1, <1>2, <1>7, SamplesStay
  <1>9. fitted' \notin {"loaded", "fitted", "served"}
    BY <1>4
  <1> QED BY <1>5, <1>6, <1>8, <1>9 DEF GatesInv

\* Writing and serving leave the scales as they are.
LEMMA ServingKeeps ==
    ASSUME GatesInv, WriteArtifact \/ \E compatible, strict \in BOOLEAN : Serve(compatible, strict)
    PROVE  GatesInv'
  <1>1. /\ capture' = capture /\ gates' = gates /\ heldout' = heldout
        /\ validated' = validated /\ outer' = outer
    BY DEF WriteArtifact, Serve
  <1>2. /\ fitted # "failed"
        /\ fitted' \in {"written", "served", "refused"}
        /\ fitted' = "served" => latent' = LatentScale
    BY DEF WriteArtifact, Serve
  <1>3. LatentScale' = LatentScale
    BY <1>1, SamplesStay DEF LatentScale
  <1>4. CapturesTyped'
    BY <1>1, SamplesStay DEF GatesInv, CapturesTyped
  <1>5. ("heldout" \in gates /\ heldout # {} => ~ Worse(heldout, outer))'
    BY <1>1, SamplesStay DEF GatesInv
  <1>6. (\A r \in Root : validated[r] # {} => ~ Worse(validated[r], outer))'
    BY <1>1, <1>2, SamplesStay DEF GatesInv
  <1> QED BY <1>2, <1>3, <1>4, <1>5, <1>6 DEF GatesInv

\* The scale that is served passed the gates of its run.
LEMMA GatesSuffice == ASSUME GatesInv PROVE ServedScaleIsSafe
  <1> SUFFICES ASSUME fitted = "served",
                      NEW samples \in (IF "heldout" \in gates THEN {heldout} ELSE {})
                                        \cup (IF "cross" \in gates THEN Range(validated) ELSE {})
               PROVE  ~ Exceeds([phase |-> latent, error |-> ServedError(samples, latent)],
                                [phase |-> One, error |-> ServedError(samples, One)])
    BY DEF ServedScaleIsSafe
  <1>1. CapturesTyped
    BY DEF GatesInv
  <1>2. samples \in SUBSET SamplesOf(Root)
    BY <1>1 DEF CapturesTyped, Range
  <1>3. latent \in {One, outer} /\ latent \in 1 .. 4
    BY <1>1 DEF GatesInv, LatentScale, CapturesTyped, One
  <1>4. ~ Worse(samples, latent)
    <2>1. CASE latent = One \/ samples = {}
      BY <1>1, <1>2, <1>3, <2>1, NoneExceeds
    <2>2. CASE latent = outer /\ samples # {}
      <3>1. CASE samples = heldout /\ "heldout" \in gates
        BY <2>2, <3>1 DEF GatesInv
      <3>2. CASE samples \in Range(validated)
        <4>1. PICK r \in Root : samples = validated[r]
          BY <1>1, <3>2 DEF CapturesTyped, Range
        <4> QED BY <2>2, <4>1 DEF GatesInv
      <3> QED BY <3>1, <3>2
    <2> QED BY <1>3, <2>1, <2>2
  <1>5. /\ ServedError(samples, latent) = ReferenceError(samples, latent)
        /\ ServedError(samples, One) = ReferenceError(samples, One)
    BY <1>1, <1>2, <1>3, ServedErrorIsReference DEF One
  <1> QED BY <1>4, <1>5 DEF Worse, SamplesUnder

\* A run starts without a verdict.
LEMMA FitStart == FitInit => GatesInv
  <1> SUFFICES ASSUME FitInit PROVE GatesInv
    OBVIOUS
  <1>1. CapturesTyped
    BY DEF FitInit, CapturesTyped, One
  <1> QED BY <1>1 DEF FitInit, GatesInv

\* Every step of the run keeps what the gates have shown.
LEMMA FitStep == GatesInv /\ [FitNext]_fitVars => GatesInv'
  <1> SUFFICES ASSUME GatesInv, [FitNext]_fitVars PROVE GatesInv'
    OBVIOUS
  <1>1. CASE FitLayer
    BY <1>1, FitKeeps
  <1>2. CASE CrossValidate
    BY <1>2, ValidationKeeps
  <1>3. CASE WriteArtifact \/ \E compatible, strict \in BOOLEAN : Serve(compatible, strict)
    BY <1>3, ServingKeeps
  <1>4. CASE UNCHANGED fitVars
    <2>1. /\ capture' = capture /\ gates' = gates /\ heldout' = heldout /\ fitted' = fitted
          /\ validated' = validated /\ outer' = outer /\ latent' = latent
      BY <1>4 DEF fitVars
    <2>2. LatentScale' = LatentScale
      BY <2>1, SamplesStay DEF LatentScale
    <2>3. CapturesTyped'
      BY <2>1, SamplesStay DEF GatesInv, CapturesTyped
    <2>4. ("heldout" \in gates /\ heldout # {} => ~ Worse(heldout, outer))'
      BY <2>1, SamplesStay DEF GatesInv
    <2>5. (fitted # "failed" => \A r \in Root : validated[r] # {} => ~ Worse(validated[r], outer))'
      BY <2>1, SamplesStay DEF GatesInv
    <2> QED BY <2>1, <2>2, <2>3, <2>4, <2>5 DEF GatesInv
  <1> QED BY <1>1, <1>2, <1>3, <1>4 DEF FitNext

(* Serving is safe: a scale other than 1 that is served passed, in its    *)
(* own run, every gate it was to pass, on the samples held back there,    *)
(* and the records the kernel writes for it are no worse than for 1.      *)
THEOREM ServedScales == FitSpec => []ServedScaleIsSafe
  BY FitStart, FitStep, GatesSuffice, PTL DEF FitSpec

----------------------------------------------------------------------------
OptSpec == OptInit /\ [][OptimizeMatrix]_optVars

\* The greater and the lesser of two numbers.
LEMMA MaxOfTwo ==
    ASSUME NEW a \in Int, NEW b \in Int
    PROVE  /\ Max({a, b}) = IF a >= b THEN a ELSE b
           /\ Min({a, b}) = IF a <= b THEN a ELSE b
  <1>1. \E x \in {a, b} : \A y \in {a, b} : x >= y
    BY a >= b \/ b >= a
  <1>2. Max({a, b}) \in {a, b} /\ \A y \in {a, b} : Max({a, b}) >= y
    BY <1>1, Zenon DEF Max
  <1>3. \E x \in {a, b} : \A y \in {a, b} : x <= y
    BY a >= b \/ b >= a
  <1>4. Min({a, b}) \in {a, b} /\ \A y \in {a, b} : Min({a, b}) <= y
    BY <1>3, Zenon DEF Min
  <1> QED BY <1>2, <1>4

\* The least number of a set is in it.
LEMMA MinIsLeast ==
    ASSUME NEW S \in SUBSET Nat, S # {}
    PROVE  Min(S) \in S /\ \A k \in S : Min(S) <= k
  <1>1. \E x \in S : \A k \in S : x <= k
    BY LeastElement
  <1> QED BY <1>1, Zenon DEF Min

\* The thresholds below a value are the first of them.
LEMMA ThresholdsCounted ==
    /\ Cardinality({}) = 0
    /\ Cardinality({1}) = 1
    /\ Cardinality({1, 3}) = 2
    /\ Cardinality({1, 3, 5}) = 3
    /\ Cardinality({1, 3, 5, 7}) = 4
    /\ Cardinality({1, 3, 5, 7, 10}) = 5
    /\ Cardinality({1, 3, 5, 7, 10, 14}) = 6
    /\ Cardinality(Thresholds) = 7
    /\ IsFiniteSet(Thresholds)
  <1>0. IsFiniteSet({}) /\ Cardinality({}) = 0
    BY FS_EmptySet
  <1>1. IsFiniteSet({1}) /\ Cardinality({1}) = 1
    BY FS_Singleton
  <1>2. IsFiniteSet({1} \cup {3}) /\ Cardinality({1} \cup {3}) = 2
    BY <1>1, FS_AddElement
  <1>3. IsFiniteSet({1, 3} \cup {5}) /\ Cardinality({1, 3} \cup {5}) = 3
    <2>1. {1, 3} = {1} \cup {3} /\ 5 \notin {1, 3}
      OBVIOUS
    <2> QED BY <1>2, <2>1, FS_AddElement
  <1>4. IsFiniteSet({1, 3, 5} \cup {7}) /\ Cardinality({1, 3, 5} \cup {7}) = 4
    <2>1. {1, 3, 5} = {1, 3} \cup {5} /\ 7 \notin {1, 3, 5}
      OBVIOUS
    <2> QED BY <1>3, <2>1, FS_AddElement
  <1>5. IsFiniteSet({1, 3, 5, 7} \cup {10}) /\ Cardinality({1, 3, 5, 7} \cup {10}) = 5
    <2>1. {1, 3, 5, 7} = {1, 3, 5} \cup {7} /\ 10 \notin {1, 3, 5, 7}
      OBVIOUS
    <2> QED BY <1>4, <2>1, FS_AddElement
  <1>6. IsFiniteSet({1, 3, 5, 7, 10} \cup {14}) /\ Cardinality({1, 3, 5, 7, 10} \cup {14}) = 6
    <2>1. {1, 3, 5, 7, 10} = {1, 3, 5, 7} \cup {10} /\ 14 \notin {1, 3, 5, 7, 10}
      OBVIOUS
    <2> QED BY <1>5, <2>1, FS_AddElement
  <1>7. /\ IsFiniteSet({1, 3, 5, 7, 10, 14} \cup {20})
        /\ Cardinality({1, 3, 5, 7, 10, 14} \cup {20}) = 7
    <2>1. {1, 3, 5, 7, 10, 14} = {1, 3, 5, 7, 10} \cup {14} /\ 20 \notin {1, 3, 5, 7, 10, 14}
      OBVIOUS
    <2> QED BY <1>6, <2>1, FS_AddElement
  <1>8. /\ {1, 3} = {1} \cup {3}
        /\ {1, 3, 5} = {1, 3} \cup {5}
        /\ {1, 3, 5, 7} = {1, 3, 5} \cup {7}
        /\ {1, 3, 5, 7, 10} = {1, 3, 5, 7} \cup {10}
        /\ {1, 3, 5, 7, 10, 14} = {1, 3, 5, 7, 10} \cup {14}
        /\ Thresholds = {1, 3, 5, 7, 10, 14} \cup {20}
    BY DEF Thresholds
  <1> QED BY <1>0, <1>1, <1>2, <1>3, <1>4, <1>5, <1>6, <1>7, <1>8

\* Counting the thresholds that a value exceeds finds the nearest magnitude.
Exceeded(v, s) == {t \in Thresholds : 2 * v > t * s}

\* No magnitude is nearer than the one that is found.
LEMMA MagnitudeIsNearest ==
    ASSUME NEW v \in Nat, NEW s \in Nat, NEW m \in Range(E2M1)
    PROVE  /\ Cardinality(Exceeded(v, s)) \in 0 .. 7
           /\ Square(E2M1[Cardinality(Exceeded(v, s)) + 1] * s - v) <= Square(m * s - v)
  <1> DEFINE k == Cardinality(Exceeded(v, s))
             a == E2M1[k + 1] * s - v
             b == m * s - v
  <1>1. m \in {0, 1, 2, 3, 4, 6, 8, 12}
    BY DEF Range, E2M1
  <1>2. \/ Exceeded(v, s) = {} /\ 2 * v <= s
        \/ Exceeded(v, s) = {1} /\ 2 * v > s /\ 2 * v <= 3 * s
        \/ Exceeded(v, s) = {1, 3} /\ 2 * v > 3 * s /\ 2 * v <= 5 * s
        \/ Exceeded(v, s) = {1, 3, 5} /\ 2 * v > 5 * s /\ 2 * v <= 7 * s
        \/ Exceeded(v, s) = {1, 3, 5, 7} /\ 2 * v > 7 * s /\ 2 * v <= 10 * s
        \/ Exceeded(v, s) = {1, 3, 5, 7, 10} /\ 2 * v > 10 * s /\ 2 * v <= 14 * s
        \/ Exceeded(v, s) = {1, 3, 5, 7, 10, 14} /\ 2 * v > 14 * s /\ 2 * v <= 20 * s
        \/ Exceeded(v, s) = Thresholds /\ 2 * v > 20 * s
    BY DEF Exceeded, Thresholds
  <1>3. \/ k = 0 /\ 2 * v <= s
        \/ k = 1 /\ 2 * v > s /\ 2 * v <= 3 * s
        \/ k = 2 /\ 2 * v > 3 * s /\ 2 * v <= 5 * s
        \/ k = 3 /\ 2 * v > 5 * s /\ 2 * v <= 7 * s
        \/ k = 4 /\ 2 * v > 7 * s /\ 2 * v <= 10 * s
        \/ k = 5 /\ 2 * v > 10 * s /\ 2 * v <= 14 * s
        \/ k = 6 /\ 2 * v > 14 * s /\ 2 * v <= 20 * s
        \/ k = 7 /\ 2 * v > 20 * s
    BY <1>2, ThresholdsCounted
  <1> HIDE DEF k
  <1>4. /\ E2M1[1] = 0 /\ E2M1[2] = 1 /\ E2M1[3] = 2 /\ E2M1[4] = 3
        /\ E2M1[5] = 4 /\ E2M1[6] = 6 /\ E2M1[7] = 8 /\ E2M1[8] = 12
    BY DEF E2M1
  <1>5. k \in 0 .. 7
    BY <1>3
  <1>6. \/ k = 0 /\ 2 * v <= s /\ a = -v
        \/ k = 1 /\ 2 * v > s /\ 2 * v <= 3 * s /\ a = s - v
        \/ k = 2 /\ 2 * v > 3 * s /\ 2 * v <= 5 * s /\ a = 2 * s - v
        \/ k = 3 /\ 2 * v > 5 * s /\ 2 * v <= 7 * s /\ a = 3 * s - v
        \/ k = 4 /\ 2 * v > 7 * s /\ 2 * v <= 10 * s /\ a = 4 * s - v
        \/ k = 5 /\ 2 * v > 10 * s /\ 2 * v <= 14 * s /\ a = 6 * s - v
        \/ k = 6 /\ 2 * v > 14 * s /\ 2 * v <= 20 * s /\ a = 8 * s - v
        \/ k = 7 /\ 2 * v > 20 * s /\ a = 12 * s - v
    BY <1>3, <1>4
  <1>7. b \in {-v, s - v, 2 * s - v, 3 * s - v, 4 * s - v, 6 * s - v, 8 * s - v, 12 * s - v}
    BY <1>1
  <1> HIDE DEF a, b
  <1>8. a \in Int /\ b \in Int
    BY <1>6, <1>7
  <1>9. (b <= a /\ a <= -b) \/ (-b <= a /\ a <= b)
    BY <1>6, <1>7
  <1>10. Square(a) <= Square(b)
    BY <1>8, <1>9, SquareGrows
  <1> QED BY <1>5, <1>10 DEF a, b, k

\* Elements of a group are natural numbers, and there are finitely many.
LEMMA GroupTyped ==
    ASSUME NEW group \in Seq(Nat)
    PROVE  IsFiniteSet(DOMAIN group) /\ \A i \in DOMAIN group : group[i] \in Nat
  <1>1. DOMAIN group = 1 .. Len(group) /\ Len(group) \in Nat
    BY LenProperties
  <1>2. IsFiniteSet(1 .. Len(group))
    BY <1>1, FS_Interval
  <1> QED BY <1>1, <1>2, ElementOfSeq

\* The least error that codes under a scale can have.
LeastError(group, c, g) ==
    SumOf([i \in DOMAIN group |-> Min({Square(m * Scale(c) - group[i] * g) : m \in Range(E2M1)})])

\* The optimizer's codes have it.
LEMMA MagnitudesAreNearest ==
    ASSUME NEW group \in Seq(Nat), NEW c \in 0 .. TopCode + 1, NEW g \in Nat
    PROVE  /\ Magnitudes(group, c, g) \in [DOMAIN group -> 0 .. 7]
           /\ ErrorOf(group, Magnitudes(group, c, g), c, g) \in Nat
           /\ LeastError(group, c, g) \in Int
           /\ ErrorOf(group, Magnitudes(group, c, g), c, g) <= LeastError(group, c, g)
  <1> DEFINE k == Magnitudes(group, c, g)
             f == [i \in DOMAIN group |-> Square(E2M1[k[i] + 1] * Scale(c) - group[i] * g)]
             errors(i) == {Square(m * Scale(c) - group[i] * g) : m \in Range(E2M1)}
             h == [i \in DOMAIN group |-> Min(errors(i))]
  <1>1. Scale(c) \in Nat
    BY ScaleNatural
  <1>2. \A i \in DOMAIN group : group[i] \in Nat
    BY GroupTyped
  <1>3. ASSUME NEW i \in DOMAIN group PROVE group[i] * g \in Nat
    BY <1>2, ProductOfNaturals
  <1>4. ASSUME NEW i \in DOMAIN group
        PROVE  k[i] = Cardinality(Exceeded(group[i] * g, Scale(c)))
    <2>1. \A t \in Thresholds : 2 * group[i] * g = 2 * (group[i] * g)
      BY <1>2
    <2> QED BY <2>1 DEF Magnitudes, Exceeded
  <1>5. DOMAIN k = DOMAIN group /\ k = [i \in DOMAIN group |-> k[i]]
    BY DEF Magnitudes
  <1> HIDE DEF k
  <1>6. Range(E2M1) # {}
    BY DEF Range, E2M1
  <1>7. ASSUME NEW i \in DOMAIN group, NEW m \in Range(E2M1)
        PROVE  /\ k[i] \in 0 .. 7
               /\ Square(E2M1[k[i] + 1] * Scale(c) - group[i] * g)
                    <= Square(m * Scale(c) - group[i] * g)
    BY <1>1, <1>3, <1>4, MagnitudeIsNearest
  <1>8. k \in [DOMAIN group -> 0 .. 7]
    BY <1>5, <1>6, <1>7
  <1>9. ASSUME NEW i \in DOMAIN group, NEW m \in Range(E2M1)
        PROVE  Square(m * Scale(c) - group[i] * g) \in Nat
    <2>1. m \in Nat
      BY DEF Range, E2M1
    <2>2. m * Scale(c) \in Nat /\ group[i] * g \in Nat
      BY <1>1, <1>3, <2>1, ProductOfNaturals
    <2>3. m * Scale(c) - group[i] * g \in Int
      BY <2>2
    <2> QED BY <2>3, SquareNatural
  <1>10. ASSUME NEW i \in DOMAIN group
         PROVE  /\ Min(errors(i)) \in Nat
                /\ \E m \in Range(E2M1) : Min(errors(i)) = Square(m * Scale(c) - group[i] * g)
    <2>1. errors(i) \subseteq Nat /\ errors(i) # {}
      BY <1>6, <1>9
    <2>2. Min(errors(i)) \in errors(i)
      BY <2>1, MinIsLeast
    <2> QED BY <2>1, <2>2
  <1>11. ErrorOf(group, k, c, g) \in Nat
    <2>1. g \in Int
      OBVIOUS
    <2> QED BY <1>8, <2>1, ErrorNatural
  <1>12. ASSUME NEW i \in DOMAIN group
         PROVE  Square(E2M1[k[i] + 1] * Scale(c) - group[i] * g) \in Nat
    <2>1. k[i] + 1 \in 1 .. 8
      <3>1. k[i] \in 0 .. 7
        BY <1>8
      <3> QED BY <3>1
    <2>2. E2M1[k[i] + 1] \in Nat
      BY <2>1, E2M1Typed DEF E2M1Values
    <2>3. E2M1[k[i] + 1] * Scale(c) \in Nat /\ group[i] * g \in Nat
      BY <1>1, <1>3, <2>2, ProductOfNaturals
    <2>4. E2M1[k[i] + 1] * Scale(c) - group[i] * g \in Int
      BY <2>3
    <2> QED BY <2>4, SquareNatural
  <1>13. f \in [DOMAIN group -> Int]
    BY <1>12
  <1>14. h \in [DOMAIN group -> Int]
    <2> HIDE DEF errors
    <2> QED BY <1>10
  <1>15. ASSUME NEW i \in DOMAIN group PROVE f[i] <= h[i]
    <2>1. PICK m \in Range(E2M1) : Min(errors(i)) = Square(m * Scale(c) - group[i] * g)
      BY <1>10
    <2>2. f[i] = Square(E2M1[k[i] + 1] * Scale(c) - group[i] * g) /\ h[i] = Min(errors(i))
      OBVIOUS
    <2> QED BY <1>7, <2>1, <2>2
  <1>16. ErrorOf(group, k, c, g) = Total(f) /\ LeastError(group, c, g) = Total(h)
    BY Zenon DEF ErrorOf, LeastError, SumOf, Total
  <1> HIDE DEF f, h
  <1>17. Total(f) <= Total(h) /\ Total(h) \in Int
    BY <1>13, <1>14, <1>15, GroupTyped, TotalGrows
  <1> QED BY <1>8, <1>11, <1>16, <1>17 DEF k

\* The baseline is a code or the one after the last.
LEMMA BaselineTyped ==
    ASSUME NEW group \in Seq(Nat), NEW g \in Nat
    PROVE  BaselineCode(group, g) \in 0 .. TopCode + 1
  <1> DEFINE table == [c \in 1 .. TopCode + 2 |-> 12 * Scale(c - 1)]
  <1>1. TopCode \in Nat
    BY RoundingAssumption
  <1>2. ASSUME NEW c \in 1 .. TopCode + 2 PROVE 12 * Scale(c - 1) \in Int
    <2>1. c - 1 \in 0 .. TopCode + 1
      BY <1>1
    <2> QED BY <2>1, ScaleNatural, ProductOfNaturals
  <1>3. Len(table) = TopCode + 2
    <2>1. TopCode + 2 \in Nat
      BY <1>1
    <2>2. table \in [1 .. TopCode + 2 -> Int]
      BY <1>2
    <2> QED BY <2>1, <2>2, TableIsSequence
  <1> HIDE DEF table
  <1>4. NearestEven(Amax(group) * g, table) \in 1 .. TopCode + 2
    <2>1. Len(table) \in Nat \ {0}
      BY <1>1, <1>3
    <2> QED BY <1>3, <2>1, NearestInTable
  <1>5. BaselineCode(group, g) = NearestEven(Amax(group) * g, table) - 1
    BY DEF BaselineCode, table
  <1> QED BY <1>1, <1>4, <1>5

\* The window is of codes, and has those around the baseline.
LEMMA WindowTyped ==
    ASSUME NEW group \in Seq(Nat), NEW g \in Nat
    PROVE  /\ Window(group, g) # {}
           /\ Window(group, g) \subseteq 1 .. TopCode + 1
           /\ Max({1, BaselineCode(group, g) - RadiusBelow})
                 .. Min({TopCode, BaselineCode(group, g) + RadiusAbove}) \subseteq Window(group, g)
  <1> DEFINE b == BaselineCode(group, g)
             at(d) == Max({1, Min({TopCode, b + d})})
  <1>1. TopCode \in Nat /\ RadiusBelow \in Nat /\ RadiusAbove \in Nat
    BY RoundingAssumption
  <1>2. b \in Int /\ TopCode \in Int /\ 1 \in Int
    BY <1>1, BaselineTyped
  <1>3. Window(group, g) = {at(d) : d \in - RadiusBelow .. RadiusAbove}
    BY DEF Window
  <1> HIDE DEF b
  <1>4. ASSUME NEW d \in Int
        PROVE  /\ at(d) \in 1 .. TopCode + 1
               /\ b + d \in 1 .. TopCode => at(d) = b + d
    <2>1. b + d \in Int
      BY <1>2
    <2>2. Min({TopCode, b + d}) = IF TopCode <= b + d THEN TopCode ELSE b + d
      BY <1>2, <2>1, MaxOfTwo, Zenon
    <2>3. Min({TopCode, b + d}) \in Int
      BY <1>1, <2>1, <2>2
    <2>4. at(d) = IF 1 >= Min({TopCode, b + d}) THEN 1 ELSE Min({TopCode, b + d})
      BY <1>2, <2>3, MaxOfTwo, Zenon
    <2> QED BY <1>1, <2>1, <2>2, <2>3, <2>4
  <1> HIDE DEF at
  <1>5. 0 \in - RadiusBelow .. RadiusAbove
    BY <1>1
  <1>6. Window(group, g) # {} /\ Window(group, g) \subseteq 1 .. TopCode + 1
    <2>1. \A d \in - RadiusBelow .. RadiusAbove : at(d) \in 1 .. TopCode + 1
      BY <1>1, <1>4
    <2> QED BY <1>3, <1>5, <2>1
  <1>7. ASSUME NEW c \in Max({1, b - RadiusBelow}) .. Min({TopCode, b + RadiusAbove})
        PROVE  c \in Window(group, g)
    <2>1. b - RadiusBelow \in Int /\ b + RadiusAbove \in Int
      BY <1>1, <1>2
    <2>2. /\ Max({1, b - RadiusBelow}) = IF 1 >= b - RadiusBelow THEN 1 ELSE b - RadiusBelow
          /\ Min({TopCode, b + RadiusAbove})
               = IF TopCode <= b + RadiusAbove THEN TopCode ELSE b + RadiusAbove
      BY <1>2, <2>1, MaxOfTwo, Zenon
    <2>3. c \in 1 .. TopCode /\ c - b \in - RadiusBelow .. RadiusAbove /\ b + (c - b) = c
      BY <1>1, <1>2, <2>1, <2>2
    <2>4. at(c - b) = c
      <3>1. c - b \in Int /\ b + (c - b) \in 1 .. TopCode
        BY <1>2, <2>3
      <3>2. at(c - b) = b + (c - b)
        BY <1>4, <3>1
      <3> QED BY <2>3, <3>2
    <2> QED BY <1>3, <2>3, <2>4
  <1> QED BY <1>6, <1>7 DEF b

\* The optimizer finds the least error of its window.
LEMMA GroupIsOptimal ==
    ASSUME NEW group \in Seq(Nat), NEW g \in Nat
    PROVE  /\ OptimizeGroup(group, g).error \in Nat
           /\ \A c \in Window(group, g) : OptimizeGroup(group, g).error <= LeastError(group, c, g)
  <1> DEFINE try(c) == LET codes == Magnitudes(group, c, g)
                      IN  [code |-> c, codes |-> codes, error |-> ErrorOf(group, codes, c, g)]
             tried == {try(c) : c \in Window(group, g)}
             least == OptimizeGroup(group, g)
  <1>1. Window(group, g) # {} /\ Window(group, g) \subseteq 0 .. TopCode + 1
    <2>1. Window(group, g) # {} /\ Window(group, g) \subseteq 1 .. TopCode + 1
      BY WindowTyped
    <2>2. 1 .. TopCode + 1 \subseteq 0 .. TopCode + 1
      BY RoundingAssumption
    <2> QED BY <2>1, <2>2
  <1>2. ASSUME NEW c \in Window(group, g)
        PROVE  /\ try(c).error \in Nat /\ try(c).code \in Nat
               /\ try(c).error <= LeastError(group, c, g)
    <2>1. c \in 0 .. TopCode + 1 /\ c \in Nat
      BY <1>1
    <2> QED BY <2>1, MagnitudesAreNearest
  <1>3. least = CHOOSE t \in tried : \A u \in tried :
            t.error < u.error \/ (t.error = u.error /\ t.code <= u.code)
    BY DEF OptimizeGroup
  <1> HIDE DEF try, least
  <1>4. tried # {} /\ \A t \in tried : t.error \in Nat /\ t.code \in Nat
    BY <1>1, <1>2
  <1>5. \E t \in tried : \A u \in tried :
            t.error < u.error \/ (t.error = u.error /\ t.code <= u.code)
    <2> HIDE DEF tried
    <2> DEFINE errors == {t.error : t \in tried}
    <2>1. errors # {} /\ errors \subseteq Nat
      BY <1>4
    <2>2. PICK e \in errors : \A other \in errors : e <= other
      BY <2>1, LeastElement
    <2> DEFINE codes == {t.code : t \in {t \in tried : t.error = e}}
    <2>3. codes # {} /\ codes \subseteq Nat
      BY <1>4, <2>2
    <2>4. PICK n \in codes : \A other \in codes : n <= other
      BY <2>3, LeastElement
    <2>5. PICK t \in tried : t.error = e /\ t.code = n
      BY <2>4
    <2>6. ASSUME NEW u \in tried
          PROVE  t.error < u.error \/ (t.error = u.error /\ t.code <= u.code)
      <3>1. e <= u.error /\ e \in Nat /\ u.error \in Nat
        BY <1>4, <2>1, <2>2
      <3>2. u.error = e => n <= u.code
        BY <2>4
      <3> QED BY <2>5, <3>1, <3>2
    <2> QED BY <2>5, <2>6
  <1>6. least \in tried /\ \A u \in tried : least.error <= u.error
    <2>1. least \in tried /\ \A u \in tried :
              least.error < u.error \/ (least.error = u.error /\ least.code <= u.code)
      BY <1>3, <1>5, Zenon
    <2> HIDE DEF tried
    <2> QED BY <1>4, <2>1
  <1>7. least.error \in Nat
    BY <1>4, <1>6
  <1>8. ASSUME NEW c \in Window(group, g) PROVE least.error <= LeastError(group, c, g)
    <2>1. try(c) \in tried
      OBVIOUS
    <2>2. least.error <= try(c).error
      BY <1>6, <2>1
    <2>3. LeastError(group, c, g) \in Int
      <3>1. c \in 0 .. TopCode + 1
        BY <1>1
      <3> QED BY <3>1, MagnitudesAreNearest
    <2> QED BY <1>2, <1>7, <2>2, <2>3
  <1> QED BY <1>7, <1>8 DEF least

\* The matrix has rows, each a group.
MatrixTyped == matrix \in UNION {[1 .. n -> WeightGroups] : n \in 1 .. 2}

\* Errors of rows under a scale add up to a number.
LEMMA RowsTyped ==
    ASSUME MatrixTyped
    PROVE  /\ \A r \in DOMAIN matrix : matrix[r] \in Seq(Nat)
           /\ \A rows \in SUBSET DOMAIN matrix, g \in Nat : RowsError(rows, g) \in Nat
           /\ Train \in SUBSET DOMAIN matrix /\ Heldout \in SUBSET DOMAIN matrix
  <1>1. PICK n \in 1 .. 2 : matrix \in [1 .. n -> WeightGroups]
    BY DEF MatrixTyped
  <1>2. \A r \in DOMAIN matrix : matrix[r] \in Seq(Nat)
    BY <1>1, RoundingAssumption
  <1>3. IsFiniteSet(DOMAIN matrix)
    <2>1. n \in Int
      OBVIOUS
    <2> QED BY <1>1, <2>1, FS_Interval
  <1>4. ASSUME NEW rows \in SUBSET DOMAIN matrix, NEW g \in Nat
        PROVE  RowsError(rows, g) \in Nat
    <2> DEFINE f == [r \in rows |-> OptimizeGroup(matrix[r], g).error]
    <2>1. f \in [rows -> Nat]
      BY <1>2, GroupIsOptimal
    <2>2. IsFiniteSet(rows)
      BY <1>3, FS_Subset
    <2>3. RowsError(rows, g) = Total(f)
      BY Zenon DEF RowsError, SumOf, Total
    <2> HIDE DEF f
    <2> QED BY <2>1, <2>2, <2>3, TotalNatural
  <1>5. Train \in SUBSET DOMAIN matrix /\ Heldout \in SUBSET DOMAIN matrix
    BY DEF Train, Heldout
  <1> QED BY <1>2, <1>4, <1>5

\* The divisor that is chosen is one of those tried, and loses to that of the checkpoint
\* on no held-out row.
LEMMA DivisorIsSafe ==
    ASSUME MatrixTyped
    PROVE  /\ SelectDivisor \in 1 .. 4
           /\ ~ Exceeds(RowsUnder(Heldout, SelectDivisor), RowsUnder(Heldout, One))
  <1> DEFINE tried == {RowsUnder(Train, g) : g \in Phases}
  <1>1. Phases \subseteq 1 .. 4 /\ Phases # {}
    BY RoundingAssumption
  <1>2. \A t \in tried : t.error \in Nat /\ t.phase \in 1 .. 4
    BY <1>1, RowsTyped DEF RowsUnder
  <1>3. tried # {}
    BY <1>1
  <1> HIDE DEF tried
  <1>4. BestOf(tried) \in tried
    BY <1>2, <1>3, BestWasTried
  <1>5. BestPhase \in 1 .. 4
    BY <1>2, <1>4 DEF BestPhase, tried
  <1>6. ~ Exceeds(RowsUnder(Heldout, One), RowsUnder(Heldout, One))
    <2>1. RowsError(Heldout, One) \in Nat
      BY RowsTyped DEF One
    <2>2. RowsError(Heldout, One) * One * One \in Nat
      BY <2>1 DEF One
    <2> QED BY <2>2 DEF Exceeds, RowsUnder
  <1>7. \/ SelectDivisor = One
        \/ /\ SelectDivisor = BestPhase
           /\ ~ Exceeds(RowsUnder(Heldout, BestPhase), RowsUnder(Heldout, One))
    BY Zenon DEF SelectDivisor
  <1> QED BY <1>5, <1>6, <1>7 DEF One

\* The optimizer runs once, on rows that stay.
OptInv ==
    /\ MatrixTyped
    /\ \/ optimized = <<>>
       \/ optimized = [r \in DOMAIN matrix |->
                         [phase |-> SelectDivisor, group |-> OptimizeGroup(matrix[r], SelectDivisor)]]

\* What the optimizer leaves is what the property asks for.
LEMMA OptimizerWins == ASSUME OptInv PROVE OptimizerNeverLoses
  <1> SUFFICES ASSUME NEW r \in DOMAIN optimized
               PROVE  LET g == optimized[r].phase
                          group == matrix[r]
                          baseline == BaselineCode(group, g)
                      IN  /\ \A c \in Max({1, baseline - RadiusBelow})
                                        .. Min({TopCode, baseline + RadiusAbove}) :
                                optimized[r].group.error <= LeastError(group, c, g)
                          /\ ~ Exceeds(RowsUnder(Heldout, g), RowsUnder(Heldout, One))
    BY Zenon DEF OptimizerNeverLoses, LeastError
  <1> DEFINE g == SelectDivisor
  <1>1. MatrixTyped /\ r \in DOMAIN matrix
        /\ optimized[r] = [phase |-> g, group |-> OptimizeGroup(matrix[r], g)]
    BY DEF OptInv
  <1>2. g \in 1 .. 4 /\ ~ Exceeds(RowsUnder(Heldout, g), RowsUnder(Heldout, One))
    BY <1>1, DivisorIsSafe
  <1>3. matrix[r] \in Seq(Nat) /\ g \in Nat
    BY <1>1, <1>2, RowsTyped
  <1> HIDE DEF g
  <1>4. optimized[r].phase = g /\ optimized[r].group = OptimizeGroup(matrix[r], g)
    BY <1>1
  <1>5. \A c \in Max({1, BaselineCode(matrix[r], g) - RadiusBelow})
                .. Min({TopCode, BaselineCode(matrix[r], g) + RadiusAbove}) :
            OptimizeGroup(matrix[r], g).error <= LeastError(matrix[r], c, g)
    BY <1>3, WindowTyped, GroupIsOptimal
  <1> QED BY <1>2, <1>4, <1>5

\* Nothing is optimized at first.
LEMMA OptStart == OptInit => OptInv
  BY DEF OptInit, OptInv, MatrixTyped

\* The optimizer keeps the invariant, and so does a step that leaves it alone.
LEMMA OptStep == OptInv /\ [OptimizeMatrix]_optVars => OptInv'
  <1> SUFFICES ASSUME OptInv, [OptimizeMatrix]_optVars PROVE OptInv'
    OBVIOUS
  <1>1. matrix' = matrix
    BY DEF OptimizeMatrix, optVars
  <1>2. MatrixTyped'
    BY <1>1 DEF OptInv, MatrixTyped
  <1>3. SelectDivisor' = SelectDivisor
    <2>1. \A rows, g : RowsUnder(rows, g)' = RowsUnder(rows, g)
      BY <1>1, Zenon DEF RowsUnder, RowsError
    <2>2. Train' = Train /\ Heldout' = Heldout
      BY <1>1 DEF Train, Heldout
    <2>3. {RowsUnder(Train, g) : g \in Phases}' = {RowsUnder(Train, g) : g \in Phases}
      BY <2>1, <2>2
    <2>4. BestPhase' = BestPhase
      BY <2>3, Zenon DEF BestPhase
    <2> QED BY <2>1, <2>2, <2>4 DEF SelectDivisor
  <1>4. optimized' = optimized
        \/ optimized' = [r \in DOMAIN matrix |->
              [phase |-> SelectDivisor, group |-> OptimizeGroup(matrix[r], SelectDivisor)]]
    BY DEF OptimizeMatrix, optVars
  <1> QED BY <1>1, <1>2, <1>3, <1>4 DEF OptInv

(* Rounding gains: an optimized group is as near to the weights as any    *)
(* codes under any scale of its window, and the divisor of the matrix     *)
(* does no worse on held-out rows than that of the checkpoint.            *)
THEOREM OptimizerGains == OptSpec => []OptimizerNeverLoses
  BY OptStart, OptStep, OptimizerWins, PTL DEF OptSpec

----------------------------------------------------------------------------
(* The drafter's KV layout, for every geometry.                            *)

KvSpec == KvInit /\ [][KvNext]_kvVars

\* A geometry whose layout was accepted, with the group the drafter has in it.
Accepted == geo \in Geometries /\ geo.mambas # 0 /\ draft = DraftGroup /\ LayoutAccepts

\* The tensors of a pool of n blocks.
IndexTensor(i, n) ==
    [name |-> <<"index", i>>, size |-> geo.idxPage * n, sharedBy |-> {<<"index", i>>, <<"tail", i>>}]
OwnTensor(l, n) == [name |-> l, size |-> draft.page * n, sharedBy |-> {l}]
OwnLayers == IF DraftShared THEN {} ELSE draft.layers
Emitted(n) ==
    {MlaTensor(i, n) : i \in 1 .. geo.mlas} \cup {IndexTensor(i, n) : i \in 1 .. geo.mlas}
        \cup {OwnTensor(l, n) : l \in OwnLayers}

\* A number of blocks that holds all.
LEMMA CeilHolds ==
    ASSUME NEW n \in Nat, NEW d \in Nat \ {0}
    PROVE  Ceil(n, d) \in Nat /\ d * Ceil(n, d) >= n
  <1> DEFINE m == n + d - 1
             q == m \div d
  <1>1. m \in Nat /\ m = n + d - 1
    OBVIOUS
  <1>2. Ceil(n, d) = q
    BY DEF Ceil
  <1> HIDE DEF m
  <1>3. q \in Nat /\ m < d * q + d
    BY <1>1, Division
  <1> HIDE DEF q
  <1>4. d * q \in Nat
    BY <1>3
  <1>5. d * q >= n
    BY <1>1, <1>3, <1>4
  <1> QED BY <1>2, <1>3, <1>5

\* What a geometry is made of.
LEMMA GeometryTyped ==
    ASSUME Accepted
    PROVE  /\ geo.mlaBlock \in Nat \ {0} /\ geo.mlaToken \in Nat \ {0} /\ geo.idxPage \in Nat
           /\ geo.mlas \in Nat \ {0} /\ geo.mambas \in Nat \ {0} /\ geo.drafts \in Nat
           /\ geo.draftToken \in Nat \ {0} /\ geo.draftBlock \in Nat \ {0}
           /\ geo.dcp \in Nat \ {0} /\ geo.stateBlocks \in Nat /\ geo.window \in Nat \ {0}
           /\ geo.inFlight \in Nat /\ geo.maxLen \in Nat /\ geo.available \in Nat
           /\ MlaPage \in Nat \ {0}
  <1>1. geo.mambas # 0
    BY DEF Accepted
  <1>2. geo \in [mlaBlock : Nat \ {0}, mlaToken : Nat \ {0}, idxPage : Nat, mlas : Nat \ {0},
                 mambas : Nat, drafts : Nat, draftToken : Nat \ {0}, draftBlock : Nat \ {0},
                 padded : BOOLEAN, foreign : BOOLEAN, dcp : Nat \ {0}, stateBlocks : Nat,
                 window : Nat \ {0}, inFlight : Nat, maxLen : Nat, available : Nat]
    BY LayoutAssumption DEF Accepted
  <1>3. geo.mlaBlock \in Nat \ {0} /\ geo.mlaToken \in Nat \ {0}
    BY <1>2
  <1>4. geo.mlaBlock * geo.mlaToken \in Nat \ {0}
    BY <1>3
  <1> QED BY <1>1, <1>2, <1>4 DEF MlaPage

\* The drafter's group: a layer each, compact pages, and no more of them than MLA
\* tensors when they ride those.
LEMMA DraftTyped ==
    ASSUME Accepted
    PROVE  /\ draft.layers = {<<"draft", i>> : i \in 1 .. geo.drafts}
           /\ IsFiniteSet(draft.layers) /\ Cardinality(draft.layers) = geo.drafts
           /\ draft.page \in Nat
           /\ geo.drafts # 0 => /\ draft.block \in Nat \ {0}
                                /\ draft.page = draft.block * geo.draftToken
                                /\ ~ draft.padded
           /\ DraftShared => geo.drafts # 0 /\ geo.drafts <= geo.mlas
  <1> DEFINE layer == [i \in 1 .. geo.drafts |-> <<"draft", i>>]
             block == IF ExactFit THEN FitBlock ELSE geo.draftBlock
  <1>1. geo.drafts \in Nat
    BY GeometryTyped
  <1>2. Range(layer) = {<<"draft", i>> : i \in 1 .. geo.drafts}
    BY DEF Range
  <1>3. IsFiniteSet(Range(layer)) /\ Cardinality(Range(layer)) = geo.drafts
    <2>1. layer \in [1 .. geo.drafts -> Range(layer)]
      BY DEF Range
    <2>2. \A i, j \in 1 .. geo.drafts : layer[i] = layer[j] => i = j
      OBVIOUS
    <2> HIDE DEF layer
    <2> QED BY <1>1, <2>1, <2>2, FamilySize
  <1> HIDE DEF layer
  <1>4. block \in Nat \ {0}
    <2>1. FitBlock \in Nat
      <3>1. MlaPage \div geo.draftToken \in Nat
        BY GeometryTyped, Division
      <3> QED BY <3>1 DEF FitBlock
    <2>2. ExactFit => FitBlock # 0
      BY DEF ExactFit
    <2> QED BY <2>1, <2>2, GeometryTyped
  <1> HIDE DEF block
  <1>5. CASE geo.drafts = 0
    <2>1. draft = NoDraft
      BY <1>5 DEF Accepted, DraftGroup
    <2>2. draft.layers = {} /\ draft.page = 0
      BY <2>1 DEF NoDraft
    <2>3. ~ DraftShared
      BY <2>2, GeometryTyped DEF DraftShared
    <2> QED BY <1>2, <1>3, <1>5, <2>2, <2>3
  <1>6. CASE geo.drafts # 0
    <2>1. draft = [layers |-> Range(layer), block |-> block, page |-> block * geo.draftToken,
                   padded |-> geo.padded]
      BY <1>2, <1>6 DEF Accepted, DraftGroup, block
    <2>2. /\ draft.layers = Range(layer) /\ draft.block = block
          /\ draft.page = block * geo.draftToken
      BY <2>1
    <2>3. block * geo.draftToken \in Nat
      BY <1>4, GeometryTyped, ProductOfNaturals
    <2>4. draft.layers # {}
      BY <1>3, <1>6, <2>2, FS_EmptySet
    <2>5. ~ draft.padded /\ (draft.page = MlaPage => ~ Cardinality(draft.layers) > geo.mlas)
      BY <2>4 DEF Accepted, LayoutAccepts
    <2>6. DraftShared => geo.drafts <= geo.mlas
      BY <1>1, <1>3, <2>2, <2>5, GeometryTyped DEF DraftShared
    <2> QED BY <1>2, <1>3, <1>4, <1>6, <2>2, <2>3, <2>5, <2>6
  <1> QED BY <1>5, <1>6

\* What a block costs, as the pool, the config and the memory check count it.
LEMMA CostOfBlock ==
    ASSUME Accepted
    PROVE  /\ ConfigPerBlock \in Nat \ {0}
           /\ ConfigPerBlock = geo.mlas * (MlaPage + geo.idxPage)
                               + (IF DraftShared THEN 0 ELSE geo.drafts * draft.page)
           /\ PoolBytesPerBlock = ConfigPerBlock
           /\ MaxMemoryUsage = BlocksNeeded * ConfigPerBlock
  <1> DEFINE own == IF DraftShared THEN 0 ELSE geo.drafts * draft.page
  <1>1. /\ geo.mlas \in Nat \ {0} /\ MlaPage \in Nat \ {0} /\ geo.idxPage \in Nat
        /\ geo.drafts \in Nat
    BY GeometryTyped
  <1>2. draft.page \in Nat /\ Cardinality(draft.layers) = geo.drafts
    BY DraftTyped
  <1>3. draft.layers = {} => geo.drafts = 0
    BY <1>2, FS_EmptySet
  <1>4. (IF draft.layers # {} /\ draft.page # MlaPage
         THEN Cardinality(draft.layers) * draft.page ELSE 0) = own
    <2>1. CASE draft.layers = {}
      <3>1. 0 * draft.page = 0
        BY <1>2
      <3> QED BY <1>3, <2>1, <3>1
    <2>2. CASE draft.layers # {}
      BY <1>2, <2>2 DEF DraftShared
    <2> QED BY <2>1, <2>2
  <1>5. own \in Nat
    BY <1>1, <1>2, ProductOfNaturals
  <1>6. BaseBytes \in Nat \ {0}
    <2> DEFINE both == MlaPage + geo.idxPage
    <2>1. both \in Nat \ {0}
      BY <1>1
    <2>2. BaseBytes = geo.mlas * both
      BY DEF BaseBytes
    <2> HIDE DEF both
    <2>3. geo.mlas * both \in Nat \ {0}
      BY <1>1, <2>1, PositiveProduct
    <2> QED BY <2>2, <2>3
  <1> HIDE DEF own
  <1>7. PoolBytesPerBlock = BaseBytes + own
    BY <1>4 DEF PoolBytesPerBlock
  <1>8. ConfigPerBlock = BaseBytes + own
    BY <1>4 DEF ConfigPerBlock, DraftShared
  <1>9. MaxMemoryUsage = BlocksNeeded * (BaseBytes + own)
    BY <1>4 DEF MaxMemoryUsage
  <1>10. BaseBytes + own \in Nat \ {0}
    BY <1>5, <1>6
  <1> QED BY <1>7, <1>8, <1>9, <1>10 DEF BaseBytes, own

SizeBody(g, s) == IF s = {} THEN 0 ELSE Pick(s).size + g[s \ {Pick(s)}]
SizeSums(T) == CHOOSE g : g = [s \in SUBSET T |-> SizeBody(g, s)]

\* The bytes of tensors are the sum of their sizes.
LEMMA BytesAreTotal ==
    ASSUME NEW T
    PROVE  MapThenSumSet(LAMBDA t : t.size, T) = Total([t \in T |-> t.size])
  <1> DEFINE f == [t \in T |-> t.size]
  <1>1. MapThenSumSet(LAMBDA t : t.size, T) = SizeSums(T)[T]
    BY Zenon DEF MapThenSumSet, MapThenFoldSet, SizeSums, SizeBody, Pick
  <1>2. ASSUME NEW g
        PROVE  [s \in SUBSET T |-> SizeBody(g, s)] = [s \in SUBSET DOMAIN f |-> SumBody(f, g, s)]
    <2>1. ASSUME NEW s \in SUBSET T PROVE SizeBody(g, s) = SumBody(f, g, s)
      <3>1. s # {} => Pick(s) \in T
        BY Zenon DEF Pick
      <3> QED BY <3>1 DEF SizeBody, SumBody
    <2> QED BY <2>1
  <1> HIDE DEF f
  <1>3. SizeSums(T) = Sums(f)
    BY <1>2, Zenon DEF SizeSums, Sums
  <1>4. Total(f) = Sums(f)[DOMAIN f] /\ DOMAIN f = T
    BY TotalIsSums DEF f
  <1> QED BY <1>1, <1>3, <1>4 DEF f

\* The tensors of a pool take what its blocks cost.
LEMMA BytesOfPool ==
    ASSUME Accepted, NEW n \in Nat
    PROVE  MapThenSumSet(LAMBDA t : t.size, Emitted(n)) = n * ConfigPerBlock
  <1> DEFINE mla == [i \in 1 .. geo.mlas |-> MlaTensor(i, n)]
             idxTensor == [i \in 1 .. geo.mlas |-> IndexTensor(i, n)]
             A == {MlaTensor(i, n) : i \in 1 .. geo.mlas}
             B == {IndexTensor(i, n) : i \in 1 .. geo.mlas}
             C == {OwnTensor(l, n) : l \in OwnLayers}
             f == [t \in Emitted(n) |-> t.size]
             a == MlaPage * n
             b == geo.idxPage * n
             c == draft.page * n
             ownCount == IF DraftShared THEN 0 ELSE geo.drafts
  <1>1. /\ geo.mlas \in Nat \ {0} /\ MlaPage \in Nat \ {0} /\ geo.idxPage \in Nat
        /\ geo.drafts \in Nat /\ draft.page \in Nat
    BY GeometryTyped, DraftTyped
  <1>2. IsFiniteSet(A) /\ Cardinality(A) = geo.mlas
    <2>1. \A i, j \in 1 .. geo.mlas : mla[i] = mla[j] => i = j
      <3>1. \A i \in 1 .. geo.mlas : mla[i].name = <<"mla", i>>
        BY DEF MlaTensor
      <3> HIDE DEF mla
      <3> QED BY <3>1
    <2>2. Range(mla) = A /\ mla \in [1 .. geo.mlas -> A]
      BY DEF Range
    <2> HIDE DEF mla, A
    <2> QED BY <1>1, <2>1, <2>2, FamilySize
  <1>3. IsFiniteSet(B) /\ Cardinality(B) = geo.mlas
    <2>1. \A i, j \in 1 .. geo.mlas : idxTensor[i] = idxTensor[j] => i = j
      <3>1. \A i \in 1 .. geo.mlas : idxTensor[i].name = <<"index", i>>
        BY DEF IndexTensor
      <3> HIDE DEF idxTensor
      <3> QED BY <3>1
    <2>2. Range(idxTensor) = B /\ idxTensor \in [1 .. geo.mlas -> B]
      BY DEF Range
    <2> HIDE DEF idxTensor, B
    <2> QED BY <1>1, <2>1, <2>2, FamilySize
  <1>4. IsFiniteSet(C) /\ Cardinality(C) = ownCount
    <2>1. CASE DraftShared
      <3>1. C = {}
        BY <2>1 DEF OwnLayers
      <3> QED BY <2>1, <3>1, FS_EmptySet
    <2>2. CASE ~ DraftShared
      <3> DEFINE own == [i \in 1 .. geo.drafts |-> OwnTensor(<<"draft", i>>, n)]
      <3>1. C = Range(own)
        <4>1. OwnLayers = {<<"draft", i>> : i \in 1 .. geo.drafts}
          BY <2>2, DraftTyped DEF OwnLayers
        <4> QED BY <4>1 DEF Range
      <3>2. \A i, j \in 1 .. geo.drafts : own[i] = own[j] => i = j
        <4>1. \A i \in 1 .. geo.drafts : own[i].name = <<"draft", i>>
          BY DEF OwnTensor
        <4> HIDE DEF own
        <4> QED BY <4>1
      <3>3. own \in [1 .. geo.drafts -> Range(own)]
        BY DEF Range
      <3> HIDE DEF own, C
      <3> QED BY <1>1, <2>2, <3>1, <3>2, <3>3, FamilySize
    <2> QED BY <2>1, <2>2
  <1>5. A \cap B = {} /\ A \cap C = {} /\ B \cap C = {}
    <2>1. \A t \in A : t.name[1] = "mla"
      BY DEF MlaTensor
    <2>2. \A t \in B : t.name[1] = "index"
      BY DEF IndexTensor
    <2>3. \A t \in C : t.name[1] = "draft"
      <3>1. \A l \in OwnLayers : l[1] = "draft"
        BY DraftTyped DEF OwnLayers
      <3> QED BY <3>1 DEF OwnTensor
    <2> HIDE DEF A, B, C
    <2> QED BY <2>1, <2>2, <2>3
  <1>6. /\ \A t \in A : t.size = a
        /\ \A t \in B : t.size = b
        /\ \A t \in C : t.size = c
    BY DEF MlaTensor, IndexTensor, OwnTensor
  <1>7. Emitted(n) = A \cup B \cup C \cup {}
    BY DEF Emitted
  <1>8. a \in Nat /\ b \in Nat /\ c \in Nat
    BY <1>1, ProductOfNaturals
  <1> HIDE DEF A, B, C, a, b, c
  <1>9. IsFiniteSet(A \cup B \cup C \cup {})
    BY <1>2, <1>3, <1>4, FS_Union, FS_EmptySet
  <1>10. Total(f) = a * Cardinality(A) + b * Cardinality(B) + c * Cardinality(C) + 0 * Cardinality({})
    <2>1. DOMAIN f = A \cup B \cup C \cup {}
      BY <1>7
    <2>2. /\ \A t \in A : f[t] = a
          /\ \A t \in B : f[t] = b
          /\ \A t \in C : f[t] = c
          /\ \A t \in {} : f[t] = 0
      BY <1>6, <1>7
    <2> DEFINE none == {}
               zero == 0
    <2> HIDE DEF f
    <2>3. Classified(f, A, B, C, none, a, b, c, zero)
      BY <1>5, <1>8, <1>9, <2>1, <2>2 DEF Classified
    <2>4. Total(f) = a * Cardinality(A) + b * Cardinality(B) + c * Cardinality(C)
                       + zero * Cardinality(none)
      <3> HIDE DEF none, zero
      <3> QED BY <2>3, TotalOfClasses
    <2> QED BY <2>4
  <1>11. Total(f) = a * geo.mlas + b * geo.mlas + c * ownCount
    <2>1. Cardinality({}) = 0
      BY FS_EmptySet
    <2>2. a * geo.mlas \in Nat /\ b * geo.mlas \in Nat /\ c * ownCount \in Nat /\ 0 * 0 = 0
      BY <1>1, <1>8, ProductOfNaturals
    <2> HIDE DEF f, ownCount
    <2> QED BY <1>2, <1>3, <1>4, <1>10, <2>1, <2>2
  <1>12. a * geo.mlas + b * geo.mlas + c * ownCount = n * ConfigPerBlock
    <2>1. \A x, y, z, k, m \in Nat :
              (x * n) * m + (y * n) * m + (z * n) * k = n * (m * (x + y) + k * z)
      OBVIOUS
    <2>2. (MlaPage * n) * geo.mlas + (geo.idxPage * n) * geo.mlas + (draft.page * n) * ownCount
            = n * (geo.mlas * (MlaPage + geo.idxPage) + ownCount * draft.page)
      BY <1>1, <2>1
    <2>3. ownCount * draft.page = IF DraftShared THEN 0 ELSE geo.drafts * draft.page
      BY <1>1
    <2> QED BY <2>2, <2>3, CostOfBlock DEF a, b, c
  <1> QED BY <1>11, <1>12, BytesAreTotal

\* One of two numbers is their least.
LEMMA LeastOfTwo ==
    ASSUME NEW x \in Nat, NEW y \in Nat
    PROVE  Min({x, y}) \in Nat
  <1>1. \E z \in {x, y} : \A w \in {x, y} : z <= w
    <2>1. CASE x <= y
      BY <2>1
    <2>2. CASE ~ x <= y
      BY <2>2
    <2> QED BY <2>1, <2>2
  <1>2. Min({x, y}) \in {x, y}
    BY <1>1, Zenon DEF Min
  <1> QED BY <1>2

\* What the demand of a request is made of.
LEMMA DemandTyped ==
    ASSUME Accepted
    PROVE  /\ Ceil(geo.maxLen, geo.mlaBlock * geo.dcp) \in Nat
           /\ MambaGroups \in Nat
           /\ draft.layers # {} => WindowDemand \in Nat
           /\ BlocksNeeded \in Nat
  <1> DEFINE target == Ceil(geo.maxLen, geo.mlaBlock * geo.dcp)
             state == MambaGroups * geo.stateBlocks
  <1>1. target \in Nat
    <2>1. geo.mlaBlock * geo.dcp \in Nat \ {0}
      BY GeometryTyped, PositiveProduct
    <2> QED BY <2>1, GeometryTyped, CeilHolds
  <1>2. MambaGroups \in Nat
    BY GeometryTyped, CeilHolds DEF MambaGroups
  <1>3. state \in Nat
    BY <1>2, GeometryTyped, ProductOfNaturals
  <1>4. draft.layers # {} => WindowDemand \in Nat
    <2> SUFFICES ASSUME draft.layers # {} PROVE WindowDemand \in Nat
      OBVIOUS
    <2>1. geo.drafts # 0
      BY DraftTyped
    <2>2. draft.block \in Nat \ {0}
      BY <2>1, DraftTyped
    <2>3. geo.window - 1 + geo.inFlight \in Nat /\ geo.maxLen \in Nat
      BY GeometryTyped
    <2>4. Min({geo.window - 1 + geo.inFlight, geo.maxLen}) \in Nat
      BY <2>3, LeastOfTwo
    <2>5. Ceil(Min({geo.window - 1 + geo.inFlight, geo.maxLen}), draft.block) \in Nat
      BY <2>2, <2>4, CeilHolds
    <2> QED BY <2>5 DEF WindowDemand
  <1>5. TargetDemand = target + 1 + state
    BY DEF TargetDemand
  <1> HIDE DEF target, state
  <1>6. TargetDemand \in Nat
    BY <1>1, <1>3, <1>5
  <1>7. BlocksNeeded \in Nat
    BY <1>4, <1>6 DEF BlocksNeeded
  <1> QED BY <1>1, <1>2, <1>4, <1>7 DEF target

DemandBody(g, s) == IF s = {} THEN 0 ELSE ReportedBlocks(Pick(s)) + g[s \ {Pick(s)}]
DemandSums(T) == CHOOSE g : g = [s \in SUBSET T |-> DemandBody(g, s)]

\* The report's demand is the sum of what it says of each group.
LEMMA DemandIsTotal ==
    BlocksPerRequest = Total([t \in LoggedGroups |-> ReportedBlocks(t)])
  <1> DEFINE T == LoggedGroups
             f == [t \in T |-> ReportedBlocks(t)]
  <1>1. BlocksPerRequest = DemandSums(T)[T]
    BY Zenon DEF BlocksPerRequest, MapThenSumSet, MapThenFoldSet, DemandSums, DemandBody, Pick
  <1> HIDE DEF T
  <1>2. ASSUME NEW g
        PROVE  [s \in SUBSET T |-> DemandBody(g, s)] = [s \in SUBSET DOMAIN f |-> SumBody(f, g, s)]
    <2>1. ASSUME NEW s \in SUBSET T PROVE DemandBody(g, s) = SumBody(f, g, s)
      <3>1. s # {} => Pick(s) \in T
        BY Zenon DEF Pick
      <3> QED BY <3>1 DEF DemandBody, SumBody
    <2> QED BY <2>1
  <1>3. DOMAIN f = T
    OBVIOUS
  <1> HIDE DEF f
  <1>4. DemandSums(T) = Sums(f)
    BY <1>2, Zenon DEF DemandSums, Sums
  <1>5. Total(f) = Sums(f)[T]
    BY <1>3, TotalIsSums
  <1> QED BY <1>1, <1>4, <1>5 DEF f, T

\* The report works out what the memory check charged for.
LEMMA ReportAgrees ==
    ASSUME Accepted
    PROVE  BlocksPerRequest = BlocksNeeded /\ BlocksNeeded >= 1
  <1> DEFINE A == {<<"mla", 1>>}
             B == {<<"tail", 1>>}
             C == {<<"mamba", i>> : i \in 1 .. MambaGroups}
             E == IF draft.layers = {} THEN {} ELSE {<<"draft", 1>>}
             a == Ceil(geo.maxLen, geo.mlaBlock * geo.dcp)
             c == geo.stateBlocks
             e == IF draft.layers = {} THEN 0 ELSE WindowDemand
             f == [t \in LoggedGroups |-> ReportedBlocks(t)]
             mamba == [i \in 1 .. MambaGroups |-> <<"mamba", i>>]
  <1>1. a \in Nat /\ c \in Nat /\ e \in Nat /\ MambaGroups \in Nat /\ 1 \in Nat
    BY DemandTyped, GeometryTyped
  <1>2. IsFiniteSet(C) /\ Cardinality(C) = MambaGroups
    <2>1. Range(mamba) = C /\ mamba \in [1 .. MambaGroups -> C]
      BY DEF Range
    <2>2. \A i, j \in 1 .. MambaGroups : mamba[i] = mamba[j] => i = j
      OBVIOUS
    <2> HIDE DEF mamba, C
    <2> QED BY <1>1, <2>1, <2>2, FamilySize
  <1>3. /\ IsFiniteSet(A) /\ Cardinality(A) = 1
        /\ IsFiniteSet(B) /\ Cardinality(B) = 1
    BY FS_Singleton
  <1>4. IsFiniteSet(E) /\ Cardinality(E) = IF draft.layers = {} THEN 0 ELSE 1
    BY FS_Singleton, FS_EmptySet
  <1>5. LoggedGroups = A \cup B \cup C \cup E
    BY DEF LoggedGroups
  <1>6. /\ \A t \in A : t[1] = "mla"
        /\ \A t \in B : t[1] = "tail"
        /\ \A t \in C : t[1] = "mamba"
        /\ \A t \in E : t[1] = "draft"
    OBVIOUS
  <1>7. /\ \A t : t[1] = "mla" => ReportedBlocks(t) = a
        /\ \A t : t[1] = "tail" => ReportedBlocks(t) = 1
        /\ \A t : t[1] = "mamba" => ReportedBlocks(t) = c
        /\ \A t : t[1] = "draft" => ReportedBlocks(t) = WindowDemand
    BY DEF ReportedBlocks, WindowDemand
  <1>8. \A t \in E : ReportedBlocks(t) = e
    BY <1>6, <1>7
  <1> HIDE DEF A, B, C, E, a, c, e
  <1>9. IsFiniteSet(LoggedGroups)
    BY <1>2, <1>3, <1>4, <1>5, FS_Union
  <1>10. Classified(f, A, B, C, E, a, 1, c, e)
    <2>1. DOMAIN f = A \cup B \cup C \cup E /\ IsFiniteSet(DOMAIN f)
      BY <1>5, <1>9
    <2>2. /\ \A t \in A : f[t] = a
          /\ \A t \in B : f[t] = 1
          /\ \A t \in C : f[t] = c
          /\ \A t \in E : f[t] = e
      BY <1>5, <1>6, <1>7, <1>8
    <2>3. /\ A \cap B = {} /\ A \cap C = {} /\ A \cap E = {}
          /\ B \cap C = {} /\ B \cap E = {} /\ C \cap E = {}
      BY <1>6
    <2> HIDE DEF f
    <2> QED BY <1>1, <2>1, <2>2, <2>3 DEF Classified
  <1> HIDE DEF f
  <1>11. Total(f) = a * Cardinality(A) + 1 * Cardinality(B) + c * Cardinality(C) + e * Cardinality(E)
    BY <1>10, TotalOfClasses
  <1>12. e * Cardinality(E) = e
    <2>1. CASE draft.layers = {}
      <3>1. e = 0 /\ Cardinality(E) = 0
        BY <1>4, <2>1 DEF e
      <3> QED BY <3>1
    <2>2. CASE draft.layers # {}
      <3>1. Cardinality(E) = 1
        BY <1>4, <2>2
      <3> QED BY <1>1, <3>1
    <2> QED BY <2>1, <2>2
  <1>13. c * MambaGroups = MambaGroups * c /\ c * MambaGroups \in Nat
    BY <1>1, ProductOfNaturals
  <1>14. Total(f) = a + 1 + MambaGroups * c + e
    BY <1>1, <1>2, <1>3, <1>11, <1>12, <1>13
  <1>15. BlocksNeeded = a + 1 + MambaGroups * c + e
    BY DEF BlocksNeeded, TargetDemand, a, c, e
  <1>16. BlocksNeeded >= 1
    BY <1>1, <1>13, <1>15
  <1> QED BY <1>14, <1>15, <1>16, DemandIsTotal DEF f

\* A pool cut from the memory there is: its account, to the byte.
LEMMA PoolBalances ==
    ASSUME Accepted, MaxMemoryUsage <= geo.available,
           blocks = geo.available \div ConfigPerBlock, tensors = Emitted(blocks)
    PROVE  /\ blocks \in Nat
           /\ TensorIdentityError = 0
           /\ AllocatorTail \in 0 .. PoolBytesPerBlock - 1
           /\ BlocksNeeded <= blocks
  <1> DEFINE d == ConfigPerBlock
             m == geo.available
             need == BlocksNeeded
             paid == d * blocks
  <1>1. d \in Nat \ {0} /\ PoolBytesPerBlock = d /\ MaxMemoryUsage = need * d
    BY CostOfBlock
  <1>2. m \in Nat /\ need \in Nat
    BY GeometryTyped, DemandTyped
  <1>3. blocks = m \div d
    OBVIOUS
  <1> HIDE DEF d, m, need
  <1>4. blocks \in Nat /\ d * blocks <= m /\ m < d * blocks + d
    BY <1>1, <1>2, <1>3, Division
  <1>5. TensorBytes = blocks * d
    BY <1>4, BytesOfPool DEF TensorBytes, d
  <1>6. blocks * d = paid /\ paid \in Nat /\ paid <= m /\ m < paid + d
    BY <1>1, <1>4, ProductOfNaturals
  <1>7. need <= blocks
    <2> SUFFICES ASSUME ~ need <= blocks PROVE FALSE
      OBVIOUS
    <2>1. need = blocks + 1 + (need - blocks - 1) /\ need - blocks - 1 \in Nat
      BY <1>2, <1>4
    <2>2. \A k \in Nat : (blocks + 1 + k) * d = blocks * d + d + k * d /\ k * d >= 0
      BY <1>1, <1>4
    <2>3. need * d >= paid + d
      BY <1>1, <1>6, <2>1, <2>2
    <2>4. need * d <= m
      BY <1>1 DEF m
    <2>5. need * d \in Nat
      BY <1>1, <1>2, ProductOfNaturals
    <2> QED BY <1>1, <1>2, <1>6, <2>3, <2>4, <2>5
  <1>8. TensorIdentityError = 0
    BY <1>1, <1>5, <1>6 DEF TensorIdentityError
  <1>9. AllocatorTail = m - paid
    BY <1>5, <1>6 DEF AllocatorTail, m
  <1> HIDE DEF paid
  <1>10. AllocatorTail \in 0 .. d - 1
    BY <1>1, <1>2, <1>6, <1>9
  <1> QED BY <1>1, <1>4, <1>7, <1>8, <1>10 DEF need

\* What holds of a start between the functions of start-up.
LayoutInv ==
    /\ kvStage \in {"specs", "groups", "layout", "checked", "config", "refused", "reported"}
    /\ geo \in Geometries
    /\ kvStage \notin {"specs", "refused"} => geo.mambas # 0 /\ draft = DraftGroup
    /\ kvStage \in {"layout", "checked", "config", "reported"} => LayoutAccepts
    /\ kvStage \in {"checked", "config", "reported"} => MaxMemoryUsage <= geo.available
    /\ kvStage \in {"config", "reported"} =>
            blocks = geo.available \div ConfigPerBlock /\ tensors = Emitted(blocks)

\* It holds before anything was computed.
LEMMA LayoutStart == KvInit => LayoutInv
  BY DEF KvInit, LayoutInv

\* What start-up computes from a geometry and its drafter group stays while they do.
LEMMA SameStart ==
    ASSUME geo' = geo, draft' = draft
    PROVE  /\ DraftGroup' = DraftGroup /\ LayoutAccepts' = LayoutAccepts
           /\ MaxMemoryUsage' = MaxMemoryUsage /\ ConfigPerBlock' = ConfigPerBlock
  BY DEF DraftGroup, NoDraft, ExactFit, FitBlock, MlaPage, LayoutAccepts, MaxMemoryUsage,
         BlocksNeeded, TargetDemand, WindowDemand, MambaGroups, BaseBytes, ConfigPerBlock,
         DraftShared

\* So do the tensors of a pool.
LEMMA SameTensors ==
    ASSUME geo' = geo, draft' = draft, NEW n, blocks' = n
    PROVE  Emitted(blocks)' = Emitted(n)
  BY DEF Emitted, MlaTensor, IndexTensor, OwnTensor, OwnLayers, DraftShared, MlaPage, MambaGroups

\* Each function keeps it; the log entry finds nothing to object to.
LEMMA LayoutSteps ==
    ASSUME LayoutInv, [KvNext]_kvVars
    PROVE  LayoutInv'
  <1>1. CASE BuildGroups
    <2>1. geo' = geo
      BY <1>1 DEF BuildGroups
    <2>2. DraftGroup' = DraftGroup
      BY <2>1 DEF DraftGroup, NoDraft, ExactFit, FitBlock, MlaPage
    <2> QED BY <1>1, <2>1, <2>2 DEF BuildGroups, LayoutInv
  <1>2. CASE TensorLayout
    <2>1. geo' = geo /\ draft' = draft
      BY <1>2 DEF TensorLayout
    <2>2. DraftGroup' = DraftGroup /\ LayoutAccepts' = LayoutAccepts
      BY <2>1, SameStart
    <2> QED BY <1>2, <2>1, <2>2 DEF TensorLayout, LayoutInv
  <1>3. CASE CheckMemory
    <2>1. geo' = geo /\ draft' = draft
      BY <1>3 DEF CheckMemory
    <2>2. /\ DraftGroup' = DraftGroup /\ LayoutAccepts' = LayoutAccepts
          /\ MaxMemoryUsage' = MaxMemoryUsage
      BY <2>1, SameStart
    <2> QED BY <1>3, <2>1, <2>2 DEF CheckMemory, LayoutInv
  <1>4. CASE EmitConfig
    <2>1. geo' = geo /\ draft' = draft /\ kvStage = "checked" /\ kvStage' = "config"
      BY <1>4 DEF EmitConfig
    <2>2. Accepted
      BY <2>1 DEF LayoutInv, Accepted
    <2>3. /\ DraftGroup' = DraftGroup /\ LayoutAccepts' = LayoutAccepts
          /\ MaxMemoryUsage' = MaxMemoryUsage /\ ConfigPerBlock' = ConfigPerBlock
      BY <2>1, SameStart
    <2> DEFINE n == geo.available \div ConfigPerBlock
    <2>5. blocks' = n
      BY <1>4 DEF EmitConfig
    <2>6. tensors' = Emitted(n)
      BY <1>4 DEF EmitConfig, Emitted, IndexTensor, OwnTensor, OwnLayers
    <2>7. Emitted(blocks)' = Emitted(n)
      BY <2>1, <2>5, SameTensors
    <2> QED BY <2>1, <2>3, <2>5, <2>6, <2>7 DEF LayoutInv
  <1>5. CASE Summarize
    <2>1. /\ geo' = geo /\ draft' = draft /\ tensors' = tensors /\ blocks' = blocks
          /\ kvStage = "config"
          /\ kvStage' = IF TensorIdentityError # 0 \/ AllocatorTail < 0 THEN "rejected" ELSE "reported"
      BY <1>5 DEF Summarize
    <2>2. Accepted
      BY <2>1 DEF LayoutInv, Accepted
    <2>3. TensorIdentityError = 0 /\ AllocatorTail \in 0 .. PoolBytesPerBlock - 1
      BY <2>1, <2>2, PoolBalances DEF LayoutInv
    <2>4. PoolBytesPerBlock \in Nat
      BY <2>2, CostOfBlock
    <2>5. ~ AllocatorTail < 0
      BY <2>3, <2>4
    <2>6. kvStage' = "reported"
      BY <2>1, <2>3, <2>5
    <2>7. /\ DraftGroup' = DraftGroup /\ LayoutAccepts' = LayoutAccepts
          /\ MaxMemoryUsage' = MaxMemoryUsage /\ ConfigPerBlock' = ConfigPerBlock
      BY <2>1, SameStart
    <2>8. Emitted(blocks)' = Emitted(blocks)
      BY <2>1, SameTensors
    <2> QED BY <2>1, <2>6, <2>7, <2>8 DEF LayoutInv
  <1>6. CASE UNCHANGED kvVars
    <2>1. /\ geo' = geo /\ draft' = draft /\ tensors' = tensors /\ blocks' = blocks
          /\ kvStage' = kvStage
      BY <1>6 DEF kvVars
    <2>2. /\ DraftGroup' = DraftGroup /\ LayoutAccepts' = LayoutAccepts
          /\ MaxMemoryUsage' = MaxMemoryUsage /\ ConfigPerBlock' = ConfigPerBlock
      BY <2>1, SameStart
    <2>3. Emitted(blocks)' = Emitted(blocks)
      BY <2>1, SameTensors
    <2> QED BY <2>1, <2>2, <2>3 DEF LayoutInv
  <1> QED BY <1>1, <1>2, <1>3, <1>4, <1>5, <1>6 DEF KvNext

\* The account of a start is right.
LEMMA LayoutAccounts == LayoutInv => AccountsAgree
  <1> SUFFICES ASSUME LayoutInv PROVE AccountsAgree
    OBVIOUS
  <1>1. kvStage # "rejected"
    BY DEF LayoutInv
  <1>2. ASSUME kvStage \in {"config", "reported"}
        PROVE  /\ TensorIdentityError = 0 /\ AllocatorTail \in 0 .. PoolBytesPerBlock - 1
               /\ BlocksNeeded <= blocks /\ blocks \in Nat
               /\ BlocksPerRequest = BlocksNeeded /\ BlocksNeeded >= 1 /\ BlocksNeeded \in Nat
    <2>1. Accepted
      BY <1>2 DEF LayoutInv, Accepted
    <2>2. /\ MaxMemoryUsage <= geo.available
          /\ blocks = geo.available \div ConfigPerBlock /\ tensors = Emitted(blocks)
      BY <1>2 DEF LayoutInv
    <2> QED BY <2>1, <2>2, PoolBalances, ReportAgrees, DemandTyped
  <1>3. kvStage = "reported" => WholeConcurrentRequests >= 1
    <2> SUFFICES ASSUME kvStage = "reported" PROVE WholeConcurrentRequests >= 1
      OBVIOUS
    <2> DEFINE d == BlocksPerRequest
    <2>1. d \in Nat \ {0} /\ blocks \in Nat /\ d <= blocks
      BY <1>2
    <2> HIDE DEF d
    <2> DEFINE q == blocks \div d
    <2>2. q \in Nat /\ blocks < d * q + d
      BY <2>1, Division
    <2> HIDE DEF q
    <2>3. q # 0
      BY <2>1, <2>2
    <2>4. q >= 1
      BY <2>2, <2>3
    <2> QED BY <2>4 DEF WholeConcurrentRequests, q, d
  <1> QED BY <1>1, <1>2, <1>3 DEF AccountsAgree

\* A kernel block divides a page's block.
LEMMA KernelDivides ==
    ASSUME NEW block \in Nat
    PROVE  KernelBlock(block) \in {1, 16, 32, 64} /\ block % KernelBlock(block) = 0
  <1> DEFINE S == {k \in {1, 16, 32, 64} : block % k = 0}
  <1>1. 1 \in S
    OBVIOUS
  <1>2. \A k \in S : k \in 1 .. 64
    OBVIOUS
  <1>3. \E k \in S : \A m \in S : m <= k
    <2>1. CASE 64 \in S
      <3>1. \A m \in S : m <= 64
        OBVIOUS
      <3> QED BY <2>1, <3>1
    <2>2. CASE 64 \notin S /\ 32 \in S
      <3>1. \A m \in S : m <= 32
        BY <2>2
      <3> QED BY <2>2, <3>1
    <2>3. CASE 64 \notin S /\ 32 \notin S /\ 16 \in S
      <3>1. \A m \in S : m <= 16
        BY <2>3
      <3> QED BY <2>3, <3>1
    <2>4. CASE 64 \notin S /\ 32 \notin S /\ 16 \notin S
      <3>1. \A m \in S : m <= 1
        BY <2>4
      <3> QED BY <1>1, <3>1
    <2> QED BY <2>1, <2>2, <2>3, <2>4
  <1>4. \E k \in S : \A m \in S : k >= m
    BY <1>2, <1>3
  <1> HIDE DEF S
  <1>5. Max(S) \in S
    BY <1>4, Zenon DEF Max
  <1>6. KernelBlock(block) = Max(S)
    BY Zenon DEF KernelBlock, S
  <1> QED BY <1>5, <1>6 DEF S

\* However the backend splits a block, a layer's block is the page of that number.
LEMMA SpanIsPage ==
    ASSUME Accepted, NEW l, NEW b \in Nat
    PROVE  /\ l[1] \in {"mla", "mamba"} => Span(l, b) = <<b * MlaPage, (b + 1) * MlaPage>>
           /\ l[1] \in {"index", "tail"} => Span(l, b) = <<b * geo.idxPage, (b + 1) * geo.idxPage>>
           /\ l \in draft.layers => Span(l, b) = <<b * draft.page, (b + 1) * draft.page>>
  <1>1. l[1] \in {"mla", "mamba"} => Span(l, b) = <<b * MlaPage, (b + 1) * MlaPage>>
    BY DEF Span
  <1>2. l[1] \in {"index", "tail"} => Span(l, b) = <<b * geo.idxPage, (b + 1) * geo.idxPage>>
    BY DEF Span
  <1>3. ASSUME l \in draft.layers PROVE Span(l, b) = <<b * draft.page, (b + 1) * draft.page>>
    <2> DEFINE k == KernelBlock(draft.block)
               q == draft.block \div k
               s == k * geo.draftToken
    <2>1. geo.drafts # 0 /\ l[1] = "draft"
      BY <1>3, DraftTyped, GeometryTyped
    <2>2. draft.block \in Nat \ {0} /\ draft.page = draft.block * geo.draftToken /\ ~ draft.padded
      BY <2>1, DraftTyped
    <2>3. geo.draftToken \in Nat
      BY GeometryTyped
    <2>4. Span(l, b) = <<(b * q) * s, (b * q + q - 1) * s + s>>
      BY <2>1, <2>2 DEF Span
    <2>5. k \in Nat \ {0} /\ draft.block % k = 0
      BY <2>2, KernelDivides
    <2> HIDE DEF k
    <2>6. q \in Nat /\ draft.block = k * q
      <3>1. q \in Int /\ draft.block = k * q + (draft.block % k)
        BY <2>2, <2>5
      <3>2. q \in Nat
        BY <2>2, <2>5, Division
      <3> HIDE DEF q
      <3> QED BY <2>5, <3>1, <3>2
    <2> HIDE DEF q
    <2>7. s \in Nat
      BY <2>3, <2>5, ProductOfNaturals
    <2>8. q * s = draft.page
      <3>1. \A x, y, z \in Nat : y * (x * z) = (x * y) * z
        OBVIOUS
      <3> QED BY <2>2, <2>3, <2>5, <2>6, <3>1
    <2> HIDE DEF s
    <2>9. \A x, y, z \in Nat : (x * y) * z = x * (y * z)
                                /\ (x * y + y - 1) * z + z = (x + 1) * (y * z)
      OBVIOUS
    <2>10. (b * q) * s = b * draft.page /\ (b * q + q - 1) * s + s = (b + 1) * draft.page
      BY <2>6, <2>7, <2>8, <2>9
    <2> QED BY <2>4, <2>10
  <1> QED BY <1>1, <1>2, <1>3

\* Pages of a tensor follow each other.
LEMMA PagesInOrder ==
    ASSUME NEW page \in Nat, NEW n \in Nat, NEW b \in 0 .. n - 1, NEW c \in 0 .. n - 1
    PROVE  (b + 1) * page <= page * n /\ (b < c => (b + 1) * page <= c * page)
  <1>1. \A x, y, z \in Nat : (x + y) * z = x * z + y * z /\ y * z \in Nat /\ x * z \in Nat
    OBVIOUS
  <1>2. n = (b + 1) + (n - b - 1) /\ n - b - 1 \in Nat /\ b + 1 \in Nat
    OBVIOUS
  <1>3. n * page = (b + 1) * page + (n - b - 1) * page /\ (n - b - 1) * page \in Nat
         /\ (b + 1) * page \in Nat
    BY <1>1, <1>2
  <1>4. page * n = n * page
    OBVIOUS
  <1>5. ASSUME b < c PROVE (b + 1) * page <= c * page
    <2>1. c = (b + 1) + (c - b - 1) /\ c - b - 1 \in Nat
      BY <1>5
    <2>2. c * page = (b + 1) * page + (c - b - 1) * page /\ (c - b - 1) * page \in Nat
      BY <1>1, <1>2, <2>1
    <2> QED BY <1>3, <2>2
  <1>6. (b + 1) * page <= page * n
    BY <1>3, <1>4
  <1> QED BY <1>5, <1>6

\* The tensor a layer lives in.
TensorOf(l, n) ==
    CASE l[1] = "mla" -> MlaTensor(l[2], n)
      [] l[1] \in {"index", "tail"} -> IndexTensor(l[2], n)
      [] l[1] = "mamba" -> MlaTensor((l[2] - 1) \div MambaGroups + 1, n)
      [] l[1] = "draft" -> IF DraftShared THEN MlaTensor(l[2], n) ELSE OwnTensor(l, n)

\* Mamba layers are dealt over the MLA tensors there are.
LEMMA DealtInRange ==
    ASSUME Accepted, NEW k \in 1 .. geo.mambas
    PROVE  (k - 1) \div MambaGroups \in 0 .. geo.mlas - 1
  <1> DEFINE g == MambaGroups
             q == (k - 1) \div g
             m == geo.mlas
  <1>1. m \in Nat \ {0} /\ geo.mambas \in Nat \ {0}
    BY GeometryTyped
  <1>2. g \in Nat /\ m * g >= geo.mambas
    BY <1>1, CeilHolds DEF MambaGroups
  <1>3. g # 0
    <2>1. m * 0 = 0
      BY <1>1
    <2> QED BY <1>1, <1>2, <2>1
  <1> HIDE DEF g, m
  <1>4. q \in Nat /\ g * q <= k - 1
    <2>1. k - 1 \in Nat
      BY <1>1
    <2> QED BY <1>2, <1>3, <2>1, Division
  <1> HIDE DEF q
  <1>5. g * q < m * g
    BY <1>1, <1>2, <1>4, ProductOfNaturals
  <1>6. q < m
    <2> SUFFICES ASSUME ~ q < m PROVE FALSE
      OBVIOUS
    <2>1. q = m + (q - m) /\ q - m \in Nat
      BY <1>1, <1>4
    <2>2. \A x, y, z \in Nat : x * (y + z) = y * x + x * z /\ x * z \in Nat /\ y * x \in Nat
      OBVIOUS
    <2>3. g * q = m * g + g * (q - m) /\ g * (q - m) \in Nat /\ m * g \in Nat
      BY <1>1, <1>2, <2>1, <2>2
    <2> QED BY <1>5, <2>3
  <1> QED BY <1>1, <1>4, <1>6 DEF q, g, m

\* Each layer is in the tensor it lives in, and in no other.
LEMMA OneHome ==
    ASSUME Accepted, NEW n, NEW l \in AllLayers
    PROVE  /\ TensorOf(l, n) \in Emitted(n)
           /\ \A t \in Emitted(n) : l \in t.sharedBy <=> t = TensorOf(l, n)
  <1> DEFINE dealt(i) == {k \in 1 .. geo.mambas : (k - 1) \div MambaGroups = i - 1}
             riders(i) == IF DraftShared THEN draft.layers \cap {<<"draft", i>>} ELSE {}
  <1>1. /\ geo.mlas \in Nat /\ geo.drafts \in Nat
        /\ draft.layers = {<<"draft", i>> : i \in 1 .. geo.drafts}
        /\ DraftShared => geo.drafts <= geo.mlas
    BY GeometryTyped, DraftTyped
  <1>2. \A t \in Emitted(n) :
            \/ \E i \in 1 .. geo.mlas : t = MlaTensor(i, n)
            \/ \E i \in 1 .. geo.mlas : t = IndexTensor(i, n)
            \/ \E d \in OwnLayers : t = OwnTensor(d, n)
    BY DEF Emitted
  <1>3. /\ \A i \in 1 .. geo.mlas : MlaTensor(i, n) \in Emitted(n)
        /\ \A i \in 1 .. geo.mlas : IndexTensor(i, n) \in Emitted(n)
        /\ \A d \in OwnLayers : OwnTensor(d, n) \in Emitted(n)
    BY DEF Emitted
  <1>4. \A i \in 1 .. geo.mlas : \A x :
            x \in MlaTensor(i, n).sharedBy <=>
                \/ x = <<"mla", i>>
                \/ \E k \in 1 .. geo.mambas : (k - 1) \div MambaGroups = i - 1 /\ x = <<"mamba", k>>
                \/ DraftShared /\ x \in draft.layers /\ x = <<"draft", i>>
    BY DEF MlaTensor
  <1>5. \A i \in 1 .. geo.mlas : \A x :
            x \in IndexTensor(i, n).sharedBy <=> x = <<"index", i>> \/ x = <<"tail", i>>
    BY DEF IndexTensor
  <1>6. \A d \in OwnLayers : /\ \A x : x \in OwnTensor(d, n).sharedBy <=> x = d
                             /\ ~ DraftShared /\ d \in draft.layers
    BY DEF OwnTensor, OwnLayers
  <1>7. CASE \E i \in 1 .. geo.mlas : l = <<"mla", i>>
    <2>1. PICK i \in 1 .. geo.mlas : l = <<"mla", i>>
      BY <1>7
    <2>2. TensorOf(l, n) = MlaTensor(i, n)
      BY <2>1 DEF TensorOf
    <2>3. \A j \in 1 .. geo.mlas : l \in MlaTensor(j, n).sharedBy <=> j = i
      BY <1>4, <2>1
    <2>4. \A j \in 1 .. geo.mlas : l \notin IndexTensor(j, n).sharedBy
      BY <1>5, <2>1
    <2>5. \A d \in OwnLayers : l \notin OwnTensor(d, n).sharedBy
      BY <1>1, <1>6, <2>1
    <2>6. l \in MlaTensor(i, n).sharedBy
      BY <2>3
    <2> QED BY <1>2, <1>3, <2>2, <2>3, <2>4, <2>5, <2>6
  <1>8. CASE \E i \in 1 .. geo.mlas : l = <<"index", i>> \/ l = <<"tail", i>>
    <2>1. PICK i \in 1 .. geo.mlas : l = <<"index", i>> \/ l = <<"tail", i>>
      BY <1>8
    <2>2. TensorOf(l, n) = IndexTensor(i, n)
      BY <2>1 DEF TensorOf
    <2>3. \A j \in 1 .. geo.mlas : l \notin MlaTensor(j, n).sharedBy
      BY <1>4, <2>1
    <2>4. \A j \in 1 .. geo.mlas : l \in IndexTensor(j, n).sharedBy <=> j = i
      BY <1>5, <2>1
    <2>5. \A d \in OwnLayers : l \notin OwnTensor(d, n).sharedBy
      BY <1>1, <1>6, <2>1
    <2>6. l \in IndexTensor(i, n).sharedBy
      BY <2>4
    <2> QED BY <1>2, <1>3, <2>2, <2>3, <2>4, <2>5, <2>6
  <1>9. CASE \E k \in 1 .. geo.mambas : l = <<"mamba", k>>
    <2>1. PICK k \in 1 .. geo.mambas : l = <<"mamba", k>>
      BY <1>9
    <2> DEFINE i == (k - 1) \div MambaGroups + 1
    <2>2. i \in 1 .. geo.mlas /\ (k - 1) \div MambaGroups = i - 1
      BY <1>1, DealtInRange
    <2>3. TensorOf(l, n) = MlaTensor(i, n)
      BY <2>1 DEF TensorOf
    <2>4. \A j \in 1 .. geo.mlas : j - 1 = i - 1 <=> j = i
      BY <2>2
    <2> HIDE DEF i
    <2>5. \A j \in 1 .. geo.mlas : l \in MlaTensor(j, n).sharedBy <=> j = i
      <3> SUFFICES ASSUME NEW j \in 1 .. geo.mlas
                   PROVE  l \in MlaTensor(j, n).sharedBy <=> j = i
        OBVIOUS
      <3>1. l \in MlaTensor(j, n).sharedBy <=> (k - 1) \div MambaGroups = j - 1
        BY <1>4, <2>1
      <3> QED BY <2>2, <2>4, <3>1
    <2>6. \A j \in 1 .. geo.mlas : l \notin IndexTensor(j, n).sharedBy
      BY <1>5, <2>1
    <2>7. \A d \in OwnLayers : l \notin OwnTensor(d, n).sharedBy
      BY <1>1, <1>6, <2>1
    <2>8. l \in MlaTensor(i, n).sharedBy
      BY <2>2, <2>5
    <2> QED BY <1>2, <1>3, <2>2, <2>3, <2>5, <2>6, <2>7, <2>8
  <1>10. CASE l \in draft.layers
    <2>1. PICK i \in 1 .. geo.drafts : l = <<"draft", i>>
      BY <1>1, <1>10
    <2>2. \A j \in 1 .. geo.mlas : l \notin IndexTensor(j, n).sharedBy
      BY <1>5, <2>1
    <2>3. CASE DraftShared
      <3>1. i \in 1 .. geo.mlas
        BY <1>1, <2>1, <2>3
      <3>2. TensorOf(l, n) = MlaTensor(i, n)
        BY <2>1, <2>3 DEF TensorOf
      <3>3. \A j \in 1 .. geo.mlas : l \in MlaTensor(j, n).sharedBy <=> j = i
        BY <1>4, <1>10, <2>1, <2>3
      <3>4. OwnLayers = {}
        BY <2>3 DEF OwnLayers
      <3>5. l \in MlaTensor(i, n).sharedBy
        BY <3>1, <3>3
      <3> QED BY <1>2, <1>3, <2>2, <3>1, <3>2, <3>3, <3>4, <3>5
    <2>4. CASE ~ DraftShared
      <3>1. TensorOf(l, n) = OwnTensor(l, n) /\ l \in OwnLayers
        BY <1>10, <2>1, <2>4 DEF TensorOf, OwnLayers
      <3>2. \A j \in 1 .. geo.mlas : l \notin MlaTensor(j, n).sharedBy
        BY <1>4, <2>1, <2>4
      <3>3. \A d \in OwnLayers : l \in OwnTensor(d, n).sharedBy <=> d = l
        BY <1>6
      <3> QED BY <1>2, <1>3, <2>2, <3>1, <3>2, <3>3
    <2> QED BY <2>3, <2>4
  <1>11. \/ l \in draft.layers
         \/ \E k \in 1 .. geo.mambas : l = <<"mamba", k>>
         \/ \E kind \in {"mla", "index", "tail"}, i \in 1 .. geo.mlas : l = <<kind, i>>
    BY DEF AllLayers
  <1>12. (\E kind \in {"mla", "index", "tail"}, i \in 1 .. geo.mlas : l = <<kind, i>>)
         => \E i \in 1 .. geo.mlas : l = <<"mla", i>> \/ l = <<"index", i>> \/ l = <<"tail", i>>
    OBVIOUS
  <1> QED BY <1>7, <1>8, <1>9, <1>10, <1>11, <1>12

\* A tensor is cut into pages of one size, by every layer in it.
LEMMA OnePageSize ==
    ASSUME Accepted, NEW n \in Nat, NEW t \in Emitted(n)
    PROVE  \E page \in Nat :
                /\ t.size = page * n
                /\ \A l \in t.sharedBy : \A b \in Nat : Span(l, b) = <<b * page, (b + 1) * page>>
  <1>1. MlaPage \in Nat /\ geo.idxPage \in Nat /\ draft.page \in Nat
    BY GeometryTyped, DraftTyped
  <1>2. CASE \E i \in 1 .. geo.mlas : t = MlaTensor(i, n)
    <2>1. PICK i \in 1 .. geo.mlas : t = MlaTensor(i, n)
      BY <1>2
    <2>2. t.size = MlaPage * n
      BY <2>1 DEF MlaTensor
    <2>3. ASSUME NEW l \in t.sharedBy, NEW b \in Nat
          PROVE  Span(l, b) = <<b * MlaPage, (b + 1) * MlaPage>>
      <3>1. \/ l[1] \in {"mla", "mamba"}
            \/ DraftShared /\ l \in draft.layers
        BY <2>1 DEF MlaTensor
      <3> QED BY <3>1, SpanIsPage DEF DraftShared
    <2> QED BY <1>1, <2>2, <2>3
  <1>3. CASE \E i \in 1 .. geo.mlas : t = IndexTensor(i, n)
    <2>1. PICK i \in 1 .. geo.mlas : t = IndexTensor(i, n)
      BY <1>3
    <2>2. t.size = geo.idxPage * n /\ \A l \in t.sharedBy : l[1] \in {"index", "tail"}
      BY <2>1 DEF IndexTensor
    <2> QED BY <1>1, <2>2, SpanIsPage
  <1>4. CASE \E d \in OwnLayers : t = OwnTensor(d, n)
    <2>1. PICK d \in OwnLayers : t = OwnTensor(d, n)
      BY <1>4
    <2>2. t.size = draft.page * n /\ \A l \in t.sharedBy : l \in draft.layers
      BY <2>1 DEF OwnTensor, OwnLayers
    <2> QED BY <1>1, <2>2, SpanIsPage
  <1> QED BY <1>2, <1>3, <1>4 DEF Emitted

\* Sharing is safe in every pool that is handed out.
LEMMA LayoutShares == LayoutInv => LayersShareSafely
  <1> SUFFICES ASSUME LayoutInv, kvStage = "config"
               PROVE  /\ \A l \in AllLayers : Cardinality({t \in tensors : l \in t.sharedBy}) = 1
                      /\ \A t \in tensors : \A l, m \in t.sharedBy : \A b, c \in 0 .. blocks - 1 :
                            /\ Span(l, b)[2] <= t.size
                            /\ b < c => Span(l, b)[2] <= Span(m, c)[1]
    BY DEF LayersShareSafely
  <1>1. Accepted
    BY DEF LayoutInv, Accepted
  <1>2. /\ tensors = Emitted(blocks) /\ blocks = geo.available \div ConfigPerBlock
        /\ MaxMemoryUsage <= geo.available
    BY DEF LayoutInv
  <1>3. blocks \in Nat
    BY <1>1, <1>2, PoolBalances
  <1>4. ASSUME NEW l \in AllLayers PROVE Cardinality({t \in tensors : l \in t.sharedBy}) = 1
    <2>1. {t \in tensors : l \in t.sharedBy} = {TensorOf(l, blocks)}
      <3>1. /\ TensorOf(l, blocks) \in tensors
            /\ \A t \in tensors : l \in t.sharedBy <=> t = TensorOf(l, blocks)
        BY <1>1, <1>2, OneHome
      <3> QED BY <3>1
    <2> QED BY <2>1, FS_Singleton
  <1>5. ASSUME NEW t \in tensors, NEW l \in t.sharedBy, NEW m \in t.sharedBy,
               NEW b \in 0 .. blocks - 1, NEW c \in 0 .. blocks - 1
        PROVE  Span(l, b)[2] <= t.size /\ (b < c => Span(l, b)[2] <= Span(m, c)[1])
    <2>1. t \in Emitted(blocks)
      BY <1>2
    <2>2. PICK page \in Nat :
                /\ t.size = page * blocks
                /\ \A x \in t.sharedBy : \A k \in Nat : Span(x, k) = <<k * page, (k + 1) * page>>
      BY <1>1, <1>3, <2>1, OnePageSize
    <2>3. b \in Nat /\ c \in Nat
      BY <1>3
    <2>4. Span(l, b)[2] = (b + 1) * page /\ Span(m, c)[1] = c * page
      BY <2>2, <2>3
    <2>5. (b + 1) * page <= page * blocks /\ (b < c => (b + 1) * page <= c * page)
      BY <1>3, PagesInOrder
    <2> QED BY <2>2, <2>4, <2>5
  <1> QED BY <1>4, <1>5

\* Every behaviour of start-up keeps the invariant.
LEMMA LayoutInvariant == KvSpec => []LayoutInv
  <1>1. KvInit => LayoutInv
    BY LayoutStart
  <1>2. LayoutInv /\ [KvNext]_kvVars => LayoutInv'
    BY LayoutSteps
  <1> QED BY <1>1, <1>2, PTL DEF KvSpec

\* Every layer has one tensor and no two blocks share a byte, for every geometry, however the
\* backend splits a block.
THEOREM LayersNeverOverlap == KvSpec => []LayersShareSafely
  BY LayoutInvariant, LayoutShares, PTL

\* Pool, config, memory check and report count the same bytes and blocks, for every geometry: no
\* start that passed the check is later rejected or left without room for its longest request.
THEOREM AccountsBalance == KvSpec => []AccountsAgree
  BY LayoutInvariant, LayoutAccounts, PTL

-----------------------------------------------------------------------------
(* Attention over a sharded sequence.  A rank's pools in its own numbering  *)
(* are exactly those it owns (LocalPools), the ranges of a chunk's requests *)
(* follow one another in the workspace (KeysAddUp, RangesFollow), and the   *)
(* best of all ranks' bests are the best of all (TopOfTops); every selected *)
(* token then has one owner, whose partial result counts (Combined).        *)

\* Everything below is of positive numbers.
LEMMA SparseConstants ==
    /\ Pool \in Nat \ {0} /\ Ranks \in Nat \ {0} /\ TokenStripe = 1 /\ Chosen \in Nat \ {0}
    /\ ModelLen \in Nat \ {0} /\ Block \in Nat \ {0} /\ DecodeRows \in Nat \ {0}
    /\ MaxSeqs \in Nat \ {0} /\ MaxBatched \in Nat \ {0} /\ SlidingWindow \in Nat \ {0}
    /\ DraftSteps \in Nat /\ Block % Pool = 0 /\ MaxBatched >= MaxSeqs * DecodeRows
    /\ Scores \subseteq [0 .. ModelLen \div Pool - 1 -> Nat]
  BY SparseAssumption

\* A rank's pools, in the order it numbers them, are those it owns.
LEMMA LocalPools ==
    ASSUME NEW rank \in Shards, NEW len \in Nat
    PROVE  /\ LocalCount(rank, len) \in Nat /\ LocalCount(rank, len) <= len \div Pool
           /\ \A j \in Nat : j < LocalCount(rank, len) <=> GlobalPool(rank, j) \in WholePools(len)
           /\ \A j \in Nat : GlobalPool(rank, j) \in Nat /\ GlobalPool(rank, j) % Ranks = rank
           /\ \A p \in WholePools(len) : p % Ranks = rank =>
                    \E j \in Nat : j < LocalCount(rank, len) /\ p = GlobalPool(rank, j)
           /\ \A i, j \in Nat : GlobalPool(rank, i) = GlobalPool(rank, j) => i = j
  <1> DEFINE n == len \div Pool
             P == {p \in WholePools(len) : p % Ranks = rank}
             g(j) == GlobalPool(rank, j)
             Beyond == {j \in Nat : g(j) >= n}
  <1>1. Ranks \in Nat \ {0} /\ rank \in Nat /\ rank < Ranks /\ rank \in 0 .. Ranks - 1
    BY SparseConstants DEF Shards
  <1>2. n \in Nat
    BY SparseConstants, Division
  <1>3. \A j \in Nat : g(j) = j * Ranks + rank /\ j * Ranks \in Nat
    BY <1>1, ProductOfNaturals DEF GlobalPool
  <1>4. \A j \in Nat : g(j) \in Nat /\ g(j) % Ranks = rank /\ g(j) \div Ranks = j
    <2> SUFFICES ASSUME NEW j \in Nat PROVE g(j) \in Nat /\ g(j) % Ranks = rank /\ g(j) \div Ranks = j
      OBVIOUS
    <2>1. g(j) = j * Ranks + rank /\ g(j) \in Nat
      BY <1>1, <1>3
    <2>2. (j * Ranks + rank) \div Ranks = j /\ (j * Ranks + rank) % Ranks = rank
      BY <1>1, BlockOf
    <2> QED BY <2>1, <2>2
  <1>5. \A i, j \in Nat : i <= j => g(i) <= g(j)
    <2>1. \A i, j \in Nat : i <= j => i * Ranks <= j * Ranks
      BY <1>1
    <2> QED BY <1>1, <1>3, <2>1
  <1>6. WholePools(len) = 0 .. n - 1
    BY DEF WholePools
  <1> HIDE DEF n, g
  <1>7. n \in Beyond
    <2>1. n * Ranks >= n
      BY <1>1, <1>2
    <2> QED BY <1>1, <1>2, <1>3, <2>1
  <1>8. PICK c \in Beyond : \A j \in Beyond : c <= j
    <2>1. Beyond \in SUBSET Nat /\ Beyond # {}
      BY <1>7
    <2> QED BY <2>1, LeastElement
  <1>9. c \in Nat /\ c <= n
    BY <1>7, <1>8
  <1>10. \A j \in Nat : j < c <=> g(j) < n
    <2> SUFFICES ASSUME NEW j \in Nat PROVE j < c <=> g(j) < n
      OBVIOUS
    <2>1. g(j) \in Nat /\ g(c) \in Nat /\ g(c) >= n
      BY <1>4, <1>8
    <2>2. CASE j < c
      <3>1. j \notin Beyond
        BY <1>8, <1>9, <2>2
      <3> QED BY <1>2, <2>1, <2>2, <3>1
    <2>3. CASE ~ j < c
      <3>1. g(c) <= g(j)
        BY <1>5, <1>9, <2>3
      <3> QED BY <1>2, <2>1, <2>3, <3>1
    <2> QED BY <2>2, <2>3
  <1>11. \A p \in Nat : p % Ranks = rank => \E j \in Nat : p = g(j)
    <2> SUFFICES ASSUME NEW p \in Nat, p % Ranks = rank PROVE \E j \in Nat : p = g(j)
      OBVIOUS
    <2> DEFINE j == p \div Ranks
    <2>1. p = Ranks * j + (p % Ranks)
      BY <1>1
    <2>2. j \in Nat
      BY <1>1, Division
    <2> HIDE DEF j
    <2>3. Ranks * j = j * Ranks
      BY <1>1, <2>2
    <2> QED BY <1>3, <2>1, <2>2, <2>3
  <1>12. LocalCount(rank, len) = c
    <2> DEFINE f == [i \in 1 .. c |-> g(i - 1)]
    <2>1. Range(f) = P
      <3>1. ASSUME NEW i \in 1 .. c PROVE f[i] \in P
        <4>1. i - 1 \in Nat /\ i - 1 < c
          BY <1>9
        <4>2. g(i - 1) \in Nat /\ g(i - 1) < n /\ g(i - 1) % Ranks = rank
          BY <1>4, <1>10, <4>1
        <4> QED BY <1>2, <1>6, <4>2
      <3>2. ASSUME NEW p \in P PROVE \E i \in 1 .. c : f[i] = p
        <4>1. p \in Nat /\ p < n /\ p % Ranks = rank
          BY <1>2, <1>6
        <4>2. PICK j \in Nat : p = g(j)
          BY <1>11, <4>1
        <4>3. j < c
          BY <1>10, <4>1, <4>2
        <4>4. j + 1 \in 1 .. c /\ (j + 1) - 1 = j
          BY <1>9, <4>3
        <4> QED BY <4>2, <4>4
      <3> HIDE DEF P
      <3> QED BY <3>1, <3>2 DEF Range
    <2>2. \A i, j \in 1 .. c : f[i] = f[j] => i = j
      <3> SUFFICES ASSUME NEW i \in 1 .. c, NEW j \in 1 .. c, f[i] = f[j] PROVE i = j
        OBVIOUS
      <3>1. i - 1 \in Nat /\ j - 1 \in Nat /\ g(i - 1) = g(j - 1)
        BY <1>9
      <3>2. i - 1 = j - 1
        BY <1>4, <3>1
      <3> QED BY <1>9, <3>2
    <2>3. f \in [1 .. c -> P]
      BY <2>1 DEF Range
    <2> HIDE DEF f
    <2>4. Cardinality(Range(f)) = c
      BY <1>9, <2>2, <2>3, FamilySize
    <2> QED BY <2>1, <2>4 DEF LocalCount
  <1>13. \A j \in Nat : j < c <=> g(j) \in WholePools(len)
    <2> SUFFICES ASSUME NEW j \in Nat PROVE g(j) < n <=> g(j) \in 0 .. n - 1
      BY <1>6, <1>10
    <2>1. g(j) \in Nat
      BY <1>4
    <2> QED BY <1>2, <2>1
  <1>14. \A p \in WholePools(len) : p % Ranks = rank => \E j \in Nat : j < c /\ p = g(j)
    <2> SUFFICES ASSUME NEW p \in WholePools(len), p % Ranks = rank
                 PROVE  \E j \in Nat : j < c /\ p = g(j)
      OBVIOUS
    <2>1. p \in Nat
      BY <1>2, <1>6
    <2>2. PICK j \in Nat : p = g(j)
      BY <1>11, <2>1
    <2> QED BY <1>13, <2>2
  <1>15. \A i, j \in Nat : g(i) = g(j) => i = j
    BY <1>4
  <1> QED BY <1>4, <1>9, <1>12, <1>13, <1>14, <1>15 DEF n, g

\* An image of a finite set is finite, and of the same size if nothing is identified.
LEMMA ImageSize ==
    ASSUME NEW f, IsFiniteSet(DOMAIN f)
    PROVE  /\ IsFiniteSet(Range(f))
           /\ (\A x, y \in DOMAIN f : f[x] = f[y] => x = y) =>
                    Cardinality(Range(f)) = Cardinality(DOMAIN f)
  <1> DEFINE S == DOMAIN f
             g == [x \in S |-> f[x]]
  <1>1. g \in Surjection(S, Range(f))
    BY DEF Surjection, Range
  <1>2. IsFiniteSet(S)
    OBVIOUS
  <1>3. ASSUME \A x, y \in S : f[x] = f[y] => x = y
        PROVE  g \in Injection(S, Range(f))
    BY <1>3 DEF Injection, IsInjective, Range
  <1> HIDE DEF g
  <1>4. /\ IsFiniteSet(Range(f))
        /\ Cardinality(Range(f)) = Cardinality(S) <=> g \in Injection(S, Range(f))
    BY <1>1, <1>2, FS_Surjection
  <1> QED BY <1>3, <1>4

\* The pools of a set that fewer than Chosen others beat.
Better(S, p) == {q \in S : score[q] > score[p]}
Top(S) == {p \in S : Cardinality(Better(S, p)) < Chosen}
Scored(S) == IsFiniteSet(S) /\ \A p \in S : score[p] \in Nat

\* There are as many of them as are wanted, if there are that many pools.
LEMMA TopHolds ==
    ASSUME NEW S, Scored(S), Cardinality(S) >= Chosen
    PROVE  Cardinality(Top(S)) >= Chosen
  <1> DEFINE T == Top(S)
             R == S \ T
  <1>1. IsFiniteSet(S) /\ IsFiniteSet(T) /\ IsFiniteSet(R) /\ T \subseteq S
    BY FS_Subset DEF Scored, Top
  <1>2. Cardinality(T) \in Nat /\ Cardinality(S) \in Nat /\ Chosen \in Nat
    BY <1>1, FS_CardinalityType, SparseConstants
  <1> SUFFICES ASSUME Cardinality(T) < Chosen PROVE FALSE
    BY <1>2
  <1>3. R # {}
    <2>1. R = {} => T = S
      BY <1>1
    <2> QED BY <1>2, <2>1
  <1> HIDE DEF T
  <1> DEFINE marks == {score[p] : p \in R}
  <1>4. marks \in SUBSET Nat /\ marks # {} /\ IsFiniteSet(marks)
    <2> DEFINE mark == [p \in R |-> score[p]]
    <2>1. Range(mark) = marks
      BY DEF Range
    <2>2. IsFiniteSet(DOMAIN mark)
      BY <1>1
    <2> HIDE DEF mark
    <2>3. IsFiniteSet(marks)
      BY <2>1, <2>2, ImageSize
    <2> QED BY <1>3, <2>3 DEF Scored
  <1>5. PICK best \in marks : \A k \in marks : k <= best
    BY <1>4, GreatestElement
  <1>6. PICK e \in R : score[e] = best
    BY <1>5
  <1>7. Better(S, e) \subseteq T
    <2> SUFFICES ASSUME NEW q \in S, score[q] > score[e], q \notin T PROVE FALSE
      BY DEF Better
    <2>1. score[q] <= best
      BY <1>5
    <2> QED BY <1>4, <1>6, <2>1 DEF Scored
  <1>8. Cardinality(Better(S, e)) <= Cardinality(T) /\ Cardinality(Better(S, e)) \in Nat
    BY <1>1, <1>7, FS_Subset, FS_CardinalityType
  <1>9. e \in T
    BY <1>2, <1>6, <1>8 DEF T, Top
  <1> QED BY <1>6, <1>9

\* The parts of a set.
Covers(share, K, S) == S = UNION {share[k] : k \in K}

\* The best of the best of the parts are the best of the whole.
LEMMA TopOfTops ==
    ASSUME NEW K, NEW share, NEW S, Covers(share, K, S), Scored(S)
    PROVE  Top(UNION {Top(share[k]) : k \in K}) = Top(S)
  <1> DEFINE U == UNION {Top(share[k]) : k \in K}
  <1>1. U \subseteq S /\ IsFiniteSet(S) /\ Chosen \in Nat
    BY SparseConstants DEF Top, Scored, Covers
  <1>2. \A k \in K : share[k] \subseteq S
    BY DEF Covers
  <1>3. \A T, V, p : T \subseteq V /\ V \subseteq S =>
            /\ Better(T, p) \subseteq Better(V, p)
            /\ Cardinality(Better(T, p)) \in Nat /\ Cardinality(Better(V, p)) \in Nat
            /\ Cardinality(Better(T, p)) <= Cardinality(Better(V, p))
    <2> SUFFICES ASSUME NEW T, NEW V, NEW p, T \subseteq V, V \subseteq S
                 PROVE  /\ Better(T, p) \subseteq Better(V, p)
                        /\ Cardinality(Better(T, p)) \in Nat /\ Cardinality(Better(V, p)) \in Nat
                        /\ Cardinality(Better(T, p)) <= Cardinality(Better(V, p))
      OBVIOUS
    <2>1. Better(T, p) \subseteq Better(V, p) /\ Better(V, p) \subseteq S
      BY DEF Better
    <2>2. IsFiniteSet(Better(V, p)) /\ IsFiniteSet(Better(T, p))
      BY <1>1, <2>1, FS_Subset
    <2> QED BY <2>1, <2>2, FS_Subset, FS_CardinalityType
  <1>4. ASSUME NEW p \in Top(S) PROVE p \in Top(U)
    <2>1. p \in S /\ Cardinality(Better(S, p)) < Chosen
      BY DEF Top
    <2>2. PICK k \in K : p \in share[k]
      BY <2>1 DEF Covers
    <2>3. Cardinality(Better(share[k], p)) < Chosen
      BY <1>1, <1>2, <1>3, <2>1
    <2>4. p \in U
      BY <2>2, <2>3 DEF Top
    <2>5. Cardinality(Better(U, p)) < Chosen
      BY <1>1, <1>3, <2>1
    <2> QED BY <2>4, <2>5 DEF Top
  <1>5. ASSUME NEW p \in Top(U) PROVE p \in Top(S)
    <2>1. p \in U /\ p \in S /\ Cardinality(Better(U, p)) < Chosen
      BY <1>1 DEF Top
    <2> SUFFICES ASSUME p \notin Top(S) PROVE FALSE
      OBVIOUS
    <2>2. Cardinality(Better(S, p)) >= Chosen
      BY <1>1, <1>3, <2>1 DEF Top
    <2>3. PICK q \in Better(S, p) : q \notin U
      <3>1. Better(S, p) \subseteq U => Better(S, p) = Better(U, p)
        BY <1>1 DEF Better
      <3>2. Cardinality(Better(U, p)) \in Nat
        BY <1>1, <1>3
      <3>3. Better(S, p) # Better(U, p)
        BY <1>1, <2>1, <2>2, <3>2
      <3> QED BY <3>1, <3>3
    <2>4. q \in S /\ score[q] > score[p] /\ score[q] \in Nat /\ score[p] \in Nat
      BY <2>1, <2>3 DEF Better, Scored
    <2>5. PICK k \in K : q \in share[k]
      BY <2>4 DEF Covers
    <2> DEFINE W == Better(share[k], q)
    <2>6. W \subseteq share[k] /\ W \subseteq S
      BY <1>2 DEF Better
    <2>7. Cardinality(W) >= Chosen
      <3>1. q \notin Top(share[k])
        BY <2>3, <2>5
      <3> QED BY <1>1, <1>2, <1>3, <2>5, <3>1 DEF Top
    <2>8. Cardinality(Top(W)) >= Chosen
      <3>1. Scored(W)
        BY <1>1, <2>6, FS_Subset DEF Scored
      <3> HIDE DEF W
      <3> QED BY <2>7, <3>1, TopHolds
    <2>9. Top(W) \subseteq Better(U, p)
      <3> SUFFICES ASSUME NEW e \in Top(W) PROVE e \in Better(U, p)
        OBVIOUS
      <3>1. e \in share[k] /\ e \in S /\ score[e] > score[q] /\ Cardinality(Better(W, e)) < Chosen
        BY <2>6 DEF Top, Better
      <3>2. score[e] \in Nat
        BY <3>1 DEF Scored
      <3>3. Better(share[k], e) = Better(W, e)
        <4>1. \A d \in share[k] : score[d] > score[e] => score[d] > score[q]
          BY <1>2, <2>4, <3>1, <3>2 DEF Scored
        <4> QED BY <4>1 DEF Better
      <3>4. e \in U
        BY <3>1, <3>3 DEF Top
      <3> QED BY <2>4, <3>1, <3>2, <3>4 DEF Better
    <2>10. Better(U, p) \subseteq S
      BY <1>1 DEF Better
    <2>11. Cardinality(Top(W)) <= Cardinality(Better(U, p)) /\ Cardinality(Better(U, p)) \in Nat
           /\ Cardinality(Top(W)) \in Nat
      <3>1. IsFiniteSet(Better(U, p)) /\ IsFiniteSet(Top(W))
        BY <1>1, <2>9, <2>10, FS_Subset
      <3> QED BY <2>9, <3>1, FS_Subset, FS_CardinalityType
    <2> QED BY <1>1, <2>1, <2>8, <2>11
  <1> QED BY <1>4, <1>5

\* The pool a candidate stands for, and what a rank offers from the place its request starts at.
PoolOf(c) == GlobalPool(c.rank, c.local - c.start)
Offer(rank, start, i) ==
    [local |-> start + i, start |-> start, rank |-> rank, score |-> score[GlobalPool(rank, i)]]
Offered(rank, start, len) == {Offer(rank, start, i) : i \in 0 .. LocalCount(rank, len) - 1}

\* The best candidates stand for the best pools, if each stands for one of its own.
LEMMA BestIsTop ==
    ASSUME NEW X, IsFiniteSet(X), \A c \in X : c.score = score[PoolOf(c)],
           \A c, d \in X : PoolOf(c) = PoolOf(d) => c = d
    PROVE  Merge(X) = Top({PoolOf(c) : c \in X})
  <1> DEFINE P == {PoolOf(c) : c \in X}
             above(c) == {d \in X : d.score > c.score}
  <1>1. ASSUME NEW c \in X PROVE Cardinality(above(c)) = Cardinality(Better(P, PoolOf(c)))
    <2> DEFINE f == [d \in above(c) |-> PoolOf(d)]
    <2>1. Range(f) = Better(P, PoolOf(c))
      <3>1. \A d \in X : d \in above(c) <=> score[PoolOf(d)] > score[PoolOf(c)]
        OBVIOUS
      <3>2. Range(f) = {PoolOf(d) : d \in above(c)}
        BY DEF Range
      <3>3. {PoolOf(d) : d \in above(c)} = Better(P, PoolOf(c))
        BY <3>1 DEF Better
      <3> QED BY <3>2, <3>3
    <2>2. IsFiniteSet(DOMAIN f)
      <3>1. above(c) \subseteq X
        OBVIOUS
      <3> QED BY <3>1, FS_Subset
    <2>3. \A x, y \in DOMAIN f : f[x] = f[y] => x = y
      OBVIOUS
    <2>4. DOMAIN f = above(c)
      OBVIOUS
    <2> HIDE DEF f
    <2>5. Cardinality(Range(f)) = Cardinality(DOMAIN f)
      BY <2>2, <2>3, ImageSize
    <2> QED BY <2>1, <2>4, <2>5
  <1>2. Best(X) = {c \in X : Cardinality(above(c)) < Chosen}
    BY DEF Best
  <1>3. Merge(X) = {PoolOf(c) : c \in Best(X)}
    BY DEF Merge, PoolOf
  <1>4. Top(P) = {p \in P : Cardinality(Better(P, p)) < Chosen}
    BY DEF Top
  <1> HIDE DEF above
  <1>5. \A p : p \in Merge(X) <=> \E c \in X : p = PoolOf(c) /\ Cardinality(above(c)) < Chosen
    BY <1>2, <1>3
  <1>6. \A p : p \in Top(P) <=> \E c \in X : p = PoolOf(c) /\ Cardinality(Better(P, PoolOf(c))) < Chosen
    BY <1>4
  <1>7. \A c \in X : Cardinality(above(c)) < Chosen <=> Cardinality(Better(P, PoolOf(c))) < Chosen
    BY <1>1
  <1> HIDE DEF P
  <1>8. \A p : p \in Merge(X) <=> p \in Top(P)
    BY <1>5, <1>6, <1>7
  <1>9. Merge(X) = Top(P)
    BY <1>8
  <1> QED BY <1>9 DEF P

\* What a rank offers stands for the pools it owns, one each.
LEMMA OfferedPools ==
    ASSUME NEW rank \in Shards, NEW start \in Nat, NEW len \in Nat
    PROVE  /\ \A c \in Offered(rank, start, len) :
                    /\ c.score = score[PoolOf(c)] /\ PoolOf(c) \in WholePools(len)
                    /\ PoolOf(c) % Ranks = rank
           /\ \A c, d \in Offered(rank, start, len) : PoolOf(c) = PoolOf(d) => c = d
           /\ {PoolOf(c) : c \in Offered(rank, start, len)} = {p \in WholePools(len) : p % Ranks = rank}
  <1> DEFINE n == LocalCount(rank, len)
             O == Offered(rank, start, len)
  <1>1. /\ n \in Nat
        /\ \A j \in Nat : j < n <=> GlobalPool(rank, j) \in WholePools(len)
        /\ \A j \in Nat : GlobalPool(rank, j) % Ranks = rank
        /\ \A p \in WholePools(len) : p % Ranks = rank => \E j \in Nat : j < n /\ p = GlobalPool(rank, j)
        /\ \A i, j \in Nat : GlobalPool(rank, i) = GlobalPool(rank, j) => i = j
    BY LocalPools
  <1> HIDE DEF n
  <1>2. \A i \in 0 .. n - 1 : i \in Nat /\ i < n /\ (start + i) - start = i
    BY <1>1
  <1>3. \A i \in 0 .. n - 1 : PoolOf(Offer(rank, start, i)) = GlobalPool(rank, i)
    BY <1>2 DEF PoolOf, Offer
  <1>4. \A c \in O : \E i \in 0 .. n - 1 : c = Offer(rank, start, i)
    BY DEF Offered, n
  <1>5. \A i \in 0 .. n - 1 : Offer(rank, start, i) \in O
    BY DEF Offered, n
  <1>6. \A c \in O : /\ c.score = score[PoolOf(c)] /\ PoolOf(c) \in WholePools(len)
                     /\ PoolOf(c) % Ranks = rank
    <2> SUFFICES ASSUME NEW c \in O
                 PROVE  /\ c.score = score[PoolOf(c)] /\ PoolOf(c) \in WholePools(len)
                        /\ PoolOf(c) % Ranks = rank
      OBVIOUS
    <2>1. PICK i \in 0 .. n - 1 : c = Offer(rank, start, i)
      BY <1>4
    <2>2. PoolOf(c) = GlobalPool(rank, i) /\ i \in Nat /\ i < n
      BY <1>2, <1>3, <2>1
    <2>3. c.score = score[GlobalPool(rank, i)]
      BY <2>1 DEF Offer
    <2> QED BY <1>1, <2>2, <2>3
  <1>7. \A c, d \in O : PoolOf(c) = PoolOf(d) => c = d
    <2> SUFFICES ASSUME NEW c \in O, NEW d \in O, PoolOf(c) = PoolOf(d) PROVE c = d
      OBVIOUS
    <2>1. PICK i \in 0 .. n - 1 : c = Offer(rank, start, i)
      BY <1>4
    <2>2. PICK j \in 0 .. n - 1 : d = Offer(rank, start, j)
      BY <1>4
    <2>3. i = j
      BY <1>1, <1>2, <1>3, <2>1, <2>2
    <2> QED BY <2>1, <2>2, <2>3
  <1>8. \A p \in WholePools(len) : p % Ranks = rank => \E c \in O : p = PoolOf(c)
    <2> SUFFICES ASSUME NEW p \in WholePools(len), p % Ranks = rank PROVE \E c \in O : p = PoolOf(c)
      OBVIOUS
    <2>1. PICK j \in Nat : j < n /\ p = GlobalPool(rank, j)
      BY <1>1
    <2>2. j \in 0 .. n - 1
      BY <1>1, <2>1
    <2> QED BY <1>3, <1>5, <2>1, <2>2
  <1> HIDE DEF O
  <1>9. {PoolOf(c) : c \in O} = {p \in WholePools(len) : p % Ranks = rank}
    BY <1>6, <1>8
  <1> QED BY <1>6, <1>7, <1>9 DEF O

\* What is merged from the best of every rank is the best of the sequence.
LEMMA MergedIsTop ==
    ASSUME NEW len \in Nat, NEW start \in [Shards -> Nat], Scored(WholePools(len))
    PROVE  Merge(UNION {Best(Offered(k, start[k], len)) : k \in Shards}) = Top(WholePools(len))
  <1> DEFINE P == WholePools(len)
             O(k) == Offered(k, start[k], len)
             share == [k \in Shards |-> {p \in P : p % Ranks = k}]
             All == UNION {O(k) : k \in Shards}
             A == UNION {Best(O(k)) : k \in Shards}
  <1>1. /\ \A k \in Shards : \A c \in O(k) : c.score = score[PoolOf(c)] /\ PoolOf(c) \in P
                                              /\ PoolOf(c) % Ranks = k
        /\ \A k \in Shards : \A c, d \in O(k) : PoolOf(c) = PoolOf(d) => c = d
        /\ \A k \in Shards : {PoolOf(c) : c \in O(k)} = share[k]
    <2> SUFFICES ASSUME NEW k \in Shards
                 PROVE  /\ \A c \in O(k) : c.score = score[PoolOf(c)] /\ PoolOf(c) \in P
                                           /\ PoolOf(c) % Ranks = k
                        /\ \A c, d \in O(k) : PoolOf(c) = PoolOf(d) => c = d
                        /\ {PoolOf(c) : c \in O(k)} = share[k]
      OBVIOUS
    <2>1. start[k] \in Nat
      OBVIOUS
    <2> QED BY <2>1, OfferedPools
  <1>2. P = UNION {share[k] : k \in Shards}
    <2>1. \A p \in P : p % Ranks \in Shards
      <3>1. \A p \in P : p \in Nat
        <4>1. len \div Pool \in Nat
          BY SparseConstants, Division
        <4> QED BY <4>1 DEF WholePools
      <3> QED BY <3>1, SparseConstants DEF Shards
    <2> HIDE DEF P
    <2> QED BY <2>1
  <1> HIDE DEF O
  <1>3. \A c, d \in All : PoolOf(c) = PoolOf(d) => c = d
    <2> SUFFICES ASSUME NEW c \in All, NEW d \in All, PoolOf(c) = PoolOf(d) PROVE c = d
      OBVIOUS
    <2>1. PICK j \in Shards : c \in O(j)
      OBVIOUS
    <2>2. PICK k \in Shards : d \in O(k)
      OBVIOUS
    <2>3. j = k
      BY <1>1, <2>1, <2>2
    <2> QED BY <1>1, <2>1, <2>2, <2>3
  <1>4. \A c \in All : c.score = score[PoolOf(c)] /\ PoolOf(c) \in P
    BY <1>1
  <1>5. IsFiniteSet(All)
    <2> DEFINE f == [c \in All |-> PoolOf(c)]
    <2>1. f \in Injection(All, P)
      BY <1>3, <1>4 DEF Injection, IsInjective
    <2>2. IsFiniteSet(P)
      BY DEF Scored
    <2> HIDE DEF f, All, P
    <2> QED BY <2>1, <2>2, FS_Injection
  <1>6. \A k \in Shards : O(k) \subseteq All
    OBVIOUS
  <1>7. ASSUME NEW k \in Shards PROVE Merge(O(k)) = Top(share[k])
    <2>1. IsFiniteSet(O(k))
      BY <1>5, <1>6, FS_Subset
    <2>2. /\ \A c \in O(k) : c.score = score[PoolOf(c)]
          /\ \A c, d \in O(k) : PoolOf(c) = PoolOf(d) => c = d
          /\ {PoolOf(c) : c \in O(k)} = share[k]
      BY <1>1
    <2> HIDE DEF share
    <2> QED BY <2>1, <2>2, BestIsTop
  <1>8. A \subseteq All
    BY DEF Best
  <1>9. {PoolOf(c) : c \in A} = UNION {Top(share[k]) : k \in Shards}
    <2>1. \A k \in Shards : {PoolOf(c) : c \in Best(O(k))} = Top(share[k])
      BY <1>7 DEF Merge, PoolOf
    <2> HIDE DEF share
    <2>2. \A k \in Shards : \A c \in Best(O(k)) : PoolOf(c) \in Top(share[k])
      BY <2>1
    <2>3. \A k \in Shards : \A p \in Top(share[k]) : \E c \in Best(O(k)) : p = PoolOf(c)
      BY <2>1
    <2> QED BY <2>2, <2>3
  <1>10. Merge(A) = Top({PoolOf(c) : c \in A})
    <2>1. IsFiniteSet(A)
      BY <1>5, <1>8, FS_Subset
    <2>2. /\ \A c \in A : c.score = score[PoolOf(c)]
          /\ \A c, d \in A : PoolOf(c) = PoolOf(d) => c = d
      BY <1>3, <1>4, <1>8
    <2> HIDE DEF A
    <2> QED BY <2>1, <2>2, BestIsTop
  <1>11. Top(UNION {Top(share[k]) : k \in Shards}) = Top(P)
    <2>1. Covers(share, Shards, P) /\ Scored(P)
      BY <1>2 DEF Covers
    <2> HIDE DEF share, P
    <2> QED BY <2>1, TopOfTops
  <1>12. Merge(A) = Top(P)
    BY <1>9, <1>10, <1>11
  <1> QED BY <1>12 DEF O

\* Rounding up leaves room for every number below.
LEMMA CeilingAbove ==
    ASSUME NEW b \in Nat, NEW d \in Nat \ {0}
    PROVE  /\ CeilDiv(b, d) \in Nat
           /\ b \div d <= CeilDiv(b, d)
           /\ \A a \in Nat : a < b => a \div d < CeilDiv(b, d)
           /\ \A c \in Nat : b <= c => CeilDiv(b, d) <= CeilDiv(c, d)
  <1> DEFINE up(n) == n + d - 1
  <1>1. \A n \in Nat : up(n) \in Nat /\ n <= up(n) /\ CeilDiv(n, d) = up(n) \div d
    BY DEF CeilDiv
  <1>2. CeilDiv(b, d) \in Nat
    BY <1>1, Division
  <1>3. b \div d <= CeilDiv(b, d)
    BY <1>1, DivGrows
  <1>4. ASSUME NEW a \in Nat, a < b PROVE a \div d < CeilDiv(b, d)
    <2> DEFINE q == a \div d
               r == CeilDiv(b, d)
    <2>1. q \in Nat /\ d * q <= a
      BY Division
    <2>2. r \in Nat /\ b + d - 1 < d * r + d
      BY <1>1, Division
    <2> HIDE DEF q, r
    <2>3. \A x, y \in Nat : x <= y => d * x <= d * y
      OBVIOUS
    <2>4. d * q \in Nat /\ d * r \in Nat
      BY <2>1, <2>2
    <2>5. q < r
      BY <1>4, <2>1, <2>2, <2>3, <2>4
    <2> QED BY <2>5 DEF q, r
  <1>5. ASSUME NEW c \in Nat, b <= c PROVE CeilDiv(b, d) <= CeilDiv(c, d)
    <2>1. up(b) \in Nat /\ up(c) \in Nat /\ up(b) <= up(c)
      BY <1>5
    <2> HIDE DEF up
    <2>2. up(b) \div d <= up(c) \div d
      BY <2>1, DivGrows
    <2> QED BY <1>1, <2>2
  <1> QED BY <1>2, <1>3, <1>4, <1>5

\* What a batch is made of.
LEMMA BatchFacts ==
    ASSUME seqs \in Batches
    PROVE  /\ IsFiniteSet(DOMAIN seqs) /\ DOMAIN seqs \in SUBSET (Nat \ {0})
           /\ \E n \in 1 .. MaxSeqs : DOMAIN seqs = 1 .. n
           /\ \A i \in DOMAIN seqs :
                /\ seqs[i].len \in 1 .. ModelLen /\ seqs[i].query \in 1 .. ModelLen
                /\ seqs[i].decode \in BOOLEAN /\ seqs[i].query <= seqs[i].len
                /\ seqs[i].decode <=> seqs[i].query <= DecodeRows
  <1> DEFINE S == {s \in [len : 1 .. ModelLen, query : 1 .. ModelLen, decode : BOOLEAN] :
                    s.query <= s.len /\ s.decode = (s.query <= DecodeRows)}
  <1>1. PICK n \in 1 .. MaxSeqs : seqs \in [1 .. n -> S]
    BY DEF Batches
  <1>2. DOMAIN seqs = 1 .. n /\ n \in Nat
    BY <1>1, SparseConstants
  <1>3. IsFiniteSet(DOMAIN seqs)
    BY <1>2, InitialSegment
  <1>4. \A i \in DOMAIN seqs : seqs[i] \in S
    BY <1>1
  <1>5. \A i \in DOMAIN seqs :
            /\ seqs[i].len \in 1 .. ModelLen /\ seqs[i].query \in 1 .. ModelLen
            /\ seqs[i].decode \in BOOLEAN /\ seqs[i].query <= seqs[i].len
    BY <1>4
  <1>6. \A i \in DOMAIN seqs : seqs[i].decode = (seqs[i].query <= DecodeRows)
    BY <1>4
  <1> QED BY <1>2, <1>3, <1>5, <1>6

\* The position of a query of a request.
LEMMA QueryFacts ==
    ASSUME seqs \in Batches, NEW r \in DOMAIN seqs, NEW pos \in QueriesOf(seqs[r])
    PROVE  /\ pos \in Nat /\ pos + 1 \in Nat /\ pos < seqs[r].len /\ pos + 1 <= seqs[r].len
           /\ seqs[r].len \in Nat /\ seqs[r].len <= ModelLen
           /\ pos - (seqs[r].len - seqs[r].query) \in 0 .. seqs[r].query - 1
  <1>1. /\ seqs[r].len \in 1 .. ModelLen /\ seqs[r].query \in 1 .. ModelLen
        /\ seqs[r].query <= seqs[r].len
    BY BatchFacts
  <1> QED BY <1>1, SparseConstants DEF QueriesOf

\* A longer sequence has no fewer pools on any rank.
LEMMA LocalCountGrows ==
    ASSUME NEW rank \in Shards, NEW a \in Nat, NEW b \in Nat, a <= b
    PROVE  LocalCount(rank, a) <= LocalCount(rank, b)
  <1> DEFINE P(len) == {p \in WholePools(len) : p % Ranks = rank}
  <1>1. a \div Pool <= b \div Pool /\ a \div Pool \in Nat /\ b \div Pool \in Nat
    BY SparseConstants, DivGrows, Division
  <1>2. P(a) \subseteq P(b)
    BY <1>1 DEF WholePools
  <1>3. IsFiniteSet(WholePools(b))
    <2>1. \A i, j \in Int : IsFiniteSet(i .. j)
      BY FS_Interval
    <2>2. 0 \in Int /\ (b \div Pool) - 1 \in Int
      BY <1>1
    <2> QED BY <2>1, <2>2 DEF WholePools
  <1>4. IsFiniteSet(P(b))
    BY <1>3, FS_Subset
  <1> QED BY <1>2, <1>4, FS_Subset DEF LocalCount

\* All pools of a position of the batch have a score.
LEMMA PoolsAreScored ==
    ASSUME score \in Scores, NEW len \in Nat, len <= ModelLen
    PROVE  Scored(WholePools(len))
  <1>1. len \div Pool <= ModelLen \div Pool /\ len \div Pool \in Nat /\ ModelLen \div Pool \in Nat
    BY SparseConstants, DivGrows, Division
  <1>2. IsFiniteSet(WholePools(len))
    <2>1. \A i, j \in Int : IsFiniteSet(i .. j)
      BY FS_Interval
    <2>2. 0 \in Int /\ (len \div Pool) - 1 \in Int
      BY <1>1
    <2> QED BY <2>1, <2>2 DEF WholePools
  <1>3. \A p \in WholePools(len) : score[p] \in Nat
    <2>1. score \in [0 .. (ModelLen \div Pool) - 1 -> Nat]
      BY SparseConstants
    <2>2. \A p \in WholePools(len) : p \in 0 .. (ModelLen \div Pool) - 1
      BY <1>1 DEF WholePools
    <2> QED BY <2>1, <2>2
  <1> QED BY <1>2, <1>3 DEF Scored

\* The keys of requests are the sum of those of each.
LEMMA KeysAddUp ==
    ASSUME seqs \in Batches, NEW rank \in Shards
    PROVE  /\ \A s \in SUBSET DOMAIN seqs : KeysOf(rank, s) \in Nat
           /\ \A s, t \in SUBSET DOMAIN seqs : s \subseteq t => KeysOf(rank, s) <= KeysOf(rank, t)
           /\ KeysOf(rank, {}) = 0
           /\ \A s \in SUBSET DOMAIN seqs : \A x \in DOMAIN seqs \ s :
                    KeysOf(rank, s \cup {x}) = LocalCount(rank, seqs[x].len) + KeysOf(rank, s)
  <1> DEFINE f == [i \in DOMAIN seqs |-> LocalCount(rank, seqs[i].len)]
             K == Sums(f)
  <1>1. IsFiniteSet(DOMAIN f) /\ DOMAIN f = DOMAIN seqs
    BY BatchFacts
  <1>2. \A i \in DOMAIN seqs : f[i] = LocalCount(rank, seqs[i].len) /\ f[i] \in Nat
    <2> SUFFICES ASSUME NEW i \in DOMAIN seqs PROVE LocalCount(rank, seqs[i].len) \in Nat
      OBVIOUS
    <2>1. seqs[i].len \in Nat
      BY BatchFacts
    <2> QED BY <2>1, LocalPools
  <1>3. ASSUME NEW s \in SUBSET DOMAIN seqs PROVE KeysOf(rank, s) = K[s]
    <2>1. KeysOf(rank, s) = Total([i \in s |-> LocalCount(rank, seqs[i].len)])
      BY Zenon DEF KeysOf, Total
    <2>2. [i \in s |-> LocalCount(rank, seqs[i].len)] = [i \in s |-> f[i]]
      BY <1>2
    <2> HIDE DEF f
    <2>3. \A i \in DOMAIN f : f[i] \in Int
      BY <1>1, <1>2
    <2>4. Total([i \in s |-> f[i]]) = Sums(f)[s]
      BY <1>1, <2>3, TotalOfPart
    <2> QED BY <2>1, <2>2, <2>4
  <1> HIDE DEF f
  <1>4. /\ \A s \in SUBSET DOMAIN f : Sums(f)[s] \in Nat
        /\ \A s, t \in SUBSET DOMAIN f : s \subseteq t => Sums(f)[s] <= Sums(f)[t]
    BY <1>1, <1>2, SumsGrow
  <1>5. AddsUp(Sums(f), f)
    <2>1. \A i \in DOMAIN f : f[i] \in Int
      BY <1>1, <1>2
    <2> QED BY <1>1, <2>1, SumsAddUp
  <1>6. KeysOf(rank, {}) = 0
    BY <1>3, <1>5 DEF AddsUp
  <1>7. ASSUME NEW s \in SUBSET DOMAIN seqs, NEW x \in DOMAIN seqs \ s
        PROVE  KeysOf(rank, s \cup {x}) = LocalCount(rank, seqs[x].len) + KeysOf(rank, s)
    <2>1. s \cup {x} \in SUBSET DOMAIN seqs /\ x \in s \cup {x} /\ (s \cup {x}) \ {x} = s
      OBVIOUS
    <2>2. Sums(f)[s \cup {x}] = f[x] + Sums(f)[s]
      BY <1>1, <1>5, <2>1 DEF AddsUp
    <2> QED BY <1>2, <1>3, <2>1, <2>2
  <1>8. \A s \in SUBSET DOMAIN seqs : KeysOf(rank, s) \in Nat
    BY <1>1, <1>3, <1>4
  <1>9. \A s, t \in SUBSET DOMAIN seqs : s \subseteq t => KeysOf(rank, s) <= KeysOf(rank, t)
    BY <1>1, <1>3, <1>4
  <1> QED BY <1>6, <1>7, <1>8, <1>9

\* The keys of a request follow those of the requests before it and end with the chunk's.
LEMMA RangesFollow ==
    ASSUME seqs \in Batches, NEW rank \in Shards, NEW chunk \in SUBSET DOMAIN seqs, NEW r \in chunk
    PROVE  /\ Start(rank, chunk, r) \in Nat /\ LocalCount(rank, seqs[r].len) \in Nat
           /\ \A i \in chunk : i < r =>
                  Start(rank, chunk, i) + LocalCount(rank, seqs[i].len) <= Start(rank, chunk, r)
           /\ Start(rank, chunk, r) + LocalCount(rank, seqs[r].len) <= KeysOf(rank, chunk)
           /\ KeysOf(rank, chunk) \in Nat
  <1> DEFINE Before(i) == {k \in chunk : k < i}
             count(i) == LocalCount(rank, seqs[i].len)
             keys(s) == KeysOf(rank, s)
  <1>1. chunk \subseteq DOMAIN seqs /\ DOMAIN seqs \subseteq Nat
    BY BatchFacts
  <1>2. /\ \A s \in SUBSET DOMAIN seqs : keys(s) \in Nat
        /\ \A s, t \in SUBSET DOMAIN seqs : s \subseteq t => keys(s) <= keys(t)
        /\ \A s \in SUBSET DOMAIN seqs : \A x \in DOMAIN seqs \ s : keys(s \cup {x}) = count(x) + keys(s)
    BY KeysAddUp
  <1>3. \A i \in chunk : Start(rank, chunk, i) = keys(Before(i)) /\ Before(i) \in SUBSET DOMAIN seqs
    BY <1>1 DEF Start
  <1>4. \A i \in chunk : count(i) \in Nat
    <2> SUFFICES ASSUME NEW i \in chunk PROVE count(i) \in Nat
      OBVIOUS
    <2>1. seqs[i].len \in Nat
      BY <1>1, BatchFacts
    <2> QED BY <2>1, LocalPools
  <1> HIDE DEF count, keys
  <1>5. \A i \in chunk : \A t \in SUBSET DOMAIN seqs :
            Before(i) \cup {i} \subseteq t => keys(Before(i)) + count(i) <= keys(t)
    <2> SUFFICES ASSUME NEW i \in chunk, NEW t \in SUBSET DOMAIN seqs, Before(i) \cup {i} \subseteq t
                 PROVE  keys(Before(i)) + count(i) <= keys(t)
      OBVIOUS
    <2>1. i \in DOMAIN seqs \ Before(i) /\ Before(i) \in SUBSET DOMAIN seqs
          /\ Before(i) \cup {i} \in SUBSET DOMAIN seqs
      BY <1>1
    <2> HIDE DEF Before
    <2>2. keys(Before(i) \cup {i}) = count(i) + keys(Before(i))
      BY <1>2, <2>1
    <2>3. keys(Before(i) \cup {i}) <= keys(t)
      BY <1>2, <2>1
    <2>4. keys(Before(i)) \in Nat /\ keys(t) \in Nat /\ count(i) \in Nat
      BY <1>2, <1>4, <2>1
    <2> QED BY <2>2, <2>3, <2>4
  <1>6. ASSUME NEW i \in chunk, i < r
        PROVE  Start(rank, chunk, i) + count(i) <= Start(rank, chunk, r)
    <2>1. Before(i) \cup {i} \subseteq Before(r)
      BY <1>1, <1>6
    <2> QED BY <1>3, <1>5, <2>1
  <1>7. Start(rank, chunk, r) + count(r) <= keys(chunk)
    <2>1. Before(r) \cup {r} \subseteq chunk
      OBVIOUS
    <2> QED BY <1>1, <1>3, <1>5, <2>1
  <1>8. Start(rank, chunk, r) \in Nat /\ keys(chunk) \in Nat
    BY <1>1, <1>2, <1>3
  <1> QED BY <1>4, <1>6, <1>7, <1>8 DEF count, keys

\* In the place of its i-th key the workspace has the i-th pool a rank owns of a request.
LEMMA KeyAt ==
    ASSUME seqs \in Batches, NEW rank \in Shards, NEW chunk \in SUBSET DOMAIN seqs, NEW r \in chunk,
           NEW i \in 0 .. LocalCount(rank, seqs[r].len) - 1
    PROVE  Keys(rank, chunk)[Start(rank, chunk, r) + i].pool = GlobalPool(rank, i)
  <1> DEFINE count(x) == LocalCount(rank, seqs[x].len)
             start(x) == Start(rank, chunk, x)
             j == start(r) + i
             Holds(x) == j - start(x) \in 0 .. count(x) - 1
             who == CHOOSE x \in chunk : Holds(x)
  <1>1. \A x \in chunk : /\ start(x) \in Nat /\ count(x) \in Nat
                         /\ \A y \in chunk : y < x => start(y) + count(y) <= start(x)
    BY RangesFollow
  <1>2. start(r) + count(r) <= KeysOf(rank, chunk) /\ KeysOf(rank, chunk) \in Nat
    BY RangesFollow
  <1>3. chunk \subseteq Nat
    BY BatchFacts
  <1> HIDE DEF count, start
  <1>4. i \in Nat /\ i < count(r) /\ j \in Nat /\ j \in 0 .. KeysOf(rank, chunk) - 1
    <2>1. i \in 0 .. count(r) - 1
      BY DEF count
    <2> QED BY <1>1, <1>2, <2>1
  <1>5. j - start(r) = i
    BY <1>1, <1>4
  <1>6. ASSUME NEW x \in chunk, Holds(x) PROVE x = r
    <2>1. start(x) <= j /\ j < start(x) + count(x)
      BY <1>1, <1>4, <1>6
    <2>2. CASE x < r
      <3>1. start(x) + count(x) <= start(r)
        BY <1>1, <2>2
      <3> QED BY <1>1, <1>4, <2>1, <3>1
    <2>3. CASE r < x
      <3>1. start(r) + count(r) <= start(x)
        BY <1>1, <2>3
      <3> QED BY <1>1, <1>4, <2>1, <3>1
    <2> QED BY <1>3, <2>2, <2>3
  <1>7. Holds(r)
    BY <1>1, <1>4, <1>5
  <1> HIDE DEF Holds
  <1>8. who = r
    BY <1>6, <1>7
  <1>9. Keys(rank, chunk)[j] = [req |-> who, pool |-> GlobalPool(rank, j - start(who))]
    BY <1>4 DEF Keys, Holds, start, count
  <1> HIDE DEF j, who
  <1>10. Keys(rank, chunk)[j].pool = GlobalPool(rank, i)
    BY <1>5, <1>8, <1>9
  <1> QED BY <1>10 DEF j, start

\* A prefill row scores the pools that its rank owns of its own past.
LEMMA PrefillOffers ==
    ASSUME seqs \in Batches, NEW rank \in Shards, NEW r \in DOMAIN seqs, NEW pos \in QueriesOf(seqs[r]),
           ~ seqs[r].decode
    PROVE  /\ Start(rank, ChunkOf(r), r) \in Nat
           /\ LocalBest(rank, r, pos) = Best(Offered(rank, Start(rank, ChunkOf(r), r), pos + 1))
  <1> DEFINE chunk == ChunkOf(r)
             start == Start(rank, chunk, r)
             n == LocalCount(rank, pos + 1)
             logits == GatheredLogits(rank, r, pos)
  <1>1. chunk \in SUBSET DOMAIN seqs /\ r \in chunk
    BY DEF ChunkOf, Prefills
  <1>2. start \in Nat
    BY <1>1, RangesFollow
  <1>3. n \in Nat /\ n <= LocalCount(rank, seqs[r].len) /\ LocalCount(rank, seqs[r].len) \in Nat
    BY QueryFacts, LocalPools, LocalCountGrows
  <1> HIDE DEF n, chunk
  <1>4. \A i \in 0 .. n - 1 : score[Keys(rank, chunk)[start + i].pool] = score[GlobalPool(rank, i)]
    <2> SUFFICES ASSUME NEW i \in 0 .. n - 1
                 PROVE  Keys(rank, chunk)[start + i].pool = GlobalPool(rank, i)
      OBVIOUS
    <2>1. i \in 0 .. LocalCount(rank, seqs[r].len) - 1
      BY <1>3
    <2> QED BY <1>1, <2>1, KeyAt
  <1>5. logits = [j \in start .. start + n - 1 |-> score[Keys(rank, chunk)[j].pool]]
    BY DEF GatheredLogits, n, chunk
  <1> HIDE DEF start
  <1>6. \A i \in 0 .. n - 1 : start + i \in start .. start + n - 1
    BY <1>2, <1>3
  <1>7. \A j \in start .. start + n - 1 : j - start \in 0 .. n - 1 /\ start + (j - start) = j
    BY <1>2, <1>3
  <1>8. DOMAIN logits = start .. start + n - 1
        /\ \A i \in 0 .. n - 1 : logits[start + i] = score[GlobalPool(rank, i)]
    BY <1>4, <1>5, <1>6
  <1> HIDE DEF logits
  <1>9. ASSUME NEW i \in 0 .. n - 1
        PROVE  Offer(rank, start, i) =
                 [local |-> start + i, start |-> start, rank |-> rank, score |-> logits[start + i]]
    BY <1>8 DEF Offer
  <1>10. Candidates(rank, logits, start) = Offered(rank, start, pos + 1)
    <2>1. Offered(rank, start, pos + 1) = {Offer(rank, start, i) : i \in 0 .. n - 1}
      BY DEF Offered, n
    <2>2. \A c \in Candidates(rank, logits, start) : c \in Offered(rank, start, pos + 1)
      <3> SUFFICES ASSUME NEW j \in start .. start + n - 1
                   PROVE  [local |-> j, start |-> start, rank |-> rank, score |-> logits[j]]
                              \in Offered(rank, start, pos + 1)
        BY <1>8 DEF Candidates
      <3>1. PICK i \in 0 .. n - 1 : j = start + i
        BY <1>7
      <3> QED BY <1>9, <2>1, <3>1
    <2>3. \A c \in Offered(rank, start, pos + 1) : c \in Candidates(rank, logits, start)
      <3> SUFFICES ASSUME NEW i \in 0 .. n - 1
                   PROVE  Offer(rank, start, i) \in Candidates(rank, logits, start)
        BY <2>1
      <3> QED BY <1>6, <1>8, <1>9 DEF Candidates
    <2> QED BY <2>2, <2>3
  <1>11. LocalBest(rank, r, pos) = Best(Candidates(rank, logits, start))
    BY DEF LocalBest, logits, start, chunk
  <1> QED BY <1>2, <1>10, <1>11 DEF start, chunk

\* No decode of the batch asks more than the padded width, which no decode exceeds.
LEMMA WidthFacts ==
    ASSUME seqs \in Batches, NEW r \in Decodes
    PROVE  /\ NextN \in Nat \ {0} /\ NextN <= DecodeRows
           /\ seqs[r].query <= NextN
  <1> DEFINE W == {seqs[i].query : i \in Decodes}
  <1>1. \A i \in Decodes : /\ i \in DOMAIN seqs /\ seqs[i].query \in Nat \ {0}
                           /\ seqs[i].query <= DecodeRows
    <2> SUFFICES ASSUME NEW i \in Decodes
                 PROVE  /\ i \in DOMAIN seqs /\ seqs[i].query \in Nat \ {0}
                        /\ seqs[i].query <= DecodeRows
      OBVIOUS
    <2>1. i \in DOMAIN seqs /\ seqs[i].decode
      BY DEF Decodes
    <2>2. seqs[i].query \in 1 .. ModelLen /\ seqs[i].query <= DecodeRows
      BY <2>1, BatchFacts
    <2> QED BY <2>1, <2>2, SparseConstants
  <1>2. W \in SUBSET Nat /\ W # {} /\ IsFiniteSet(W)
    <2> DEFINE f == [i \in Decodes |-> seqs[i].query]
    <2>1. IsFiniteSet(DOMAIN f)
      <3>1. Decodes \subseteq DOMAIN seqs
        BY DEF Decodes
      <3> QED BY <3>1, BatchFacts, FS_Subset
    <2>2. Range(f) = W
      BY DEF Range
    <2> HIDE DEF f
    <2>3. IsFiniteSet(W)
      BY <2>1, <2>2, ImageSize
    <2> QED BY <1>1, <2>3
  <1>3. PICK m \in W : \A k \in W : k <= m
    BY <1>2, GreatestElement
  <1>4. NextN = CHOOSE x \in W : \A y \in W : x >= y
    BY Zenon DEF NextN, Max
  <1>5. m \in W /\ \A y \in W : m >= y
    BY <1>2, <1>3
  <1> HIDE DEF W
  <1>6. NextN \in W /\ \A y \in W : NextN >= y
    BY <1>4, <1>5, Zenon
  <1>7. \A w \in W : w \in Nat \ {0} /\ w <= DecodeRows
    BY <1>1 DEF W
  <1>8. seqs[r].query \in W
    BY DEF W
  <1> QED BY <1>6, <1>7, <1>8

\* The row of a padded grid leads back to the request and the length of its query.
LEMMA GridFacts ==
    ASSUME seqs \in Batches, NEW r \in Decodes, NEW pos \in QueriesOf(seqs[r])
    PROVE  GridRow(r, pos) \div NextN + 1 = r /\ GridLen(GridRow(r, pos)) = pos + 1
  <1> DEFINE w == NextN
             i == pos - (seqs[r].len - seqs[r].query)
             line == GridRow(r, pos)
  <1>1. r \in DOMAIN seqs /\ r \in Nat \ {0} /\ r - 1 \in Nat
    <2>1. r \in DOMAIN seqs
      BY DEF Decodes
    <2> QED BY <2>1, BatchFacts
  <1>2. w \in Nat \ {0} /\ seqs[r].query <= w
    BY WidthFacts
  <1>3. seqs[r].query \in Nat /\ seqs[r].len \in Nat /\ pos \in Nat
    BY <1>1, BatchFacts, QueryFacts
  <1>4. i \in 0 .. seqs[r].query - 1
    BY <1>1, QueryFacts
  <1>5. i \in 0 .. w - 1
    BY <1>2, <1>3, <1>4
  <1>6. line = (r - 1) * w + i
    BY DEF GridRow
  <1>7. seqs[r].len - seqs[r].query + i + 1 = pos + 1
    BY <1>3
  <1> HIDE DEF i, w, line
  <1>8. ((r - 1) * w + i) \div w = r - 1 /\ ((r - 1) * w + i) % w = i
    BY <1>1, <1>2, <1>5, BlockOf
  <1>9. line \div w = r - 1 /\ line % w = i
    BY <1>6, <1>8
  <1>10. line \div w + 1 = r
    BY <1>1, <1>9
  <1>11. GridLen(line) = seqs[r].len - seqs[r].query + i + 1
    <2>1. GridLen(line) = seqs[line \div w + 1].len - seqs[line \div w + 1].query + (line % w) + 1
      BY DEF GridLen, w
    <2> QED BY <1>9, <1>10, <2>1
  <1> QED BY <1>7, <1>10, <1>11 DEF line, w

\* A decode row scores the pools that its rank owns of its own past.
LEMMA DecodeOffers ==
    ASSUME seqs \in Batches, NEW rank \in Shards, NEW r \in DOMAIN seqs, NEW pos \in QueriesOf(seqs[r]),
           seqs[r].decode
    PROVE  LocalBest(rank, r, pos) = Best(Offered(rank, 0, pos + 1))
  <1> DEFINE n == LocalCount(rank, pos + 1)
             line == GridRow(r, pos)
             logits == PagedLogits(rank, line)
             Key(j) == PooledAt(rank, BlockTable(r)[j \div Page], j % Page)
  <1>1. r \in Decodes
    BY DEF Decodes
  <1>2. line \div NextN + 1 = r /\ GridLen(line) = pos + 1
    BY <1>1, GridFacts
  <1>3. pos + 1 \in Nat /\ pos + 1 <= ModelLen
    BY QueryFacts, SparseConstants
  <1>4. n \in Nat /\ n <= ModelLen
    <2>1. n \in Nat /\ n <= (pos + 1) \div Pool
      BY <1>3, LocalPools
    <2> DEFINE q == (pos + 1) \div Pool
    <2>2. q \in Nat /\ Pool * q <= pos + 1
      BY <1>3, SparseConstants, Division
    <2> HIDE DEF q
    <2>3. q <= Pool * q /\ Pool * q \in Nat
      BY <2>2, SparseConstants
    <2> QED BY <1>3, <2>1, <2>2, <2>3, SparseConstants DEF q
  <1> HIDE DEF line, n
  <1>5. logits = [j \in 0 .. n - 1 |-> score[Key(j).pool]]
    BY <1>2 DEF PagedLogits, n
  <1>6. Page \in Nat \ {0}
    <2> DEFINE q == Block \div Pool
    <2>1. q \in Int /\ Block = Pool * q + (Block % Pool)
      BY SparseConstants
    <2>2. q \in Nat
      BY SparseConstants, Division
    <2> HIDE DEF q
    <2>3. q # 0
      BY <2>1, SparseConstants
    <2> QED BY <2>2, <2>3 DEF q, Page
  <1>7. ASSUME NEW j \in 0 .. n - 1 PROVE Key(j).pool = GlobalPool(rank, j)
    <2>1. j \in Nat /\ j <= ModelLen
      BY <1>4, SparseConstants
    <2> DEFINE p == j \div Page
    <2>2. p \in 0 .. CeilDiv(ModelLen, Page)
      <3>1. p \in Nat /\ p <= ModelLen \div Page
        BY <1>6, <2>1, SparseConstants, Division, DivGrows
      <3>2. ModelLen \div Page \in Nat /\ ModelLen \div Page <= CeilDiv(ModelLen, Page)
            /\ CeilDiv(ModelLen, Page) \in Nat
        BY <1>6, SparseConstants, Division, CeilingAbove
      <3> QED BY <3>1, <3>2
    <2>3. j = Page * p + (j % Page) /\ j % Page \in Int
      BY <1>6, <2>1
    <2> HIDE DEF p
    <2>4. BlockTable(r)[p] = [req |-> r, page |-> p]
      BY <2>2 DEF BlockTable
    <2>5. Key(j).pool = GlobalPool(rank, p * Page + (j % Page))
      BY <2>4 DEF PooledAt, p
    <2>6. p * Page = Page * p /\ p \in Nat
      <3>1. p \in Nat
        BY <1>6, <2>1, Division DEF p
      <3> QED BY <1>6, <3>1
    <2> QED BY <2>3, <2>5, <2>6
  <1> HIDE DEF Key
  <1>8. DOMAIN logits = 0 .. n - 1 /\ \A j \in 0 .. n - 1 : logits[j] = score[GlobalPool(rank, j)]
    BY <1>5, <1>7
  <1> HIDE DEF logits
  <1>9. \A j \in 0 .. n - 1 :
            Offer(rank, 0, j) = [local |-> j, start |-> 0, rank |-> rank, score |-> logits[j]]
    <2> SUFFICES ASSUME NEW j \in 0 .. n - 1
                 PROVE  Offer(rank, 0, j) = [local |-> j, start |-> 0, rank |-> rank, score |-> logits[j]]
      OBVIOUS
    <2>1. 0 + j = j
      BY <1>4
    <2> QED BY <1>8, <2>1 DEF Offer
  <1>10. Candidates(rank, logits, 0) = Offered(rank, 0, pos + 1)
    BY <1>8, <1>9 DEF Candidates, Offered, n
  <1>11. LocalBest(rank, r, pos) = Best(Candidates(rank, logits, 0))
    BY DEF LocalBest, logits, line
  <1> QED BY <1>10, <1>11

\* All pools and the open one are all tokens.
LEMMA AllTokens ==
    ASSUME NEW len \in Nat
    PROVE  /\ Expand(WholePools(len), len) = 0 .. len - 1
           /\ \A S : S \subseteq WholePools(len) => Expand(S, len) \subseteq Nat
  <1> DEFINE n == len \div Pool
  <1>1. n \in Nat /\ Pool * n <= len /\ len < Pool * n + Pool /\ Pool \in Nat \ {0}
    BY SparseConstants, Division
  <1>2. WholePools(len) = 0 .. n - 1 /\ OpenTokens(len) = n * Pool .. len - 1
    BY DEF WholePools, OpenTokens
  <1> HIDE DEF n
  <1>3. \A p \in Nat : p * Pool \in Nat /\ p * Pool = Pool * p
    BY <1>1
  <1>4. \A p \in Nat : p < n => p * Pool + Pool <= n * Pool
    <2>1. \A x, y \in Nat : x < y => x * Pool + Pool <= y * Pool
      BY <1>1
    <2> QED BY <1>1, <2>1
  <1>5. \A p \in 0 .. n - 1 : \A k \in 0 .. Pool - 1 : p * Pool + k \in 0 .. len - 1
    <2> SUFFICES ASSUME NEW p \in 0 .. n - 1, NEW k \in 0 .. Pool - 1
                 PROVE  p * Pool + k \in 0 .. len - 1
      OBVIOUS
    <2>1. p \in Nat /\ p < n
      BY <1>1
    <2>2. p * Pool \in Nat /\ p * Pool + Pool <= n * Pool /\ n * Pool \in Nat /\ n * Pool <= len
      BY <1>1, <1>3, <1>4, <2>1
    <2> QED BY <1>1, <2>2
  <1>6. \A t \in n * Pool .. len - 1 : t \in 0 .. len - 1
    BY <1>1, <1>3
  <1>7. ASSUME NEW t \in 0 .. len - 1, t < n * Pool
        PROVE  \E p \in 0 .. n - 1 : \E k \in 0 .. Pool - 1 : t = p * Pool + k
    <2> DEFINE p == t \div Pool
               k == t % Pool
    <2>1. t = Pool * p + k /\ k \in 0 .. Pool - 1 /\ t \in Nat
      BY <1>1
    <2>2. p \in Nat
      BY <1>1, <2>1, Division
    <2> HIDE DEF p, k
    <2>3. p * Pool <= t /\ p * Pool \in Nat /\ t = p * Pool + k
      BY <1>1, <1>3, <2>1, <2>2
    <2>4. p < n
      <3>1. \A x, y \in Nat : x <= y => x * Pool <= y * Pool
        BY <1>1
      <3>2. n * Pool \in Nat
        BY <1>1, <1>3
      <3> QED BY <1>1, <1>7, <2>1, <2>2, <2>3, <3>1, <3>2
    <2> QED BY <1>1, <2>1, <2>2, <2>3, <2>4
  <1>8. \A t \in 0 .. len - 1 : t < n * Pool \/ t \in n * Pool .. len - 1
    BY <1>1, <1>3
  <1>9. \A S : \A t : t \in Expand(S, len) <=>
                 \/ \E p \in S : \E k \in 0 .. Pool - 1 : t = p * Pool + k
                 \/ t \in n * Pool .. len - 1
    BY <1>2 DEF Expand
  <1>10. Expand(WholePools(len), len) = 0 .. len - 1
    <2>1. ASSUME NEW t, t \in Expand(WholePools(len), len) PROVE t \in 0 .. len - 1
      <3>1. \/ \E p \in 0 .. n - 1 : \E k \in 0 .. Pool - 1 : t = p * Pool + k
            \/ t \in n * Pool .. len - 1
        BY <1>2, <1>9, <2>1
      <3>2. CASE t \in n * Pool .. len - 1
        BY <1>6, <3>2
      <3>3. CASE \E p \in 0 .. n - 1 : \E k \in 0 .. Pool - 1 : t = p * Pool + k
        BY <1>5, <3>3
      <3> QED BY <3>1, <3>2, <3>3
    <2>2. \A t : t \in 0 .. len - 1 => t \in Expand(WholePools(len), len)
      BY <1>2, <1>7, <1>8, <1>9
    <2> QED BY <2>1, <2>2
  <1>11. ASSUME NEW S, S \subseteq WholePools(len) PROVE Expand(S, len) \subseteq Nat
    <2>1. \A t : t \in Expand(S, len) => t \in 0 .. len - 1
      BY <1>2, <1>5, <1>6, <1>9, <1>11
    <2> QED BY <2>1
  <1> QED BY <1>10, <1>11

\* Where there are no more pools than a query selects, it selects all of them.
LEMMA FewPools ==
    ASSUME NEW S, Scored(S), Cardinality(S) <= Chosen
    PROVE  Top(S) = S
  <1> SUFFICES ASSUME NEW p \in S PROVE Cardinality(Better(S, p)) < Chosen
    BY DEF Top
  <1>1. IsFiniteSet(S) /\ score[p] \in Nat
    BY DEF Scored
  <1>2. Better(S, p) \subseteq S \ {p}
    BY <1>1 DEF Better
  <1>3. Cardinality(S \ {p}) = Cardinality(S) - 1 /\ IsFiniteSet(S \ {p})
    BY <1>1, FS_RemoveElement
  <1>4. Cardinality(Better(S, p)) <= Cardinality(S \ {p}) /\ Cardinality(Better(S, p)) \in Nat
    BY <1>2, <1>3, FS_Subset, FS_CardinalityType
  <1>5. Cardinality(S) \in Nat /\ Chosen \in Nat
    BY <1>1, FS_CardinalityType, SparseConstants
  <1> QED BY <1>3, <1>4, <1>5

\* Every query gets the tokens of the best pools of its own past, and the open ones.
LEMMA Selection ==
    ASSUME seqs \in Batches, score \in Scores, NEW r \in DOMAIN seqs, NEW pos \in QueriesOf(seqs[r])
    PROVE  Selected(r, pos) = Expand(Top(WholePools(pos + 1)), pos + 1)
  <1> DEFINE len == pos + 1
             P == WholePools(len)
  <1>1. len \in Nat /\ len <= seqs[r].len /\ len <= ModelLen /\ seqs[r].len \in Nat /\ pos \in Nat
    BY QueryFacts, SparseConstants
  <1>2. Scored(P)
    BY <1>1, PoolsAreScored
  <1>3. CASE ~ seqs[r].decode /\ ShortPrefill
    <2>1. Selected(r, pos) = 0 .. pos
      BY <1>3 DEF Selected
    <2>2. seqs[r].len <= Chosen * Pool
      BY <1>3 DEF ShortPrefill
    <2> DEFINE n == len \div Pool
    <2>3. n \in Nat /\ Pool * n <= len
      BY <1>1, SparseConstants, Division
    <2>4. Cardinality(P) = n /\ P = 0 .. n - 1
      <3>1. P = 0 .. n - 1
        BY DEF WholePools
      <3> HIDE DEF n
      <3>2. \A i, j \in Int : Cardinality(i .. j) = IF i > j THEN 0 ELSE j - i + 1
        BY FS_Interval
      <3>3. 0 \in Int /\ n - 1 \in Int
        BY <2>3
      <3>4. Cardinality(0 .. n - 1) = IF 0 > n - 1 THEN 0 ELSE n - 1 - 0 + 1
        BY <3>2, <3>3
      <3> QED BY <2>3, <3>1, <3>4
    <2> HIDE DEF n, P, len
    <2>5. n <= Chosen
      <3>1. \A x, y \in Nat : x < y => Pool * x + Pool <= Pool * y
        BY SparseConstants
      <3>2. Chosen * Pool = Pool * Chosen /\ Pool * Chosen \in Nat /\ Pool * n \in Nat
        BY <2>3, SparseConstants
      <3> QED BY <1>1, <2>2, <2>3, <3>1, <3>2, SparseConstants
    <2>6. Top(P) = P
      BY <1>2, <2>4, <2>5, FewPools
    <2>7. Expand(P, len) = 0 .. len - 1
      BY <1>1, AllTokens DEF P
    <2>8. 0 .. len - 1 = 0 .. pos
      BY <1>1 DEF len
    <2>9. Selected(r, pos) = Expand(Top(P), len)
      BY <2>1, <2>6, <2>7, <2>8
    <2> QED BY <2>9 DEF P, len
  <1>4. CASE seqs[r].decode \/ ~ ShortPrefill
    <2> DEFINE start == [k \in Shards |-> IF seqs[r].decode THEN 0 ELSE Start(k, ChunkOf(r), r)]
               M == UNION {Best(Offered(k, start[k], len)) : k \in Shards}
               L == UNION {LocalBest(k, r, pos) : k \in Shards}
    <2>1. ASSUME NEW k \in Shards
          PROVE  start[k] \in Nat /\ LocalBest(k, r, pos) = Best(Offered(k, start[k], len))
      <3>1. CASE seqs[r].decode
        BY <3>1, DecodeOffers
      <3>2. CASE ~ seqs[r].decode
        BY <3>2, PrefillOffers
      <3> QED BY <3>1, <3>2
    <2>2. start \in [Shards -> Nat]
      BY <2>1
    <2>3. L = M
      <3> HIDE DEF start
      <3> QED BY <2>1
    <2> HIDE DEF start, P, len
    <2>4. Merge(M) = Top(P)
      <3>1. Scored(WholePools(len))
        BY <1>2 DEF P
      <3>2. Merge(UNION {Best(Offered(k, start[k], len)) : k \in Shards}) = Top(WholePools(len))
        BY <1>1, <2>2, <3>1, MergedIsTop
      <3> QED BY <3>2 DEF P
    <2>5. Selected(r, pos) = Expand(Merge(L), pos + 1)
      BY <1>4 DEF Selected
    <2> HIDE DEF M, L
    <2>6. Selected(r, pos) = Expand(Top(P), pos + 1)
      BY <2>3, <2>4, <2>5
    <2> QED BY <2>6 DEF P, len
  <1> QED BY <1>3, <1>4

\* The ranks' partial results are of disjoint tokens and of all of them.
LEMMA Combined ==
    ASSUME NEW r \in DOMAIN seqs, NEW tokens \in SUBSET Nat
    PROVE  Combine(r, tokens) = {[req |-> r, pos |-> t] : t \in tokens}
  <1>1. \A t \in tokens : Owner(t) \in Shards
    <2> SUFFICES ASSUME NEW t \in tokens PROVE Owner(t) \in Shards
      OBVIOUS
    <2>1. t \div TokenStripe = t
      BY SparseConstants
    <2> QED BY <2>1, SparseConstants DEF Owner, Shards
  <1>2. \A k \in Shards : /\ Partial(k, r, tokens).finite <=> Mine(k, tokens) # {}
                          /\ Mine(k, tokens) # {} =>
                               Partial(k, r, tokens).out = {[req |-> r, pos |-> t] : t \in Mine(k, tokens)}
    BY DEF Partial, Kernel
  <1>3. Combine(r, tokens) =
            UNION {Partial(k, r, tokens).out : k \in {k \in Shards : Partial(k, r, tokens).finite}}
    BY DEF Combine, Reduced
  <1>4. \A x : x \in Combine(r, tokens) <=>
                  \E k \in Shards : Mine(k, tokens) # {} /\ \E t \in Mine(k, tokens) : x = [req |-> r, pos |-> t]
    BY <1>2, <1>3
  <1>5. \A t : t \in tokens <=> \E k \in Shards : t \in Mine(k, tokens)
    BY <1>1 DEF Mine
  <1> QED BY <1>4, <1>5

\* What one rank with all the pools attends to, and what a head of the drafter does.
OneRank(sc, r, pos) ==
    {[req |-> r, pos |-> t] : t \in Expand(
        {p \in WholePools(pos + 1) :
            Cardinality({q \in WholePools(pos + 1) : sc[q] > sc[p]}) < Chosen}, pos + 1)}
OneHead(len, rank, pos) ==
    {[head |-> rank, pos |-> t] : t \in {t \in 0 .. len - 1 : pos - t < SlidingWindow}}

\* The property as a predicate of the results it is about.
AsOne(att, dr, sc, sq) ==
    /\ \A r \in DOMAIN att : \A pos \in DOMAIN att[r] : att[r][pos] = OneRank(sc, r, pos)
    /\ \A r \in DOMAIN dr : \A rank \in Shards : \A pos \in QueriesOf(sq[r]) :
           dr[r][rank][pos] = OneHead(sq[r].len, rank, pos)

\* It is the same, before a step and after it.
LEMMA AttendsAsOne ==
    /\ ShardsAttendAsOne <=> AsOne(attended, drafted, score, seqs)
    /\ ShardsAttendAsOne' <=> AsOne(attended', drafted', score', seqs')
  <1>1. ShardsAttendAsOne <=> AsOne(attended, drafted, score, seqs)
    BY Zenon DEF ShardsAttendAsOne, AsOne, OneRank, OneHead
  <1>2. ShardsAttendAsOne' <=> AsOne(attended', drafted', score', seqs')
    BY Zenon DEF ShardsAttendAsOne, AsOne, OneRank, OneHead
  <1> QED BY <1>1, <1>2

\* What the step leaves is what one rank would compute.
LEMMA StepAttends ==
    ASSUME seqs \in Batches, score \in Scores, AttentionStep
    PROVE  ShardsAttendAsOne'
  <1>1. seqs' = seqs /\ score' = score
    BY DEF AttentionStep
  <1>2. ASSUME NEW r \in DOMAIN seqs, NEW pos \in QueriesOf(seqs[r])
        PROVE  attended'[r][pos] = {[req |-> r, pos |-> t] : t \in Expand(Top(WholePools(pos + 1)), pos + 1)}
    <2> DEFINE tokens == Expand(Top(WholePools(pos + 1)), pos + 1)
    <2>1. topk'[r][pos] = Selected(r, pos)
      BY DEF AttentionStep
    <2>2. attended'[r][pos] = Combine(r, topk'[r][pos])
      BY DEF AttentionStep
    <2>3. Selected(r, pos) = tokens
      BY Selection
    <2>4. tokens \in SUBSET Nat
      <3>1. Top(WholePools(pos + 1)) \subseteq WholePools(pos + 1) /\ pos + 1 \in Nat
        BY QueryFacts DEF Top
      <3> QED BY <3>1, AllTokens
    <2> HIDE DEF tokens
    <2>5. attended'[r][pos] = Combine(r, tokens)
      BY <2>1, <2>2, <2>3
    <2>6. attended'[r][pos] = {[req |-> r, pos |-> t] : t \in tokens}
      BY <2>4, <2>5, Combined
    <2> QED BY <2>6 DEF tokens
  <1>3. ASSUME NEW r, NEW pos
        PROVE  OneRank(score, r, pos)
                 = {[req |-> r, pos |-> t] : t \in Expand(Top(WholePools(pos + 1)), pos + 1)}
    BY DEF OneRank, Top, Better
  <1>4. DOMAIN attended' = DOMAIN seqs /\ \A r \in DOMAIN seqs : DOMAIN (attended'[r]) = QueriesOf(seqs[r])
    BY DEF AttentionStep
  <1>5. DOMAIN drafted' = Decodes /\ Decodes \subseteq DOMAIN seqs
    BY DEF AttentionStep, Decodes
  <1>6. ASSUME NEW r \in Decodes, NEW rank \in Shards, NEW pos \in QueriesOf(seqs[r])
        PROVE  drafted'[r][rank][pos] = OneHead(seqs[r].len, rank, pos)
    <2>1. drafted'[r][rank][pos] = DraftAttend(rank, r, pos)
      BY DEF AttentionStep
    <2>2. DraftAttend(rank, r, pos) = DraftShard(rank, r, pos)
      BY DEF DraftAttend, LayerShare
    <2>3. BuilderShare("drafter") = 1
      BY DEF BuilderShare
    <2>4. DraftShard(rank, r, pos) = OneHead(seqs[r].len, rank, pos)
      BY <2>3 DEF DraftShard, OneHead
    <2> QED BY <2>1, <2>2, <2>4
  <1>7. \A r \in DOMAIN attended' : \A pos \in DOMAIN attended'[r] :
            attended'[r][pos] = OneRank(score, r, pos)
    <2> SUFFICES ASSUME NEW r \in DOMAIN seqs, NEW pos \in QueriesOf(seqs[r])
                 PROVE  attended'[r][pos] = OneRank(score, r, pos)
      BY <1>4
    <2> QED BY <1>2, <1>3
  <1>8. \A r \in DOMAIN drafted' : \A rank \in Shards : \A pos \in QueriesOf(seqs[r]) :
            drafted'[r][rank][pos] = OneHead(seqs[r].len, rank, pos)
    BY <1>5, <1>6
  <1>9. AsOne(attended', drafted', score', seqs')
    BY <1>1, <1>7, <1>8 DEF AsOne
  <1> QED BY <1>9, AttendsAsOne

SpSpec == SpInit /\ [][AttentionStep]_spVars

\* Batch and scores are what they were, so that the step finds them typed.
SpInv == seqs \in Batches /\ score \in Scores /\ ShardsAttendAsOne

\* Nothing is attended to yet.
LEMMA SpStart == SpInit => SpInv
  <1> SUFFICES ASSUME SpInit PROVE SpInv
    OBVIOUS
  <1>1. DOMAIN attended = {} /\ DOMAIN drafted = {}
    BY DEF SpInit
  <1>2. ShardsAttendAsOne
    BY <1>1, Zenon DEF ShardsAttendAsOne
  <1> QED BY <1>2 DEF SpInit, SpInv

\* The step, and one that leaves attention alone, keep it.
LEMMA SpStep == SpInv /\ [AttentionStep]_spVars => SpInv'
  <1> SUFFICES ASSUME SpInv, [AttentionStep]_spVars PROVE SpInv'
    OBVIOUS
  <1>1. CASE AttentionStep
    <2>1. seqs' = seqs /\ score' = score
      BY <1>1 DEF AttentionStep
    <2>2. ShardsAttendAsOne'
      BY <1>1, StepAttends DEF SpInv
    <2> QED BY <2>1, <2>2 DEF SpInv, Batches
  <1>2. CASE UNCHANGED spVars
    <2>1. seqs' = seqs /\ score' = score /\ attended' = attended /\ drafted' = drafted
      BY <1>2 DEF spVars
    <2>2. ShardsAttendAsOne'
      BY <2>1, AttendsAsOne DEF SpInv
    <2> QED BY <2>1, <2>2 DEF SpInv, Batches
  <1> QED BY <1>1, <1>2

\* No shard gathers more keys for a chunk than the workspace holds.
LEMMA ChunksFit ==
    ASSUME seqs \in Batches, NEW rank \in Shards, NEW r \in DOMAIN seqs
    PROVE  KeysOf(rank, ChunkOf(r)) <= Workspace
  <1> DEFINE count(i) == LocalCount(rank, seqs[i].len)
             whole(i) == seqs[i].len \div Pool
  <1>1. \A i \in DOMAIN seqs : /\ count(i) \in Nat /\ whole(i) \in Nat
                               /\ count(i) <= whole(i) /\ whole(i) <= Workspace
    <2> SUFFICES ASSUME NEW i \in DOMAIN seqs
                 PROVE  /\ count(i) \in Nat /\ whole(i) \in Nat
                        /\ count(i) <= whole(i) /\ whole(i) <= Workspace
      OBVIOUS
    <2>1. seqs[i].len \in Nat /\ seqs[i].len <= ModelLen
      BY BatchFacts, SparseConstants
    <2>2. count(i) \in Nat /\ count(i) <= whole(i)
      BY <2>1, LocalPools
    <2>3. whole(i) \in Nat /\ whole(i) <= CeilDiv(seqs[i].len, Pool)
      BY <2>1, SparseConstants, Division, CeilingAbove
    <2>4. CeilDiv(seqs[i].len, Pool) <= Workspace /\ CeilDiv(seqs[i].len, Pool) \in Nat /\ Workspace \in Nat
      BY <2>1, SparseConstants, CeilingAbove DEF Workspace
    <2> HIDE DEF whole
    <2> QED BY <2>2, <2>3, <2>4
  <1> HIDE DEF count, whole
  <1>2. Workspace \in Nat
    BY SparseConstants, CeilingAbove DEF Workspace
  <1>3. CASE ChunkOf(r) = {r}
    <2>1. KeysOf(rank, {} \cup {r}) = LocalCount(rank, seqs[r].len) + KeysOf(rank, {})
      <3>1. {} \in SUBSET DOMAIN seqs /\ r \in DOMAIN seqs \ {}
        OBVIOUS
      <3> QED BY <3>1, KeysAddUp
    <2>2. {} \cup {r} = {r}
      OBVIOUS
    <2>3. KeysOf(rank, {r}) = count(r)
      BY <1>1, <2>1, <2>2, KeysAddUp DEF count
    <2> QED BY <1>1, <1>2, <1>3, <2>3
  <1>4. CASE ChunkOf(r) # {r}
    <2> DEFINE f == [i \in Prefills |-> LocalCount(rank, seqs[i].len)]
               g == [i \in Prefills |-> seqs[i].len \div Pool]
    <2>1. ChunkOf(r) = Prefills /\ ~ FoldFunction(+, 0, g) > Workspace
      BY <1>4, Zenon DEF ChunkOf
    <2>2. Prefills \subseteq DOMAIN seqs /\ IsFiniteSet(Prefills)
      <3>1. Prefills \subseteq DOMAIN seqs
        BY DEF Prefills
      <3> QED BY <3>1, BatchFacts, FS_Subset
    <2>3. KeysOf(rank, ChunkOf(r)) = Total(f) /\ ~ Total(g) > Workspace
      BY <2>1, Zenon DEF KeysOf, Total
    <2>4. f \in [Prefills -> Nat] /\ g \in [Prefills -> Nat] /\ \A i \in Prefills : f[i] <= g[i]
      BY <1>1, <2>2 DEF count, whole
    <2> HIDE DEF f, g
    <2>5. Total(f) <= Total(g) /\ Total(f) \in Nat /\ Total(g) \in Nat
      <3>1. f \in [Prefills -> Int] /\ g \in [Prefills -> Int]
        BY <2>4
      <3>2. Total(f) <= Total(g)
        BY <2>2, <2>4, <3>1, TotalGrows
      <3> QED BY <2>2, <2>4, <3>2, TotalNatural
    <2> QED BY <1>2, <2>3, <2>5
  <1> QED BY <1>3, <1>4

\* Every column a query reads is in the block table, with a block behind it.
LEMMA ColumnsFit ==
    ASSUME seqs \in Batches, NEW r \in DOMAIN seqs, NEW pos \in QueriesOf(seqs[r]), NEW g \in Groups,
           NEW column \in ColumnsRead(g, pos)
    PROVE  column < Columns(g) /\ column < BlocksOf(g, seqs[r].len)
  <1> DEFINE len == seqs[r].len
  <1>1. pos \in Nat /\ len \in Nat /\ pos < len /\ len <= ModelLen /\ ModelLen \in Nat
    BY QueryFacts, SparseConstants
  <1>2. Block \in Nat \ {0} /\ Ranks \in Nat \ {0} /\ DraftSteps \in Nat
    BY SparseConstants
  <1> HIDE DEF len
  <1>3. ASSUME NEW d \in Nat \ {0}
        PROVE  /\ pos \div d \in Nat /\ CeilDiv(ModelLen, d) \in Nat /\ CeilDiv(len, d) \in Nat
               /\ pos \div d < CeilDiv(ModelLen, d) /\ pos \div d < CeilDiv(len, d)
    <2>1. pos < ModelLen
      BY <1>1
    <2> QED BY <1>1, <2>1, Division, CeilingAbove
  <1>4. Block * 1 = Block /\ Block * Ranks \in Nat \ {0}
    BY <1>2, PositiveProduct
  <1>5. CASE g = "target"
    <2>1. column = pos \div (Block * Ranks)
      BY <1>5 DEF ColumnsRead, BuilderShare
    <2>2. Columns(g) = CeilDiv(ModelLen, Block * Ranks) + 0 /\ BlocksOf(g, len) = CeilDiv(len, Block * Ranks) + 0
      BY <1>5 DEF Columns, BlocksOf, TableShare, ManagerShare, Extra
    <2> DEFINE d == Block * Ranks
    <2>3. d \in Nat \ {0} /\ column = pos \div d /\ Columns(g) = CeilDiv(ModelLen, d) + 0
          /\ BlocksOf(g, len) = CeilDiv(len, d) + 0
      BY <1>4, <2>1, <2>2
    <2> HIDE DEF d
    <2>4. column < Columns(g) /\ column < BlocksOf(g, len)
      BY <1>3, <2>3
    <2> QED BY <2>4 DEF len
  <1>6. CASE g = "recurrent"
    <2>1. column \in pos \div Block .. pos \div Block + DraftSteps
      BY <1>6 DEF ColumnsRead
    <2>2. Columns(g) = CeilDiv(ModelLen, Block) + DraftSteps /\ BlocksOf(g, len) = CeilDiv(len, Block) + DraftSteps
      BY <1>4, <1>6 DEF Columns, BlocksOf, TableShare, ManagerShare, Extra
    <2>3. column < Columns(g) /\ column < BlocksOf(g, len)
      <3>1. /\ pos \div Block \in Nat /\ CeilDiv(ModelLen, Block) \in Nat /\ CeilDiv(len, Block) \in Nat
            /\ pos \div Block < CeilDiv(ModelLen, Block) /\ pos \div Block < CeilDiv(len, Block)
        BY <1>2, <1>3
      <3> QED BY <1>2, <2>1, <2>2, <3>1
    <2> QED BY <2>3 DEF len
  <1>7. CASE g = "drafter"
    <2>1. column = pos \div Block
      BY <1>4, <1>7 DEF ColumnsRead, BuilderShare
    <2>2. Columns(g) = CeilDiv(ModelLen, Block) + 0 /\ BlocksOf(g, len) = CeilDiv(len, Block) + 0
      BY <1>4, <1>7 DEF Columns, BlocksOf, TableShare, ManagerShare, Extra
    <2>3. column < Columns(g) /\ column < BlocksOf(g, len)
      BY <1>2, <1>3, <2>1, <2>2
    <2> QED BY <2>3 DEF len
  <1> QED BY <1>5, <1>6, <1>7 DEF Groups

\* The padded rows of a step's decodes are within what profiling reserved.
LEMMA RowsFit ==
    ASSUME seqs \in Batches, NEW r \in DOMAIN seqs, seqs[r].decode
    PROVE  Cardinality(Decodes) * NextN <= ReservedRows
  <1>1. r \in Decodes
    BY DEF Decodes
  <1>2. NextN \in Nat /\ NextN <= DecodeRows /\ DecodeRows \in Nat /\ MaxSeqs \in Nat
    BY <1>1, WidthFacts, SparseConstants
  <1> DEFINE c == Cardinality(Decodes)
  <1>3. c \in Nat /\ c <= MaxSeqs
    <2>1. PICK n \in 1 .. MaxSeqs : DOMAIN seqs = 1 .. n
      BY BatchFacts
    <2>2. Decodes \subseteq 1 .. n /\ n \in Nat /\ n <= MaxSeqs
      BY <1>2, <2>1 DEF Decodes
    <2>3. IsFiniteSet(1 .. n) /\ Cardinality(1 .. n) = n
      BY <2>2, InitialSegment
    <2>4. Cardinality(Decodes) <= n /\ Cardinality(Decodes) \in Nat
      BY <2>2, <2>3, FS_Subset, FS_CardinalityType
    <2> QED BY <2>2, <2>4, <1>2
  <1> DEFINE reserved == MaxSeqs * DecodeRows
  <1>4. ReservedRows = reserved
    <2>1. reserved \in Nat /\ MaxBatched \in Nat /\ reserved <= MaxBatched
      BY <1>2, ProductOfNaturals, SparseConstants
    <2>2. ReservedRows = CHOOSE x \in {reserved, MaxBatched} : \A y \in {reserved, MaxBatched} : x <= y
      BY Zenon DEF ReservedRows, Min
    <2> HIDE DEF reserved
    <2>3. reserved \in {reserved, MaxBatched} /\ \A y \in {reserved, MaxBatched} : reserved <= y
      BY <2>1
    <2>4. /\ ReservedRows \in {reserved, MaxBatched}
          /\ \A y \in {reserved, MaxBatched} : ReservedRows <= y
      BY <2>2, <2>3, Zenon
    <2> QED BY <2>1, <2>4
  <1> HIDE DEF c
  <1>5. \A a, b, x, y \in Nat : a <= b /\ x <= y => a * x <= b * y
    <2> SUFFICES ASSUME NEW a \in Nat, NEW b \in Nat, NEW x \in Nat, NEW y \in Nat, a <= b, x <= y
                 PROVE  a * x <= b * y
      OBVIOUS
    <2>1. PICK k \in Nat : b = a + k
      <3>1. b - a \in Nat /\ b = a + (b - a)
        OBVIOUS
      <3> QED BY <3>1
    <2>2. PICK m \in Nat : y = x + m
      <3>1. y - x \in Nat /\ y = x + (y - x)
        OBVIOUS
      <3> QED BY <3>1
    <2>3. b * y = a * x + (a * m + k * y)
      BY <2>1, <2>2
    <2>4. a * m \in Nat /\ k * y \in Nat /\ a * x \in Nat
      BY ProductOfNaturals
    <2> QED BY <2>3, <2>4
  <1>6. c * NextN <= MaxSeqs * DecodeRows
    BY <1>2, <1>3, <1>5
  <1> QED BY <1>4, <1>6 DEF c

\* What the attention of a step needs is there.
LEMMA StepFits ==
    ASSUME seqs \in Batches
    PROVE  StepsFitTheirBuffers
  <1>1. \A r \in DOMAIN seqs : \A pos \in QueriesOf(seqs[r]) : \A g \in Groups :
            \A column \in ColumnsRead(g, pos) : column < Columns(g) /\ column < BlocksOf(g, seqs[r].len)
    BY ColumnsFit
  <1>2. \A r \in DOMAIN seqs : \A rank \in Shards : KeysOf(rank, ChunkOf(r)) <= Workspace
    BY ChunksFit
  <1>3. \A r \in DOMAIN seqs : seqs[r].decode => Cardinality(Decodes) * NextN <= ReservedRows
    BY RowsFit
  <1> QED BY <1>1, <1>2, <1>3 DEF StepsFitTheirBuffers

\* What the shards attend to together is what one rank with the whole sequence
\* attends to, whatever the batch and the scores
\* (docker/sparse_attn_indexer_kpool_sm121.py, the ranks' top k and its merge).
THEOREM ShardsAttend == SpSpec => []ShardsAttendAsOne
  <1>1. SpInit => SpInv
    BY SpStart
  <1>2. SpInv /\ [AttentionStep]_spVars => SpInv'
    BY SpStep
  <1>3. SpInv => ShardsAttendAsOne
    BY DEF SpInv
  <1> QED BY <1>1, <1>2, <1>3, PTL DEF SpSpec

\* A step finds room in block tables, workspace and reserved rows
\* (overlay-dflash2/patch_vllm_heterogeneous_dcp.py, the block table's shares).
THEOREM StepsFit == SpSpec => []StepsFitTheirBuffers
  <1>1. SpInit => SpInv
    BY SpStart
  <1>2. SpInv /\ [AttentionStep]_spVars => SpInv'
    BY SpStep
  <1>3. SpInv => StepsFitTheirBuffers
    BY StepFits DEF SpInv
  <1> QED BY <1>1, <1>2, <1>3, PTL DEF SpSpec

-----------------------------------------------------------------------------
(* The sparse indexer.  A step lays its tokens flat, request after request *)
(* (StartsAre, LayoutOf), and the decode kernel walks them as a grid       *)
(* (GroupedCells), so a row's cell is its own (TailsAreOwn).  Whatever     *)
(* kernel takes a batch, a place of a ring is then the last of the         *)
(* request's own tokens with that place (RingAtPosition), and a pool is    *)
(* the one its own last token ended (PoolsStored).  What the requests      *)
(* carry from step to step is in KpInv: a ring with the tokens since the   *)
(* last whole pool, none in a prompt, and the whole pools of everything    *)
(* reached.  It is kept as long as no step rejects two drafts: the second  *)
(* takes the place of a token of the pool in progress.                     *)

KpSpec == KpInit /\ [][KpNext]_kpVars

\* The constants are positive.
LEMMA KpConstants ==
    /\ PoolSize \in Nat \ {0} /\ StorageBlock \in Nat \ {0} /\ DcpSize \in Nat \ {0}
    /\ Requests \in Nat \ {0} /\ MaxVerify \in Nat \ {0} /\ MaxLen \in Nat \ {0}
  BY KpoolAssumption

\* A batch: some requests, and how many tokens each has in it.
Counts(S, lens) ==
    /\ S \in SUBSET Reqs /\ lens = [r \in S |-> lens[r]] /\ \A r \in S : lens[r] \in Nat \ {0}

\* How many requests of a batch are before one.
Before(S, r) == Cardinality(Smaller(S, r))

\* A batch is a finite set of numbers.
LEMMA BatchFinite ==
    ASSUME NEW S, NEW lens, Counts(S, lens)
    PROVE  /\ DOMAIN lens = S /\ S \in SUBSET Nat /\ S \in SUBSET Int /\ IsFiniteSet(S)
           /\ \A T \in SUBSET S : IsFiniteSet(T)
  <1>1. DOMAIN lens = S /\ S \in SUBSET (1 .. Requests)
    BY DEF Counts, Reqs
  <1>2. IsFiniteSet(S) /\ S \in SUBSET Nat
    BY <1>1, KpConstants, InitialSegmentSubset
  <1>3. \A T \in SUBSET S : IsFiniteSet(T)
    BY <1>2, FS_Subset
  <1> QED BY <1>1, <1>2, <1>3

\* Each request's tokens start where those of the requests before it end.
LEMMA StartsAre ==
    ASSUME NEW S, NEW lens, Counts(S, lens)
    PROVE  /\ StepTokens(lens) \in Nat
           /\ \A r \in S : Starts(lens, r) \in Nat /\ Starts(lens, r) + lens[r] <= StepTokens(lens)
           /\ \A r, q \in S : r < q => Starts(lens, r) + lens[r] <= Starts(lens, q)
           /\ \A r, q \in S : r < q /\ (\A p \in S : p < q => p <= r)
                  => Starts(lens, q) = Starts(lens, r) + lens[r]
           /\ \A r \in S : (\A p \in S : p <= r) => StepTokens(lens) = Starts(lens, r) + lens[r]
           /\ \A r \in S : (\A p \in S : r <= p) => Starts(lens, r) = 0
           /\ S = {} => StepTokens(lens) = 0
  <1> DEFINE g == Sums(lens)
             low(r) == Smaller(S, r)
  <1>1. /\ DOMAIN lens = S /\ S \in SUBSET Nat /\ IsFiniteSet(S) /\ \A r \in S : lens[r] \in Nat
        /\ \A r \in S : lens[r] \in Int
    BY BatchFinite DEF Counts
  <1>2. AddsUp(g, lens) /\ \A T \in SUBSET S : g[T] \in Nat
    BY <1>1, SumsAddUp, SumsGrow
  <1>3. \A T, U \in SUBSET S : T \subseteq U => g[T] <= g[U]
    BY <1>1, SumsGrow
  <1>4. StepTokens(lens) = g[S]
    BY <1>1, TotalIsSums, Zenon DEF StepTokens, Total
  <1>5. \A r \in S : low(r) \in SUBSET S /\ r \notin low(r) /\ low(r) \cup {r} \in SUBSET S
    BY <1>1, SmallerGrows
  <1>6. ASSUME NEW r \in S PROVE Starts(lens, r) = g[low(r)]
    <2>1. Starts(lens, r) = Total([q \in low(r) |-> lens[q]])
      BY <1>1, Zenon DEF Starts, Total, Smaller
    <2> QED BY <1>1, <1>5, <2>1, TotalOfPart
  <1> HIDE DEF g, low
  <1>7. ASSUME NEW r \in S PROVE g[low(r) \cup {r}] = lens[r] + g[low(r)]
    <2>1. (low(r) \cup {r}) \ {r} = low(r)
      BY <1>5
    <2> QED BY <1>1, <1>2, <1>5, <2>1 DEF AddsUp
  <1>8. StepTokens(lens) \in Nat /\ \A r \in S : Starts(lens, r) \in Nat
    BY <1>2, <1>4, <1>5, <1>6
  <1>9. ASSUME NEW r \in S PROVE Starts(lens, r) + lens[r] <= StepTokens(lens)
    <2>1. g[low(r) \cup {r}] <= g[S]
      BY <1>3, <1>5
    <2>2. g[low(r)] \in Nat /\ lens[r] \in Nat
      BY <1>1, <1>2, <1>5
    <2> QED BY <1>4, <1>6, <1>7, <2>1, <2>2
  <1>10. ASSUME NEW r \in S, NEW q \in S, r < q PROVE Starts(lens, r) + lens[r] <= Starts(lens, q)
    <2>1. low(r) \cup {r} \subseteq low(q)
      BY <1>1, <1>10, SmallerInside DEF low
    <2>2. g[low(r) \cup {r}] <= g[low(q)]
      BY <1>3, <1>5, <2>1
    <2>3. g[low(r)] \in Nat /\ lens[r] \in Nat
      BY <1>1, <1>2, <1>5
    <2> QED BY <1>6, <1>7, <2>2, <2>3
  <1>11. ASSUME NEW r \in S, NEW q \in S, r < q, \A p \in S : p < q => p <= r
         PROVE  Starts(lens, q) = Starts(lens, r) + lens[r]
    <2>1. low(q) = low(r) \cup {r}
      BY <1>1, <1>11, SmallerGrows DEF low
    <2>3. g[low(r)] \in Nat /\ lens[r] \in Nat
      BY <1>1, <1>2, <1>5
    <2>4. Starts(lens, r) = g[low(r)] /\ Starts(lens, q) = lens[r] + g[low(r)]
      BY <1>6, <1>7, <2>1
    <2> QED BY <2>3, <2>4
  <1>12. ASSUME NEW r \in S, \A p \in S : p <= r PROVE StepTokens(lens) = Starts(lens, r) + lens[r]
    <2>1. S = low(r) \cup {r}
      BY <1>1, <1>12, SmallerGrows DEF low
    <2>2. g[low(r)] \in Nat /\ lens[r] \in Nat
      BY <1>1, <1>2, <1>5
    <2>3. g[S] = lens[r] + g[low(r)]
      BY <1>7, <2>1
    <2> QED BY <1>4, <1>6, <2>2, <2>3
  <1>13. ASSUME NEW r \in S, \A p \in S : r <= p PROVE Starts(lens, r) = 0
    <2>1. low(r) = {}
      BY <1>1, <1>13, SmallerGrows DEF low
    <2> QED BY <1>2, <1>6, <2>1 DEF AddsUp
  <1>14. S = {} => StepTokens(lens) = 0
    BY <1>2, <1>4 DEF AddsUp
  <1> QED BY <1>8, <1>9, <1>10, <1>11, <1>12, <1>13, <1>14

\* So every place of the layout belongs to one request and is a token of it.
LEMMA LayoutOf ==
    ASSUME NEW S, NEW lens, Counts(S, lens)
    PROVE  /\ \A i \in 1 .. StepTokens(lens) :
                  RequestOf(lens, i) \in S /\ i - Starts(lens, RequestOf(lens, i)) \in 1 .. lens[RequestOf(lens, i)]
           /\ \A r \in S : \A t \in 1 .. lens[r] :
                  Starts(lens, r) + t \in 1 .. StepTokens(lens) /\ RequestOf(lens, Starts(lens, r) + t) = r
  <1> DEFINE at(r) == Starts(lens, r)
             N == StepTokens(lens)
             in(i, r) == i - at(r) \in 1 .. lens[r]
  <1>1. /\ N \in Nat /\ \A r \in S : at(r) \in Nat /\ at(r) + lens[r] <= N
        /\ \A r, q \in S : r < q => at(r) + lens[r] <= at(q)
        /\ \A r, q \in S : r < q /\ (\A p \in S : p < q => p <= r) => at(q) = at(r) + lens[r]
        /\ \A r \in S : (\A p \in S : p <= r) => N = at(r) + lens[r]
        /\ \A r \in S : (\A p \in S : r <= p) => at(r) = 0
        /\ S = {} => N = 0
    BY StartsAre
  <1>2. DOMAIN lens = S /\ S \in SUBSET Nat /\ IsFiniteSet(S) /\ \A T \in SUBSET S : IsFiniteSet(T)
    BY BatchFinite
  <1>3. \A r \in S : lens[r] \in Nat \ {0}
    BY DEF Counts
  <1>4. \A i : RequestOf(lens, i) = CHOOSE r \in S : in(i, r)
    BY <1>2, Zenon DEF RequestOf
  <1> HIDE DEF at, N
  <1>5. ASSUME NEW i \in 1 .. N PROVE \E r \in S : in(i, r)
    <2> DEFINE C == {r \in S : at(r) < i}
    <2>1. C # {}
      <3>1. S # {}
        BY <1>1
      <3>2. PICK r \in S : \A p \in S : r <= p
        BY <1>2, <3>1, LeastElement
      <3>3. at(r) = 0
        BY <1>1, <3>2
      <3> QED BY <1>1, <3>3
    <2>2. PICK r \in C : \A q \in C : q <= r
      <3>1. C \in SUBSET Nat /\ IsFiniteSet(C)
        BY <1>2
      <3> HIDE DEF C
      <3> QED BY <2>1, <3>1, GreatestElement
    <2>3. i <= at(r) + lens[r]
      <3> SUFFICES ASSUME ~(i <= at(r) + lens[r]) PROVE FALSE
        OBVIOUS
      <3> DEFINE D == {q \in S : q > r}
      <3>1. r \in S /\ at(r) \in Nat /\ lens[r] \in Nat /\ r \in Nat
        BY <1>1, <1>2, <1>3, <2>2
      <3>2. D # {}
        <4>1. CASE D = {}
          <5>1. \A p \in S : p <= r
            BY <1>2, <3>1, <4>1
          <5> QED BY <1>1, <3>1, <5>1
        <4> QED BY <4>1
      <3>3. PICK q \in D : \A p \in D : q <= p
        <4>1. D \in SUBSET Nat
          BY <1>2
        <4> HIDE DEF D
        <4> QED BY <3>2, <4>1, LeastElement
      <3>4. \A p \in S : p < q => p <= r
        BY <1>2, <3>1, <3>3
      <3>5. at(q) = at(r) + lens[r]
        BY <1>1, <3>1, <3>3, <3>4
      <3>6. q \in C
        BY <1>1, <3>1, <3>3, <3>5
      <3> QED BY <1>2, <2>2, <3>1, <3>3, <3>6
    <2> QED BY <1>1, <1>3, <2>2, <2>3
  <1>6. ASSUME NEW i \in 1 .. N, NEW r \in S, NEW q \in S, in(i, r), in(i, q) PROVE r = q
    <2>1. ~(r < q)
      BY <1>1, <1>3, <1>6
    <2>2. ~(q < r)
      BY <1>1, <1>3, <1>6
    <2> QED BY <1>2, <2>1, <2>2
  <1>7. ASSUME NEW i \in 1 .. N PROVE RequestOf(lens, i) \in S /\ in(i, RequestOf(lens, i))
    <2> HIDE DEF in
    <2> QED BY <1>4, <1>5
  <1>8. ASSUME NEW r \in S, NEW t \in 1 .. lens[r]
        PROVE  at(r) + t \in 1 .. N /\ RequestOf(lens, at(r) + t) = r
    <2>1. at(r) + t \in 1 .. N /\ in(at(r) + t, r)
      BY <1>1, <1>3
    <2> QED BY <1>6, <1>7, <2>1
  <1> QED BY <1>7, <1>8 DEF at, N

Values(f) == {f[i] : i \in DOMAIN f}

\* Flat tokens lie request after request, each request's in their order.
FlatIs(flat, S, lens, kept) ==
    /\ \A r \in S : \A t \in 1 .. lens[r] :
           Starts(lens, r) + t \in DOMAIN flat /\ flat[Starts(lens, r) + t] = Token(r, t, kept)
    /\ \A i \in DOMAIN flat : \E r \in S : \E t \in 1 .. lens[r] : i = Starts(lens, r) + t

\* The flat layout is a sequence of every request's tokens in their order.
LEMMA FlatTokens ==
    ASSUME NEW S, NEW lens, NEW kept, Counts(S, lens)
    PROVE  /\ StepTokens(lens) \in Nat
           /\ DOMAIN TokensOf(lens, kept) = 1 .. StepTokens(lens) /\ Len(TokensOf(lens, kept)) = StepTokens(lens)
           /\ TokensOf(lens, kept) \in Seq(Values(TokensOf(lens, kept)))
           /\ FlatIs(TokensOf(lens, kept), S, lens, kept)
  <1> DEFINE N == StepTokens(lens)
             flat == TokensOf(lens, kept)
             value(i) == Token(RequestOf(lens, i), i - Starts(lens, RequestOf(lens, i)), kept)
             V == Values(flat)
  <1>1. N \in Nat /\ \A r \in S : Starts(lens, r) \in Nat /\ lens[r] \in Nat
    BY StartsAre DEF Counts
  <1>2. /\ \A i \in 1 .. N : RequestOf(lens, i) \in S
               /\ i - Starts(lens, RequestOf(lens, i)) \in 1 .. lens[RequestOf(lens, i)]
        /\ \A r \in S : \A t \in 1 .. lens[r] :
               Starts(lens, r) + t \in 1 .. N /\ RequestOf(lens, Starts(lens, r) + t) = r
    BY LayoutOf
  <1>3. flat = [i \in 1 .. N |-> value(i)]
    BY Zenon DEF TokensOf
  <1>4. DOMAIN flat = 1 .. N /\ \A i \in 1 .. N : flat[i] = value(i)
    <2> HIDE DEF flat, value, N
    <2> QED BY <1>3
  <1> HIDE DEF N, flat
  <1>5. flat \in Seq(V) /\ Len(flat) = N
    <2>1. flat = [i \in 1 .. N |-> flat[i]] 
      <3> HIDE DEF value
      <3> QED BY <1>3
    <2>2. \A i \in 1 .. N : flat[i] \in V
      BY <1>4 DEF Values
    <2> HIDE DEF V
    <2>3. flat \in [1 .. N -> V]
      BY <2>1, <2>2
    <2>4. flat \in Seq(V)
      BY <1>1, <2>3
    <2>5. Len(flat) = N
      BY <1>1, <1>4, <2>4
    <2> QED BY <2>4, <2>5
  <1>6. ASSUME NEW r \in S, NEW t \in 1 .. lens[r] PROVE flat[Starts(lens, r) + t] = Token(r, t, kept)
    <2> DEFINE i == Starts(lens, r) + t
    <2>1. i \in 1 .. N /\ RequestOf(lens, i) = r
      BY <1>2
    <2>2. i - Starts(lens, r) = t
      BY <1>1
    <2> HIDE DEF i
    <2>3. flat[i] = Token(r, t, kept)
      BY <1>4, <2>1, <2>2
    <2> QED BY <2>3 DEF i
  <1>7. ASSUME NEW i \in 1 .. N
        PROVE  \E r \in S : \E t \in 1 .. lens[r] : i = Starts(lens, r) + t
    <2> DEFINE r == RequestOf(lens, i)
               t == i - Starts(lens, r)
    <2>1. r \in S /\ t \in 1 .. lens[r]
      BY <1>2
    <2>2. i = Starts(lens, r) + t
      BY <1>1, <2>1
    <2> QED BY <2>1, <2>2
  <1>8. \A r \in S : \A t \in 1 .. lens[r] : Starts(lens, r) + t \in DOMAIN flat
    BY <1>2, <1>4
  <1>9. FlatIs(flat, S, lens, kept)
    BY <1>4, <1>6, <1>7, <1>8 DEF FlatIs
  <1> QED BY <1>1, <1>4, <1>5, <1>9 DEF N, flat, V

\* The rows of the grid are numbered from 0 in the order of the requests.
LEMMA RowNumbers ==
    ASSUME NEW S, NEW lens, Counts(S, lens)
    PROVE  /\ Cardinality(S) \in Nat
           /\ \A r \in S : Before(S, r) \in Nat /\ Before(S, r) + 1 <= Cardinality(S)
           /\ \A r, q \in S : r < q => Before(S, r) + 1 <= Before(S, q)
  <1>1. S \in SUBSET Nat /\ IsFiniteSet(S) /\ \A T \in SUBSET S : IsFiniteSet(T)
    BY BatchFinite
  <1>2. Cardinality(S) \in Nat
    BY <1>1, FS_CardinalityType
  <1>3. \A r \in S : Before(S, r) \in Nat /\ Before(S, r) < Cardinality(S)
    BY <1>1, SmallerSet DEF Before
  <1>4. ASSUME NEW r \in S, NEW q \in S, r < q PROVE Before(S, r) + 1 <= Before(S, q)
    <2> DEFINE T == Smaller(S, q)
    <2>1. T \in SUBSET S /\ Smaller(S, r) \cup {r} \subseteq T
      BY <1>1, <1>4, SmallerGrows, SmallerInside
    <2>2. T \in SUBSET Nat /\ IsFiniteSet(T) /\ r \in T
      BY <1>1, <2>1
    <2>3. \A x : x \in Smaller(T, r) <=> x \in T /\ x < r
      BY Zenon DEF Smaller
    <2>4. \A x : x \in Smaller(S, r) <=> x \in S /\ x < r
      BY Zenon DEF Smaller
    <2>5. Smaller(T, r) = Smaller(S, r)
      BY <2>1, <2>3, <2>4
    <2> HIDE DEF T
    <2>6. Cardinality(Smaller(T, r)) < Cardinality(T)
      BY <2>2, SmallerSet
    <2>7. Before(S, r) < Before(S, q)
      BY <2>5, <2>6 DEF Before, T
    <2> QED BY <1>3, <2>7
  <1> QED BY <1>2, <1>3, <1>4

\* The grid is as wide as the longest row.
LEMMA WidestRow ==
    ASSUME NEW S, NEW lens, Counts(S, lens), S # {}
    PROVE  Widest(lens) \in Nat \ {0} /\ \A r \in S : lens[r] <= Widest(lens)
  <1> DEFINE V == {lens[r] : r \in S}
  <1>1. DOMAIN lens = S /\ IsFiniteSet(S)
    BY BatchFinite
  <1>2. IsFiniteSet(V)
    <2>1. StepTokens(lens) \in Nat /\ \A r \in S : lens[r] \in 1 .. StepTokens(lens)
      BY StartsAre DEF Counts
    <2>2. V \in SUBSET (1 .. StepTokens(lens))
      BY <2>1
    <2> HIDE DEF V
    <2> QED BY <2>1, <2>2, InitialSegmentSubset
  <1>3. V \in SUBSET (Nat \ {0}) /\ V # {}
    BY DEF Counts
  <1>4. Widest(lens) = Max(V)
    BY <1>1, Zenon DEF Widest
  <1>5. Max(V) = CHOOSE x \in V : \A y \in V : x >= y
    BY Zenon DEF Max
  <1> HIDE DEF V
  <1>6. \E x \in V : \A y \in V : x >= y
    <2>1. PICK x \in V : \A y \in V : y <= x
      BY <1>2, <1>3, GreatestElement
    <2> QED BY <1>3, <2>1
  <1>7. Max(V) \in V /\ \A y \in V : Max(V) >= y
    BY <1>5, <1>6, Zenon
  <1>8. \A r \in S : lens[r] \in V
    BY DEF V
  <1> QED BY <1>3, <1>4, <1>7, <1>8

\* In a uniform batch the flat layout is the grid itself.
LEMMA UniformStarts ==
    ASSUME NEW S, NEW lens, Counts(S, lens), S # {}, Uniform(lens)
    PROVE  /\ \A r \in S : Starts(lens, r) = Before(S, r) * Widest(lens)
           /\ StepTokens(lens) = Cardinality(S) * Widest(lens)
  <1> DEFINE W == Widest(lens)
  <1>1. W \in Nat /\ DOMAIN lens = S /\ IsFiniteSet(S) /\ S \in SUBSET Nat
    BY WidestRow, BatchFinite
  <1>2. \A r \in S : lens[r] = W
    BY <1>1 DEF Uniform
  <1> HIDE DEF W
  <1>3. ASSUME NEW T \in SUBSET S, NEW f, DOMAIN f = T, \A r \in T : f[r] = W
        PROVE  Total(f) = Cardinality(T) * W
    <2> DEFINE g == [U \in SUBSET T |-> Cardinality(U) * W]
    <2>1. IsFiniteSet(T)
      BY <1>1, FS_Subset
    <2>2. g[{}] = 0
      <3>1. Cardinality({}) = 0
        BY FS_EmptySet
      <3> QED BY <1>1, <3>1
    <2>3. ASSUME NEW U \in SUBSET T, NEW x \in U PROVE g[U] = f[x] + g[U \ {x}]
      <3> DEFINE n == Cardinality(U)
      <3>1. IsFiniteSet(U)
        BY <2>1, FS_Subset
      <3>2. Cardinality(U \ {x}) = n - 1 /\ n \in Nat
        BY <3>1, FS_RemoveElement, FS_CardinalityType
      <3>3. g[U] = n * W /\ g[U \ {x}] = (n - 1) * W
        BY <3>2
      <3>4. f[x] = W
        BY <1>3
      <3> HIDE DEF n, g
      <3>5. n * W = W + (n - 1) * W
        BY <1>1, <3>2
      <3> QED BY <3>3, <3>4, <3>5
    <2>4. AddsUp(g, f)
      BY <1>3, <2>2, <2>3 DEF AddsUp
    <2>5. g[T] = Cardinality(T) * W
      OBVIOUS
    <2> HIDE DEF g
    <2> QED BY <1>3, <2>1, <2>4, <2>5, TotalIs
  <1>4. StepTokens(lens) = Total(lens)
    BY Zenon DEF StepTokens, Total
  <1>5. ASSUME NEW r \in S PROVE Starts(lens, r) = Before(S, r) * W
    <2> DEFINE T == Smaller(S, r)
               f == [q \in T |-> lens[q]]
    <2>1. Starts(lens, r) = Total(f)
      BY <1>1, Zenon DEF Starts, Total, Smaller
    <2>2. T \in SUBSET S
      BY <1>1, SmallerGrows
    <2>3. DOMAIN f = T /\ \A q \in T : f[q] = W
      BY <1>2, <2>2
    <2> HIDE DEF T, f
    <2>4. Total(f) = Cardinality(T) * W
      BY <1>3, <2>2, <2>3
    <2> QED BY <2>1, <2>4 DEF Before, T
  <1>6. Total(lens) = Cardinality(S) * W
    BY <1>1, <1>2, <1>3
  <1> QED BY <1>4, <1>5, <1>6 DEF W

\* Of two rows of a grid, the first ends before the second begins.
LEMMA RowsApart ==
    ASSUME NEW a \in Nat, NEW b \in Nat, a + 1 <= b, NEW w \in Nat
    PROVE  a * w + w <= b * w /\ a * w \in Nat /\ b * w \in Nat
  <1>1. b = (a + 1) + (b - (a + 1)) /\ b - (a + 1) \in Nat
    OBVIOUS
  <1> DEFINE d == b - (a + 1)
  <1>2. b * w = (a + 1) * w + d * w
    BY <1>1
  <1>3. (a + 1) * w = a * w + w /\ a * w \in Nat /\ d * w \in Nat
    BY <1>1, ProductOfNaturals
  <1> HIDE DEF d
  <1> QED BY <1>2, <1>3

\* The cells of the grid: every token of a request is in the request's row at its place,
\* and the rest is padding.
CellsAre(cells, S, lens, kept) ==
    /\ \E n \in Nat : DOMAIN cells = 1 .. n
    /\ \A r \in S : \A t \in 1 .. lens[r] :
           /\ Before(S, r) * Widest(lens) + t \in DOMAIN cells
           /\ cells[Before(S, r) * Widest(lens) + t] = Token(r, t, kept)
    /\ \A c \in DOMAIN cells : cells[c] # Pad =>
           \E r \in S : \E t \in 1 .. lens[r] : c = Before(S, r) * Widest(lens) + t

\* Every token has a cell of the grid, and no two have the same.
LEMMA GridOf ==
    ASSUME NEW S, NEW lens, NEW kept, Counts(S, lens), S # {}
    PROVE  /\ Cardinality(S) * Widest(lens) \in Nat
           /\ \A r \in S : \A t \in 1 .. lens[r] :
                  /\ Before(S, r) * Widest(lens) + t \in Cells(lens)
                  /\ CellOf(lens, Starts(lens, r) + t) = Before(S, r) * Widest(lens) + t
           /\ \A r, q \in S : \A t \in 1 .. lens[r] : \A u \in 1 .. lens[q] :
                  Before(S, r) * Widest(lens) + t = Before(S, q) * Widest(lens) + u => r = q /\ t = u
  <1> DEFINE W == Widest(lens)
             N == Cardinality(S)
             lead(r) == Before(S, r) * W
  <1>1. /\ W \in Nat /\ DOMAIN lens = S /\ S \in SUBSET Nat
        /\ \A r \in S : lens[r] \in Nat /\ lens[r] <= W
    BY WidestRow, BatchFinite DEF Counts
  <1>2. /\ N \in Nat /\ \A r \in S : Before(S, r) \in Nat /\ Before(S, r) + 1 <= N
        /\ \A r, q \in S : r < q => Before(S, r) + 1 <= Before(S, q)
    BY RowNumbers
  <1>3. Cells(lens) = 1 .. N * W
    BY <1>1, Zenon DEF Cells
  <1>4. ASSUME NEW r \in S, NEW t \in 1 .. lens[r]
        PROVE  CellOf(lens, Starts(lens, r) + t) = lead(r) + t
    <2> DEFINE i == Starts(lens, r) + t
    <2>1. RequestOf(lens, i) = r /\ Starts(lens, r) \in Nat
      BY LayoutOf, StartsAre
    <2>2. CellOf(lens, i) = lead(r) + i - Starts(lens, r)
      BY <1>1, <2>1, Zenon DEF CellOf, Before, Smaller
    <2>3. lead(r) \in Nat
      BY <1>1, <1>2, ProductOfNaturals
    <2> HIDE DEF lead
    <2> QED BY <1>1, <2>1, <2>2, <2>3
  <1> HIDE DEF W, N
  <1>5. N * W \in Nat /\ \A r \in S : lead(r) \in Nat /\ lead(r) + W <= N * W
    BY <1>1, <1>2, RowsApart, ProductOfNaturals
  <1>6. \A r, q \in S : r < q => lead(r) + W <= lead(q)
    BY <1>1, <1>2, RowsApart
  <1> HIDE DEF lead
  <1>7. ASSUME NEW r \in S, NEW t \in 1 .. lens[r] PROVE lead(r) + t \in Cells(lens)
    BY <1>1, <1>3, <1>5
  <1>8. ASSUME NEW r \in S, NEW q \in S, NEW t \in 1 .. lens[r], NEW u \in 1 .. lens[q], lead(r) + t = lead(q) + u
        PROVE  r = q /\ t = u
    <2>1. r \in Nat /\ q \in Nat /\ lead(r) \in Nat /\ lead(q) \in Nat /\ t <= W /\ u <= W /\ t >= 1 /\ u >= 1
      BY <1>1, <1>5
    <2>2. ~(r < q)
      BY <1>1, <1>6, <1>8, <2>1
    <2>3. ~(q < r)
      BY <1>1, <1>6, <1>8, <2>1
    <2> QED BY <1>8, <2>1, <2>2, <2>3
  <1> QED BY <1>4, <1>5, <1>7, <1>8 DEF W, N, lead

\* What scattering puts in a cell.
LEMMA ScatterTo ==
    ASSUME NEW S, NEW lens, NEW kept, Counts(S, lens), S # {}
    PROVE  /\ \A r \in S : \A t \in 1 .. lens[r] :
                  Scatter(TokensOf(lens, kept), lens)[Before(S, r) * Widest(lens) + t] = Token(r, t, kept)
           /\ \A c \in Cells(lens) : Scatter(TokensOf(lens, kept), lens)[c] # Pad =>
                  \E r \in S : \E t \in 1 .. lens[r] : c = Before(S, r) * Widest(lens) + t
           /\ DOMAIN Scatter(TokensOf(lens, kept), lens) = Cells(lens)
  <1> DEFINE flat == TokensOf(lens, kept)
             D == DOMAIN flat
             cell(r, t) == Before(S, r) * Widest(lens) + t
             from(c) == CHOOSE i \in D : CellOf(lens, i) = c
  <1>0. FlatIs(flat, S, lens, kept)
    BY FlatTokens
  <1>1. D = 1 .. StepTokens(lens)
    BY FlatTokens
  <1>2. \A r \in S : \A t \in 1 .. lens[r] :
            Starts(lens, r) + t \in D /\ flat[Starts(lens, r) + t] = Token(r, t, kept)
    BY <1>0, Zenon DEF FlatIs
  <1>3. \A i \in D : \E r \in S : \E t \in 1 .. lens[r] : i = Starts(lens, r) + t
    BY <1>0, Zenon DEF FlatIs
  <1>4. \A r \in S : \A t \in 1 .. lens[r] :
            cell(r, t) \in Cells(lens) /\ CellOf(lens, Starts(lens, r) + t) = cell(r, t)
    BY GridOf
  <1>5. \A r, q \in S : \A t \in 1 .. lens[r] : \A u \in 1 .. lens[q] : cell(r, t) = cell(q, u) => r = q /\ t = u
    BY GridOf
  <1>6. DOMAIN Scatter(flat, lens) = Cells(lens)
    BY Zenon DEF Scatter
  <1>7. \A c \in Cells(lens) : Scatter(flat, lens)[c] =
            IF \E i \in D : CellOf(lens, i) = c THEN flat[from(c)] ELSE Pad
    BY Zenon DEF Scatter
  <1> HIDE DEF D, cell, flat, from
  <1>8. ASSUME NEW r \in S, NEW t \in 1 .. lens[r]
        PROVE  Scatter(flat, lens)[cell(r, t)] = Token(r, t, kept)
    <2> DEFINE i == Starts(lens, r) + t
               j == from(cell(r, t))
    <2>1. i \in D /\ CellOf(lens, i) = cell(r, t)
      BY <1>2, <1>4
    <2>2. j \in D /\ CellOf(lens, j) = cell(r, t)
      <3> HIDE DEF i
      <3> QED BY <2>1 DEF from
    <2>3. PICK q \in S : \E u \in 1 .. lens[q] : j = Starts(lens, q) + u
      <3> HIDE DEF j
      <3> QED BY <1>3, <2>2
    <2>4. PICK u \in 1 .. lens[q] : j = Starts(lens, q) + u
      BY <2>3
    <2>5. cell(q, u) = cell(r, t)
      <3> HIDE DEF j
      <3> QED BY <1>4, <2>2, <2>4
    <2>6. j = i
      BY <1>5, <2>4, <2>5
    <2> HIDE DEF i, j
    <2>7. Scatter(flat, lens)[cell(r, t)] = flat[j]
      <3>1. cell(r, t) \in Cells(lens) /\ \E k \in D : CellOf(lens, k) = cell(r, t)
        BY <1>4, <2>1
      <3> QED BY <1>7, <3>1 DEF j
    <2>8. flat[i] = Token(r, t, kept)
      BY <1>2 DEF i
    <2> QED BY <2>6, <2>7, <2>8
  <1>9. ASSUME NEW c \in Cells(lens), Scatter(flat, lens)[c] # Pad
        PROVE  \E r \in S : \E t \in 1 .. lens[r] : c = cell(r, t)
    <2>1. PICK i \in D : CellOf(lens, i) = c
      BY <1>7, <1>9
    <2>2. PICK r \in S : \E t \in 1 .. lens[r] : i = Starts(lens, r) + t
      BY <1>3
    <2> QED BY <1>4, <2>1, <2>2
  <1> QED BY <1>6, <1>8, <1>9 DEF cell, flat

\* Whether its batch is uniform or not, the kernel gets the grid.
LEMMA GroupedCells ==
    ASSUME NEW S, NEW lens, NEW kept, Counts(S, lens), S # {}
    PROVE  CellsAre(Grouped(TokensOf(lens, kept), lens), S, lens, kept)
  <1> DEFINE flat == TokensOf(lens, kept)
             cells == Grouped(flat, lens)
             W == Widest(lens)
             n == Cardinality(S) * W
  <1>1. n \in Nat /\ Cells(lens) = 1 .. n /\ DOMAIN lens = S
    BY GridOf, BatchFinite, Zenon DEF Cells
  <1>3. CASE Uniform(lens)
    <2>0. FlatIs(flat, S, lens, kept) /\ DOMAIN flat = 1 .. StepTokens(lens)
      BY FlatTokens
    <2>1. cells = flat
      BY <1>3 DEF Grouped
    <2>2. \A r \in S : Starts(lens, r) = Before(S, r) * W
      BY <1>3, UniformStarts
    <2>3. StepTokens(lens) = n
      BY <1>3, UniformStarts
    <2>4. DOMAIN cells = 1 .. n
      BY <2>1, <2>3, FlatTokens
    <2>5. ASSUME NEW r \in S, NEW t \in 1 .. lens[r]
          PROVE  Before(S, r) * W + t \in DOMAIN cells /\ cells[Before(S, r) * W + t] = Token(r, t, kept)
      <3>1. Starts(lens, r) + t \in 1 .. StepTokens(lens) /\ flat[Starts(lens, r) + t] = Token(r, t, kept)
        <4> HIDE DEF flat
        <4> QED BY <2>0 DEF FlatIs
      <3>2. Before(S, r) * W + t = Starts(lens, r) + t
        BY <2>2
      <3> HIDE DEF W, n, flat, cells
      <3> QED BY <2>1, <2>3, <2>4, <3>1, <3>2
    <2>6. ASSUME NEW c \in DOMAIN cells PROVE \E r \in S : \E t \in 1 .. lens[r] : c = Before(S, r) * W + t
      <3>1. c \in 1 .. StepTokens(lens)
        <4> HIDE DEF n, cells
        <4> QED BY <2>3, <2>4
      <3>2. PICK r \in S : \E t \in 1 .. lens[r] : c = Starts(lens, r) + t
        <4> HIDE DEF flat
        <4> QED BY <2>0, <3>1 DEF FlatIs
      <3> QED BY <2>2, <3>2
    <2> HIDE DEF cells, W, n
    <2>7. \E m \in Nat : DOMAIN cells = 1 .. m
      BY <1>1, <2>4
    <2> QED BY <2>5, <2>6, <2>7 DEF CellsAre, W, cells
  <1>4. CASE ~Uniform(lens)
    <2>1. cells = Scatter(flat, lens)
      BY <1>4 DEF Grouped
    <2>2. DOMAIN cells = 1 .. n
      BY <1>1, <2>1, ScatterTo
    <2>3. \A r \in S : \A t \in 1 .. lens[r] :
              Before(S, r) * W + t \in DOMAIN cells /\ cells[Before(S, r) * W + t] = Token(r, t, kept)
      <3>1. \A r \in S : \A t \in 1 .. lens[r] : Before(S, r) * W + t \in Cells(lens)
        BY GridOf
      <3>2. \A r \in S : \A t \in 1 .. lens[r] : cells[Before(S, r) * W + t] = Token(r, t, kept)
        BY <2>1, ScatterTo
      <3> HIDE DEF W, n, cells
      <3> QED BY <1>1, <2>2, <3>1, <3>2
    <2>4. \A c \in DOMAIN cells : cells[c] # Pad => \E r \in S : \E t \in 1 .. lens[r] : c = Before(S, r) * W + t
      BY <2>1, ScatterTo
    <2> HIDE DEF cells, W, n
    <2>5. \E m \in Nat : DOMAIN cells = 1 .. m
      BY <1>1, <2>2
    <2> QED BY <2>3, <2>4, <2>5 DEF CellsAre, W, cells
  <1> QED BY <1>3, <1>4

\* A batch of the step is one that counts tokens.
LEMMA TakenCounts ==
    ASSUME NEW S \in SUBSET Reqs, NEW take, \A r \in S : take[r] \in Nat \ {0}
    PROVE  Counts(S, [r \in S |-> take[r]])
  BY DEF Counts

\* The cell of a decoded token is taken for the token's own length, whatever lies
\* behind the decode rows.
LEMMA TailsAreOwn ==
    ASSUME NEW S, NEW lens, NEW kept, Counts(S, lens), S # {}, NEW rows, rows \in Seq(Values(rows)),
           NEW i \in DOMAIN TokensOf(lens, kept)
    PROVE  TopkSeqLens(TokensOf(lens, kept), lens, TokensOf(lens, kept) \o rows)[CellOf(lens, i)]
               = TokensOf(lens, kept)[i].pos + 1
  <1> DEFINE flat == TokensOf(lens, kept)
             c == CellOf(lens, i)
  <1>0. FlatIs(flat, S, lens, kept)
    BY FlatTokens
  <1>1. DOMAIN flat = 1 .. StepTokens(lens) /\ Len(flat) = StepTokens(lens) /\ StepTokens(lens) \in Nat
    BY FlatTokens
  <1>2. PICK r \in S : \E t \in 1 .. lens[r] : i = Starts(lens, r) + t
    BY <1>0, Zenon DEF FlatIs
  <1>3. PICK t \in 1 .. lens[r] : i = Starts(lens, r) + t
    BY <1>2
  <1>4. flat[i] = Token(r, t, kept)
    BY <1>0, <1>3, Zenon DEF FlatIs
  <1>5. c = Before(S, r) * Widest(lens) + t /\ c \in Cells(lens)
    BY <1>3, GridOf
  <1>6. TopkSeqLens(flat, lens, flat \o rows)[c] =
            IF Uniform(lens) THEN (flat \o rows)[c].pos + 1 ELSE Scatter(flat, lens)[c].pos + 1
    BY <1>5, Zenon DEF TopkSeqLens
  <1>7. CASE Uniform(lens)
    <2>1. c = i
      BY <1>3, <1>5, <1>7, UniformStarts
    <2>2. flat \in Seq(Values(flat))
      BY FlatTokens
    <2>3. (flat \o rows)[i] = flat[i]
      <3> DEFINE V == Values(flat)
                 U == Values(rows)
      <3>1. flat \in Seq(V \cup U) /\ rows \in Seq(V \cup U)
        <4> HIDE DEF flat, V, U
        <4>1. flat \in Seq(V) /\ rows \in Seq(U)
          BY <2>2 DEF V, U
        <4> QED BY <4>1
      <3>2. i \in 1 .. Len(flat)
        BY <1>1
      <3> HIDE DEF flat, V, U
      <3> QED BY <3>1, <3>2
    <2>4. TopkSeqLens(flat, lens, flat \o rows)[c] = (flat \o rows)[c].pos + 1
      BY <1>6, <1>7
    <2> QED BY Zenon, <2>1, <2>3, <2>4
  <1>8. CASE ~Uniform(lens)
    <2>1. Scatter(flat, lens)[c] = flat[i]
      BY <1>4, <1>5, ScatterTo
    <2>2. TopkSeqLens(flat, lens, flat \o rows)[c] = Scatter(flat, lens)[c].pos + 1
      BY <1>6, <1>8
    <2> QED BY Zenon, <2>1, <2>2
  <1> QED BY <1>7, <1>8

\* A step of the indexer, with what its batch is like.
StepOf(decode, prefill, take, kept) ==
    /\ decode \in SUBSET Reqs /\ prefill \in SUBSET Reqs /\ decode \cap prefill = {}
    /\ \A r \in decode \cup prefill :
           /\ take[r] \in Nat \ {0} /\ kept[r] \in Nat \ {0} /\ kept[r] <= take[r]
           /\ length[r] + take[r] <= MaxLen
           /\ phase[r] = "prompt" => kept[r] = take[r]
    /\ \A r \in prefill : phase[r] # "decode"
    /\ \A r \in decode : take[r] <= MaxVerify
    /\ Step(decode, prefill, take, kept)
    /\ phase' \in [Reqs -> {"prompt", "decode"}]
    /\ \A r \in Reqs : phase'[r] = "prompt" => length'[r] % PoolSize = 0

\* Every step of the indexer is one of a batch of decode rows and a prefill slice.
LEMMA StepShape ==
    ASSUME IndexerStep
    PROVE  \E decode, prefill, take, kept : StepOf(decode, prefill, take, kept)
  <1> DEFINE Body(batch, take, kept) ==
            LET prefill == {r \in batch : take[r] > MaxVerify} IN
            /\ \A r \in batch :
                /\ length[r] + take[r] <= MaxLen /\ kept[r] <= take[r]
                /\ phase[r] = "prompt" => kept[r] = take[r]
                /\ phase[r] = "decode" => take[r] <= MaxVerify
            /\ Step(batch \ prefill, prefill, take, kept)
            /\ phase' \in [Reqs -> {"prompt", "decode"}]
            /\ \A r \in Reqs :
                \/ phase'[r] = phase[r] /\ (phase[r] = "prompt" => length'[r] % PoolSize = 0)
                \/ r \in batch /\ phase[r] = "prompt" /\ phase'[r] = "decode"
  <1>1. PICK batch \in SUBSET Reqs \ {{}} :
            \E take \in [batch -> 1 .. MaxLen] : \E kept \in [batch -> 1 .. MaxLen] : Body(batch, take, kept)
    BY Zenon DEF IndexerStep
  <1>2. PICK take \in [batch -> 1 .. MaxLen] : \E kept \in [batch -> 1 .. MaxLen] : Body(batch, take, kept)
    BY <1>1
  <1>3. PICK kept \in [batch -> 1 .. MaxLen] : Body(batch, take, kept)
    BY <1>2
  <1>4. Body(batch, take, kept)
    BY <1>3
  <1> DEFINE prefill == {r \in batch : take[r] > MaxVerify}
             decode == batch \ prefill
  <1>5. batch \in SUBSET Reqs /\ \A r \in batch : take[r] \in 1 .. MaxLen /\ kept[r] \in 1 .. MaxLen
    OBVIOUS
  <1>6. decode \in SUBSET Reqs /\ prefill \in SUBSET Reqs /\ decode \cap prefill = {} /\ decode \cup prefill = batch
    BY <1>5
  <1>7. \A r \in batch : /\ length[r] + take[r] <= MaxLen /\ kept[r] <= take[r]
                         /\ phase[r] = "prompt" => kept[r] = take[r]
                         /\ phase[r] = "decode" => take[r] <= MaxVerify
    BY <1>4
  <1>8. ASSUME NEW r \in batch
        PROVE  take[r] \in Nat \ {0} /\ kept[r] \in Nat \ {0} /\ kept[r] <= take[r]
    BY <1>5, <1>7
  <1>9. ASSUME NEW r \in prefill PROVE phase[r] # "decode"
    <2>1. take[r] \in Nat /\ take[r] > MaxVerify /\ MaxVerify \in Nat
      BY <1>5, KpConstants
    <2> QED BY <1>7, <2>1
  <1>10. ASSUME NEW r \in decode PROVE take[r] <= MaxVerify
    <2>1. take[r] \in Nat /\ ~(take[r] > MaxVerify) /\ MaxVerify \in Nat
      BY <1>5, KpConstants
    <2> QED BY <2>1
  <1>11. Step(decode, prefill, take, kept) /\ phase' \in [Reqs -> {"prompt", "decode"}]
    BY <1>4
  <1>12. ASSUME NEW r \in Reqs, phase'[r] = "prompt" PROVE length'[r] % PoolSize = 0
    <2>1. \/ phase'[r] = phase[r] /\ (phase[r] = "prompt" => length'[r] % PoolSize = 0)
          \/ r \in batch /\ phase[r] = "prompt" /\ phase'[r] = "decode"
      BY <1>4
    <2> QED BY <1>12, <2>1
  <1> HIDE DEF prefill, decode
  <1>13. StepOf(decode, prefill, take, kept)
    BY <1>6, <1>7, <1>8, <1>9, <1>10, <1>11, <1>12 DEF StepOf
  <1> QED BY <1>13

\* The rows a step leaves see their own tail.
LEMMA StepTails ==
    ASSUME NEW decode, NEW prefill, NEW take, NEW kept, StepOf(decode, prefill, take, kept)
    PROVE  RowsSeeTheirTail'
  <1> DEFINE lens == [r \in decode |-> take[r]]
             more == [r \in prefill |-> take[r]]
             flat == TokensOf(lens, kept)
             rows == TokensOf(more, kept)
             seqLens == TopkSeqLens(flat, lens, flat \o rows)
  <1>1. tails' = IF decode = {} THEN <<>> ELSE TailsOf(flat, lens, flat \o rows)
    BY Zenon DEF StepOf, Step
  <1>2. Counts(decode, lens) /\ Counts(prefill, more)
    BY TakenCounts DEF StepOf
  <1> HIDE DEF lens, more, rows
  <1>3. rows \in Seq(Values(rows))
    BY <1>2, FlatTokens DEF rows
  <1>4. CASE decode = {}
    <2>1. DOMAIN tails' = {}
      BY <1>1, <1>4
    <2> QED BY <2>1 DEF RowsSeeTheirTail
  <1>5. CASE decode # {}
    <2>1. tails' = [i \in DOMAIN flat |-> [row |-> flat[i], tail |-> OpenPool(seqLens[CellOf(lens, i)])]]
      BY <1>1, <1>5, Zenon DEF TailsOf
    <2> SUFFICES ASSUME NEW i \in DOMAIN tails' PROVE tails'[i].tail = OpenPool(tails'[i].row.pos + 1)
      BY DEF RowsSeeTheirTail
    <2>2. i \in DOMAIN flat
      <3> HIDE DEF flat, seqLens
      <3> QED BY <2>1
    <2>3. seqLens[CellOf(lens, i)] = flat[i].pos + 1
      BY <1>2, <1>3, <1>5, <2>2, TailsAreOwn
    <2> HIDE DEF flat, seqLens
    <2>4. tails'[i].row = flat[i] /\ tails'[i].tail = OpenPool(seqLens[CellOf(lens, i)])
      BY <2>1, <2>2
    <2> QED BY <2>3, <2>4
  <1> QED BY <1>4, <1>5

\* Every step keeps the tails right.
LEMMA TailsStep == RowsSeeTheirTail /\ [KpNext]_kpVars => RowsSeeTheirTail'
  <1> SUFFICES ASSUME RowsSeeTheirTail, [KpNext]_kpVars PROVE RowsSeeTheirTail'
    OBVIOUS
  <1>1. CASE IndexerStep
    <2>1. PICK decode, prefill, take, kept : StepOf(decode, prefill, take, kept)
      BY <1>1, StepShape
    <2> QED BY <2>1, StepTails
  <1>2. ASSUME NEW r \in Reqs, Leave(r) PROVE RowsSeeTheirTail'
    <2>1. DOMAIN tails' = {}
      BY <1>2 DEF Leave
    <2> QED BY <2>1 DEF RowsSeeTheirTail
  <1>3. CASE UNCHANGED kpVars
    BY <1>3 DEF kpVars, RowsSeeTheirTail
  <1> QED BY <1>1, <1>2, <1>3 DEF KpNext

\* Before the first step there is no row.
LEMMA TailsStart == KpInit => RowsSeeTheirTail
  <1> SUFFICES ASSUME KpInit PROVE RowsSeeTheirTail
    OBVIOUS
  <1>1. DOMAIN tails = {}
    BY DEF KpInit
  <1> QED BY <1>1 DEF RowsSeeTheirTail

(* Whatever batches are verified, of equal or unequal rows and beside      *)
(* prefill rows or not, each row's tail is what follows its own last whole *)
(* pool (_decode_topk_seq_lens, expand_pools_and_append_tail).             *)
THEOREM TailsAreRight == KpSpec => []RowsSeeTheirTail
  BY TailsStart, TailsStep, PTL DEF KpSpec

\* Two positions with the same place in the ring are a ring apart.
LEMMA SamePlace ==
    ASSUME NEW p \in Nat, NEW q \in Nat, p < q, p % PoolSize = q % PoolSize
    PROVE  p + PoolSize <= q
  <1> DEFINE P == PoolSize
             a == p \div P
             b == q \div P
             k == p % P
  <1>1. P \in Nat \ {0}
    BY KpConstants
  <1>2. a \in Int /\ b \in Int /\ k \in Nat /\ p = P * a + k /\ q = P * b + k
    BY <1>1
  <1> HIDE DEF a, b, k, P
  <1>3. \A x, y \in Int : y <= x => P * y <= P * x
    BY <1>1
  <1>4. P * a \in Int /\ P * b \in Int
    BY <1>1, <1>2
  <1>5. a < b
    BY <1>2, <1>3, <1>4
  <1>6. \A x, y \in Int : x < y => P * x + P <= P * y
    BY <1>1
  <1>7. p + P <= q
    BY <1>1, <1>2, <1>4, <1>5, <1>6
  <1> QED BY <1>7 DEF P

\* The places of a pool.
LEMMA PoolPlaces ==
    ASSUME NEW n \in Nat
    PROVE  /\ n * PoolSize \in Nat
           /\ \A k \in Places : (n * PoolSize + k) % PoolSize = k /\ (n * PoolSize + k) \div PoolSize = n
           /\ PoolSize - 1 \in Places
           /\ (n * PoolSize + (PoolSize - 1) + 1) % PoolSize = 0
  <1>1. PoolSize \in Nat \ {0}
    BY KpConstants
  <1>2. \A k \in Places : (n * PoolSize + k) % PoolSize = k /\ (n * PoolSize + k) \div PoolSize = n
    BY <1>1, BlockOf DEF Places
  <1>3. n * PoolSize \in Nat
    BY <1>1, ProductOfNaturals
  <1>4. n + 1 \in Nat /\ 0 \in 0 .. PoolSize - 1
    BY <1>1
  <1>5. ((n + 1) * PoolSize + 0) % PoolSize = 0
    BY <1>1, <1>4, BlockOf
  <1>6. (n + 1) * PoolSize + 0 = n * PoolSize + (PoolSize - 1) + 1
    BY <1>1
  <1> QED BY <1>1, <1>2, <1>3, <1>5, <1>6 DEF Places

\* A position's place and its pool.
LEMMA PlaceOf ==
    ASSUME NEW p \in Nat
    PROVE  /\ p % PoolSize \in Places /\ p \div PoolSize \in Nat
           /\ (p \div PoolSize) * PoolSize \in Nat /\ (p \div PoolSize) * PoolSize <= p
           /\ p < (p \div PoolSize) * PoolSize + PoolSize
           /\ p = (p \div PoolSize) * PoolSize + (p % PoolSize)
           /\ (p + 1) % PoolSize = 0 => p = (p \div PoolSize) * PoolSize + (PoolSize - 1)
  <1> DEFINE P == PoolSize
             n == p \div P
             k == p % P
  <1>1. P \in Nat \ {0}
    BY KpConstants
  <1>2. n \in Nat /\ P * n <= p /\ p < P * n + P
    BY <1>1, Division
  <1>3. k \in 0 .. P - 1 /\ p = P * n + k
    BY <1>1
  <1> HIDE DEF n, k, P
  <1>4. P * n = n * P /\ n * P \in Nat
    BY <1>1, <1>2
  <1>5. ASSUME (p + 1) % P = 0 PROVE k = P - 1
    <2> SUFFICES ASSUME k + 1 \in 0 .. P - 1 PROVE FALSE
      BY <1>1, <1>3
    <2>1. (n * P + (k + 1)) % P = k + 1
      BY <1>1, <1>2, BlockOf
    <2>2. n * P + (k + 1) = p + 1 /\ k + 1 # 0
      BY <1>1, <1>3, <1>4
    <2> QED BY <1>5, <2>1, <2>2
  <1> QED BY <1>1, <1>2, <1>3, <1>4, <1>5 DEF n, k, P, Places

\* The tokens of the pool in progress.
LEMMA OpenTokensAre ==
    ASSUME NEW len \in Nat, NEW p \in OpenPool(len)
    PROVE  /\ p \in Nat /\ p < len /\ len < p + PoolSize
           /\ \A m \in Nat : m <= len /\ p < m => p \in OpenPool(m)
           /\ \A m \in Nat : m <= len /\ m % PoolSize = 0 => m <= p
  <1> DEFINE P == PoolSize
             n == len \div P
  <1>1. P \in Nat \ {0}
    BY KpConstants
  <1>2. n \in Nat /\ n * P \in Nat /\ n * P <= len /\ len < n * P + P
    BY PlaceOf
  <1>3. p \in n * P .. len - 1
    BY DEF OpenPool
  <1>4. ASSUME NEW m \in Nat, m <= len
        PROVE  m \div P \in Nat /\ (m \div P) * P \in Nat /\ (m \div P) * P <= n * P
    <2> DEFINE j == m \div P
    <2>1. j \in Nat /\ j <= n
      BY <1>1, <1>4, DivGrows, Division
    <2> HIDE DEF j, n, P
    <2>2. j * P \in Nat /\ (n - j) * P \in Nat
      BY <1>1, <1>2, <2>1, ProductOfNaturals
    <2>3. n * P = j * P + (n - j) * P
      BY <1>1, <1>2, <2>1
    <2>4. j * P <= n * P
      BY <1>2, <2>2, <2>3
    <2> QED BY <2>1, <2>2, <2>4 DEF j, P
  <1> HIDE DEF n
  <1>5. ASSUME NEW m \in Nat, m <= len, p < m PROVE p \in OpenPool(m)
    BY <1>2, <1>3, <1>4, <1>5 DEF OpenPool
  <1>6. ASSUME NEW m \in Nat, m <= len, m % P = 0 PROVE m <= p
    <2>1. m = (m \div P) * P + (m % P)
      BY PlaceOf
    <2> QED BY <1>2, <1>3, <1>4, <1>6, <2>1
  <1> QED BY <1>1, <1>2, <1>3, <1>5, <1>6

\* Where a reader looks for a pool, and the pools there are places for.
ReadSlot(pool) == <<(pool \div DcpSize) \div StorageBlock, (pool \div DcpSize) % StorageBlock>>
Cached(cache, r, pool) == cache[pool % DcpSize][r][ReadSlot(pool)]
PoolNumbers == {n \in Nat : n <= MaxLen \div PoolSize}

\* A pool is written where it is read, by the rank that owns it.
LEMMA SlotOfPool ==
    ASSUME NEW pool \in Nat
    PROVE  /\ PoolSlot(pool) = ReadSlot(pool)
           /\ (pool % (StorageBlock * DcpSize)) % DcpSize = pool % DcpSize
           /\ pool = ((ReadSlot(pool)[1] * StorageBlock) + ReadSlot(pool)[2]) * DcpSize + (pool % DcpSize)
           /\ pool % DcpSize \in DcpRank
           /\ pool \in PoolNumbers => ReadSlot(pool) \in Slots
  <1> DEFINE B == StorageBlock
             D == DcpSize
             q == pool \div D
             d == pool % D
             a == q \div B
             b == q % B
             low == b * D + d
  <1>1. B \in Nat \ {0} /\ D \in Nat \ {0} /\ PoolSize \in Nat \ {0} /\ MaxLen \in Nat
    BY KpConstants
  <1>2. q \in Nat /\ d \in 0 .. D - 1 /\ pool = D * q + d /\ D * q <= pool
    BY <1>1, Division
  <1>3. a \in Nat /\ b \in 0 .. B - 1 /\ q = B * a + b /\ B * a <= q
    <2> HIDE DEF q
    <2> QED BY <1>1, <1>2, Division
  <1> HIDE DEF q, d, a, b, B, D
  <1>4. b * D \in Nat /\ B * D \in Nat \ {0} /\ low \in Nat /\ low <= B * D - 1
    <2>1. b * D \in Nat /\ b * D + D <= B * D /\ B * D \in Nat
      BY <1>1, <1>3, RowsApart
    <2> QED BY <1>1, <1>2, <2>1
  <1>5. pool = a * (B * D) + low
    <2>1. pool = D * (B * a + b) + d
      BY <1>2, <1>3
    <2>2. \A x, y \in Nat : D * (x + y) = D * x + y * D
      BY <1>1
    <2>3. B * a \in Nat /\ D * (B * a) = a * (B * D)
      BY <1>1, <1>3
    <2>4. D * (B * a + b) = a * (B * D) + b * D
      <3> DEFINE z == B * a
      <3>1. z \in Nat /\ b \in Nat /\ D * z = a * (B * D)
        BY <1>3, <2>3
      <3> HIDE DEF z
      <3>2. D * (z + b) = D * z + b * D
        BY <2>2, <3>1
      <3>3. D * (z + b) = a * (B * D) + b * D
        BY <3>1, <3>2
      <3> QED BY <3>3 DEF z
    <2> DEFINE x == a * (B * D)
               y == b * D
               z == D * (B * a + b)
    <2>5. x \in Nat /\ y \in Nat /\ d \in Nat /\ pool = z + d /\ z = x + y
      BY <1>2, <1>3, <1>4, <2>1, <2>4, ProductOfNaturals
    <2> HIDE DEF x, y, z
    <2>6. pool = x + (y + d)
      BY <2>5
    <2> QED BY <2>6 DEF x, y
  <1>6. pool \div (B * D) = a /\ pool % (B * D) = low
    <2> DEFINE S == B * D
    <2>1. S \in Nat \ {0} /\ low \in 0 .. S - 1 /\ pool = a * S + low
      BY <1>4, <1>5
    <2> HIDE DEF S, low
    <2>2. pool \div S = a /\ pool % S = low
      BY <1>3, <2>1, BlockOf
    <2> QED BY <2>2 DEF S
  <1>7. low \div D = b /\ low % D = d
    BY <1>1, <1>2, <1>3, BlockOf
  <1> HIDE DEF low
  <1>8. PoolSlot(pool) = <<a, b>>
    BY <1>6, <1>7 DEF PoolSlot, B, D
  <1>9. ReadSlot(pool) = <<a, b>>
    BY DEF ReadSlot, a, b, q, B, D
  <1>10. pool = (a * B + b) * D + d
    BY <1>1, <1>2, <1>3
  <1>11. ASSUME pool \in PoolNumbers PROVE <<a, b>> \in Slots
    <2>1. a <= q
      <3>1. \A x, y \in Nat : y # 0 => x <= y * x
        BY PositiveFactor
      <3> QED BY <1>1, <1>2, <1>3, <3>1
    <2>2. q <= pool
      <3>1. \A x, y \in Nat : y # 0 => x <= y * x
        BY PositiveFactor
      <3> QED BY <1>1, <1>2, <3>1
    <2>3. MaxLen \div PoolSize \in Nat /\ pool <= MaxLen \div PoolSize
      BY <1>1, <1>11, Division DEF PoolNumbers
    <2>4. a \in 0 .. MaxLen \div PoolSize
      BY <1>2, <1>3, <2>1, <2>2, <2>3
    <2> QED BY <1>3, <2>4 DEF Slots, B
  <1>12. (pool % (StorageBlock * DcpSize)) % DcpSize = d
    BY <1>6, <1>7 DEF B, D
  <1>13. d = pool % DcpSize /\ d \in DcpRank
    BY <1>2 DEF d, D, DcpRank
  <1> QED BY <1>8, <1>9, <1>10, <1>11, <1>12, <1>13 DEF B, D

\* Two pools are never read at the same place.
LEMMA SlotOfOne ==
    ASSUME NEW p \in Nat, NEW q \in Nat, p % DcpSize = q % DcpSize, ReadSlot(p) = ReadSlot(q)
    PROVE  p = q
  BY SlotOfPool

\* The greatest number of a set, once it is known.
LEMMA GreatestIs ==
    ASSUME NEW S, S \in SUBSET Nat, NEW m \in S, \A i \in S : i <= m
    PROVE  Max(S) = m
  <1>1. Max(S) = CHOOSE x \in S : \A y \in S : x >= y
    BY Zenon DEF Max
  <1>2. \E x \in S : \A y \in S : x >= y
    <2>1. \A i \in S : m >= i
      OBVIOUS
    <2> QED BY <2>1, Zenon
  <1>3. Max(S) \in S /\ \A y \in S : Max(S) >= y
    BY <1>1, <1>2, Zenon
  <1>4. Max(S) >= m /\ Max(S) <= m /\ Max(S) \in Nat /\ m \in Nat
    BY <1>3
  <1> HIDE DEF Max
  <1> QED BY <1>4

\* What is read of a pool after some were stored: the one of its request whose last
\* token is the pool's, or what was there before.
LEMMA StoredPools ==
    ASSUME NEW cache, NEW pools, NEW r \in Reqs, NEW pool \in PoolNumbers, DOMAIN pools \in SUBSET Nat,
           \A i \in DOMAIN pools : LastOf(pools[i]).pos \in Nat
    PROVE  LET here == {i \in DOMAIN pools : LastOf(pools[i]).req = r
                                             /\ LastOf(pools[i]).pos = pool * PoolSize + (PoolSize - 1)}
           IN  /\ here = {} => Cached(StorePools(cache, pools), r, pool) = Cached(cache, r, pool)
               /\ \A i : here = {i} => Cached(StorePools(cache, pools), r, pool) = pools[i]
  <1> DEFINE here == {i \in DOMAIN pools : LastOf(pools[i]).req = r
                                           /\ LastOf(pools[i]).pos = pool * PoolSize + (PoolSize - 1)}
             k == pool % DcpSize
             s == ReadSlot(pool)
             goes(i) == /\ Writes(k, LastOf(pools[i]).pos) /\ LastOf(pools[i]).req = r
                        /\ PoolSlot(LastOf(pools[i]).pos \div PoolSize) = s
             there == {i \in DOMAIN pools : goes(i)}
  <1>1. pool \in Nat /\ k \in DcpRank /\ s \in Slots
    BY SlotOfPool DEF PoolNumbers
  <1>2. StorePools(cache, pools)[k][r][s] = IF there = {} THEN cache[k][r][s] ELSE pools[Max(there)]
    BY <1>1, Zenon DEF StorePools
  <1>3. ASSUME NEW i \in DOMAIN pools
        PROVE  goes(i) <=> LastOf(pools[i]).req = r /\ LastOf(pools[i]).pos = pool * PoolSize + (PoolSize - 1)
    <2> DEFINE x == LastOf(pools[i]).pos
               n == x \div PoolSize
    <2>1. x \in Nat /\ n \in Nat
      BY PlaceOf
    <2>2. ASSUME x = pool * PoolSize + (PoolSize - 1) PROVE Writes(k, x) /\ PoolSlot(n) = s
      <3>1. n = pool
        BY <1>1, <2>2, PoolPlaces
      <3>2. (x + 1) % PoolSize = 0
        BY <1>1, <2>2, PoolPlaces
      <3> HIDE DEF x
      <3>3. PoolSlot(n) = s
        BY <1>1, <3>1, SlotOfPool
      <3>4. (n % (StorageBlock * DcpSize)) % DcpSize = k
        BY <1>1, <3>1, SlotOfPool
      <3> QED BY <3>2, <3>3, <3>4 DEF Writes
    <2>3. ASSUME Writes(k, x), PoolSlot(n) = s PROVE x = pool * PoolSize + (PoolSize - 1)
      <3> HIDE DEF x
      <3>1. (x + 1) % PoolSize = 0 /\ (n % (StorageBlock * DcpSize)) % DcpSize = k
        BY <2>3 DEF Writes
      <3> HIDE DEF n
      <3>2. n % DcpSize = k /\ ReadSlot(n) = s
        BY <2>1, <2>3, <3>1, SlotOfPool
      <3>3. n = pool
        BY <1>1, <2>1, <3>2, SlotOfOne
      <3> QED BY <2>1, <3>1, <3>3, PlaceOf DEF n
    <2> QED BY <2>2, <2>3
  <1>4. there = here
    <2> HIDE DEF goes
    <2> QED BY <1>3
  <1> HIDE DEF there, here
  <1>5. Cached(StorePools(cache, pools), r, pool) = IF here = {} THEN cache[k][r][s] ELSE pools[Max(here)]
    BY <1>2, <1>4 DEF Cached
  <1>6. cache[k][r][s] = Cached(cache, r, pool)
    BY DEF Cached
  <1>7. ASSUME NEW i, here = {i} PROVE Cached(StorePools(cache, pools), r, pool) = pools[i]
    <2>1. i \in Nat
      BY <1>7 DEF here
    <2>2. Max({i}) = i
      BY <2>1, GreatestIs
    <2> QED BY <1>5, <1>7, <2>2
  <1> QED BY <1>5, <1>6, <1>7 DEF here

\* The tokens that take a place of a request's ring.
AtPlace(rings, r, k) == rings[r][k]
Takers(tokens, S, r, k) == {i \in S : tokens[i].req = r /\ tokens[i].pos % PoolSize = k}
LastTaker(tokens, S, r, k, m) == m \in Takers(tokens, S, r, k) /\ \A i \in Takers(tokens, S, r, k) : i <= m

\* What is in a place of a ring after some tokens took theirs: the last of them, or what
\* was there before.
LEMMA RingHolds ==
    ASSUME NEW before, NEW tokens, NEW S \in SUBSET Nat, NEW r \in Reqs, NEW k \in Places
    PROVE  /\ Takers(tokens, S, r, k) = {} =>
                  AtPlace(RingAfter(before, tokens, S), r, k) = AtPlace(before, r, k)
           /\ \A m : LastTaker(tokens, S, r, k, m) => AtPlace(RingAfter(before, tokens, S), r, k) = tokens[m]
  <1> DEFINE mine == Takers(tokens, S, r, k)
  <1>1. RingAfter(before, tokens, S)[r][k] = IF mine = {} THEN before[r][k] ELSE tokens[Max(mine)]
    BY Zenon DEF RingAfter, Takers
  <1>2. mine \in SUBSET Nat
    BY DEF Takers
  <1> HIDE DEF mine
  <1>3. ASSUME NEW m \in mine, \A i \in mine : i <= m PROVE RingAfter(before, tokens, S)[r][k] = tokens[m]
    <2>1. Max(mine) = m
      BY <1>2, <1>3, GreatestIs
    <2> QED BY <1>1, <2>1
  <1> QED BY <1>1, <1>3 DEF mine, AtPlace, LastTaker

\* A pool of a request's own tokens, and a ring that holds its tokens since the last.
FullPool(r, pool, len) ==
    [k \in Places |-> LET pos == pool * PoolSize + k IN
        [req |-> r, pos |-> pos, fate |-> IF pos < len THEN "kept" ELSE "drafted"]]
PoolIs(cache, r, pool, len) == Cached(cache, r, pool) = FullPool(r, pool, len)
TailIs(rings, r, len) ==
    \A p \in OpenPool(len) : rings[r][p % PoolSize] = [req |-> r, pos |-> p, fate |-> "kept"]

\* Of the tokens at the places in D, those of a request are its first n of this step,
\* each at its own place from base on.
TokensLie(tokens, D, r, base, n, kept) ==
    /\ D \in SUBSET Nat /\ base \in Nat /\ n \in Nat /\ length[r] \in Nat
    /\ \A t \in 1 .. n : base + t \in D => tokens[base + t] = Token(r, t, kept)
    /\ \A i \in D : tokens[i].req = r => \E t \in 1 .. n : i = base + t

\* None of those is a ring or more after a position.
NoneFurther(D, r, base, n, p) == \A t \in 1 .. n : base + t \in D => length[r] + t - 1 < p + PoolSize

\* The fields of a token.
LEMMA TokenIs ==
    ASSUME NEW r, NEW t, NEW kept
    PROVE  /\ Token(r, t, kept).req = r /\ Token(r, t, kept).pos = length[r] + t - 1
           /\ Token(r, t, kept).fate = IF t <= kept[r] THEN "kept" ELSE "drafted"
  BY DEF Token

\* A position before the step keeps its place as long as no token a ring further came;
\* one of the step has its place.
LEMMA RingAtPosition ==
    ASSUME NEW before, NEW tokens, NEW D, NEW r \in Reqs, NEW base, NEW n, NEW kept,
           TokensLie(tokens, D, r, base, n, kept), NEW p \in Nat, NoneFurther(D, r, base, n, p)
    PROVE  /\ p < length[r] => RingAfter(before, tokens, D)[r][p % PoolSize] = before[r][p % PoolSize]
           /\ \A t \in 1 .. n : base + t \in D /\ length[r] + t - 1 = p
                  => RingAfter(before, tokens, D)[r][p % PoolSize] = Token(r, t, kept)
  <1> DEFINE k == p % PoolSize
             mine == Takers(tokens, D, r, k)
             after == RingAfter(before, tokens, D)
             len == length[r]
  <1>0. \A t \in 1 .. n : base + t \in D => len + t - 1 < p + PoolSize
    BY DEF NoneFurther
  <1>1. D \in SUBSET Nat /\ base \in Nat /\ n \in Nat /\ len \in Nat /\ PoolSize \in Nat \ {0}
    BY KpConstants DEF TokensLie
  <1>2. k \in Places
    BY PlaceOf
  <1>3. (mine = {} => after[r][k] = before[r][k])
        /\ \A m \in mine : (\A i \in mine : i <= m) => after[r][k] = tokens[m]
    <2> HIDE DEF k, mine, after
    <2>1. Takers(tokens, D, r, k) = {} => AtPlace(RingAfter(before, tokens, D), r, k) = AtPlace(before, r, k)
      BY <1>1, <1>2, RingHolds
    <2>2. \A m : LastTaker(tokens, D, r, k, m) => AtPlace(RingAfter(before, tokens, D), r, k) = tokens[m]
      BY <1>1, <1>2, RingHolds
    <2> QED BY <2>1, <2>2 DEF AtPlace, LastTaker, mine, after
  <1>4. ASSUME NEW i \in mine
        PROVE  \E t \in 1 .. n : i = base + t /\ base + t \in D /\ (len + t - 1) \in Nat
                                 /\ (len + t - 1) % PoolSize = k
    <2>0. i \in D /\ tokens[i].req = r /\ tokens[i].pos % PoolSize = k
      BY DEF Takers
    <2>1. PICK t \in 1 .. n : i = base + t
      BY <2>0 DEF TokensLie
    <2>2. tokens[i] = Token(r, t, kept)
      BY <2>0, <2>1 DEF TokensLie
    <2>3. tokens[i].pos = len + t - 1
      BY <2>2, TokenIs
    <2>4. len + t - 1 \in Nat
      BY <1>1
    <2> HIDE DEF len, k, mine
    <2>5. (len + t - 1) % PoolSize = k
      BY <2>0, <2>3
    <2> QED BY <2>0, <2>1, <2>4, <2>5
  <1> HIDE DEF k, after, len
  <1>5. ASSUME p < len PROVE mine = {}
    <2> SUFFICES ASSUME NEW i \in mine PROVE FALSE
      OBVIOUS
    <2>1. PICK t \in 1 .. n : base + t \in D /\ (len + t - 1) \in Nat /\ (len + t - 1) % PoolSize = k
      BY <1>4
    <2> DEFINE q == len + t - 1
    <2>2. q \in Nat /\ p < q + 1 /\ q >= len /\ q < p + PoolSize
      BY <1>0, <1>1, <1>5, <2>1 DEF len
    <2>3. p + PoolSize <= q
      <3>1. p < q /\ p % PoolSize = q % PoolSize
        BY <1>1, <1>5, <2>1, <2>2 DEF k
      <3> HIDE DEF q
      <3> QED BY <2>2, <3>1, SamePlace
    <2> QED BY <1>1, <2>2, <2>3
  <1>6. ASSUME NEW t \in 1 .. n, base + t \in D, len + t - 1 = p PROVE after[r][k] = Token(r, t, kept)
    <2>1. tokens[base + t] = Token(r, t, kept)
      BY <1>6 DEF TokensLie
    <2>2. base + t \in mine
      <3>1. tokens[base + t].req = r /\ tokens[base + t].pos = p
        BY <1>6, <2>1, TokenIs DEF len
      <3> QED BY <1>6, <3>1 DEF k, Takers
    <2>3. ASSUME NEW i \in mine PROVE i <= base + t
      <3>1. PICK u \in 1 .. n : i = base + u /\ base + u \in D /\ (len + u - 1) \in Nat
                                /\ (len + u - 1) % PoolSize = k
        BY <1>4
      <3> DEFINE q == len + u - 1
      <3>2. q \in Nat /\ q < p + PoolSize
        BY <1>0, <1>1, <3>1 DEF len
      <3>3. ~(p < q)
        <4> SUFFICES ASSUME p < q PROVE FALSE
          OBVIOUS
        <4>1. p % PoolSize = q % PoolSize
          BY <3>1 DEF k
        <4> HIDE DEF q
        <4>2. p + PoolSize <= q
          BY <3>2, <4>1, SamePlace
        <4> QED BY <1>1, <3>2, <4>2
      <3> QED BY <1>1, <1>6, <3>1, <3>2, <3>3
    <2> HIDE DEF mine
    <2> QED BY <1>3, <2>1, <2>2, <2>3
  <1> QED BY <1>3, <1>5, <1>6 DEF k, after, len

\* Tokens of other requests leave a ring alone.
LEMMA RingOfOther ==
    ASSUME NEW before, NEW tokens, NEW D \in SUBSET Nat, NEW r \in Reqs, \A i \in D : tokens[i].req # r,
           NEW k \in Places
    PROVE  AtPlace(RingAfter(before, tokens, D), r, k) = AtPlace(before, r, k)
  <1>1. Takers(tokens, D, r, k) = {}
    BY DEF Takers
  <1> QED BY <1>1, RingHolds

\* Once the last ring of a step's tokens has taken its places, with at most one token not
\* kept, the ring has the tokens since the last whole pool.
LEMMA TailTaken ==
    ASSUME NEW before, NEW tokens, NEW D, NEW r \in Reqs, NEW base, NEW n, NEW kept,
           TokensLie(tokens, D, r, base, n, kept),
           kept[r] \in Nat, kept[r] <= n, n <= kept[r] + 1,
           \A t \in 1 .. n : t + PoolSize > n => base + t \in D,
           length[r] % PoolSize = 0 \/ TailIs(before, r, length[r])
    PROVE  TailIs(RingAfter(before, tokens, D), r, length[r] + kept[r])
  <1> DEFINE after == RingAfter(before, tokens, D)
             len == length[r]
             new == len + kept[r]
  <1> SUFFICES ASSUME NEW p \in OpenPool(new)
               PROVE  after[r][p % PoolSize] = [req |-> r, pos |-> p, fate |-> "kept"]
    BY DEF TailIs
  <1>1. n \in Nat /\ len \in Nat /\ new \in Nat /\ PoolSize \in Nat \ {0} /\ new >= len
    BY KpConstants DEF TokensLie
  <1>2. /\ p \in Nat /\ p < new /\ new < p + PoolSize
        /\ \A m \in Nat : m <= new /\ p < m => p \in OpenPool(m)
        /\ \A m \in Nat : m <= new /\ m % PoolSize = 0 => m <= p
    <2> HIDE DEF new
    <2> QED BY <1>1, OpenTokensAre
  <1>3. NoneFurther(D, r, base, n, p)
    <2>1. \A t \in 1 .. n : base + t \in D => len + t - 1 < p + PoolSize
      BY <1>1, <1>2
    <2> QED BY <2>1 DEF NoneFurther
  <1>4. /\ p < len => after[r][p % PoolSize] = before[r][p % PoolSize]
        /\ \A t \in 1 .. n : base + t \in D /\ len + t - 1 = p
               => after[r][p % PoolSize] = Token(r, t, kept)
    BY <1>2, <1>3, RingAtPosition
  <1>5. CASE p < len
    <2>1. len % PoolSize # 0
      <3> SUFFICES ASSUME len % PoolSize = 0 PROVE FALSE
        OBVIOUS
      <3> HIDE DEF len, new
      <3>1. len <= p
        BY <1>1, <1>2
      <3> QED BY <1>1, <1>2, <1>5, <3>1
    <2>2. p \in OpenPool(len)
      BY <1>1, <1>2, <1>5
    <2>3. before[r][p % PoolSize] = [req |-> r, pos |-> p, fate |-> "kept"]
      BY <2>1, <2>2 DEF TailIs
    <2> QED BY <1>4, <1>5, <2>3
  <1>6. CASE ~(p < len)
    <2> DEFINE t == p - len + 1
    <2>1. t \in 1 .. n /\ t <= kept[r] /\ len + t - 1 = p /\ t + PoolSize > n
      BY <1>1, <1>2, <1>6
    <2>2. base + t \in D
      BY <2>1
    <2> HIDE DEF t, after
    <2>3. after[r][p % PoolSize] = Token(r, t, kept)
      BY <1>4, <2>1, <2>2
    <2>4. Token(r, t, kept) = [req |-> r, pos |-> p, fate |-> "kept"]
      BY <2>1 DEF Token
    <2> QED BY <2>3, <2>4
  <1> QED BY <1>5, <1>6

\* What a kernel does to the cached pools of a request that has n tokens in its batch:
\* the pools of kept tokens stay, those that its tokens complete are of its own tokens.
PoolsWritten(old, new, r, n, kept) ==
    \A pool \in PoolNumbers :
        LET end == pool * PoolSize + PoolSize IN
        /\ end <= length[r] => Cached(new, r, pool) = Cached(old, r, pool)
        /\ length[r] < end /\ end <= length[r] + n => PoolIs(new, r, pool, length[r] + kept[r])

\* The pools a kernel completes: one where each of a request's tokens ends one, of the
\* request's own tokens.
PoolsLie(pools, r, base, n, kept) ==
    /\ base \in Nat /\ n \in Nat /\ length[r] \in Nat
    /\ \A i \in DOMAIN pools : LastOf(pools[i]).req = r
           => \E t \in 1 .. n : i = base + t /\ LastOf(pools[i]).pos = length[r] + t - 1
    /\ \A t \in 1 .. n : (length[r] + t) % PoolSize = 0
           => /\ base + t \in DOMAIN pools
              /\ pools[base + t] = FullPool(r, (length[r] + t - 1) \div PoolSize, length[r] + kept[r])

\* The pools in a kernel's input, each with its last token's position.
PoolsHere(pools, r, pool) ==
    {i \in DOMAIN pools : LastOf(pools[i]).req = r /\ LastOf(pools[i]).pos = pool * PoolSize + (PoolSize - 1)}

\* A kernel that completes those pools writes those.
LEMMA PoolsStored ==
    ASSUME NEW cache, NEW pools, NEW r \in Reqs, NEW base, NEW n, NEW kept,
           DOMAIN pools \in SUBSET Nat, \A i \in DOMAIN pools : LastOf(pools[i]).pos \in Nat,
           PoolsLie(pools, r, base, n, kept)
    PROVE  PoolsWritten(cache, StorePools(cache, pools), r, n, kept)
  <1> DEFINE len == length[r]
             P == PoolSize
             new == StorePools(cache, pools)
  <1>1. base \in Nat /\ n \in Nat /\ len \in Nat /\ P \in Nat \ {0}
    BY KpConstants DEF PoolsLie
  <1>2. ASSUME NEW pool \in PoolNumbers
        PROVE  /\ pool * P + P <= len => Cached(new, r, pool) = Cached(cache, r, pool)
               /\ len < pool * P + P /\ pool * P + P <= len + n => PoolIs(new, r, pool, len + kept[r])
    <2> DEFINE here == PoolsHere(pools, r, pool)
               x == pool * P + (P - 1)
    <2>1. /\ here = {} => Cached(new, r, pool) = Cached(cache, r, pool)
          /\ \A i : here = {i} => Cached(new, r, pool) = pools[i]
      BY StoredPools DEF PoolsHere
    <2>2. pool \in Nat /\ pool * P \in Nat /\ x \in Nat /\ x + 1 = pool * P + P
      BY <1>1, ProductOfNaturals DEF PoolNumbers
    <2>3. \A i \in here : \E t \in 1 .. n : i = base + t /\ x = len + t - 1
      BY DEF PoolsHere, PoolsLie
    <2> HIDE DEF here, new
    <2>4. ASSUME x + 1 <= len PROVE here = {}
      BY <1>1, <2>2, <2>3, <2>4
    <2>5. ASSUME len < x + 1, x + 1 <= len + n PROVE PoolIs(new, r, pool, len + kept[r])
      <3> DEFINE t == x + 1 - len
      <3>1. t \in 1 .. n /\ len + t = x + 1 /\ len + t - 1 = x
        BY <1>1, <2>2, <2>5
      <3>2. (x + 1) % P = 0 /\ x \div P = pool
        BY <2>2, PoolPlaces
      <3> HIDE DEF t, x
      <3>3. base + t \in DOMAIN pools /\ pools[base + t] = FullPool(r, pool, len + kept[r])
        BY <3>1, <3>2 DEF PoolsLie
      <3>4. LastOf(pools[base + t]).req = r /\ LastOf(pools[base + t]).pos = pool * P + (P - 1)
        <4>1. P - 1 \in Places
          BY <1>1 DEF Places
        <4> QED BY <3>3, <4>1 DEF FullPool, LastOf
      <3>5. base + t \in here
        BY <3>3, <3>4 DEF here, PoolsHere
      <3>6. ASSUME NEW i \in here PROVE i = base + t
        <4>1. PICK u \in 1 .. n : i = base + u /\ x = len + u - 1
          BY <2>3
        <4> QED BY <1>1, <3>1, <4>1
      <3>7. here = {base + t}
        BY <3>5, <3>6
      <3>8. Cached(new, r, pool) = pools[base + t]
        BY <2>1, <3>7
      <3> QED BY <3>3, <3>8 DEF PoolIs
    <2> HIDE DEF x
    <2> QED BY <2>1, <2>2, <2>4, <2>5
  <1> HIDE DEF new, len
  <1>3. PoolsWritten(cache, new, r, n, kept)
    BY <1>2 DEF PoolsWritten, len
  <1> QED BY <1>3 DEF new

\* One that completes none of a request's leaves its pools alone.
LEMMA PoolsOfOther ==
    ASSUME NEW cache, NEW pools, NEW r \in Reqs,
           DOMAIN pools \in SUBSET Nat, \A i \in DOMAIN pools : LastOf(pools[i]).pos \in Nat,
           \A i \in DOMAIN pools : LastOf(pools[i]).req # r
    PROVE  \A pool \in PoolNumbers : Cached(StorePools(cache, pools), r, pool) = Cached(cache, r, pool)
  <1> SUFFICES ASSUME NEW pool \in PoolNumbers
               PROVE  Cached(StorePools(cache, pools), r, pool) = Cached(cache, r, pool)
    OBVIOUS
  <1>1. PoolsHere(pools, r, pool) = {}
    BY DEF PoolsHere
  <1>2. PoolsHere(pools, r, pool) = {} => Cached(StorePools(cache, pools), r, pool) = Cached(cache, r, pool)
    BY StoredPools DEF PoolsHere
  <1> QED BY <1>1, <1>2

\* The pool of a cell that ends one is of its request's own tokens: those of this step
\* from the row, those before it from the ring.
DecodeDone(cells) == {c \in DOMAIN cells : cells[c] # Pad /\ (cells[c].pos + 1) % PoolSize = 0}
DecodePool(acc, cells, c) ==
    LET tail == RingAfter(acc.ring, cells, 1 .. c - 1)[cells[c].req]
    IN  [k \in Places |-> IF k = PoolSize - 1 THEN cells[c]
                          ELSE tail[(cells[c].pos - (PoolSize - 1) + k) % PoolSize]]

\* What the decode kernel leaves, by name.
LEMMA DecodeWrites ==
    ASSUME NEW acc, NEW cells
    PROVE  /\ DecodeWrite(acc, cells).ring = RingAfter(acc.ring, cells, DOMAIN cells)
           /\ DecodeWrite(acc, cells).cache
                  = StorePools(acc.cache, [c \in DecodeDone(cells) |-> DecodePool(acc, cells, c)])
  <1>1. DecodeWrite(acc, cells) = [ring |-> RingAfter(acc.ring, cells, DOMAIN cells),
            cache |-> StorePools(acc.cache, [c \in DecodeDone(cells) |-> DecodePool(acc, cells, c)])]
    BY Zenon DEF DecodeWrite, DecodeDone, DecodePool
  <1> QED BY <1>1

EndsPool(r, t) == (length[r] + t) % PoolSize = 0

\* Drafts or not, the pool a token ends is of the tokens of its own request.
LEMMA DecodePoolIs ==
    ASSUME NEW acc, NEW cells, NEW r \in Reqs, NEW base, NEW n, NEW kept, NEW m \in Nat,
           DOMAIN cells = 1 .. m, TokensLie(cells, DOMAIN cells, r, base, n, kept),
           kept[r] \in Nat, TailIs(acc.ring, r, length[r]),
           NEW t \in 1 .. n, base + t \in DOMAIN cells, EndsPool(r, t)
    PROVE  DecodePool(acc, cells, base + t)
               = FullPool(r, (length[r] + t - 1) \div PoolSize, length[r] + kept[r])
  <1> DEFINE P == PoolSize
             len == length[r]
             c == base + t
             D == 1 .. c - 1
             x == len + t - 1
             pool == x \div P
             start == pool * P
             tail == RingAfter(acc.ring, cells, D)[r]
  <1>1. base \in Nat /\ n \in Nat /\ len \in Nat /\ P \in Nat \ {0}
    BY KpConstants DEF TokensLie
  <1>2. cells[c] = Token(r, t, kept) /\ cells[c].req = r /\ cells[c].pos = x
    BY TokenIs DEF TokensLie
  <1>3. x \in Nat /\ pool \in Nat /\ start \in Nat /\ x = start + (P - 1)
    <2>1. x \in Nat /\ (x + 1) % P = 0
      BY <1>1 DEF EndsPool
    <2> HIDE DEF x
    <2> QED BY <2>1, PlaceOf
  <1>4. TokensLie(cells, D, r, base, n, kept)
    <2>1. D \in SUBSET Nat /\ \A i \in D : i \in DOMAIN cells
      BY <1>1
    <2> HIDE DEF D
    <2> QED BY <2>1 DEF TokensLie
  <1>5. DecodePool(acc, cells, c)
            = [k \in Places |-> IF k = P - 1 THEN cells[c] ELSE tail[(cells[c].pos - (P - 1) + k) % P]]
    BY <1>2 DEF DecodePool
  <1> HIDE DEF tail, pool, start
  <1>6. ASSUME NEW k \in Places, k # P - 1
        PROVE  tail[(cells[c].pos - (P - 1) + k) % P] =
                   [req |-> r, pos |-> start + k, fate |-> IF start + k < len + kept[r] THEN "kept" ELSE "drafted"]
    <2> DEFINE p == start + k
    <2>0. k \in Nat /\ k < P - 1
      BY <1>1, <1>6 DEF Places
    <2>1. p \in Nat /\ cells[c].pos - (P - 1) + k = p /\ p < x
      <3>1. cells[c].pos = x
        BY <1>2
      <3> HIDE DEF x, c
      <3>2. p \in Nat /\ x - (P - 1) + k = p /\ p < x
        BY <1>1, <1>3, <2>0
      <3> QED BY <3>1, <3>2
    <2>2. \A y \in Int : y < x => y < p + P
      <3>1. P \in Nat /\ x + 1 = start + P /\ start <= p
        BY <1>1, <1>3, <2>0
      <3>2. x \in Nat /\ start \in Nat
        BY <1>3
      <3> HIDE DEF P, x, p
      <3> QED BY <2>1, <3>1, <3>2
    <2>3. \A u \in 1 .. n : base + u \in D => len + u - 1 < p + P
      <3> SUFFICES ASSUME NEW u \in 1 .. n, base + u \in D PROVE len + u - 1 < p + P
        OBVIOUS
      <3>1. u \in Nat /\ t \in Nat /\ u + 1 <= t
        BY <1>1
      <3>2. len + u - 1 < x
        BY <1>1, <3>1
      <3>3. len + u - 1 \in Int
        BY <1>1, <3>1
      <3> HIDE DEF x, p
      <3> QED BY <2>2, <3>2, <3>3
    <2>4. NoneFurther(D, r, base, n, p)
      <3> HIDE DEF D, p
      <3> QED BY <2>3 DEF NoneFurther
    <2> HIDE DEF p
    <2>5. /\ p < len => tail[p % P] = acc.ring[r][p % P]
          /\ \A u \in 1 .. n : base + u \in D /\ len + u - 1 = p => tail[p % P] = Token(r, u, kept)
      <3> DEFINE after == RingAfter(acc.ring, cells, D)
      <3>1. p < len => after[r][p % P] = acc.ring[r][p % P]
        BY <1>4, <2>1, <2>4, RingAtPosition
      <3>2. ASSUME NEW u \in 1 .. n, base + u \in D, len + u - 1 = p PROVE after[r][p % P] = Token(r, u, kept)
        <4> HIDE DEF D
        <4>1. \A v \in 1 .. n : base + v \in D /\ len + v - 1 = p => after[r][p % P] = Token(r, v, kept)
          BY <1>4, <2>1, <2>4, RingAtPosition
        <4> HIDE DEF after, len
        <4> QED BY <3>2, <4>1
      <3> QED BY <3>1, <3>2 DEF tail
    <2>6. ASSUME p < len PROVE tail[p % P] = [req |-> r, pos |-> p, fate |-> "kept"]
      <3> DEFINE i == len - start
      <3>1. i \in 0 .. P - 1 /\ len = start + i
        <4>1. len <= x
          BY <1>1
        <4> HIDE DEF len, x
        <4>2. start <= p
          BY <1>3, <2>0 DEF p
        <4>3. start < len /\ len <= start + (P - 1)
          BY <1>1, <1>3, <2>1, <2>6, <4>1, <4>2
        <4> QED BY <1>1, <1>3, <4>3
      <3> HIDE DEF i
      <3>2. len \div P = pool
        <4> HIDE DEF len
        <4>1. (pool * P + i) \div P = pool
          BY <1>1, <1>3, <3>1, BlockOf
        <4> QED BY <3>1, <4>1 DEF start
      <3>3. p \in OpenPool(len)
        <4>1. OpenPool(len) = start .. len - 1
          BY <3>2 DEF OpenPool, start
        <4> HIDE DEF len
        <4> QED BY <1>1, <1>3, <2>0, <2>1, <2>6, <4>1 DEF p
      <3> QED BY <2>5, <2>6, <3>3 DEF TailIs
    <2>7. ASSUME ~(p < len)
          PROVE  tail[p % P] = [req |-> r, pos |-> p, fate |-> IF p < len + kept[r] THEN "kept" ELSE "drafted"]
      <3> DEFINE u == p - len + 1
      <3>1. u \in 1 .. n /\ base + u \in D /\ len + u - 1 = p /\ (u <= kept[r] <=> p < len + kept[r])
        <4> HIDE DEF len
        <4>1. p + 1 <= len + t - 1
          BY <1>1, <2>1
        <4>2. u \in 1 .. n /\ len + u - 1 = p /\ u <= t - 1
          <5>1. u \in Int /\ len + u - 1 = p
            BY <1>1, <2>1
          <5>2. 1 <= u
            BY <1>1, <2>1, <2>7
          <5>3. t \in Nat /\ t <= n /\ u <= t - 1
            BY <1>1, <2>1, <4>1
          <5> HIDE DEF u
          <5> QED BY <1>1, <5>1, <5>2, <5>3
        <4>3. base + u \in D
          <5>1. u \in Nat /\ 1 <= u /\ u + 1 <= t /\ t \in Nat
            BY <1>1, <4>2
          <5> HIDE DEF u
          <5> QED BY <1>1, <5>1
        <4>4. u <= kept[r] <=> p < len + kept[r]
          BY <1>1, <2>1
        <4> QED BY <4>2, <4>3, <4>4
      <3> HIDE DEF u
      <3>2. tail[p % P] = Token(r, u, kept)
        BY <2>5, <3>1
      <3> QED BY <3>1, <3>2 DEF Token
    <2>8. p < len => p < len + kept[r]
      BY <1>1, <2>1
    <2>9. tail[p % P] = [req |-> r, pos |-> p, fate |-> IF p < len + kept[r] THEN "kept" ELSE "drafted"]
      BY <2>6, <2>7, <2>8
    <2> QED BY <2>1, <2>9 DEF p
  <1>7. cells[c] = [req |-> r, pos |-> start + (P - 1),
                    fate |-> IF start + (P - 1) < len + kept[r] THEN "kept" ELSE "drafted"]
    <2>1. t <= kept[r] <=> x < len + kept[r]
      BY <1>1
    <2> HIDE DEF x
    <2> QED BY <1>2, <1>3, <2>1 DEF Token
  <1> HIDE DEF c, x, len
  <1>8. DecodePool(acc, cells, c) = FullPool(r, pool, len + kept[r])
    BY <1>5, <1>6, <1>7 DEF FullPool, start
  <1> QED BY <1>8 DEF c, pool, x, len

\* What a kernel does to the rings and to the cached pools.
Outcome(acc, wrote, S, lens, kept) ==
    \A r \in Reqs :
        /\ r \notin S =>
               /\ \A k \in Places : wrote.ring[r][k] = acc.ring[r][k]
               /\ \A pool \in PoolNumbers : Cached(wrote.cache, r, pool) = Cached(acc.cache, r, pool)
        /\ r \in S => PoolsWritten(acc.cache, wrote.cache, r, lens[r], kept)
        /\ r \in S /\ lens[r] <= kept[r] + 1 => TailIs(wrote.ring, r, length[r] + kept[r])

\* The batch keeps a part of each request's tokens.
KeepsOf(S, lens, kept) ==
    /\ Counts(S, lens) /\ S # {}
    /\ \A r \in Reqs : length[r] \in Nat
    /\ \A r \in S : kept[r] \in Nat /\ kept[r] <= lens[r]

\* A place of the grid that is a request's is its token.
LEMMA CellsLie ==
    ASSUME NEW S, NEW lens, NEW kept, KeepsOf(S, lens, kept), NEW cells, CellsAre(cells, S, lens, kept)
    PROVE  /\ \A r \in S : TokensLie(cells, DOMAIN cells, r, Before(S, r) * Widest(lens), lens[r], kept)
           /\ \A r \in S : \A t \in 1 .. lens[r] : Before(S, r) * Widest(lens) + t \in DOMAIN cells
           /\ \A i \in DOMAIN cells : cells[i].req \in Reqs => cells[i] # Pad
           /\ \A i \in DOMAIN cells : cells[i] # Pad => cells[i].req \in S /\ cells[i].pos \in Nat
  <1> DEFINE base(r) == Before(S, r) * Widest(lens)
  <1>1. S \in SUBSET Reqs /\ \A r \in S : lens[r] \in Nat /\ length[r] \in Nat
    BY DEF KeepsOf, Counts
  <1>2. \A r \in S : base(r) \in Nat
    <2>1. Counts(S, lens) /\ S # {}
      BY DEF KeepsOf
    <2>2. Widest(lens) \in Nat /\ \A r \in S : Before(S, r) \in Nat
      BY <2>1, WidestRow, RowNumbers
    <2> QED BY <2>2, ProductOfNaturals
  <1>3. DOMAIN cells \in SUBSET Nat
    BY DEF CellsAre
  <1>4. \A r \in S : \A t \in 1 .. lens[r] : base(r) + t \in DOMAIN cells /\ cells[base(r) + t] = Token(r, t, kept)
    BY Zenon DEF CellsAre
  <1>5. \A i \in DOMAIN cells : cells[i] # Pad => \E r \in S : \E t \in 1 .. lens[r] : i = base(r) + t
    BY Zenon DEF CellsAre
  <1> HIDE DEF base
  <1>6. ASSUME NEW i \in DOMAIN cells, cells[i].req \in Reqs PROVE cells[i] # Pad
    <2>1. Pad.req = 0 /\ 0 \notin Reqs
      BY DEF Pad, Reqs
    <2> QED BY <1>6, <2>1
  <1>7. ASSUME NEW i \in DOMAIN cells, cells[i] # Pad
        PROVE  \E r \in S : \E t \in 1 .. lens[r] :
                   i = base(r) + t /\ cells[i].req = r /\ cells[i].pos = length[r] + t - 1
    <2>1. PICK r \in S : \E t \in 1 .. lens[r] : i = base(r) + t
      BY <1>5, <1>7
    <2>2. PICK t \in 1 .. lens[r] : i = base(r) + t
      BY <2>1
    <2>3. cells[i] = Token(r, t, kept)
      BY <1>4, <2>2
    <2> QED BY <2>2, <2>3, TokenIs
  <1>8. ASSUME NEW i \in DOMAIN cells, cells[i] # Pad PROVE cells[i].req \in S /\ cells[i].pos \in Nat
    <2>1. PICK r \in S : \E t \in 1 .. lens[r] :
              i = base(r) + t /\ cells[i].req = r /\ cells[i].pos = length[r] + t - 1
      BY <1>7, <1>8
    <2>2. PICK t \in 1 .. lens[r] : cells[i].req = r /\ cells[i].pos = length[r] + t - 1
      BY <2>1
    <2>3. length[r] + t - 1 \in Nat
      BY <1>1
    <2> QED BY <2>2, <2>3
  <1>9. ASSUME NEW r \in S PROVE TokensLie(cells, DOMAIN cells, r, base(r), lens[r], kept)
    <2>1. ASSUME NEW i \in DOMAIN cells, cells[i].req = r PROVE \E t \in 1 .. lens[r] : i = base(r) + t
      BY <1>1, <1>6, <1>7, <2>1
    <2> QED BY <1>1, <1>2, <1>3, <1>4, <2>1 DEF TokensLie
  <1> QED BY <1>4, <1>6, <1>8, <1>9 DEF base

\* Decode verifies drafts: it writes the pools its tokens end, and as long as no more
\* than one of a request's tokens is not kept its ring still has the kept ones.
LEMMA DecodeOutcome ==
    ASSUME NEW S, NEW lens, NEW kept, KeepsOf(S, lens, kept), NEW acc,
           \A r \in S : TailIs(acc.ring, r, length[r])
    PROVE  Outcome(acc, DecodeWrite(acc, Grouped(TokensOf(lens, kept), lens)), S, lens, kept)
  <1> DEFINE cells == Grouped(TokensOf(lens, kept), lens)
             wrote == DecodeWrite(acc, cells)
             base(r) == Before(S, r) * Widest(lens)
             pools == [c \in DecodeDone(cells) |-> DecodePool(acc, cells, c)]
             D == DOMAIN cells
  <1>1. CellsAre(cells, S, lens, kept)
    BY GroupedCells DEF KeepsOf
  <1>2. PICK m \in Nat : DOMAIN cells = 1 .. m
    <2> HIDE DEF cells
    <2> QED BY <1>1 DEF CellsAre
  <1>3. wrote.ring = RingAfter(acc.ring, cells, D) /\ wrote.cache = StorePools(acc.cache, pools)
    BY DecodeWrites
  <1> HIDE DEF cells
  <1>4. /\ \A r \in S : TokensLie(cells, D, r, base(r), lens[r], kept)
        /\ \A r \in S : \A t \in 1 .. lens[r] : base(r) + t \in D
        /\ \A i \in D : cells[i].req \in Reqs => cells[i] # Pad
        /\ \A i \in D : cells[i] # Pad => cells[i].req \in S /\ cells[i].pos \in Nat
    BY <1>1, CellsLie
  <1>5. S \in SUBSET Reqs /\ (\A r \in S : kept[r] \in Nat /\ kept[r] <= lens[r] /\ lens[r] \in Nat /\ length[r] \in Nat)
        /\ PoolSize \in Nat \ {0} /\ D \in SUBSET Nat
    BY <1>2, KpConstants DEF KeepsOf, Counts
  <1>6. DOMAIN pools = DecodeDone(cells) /\ DOMAIN pools \in SUBSET D
    BY DEF DecodeDone
  <1>7. ASSUME NEW c \in DOMAIN pools PROVE pools[c] = DecodePool(acc, cells, c) /\ LastOf(pools[c]) = cells[c]
    <2>1. pools[c] = DecodePool(acc, cells, c)
      OBVIOUS
    <2>2. PoolSize - 1 \in Places
      BY <1>5 DEF Places
    <2>3. DecodePool(acc, cells, c)[PoolSize - 1] = cells[c]
      BY <2>2 DEF DecodePool
    <2> HIDE DEF pools
    <2> QED BY <2>1, <2>3 DEF LastOf
  <1>8. \A c \in DOMAIN pools : c \in D /\ cells[c] # Pad /\ LastOf(pools[c]).req \in S /\ LastOf(pools[c]).pos \in Nat
    <2>1. \A c \in DecodeDone(cells) : c \in D /\ cells[c] # Pad
      BY DEF DecodeDone
    <2> HIDE DEF pools
    <2> QED BY <1>4, <1>6, <1>7, <2>1
  <1> HIDE DEF base, wrote, pools, D
  <1>9. ASSUME NEW r \in Reqs, r \notin S
        PROVE  /\ \A k \in Places : wrote.ring[r][k] = acc.ring[r][k]
               /\ \A pool \in PoolNumbers : Cached(wrote.cache, r, pool) = Cached(acc.cache, r, pool)
    <2>1. \A i \in D : cells[i].req # r
      BY <1>4, <1>9
    <2>2. ASSUME NEW k \in Places PROVE wrote.ring[r][k] = acc.ring[r][k]
      <3>1. AtPlace(RingAfter(acc.ring, cells, D), r, k) = AtPlace(acc.ring, r, k)
        BY <1>5, <2>1, RingOfOther
      <3> QED BY <1>3, <3>1 DEF AtPlace
    <2>3. \A i \in DOMAIN pools : LastOf(pools[i]).req # r /\ LastOf(pools[i]).pos \in Nat
      BY <1>8, <1>9
    <2>4. DOMAIN pools \in SUBSET Nat
      BY <1>5, <1>6
    <2>5. \A pool \in PoolNumbers : Cached(StorePools(acc.cache, pools), r, pool) = Cached(acc.cache, r, pool)
      BY <2>3, <2>4, PoolsOfOther
    <2> QED BY <1>3, <2>2, <2>5
  <1>10. ASSUME NEW r \in S PROVE PoolsWritten(acc.cache, wrote.cache, r, lens[r], kept)
    <2>0. r \in Reqs /\ DOMAIN pools \in SUBSET Nat
      BY <1>5, <1>6
    <2>1. ASSUME NEW i \in DOMAIN pools, LastOf(pools[i]).req = r
          PROVE  \E t \in 1 .. lens[r] : i = base(r) + t /\ LastOf(pools[i]).pos = length[r] + t - 1
      <3>1. i \in D /\ cells[i].req = r
        BY <1>7, <1>8, <2>1
      <3>2. PICK t \in 1 .. lens[r] : i = base(r) + t
        BY <1>4, <3>1 DEF TokensLie
      <3>3. cells[i] = Token(r, t, kept)
        BY <1>4, <3>1, <3>2 DEF TokensLie
      <3> QED BY <1>7, <3>2, <3>3, TokenIs
    <2>2. ASSUME NEW t \in 1 .. lens[r], (length[r] + t) % PoolSize = 0
          PROVE  /\ base(r) + t \in DOMAIN pools
                 /\ pools[base(r) + t] = FullPool(r, (length[r] + t - 1) \div PoolSize, length[r] + kept[r])
      <3>1. base(r) + t \in D /\ TokensLie(cells, D, r, base(r), lens[r], kept)
        BY <1>4
      <3>2. cells[base(r) + t].req = r /\ cells[base(r) + t].pos = length[r] + t - 1
        BY <3>1, TokenIs DEF TokensLie
      <3>3. base(r) + t \in DecodeDone(cells)
        <4>1. cells[base(r) + t] # Pad
          BY <1>4, <1>5, <3>1, <3>2
        <4>2. length[r] + t - 1 + 1 = length[r] + t
          BY <1>5
        <4> QED BY <2>2, <3>1, <3>2, <4>1, <4>2 DEF DecodeDone, D
      <3>4. DecodePool(acc, cells, base(r) + t)
                = FullPool(r, (length[r] + t - 1) \div PoolSize, length[r] + kept[r])
        BY <1>2, <1>5, <2>2, <3>1, DecodePoolIs DEF D, EndsPool
      <3> QED BY <1>6, <1>7, <3>3, <3>4
    <2>3. base(r) \in Nat
      BY <1>4 DEF TokensLie
    <2>4. PoolsLie(pools, r, base(r), lens[r], kept)
      BY <1>5, <2>1, <2>2, <2>3 DEF PoolsLie
    <2> QED BY <1>3, <1>8, <2>0, <2>4, PoolsStored
  <1>11. ASSUME NEW r \in S, lens[r] <= kept[r] + 1 PROVE TailIs(wrote.ring, r, length[r] + kept[r])
    <2>1. r \in Reqs /\ TokensLie(cells, D, r, base(r), lens[r], kept) /\ \A t \in 1 .. lens[r] : base(r) + t \in D
      BY <1>4, <1>5
    <2>2. TailIs(RingAfter(acc.ring, cells, D), r, length[r] + kept[r])
      BY <1>5, <1>11, <2>1, TailTaken
    <2> QED BY <1>3, <2>2
  <1>12. Outcome(acc, wrote, S, lens, kept)
    BY <1>9, <1>10, <1>11 DEF Outcome
  <1> QED BY <1>12 DEF wrote, cells

\* The rows of a prefill slice are the tokens of its requests, one after another.
LEMMA RowsLie ==
    ASSUME NEW S, NEW lens, NEW kept, KeepsOf(S, lens, kept), NEW rows, rows = TokensOf(lens, kept)
    PROVE  /\ Len(rows) \in Nat /\ DOMAIN rows = 1 .. Len(rows)
           /\ \A D \in SUBSET DOMAIN rows : \A r \in S : TokensLie(rows, D, r, Starts(lens, r), lens[r], kept)
           /\ \A r \in S : \A t \in 1 .. lens[r] :
                  Starts(lens, r) + t \in DOMAIN rows /\ rows[Starts(lens, r) + t] = Token(r, t, kept)
           /\ \A i \in DOMAIN rows : rows[i].req \in S /\ rows[i].pos \in Nat
  <1>1. S \in SUBSET Reqs /\ \A r \in S : lens[r] \in Nat /\ length[r] \in Nat
    BY DEF KeepsOf, Counts
  <1>2. /\ StepTokens(lens) \in Nat /\ DOMAIN rows = 1 .. StepTokens(lens) /\ Len(rows) = StepTokens(lens)
        /\ FlatIs(rows, S, lens, kept)
    BY FlatTokens DEF KeepsOf
  <1>3. \A r \in S : Starts(lens, r) \in Nat
    BY StartsAre DEF KeepsOf
  <1>4. \A r \in S : \A t \in 1 .. lens[r] :
            Starts(lens, r) + t \in DOMAIN rows /\ rows[Starts(lens, r) + t] = Token(r, t, kept)
    BY <1>2, Zenon DEF FlatIs
  <1>5. ASSUME NEW i \in DOMAIN rows
        PROVE  \E r \in S : \E t \in 1 .. lens[r] :
                   i = Starts(lens, r) + t /\ rows[i].req = r /\ rows[i].pos = length[r] + t - 1
    <2>1. PICK r \in S : \E t \in 1 .. lens[r] : i = Starts(lens, r) + t
      BY <1>2, Zenon DEF FlatIs
    <2>2. PICK t \in 1 .. lens[r] : i = Starts(lens, r) + t
      BY <2>1
    <2>3. rows[i] = Token(r, t, kept)
      BY <1>4, <2>2
    <2> QED BY <2>2, <2>3, TokenIs
  <1>6. ASSUME NEW i \in DOMAIN rows PROVE rows[i].req \in S /\ rows[i].pos \in Nat
    <2>1. PICK r \in S : \E t \in 1 .. lens[r] : rows[i].req = r /\ rows[i].pos = length[r] + t - 1
      BY <1>5
    <2>2. PICK t \in 1 .. lens[r] : rows[i].req = r /\ rows[i].pos = length[r] + t - 1
      BY <2>1
    <2> QED BY <1>1, <2>2
  <1>7. ASSUME NEW D \in SUBSET DOMAIN rows, NEW r \in S
        PROVE  TokensLie(rows, D, r, Starts(lens, r), lens[r], kept)
    <2>1. D \in SUBSET Nat
      BY <1>2
    <2>2. ASSUME NEW i \in D, rows[i].req = r PROVE \E t \in 1 .. lens[r] : i = Starts(lens, r) + t
      BY <1>5, <2>2
    <2> QED BY <1>1, <1>3, <1>4, <2>1, <2>2 DEF TokensLie
  <1> QED BY <1>2, <1>4, <1>6, <1>7

\* The pools that end in a prefill slice, and the rows whose tokens stay in the rings.
PrefillDone(rows) == {i \in PoolSize .. Len(rows) : (rows[i].pos + 1) % PoolSize = 0}
PrefillPools(rows) == [i \in PrefillDone(rows) |-> [k \in Places |-> rows[i - PoolSize + 1 + k]]]
Trailing(rows) == {i \in DOMAIN rows : i + PoolSize > Len(rows) \/ rows[i + PoolSize].req # rows[i].req}

\* What the prefill kernels leave, by name.
LEMMA PrefillWrites ==
    ASSUME NEW rings, NEW cache, NEW rows
    PROVE  Seed(PrefillWrite([ring |-> rings, cache |-> cache], rows), rows)
               = [ring |-> RingAfter(rings, rows, Trailing(rows)), cache |-> StorePools(cache, PrefillPools(rows))]
  <1> DEFINE acc == [ring |-> rings, cache |-> cache]
             mid == PrefillWrite(acc, rows)
  <1>1. mid = [acc EXCEPT !.cache = StorePools(acc.cache, PrefillPools(rows))]
    BY Zenon DEF PrefillWrite, PrefillPools, PrefillDone
  <1>2. mid = [ring |-> rings, cache |-> StorePools(cache, PrefillPools(rows))]
    BY <1>1
  <1>3. Seed(mid, rows) = [mid EXCEPT !.ring = RingAfter(mid.ring, rows, Trailing(rows))]
    BY Zenon DEF Seed, Trailing
  <1> HIDE DEF mid
  <1>4. Seed(mid, rows) = [ring |-> RingAfter(rings, rows, Trailing(rows)),
                           cache |-> StorePools(cache, PrefillPools(rows))]
    BY <1>2, <1>3
  <1> QED BY <1>4 DEF mid

\* Prefill pools the rows of its slice: chunks that start on a pool boundary are pooled
\* from their own tokens, and what follows the last whole pool goes to the ring.
LEMMA PrefillOutcome ==
    ASSUME NEW S, NEW lens, NEW kept, KeepsOf(S, lens, kept), NEW rings, NEW cache,
           \A r \in S : kept[r] = lens[r] /\ length[r] % PoolSize = 0,
           NEW rows, rows = TokensOf(lens, kept)
    PROVE  Outcome([ring |-> rings, cache |-> cache],
                   [ring |-> RingAfter(rings, rows, Trailing(rows)), cache |-> StorePools(cache, PrefillPools(rows))],
                   S, lens, kept)
  <1> DEFINE acc == [ring |-> rings, cache |-> cache]
             T == Trailing(rows)
             pools == PrefillPools(rows)
             wrote == [ring |-> RingAfter(rings, rows, T), cache |-> StorePools(cache, pools)]
             base(r) == Starts(lens, r)
             D == DOMAIN rows
             P == PoolSize
             N == Len(rows)
  <1>1. /\ N \in Nat /\ D = 1 .. N
        /\ \A E \in SUBSET D : \A r \in S : TokensLie(rows, E, r, base(r), lens[r], kept)
        /\ \A r \in S : \A t \in 1 .. lens[r] : base(r) + t \in D /\ rows[base(r) + t] = Token(r, t, kept)
        /\ \A i \in D : rows[i].req \in S /\ rows[i].pos \in Nat
    <2>1. N \in Nat /\ D = 1 .. N
      BY RowsLie
    <2>2. \A E \in SUBSET D : \A r \in S : TokensLie(rows, E, r, base(r), lens[r], kept)
      BY RowsLie
    <2>3. \A r \in S : \A t \in 1 .. lens[r] : base(r) + t \in D /\ rows[base(r) + t] = Token(r, t, kept)
      BY RowsLie
    <2>4. \A i \in D : rows[i].req \in S /\ rows[i].pos \in Nat
      BY RowsLie
    <2> HIDE DEF base, D, N
    <2> QED BY <2>1, <2>2, <2>3, <2>4
  <1>2. wrote.ring = RingAfter(rings, rows, T) /\ wrote.cache = StorePools(cache, pools)
        /\ acc.ring = rings /\ acc.cache = cache
    OBVIOUS
  <1>3. S \in SUBSET Reqs /\ (\A r \in S : kept[r] \in Nat /\ lens[r] \in Nat /\ length[r] \in Nat) /\ P \in Nat \ {0}
    BY KpConstants DEF KeepsOf, Counts
  <1>4. T \in SUBSET D
    BY DEF Trailing
  <1>5. DOMAIN pools = PrefillDone(rows) /\ DOMAIN pools \in SUBSET D
    <2>1. PrefillDone(rows) \in SUBSET D
      BY <1>1, <1>3 DEF PrefillDone
    <2> QED BY <2>1 DEF PrefillPools
  <1>6. \A r \in S : base(r) \in Nat
    BY StartsAre DEF KeepsOf
  <1> HIDE DEF acc, T, wrote, base, D, N
  <1>7. ASSUME NEW i \in DOMAIN pools
        PROVE  pools[i] = [k \in Places |-> rows[i - P + 1 + k]] /\ LastOf(pools[i]) = rows[i]
    <2>1. pools[i] = [k \in Places |-> rows[i - P + 1 + k]]
      BY DEF PrefillPools
    <2>2. P - 1 \in Places
      BY <1>3 DEF Places
    <2>3. i - P + 1 + (P - 1) = i
      BY <1>1, <1>3, <1>5
    <2> HIDE DEF pools
    <2> QED BY <2>1, <2>2, <2>3 DEF LastOf
  <1> HIDE DEF pools
  <1>8. \A i \in DOMAIN pools : i \in D /\ LastOf(pools[i]).req \in S /\ LastOf(pools[i]).pos \in Nat
    BY <1>1, <1>5, <1>7
  <1>9. D \in SUBSET Nat
    BY <1>1
  <1>10. ASSUME NEW r \in Reqs, r \notin S
         PROVE  /\ \A k \in Places : wrote.ring[r][k] = acc.ring[r][k]
                /\ \A pool \in PoolNumbers : Cached(wrote.cache, r, pool) = Cached(acc.cache, r, pool)
    <2>1. T \in SUBSET Nat /\ \A i \in T : rows[i].req # r
      BY <1>1, <1>4, <1>9, <1>10
    <2>2. ASSUME NEW k \in Places PROVE wrote.ring[r][k] = acc.ring[r][k]
      <3>1. AtPlace(RingAfter(rings, rows, T), r, k) = AtPlace(rings, r, k)
        BY <2>1, RingOfOther
      <3> QED BY <1>2, <3>1 DEF AtPlace
    <2>3. \A i \in DOMAIN pools : LastOf(pools[i]).req # r /\ LastOf(pools[i]).pos \in Nat
      BY <1>8, <1>10
    <2>4. DOMAIN pools \in SUBSET Nat
      BY <1>5, <1>9
    <2>5. \A pool \in PoolNumbers : Cached(StorePools(cache, pools), r, pool) = Cached(cache, r, pool)
      BY <2>3, <2>4, PoolsOfOther
    <2> QED BY <1>2, <2>2, <2>5
  <1>11. ASSUME NEW r \in S PROVE PoolsWritten(acc.cache, wrote.cache, r, lens[r], kept)
    <2> DEFINE len == length[r]
    <2>0. r \in Reqs /\ DOMAIN pools \in SUBSET Nat /\ len \in Nat /\ lens[r] \in Nat
      BY <1>3, <1>5, <1>9
    <2>1. ASSUME NEW i \in DOMAIN pools, LastOf(pools[i]).req = r
          PROVE  \E t \in 1 .. lens[r] : i = base(r) + t /\ LastOf(pools[i]).pos = len + t - 1
      <3>1. i \in D /\ rows[i].req = r /\ TokensLie(rows, D, r, base(r), lens[r], kept)
        BY <1>1, <1>7, <1>8, <2>1
      <3>2. PICK t \in 1 .. lens[r] : i = base(r) + t
        BY <3>1 DEF TokensLie
      <3>3. rows[i] = Token(r, t, kept)
        BY <1>1, <3>2
      <3> QED BY <1>7, <3>2, <3>3, TokenIs
    <2>2. ASSUME NEW t \in 1 .. lens[r], (len + t) % P = 0
          PROVE  base(r) + t \in DOMAIN pools /\ pools[base(r) + t] = FullPool(r, (len + t - 1) \div P, len + kept[r])
      <3> DEFINE i == base(r) + t
                 x == len + t - 1
                 pool == x \div P
                 start == pool * P
      <3>1. i \in D /\ rows[i] = Token(r, t, kept) /\ rows[i].pos = x
        BY <1>1, TokenIs
      <3>2. len + P <= len + t
        <4>1. len + t \in Nat /\ len < len + t /\ len % P = (len + t) % P
          BY <1>3, <2>0, <2>2
        <4> HIDE DEF len
        <4>2. \A q \in Nat : len < q /\ len % P = q % P => len + P <= q
          BY <2>0, SamePlace
        <4> QED BY <4>1, <4>2
      <3>3. P <= t /\ x + 1 = len + t /\ x \in Nat
        BY <1>3, <2>0, <3>2
      <3>4. i \in PrefillDone(rows)
        <4>1. i \in P .. N
          <5>1. i \in 1 .. N
            BY <1>1, <3>1
          <5> QED BY <1>1, <1>3, <1>6, <3>3, <5>1
        <4> QED BY <2>2, <3>1, <3>3, <4>1 DEF PrefillDone, N
      <3>5. x = start + (P - 1) /\ pool \in Nat /\ start \in Nat
        <4>1. (x + 1) % P = 0
          BY <2>2, <3>3
        <4> HIDE DEF x
        <4> QED BY <3>3, <4>1, PlaceOf
      <3> HIDE DEF pool, start
      <3>6. ASSUME NEW k \in Places
            PROVE  rows[i - P + 1 + k] = [req |-> r, pos |-> start + k,
                                          fate |-> IF start + k < len + kept[r] THEN "kept" ELSE "drafted"]
        <4> DEFINE u == t - P + 1 + k
        <4>1. k \in Nat /\ k <= P - 1
          BY <1>3 DEF Places
        <4>2. u \in 1 .. lens[r] /\ u <= t
          BY <1>3, <2>0, <3>3, <4>1
        <4>3. i - P + 1 + k = base(r) + u
          BY <1>3, <1>6, <4>1
        <4>4. len + u - 1 = start + k
          <5>1. len + u - 1 = x - (P - 1) + k
            BY <1>3, <2>0, <4>1
          <5> HIDE DEF x
          <5> QED BY <1>3, <3>3, <3>5, <4>1, <5>1
        <4>5. u <= kept[r] <=> len + u - 1 < len + kept[r]
          BY <1>3, <2>0, <4>2
        <4> HIDE DEF u, len, i
        <4>6. rows[base(r) + u] = Token(r, u, kept)
          BY <1>1, <4>2
        <4> QED BY <4>3, <4>4, <4>5, <4>6 DEF Token, len
      <3> HIDE DEF i, x, len
      <3>7. i \in DOMAIN pools /\ pools[i] = [k \in Places |-> rows[i - P + 1 + k]]
        BY <1>5, <1>7, <3>4
      <3>8. pools[i] = FullPool(r, pool, len + kept[r])
        BY <3>6, <3>7 DEF FullPool, start
      <3> QED BY <3>7, <3>8 DEF i, x, len, pool
    <2>3. PoolsLie(pools, r, base(r), lens[r], kept)
      BY <1>6, <2>0, <2>1, <2>2 DEF PoolsLie
    <2> QED BY <1>2, <1>8, <2>0, <2>3, PoolsStored
  <1>12. ASSUME NEW r \in S, lens[r] <= kept[r] + 1 PROVE TailIs(wrote.ring, r, length[r] + kept[r])
    <2>1. r \in Reqs /\ TokensLie(rows, T, r, base(r), lens[r], kept)
      BY <1>1, <1>3, <1>4
    <2>2. ASSUME NEW t \in 1 .. lens[r], t + P > lens[r] PROVE base(r) + t \in T
      <3> DEFINE i == base(r) + t
      <3>1. i \in D /\ rows[i].req = r
        BY <1>1, TokenIs
      <3>2. ASSUME i + P \in D, rows[i + P].req = r PROVE FALSE
        <4>1. TokensLie(rows, D, r, base(r), lens[r], kept)
          BY <1>1
        <4>2. PICK u \in 1 .. lens[r] : i + P = base(r) + u
          BY <3>2, <4>1 DEF TokensLie
        <4> QED BY <1>3, <1>6, <2>2, <4>2
      <3>3. i + P > N \/ i + P \in D
        BY <1>1, <1>3, <3>1
      <3> QED BY <3>1, <3>2, <3>3 DEF T, Trailing, D, N
    <2>3. kept[r] = lens[r] /\ length[r] % P = 0 /\ kept[r] <= lens[r] /\ lens[r] <= kept[r] + 1
      BY <1>3
    <2>4. TailIs(RingAfter(rings, rows, T), r, length[r] + kept[r])
      BY <1>3, <2>1, <2>2, <2>3, TailTaken
    <2> QED BY <1>2, <2>4
  <1>13. Outcome(acc, wrote, S, lens, kept)
    BY <1>10, <1>11, <1>12 DEF Outcome
  <1> QED BY <1>13 DEF acc, wrote, T, pools

KpTypes ==
    /\ length \in [Reqs -> Nat] /\ reached \in [Reqs -> Nat] /\ phase \in [Reqs -> {"prompt", "decode"}]
    /\ \A r \in Reqs : length[r] <= reached[r] /\ reached[r] <= MaxLen
    /\ DOMAIN ring = Reqs /\ DOMAIN stored = DcpRank /\ \A k \in DcpRank : DOMAIN stored[k] = Reqs

\* What each request leaves for its next step: its tokens since the last whole pool, at
\* their places of its ring, none in a prompt; and the whole pools of all it has reached.
KpInv ==
    /\ KpTypes
    /\ \A r \in Reqs : phase[r] = "prompt" => length[r] % PoolSize = 0
    /\ \A r \in Reqs : TailIs(ring, r, length[r])
    /\ \A r \in Reqs : \A pool \in PoolNumbers :
           pool * PoolSize + PoolSize <= reached[r] => PoolIs(stored, r, pool, length[r])

\* A batch without a request does nothing.
LEMMA NothingDone ==
    ASSUME NEW acc, NEW lens, NEW kept
    PROVE  Outcome(acc, acc, {}, lens, kept)
  BY DEF Outcome

\* A step is its prefill slice and then its decode rows.
LEMMA StepDoes ==
    ASSUME KpInv, NEW decode, NEW prefill, NEW take, NEW kept, StepOf(decode, prefill, take, kept)
    PROVE  \E mid, after :
               /\ Outcome([ring |-> ring, cache |-> stored], mid, prefill, [r \in prefill |-> take[r]], kept)
               /\ Outcome(mid, after, decode, [r \in decode |-> take[r]], kept)
               /\ ring' = after.ring /\ stored' = after.cache
  <1> DEFINE lens == [r \in decode |-> take[r]]
             more == [r \in prefill |-> take[r]]
             flat == TokensOf(lens, kept)
             rows == TokensOf(more, kept)
             old == [ring |-> ring, cache |-> stored]
             mid == IF prefill = {} THEN old ELSE Seed(PrefillWrite(old, rows), rows)
             after == IF decode = {} THEN mid ELSE DecodeWrite(mid, Grouped(flat, lens))
  <1>1. ring' = after.ring /\ stored' = after.cache
    BY Zenon DEF StepOf, Step
  <1>2. /\ decode \in SUBSET Reqs /\ prefill \in SUBSET Reqs /\ decode \cap prefill = {}
        /\ \A r \in decode \cup prefill : take[r] \in Nat \ {0} /\ kept[r] \in Nat /\ kept[r] <= take[r]
                                          /\ (phase[r] = "prompt" => kept[r] = take[r])
        /\ \A r \in prefill : phase[r] # "decode"
    BY DEF StepOf
  <1>3. (\A r \in Reqs : length[r] \in Nat /\ phase[r] \in {"prompt", "decode"})
        /\ (\A r \in Reqs : phase[r] = "prompt" => length[r] % PoolSize = 0)
        /\ \A r \in Reqs : TailIs(ring, r, length[r])
    BY DEF KpInv, KpTypes
  <1>4. Counts(decode, lens) /\ Counts(prefill, more)
    BY <1>2, TakenCounts
  <1>5. (\A r \in decode : lens[r] = take[r]) /\ \A r \in prefill : more[r] = take[r]
    OBVIOUS
  <1> HIDE DEF lens, more, flat, rows, after
  <1>6. Outcome(old, mid, prefill, more, kept)
    <2>1. CASE prefill = {}
      BY <2>1, NothingDone
    <2>2. CASE prefill # {}
      <3>1. KeepsOf(prefill, more, kept)
        BY <1>2, <1>3, <1>4, <1>5, <2>2 DEF KeepsOf
      <3>2. \A r \in prefill : kept[r] = more[r] /\ length[r] % PoolSize = 0
        BY <1>2, <1>3, <1>5
      <3>3. Outcome(old, [ring |-> RingAfter(ring, rows, Trailing(rows)), cache |-> StorePools(stored, PrefillPools(rows))],
                    prefill, more, kept)
        BY <3>1, <3>2, PrefillOutcome DEF rows
      <3>4. mid = [ring |-> RingAfter(ring, rows, Trailing(rows)), cache |-> StorePools(stored, PrefillPools(rows))]
        BY <2>2, PrefillWrites
      <3> HIDE DEF mid, old
      <3> QED BY <3>3, <3>4
    <2> QED BY <2>1, <2>2
  <1>7. old.ring = ring
    OBVIOUS
  <1> HIDE DEF mid, old
  <1>8. Outcome(mid, after, decode, lens, kept)
    <2>1. CASE decode = {}
      BY <2>1, NothingDone DEF after
    <2>2. CASE decode # {}
      <3>1. KeepsOf(decode, lens, kept)
        BY <1>2, <1>3, <1>4, <1>5, <2>2 DEF KeepsOf
      <3>2. ASSUME NEW r \in decode PROVE TailIs(mid.ring, r, length[r])
        <4> SUFFICES ASSUME NEW p \in OpenPool(length[r])
                     PROVE  mid.ring[r][p % PoolSize] = [req |-> r, pos |-> p, fate |-> "kept"]
          BY DEF TailIs
        <4>1. r \in Reqs /\ r \notin prefill
          BY <1>2
        <4>2. \A k \in Places : mid.ring[r][k] = ring[r][k]
          BY <1>6, <1>7, <4>1 DEF Outcome
        <4>3. p % PoolSize \in Places
          <5>1. p \in Nat
            BY <1>3, <4>1, OpenTokensAre
          <5> QED BY <5>1, PlaceOf
        <4>4. ring[r][p % PoolSize] = [req |-> r, pos |-> p, fate |-> "kept"]
          BY <1>3, <4>1 DEF TailIs
        <4> QED BY <4>2, <4>3, <4>4
      <3>3. after = DecodeWrite(mid, Grouped(TokensOf(lens, kept), lens))
        BY <2>2 DEF after, flat
      <3> QED BY <3>1, <3>2, <3>3, DecodeOutcome
    <2> QED BY <2>1, <2>2
  <1> QED BY <1>1, <1>6, <1>8 DEF lens, more, old

\* What a step does to the cache and to the ring of each request.
LEMMA StepWrites ==
    ASSUME KpInv, NEW decode, NEW prefill, NEW take, NEW kept, StepOf(decode, prefill, take, kept),
           \A r \in decode : take[r] <= kept[r] + 1, NEW r \in Reqs
    PROVE  /\ r \notin decode \cup prefill =>
                  /\ \A k \in Places : ring'[r][k] = ring[r][k]
                  /\ \A pool \in PoolNumbers : Cached(stored', r, pool) = Cached(stored, r, pool)
           /\ r \in decode \cup prefill =>
                  /\ PoolsWritten(stored, stored', r, take[r], kept)
                  /\ TailIs(ring', r, length[r] + kept[r])
  <1> DEFINE lens == [q \in decode |-> take[q]]
             more == [q \in prefill |-> take[q]]
             old == [ring |-> ring, cache |-> stored]
  <1>1. PICK mid, after : /\ Outcome(old, mid, prefill, more, kept) /\ Outcome(mid, after, decode, lens, kept)
                          /\ ring' = after.ring /\ stored' = after.cache
    BY StepDoes
  <1>2. old.ring = ring /\ old.cache = stored
    OBVIOUS
  <1>3. (r \in decode => lens[r] = take[r]) /\ (r \in prefill => more[r] = take[r])
    OBVIOUS
  <1> HIDE DEF lens, more, old
  <1>4. /\ decode \cap prefill = {}
        /\ \A q \in decode \cup prefill : take[q] \in Nat /\ kept[q] \in Nat /\ kept[q] <= take[q]
                                          /\ (phase[q] = "prompt" => kept[q] = take[q])
        /\ \A q \in prefill : q \in Reqs /\ phase[q] # "decode"
    BY DEF StepOf
  <1>5. phase[r] \in {"prompt", "decode"} /\ length[r] \in Nat
    BY DEF KpInv, KpTypes
  <1>6. r \notin prefill =>
            /\ \A k \in Places : mid.ring[r][k] = ring[r][k]
            /\ \A pool \in PoolNumbers : Cached(mid.cache, r, pool) = Cached(stored, r, pool)
    BY <1>1, <1>2 DEF Outcome
  <1>7. r \notin decode =>
            /\ \A k \in Places : ring'[r][k] = mid.ring[r][k]
            /\ \A pool \in PoolNumbers : Cached(stored', r, pool) = Cached(mid.cache, r, pool)
    BY <1>1 DEF Outcome
  <1>8. ASSUME r \notin decode \cup prefill
        PROVE  /\ \A k \in Places : ring'[r][k] = ring[r][k]
               /\ \A pool \in PoolNumbers : Cached(stored', r, pool) = Cached(stored, r, pool)
    BY <1>6, <1>7, <1>8
  <1>9. ASSUME r \in prefill
        PROVE  PoolsWritten(stored, stored', r, take[r], kept) /\ TailIs(ring', r, length[r] + kept[r])
    <2>1. r \notin decode /\ kept[r] = take[r] /\ take[r] \in Nat
      BY <1>4, <1>5, <1>9
    <2>2. PoolsWritten(stored, mid.cache, r, take[r], kept) /\ TailIs(mid.ring, r, length[r] + kept[r])
      BY <1>1, <1>2, <1>3, <1>9, <2>1 DEF Outcome
    <2>3. PoolsWritten(stored, stored', r, take[r], kept)
      BY <1>7, <2>1, <2>2 DEF PoolsWritten, PoolIs
    <2>4. TailIs(ring', r, length[r] + kept[r])
      <3> SUFFICES ASSUME NEW p \in OpenPool(length[r] + kept[r])
                   PROVE  ring'[r][p % PoolSize] = [req |-> r, pos |-> p, fate |-> "kept"]
        BY DEF TailIs
      <3>1. p % PoolSize \in Places
        <4>1. length[r] + kept[r] \in Nat
          BY <1>5, <2>1
        <4>2. p \in Nat
          BY <4>1, OpenTokensAre
        <4> QED BY <4>2, PlaceOf
      <3> QED BY <1>7, <2>1, <2>2, <3>1 DEF TailIs
    <2> QED BY <2>3, <2>4
  <1>10. ASSUME r \in decode
         PROVE  PoolsWritten(stored, stored', r, take[r], kept) /\ TailIs(ring', r, length[r] + kept[r])
    <2>1. r \notin prefill /\ take[r] <= kept[r] + 1
      BY <1>4, <1>10
    <2>2. PoolsWritten(mid.cache, stored', r, take[r], kept) /\ TailIs(ring', r, length[r] + kept[r])
      BY <1>1, <1>3, <1>10, <2>1 DEF Outcome
    <2>3. PoolsWritten(stored, stored', r, take[r], kept)
      BY <1>6, <2>1, <2>2 DEF PoolsWritten
    <2> QED BY <2>2, <2>3
  <1> QED BY <1>8, <1>9, <1>10

\* The ring and the cache keep their places.
LEMMA StepShapes ==
    ASSUME KpInv, NEW decode, NEW prefill, NEW take, NEW kept, StepOf(decode, prefill, take, kept)
    PROVE  DOMAIN ring' = Reqs /\ DOMAIN stored' = DcpRank /\ \A k \in DcpRank : DOMAIN stored'[k] = Reqs
  <1> DEFINE lens == [r \in decode |-> take[r]]
             more == [r \in prefill |-> take[r]]
             flat == TokensOf(lens, kept)
             rows == TokensOf(more, kept)
             old == [ring |-> ring, cache |-> stored]
             mid == IF prefill = {} THEN old ELSE Seed(PrefillWrite(old, rows), rows)
             after == IF decode = {} THEN mid ELSE DecodeWrite(mid, Grouped(flat, lens))
             Shaped(wrote) == DOMAIN wrote.ring = Reqs /\ DOMAIN wrote.cache = DcpRank
                            /\ \A k \in DcpRank : DOMAIN wrote.cache[k] = Reqs
  <1>1. ring' = after.ring /\ stored' = after.cache
    BY Zenon DEF StepOf, Step
  <1>2. \A a, b, c : DOMAIN RingAfter(a, b, c) = Reqs
    BY DEF RingAfter
  <1>3. \A a, b : DOMAIN StorePools(a, b) = DcpRank /\ \A k \in DcpRank : DOMAIN StorePools(a, b)[k] = Reqs
    BY DEF StorePools
  <1>4. Shaped(old)
    BY DEF KpInv, KpTypes
  <1> HIDE DEF rows, flat, lens, after
  <1>5. Shaped(mid)
    <2>1. CASE prefill # {}
      <3>1. mid = [ring |-> RingAfter(ring, rows, Trailing(rows)), cache |-> StorePools(stored, PrefillPools(rows))]
        BY <2>1, PrefillWrites
      <3> HIDE DEF mid, old
      <3> QED BY <1>2, <1>3, <3>1
    <2> QED BY <1>4, <2>1
  <1> HIDE DEF mid
  <1>6. Shaped(after)
    <2>1. CASE decode # {}
      <3>1. after = DecodeWrite(mid, Grouped(flat, lens))
        BY <2>1 DEF after
      <3>2. /\ after.ring = RingAfter(mid.ring, Grouped(flat, lens), DOMAIN Grouped(flat, lens))
            /\ \E pools : after.cache = StorePools(mid.cache, pools)
        BY <3>1, DecodeWrites
      <3> QED BY <1>2, <1>3, <3>2
    <2> QED BY <1>5, <2>1 DEF after
  <1> QED BY <1>1, <1>6

\* How far a step brings each request.
LEMMA StepCounts ==
    ASSUME KpInv, NEW decode, NEW prefill, NEW take, NEW kept, StepOf(decode, prefill, take, kept)
    PROVE  /\ length' \in [Reqs -> Nat] /\ reached' \in [Reqs -> Nat]
           /\ phase' \in [Reqs -> {"prompt", "decode"}]
           /\ \A r \in Reqs : length'[r] <= reached'[r] /\ reached'[r] <= MaxLen
           /\ \A r \in Reqs : phase'[r] = "prompt" => length'[r] % PoolSize = 0
           /\ \A r \in decode \cup prefill :
                  /\ length'[r] = length[r] + kept[r] /\ reached'[r] = length[r] + take[r]
                  /\ take[r] \in Nat /\ kept[r] \in Nat
           /\ \A r \in Reqs \ (decode \cup prefill) : length'[r] = length[r] /\ reached'[r] = reached[r]
  <1>1. /\ length' = [r \in Reqs |-> IF r \in decode \cup prefill THEN length[r] + kept[r] ELSE length[r]]
        /\ reached' = [r \in Reqs |-> IF r \in decode \cup prefill THEN length[r] + take[r] ELSE reached[r]]
    BY Zenon DEF StepOf, Step
  <1>2. \A r \in decode \cup prefill :
            r \in Reqs /\ take[r] \in Nat /\ kept[r] \in Nat /\ kept[r] <= take[r] /\ length[r] + take[r] <= MaxLen
    BY DEF StepOf
  <1>3. \A r \in Reqs : length[r] \in Nat /\ reached[r] \in Nat /\ length[r] <= reached[r] /\ reached[r] <= MaxLen
    BY DEF KpInv, KpTypes
  <1>4. phase' \in [Reqs -> {"prompt", "decode"}] /\ \A r \in Reqs : phase'[r] = "prompt" => length'[r] % PoolSize = 0
    BY DEF StepOf
  <1>5. \A r \in decode \cup prefill :
            /\ length'[r] = length[r] + kept[r] /\ reached'[r] = length[r] + take[r]
            /\ take[r] \in Nat /\ kept[r] \in Nat
    BY <1>1, <1>2
  <1>6. \A r \in Reqs \ (decode \cup prefill) : length'[r] = length[r] /\ reached'[r] = reached[r]
    BY <1>1
  <1>7. MaxLen \in Nat
    BY KpConstants
  <1>8. ASSUME NEW r \in Reqs
        PROVE  length'[r] \in Nat /\ reached'[r] \in Nat /\ length'[r] <= reached'[r] /\ reached'[r] <= MaxLen
    <2>1. CASE r \in decode \cup prefill
      BY <1>2, <1>3, <1>5, <1>7, <2>1
    <2>2. CASE r \notin decode \cup prefill
      BY <1>3, <1>6, <2>2
    <2> QED BY <2>1, <2>2
  <1>9. length' \in [Reqs -> Nat] /\ reached' \in [Reqs -> Nat]
    BY <1>1, <1>8
  <1> QED BY <1>4, <1>5, <1>6, <1>8, <1>9

\* A pool of kept tokens is the same pool however many more are kept.
LEMMA FullPoolStays ==
    ASSUME NEW r, NEW pool \in Nat, NEW a \in Nat, NEW b \in Nat, a <= b, pool * PoolSize + PoolSize <= a
    PROVE  FullPool(r, pool, a) = FullPool(r, pool, b)
  <1> DEFINE s == pool * PoolSize
  <1>1. PoolSize \in Nat \ {0} /\ s \in Nat
    BY KpConstants, ProductOfNaturals
  <1> HIDE DEF s
  <1>2. \A k \in Places : s + k < a /\ s + k < b
    BY <1>1 DEF Places, s
  <1> QED BY <1>2 DEF FullPool, s

\* A step that rejects no more than one draft of a request keeps the invariant.
LEMMA StepKeepsPools ==
    ASSUME KpInv, NEW decode, NEW prefill, NEW take, NEW kept, StepOf(decode, prefill, take, kept),
           \A r \in decode : take[r] <= kept[r] + 1
    PROVE  KpInv'
  <1> DEFINE batch == decode \cup prefill
  <1>1. /\ length' \in [Reqs -> Nat] /\ reached' \in [Reqs -> Nat]
        /\ phase' \in [Reqs -> {"prompt", "decode"}]
        /\ \A r \in Reqs : length'[r] <= reached'[r] /\ reached'[r] <= MaxLen
        /\ \A r \in Reqs : phase'[r] = "prompt" => length'[r] % PoolSize = 0
    BY StepCounts
  <1>2. \A r \in batch :
            /\ length'[r] = length[r] + kept[r] /\ reached'[r] = length[r] + take[r]
            /\ take[r] \in Nat /\ kept[r] \in Nat
    BY StepCounts
  <1>3. \A r \in Reqs \ batch : length'[r] = length[r] /\ reached'[r] = reached[r]
    BY StepCounts
  <1>4. \A r \in Reqs : length[r] \in Nat /\ reached[r] \in Nat /\ length[r] <= reached[r]
    BY DEF KpInv, KpTypes
  <1>5. \A r \in Reqs \ batch :
            /\ \A k \in Places : ring'[r][k] = ring[r][k]
            /\ \A pool \in PoolNumbers : Cached(stored', r, pool) = Cached(stored, r, pool)
    BY StepWrites
  <1>6. \A r \in Reqs : r \in batch =>
            PoolsWritten(stored, stored', r, take[r], kept) /\ TailIs(ring', r, length[r] + kept[r])
    BY StepWrites
  <1>7. \A r \in Reqs : TailIs(ring, r, length[r])
    BY DEF KpInv
  <1>8. \A r \in Reqs : \A pool \in PoolNumbers :
            pool * PoolSize + PoolSize <= reached[r] => PoolIs(stored, r, pool, length[r])
    BY DEF KpInv
  <1> HIDE DEF batch
  <1>9. ASSUME NEW r \in Reqs PROVE TailIs(ring', r, length'[r])
    <2>1. CASE r \in batch
      BY <1>2, <1>6, <2>1
    <2>2. CASE r \notin batch
      <3> SUFFICES ASSUME NEW p \in OpenPool(length[r])
                   PROVE  ring'[r][p % PoolSize] = [req |-> r, pos |-> p, fate |-> "kept"]
        BY <1>3, <2>2 DEF TailIs
      <3>1. p \in Nat
        BY <1>4, OpenTokensAre
      <3>2. p % PoolSize \in Places
        BY <3>1, PlaceOf
      <3> QED BY <1>5, <1>7, <2>2, <3>2 DEF TailIs
    <2> QED BY <2>1, <2>2
  <1>10. ASSUME NEW r \in Reqs, NEW pool \in PoolNumbers, pool * PoolSize + PoolSize <= reached'[r]
         PROVE  PoolIs(stored', r, pool, length'[r])
    <2> DEFINE end == pool * PoolSize + PoolSize
    <2>1. pool \in Nat /\ end \in Nat
      BY KpConstants, ProductOfNaturals DEF PoolNumbers
    <2>2. CASE r \notin batch
      <3>1. Cached(stored', r, pool) = Cached(stored, r, pool)
        BY <1>5, <2>2
      <3>2. PoolIs(stored, r, pool, length[r])
        BY <1>3, <1>8, <1>10, <2>2
      <3> QED BY <1>3, <2>2, <3>1, <3>2 DEF PoolIs
    <2>3. CASE r \in batch /\ end <= length[r]
      <3>1. Cached(stored', r, pool) = Cached(stored, r, pool)
        BY <1>6, <2>3 DEF PoolsWritten
      <3> HIDE DEF end
      <3>2. end <= reached[r]
        BY <1>4, <2>1, <2>3
      <3>3. PoolIs(stored, r, pool, length[r])
        BY <1>8, <3>2 DEF end
      <3>4. length'[r] \in Nat /\ length[r] <= length'[r]
        BY <1>2, <1>4, <2>3
      <3>5. FullPool(r, pool, length[r]) = FullPool(r, pool, length'[r])
        BY <1>4, <2>1, <2>3, <3>4, FullPoolStays DEF end
      <3> QED BY <3>1, <3>3, <3>5 DEF PoolIs
    <2>4. CASE r \in batch /\ ~(end <= length[r])
      <3> HIDE DEF end
      <3>1. length[r] < end /\ end <= length[r] + take[r]
        BY <1>2, <1>4, <1>10, <2>1, <2>4 DEF end
      <3>2. PoolsWritten(stored, stored', r, take[r], kept)
        BY <1>6, <2>4
      <3>3. PoolIs(stored', r, pool, length[r] + kept[r])
        BY <3>1, <3>2 DEF PoolsWritten, end
      <3> QED BY <1>2, <2>4, <3>3
    <2> QED BY <2>2, <2>3, <2>4
  <1>11. DOMAIN ring' = Reqs /\ DOMAIN stored' = DcpRank /\ \A k \in DcpRank : DOMAIN stored'[k] = Reqs
    BY StepShapes
  <1>12. KpTypes'
    BY <1>1, <1>11 DEF KpTypes
  <1>13. (\A r \in Reqs : TailIs(ring, r, length[r]))'
    BY <1>9
  <1>14. (\A r \in Reqs : \A pool \in PoolNumbers :
             pool * PoolSize + PoolSize <= reached[r] => PoolIs(stored, r, pool, length[r]))'
    BY <1>10
  <1> QED BY <1>1, <1>12, <1>13, <1>14 DEF KpInv

\* No step keeps fewer than all but one of the tokens it ran for a request.
OneRejected == \A r \in Reqs : reached'[r] <= length'[r] + 1

\* A request that has no token has nothing in its ring.
LEMMA NoTail == ASSUME NEW rings, NEW r PROVE TailIs(rings, r, 0)
  <1> SUFFICES ASSUME NEW p \in OpenPool(0) PROVE FALSE
    BY DEF TailIs
  <1>1. p \in Nat /\ p < 0
    BY OpenTokensAre
  <1> QED BY <1>1

\* A pool has at least one token.
LEMMA PoolEndsLater == ASSUME NEW pool \in PoolNumbers PROVE ~(pool * PoolSize + PoolSize <= 0)
  <1>1. pool * PoolSize \in Nat /\ PoolSize \in Nat \ {0}
    BY KpConstants, ProductOfNaturals DEF PoolNumbers
  <1> QED BY <1>1

\* An empty index has the invariant.
LEMMA PoolsStart == KpInit => KpInv
  <1> SUFFICES ASSUME KpInit PROVE KpInv
    OBVIOUS
  <1>1. /\ length = [r \in Reqs |-> 0] /\ reached = length
        /\ phase = [r \in Reqs |-> "prompt"]
        /\ DOMAIN ring = Reqs /\ DOMAIN stored = DcpRank /\ \A k \in DcpRank : DOMAIN stored[k] = Reqs
    BY DEF KpInit
  <1>2. KpTypes
    BY <1>1, KpConstants DEF KpTypes
  <1>3. \A r \in Reqs : length[r] = 0 /\ reached[r] = 0
    BY <1>1
  <1>4. 0 % PoolSize = 0
    BY KpConstants
  <1>5. \A r \in Reqs : TailIs(ring, r, length[r])
    BY <1>3, NoTail
  <1>6. \A r \in Reqs : \A pool \in PoolNumbers :
            pool * PoolSize + PoolSize <= reached[r] => PoolIs(stored, r, pool, length[r])
    BY <1>3, PoolEndsLater
  <1> QED BY <1>2, <1>3, <1>4, <1>5, <1>6 DEF KpInv

\* A request that leaves takes what it had with it and leaves the others what they have.
LEMMA LeaveKeepsPools == ASSUME KpInv, NEW r \in Reqs, Leave(r) PROVE KpInv'
  <1>1. /\ length' = [length EXCEPT ![r] = 0] /\ reached' = [reached EXCEPT ![r] = 0]
        /\ phase' = [phase EXCEPT ![r] = "prompt"]
        /\ ring' = [ring EXCEPT ![r] = NoPool]
        /\ stored' = [k \in DcpRank |-> [stored[k] EXCEPT ![r] = [s \in Slots |-> NoPool]]]
    BY DEF Leave
  <1>2. KpTypes
    BY DEF KpInv
  <1>3. length'[r] = 0 /\ reached'[r] = 0 /\ 0 % PoolSize = 0 /\ MaxLen \in Nat
    BY <1>1, <1>2, KpConstants DEF KpTypes
  <1>4. \A q \in Reqs \ {r} :
            length'[q] = length[q] /\ reached'[q] = reached[q] /\ phase'[q] = phase[q] /\ ring'[q] = ring[q]
    BY <1>1, <1>2 DEF KpTypes
  <1>5. ASSUME NEW q \in Reqs \ {r}, NEW pool \in PoolNumbers
        PROVE  Cached(stored', q, pool) = Cached(stored, q, pool)
    <2> DEFINE k == pool % DcpSize
    <2>1. k \in DcpRank
      BY SlotOfPool DEF PoolNumbers
    <2> HIDE DEF k
    <2>2. stored'[k] = [stored[k] EXCEPT ![r] = [s \in Slots |-> NoPool]]
      BY <1>1, <2>1
    <2>3. DOMAIN stored[k] = Reqs
      BY <1>2, <2>1 DEF KpTypes
    <2>4. stored'[k][q] = stored[k][q]
      BY <2>2, <2>3
    <2> QED BY <2>4 DEF Cached, k
  <1>6. KpTypes'
    <2>1. length' \in [Reqs -> Nat] /\ reached' \in [Reqs -> Nat] /\ phase' \in [Reqs -> {"prompt", "decode"}]
      BY <1>1, <1>2 DEF KpTypes
    <2>2. DOMAIN ring' = Reqs /\ DOMAIN stored' = DcpRank
      BY <1>1, <1>2 DEF KpTypes
    <2>3. \A k \in DcpRank : DOMAIN stored'[k] = Reqs
      BY <1>1, <1>2 DEF KpTypes
    <2>4. \A q \in Reqs : length'[q] <= reached'[q] /\ reached'[q] <= MaxLen
      BY <1>2, <1>3, <1>4 DEF KpTypes
    <2> QED BY <2>1, <2>2, <2>3, <2>4 DEF KpTypes
  <1>7. \A q \in Reqs : phase'[q] = "prompt" => length'[q] % PoolSize = 0
    BY <1>3, <1>4 DEF KpInv
  <1>8. ASSUME NEW q \in Reqs PROVE TailIs(ring', q, length'[q])
    <2>1. CASE q = r
      BY <1>3, <2>1, NoTail
    <2>2. CASE q # r
      BY <1>4, <2>2 DEF KpInv, TailIs
    <2> QED BY <2>1, <2>2
  <1>9. ASSUME NEW q \in Reqs, NEW pool \in PoolNumbers, pool * PoolSize + PoolSize <= reached'[q]
        PROVE  PoolIs(stored', q, pool, length'[q])
    <2>1. q # r
      BY <1>3, <1>9, PoolEndsLater
    <2>2. PoolIs(stored, q, pool, length[q])
      BY <1>4, <1>9, <2>1 DEF KpInv
    <2> QED BY <1>4, <1>5, <2>1, <2>2 DEF PoolIs
  <1>10. (\A q \in Reqs : TailIs(ring, q, length[q]))'
    BY <1>8
  <1>11. (\A q \in Reqs : \A pool \in PoolNumbers :
             pool * PoolSize + PoolSize <= reached[q] => PoolIs(stored, q, pool, length[q]))'
    BY <1>9
  <1> QED BY <1>6, <1>7, <1>10, <1>11 DEF KpInv

\* A step with the tokens it rejects in bounds keeps the invariant.
LEMMA PoolsStep == ASSUME KpInv, [KpNext /\ OneRejected]_kpVars PROVE KpInv'
  <1>1. CASE IndexerStep /\ OneRejected
    <2>1. PICK decode, prefill, take, kept : StepOf(decode, prefill, take, kept)
      BY <1>1, StepShape
    <2>2. ASSUME NEW r \in decode PROVE take[r] <= kept[r] + 1
      <3>1. r \in Reqs /\ length[r] \in Nat
        BY <2>1 DEF StepOf, KpInv, KpTypes
      <3>2. length'[r] = length[r] + kept[r] /\ reached'[r] = length[r] + take[r]
            /\ take[r] \in Nat /\ kept[r] \in Nat
        BY <2>1, StepCounts
      <3>3. reached'[r] <= length'[r] + 1
        BY <1>1, <3>1 DEF OneRejected
      <3> QED BY <3>1, <3>2, <3>3
    <2> QED BY <2>1, <2>2, StepKeepsPools
  <1>2. ASSUME NEW r \in Reqs, Leave(r) PROVE KpInv'
    BY <1>2, LeaveKeepsPools
  <1>3. CASE UNCHANGED kpVars
    BY <1>3 DEF kpVars, KpInv, KpTypes, TailIs, PoolIs, Cached
  <1> QED BY <1>1, <1>2, <1>3 DEF KpNext

\* A decode step of at most two tokens keeps the first, so it rejects one at most.
LEMMA TwoTokens == ASSUME MaxVerify <= 2, KpInv, [KpNext]_kpVars PROVE KpInv'
  <1>1. CASE IndexerStep
    <2>1. PICK decode, prefill, take, kept : StepOf(decode, prefill, take, kept)
      BY <1>1, StepShape
    <2>2. ASSUME NEW r \in decode PROVE take[r] <= kept[r] + 1
      <3>1. take[r] \in Nat /\ kept[r] \in Nat \ {0} /\ take[r] <= MaxVerify /\ MaxVerify \in Nat
        BY <2>1, KpConstants DEF StepOf
      <3> QED BY <3>1
    <2> QED BY <2>1, <2>2, StepKeepsPools
  <1>2. ASSUME NEW r \in Reqs, Leave(r) PROVE KpInv'
    BY <1>2, LeaveKeepsPools
  <1>3. CASE UNCHANGED kpVars
    BY <1>3 DEF kpVars, KpInv, KpTypes, TailIs, PoolIs, Cached
  <1> QED BY <1>1, <1>2, <1>3 DEF KpNext

\* The invariant is more than what a reader relies on.
LEMMA InvGivesPools == KpInv => PoolsAreExact
  <1> SUFFICES ASSUME KpInv, NEW r \in Reqs, NEW pool \in 0 .. reached[r] \div PoolSize - 1
               PROVE  PoolRead(r, pool) = FullPool(r, pool, length[r])
    BY DEF PoolsAreExact, FullPool
  <1> DEFINE n == reached[r] \div PoolSize
  <1>1. reached[r] \in Nat /\ reached[r] <= MaxLen /\ MaxLen \in Nat /\ PoolSize \in Nat \ {0}
    BY KpConstants DEF KpInv, KpTypes
  <1>2. n \in Nat /\ n * PoolSize <= reached[r] /\ n <= MaxLen \div PoolSize /\ MaxLen \div PoolSize \in Nat
    BY <1>1, PlaceOf, DivGrows, Division
  <1> HIDE DEF n
  <1>3. pool \in Nat /\ pool + 1 <= n
    BY <1>2 DEF n
  <1>4. pool * PoolSize + PoolSize <= n * PoolSize /\ pool * PoolSize \in Nat /\ n * PoolSize \in Nat
    BY <1>1, <1>2, <1>3, RowsApart
  <1>5. pool \in PoolNumbers
    BY <1>2, <1>3 DEF PoolNumbers
  <1>6. pool * PoolSize + PoolSize <= reached[r]
    <2> DEFINE x == pool * PoolSize
               y == n * PoolSize
    <2> HIDE DEF x, y
    <2>1. x + PoolSize <= y /\ y <= reached[r] /\ x \in Nat /\ y \in Nat
      BY <1>2, <1>4 DEF x, y
    <2>2. x + PoolSize <= reached[r]
      BY <1>1, <2>1
    <2> QED BY <2>2 DEF x
  <1>7. PoolIs(stored, r, pool, length[r])
    BY <1>5, <1>6 DEF KpInv
  <1>8. PoolRead(r, pool) = Cached(stored, r, pool)
    BY Zenon DEF PoolRead, Cached, ReadSlot
  <1> QED BY <1>7, <1>8 DEF PoolIs

(* As long as no step rejects more than one draft of a request, every pool *)
(* a query could see is of its own tokens and where the reader looks:      *)
(* whatever the pool size, the ranks, the batches and their order          *)
(* (_kpool_decode_update_mxfp4_kernel, _kpool_compress_insert).            *)
THEOREM PoolsStayExact == KpInit /\ [][KpNext /\ OneRejected]_kpVars => []PoolsAreExact
  BY PoolsStart, PoolsStep, InvGivesPools, PTL

(* In particular a server that drafts one token a step, which keeps the    *)
(* other, never reads a wrong pool.                                        *)
THEOREM OneDraftIsExact == MaxVerify <= 2 => (KpSpec => []PoolsAreExact)
  <1> SUFFICES ASSUME MaxVerify <= 2 PROVE KpSpec => []PoolsAreExact
    OBVIOUS
  <1>1. KpInv /\ [KpNext]_kpVars => KpInv'
    BY TwoTokens
  <1> QED BY <1>1, PoolsStart, InvGivesPools, PTL DEF KpSpec

-----------------------------------------------------------------------------
(* The parts together.  A step of one part leaves the variables of all     *)
(* others, and a part that is not the one running has an input of its own  *)
(* kind from the start, so each part behaves as it does alone.             *)

\* Every step of the composition is one of each part, or leaves its variables.
LEMMA PartsStep ==
    ASSUME [PartsNext]_partsVars
    PROVE  /\ [CaptureNext]_captureVars /\ [BuildNext]_buildVars
           /\ [RepairNext]_repairVars /\ [PassNext]_passVars
           /\ [KvNext]_kvVars /\ [KpNext]_kpVars /\ [DsNext]_dsVars /\ [FitNext]_fitVars
           /\ [part = "rounding" /\ OptimizeMatrix]_optVars
           /\ [part = "attention" /\ AttentionStep]_spVars /\ part' = part
  <1>1. CASE UNCHANGED partsVars
    BY <1>1 DEF partsVars, toolVars, stepVars, numericVars
  <1>2. CASE ToolsNext
    BY <1>2 DEF ToolsNext, stepVars, numericVars
  <1>3. CASE StepNext
    BY <1>3 DEF StepNext, toolVars, numericVars
  <1>4. CASE NumericNext
    BY <1>4 DEF NumericNext, toolVars, stepVars
  <1>5. CASE SettingsNext
    BY <1>5 DEF SettingsNext, toolVars, stepVars, numericVars
  <1> QED BY <1>1, <1>2, <1>3, <1>4, <1>5 DEF PartsNext

\* While another part runs, the fit is that of captures without a group.
LEMMA IdleFit == FitIdle => GatesInv
  <1> SUFFICES ASSUME FitIdle PROVE GatesInv
    OBVIOUS
  <1>1. CapturesTyped
    <2>1. <<>> \in [1 .. 0 -> CaptureGroups] /\ 0 \in 0 .. 2
      OBVIOUS
    <2>2. <<>> \in UNION {[1 .. n -> CaptureGroups] : n \in 0 .. 2}
      BY <2>1
    <2> QED BY <2>2 DEF FitIdle, CapturesTyped, One
  <1> QED BY <1>1 DEF FitIdle, GatesInv

\* A batch is attended to in its own part only.
Attending == SpInv \/ (part # "attention" /\ SpIdle)

\* A checkpoint is optimized in its own part only.
Rounded == OptInv \/ (part # "rounding" /\ optimized = <<>>)

(* Whichever part a behaviour of the composition is of, and whatever the   *)
(* others hold meanwhile, the safety of every part proved above holds of   *)
(* it: of the specification that is checked on the instance.               *)
THEOREM PartsAreSafe ==
    PartsSpec => /\ []FlushIsDurable /\ []LabelsAreRight
                 /\ []VerifiedBuildIsWhole /\ []VerifiedRepairIsWhole /\ []IndexIsCommit
                 /\ []LayersShareSafely /\ []AccountsAgree /\ []RejectionReadsProposal
                 /\ []OptimizerNeverLoses /\ []ServedScaleIsSafe
                 /\ []ShardsAttendAsOne /\ []StepsFitTheirBuffers /\ []RowsSeeTheirTail
                 /\ (MaxVerify <= 2 => []PoolsAreExact)
  <1>1. PartsInit => /\ CaptureInit /\ BuildInit /\ RepairInit /\ PassInit /\ DsInit /\ KpInit
                     /\ KvInit /\ GatesInv /\ Rounded /\ Attending
    <2> SUFFICES ASSUME PartsInit
                 PROVE  /\ CaptureInit /\ BuildInit /\ RepairInit /\ PassInit /\ DsInit /\ KpInit
                        /\ KvInit /\ GatesInv /\ Rounded /\ Attending
      OBVIOUS
    <2>1. CaptureInit /\ BuildInit /\ RepairInit /\ PassInit /\ DsInit /\ KpInit
      BY DEF PartsInit, ToolsInit
    <2>2. KvInit
      BY Zenon DEF PartsInit, KvIdle
    <2>3. GatesInv
      BY IdleFit, FitStart DEF PartsInit
    <2>4. Rounded
      BY OptStart DEF PartsInit, OptIdle, Rounded
    <2>5. Attending
      BY SpStart DEF PartsInit, Attending
    <2> QED BY <2>1, <2>2, <2>3, <2>4, <2>5
  <1>2. Rounded /\ part' = part /\ [part = "rounding" /\ OptimizeMatrix]_optVars => Rounded'
    BY OptStep DEF Rounded, optVars
  <1>3. Rounded => OptimizerNeverLoses
    <2>1. ASSUME optimized = <<>> PROVE OptimizerNeverLoses
      <3>1. DOMAIN optimized = {}
        BY <2>1
      <3> QED BY <3>1, Zenon DEF OptimizerNeverLoses
    <2> QED BY <2>1, OptimizerWins DEF Rounded
  <1>4. [PartsNext]_partsVars =>
           /\ [CaptureNext]_captureVars /\ [BuildNext]_buildVars
           /\ [RepairNext]_repairVars /\ [PassNext]_passVars
           /\ [KvNext]_kvVars /\ [KpNext]_kpVars /\ [DsNext]_dsVars /\ [FitNext]_fitVars
           /\ [part = "rounding" /\ OptimizeMatrix]_optVars
           /\ [part = "attention" /\ AttentionStep]_spVars /\ part' = part
    BY PartsStep
  <1>5. PartsSpec => CaptureSpec /\ BuildSpec /\ RepairSpec /\ PassSpec /\ DsSpec /\ KvSpec /\ KpSpec
    BY <1>1, <1>4, PTL DEF PartsSpec, CaptureSpec, BuildSpec, RepairSpec, PassSpec, DsSpec, KvSpec, KpSpec
  <1>6. Attending /\ part' = part /\ [part = "attention" /\ AttentionStep]_spVars => Attending'
    <2> SUFFICES ASSUME Attending, part' = part, [part = "attention" /\ AttentionStep]_spVars
                 PROVE  Attending'
      OBVIOUS
    <2>1. CASE SpInv
      <3>1. [AttentionStep]_spVars
        OBVIOUS
      <3> QED BY <2>1, <3>1, SpStep DEF Attending
    <2>2. CASE part # "attention" /\ SpIdle
      <3>1. spVars' = spVars /\ part' # "attention"
        BY <2>2
      <3> QED BY <2>2, <3>1 DEF Attending, SpIdle, spVars
    <2> QED BY <2>1, <2>2 DEF Attending
  <1>7. Attending => ShardsAttendAsOne /\ StepsFitTheirBuffers
    <2>1. CASE SpInv
      BY <2>1, StepFits DEF SpInv
    <2>2. CASE SpIdle
      <3>1. DOMAIN attended = {} /\ DOMAIN drafted = {} /\ DOMAIN seqs = {}
        BY <2>2 DEF SpIdle
      <3>2. ShardsAttendAsOne
        BY <3>1, Zenon DEF ShardsAttendAsOne
      <3>3. StepsFitTheirBuffers
        BY <3>1, Zenon DEF StepsFitTheirBuffers
      <3> QED BY <3>2, <3>3
    <2> QED BY <2>1, <2>2 DEF Attending
  <1>8. PartsSpec => []GatesInv /\ []Rounded /\ []Attending
    BY <1>1, <1>2, <1>4, <1>6, FitStep, PTL DEF PartsSpec
  <1>9. GatesInv => ServedScaleIsSafe
    BY GatesSuffice
  <1> QED
    BY <1>3, <1>5, <1>7, <1>8, <1>9, FlushesAreDurable, SamplesAreLabelled, VerifiedBuilds, VerifiedRepairs,
       IndexCommits, LayersNeverOverlap, AccountsBalance, ProposalsAreRead, TailsAreRight, OneDraftIsExact, PTL
=============================================================================
