--------------------------- MODULE CheckpointBuild ---------------------------
(***************************************************************************)
(* probes/build_nvfp4_checkpoint.py rewrites the shards of a checkpoint    *)
(* with re-optimised NVFP4 experts, one shard at a time, on several nodes, *)
(* and can be killed and started again.  The finished shards are put       *)
(* together and probes/verify_nvfp4_checkpoint.py judges the result.       *)
(*                                                                         *)
(* A matrix has three tensors, and they may lie in different shards.  A    *)
(* tensor is known by where it comes from: the base checkpoint, or the     *)
(* search under some settings.  The search is deterministic.  A run of     *)
(* probes/optimize_nvfp4_rounding.py on some matrices leaves tensors that  *)
(* the verifier holds the build against.                                   *)
(***************************************************************************)
EXTENDS Naturals, FiniteSets

CONSTANTS
    Matrix, Shard,
    Home,             \* Matrix \X Part -> Shard: model.safetensors.index.json
    Settings,         \* the settings an operator may pass to a run of the builder
    Format,           \* Settings -> --source-format
    SearchDivisor,    \* those with --global-divisor-steps-per-octave > 0
    Improves,         \* Matrix -> settings whose result beats the base tensors
    Node, Share,      \* the nodes; Node -> the shards it is to build
    MaxKills          \* bound: builders killed

Part == {"packed", "scale", "global"}

ASSUME BuildAssumption ==
    /\ Home \in [Matrix \X Part -> Shard] /\ Shard \cap Part = {}
    /\ DOMAIN Format = Settings
    /\ SearchDivisor \subseteq Settings /\ "base" \notin Settings
    /\ Improves \in [Matrix -> SUBSET Settings]
    /\ Share \in [Node -> SUBSET Shard]
    /\ UNION {Share[n] : n \in Node} = Shard
    /\ \A i, j \in Node : i # j => Share[i] \cap Share[j] = {}
    /\ MaxKills \in Nat

VARIABLES
    out,              \* node -> shard -> its tensors
    report,           \* node -> rows of nvfp4-build-tensors.jsonl
    completed,        \* node -> completed_shards of nvfp4-build-state.json
    format,           \* node -> its source_format
    job,              \* node -> the builder that runs there
    cloned,           \* the output started as a clone of the base, or empty
    replacements,        \* optimized.safetensors: its tensors
    assembled,        \* the shards that were verified
    verified,         \* the verifier has said PASS
    kills

buildVars == <<out, report, completed, format, job, cloned, replacements, assembled, verified, kills>>

\* Whatever else a shard holds is one tensor, which no run may change.
Other(s) == <<"other", s>>
Tensors(s) == {t \in Matrix \X Part : Home[t] = s} \cup {Other(s)}
Missing == [t \in {} |-> "base"]
Base(s) == [t \in Tensors(s) |-> "base"]
Contents(s) == [Tensors(s) -> {"base"} \cup Settings] \cup {Missing}

\* The tensors a run replaces, by the shard they lie in.
Replaced(s, u) == {t \in Tensors(s) \ {Other(s)} : t[2] = "global" => u \in SearchDivisor}

\* packed_plan: a matrix is computed for each shard that takes a tensor of it.
Entries(s, u) == {m \in Matrix : \E p \in Part : <<m, p>> \in Replaced(s, u)}

\* What the search yields: select_global_divisor and optimize_groups, or the base
\* tensors when the whole matrix comes out worse, a gate of the divisor search.
Result(m, p, u) ==
    IF u \in SearchDivisor /\ u \notin Improves[m] THEN "base"
    ELSE IF p = "global" /\ u \notin SearchDivisor THEN "base"
    ELSE u

Row(m, s, u) == [matrix |-> m, shard |-> s, packed |-> Home[<<m, "packed">>] = s, settings |-> u]
Rows == [matrix : Matrix, shard : Shard, packed : BOOLEAN, settings : Settings]

NoJob == [pc |-> "idle"]
NoReplacements == [t \in {} |-> "base"]

BuildTypeOK ==
    /\ \A n \in Node : \A s \in Shard : out[n][s] \in Contents(s)
    /\ report \in [Node -> SUBSET Rows]
    /\ completed \in [Node -> SUBSET Shard]
    /\ format \in [Node -> {"block-fp8"} \cup {Format[u] : u \in Settings}]
    /\ \A n \in Node : completed[n] \subseteq Share[n]
    /\ \A s \in Shard : assembled[s] \in Contents(s)
    /\ cloned \in BOOLEAN
    /\ DOMAIN replacements \subseteq Matrix \X Part
    /\ \A t \in DOMAIN replacements : replacements[t] \in Settings
    /\ verified \in BOOLEAN /\ kills \in 0..MaxKills

BuildInit ==
    /\ cloned \in BOOLEAN /\ replacements = NoReplacements
    /\ out = [n \in Node |-> [s \in Shard |-> IF cloned THEN Base(s) ELSE Missing]]
    /\ report = [n \in Node |-> {}] /\ completed = [n \in Node |-> {}]
    /\ format = [n \in Node |-> "block-fp8"]
    /\ job = [n \in Node |-> NoJob]
    /\ assembled = [s \in Shard |-> Missing] /\ verified = FALSE /\ kills = 0

-----------------------------------------------------------------------------
Running(n) == job[n].pc # "idle"

\* A run with the shards of --target-shards.  A format that differs from that of
\* completed shards is refused; the other settings of an earlier run are overwritten
\* in the state file without a comparison.
StartBuild(n, targets, u) ==
    /\ ~Running(n)
    /\ completed[n] # {} => format[n] = Format[u]
    /\ format' = [format EXCEPT ![n] = Format[u]]
    /\ job' = [job EXCEPT ![n] = [pc |-> "next", todo |-> targets, settings |-> u]]
    /\ UNCHANGED <<cloned, replacements, out, report, completed, assembled, verified, kills>>

SkipCompleted(n) ==
    /\ job[n].pc = "next"
    /\ \E s \in job[n].todo \cap completed[n] : job' = [job EXCEPT ![n].todo = @ \ {s}]
    /\ UNCHANGED <<cloned, replacements, format, out, report, completed, assembled, verified, kills>>

BeginShard(n) ==
    /\ job[n].pc = "next"
    /\ \E s \in job[n].todo \ completed[n] :
          job' = [job EXCEPT ![n] = [pc |-> "compute", todo |-> job[n].todo, shard |-> s,
                                     settings |-> job[n].settings,
                                     left |-> Entries(s, job[n].settings)]]
    /\ UNCHANGED <<cloned, replacements, format, out, report, completed, assembled, verified, kills>>

\* One matrix: its row is in the report before the shard is written.
ComputeMatrix(n) ==
    /\ job[n].pc = "compute"
    /\ \E m \in job[n].left :
          /\ report' = [report EXCEPT ![n] = @ \cup {Row(m, job[n].shard, job[n].settings)}]
          /\ job' = [job EXCEPT ![n].left = @ \ {m}]
    /\ UNCHANGED <<cloned, replacements, format, out, completed, assembled, verified, kills>>

\* Every matrix is done: save_file to a temporary name, and os.replace.
ReplaceShard(n) ==
    /\ job[n].pc = "compute" /\ job[n].left = {}
    /\ LET s == job[n].shard
           u == job[n].settings
           value(t) == IF t \in Replaced(s, u) THEN Result(t[1], t[2], u) ELSE "base"
       IN  out' = [out EXCEPT ![n][s] = [t \in Tensors(s) |-> value(t)]]
    /\ job' = [job EXCEPT ![n] = [pc |-> "save", todo |-> job[n].todo, shard |-> job[n].shard,
                                  settings |-> job[n].settings]]
    /\ UNCHANGED <<cloned, replacements, format, report, completed, assembled, verified, kills>>

SaveState(n) ==
    /\ job[n].pc = "save"
    /\ completed' = [completed EXCEPT ![n] = @ \cup {job[n].shard}]
    /\ job' = [job EXCEPT ![n] = [pc |-> "next", todo |-> job[n].todo \ {job[n].shard},
                                  settings |-> job[n].settings]]
    /\ UNCHANGED <<cloned, replacements, format, out, report, assembled, verified, kills>>

FinishBuild(n) ==
    /\ job[n].pc = "next" /\ job[n].todo = {}
    /\ job' = [job EXCEPT ![n] = NoJob]
    /\ UNCHANGED <<cloned, replacements, format, out, report, completed, assembled, verified, kills>>

\* Killed, or an error of a read or of a comparison of shapes.
KillBuild(n) ==
    /\ Running(n) /\ kills < MaxKills
    /\ job' = [job EXCEPT ![n] = NoJob] /\ kills' = kills + 1
    /\ UNCHANGED <<cloned, replacements, format, out, report, completed, assembled, verified>>

\* optimize_nvfp4_rounding.py on some matrices.  Nothing is compared with the base as a
\* whole, and the divisor is kept only if it was searched.  The file is read by the
\* verifier alone, so the run may as well follow the builders.
Samples(ms, u) ==
    [t \in ms \X (IF u \in SearchDivisor THEN Part ELSE {"packed", "scale"}) |-> u]

OptimizeSamples ==
    /\ replacements = NoReplacements
    /\ \A n \in Node : ~Running(n) /\ completed[n] = Share[n]
    /\ \E ms \in SUBSET Matrix \ {{}}, u \in Settings : replacements' = Samples(ms, u)
    /\ UNCHANGED <<cloned, format, out, report, completed, job, assembled, verified, kills>>

-----------------------------------------------------------------------------
\* The verifier, with --allow-global-divisor-changes and all build reports.

AllRows == UNION {report[n] : n \in Node}

\* Mutant: duplicates of a matrix are taken without a comparison.
RowsUncompared == TRUE

\* Rows of one matrix have the same search and the same divisor.
RowsAgree == \A i, j \in AllRows : i.matrix = j.matrix => i.settings = j.settings

PackedRows == {r \in AllRows : r.packed}

ReportsCover ==
    /\ {r.matrix : r \in AllRows} = Matrix
    /\ {r.matrix : r \in PackedRows} = Matrix

\* The matrices whose search came out worse as a whole, as the reports count them.
ReportedFallbacks == {m \in Matrix : \E r \in PackedRows :
    r.matrix = m /\ r.settings \in SearchDivisor \ Improves[m]}

\* verify_reference_replacements
AsSampled(dir) == \A t \in DOMAIN replacements : dir[Home[t]][t] = replacements[t]

\* Every shard has the names, shapes and dtypes of the base, and what is not to be
\* optimised the content of the base.
ContractHolds(dir) ==
    \A s \in Shard : DOMAIN dir[s] = Tensors(s) /\ dir[s][Other(s)] = "base"

\* The operator brings the shards of all nodes together, and verifies them; no
\* builder runs.
AssembleAndVerify ==
    /\ \A n \in Node : ~Running(n)
    /\ ~verified
    /\ assembled' = [s \in Shard |-> LET n == CHOOSE i \in Node : s \in Share[i] IN out[n][s]]
    /\ ContractHolds(assembled') /\ ReportsCover /\ RowsAgree /\ AsSampled(assembled')
    /\ verified' = TRUE
    /\ UNCHANGED <<cloned, replacements, format, out, report, completed, job, kills>>

Build(n) ==
    \/ \E targets \in SUBSET Share[n], u \in Settings : targets # {} /\ StartBuild(n, targets, u)
    \/ SkipCompleted(n) \/ BeginShard(n) \/ ComputeMatrix(n) \/ ReplaceShard(n) \/ SaveState(n)
    \/ FinishBuild(n) \/ KillBuild(n)

BuildNext ==
    \/ AssembleAndVerify
    \/ ~verified /\ (OptimizeSamples \/ \E n \in Node : Build(n))

-----------------------------------------------------------------------------
(* What passes the verifier was built whole: every matrix has its tensors  *)
(* from one run of the search under one setting, wherever they lie and     *)
(* however often the builders were killed and started again with other     *)
(* settings, and the reports are right about the matrices that fell back.  *)
(* A divisor in a shard that holds nothing else of its matrix is only      *)
(* known to be right if the matrix was sampled: a run without a search     *)
(* for divisors leaves no row there.  In a clone of the base the rest, too,*)
(* holds of sampled matrices only: a row is reported before the shard is   *)
(* replaced.                                                               *)
Sampled(m) == <<m, "packed">> \in DOMAIN replacements

Witnessed(m, p) ==
    p = "global" => Home[<<m, p>>] \in {Home[<<m, "packed">>], Home[<<m, "scale">>]}

VerifiedBuildIsWhole ==
    verified => \A m \in Matrix : ~cloned \/ Sampled(m) =>
        \E u \in Settings :
            /\ \A p \in Part : Witnessed(m, p) \/ Sampled(m) =>
                  assembled[Home[<<m, p>>]][<<m, p>>] = Result(m, p, u)
            /\ m \in ReportedFallbacks <=> u \in SearchDivisor \ Improves[m]
=============================================================================
