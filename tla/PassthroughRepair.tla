-------------------------- MODULE PassthroughRepair --------------------------
(***************************************************************************)
(* build-fp8-passthrough-checkpoint.sh: repair_redhat_fp8_passthrough.py   *)
(* writes a new checkpoint from a base and the official FP8 weights, and   *)
(* verify_redhat_fp8_passthrough.py compares every byte.  The loader of    *)
(* the server goes by the index and the config: a checkpoint without an    *)
(* index cannot be served.                                                 *)
(***************************************************************************)
EXTENDS Naturals, FiniteSets

CONSTANTS
    Bases,            \* checkpoints an operator may name as the base
    PassShard,        \* the shards of the base
    Reviewed,         \* bases whose FP8 candidates are those of the allowlist
    Truncated,        \* <<base, shard>> with a file that is shorter than its header says
    Exact,            \* bases whose BF16 weights are what the official FP8 ones decode to
    MaxPassKills      \* bound: runs killed

ASSUME PassAssumption ==
    /\ PassShard # {} /\ "absent" \notin Bases /\ MaxPassKills \in Nat
    /\ Reviewed \subseteq Bases /\ Exact \subseteq Bases
    /\ Truncated \subseteq Bases \X PassShard

VARIABLES
    outShard,         \* shard -> the base it was repaired from, or "absent"
    support,          \* the base the support files come from
    config,           \* config.json with the FP8 group: the base it is made from
    index,            \* model.safetensors.index.json: likewise
    manifest,         \* fp8-passthrough-manifest.json: likewise
    pass,             \* the run
    reopened,         \* history: --overwrite began on an output that has an index
    passVerified,     \* fp8-passthrough-verification.json: the base it was checked against
    passKills

passVars == <<outShard, support, config, index, manifest, pass, reopened, passVerified, passKills>>

Origins == Bases \cup {"absent"}
NoPass == [pc |-> "idle"]

PassTypeOK ==
    /\ outShard \in [PassShard -> Origins]
    /\ {support, config, index, manifest, passVerified} \subseteq Origins
    /\ reopened \in BOOLEAN /\ passKills \in 0..MaxPassKills

PassInit ==
    /\ outShard = [s \in PassShard |-> "absent"]
    /\ support = "absent" /\ config = "absent" /\ index = "absent" /\ manifest = "absent"
    /\ pass = NoPass /\ reopened = FALSE /\ passVerified = "absent" /\ passKills = 0

-----------------------------------------------------------------------------
PassAt(pc) == pass.pc = pc
PassTo(pc) == pass' = [pass EXCEPT !.pc = pc]

\* discover_restore_weights refuses a base with other candidates than were reviewed.
Discovered(b) == b \in Reviewed

\* Inputs and hashes are checked before; shards that exist need --overwrite.
StartPass(b, overwrite) ==
    /\ PassAt("idle") /\ Discovered(b)
    /\ overwrite \/ \A s \in PassShard : outShard[s] = "absent"
    /\ pass' = [pc |-> "support", base |-> b, left |-> PassShard]
    /\ reopened' = (reopened \/ index # "absent")
    /\ UNCHANGED <<outShard, support, config, index, manifest, passVerified, passKills>>

\* Mutant: the index is written before the shards, with the support files.
CopySupportAndIndex ==
    /\ PassAt("support") /\ PassTo("shards") /\ support' = pass.base /\ index' = pass.base
    /\ UNCHANGED <<outShard, config, manifest, reopened, passVerified, passKills>>

CopySupportFiles ==
    /\ PassAt("support") /\ PassTo("shards") /\ support' = pass.base
    /\ UNCHANGED <<outShard, config, index, manifest, reopened, passVerified, passKills>>

\* locate_shard and copy_range: a read that ends early is an error.
CopiesWhole(b, s) == <<b, s>> \notin Truncated

\* build_shard: a temporary file, fsync, os.replace; an error removes the temporary
\* file and ends the script.
BuildShard ==
    /\ PassAt("shards")
    /\ \E s \in pass.left :
          \/ /\ CopiesWhole(pass.base, s)
             /\ outShard' = [outShard EXCEPT ![s] = pass.base]
             /\ pass' = [pass EXCEPT !.left = @ \ {s}]
          \/ ~CopiesWhole(pass.base, s) /\ pass' = NoPass /\ UNCHANGED outShard
    /\ UNCHANGED <<support, config, index, manifest, reopened, passVerified, passKills>>

WriteConfig ==
    /\ PassAt("shards") /\ pass.left = {} /\ PassTo("index") /\ config' = pass.base
    /\ UNCHANGED <<outShard, support, index, manifest, reopened, passVerified, passKills>>

WriteIndex ==
    /\ PassAt("index") /\ PassTo("manifest") /\ index' = pass.base /\ reopened' = FALSE
    /\ UNCHANGED <<outShard, support, config, manifest, passVerified, passKills>>

WriteManifest ==
    /\ PassAt("manifest") /\ PassTo("verify") /\ manifest' = pass.base
    /\ UNCHANGED <<outShard, support, config, index, reopened, passVerified, passKills>>

\* require_equal_tensor_bytes: every tensor of a shard has the bytes of the base or of
\* the official checkpoint.  numeric_equivalence: what was replaced meant the same.
SameBytes(s) == outShard[s] = pass.base
NumericallyEqual == pass.base \in Exact

\* Index, config, the bytes of every tensor and the numbers; the report is written last.
VerifyPass ==
    /\ PassAt("verify")
    /\ passVerified' = IF NumericallyEqual /\ \A s \in PassShard : SameBytes(s)
                       THEN pass.base ELSE passVerified
    /\ pass' = NoPass
    /\ UNCHANGED <<outShard, support, config, index, manifest, reopened, passKills>>

KillPass ==
    /\ ~PassAt("idle") /\ passKills < MaxPassKills
    /\ passKills' = passKills + 1 /\ pass' = NoPass
    /\ UNCHANGED <<outShard, support, config, index, manifest, reopened, passVerified>>

PassNext ==
    \/ \E b \in Bases, overwrite \in BOOLEAN : StartPass(b, overwrite)
    \/ CopySupportFiles \/ BuildShard \/ WriteConfig \/ WriteIndex \/ WriteManifest
    \/ VerifyPass \/ KillPass

-----------------------------------------------------------------------------
\* The index is the commit record: once it exists, every shard is a repaired one and
\* the config says so, wherever runs were killed, and as long as nobody rewrites a
\* finished output, shards, support files, config and index come from one base.
IndexIsCommit ==
    index # "absent" =>
        /\ config # "absent" /\ \A s \in PassShard : outShard[s] # "absent"
        /\ ~reopened => /\ config = index /\ support = index
                        /\ \A s \in PassShard : outShard[s] = index
=============================================================================
