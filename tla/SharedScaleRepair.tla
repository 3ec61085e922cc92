-------------------------- MODULE SharedScaleRepair --------------------------
(***************************************************************************)
(* repair-w13-shared-scale-checkpoint.sh clones a checkpoint with hard     *)
(* links and runs probes/repair_nvfp4_w13_shared_scale.py on the clone: it *)
(* restores the W1/W3 tensors of a reference checkpoint shard by shard,    *)
(* can be killed and run again, and judges the result.                     *)
(*                                                                         *)
(* A tensor is known by the checkpoint it comes from.                      *)
(***************************************************************************)
EXTENDS Naturals, FiniteSets

CONSTANTS
    W13, Rest,        \* tensors of gate and up projections; all others
    RepairHome,       \* tensor -> shard
    GlobalPair,       \* the two global scales of an expert, which must be equal
    Reference,        \* checkpoints an operator may name as the reference
    MaxRepairKills    \* bound: runs killed

ASSUME RepairAssumption ==
    /\ W13 # {} /\ W13 \cap Rest = {} /\ W13 \cup Rest = DOMAIN RepairHome
    /\ GlobalPair \subseteq W13 \X W13
    /\ "current" \notin Reference
    /\ MaxRepairKills \in Nat

VARIABLES
    clone,            \* output shard -> its tensors
    cloneIndex,       \* the output has its model.safetensors.index.json
    begun, cut,       \* the output exists; history: cp -al did not run to its end
    restored,         \* completed_shards of w13-shared-scale-repair-state.json
    repair,           \* the run
    verdict,          \* w13-shared-scale-repair-verification.json, and who wrote it
    redone,           \* history: shards restored since the verdict
    repairKills

repairVars == <<clone, cloneIndex, begun, cut, restored, repair, verdict, redone, repairKills>>

RepairShard == {RepairHome[t] : t \in DOMAIN RepairHome}
OfShard(s) == {t \in DOMAIN RepairHome : RepairHome[t] = s}
Unlinked == [t \in {} |-> "current"]
Current(s) == [t \in OfShard(s) |-> "current"]

\* target_names_by_shard
FullPlan == {RepairHome[t] : t \in W13}

NoRun == [pc |-> "idle"]
NoVerdict == [plan |-> {}]

RepairTypeOK ==
    /\ \A s \in RepairShard : clone[s] \in {Unlinked} \cup [OfShard(s) -> {"current"} \cup Reference]
    /\ cloneIndex \in BOOLEAN /\ begun \in BOOLEAN /\ cut \in BOOLEAN
    /\ restored \subseteq FullPlan /\ redone \subseteq FullPlan /\ verdict.plan \subseteq FullPlan
    /\ repairKills \in 0..MaxRepairKills

RepairInit ==
    /\ clone = [s \in RepairShard |-> Unlinked]
    /\ cloneIndex = FALSE /\ begun = FALSE /\ cut = FALSE
    /\ restored = {} /\ repair = NoRun /\ verdict = NoVerdict
    /\ redone = {} /\ repairKills = 0

-----------------------------------------------------------------------------
RepairAt(pc) == repair.pc = pc

\* validate_indexes: the output has the index of the current checkpoint, which is linked
\* into it, and every reference has the W1/W3 tensors.
IndexesValid == cloneIndex

\* A run of the script, for all shards or for some.  It clones unless the output
\* exists, and refuses an output without an index.  The program can also be run on
\* an output as it is, only to verify it.  Neither looks at an earlier verdict, nor
\* at the reference of the shards already restored.
StartRepair(reference, plan, only) ==
    /\ RepairAt("idle")
    /\ only => begun
    /\ begun => IndexesValid
    /\ repair' = [pc |-> IF begun THEN "next" ELSE "clone", reference |-> reference,
                  plan |-> plan, only |-> only, todo |-> IF only THEN {} ELSE plan]
    /\ begun' = TRUE
    /\ UNCHANGED <<clone, cloneIndex, cut, restored, verdict, redone, repairKills>>

\* cp -al links one file after the other, in the order of the directory.
LinkShard ==
    /\ RepairAt("clone")
    /\ \E s \in RepairShard : clone[s] = Unlinked /\ clone' = [clone EXCEPT ![s] = Current(s)]
    /\ UNCHANGED <<cloneIndex, begun, cut, restored, repair, verdict, redone, repairKills>>

LinkIndex ==
    /\ RepairAt("clone") /\ ~cloneIndex /\ cloneIndex' = TRUE
    /\ UNCHANGED <<clone, begun, cut, restored, repair, verdict, redone, repairKills>>

CloneWhole ==
    /\ RepairAt("clone") /\ IndexesValid /\ \A s \in RepairShard : clone[s] # Unlinked
    /\ repair' = [repair EXCEPT !.pc = "next"]
    /\ UNCHANGED <<clone, cloneIndex, begun, cut, restored, verdict, redone, repairKills>>

SkipRestored ==
    /\ RepairAt("next")
    /\ \E s \in repair.todo \cap restored : repair' = [repair EXCEPT !.todo = @ \ {s}]
    /\ UNCHANGED <<clone, cloneIndex, begun, cut, restored, verdict, redone, repairKills>>

\* replace_shard: the current shard with the tensors of the reference, in a new
\* file that takes the place of the link.
RestoreShard ==
    /\ RepairAt("next")
    /\ \E s \in repair.todo \ restored :
          /\ clone' = [clone EXCEPT ![s] =
                          [t \in OfShard(s) |-> IF t \in W13 THEN repair.reference ELSE "current"]]
          /\ repair' = [pc |-> "save", reference |-> repair.reference, plan |-> repair.plan,
                        only |-> repair.only, todo |-> repair.todo \ {s}, shard |-> s]
          /\ redone' = redone \cup {s}
    /\ UNCHANGED <<cloneIndex, begun, cut, restored, verdict, repairKills>>

SaveRestored ==
    /\ RepairAt("save")
    /\ restored' = restored \cup {repair.shard}
    /\ repair' = [pc |-> "next", reference |-> repair.reference, plan |-> repair.plan,
                  only |-> repair.only, todo |-> repair.todo]
    /\ UNCHANGED <<clone, cloneIndex, begun, cut, verdict, redone, repairKills>>

Readable(s) == clone[s] # Unlinked
Origin(t) == clone[RepairHome[t]][t]

\* Mutant: shards an earlier run has finished are not looked at again.
ContentOfThisRun ==
    \A s \in repair.plan \ restored :
        Readable(s) /\ \A t \in OfShard(s) \cap W13 : Origin(t) = repair.reference

\* validate_restored_content
RestoredContent ==
    \A s \in repair.plan : Readable(s) /\ \A t \in OfShard(s) \cap W13 : Origin(t) = repair.reference

\* validate_shared_global_scales: the current checkpoint is here because they
\* differ in it, those of one reference are equal.
SharedGlobalScales ==
    \A pair \in GlobalPair :
        /\ Readable(RepairHome[pair[1]]) /\ Readable(RepairHome[pair[2]])
        /\ Origin(pair[1]) = Origin(pair[2]) /\ Origin(pair[1]) # "current"

Judge ==
    /\ RepairAt("next") /\ repair.todo = {}
    /\ IF RestoredContent /\ SharedGlobalScales
       THEN /\ verdict' = [plan |-> repair.plan, reference |-> repair.reference, only |-> repair.only]
            /\ redone' = {}
       ELSE UNCHANGED <<verdict, redone>>
    /\ repair' = NoRun
    /\ UNCHANGED <<clone, cloneIndex, begun, cut, restored, repairKills>>

KillRepair ==
    /\ ~RepairAt("idle") /\ repairKills < MaxRepairKills
    /\ repairKills' = repairKills + 1 /\ repair' = NoRun
    /\ cut' = (cut \/ RepairAt("clone"))
    /\ UNCHANGED <<clone, cloneIndex, begun, restored, verdict, redone>>

RepairNext ==
    \/ \E reference \in Reference, plan \in SUBSET FullPlan \ {{}} :
          \E only \in BOOLEAN : StartRepair(reference, plan, only)
    \/ LinkShard \/ LinkIndex \/ CloneWhole \/ SkipRestored \/ RestoreShard \/ SaveRestored
    \/ Judge \/ KillRepair

-----------------------------------------------------------------------------
\* The verdict of a script that restored and verified all shards is final: every
\* W1/W3 tensor is and stays that of the reference it was verified against, whatever
\* runs with other references came before, or come after and are killed.  A verdict
\* of --verify-only also covers shards the state file does not name, and says nothing
\* of those once a later run restores them.  All other tensors are those of the current
\* checkpoint if the clone was complete; one cut short after its index is not noticed.
VerifiedRepairIsWhole ==
    verdict.plan = FullPlan =>
        /\ \A t \in W13 : \/ Origin(t) = verdict.reference
                         \/ (verdict.only /\ RepairHome[t] \in redone)
        /\ ~cut => \A s \in RepairShard : Readable(s) /\ \A t \in OfShard(s) \ W13 : Origin(t) = "current"
=============================================================================
