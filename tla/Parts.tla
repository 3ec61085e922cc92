------------------------------- MODULE Parts -------------------------------
(***************************************************************************)
(* The parts of the deployment that share no state with a running engine's *)
(* scheduler or with each other: the offline tools, the layers that        *)
(* compute one engine step, and the settings a start gives the ranks. An   *)
(* interleaving of two of them shows nothing that one alone does not show, *)
(* so a behaviour is one of a single part, and the others stay as they are.*)
(***************************************************************************)
EXTENDS KvCapture, CheckpointBuild, SharedScaleRepair, PassthroughRepair,
        DrafterKvLayout, KpoolIndexer, SparseAttention, DraftSpeculator, ScaleFit,
        ServingSettings

VARIABLE part

toolVars == <<captureVars, buildVars, repairVars, passVars>>
stepVars == <<kvVars, kpVars, spVars, dsVars>>
numericVars == <<fitVars, optVars>>
partsVars == <<part, toolVars, stepVars, numericVars, serveVars>>

(* A part whose inputs are chosen at the start has some fixed input while  *)
(* another part runs.                                                      *)
KvIdle == geo = (CHOOSE g \in Geometries : TRUE) /\ KvInit
SpIdle ==
    /\ seqs = <<>> /\ score = (CHOOSE f \in Scores : TRUE)
    /\ topk = <<>> /\ attended = <<>> /\ drafted = <<>>
OptIdle == matrix = <<>> /\ optimized = <<>>
ServeIdle == command = "direct" /\ asked = <<>> /\ stage = "idle" /\ env = <<>> /\ container = <<>>
FitIdle ==
    /\ capture = [r \in Root |-> <<>>] /\ gates = {} /\ heldout = {}
    /\ validated = [r \in Root |-> {}] /\ outer = One /\ latent = One /\ fitted = "idle"

ToolsInit == CaptureInit /\ BuildInit /\ RepairInit /\ PassInit

PartsInit ==
    /\ ToolsInit /\ KpInit /\ DsInit
    /\ part \in {"capture", "build", "repair", "passthrough", "indexer", "speculator",
                "layout", "attention", "rounding", "fit", "serve"}
    /\ part # "build" => ~cloned
    /\ IF part = "layout" THEN KvInit ELSE KvIdle
    /\ IF part = "attention" THEN SpInit ELSE SpIdle
    /\ IF part = "rounding" THEN OptInit ELSE OptIdle
    /\ IF part = "fit" THEN FitInit ELSE FitIdle
    /\ IF part = "serve" THEN ServeInit ELSE ServeIdle

ToolsNext ==
    /\ \/ part = "capture" /\ CaptureNext /\ UNCHANGED <<buildVars, repairVars, passVars>>
       \/ part = "build" /\ BuildNext /\ UNCHANGED <<captureVars, repairVars, passVars>>
       \/ part = "repair" /\ RepairNext /\ UNCHANGED <<captureVars, buildVars, passVars>>
       \/ part = "passthrough" /\ PassNext /\ UNCHANGED <<captureVars, buildVars, repairVars>>
    /\ UNCHANGED <<part, stepVars, numericVars, serveVars>>

StepNext ==
    /\ \/ part = "layout" /\ KvNext /\ UNCHANGED <<kpVars, spVars, dsVars>>
       \/ part = "indexer" /\ KpNext /\ UNCHANGED <<kvVars, spVars, dsVars>>
       \/ part = "attention" /\ AttentionStep /\ UNCHANGED <<kvVars, kpVars, dsVars>>
       \/ part = "speculator" /\ DsNext /\ UNCHANGED <<kvVars, kpVars, spVars>>
    /\ UNCHANGED <<part, toolVars, numericVars, serveVars>>

NumericNext ==
    /\ \/ part = "rounding" /\ OptimizeMatrix /\ UNCHANGED fitVars
       \/ part = "fit" /\ FitNext /\ UNCHANGED optVars
    /\ UNCHANGED <<part, toolVars, stepVars, serveVars>>

SettingsNext == part = "serve" /\ ServeNext /\ UNCHANGED <<part, toolVars, stepVars, numericVars>>

PartsNext == ToolsNext \/ StepNext \/ NumericNext \/ SettingsNext

PartsSpec == PartsInit /\ [][PartsNext]_partsVars
=============================================================================
