--------------------------- MODULE DrafterKvLayout ---------------------------
(***************************************************************************)
(* The KV cache layout once the drafter's sliding-window layers are part   *)
(* of it, as patch_glm5_drafter_group.py writes it into vLLM.  Start-up    *)
(* computes one geometry in functions that never see each other's locals:  *)
(* the grouping decides whether a drafter layer rides an MLA tensor, the   *)
(* layout finds that out again from the groups, the config emits tensors,  *)
(* and the memory check and the pool size charge for them.  The accounting *)
(* log and its report (patch_kv_accounting.py, kv_accounting_report.py)    *)
(* count it all once more, from the outside.                               *)
(*                                                                         *)
(* Sizes are bytes, a layer is a pair <<kind, index>>, a geometry is what  *)
(* target and drafter declare, with the memory there is.                   *)
(***************************************************************************)
EXTENDS Integers, FiniteSets, FiniteSetsExt

CONSTANT Geometries

\* What the target and the drafter declare: a model has MLA layers, and every
\* page has bytes.
ASSUME LayoutAssumption ==
    Geometries \subseteq
        [mlaBlock : Nat \ {0}, mlaToken : Nat \ {0}, idxPage : Nat, mlas : Nat \ {0}, mambas : Nat,
         drafts : Nat, draftToken : Nat \ {0}, draftBlock : Nat \ {0}, padded : BOOLEAN,
         foreign : BOOLEAN, dcp : Nat \ {0}, stateBlocks : Nat, window : Nat \ {0},
         inFlight : Nat, maxLen : Nat, available : Nat]

VARIABLES
    kvStage,  \* the last function that has returned, or "refused"
    geo,      \* the geometry of this start
    draft,    \* the drafter's group
    tensors,  \* the tensors of the config
    blocks    \* the number of blocks of the pool

kvVars == <<kvStage, geo, draft, tensors, blocks>>

MlaPage == geo.mlaBlock * geo.mlaToken
NoDraft == [layers |-> {}, block |-> 0, page |-> 0, padded |-> FALSE]

KvInit ==
    /\ geo \in Geometries
    /\ kvStage = "specs" /\ draft = NoDraft /\ tensors = {} /\ blocks = 0

----------------------------------------------------------------------------
(* _get_kv_cache_groups_glm5_next: drafter layers are partitioned out, and *)
(* their block is rescaled if its page then fills an MLA page exactly.  A  *)
(* model without mamba layers or with a foreign layer is not for this path *)

FitBlock == IF MlaPage % geo.draftToken = 0 THEN MlaPage \div geo.draftToken ELSE 0

ExactFit ==
    /\ FitBlock # 0
    /\ FitBlock % 64 = 0
    /\ FitBlock % geo.mlaBlock = 0 \/ geo.mlaBlock % FitBlock = 0
    /\ geo.drafts <= geo.mlas

DraftGroup ==
    LET block == IF ExactFit THEN FitBlock ELSE geo.draftBlock IN
    IF geo.drafts = 0 THEN NoDraft
    ELSE [layers |-> {<<"draft", i>> : i \in 1 .. geo.drafts},
          block  |-> block,
          page   |-> block * geo.draftToken,
          padded |-> geo.padded]

BuildGroups ==
    /\ kvStage = "specs"
    /\ IF geo.mambas = 0 \/ geo.foreign
       THEN kvStage' = "refused" /\ UNCHANGED draft
       ELSE kvStage' = "groups" /\ draft' = DraftGroup
    /\ UNCHANGED <<geo, tensors, blocks>>

(* _glm5_next_tensor_layout: a padded drafter has no valid view, and one   *)
(* whose page is an MLA page needs a tensor for each layer.                *)
LayoutIgnoresPadding ==  \* a variant
    draft.layers # {} => ~ (draft.page = MlaPage /\ Cardinality(draft.layers) > geo.mlas)

LayoutAccepts ==
    draft.layers # {} =>
        /\ ~ draft.padded
        /\ ~ (draft.page = MlaPage /\ Cardinality(draft.layers) > geo.mlas)

TensorLayout ==
    /\ kvStage = "groups"
    /\ kvStage' = IF LayoutAccepts THEN "layout" ELSE "refused"
    /\ UNCHANGED <<geo, draft, tensors, blocks>>

----------------------------------------------------------------------------
(* The three consumers of the layout, each with its own sum.               *)

BaseBytes == geo.mlas * (MlaPage + geo.idxPage)
DraftShared == draft.page = MlaPage

PoolBytesPerBlock ==
    BaseBytes + (IF draft.layers # {} /\ draft.page # MlaPage
                 THEN Cardinality(draft.layers) * draft.page ELSE 0)

ConfigPerBlock ==
    BaseBytes + (IF draft.layers # {} /\ ~ DraftShared
                 THEN Cardinality(draft.layers) * draft.page ELSE 0)

(* What one request of the greatest length may hold: the target's cache is *)
(* split over the DCP ranks, its indexer tail takes a block, each group of *)
(* mamba layers the blocks of its state, and the drafter's window is kept  *)
(* whole on every rank, with a block more since it may begin inside one.   *)
Ceil(n, d) == (n + d - 1) \div d

MambaGroups == Ceil(geo.mambas, geo.mlas)
TargetDemand == Ceil(geo.maxLen, geo.mlaBlock * geo.dcp) + 1 + MambaGroups * geo.stateBlocks
WindowDemand == Ceil(Min({geo.window - 1 + geo.inFlight, geo.maxLen}), draft.block) + 1

BlocksNeeded == TargetDemand + (IF draft.layers = {} THEN 0 ELSE WindowDemand)

MaxMemoryOfBase == BlocksNeeded * BaseBytes  \* a variant: drafter pages left out

MaxMemoryUsage ==
    BlocksNeeded * (BaseBytes + (IF draft.layers # {} /\ draft.page # MlaPage
                                 THEN Cardinality(draft.layers) * draft.page ELSE 0))

\* The stock memory check refuses a start whose longest request does not fit.
CheckMemory ==
    /\ kvStage = "layout"
    /\ kvStage' = IF MaxMemoryUsage <= geo.available THEN "checked" ELSE "refused"
    /\ UNCHANGED <<geo, draft, tensors, blocks>>

(* get_kv_cache_config_from_groups: mamba layers are dealt over the MLA    *)
(* tensors, the indexer and its tail share one, and drafter layer i rides  *)
(* MLA tensor i or has a tensor of its own.                                *)
MlaTensor(i, n) ==
    [name |-> <<"mla", i>>, size |-> MlaPage * n,
     sharedBy |-> {<<"mla", i>>}
        \cup {<<"mamba", k>> : k \in {k \in 1 .. geo.mambas : (k - 1) \div MambaGroups = i - 1}}
        \cup (IF DraftShared THEN draft.layers \cap {<<"draft", i>>} ELSE {})]

EmitConfig ==
    /\ kvStage = "checked"
    /\ LET n == geo.available \div ConfigPerBlock IN
        /\ blocks' = n
        /\ tensors' = {MlaTensor(i, n) : i \in 1 .. geo.mlas}
            \cup {[name |-> <<"index", i>>, size |-> geo.idxPage * n,
                   sharedBy |-> {<<"index", i>>, <<"tail", i>>}] : i \in 1 .. geo.mlas}
            \cup (IF DraftShared THEN {}
                  ELSE {[name |-> l, size |-> draft.page * n, sharedBy |-> {l}] : l \in draft.layers})
    /\ kvStage' = "config"
    /\ UNCHANGED <<geo, draft>>

(* The log entry of the config, and the report on it: demand per request   *)
(* worked out from the logged specs of the groups.                         *)
TensorBytes == MapThenSumSet(LAMBDA t : t.size, tensors)
TensorIdentityError == TensorBytes - blocks * PoolBytesPerBlock
AllocatorTail == geo.available - TensorBytes

LoggedGroups ==
    {<<"mla", 1>>, <<"tail", 1>>} \cup {<<"mamba", i>> : i \in 1 .. MambaGroups}
        \cup (IF draft.layers = {} THEN {} ELSE {<<"draft", 1>>})

ReportedBlocks(group) ==
    CASE group[1] = "mla" -> Ceil(geo.maxLen, geo.mlaBlock * geo.dcp)
      [] group[1] = "tail" -> 1
      [] group[1] = "mamba" -> geo.stateBlocks
      [] group[1] = "draft" ->
            Ceil(Min({geo.window - 1 + geo.inFlight, geo.maxLen}), draft.block) + 1

BlocksPerRequest == MapThenSumSet(ReportedBlocks, LoggedGroups)
WholeConcurrentRequests == blocks \div BlocksPerRequest

Summarize ==
    /\ kvStage = "config"
    /\ kvStage' = IF TensorIdentityError # 0 \/ AllocatorTail < 0 THEN "rejected" ELSE "reported"
    /\ UNCHANGED <<geo, draft, tensors, blocks>>

KvNext == BuildGroups \/ TensorLayout \/ CheckMemory \/ EmitConfig \/ Summarize

----------------------------------------------------------------------------
(* Where the runner puts block b of a layer.  A backend may split a block  *)
(* into kernel blocks of 64, 32 or 16 tokens; the view is contiguous, and  *)
(* a padded one has the whole page as the stride of a kernel block.        *)

KernelBlock(block) == Max({k \in {1, 16, 32, 64} : block % k = 0})

Span(layer, b) ==
    CASE layer[1] = "draft" ->
            LET kernel == KernelBlock(draft.block)
                stride == IF draft.padded THEN draft.page ELSE kernel * geo.draftToken
                first == b * (draft.block \div kernel) IN
            <<first * stride,
              (first + draft.block \div kernel - 1) * stride + kernel * geo.draftToken>>
      [] layer[1] \in {"mla", "mamba"} -> <<b * MlaPage, (b + 1) * MlaPage>>
      [] layer[1] \in {"index", "tail"} -> <<b * geo.idxPage, (b + 1) * geo.idxPage>>

AllLayers ==
    draft.layers \cup {<<"mamba", k>> : k \in 1 .. geo.mambas}
        \cup {<<kind, i>> : kind \in {"mla", "index", "tail"}, i \in 1 .. geo.mlas}

(* Every layer, the drafter's included, has exactly one tensor, and two    *)
(* layers that share it never touch the same byte through different blocks *)
(* of the one pool, however the backend splits a block: what slot sharing  *)
(* with mamba layers rests on.                                             *)
LayersShareSafely ==
    kvStage = "config" =>
        /\ \A l \in AllLayers : Cardinality({t \in tensors : l \in t.sharedBy}) = 1
        /\ \A t \in tensors : \A l, m \in t.sharedBy : \A b, c \in 0 .. blocks - 1 :
            /\ Span(l, b)[2] <= t.size
            /\ b < c => Span(l, b)[2] <= Span(m, c)[1]

(* The tensors cost what the pool is said to cost per block, what is left  *)
(* of the memory is less than a block, and a start that passed the memory  *)
(* check has the blocks its longest request needs: the report never        *)
(* rejects it, and finds room for that request.                            *)
AccountsAgree ==
    /\ kvStage # "rejected"
    /\ kvStage = "config" =>
        /\ TensorIdentityError = 0
        /\ AllocatorTail \in 0 .. PoolBytesPerBlock - 1
        /\ BlocksNeeded <= blocks
    /\ kvStage = "reported" => WholeConcurrentRequests >= 1

KvTypeOK ==
    /\ kvStage \in {"specs", "groups", "layout", "checked", "config", "refused", "reported", "rejected"}
    /\ geo \in Geometries
    /\ draft.layers \subseteq {<<"draft", i>> : i \in 1 .. geo.drafts}
    /\ blocks \in Nat
=============================================================================
