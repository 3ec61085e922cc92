--------------------------- MODULE DraftSpeculator ---------------------------
(***************************************************************************)
(* The draft side of speculative decoding: a block of query tokens per     *)
(* request gives candidates for every draft step, a walk draws one token   *)
(* per step from the scores its predecessor gives the candidates, and the  *)
(* distribution each token was drawn from is kept for the rejection        *)
(* sampler of the next step (overlay-dflash2/dflash2/speculator.py,        *)
(* overlay-dflash2/qwen3_dflash2.py).                                      *)
(*                                                                         *)
(* Slots are the request states; rows are those of a step's batch, padded  *)
(* to the width of a captured graph.  Hidden states are left out but for   *)
(* the requests they were computed from; scores are small numbers.         *)
(***************************************************************************)
EXTENDS Integers, Sequences, FiniteSets, SequencesExt, FiniteSetsExt, Functions

CONSTANTS
    Slot,          \* request states
    Steps,         \* num_speculative_steps
    Vocab,
    TopK,          \* selector_top_k
    Taps,          \* conv_kernel_size
    GraphBatches,  \* VLLM_DFLASH_CUDAGRAPH_BATCHES
    Anchors,       \* tokens a draft may start from
    Edge           \* predecessor -> successor -> score

ASSUME SpeculatorAssumption ==
    /\ {Steps, TopK, Taps} \subseteq Nat \ {0}
    /\ TopK <= Cardinality(Vocab) /\ Anchors \subseteq Vocab
    \* init_cudagraph_manager refuses other request counts.
    /\ GraphBatches \subseteq 1 .. Cardinality(Slot) /\ GraphBatches # {}

VARIABLES
    draftLogits,  \* slot -> step -> token -> score, NoScore for minus infinity
    cachedIds,    \* slot -> step -> candidates of the last draft
    pending       \* slot -> the draft that waits for verification, or NoDrafts

dsVars == <<draftLogits, cachedIds, pending>>

NoScore == 0
NoDrafts == [row |-> 0]
DraftStep == 1 .. Steps
AnyToken == CHOOSE t \in Vocab : TRUE
QueryBlock == 1 + Steps  \* num_query_per_req

DsInit ==
    /\ draftLogits = [s \in Slot |-> [k \in DraftStep |-> [t \in Vocab |-> NoScore]]]
    /\ cachedIds = [s \in Slot |-> [k \in DraftStep |-> {AnyToken}]]
    /\ pending = [s \in Slot |-> NoDrafts]

----------------------------------------------------------------------------
(* Only blocks of whole requests are captured; a batch runs in the         *)
(* narrowest graph that holds its tokens, or as it is.                     *)
CaptureSizes == {b * QueryBlock : b \in GraphBatches}

Width(n) ==
    LET fit == {size \in CaptureSizes : size >= n * QueryBlock}
    IN  IF fit # {} THEN Min(fit) \div QueryBlock ELSE n

(* _grouped_conv: each query token takes in the ones before it, within its *)
(* block; a row of padding is a block as any other.                        *)
ReachAcross(query) == 0 .. Taps - 1  \* a variant: up to the start of the batch
Reach(query) == {tap \in 0 .. Taps - 1 : query % QueryBlock >= tap}

(* A convolution before and one after the attention, and both again around *)
(* the MLP; the attention stays within the request.                        *)
Convolved(queries) == UNION {{q - tap : tap \in {tap \in Reach(q) : tap <= q}} : q \in queries}
LayerSees(queries) == Convolved(Convolved(Convolved(Convolved(queries))))

RowsSeen(row, width) ==
    {q \div QueryBlock + 1 : q \in LayerSees((row - 1) * QueryBlock .. row * QueryBlock - 1)}
        \cap 1 .. width

----------------------------------------------------------------------------
(* _score_edges: every candidate of a step is scored after every candidate *)
(* of the step before, or after the anchor.                                *)
ScoreEdges(d) ==
    [k \in DraftStep |-> [before \in IF k = 1 THEN {d.anchor} ELSE d.candidates[k - 1] |->
        [t \in d.candidates[k] |-> Edge[before][t]]]]

(* _selector_walk_kernel: of those, the walk keeps the scores after the    *)
(* token the step before chose.                                            *)
RealizedFirst(d) ==  \* a variant: the score row of the first candidate throughout
    [k \in DraftStep |-> ScoreEdges(d)[k][IF k = 1 THEN d.anchor ELSE Min(d.candidates[k - 1])]]

Realized(d) ==
    [k \in DraftStep |-> ScoreEdges(d)[k][IF k = 1 THEN d.anchor ELSE d.tokens[k - 1]]]

(* _cache_draft_logits_kernel: the last candidates are erased before the   *)
(* new ones are written.                                                   *)
KeepOld(logits, old, scores) ==  \* a variant: nothing is erased
    [t \in Vocab |-> IF t \in DOMAIN scores THEN scores[t] ELSE logits[t]]

Rewrite(logits, old, scores) ==
    [t \in Vocab |-> IF t \in DOMAIN scores THEN scores[t] ELSE IF t \in old THEN NoScore ELSE logits[t]]

(* gumbel_noised_argmax: the noise may put any candidate first.            *)
Drawn(candidates) == candidates

\* What the walk may draw for a row.
Drafts(row, width) ==
    {d \in [row : {row}, seen : {RowsSeen(row, width)}, anchor : Anchors,
            candidates : [DraftStep -> kSubset(TopK, Vocab)], tokens : [DraftStep -> Vocab]] :
        \A k \in DraftStep : d.tokens[k] \in Drawn(d.candidates[k])}

(* _generate_draft for the requests of a batch, in row order.  The rows    *)
(* between the batch and the graph's width have no slot and write nothing. *)
Draft(batch) ==
    LET Drafted == ToSet(batch)
        RowOf(s) == CHOOSE r \in DOMAIN batch : batch[r] = s
    IN  /\ \A s \in Drafted : pending[s] = NoDrafts
        /\ \E d \in [Drafted -> UNION {Drafts(r, Width(Len(batch))) : r \in DOMAIN batch}] :
            /\ \A s \in Drafted : d[s].row = RowOf(s)
            /\ pending' = [s \in Slot |-> IF s \in Drafted THEN d[s] ELSE pending[s]]
            /\ cachedIds' = [s \in Slot |-> IF s \in Drafted THEN d[s].candidates ELSE cachedIds[s]]
            /\ draftLogits' = [s \in Slot |-> IF s \in Drafted
                   THEN [k \in DraftStep |-> Rewrite(draftLogits[s][k], cachedIds[s][k], Realized(d[s])[k])]
                   ELSE draftLogits[s]]

\* The target has verified a slot's drafts, or its request has left.
Verified(s) ==
    /\ pending[s] # NoDrafts
    /\ pending' = [pending EXCEPT ![s] = NoDrafts]
    /\ UNCHANGED <<draftLogits, cachedIds>>

DsNext ==
    \/ \E batch \in {b \in SeqOf(Slot, Cardinality(Slot)) : b # <<>> /\ IsInjective(b)} : Draft(batch)
    \/ \E s \in Slot : Verified(s)

(* The distribution the rejection sampler reads for a pending draft is the *)
(* one each of its tokens was drawn from, given the tokens before it:      *)
(* nothing of an older draft of the slot is left in it, and the draft was  *)
(* computed from its own request alone.                                    *)
RejectionReadsProposal ==
    \A s \in Slot : pending[s] # NoDrafts =>
        /\ pending[s].seen = {pending[s].row}
        /\ \A k \in DraftStep :
            LET before == IF k = 1 THEN pending[s].anchor ELSE pending[s].tokens[k - 1] IN
            draftLogits[s][k] = [t \in Vocab |->
                IF t \in pending[s].candidates[k] THEN Edge[before][t] ELSE NoScore]
=============================================================================
