--------------------------- MODULE SparseAttention ---------------------------
(***************************************************************************)
(* Selection and attention over a sequence that is sharded: each rank      *)
(* scores the pools it stores, the best of all ranks are merged, expanded  *)
(* to tokens and joined by the tokens after the last whole pool; then each *)
(* rank attends to those of the tokens it stores, and the partial results  *)
(* are combined by their log-sum-exp                                       *)
(* (docker/sparse_attn_indexer_kpool_sm121.py,                             *)
(* overlay-dflash2/patch_vllm_heterogeneous_dcp.py).                       *)
(*                                                                         *)
(* A behaviour is one step of one layer, for any batch and any scores, all *)
(* different.  A result is the set of tokens it was computed from.         *)
(***************************************************************************)
EXTENDS Integers, FiniteSets, FiniteSetsExt, Functions

CONSTANTS
    Pool,       \* index_kpool
    Ranks,      \* decode_context_parallel_size
    TokenStripe, \* cp_kv_cache_interleave_size
    Chosen,     \* pools a query selects, topk_tokens \div index_kpool
    ModelLen,   \* max_model_len
    Block,      \* tokens in a block of any cache group, of one rank
    DraftSteps, \* speculative blocks of a recurrent state
    DecodeRows, \* num_speculative_tokens + 1: more queries are a prefill
    MaxSeqs,    \* max_num_seqs
    MaxBatched, \* max_num_batched_tokens
    SlidingWindow, \* sliding_window of the drafter's layers
    Scores      \* score functions of pools that are tried

ASSUME SparseAssumption ==
    /\ {Pool, Ranks, TokenStripe, Chosen, ModelLen, Block, DecodeRows, MaxSeqs, MaxBatched,
       SlidingWindow} \subseteq Nat \ {0}
    /\ DraftSteps \in Nat
    /\ Block % Pool = 0
    \* The merge places a pool by the stripe of tokens, the writer pool by pool.
    /\ TokenStripe = 1
    \* The profiler reserves no more rows than a step has tokens, a padded step
    \* may have more; the profiles leave room for every request's drafts.
    /\ MaxBatched >= MaxSeqs * DecodeRows
    \* Only the order of scores matters.
    /\ Scores \subseteq [0 .. ModelLen \div Pool - 1 -> Nat]

VARIABLES
    seqs,      \* the step's requests in batch order: [len, query, decode]
    score,     \* pool -> what every query of the step scores it
    topk,      \* topk_indices_buffer: request -> position -> selected tokens
    attended,  \* request -> position -> tokens in the combined result
    drafted    \* decoding request -> rank -> position -> keys a drafter layer attends to

spVars == <<seqs, score, topk, attended, drafted>>

Junk == [req |-> 0, pos |-> 0]
Shards == 0 .. Ranks - 1
CeilDiv(a, b) == (a + b - 1) \div b
QueriesOf(s) == s.len - s.query .. s.len - 1
WholePools(len) == 0 .. len \div Pool - 1

----------------------------------------------------------------------------
(* The pools of a rank, in its own numbering, and back.                    *)
LocalCount(rank, len) == Cardinality({p \in WholePools(len) : p % Ranks = rank})
GlobalPool(rank, local) == local * Ranks + rank

(* Prefill gathers the keys of a chunk's requests one after the other into *)
(* a workspace, each from the sum of those before it (local_cu_seq_lens);  *)
(* a row sees its own request's keys only.  Requests share a chunk while   *)
(* their keys fit the bound, one request of full length.                   *)
Workspace == CeilDiv(ModelLen, Pool)

Prefills == {i \in DOMAIN seqs : ~seqs[i].decode}
ChunkOf(r) ==
    IF seqs[r].decode \/ FoldFunction(+, 0, [i \in Prefills |-> seqs[i].len \div Pool]) > Workspace
    THEN {r} ELSE Prefills

KeysOf(rank, requests) == FoldFunction(+, 0, [i \in requests |-> LocalCount(rank, seqs[i].len)])
Start(rank, chunk, r) == KeysOf(rank, {i \in chunk : i < r})

Keys(rank, chunk) ==
    [j \in 0 .. KeysOf(rank, chunk) - 1 |->
        LET i == CHOOSE i \in chunk :
                    j - Start(rank, chunk, i) \in 0 .. LocalCount(rank, seqs[i].len) - 1
        IN  [req |-> i, pool |-> GlobalPool(rank, j - Start(rank, chunk, i))]]

(* The best of a set of scored candidates, as many as a query selects.     *)
Best(cands) ==
    {c \in cands : Cardinality({d \in cands : d.score > c.score}) < Chosen}

(* mqa_logits_mxfp4: a prefill row's scores of the workspace from its own  *)
(* request's start to its own end, the rest masked.                        *)
GatheredLogits(rank, r, pos) ==
    LET chunk == ChunkOf(r)
        keys == Keys(rank, chunk)
        start == Start(rank, chunk, r)
    IN  [j \in start .. start + LocalCount(rank, pos + 1) - 1 |-> score[keys[j].pool]]

(* Decode rows are padded to one width, requests one after the other, and  *)
(* the kernel takes the request from the row; a row reads its own pages.   *)
Decodes == {i \in DOMAIN seqs : seqs[i].decode}
NextN == Max({seqs[i].query : i \in Decodes})
GridRow(r, pos) == (r - 1) * NextN + (pos - (seqs[r].len - seqs[r].query))
GridLen(row) == LET s == seqs[row \div NextN + 1] IN s.len - s.query + (row % NextN) + 1

Page == Block \div Pool
BlockTable(r) == [page \in 0 .. CeilDiv(ModelLen, Page) |-> [req |-> r, page |-> page]]
PooledAt(rank, page, slot) == [req |-> page.req, pool |-> GlobalPool(rank, page.page * Page + slot)]

PagedLogits(rank, row) ==
    LET table == BlockTable(row \div NextN + 1)
        Key(j) == PooledAt(rank, table[j \div Page], j % Page)
    IN  [j \in 0 .. LocalCount(rank, GridLen(row)) - 1 |-> score[Key(j).pool]]

(* top_k_per_row: indices counted in the row of the logits.                *)
Candidates(rank, logits, start) ==
    {[local |-> j, start |-> start, rank |-> rank, score |-> logits[j]] : j \in DOMAIN logits}

LocalBest(rank, r, pos) ==
    IF seqs[r].decode THEN Best(Candidates(rank, PagedLogits(rank, GridRow(r, pos)), 0))
    ELSE Best(Candidates(rank, GatheredLogits(rank, r, pos), Start(rank, ChunkOf(r), r)))

MergeAbsolute(cands) ==  \* a variant: indices of the workspace taken for those of the row
    {GlobalPool(c.rank, c.local) : c \in Best(cands)}

(* _merge_dcp_topk_global.                                                 *)
Merge(cands) ==
    {GlobalPool(c.rank, c.local - c.start) : c \in Best(cands)}

OpenTokens(len) == (len \div Pool) * Pool .. len - 1

Expand(pools, len) == {p * Pool + k : p \in pools, k \in 0 .. Pool - 1} \cup OpenTokens(len)

(* When no prefill row has more context than is selected, every row takes  *)
(* all of it; one long request sends all of them the other way.            *)
ShortPrefill == \A i \in DOMAIN seqs : seqs[i].decode \/ seqs[i].len <= Chosen * Pool

Selected(r, pos) ==
    IF ~seqs[r].decode /\ ShortPrefill THEN 0 .. pos
    ELSE Expand(Merge(UNION {LocalBest(k, r, pos) : k \in Shards}), pos + 1)

----------------------------------------------------------------------------
(* triton_filter_and_convert_dcp_index keeps the tokens a rank stores.     *)
Owner(pos) == (pos \div TokenStripe) % Ranks
Mine(rank, tokens) == {t \in tokens : Owner(t) = rank}

\* The kernel wants one entry: a rank without any reads physical slot 0.
Kernel(rank, r, tokens) ==
    IF Mine(rank, tokens) = {} THEN {Junk} ELSE {[req |-> r, pos |-> t] : t \in Mine(rank, tokens)}

PartialUnmasked(rank, r, tokens) ==  \* a variant: what the kernel read for an empty shard counts
    [out |-> Kernel(rank, r, tokens), finite |-> TRUE]

Partial(rank, r, tokens) ==
    IF Mine(rank, tokens) = {} THEN [out |-> {}, finite |-> FALSE]
    ELSE [out |-> Kernel(rank, r, tokens), finite |-> TRUE]

(* The reducer masks shards by sequence lengths, of every request as soon  *)
(* as attention is sparse; a request it has no length for gets nothing.    *)
ReducedDecodes == Decodes  \* a variant: num_decodes of them
Reduced == DOMAIN seqs

Combine(r, tokens) ==
    IF r \notin Reduced THEN {}
    ELSE UNION {Partial(k, r, tokens).out : k \in {k \in Shards : Partial(k, r, tokens).finite}}

----------------------------------------------------------------------------
(* Cache groups a sharded deployment accepts, and the ranks among which    *)
(* the manager, the block table, the metadata builder and the layer each   *)
(* take the sequence to be split.                                          *)
Groups == {"target", "recurrent", "drafter"}

TableShareOfAll(group) == Ranks  \* a variant: every group taken for sharded
TableShare(group) == IF group = "target" THEN Ranks ELSE 1
ManagerShare(group) == IF group \in {"recurrent", "drafter"} THEN 1 ELSE Ranks
BuilderShare(group) == IF group = "target" THEN Ranks ELSE 1
LayerShare(group) == IF group = "target" THEN Ranks ELSE 1

Extra(group) == IF group = "recurrent" THEN DraftSteps ELSE 0

Columns(group) == CeilDiv(ModelLen, Block * TableShare(group)) + Extra(group)

\* Blocks a request of len tokens has.
BlocksOf(group, len) == CeilDiv(len, Block * ManagerShare(group)) + Extra(group)

\* The recurrent state of a position is read with the blocks of its drafts.
ColumnsRead(group, pos) ==
    IF group = "recurrent" THEN pos \div Block .. pos \div Block + DraftSteps
    ELSE {pos \div (Block * BuilderShare(group))}

(* A drafter layer keeps every token on every rank, for heads of its own,  *)
(* and attends to the window and, both ways, to its block.                 *)
DraftShard(rank, r, pos) ==
    {[head |-> rank, pos |-> t] : t \in
        {t \in 0 .. seqs[r].len - 1 :
            pos - t < SlidingWindow /\ (BuilderShare("drafter") = 1 \/ Owner(t) = rank)}}

DraftAttend(rank, r, pos) ==
    UNION {DraftShard(k, r, pos) : k \in IF LayerShare("drafter") = 1 THEN {rank} ELSE Shards}

----------------------------------------------------------------------------
Batches ==
    LET Seqs == {s \in [len : 1 .. ModelLen, query : 1 .. ModelLen, decode : BOOLEAN] :
                    s.query <= s.len /\ s.decode = (s.query <= DecodeRows)}
    IN  {b \in UNION {[1 .. n -> Seqs] : n \in 1 .. MaxSeqs} :
            \A i, j \in DOMAIN b : i < j => (b[j].decode => b[i].decode)}

SpInit == seqs \in Batches /\ score \in Scores /\ topk = <<>> /\ attended = <<>> /\ drafted = <<>>

AttentionStep ==
    /\ topk = <<>>
    /\ topk' = [r \in DOMAIN seqs |-> [pos \in QueriesOf(seqs[r]) |-> Selected(r, pos)]]
    /\ attended' = [r \in DOMAIN seqs |-> [pos \in QueriesOf(seqs[r]) |-> Combine(r, topk'[r][pos])]]
    /\ drafted' = [r \in Decodes |->
            [k \in Shards |-> [pos \in QueriesOf(seqs[r]) |-> DraftAttend(k, r, pos)]]]
    /\ UNCHANGED <<seqs, score>>

(* What the ranks compute together is what one rank with the whole         *)
(* sequence computes: the tokens of the best pools of the row's own past   *)
(* and of its open pool, and nothing of another request.  A drafter layer, *)
(* whose heads differ by rank, sees its whole window with its own heads.   *)
ShardsAttendAsOne ==
    /\ \A r \in DOMAIN attended : \A pos \in DOMAIN attended[r] :
           LET pools == WholePools(pos + 1)
               best == {p \in pools : Cardinality({q \in pools : score[q] > score[p]}) < Chosen}
           IN  attended[r][pos] = {[req |-> r, pos |-> t] : t \in Expand(best, pos + 1)}
    /\ \A r \in DOMAIN drafted : \A rank \in Shards : \A pos \in QueriesOf(seqs[r]) :
           drafted[r][rank][pos] =
               {[head |-> rank, pos |-> t] :
                   t \in {t \in 0 .. seqs[r].len - 1 : pos - t < SlidingWindow}}

(* What profiling reserves for the logits of a decode step.                *)
ReservedRows == Min({MaxSeqs * DecodeRows, MaxBatched})

(* A step finds room for what it does: every block table column a query    *)
(* needs, of sharded and of replicated groups, up to the longest sequence, *)
(* with a block of the request behind it, the gathered keys of a prefill   *)
(* chunk, and the padded rows of a decode.                                 *)
StepsFitTheirBuffers ==
    \A r \in DOMAIN seqs :
        /\ \A pos \in QueriesOf(seqs[r]), g \in Groups :
               \A column \in ColumnsRead(g, pos) :
                   column < Columns(g) /\ column < BlocksOf(g, seqs[r].len)
        /\ \A rank \in Shards : KeysOf(rank, ChunkOf(r)) <= Workspace
        /\ seqs[r].decode => Cardinality(Decodes) * NextN <= ReservedRows
=============================================================================
