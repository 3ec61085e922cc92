---------------------------- MODULE KpoolIndexer ----------------------------
(***************************************************************************)
(* The keys of the sparse indexer.  PoolSize consecutive tokens are pooled *)
(* into one key; the tokens of the pool in progress wait in a ring of      *)
(* PoolSize places, one ring per request.  Prefill pools rows of its own   *)
(* batch and seeds the ring; decode, which verifies several drafted tokens *)
(* at once and may keep only the first of them, appends to the ring and    *)
(* pools when a place wraps.  Every rank pools, but only the owner of a    *)
(* pool stores it (docker/sparse_attn_indexer_kpool_sm121.py,              *)
(* overlay-dflash2/sm121_mxfp4_indexer.py).                                *)
(*                                                                         *)
(* A token is its request, position and fate; the arithmetic of pooling    *)
(* and of MXFP4 is left out, so a pool is the tokens it was made of.       *)
(***************************************************************************)
EXTENDS Integers, Sequences, FiniteSets, Functions, FiniteSetsExt

CONSTANTS
    PoolSize,      \* index_kpool
    StorageBlock,  \* pools in a block of one rank
    DcpSize,       \* ranks the pools are sharded over
    Requests,      \* number of requests, in batch order
    MaxVerify,     \* tokens of a decode step, 1 + drafts; also the decode threshold
    MaxLen         \* bound: length of a sequence

ASSUME KpoolAssumption ==
    {PoolSize, StorageBlock, DcpSize, Requests, MaxVerify, MaxLen} \subseteq Nat \ {0}

VARIABLES
    length,   \* request -> tokens of its sequence that are kept
    reached,  \* request -> end of its last step, drafts that were not kept included
    phase,    \* request -> "prompt" or "decode"
    ring,     \* request -> place -> token: the paged tail cache
    stored,   \* rank -> request -> slot -> pool: the index cache
    tails     \* row of the last decode step -> positions it attends to beside pools

kpVars == <<length, reached, phase, ring, stored, tails>>

Reqs == 1 .. Requests
DcpRank == 0 .. DcpSize - 1
Places == 0 .. PoolSize - 1
Slots == (0 .. MaxLen \div PoolSize) \X (0 .. StorageBlock - 1)

Pad == [req |-> 0, pos |-> -1, fate |-> "pad"]
Stale == [req |-> 0, pos |-> 0, fate |-> "stale"]
NoPool == [k \in Places |-> Stale]

KpInit ==
    /\ length = [r \in Reqs |-> 0] /\ reached = length
    /\ phase = [r \in Reqs |-> "prompt"]
    /\ ring = [r \in Reqs |-> NoPool]
    /\ stored = [k \in DcpRank |-> [r \in Reqs |-> [s \in Slots |-> NoPool]]]
    /\ tails = <<>>

----------------------------------------------------------------------------
(* Which slot a token writes.  A pool is written with its last token, by   *)
(* the rank that owns it: ranks own pools in turn.                         *)

SlotOverBlock(pool) ==  \* a variant: the owner's share of the offset is not divided out
    <<pool \div (StorageBlock * DcpSize), (pool % (StorageBlock * DcpSize)) % StorageBlock>>

PoolSlot(pool) ==
    <<pool \div (StorageBlock * DcpSize), (pool % (StorageBlock * DcpSize)) \div DcpSize>>

Writes(rank, pos) ==
    /\ (pos + 1) % PoolSize = 0
    /\ ((pos \div PoolSize) % (StorageBlock * DcpSize)) % DcpSize = rank

LastOf(pool) == pool[PoolSize - 1]

\* pools has those a kernel completes, by where their last tokens lie in its input.
StorePools(cache, pools) ==
    [k \in DcpRank |-> [r \in Reqs |-> [s \in Slots |->
        LET here == {i \in DOMAIN pools :
                        /\ Writes(k, LastOf(pools[i]).pos) /\ LastOf(pools[i]).req = r
                        /\ PoolSlot(LastOf(pools[i]).pos \div PoolSize) = s}
        IN  IF here = {} THEN cache[k][r][s] ELSE pools[Max(here)]]]]

\* The rings once the tokens at the places in S, which are in order, have taken theirs.
RingAfter(before, tokens, S) ==
    [r \in Reqs |-> [k \in Places |->
        LET mine == {i \in S : tokens[i].req = r /\ tokens[i].pos % PoolSize = k}
        IN  IF mine = {} THEN before[r][k] ELSE tokens[Max(mine)]]]

----------------------------------------------------------------------------
(* A step's tokens lie flat, request after request, decode before prefill; *)
(* lens has the number of tokens of each request.                          *)

Starts(lens, r) == FoldFunction(+, 0, [q \in {q \in DOMAIN lens : q < r} |-> lens[q]])
StepTokens(lens) == FoldFunction(+, 0, lens)
RequestOf(lens, i) == CHOOSE r \in DOMAIN lens : i - Starts(lens, r) \in 1 .. lens[r]

Token(r, t, kept) ==
    [req |-> r, pos |-> length[r] + t - 1, fate |-> IF t <= kept[r] THEN "kept" ELSE "drafted"]

TokensOf(lens, kept) ==
    [i \in 1 .. StepTokens(lens) |-> LET r == RequestOf(lens, i) IN Token(r, i - Starts(lens, r), kept)]

(* _build_decode_scatter_indices, _scatter_decode_tokens_by_request: a     *)
(* request has a row of a grid that the kernel walks row by row; rows of   *)
(* unequal length are padded, equal ones are a view of the flat tokens.    *)
Widest(lens) == Max({lens[r] : r \in DOMAIN lens})
Uniform(lens) == \A r \in DOMAIN lens : lens[r] = Widest(lens)
Cells(lens) == 1 .. Cardinality(DOMAIN lens) * Widest(lens)

CellOf(lens, i) ==
    LET r == RequestOf(lens, i)
    IN  Cardinality({q \in DOMAIN lens : q < r}) * Widest(lens) + i - Starts(lens, r)

Scatter(flat, lens) ==
    [c \in Cells(lens) |->
        IF \E i \in DOMAIN flat : CellOf(lens, i) = c
        THEN flat[CHOOSE i \in DOMAIN flat : CellOf(lens, i) = c] ELSE Pad]

Grouped(flat, lens) == IF Uniform(lens) THEN flat ELSE Scatter(flat, lens)

(* _kpool_decode_update_mxfp4_kernel: the tokens of a row in order; one    *)
(* that completes a pool reads the ring before it takes its own place.     *)
DecodeWrite(acc, cells) ==
    LET complete == {c \in DOMAIN cells : cells[c] # Pad /\ (cells[c].pos + 1) % PoolSize = 0}
        PoolAt(c) ==
            LET tail == RingAfter(acc.ring, cells, 1 .. c - 1)[cells[c].req]
            IN  [k \in Places |-> IF k = PoolSize - 1 THEN cells[c]
                                  ELSE tail[(cells[c].pos - (PoolSize - 1) + k) % PoolSize]]
    IN  [ring  |-> RingAfter(acc.ring, cells, DOMAIN cells),
         cache |-> StorePools(acc.cache, [c \in complete |-> PoolAt(c)])]

(* _decode_topk_seq_lens and expand_pools_and_append_tail: the tail a row  *)
(* attends to hangs on the length its cell is taken to have.               *)
SeqLensAsView(flat, lens, batch) ==  \* a variant: a padded grid reads the flat positions
    [c \in Cells(lens) |-> IF c <= Len(batch) THEN batch[c].pos + 1 ELSE 0]

TopkSeqLens(flat, lens, batch) ==
    [c \in Cells(lens) |-> IF Uniform(lens) THEN batch[c].pos + 1 ELSE Scatter(flat, lens)[c].pos + 1]

OpenPool(len) == (len \div PoolSize) * PoolSize .. len - 1

\* unpack_seq drops the padded rows again.
TailsOf(flat, lens, batch) ==
    LET seqLens == TopkSeqLens(flat, lens, batch) IN
    [i \in DOMAIN flat |-> [row |-> flat[i], tail |-> OpenPool(seqLens[CellOf(lens, i)])]]

(* _kpool_compress_insert: every row of the prefill slice whose slot is    *)
(* valid pools itself and the rows before it.                              *)
PrefillWrite(acc, rows) ==
    LET complete == {i \in PoolSize .. Len(rows) : (rows[i].pos + 1) % PoolSize = 0}
    IN  [acc EXCEPT !.cache = StorePools(acc.cache,
            [i \in complete |-> [k \in Places |-> rows[i - PoolSize + 1 + k]]])]

(* kpool_seed_tail_cache: a token is in its request's tail if the token    *)
(* PoolSize further is of another request or past the batch.               *)
Seed(acc, rows) ==
    LET trailing == {i \in DOMAIN rows : i + PoolSize > Len(rows) \/ rows[i + PoolSize].req # rows[i].req}
    IN  [acc EXCEPT !.ring = RingAfter(acc.ring, rows, trailing)]

----------------------------------------------------------------------------
(* One forward step.  A prompt chunk no longer than a decode step is taken *)
(* for decode.  The code assumes that a chunk starts on a pool boundary;   *)
(* only the last chunk of a prompt may end off one.                        *)

Step(decode, prefill, take, kept) ==
    LET lens == [r \in decode |-> take[r]]
        flat == TokensOf(lens, kept)
        rows == TokensOf([r \in prefill |-> take[r]], kept)
        before == [ring |-> ring, cache |-> stored]
        prefilled == IF prefill = {} THEN before ELSE Seed(PrefillWrite(before, rows), rows)
        after == IF decode = {} THEN prefilled ELSE DecodeWrite(prefilled, Grouped(flat, lens))
    IN  /\ ring' = after.ring
        /\ stored' = after.cache
        /\ tails' = IF decode = {} THEN <<>> ELSE TailsOf(flat, lens, flat \o rows)
        /\ length' = [r \in Reqs |-> IF r \in decode \cup prefill THEN length[r] + kept[r] ELSE length[r]]
        /\ reached' = [r \in Reqs |-> IF r \in decode \cup prefill THEN length[r] + take[r] ELSE reached[r]]

IndexerStep ==
    \E batch \in SUBSET Reqs \ {{}} :
    \E take \in [batch -> 1 .. MaxLen] : \E kept \in [batch -> 1 .. MaxLen] :
        LET prefill == {r \in batch : take[r] > MaxVerify} IN
        /\ \A r \in batch :
            /\ length[r] + take[r] <= MaxLen /\ kept[r] <= take[r]
            /\ phase[r] = "prompt" => kept[r] = take[r]
            /\ phase[r] = "decode" => take[r] <= MaxVerify
        /\ Step(batch \ prefill, prefill, take, kept)
        /\ phase' \in [Reqs -> {"prompt", "decode"}]
        /\ \A r \in Reqs :
            \/ phase'[r] = phase[r] /\ (phase[r] = "prompt" => length'[r] % PoolSize = 0)
            \/ r \in batch /\ phase[r] = "prompt" /\ phase'[r] = "decode"

\* A request leaves; nothing clears its blocks and its ring, whose content is
\* stale for the request that gets them next.
Leave(r) ==
    /\ length[r] > 0
    /\ length' = [length EXCEPT ![r] = 0]
    /\ reached' = [reached EXCEPT ![r] = 0]
    /\ phase' = [phase EXCEPT ![r] = "prompt"]
    /\ ring' = [ring EXCEPT ![r] = NoPool]
    /\ stored' = [k \in DcpRank |-> [stored[k] EXCEPT ![r] = [s \in Slots |-> NoPool]]]
    /\ tails' = <<>>

KpNext == IndexerStep \/ \E r \in Reqs : Leave(r)

----------------------------------------------------------------------------
\* Where a reader looks: ranks number their own pools, pool by pool.
PoolRead(r, pool) ==
    LET local == pool \div DcpSize IN
    stored[pool % DcpSize][r][<<local \div StorageBlock, local % StorageBlock>>]

(* Every pool a query of the last step could see was made of the tokens of *)
(* its own sequence, kept or drafted in that step, and is where the reader *)
(* looks: over prefill, decode, drafts that were not kept, and requests    *)
(* that took over the ring of another.                                     *)
PoolsAreExact ==
    \A r \in Reqs : \A pool \in 0 .. reached[r] \div PoolSize - 1 :
        PoolRead(r, pool) = [k \in Places |->
            LET pos == pool * PoolSize + k IN
            [req |-> r, pos |-> pos, fate |-> IF pos < length[r] THEN "kept" ELSE "drafted"]]

(* Every decode row attends to exactly the tokens after its own last whole *)
(* pool, also in a batch of unequal rows beside prefill rows.              *)
RowsSeeTheirTail ==
    \A i \in DOMAIN tails : tails[i].tail = OpenPool(tails[i].row.pos + 1)

KpTypeOK ==
    /\ length \in [Reqs -> 0 .. MaxLen]
    /\ \A r \in Reqs : length[r] <= reached[r] /\ reached[r] <= MaxLen
    /\ phase \in [Reqs -> {"prompt", "decode"}]
    /\ DOMAIN ring = Reqs /\ DOMAIN stored = DcpRank
=============================================================================
