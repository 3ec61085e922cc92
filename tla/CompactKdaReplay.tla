-------------------------- MODULE CompactKdaReplay --------------------------
(***************************************************************************)
(* Compact replay of the recurrent KDA state. Verification keeps candidate *)
(* states in registers and stages its transition inputs in fixed buffers;  *)
(* once the sampler has said how many tokens of each row are accepted, the *)
(* runner replays that many transitions into the one state block of the    *)
(* request, and only then is a block migrated across a page boundary.      *)
(*                                                                         *)
(* A step runs eagerly or as the replay of a captured CUDA graph. A graph  *)
(* repeats the tensor copies, at the number of rows it was captured for,   *)
(* and none of the Python: pending is set by eager steps only.             *)
(*                                                                         *)
(* One layer stands for all, they stage the same rows. A transition is     *)
(* named by its request and position. Transitions that a step did not      *)
(* stage are Stale for it, whatever an earlier step left in the buffer.    *)
(***************************************************************************)
EXTENDS Integers, Sequences, FiniteSets

CONSTANTS
    Req,                  \* requests
    Blocks, Null,         \* state blocks, and the null block, index 0
    MaxRows,              \* max_num_seqs, the rows of the replay buffers
    NumSpec,              \* num_spec, the drafts of a full row
    Graphs,               \* numbers of rows that decode graphs are captured for
    MaxTokens             \* bound on the tokens of a request

ASSUME ReplayAssumption ==
    /\ Null \notin Blocks
    /\ MaxRows \in Nat \ {0} /\ NumSpec \in Nat \ {0}
    /\ Graphs \subseteq 1..MaxRows
    /\ MaxTokens \in Nat

VARIABLES
    done,                 \* tokens accepted, for each live request
    slot,                 \* the state block of each live request
    state,                \* contents of the state blocks, kv_cache[1]
    pages,                \* blocks left behind as pages of the prefix cache
    batch,                \* rows of the step between its forward and its sampling
    staged,               \* _compact_replay_{k,v,g,beta,cu,state_indices}, by row
    mask,                 \* _compact_replay_sequence_mask
    pending               \* _compact_replay_pending

vars == <<done, slot, state, pages, batch, staged, mask, pending>>

Requests(rows) == {rows[i].req : i \in 1..Len(rows)}

Offered(rows) == [r \in Requests(rows) |-> rows[CHOOSE i \in 1..Len(rows) : rows[i].req = r].drafts]

Abstract == INSTANCE KdaState WITH
    memory <- [r \in DOMAIN slot |-> state[slot[r]]],
    offered <- Offered(batch),
    cache <- [b \in pages |-> state[b]]

Prefix(r, n) == Abstract!Prefix(r, n)
Garbled == [garbled |-> TRUE]
Stale == [stale |-> TRUE]

Live == DOMAIN slot
Rows == 1..MaxRows
Running == {slot[r] : r \in Live}

Contents == [req : Req, len : Nat] \cup {Garbled}
Transitions == [req : Req, pos : Nat] \cup {Stale}
BatchRows == [req : Req, drafts : 0..NumSpec]
Idle == batch = << >>

TypeOK ==
    /\ Live \subseteq Req /\ DOMAIN done = Live
    /\ \A r \in Live : done[r] \in Nat /\ slot[r] \in Blocks \ pages
    /\ \A r, s \in Live : slot[r] = slot[s] => r = s
    /\ state \in [Blocks \cup {Null} -> Contents]
    /\ pages \subseteq Blocks
    /\ batch \in Seq(BatchRows) /\ Len(batch) <= MaxRows
    /\ staged \in [Rows -> [block : Blocks \cup {Null}, tokens : Seq(Transitions)]]
    /\ mask \in [Rows -> BOOLEAN]
    /\ pending \in BOOLEAN

\* A row of the buffers that the current step has not staged.
OldRow(b) == [block |-> b, tokens |-> <<Stale>>]

\* Buffers hold anything before the first step that stages into them.
Init ==
    /\ done = << >> /\ slot = << >>
    /\ state = [b \in Blocks \cup {Null} |-> Garbled]
    /\ pages = {}
    /\ batch = << >>
    /\ \E b \in Blocks \cup {Null} : staged = [k \in Rows |-> OldRow(b)]
    /\ mask \in [Rows -> BOOLEAN]
    /\ pending = FALSE

(***************************************************************************)
(* The recurrence: transitions applied in order to the content of a block. *)
(***************************************************************************)
Applied(content, tokens) ==
    IF tokens = << >> THEN content
    ELSE IF /\ content # Garbled /\ tokens[1] # Stale
            /\ \A i \in 1..Len(tokens) :
                  tokens[i] = [req |-> content.req, pos |-> content.len + i - 1]
      THEN Prefix(content.req, content.len + Len(tokens))
      ELSE Garbled

\* The k-th smallest member of a set of numbers.
Nth(S, k) == CHOOSE i \in S : Cardinality({j \in S : j < i}) = k - 1

(***************************************************************************)
(* The forward of a step. Rows with drafts are staged, in the order of the *)
(* batch, and their recurrence starts from the running state and stores    *)
(* none of its candidate states; rows without drafts advance in place.     *)
(***************************************************************************)
SpecRows(rows) == {i \in 1..Len(rows) : rows[i].drafts > 0}

Candidates(row) ==
    [i \in 1..(row.drafts + 1) |-> [req |-> row.req, pos |-> done[row.req] + i - 1]]

\* Rows of a graph beyond those of the batch have no tokens, and rows of the
\* buffers beyond those of the graph may have some; the block of both is null.
StagedRow(rows, k) ==
    IF k <= Cardinality(SpecRows(rows))
      THEN LET row == rows[Nth(SpecRows(rows), k)]
           IN  [block |-> slot[row.req], tokens |-> Candidates(row)]
      ELSE OldRow(Null)

\* What the recurrence leaves in the blocks. With compact replay the verification of
\* a row with drafts has no column to read or store but the first, and stores none.
Recurrence(rows) ==
    LET stores(b, i) == rows[i].drafts = 0 /\ slot[rows[i].req] = b
    IN  [b \in DOMAIN state |->
            IF \E i \in 1..Len(rows) : stores(b, i)
              THEN LET r == rows[CHOOSE i \in 1..Len(rows) : stores(b, i)].req
                   IN  Applied(state[b], <<[req |-> r, pos |-> done[r]]>>)
              ELSE state[b]]

FitsGraph(rows) ==
    /\ SpecRows(rows) = 1..Len(rows)
    /\ \A i \in 1..Len(rows) : rows[i].drafts = rows[1].drafts
    /\ \E g \in Graphs : Len(rows) <= g

Forward(rows, graph) ==
    /\ Idle
    /\ graph => FitsGraph(rows)
    /\ \A i \in 1..Len(rows) : done[rows[i].req] + rows[i].drafts + 1 <= MaxTokens
    /\ batch' = rows
    /\ LET plain == {rows[i].req : i \in 1..Len(rows) \ SpecRows(rows)}
       IN  done' = [r \in Live |-> IF r \in plain THEN done[r] + 1 ELSE done[r]]
    /\ state' = Recurrence(rows)
    /\ IF SpecRows(rows) = {}
         THEN /\ staged' = [k \in Rows |-> OldRow(staged[k].block)]
              /\ UNCHANGED <<mask, pending>>
         ELSE /\ staged' = [k \in Rows |-> StagedRow(rows, k)]
              /\ mask' = [i \in Rows |-> i \in SpecRows(rows)]
              /\ pending' = (pending \/ ~graph)
    /\ UNCHANGED <<slot, pages>>

(***************************************************************************)
(* The sampling of a step, and the commit hook of the V2 runner, which     *)
(* replays whenever the input of the step had drafts.                      *)
(***************************************************************************)
ArmedByFlag == pending

ArmedWithoutDrafts == ~Idle

Armed == SpecRows(batch) # {}

MaskedRows == {i \in 1..Len(batch) : mask[i]}

AcceptedInBatchOrder(sampled, k) == IF k <= Len(batch) THEN sampled[k] ELSE 0

Accepted(sampled, k) ==
    IF k <= Cardinality(MaskedRows) THEN sampled[Nth(MaskedRows, k)] ELSE 0

ReplayLength(sampled, k) ==
    LET n == Accepted(sampled, k)
    IN  IF n <= Len(staged[k].tokens) THEN n ELSE Len(staged[k].tokens)

Commits(sampled, k) == ReplayLength(sampled, k) > 0 /\ staged[k].block # Null

\* One row of the kernel.
Transitioned(sampled, k) ==
    Applied(state[staged[k].block], SubSeq(staged[k].tokens, 1, ReplayLength(sampled, k)))

\* The launch over all rows of the buffers, whatever the step staged.
Replay(sampled) ==
    [b \in DOMAIN state |->
        IF \E k \in Rows : Commits(sampled, k) /\ staged[k].block = b
          THEN Transitioned(sampled, CHOOSE k \in Rows : Commits(sampled, k) /\ staged[k].block = b)
          ELSE state[b]]

Replayed(sampled) == IF Armed THEN Replay(sampled) ELSE state

FreeBlocks == Blocks \ (Running \cup pages)

\* postprocess_sampled: the state of a request that has filled its page goes on
\* in a new block, from the column the replay has brought up to date.
MoveFrom(contents, moved) ==
    [b \in DOMAIN state |->
        IF \E r \in DOMAIN moved : moved[r] = b
          THEN contents[slot[CHOOSE r \in DOMAIN moved : moved[r] = b]]
          ELSE contents[b]]

Moves(rows) ==
    UNION {{f \in [S -> FreeBlocks] : \A r, s \in S : f[r] = f[s] => r = s} :
              S \in SUBSET Requests(rows)}

Sampled(row) == IF row.drafts > 0 THEN 1..(row.drafts + 1) ELSE 0..1

AfterSampling(sampled, moved) ==
    /\ done' = [r \in Live |->
                  IF \E i \in SpecRows(batch) : batch[i].req = r
                    THEN done[r] + sampled[CHOOSE i \in SpecRows(batch) : batch[i].req = r]
                    ELSE done[r]]
    /\ slot' = [r \in Live |-> IF r \in DOMAIN moved THEN moved[r] ELSE slot[r]]
    /\ pages' = pages \cup {slot[r] : r \in DOMAIN moved}
    /\ pending' = (pending /\ ~Armed)
    /\ batch' = << >>
    /\ UNCHANGED <<staged, mask>>

\* The move before the replay: the new block is brought up to date, the page left is not.
SampleAfterMove(sampled, moved) ==
    /\ ~Idle
    /\ AfterSampling(sampled, moved)
    /\ state' = [b \in DOMAIN state |->
                   IF \E r \in DOMAIN moved : slot[r] = b THEN state[b]
                   ELSE MoveFrom(Replayed(sampled), moved)[b]]

Sample(sampled, moved) ==
    /\ ~Idle
    /\ AfterSampling(sampled, moved)
    /\ state' = MoveFrom(Replayed(sampled), moved)

(***************************************************************************)
(* Between steps requests come, with a state that starts empty, and go,    *)
(* and pages are evicted. What a block holds that is neither is garbled.   *)
(***************************************************************************)
\* No column for the state after each draft: a request has its running block only.
SpeculativeBlocks == 0

Arrive(r, b) ==
    /\ Idle
    /\ r \notin Live /\ b \in FreeBlocks
    /\ Cardinality(FreeBlocks) >= 1 + SpeculativeBlocks
    /\ slot' = [s \in Live \cup {r} |-> IF s = r THEN b ELSE slot[s]]
    /\ done' = [s \in Live \cup {r} |-> IF s = r THEN 0 ELSE done[s]]
    /\ state' = [state EXCEPT ![b] = Prefix(r, 0)]
    /\ UNCHANGED <<pages, batch, staged, mask, pending>>

Leave(r) ==
    /\ Idle
    /\ r \in Live
    /\ slot' = [s \in Live \ {r} |-> slot[s]]
    /\ done' = [s \in Live \ {r} |-> done[s]]
    /\ state' = [state EXCEPT ![slot[r]] = Garbled]
    /\ UNCHANGED <<pages, batch, staged, mask, pending>>

Evict(b) ==
    /\ Idle
    /\ b \in pages
    /\ pages' = pages \ {b}
    /\ state' = [state EXCEPT ![b] = Garbled]
    /\ UNCHANGED <<done, slot, batch, staged, mask, pending>>

Batches ==
    {rows \in UNION {[1..n -> [req : Live, drafts : 0..NumSpec]] :
                        n \in 1..Cardinality(Live)} :
        /\ Len(rows) <= MaxRows
        /\ \A i, j \in 1..Len(rows) : rows[i].req = rows[j].req => i = j}

ForwardSome == \E rows \in Batches, graph \in BOOLEAN : Forward(rows, graph)

Samplings ==
    {sampled \in [1..Len(batch) -> 0..(NumSpec + 1)] :
        \A i \in 1..Len(batch) : sampled[i] \in Sampled(batch[i])}

SampleSome == \E sampled \in Samplings, moved \in Moves(batch) : Sample(sampled, moved)

Pool ==
    \/ \E r \in Req : Leave(r) \/ \E b \in Blocks : Arrive(r, b)
    \/ \E b \in Blocks : Evict(b)

Next == ForwardSome \/ SampleSome \/ Pool

Spec == Init /\ [][Next]_vars
-----------------------------------------------------------------------------
\* Whatever ran eagerly or as a graph, in whatever mix of rows with and without
\* drafts, and whatever block a request moved to or got from another one: its
\* state is the one after exactly its accepted tokens. (compact_kda_replay.py
\* 80-157, runner hook 985-1015)
StateIsAcceptedPrefix == \A r \in Live : state[slot[r]] = Prefix(r, done[r])

\* A replay writes no block but those of the step's own rows: a page that was
\* left behind in the prefix cache keeps its content. (lines 972-975)
PagesAreFrozen == [][\A b \in pages \cap pages' : state'[b] = state[b]]_vars

\* Staging, replay over all rows of the buffers, and migration amount to one atomic
\* commit: the drafts of a step are decided together, each request of it advances by
\* what was accepted and no other does, and a page that a request leaves to the prefix
\* cache in the same step holds the state it left with, not the one its drafts were
\* verified from. (stage_compact_replay, replay_compact_spec_state, the migration at
\* 877-975 and the hook at 976-1016 of the patch)
ImplementsKdaState == Abstract!Spec
=============================================================================
