----------------------- MODULE CompactKdaReplayProofs -----------------------
(***************************************************************************)
(* The state of a request is the one after its accepted tokens, for every  *)
(* number of requests, blocks and drafts and every mix of rows.            *)
(***************************************************************************)
EXTENDS CompactKdaReplay, NaturalsLemmas, SequenceTheorems, TLAPS

\* Requests hold distinct blocks of their own.
SlotInv ==
    /\ IsFiniteSet(Live) /\ Live \subseteq Req
    /\ slot = [r \in Live |-> slot[r]]
    /\ done = [r \in Live |-> done[r]]
    /\ \A r \in Live : done[r] \in Nat /\ slot[r] \in Blocks \ pages
    /\ \A r, s \in Live : slot[r] = slot[s] => r = s
    /\ state = [b \in Blocks \cup {Null} |-> state[b]]
    /\ pages \subseteq Blocks

\* The rows of a step are live requests, each once, with room in the buffers.
BatchInv ==
    /\ Len(batch) \in 0..MaxRows
    /\ batch \in [1..Len(batch) -> [req : Live, drafts : 0..NumSpec]]
    /\ \A i, j \in 1..Len(batch) : batch[i].req = batch[j].req => i = j

\* The buffers have an old row's block or what the step under way has staged.
StagedInv ==
    /\ mask \in [Rows -> BOOLEAN]
    /\ SpecRows(batch) # {} =>
          /\ staged = [k \in Rows |-> StagedRow(batch, k)]
          /\ mask = [i \in Rows |-> i \in SpecRows(batch)]

ReplayInv == SlotInv /\ BatchInv /\ StagedInv /\ StateIsAcceptedPrefix
-----------------------------------------------------------------------------
\* The k-th smallest member is a member, and k is its rank.
LEMMA NthIsMember ==
    ASSUME NEW n \in Nat, NEW S \in SUBSET (1..n), NEW k \in 1..Cardinality(S)
    PROVE  Nth(S, k) \in S /\ Cardinality(Smaller(S, Nth(S, k))) = k - 1
<1>1. IsFiniteSet(S) /\ Cardinality(S) \in Nat /\ S \in SUBSET Nat
  BY InitialSegmentSubset
<1>2. PICK i \in S : Standing(S)[i] = k
  BY <1>1, RankSurjective
<1>3. Cardinality(Smaller(S, i)) \in Nat
  BY <1>1, SmallerSet
<1>4. Cardinality(Smaller(S, i)) + 1 = k
  BY <1>2 DEF Standing
<1>5. Cardinality(Smaller(S, i)) = k - 1
  BY <1>3, <1>4
<1> QED
  BY <1>5 DEF Nth, Smaller

\* Every member is the k-th smallest for some k.
LEMMA NthReaches ==
    ASSUME NEW n \in Nat, NEW S \in SUBSET (1..n), NEW i \in S
    PROVE  \E k \in 1..Cardinality(S) : Nth(S, k) = i
<1> DEFINE k == Standing(S)[i]
<1>1. IsFiniteSet(S) /\ Cardinality(S) \in Nat /\ S \in SUBSET Nat
  BY InitialSegmentSubset
<1>2. k \in 1..Cardinality(S) /\ k = Cardinality(Smaller(S, i)) + 1
  BY <1>1, RankInjective DEF Standing, Injection
<1>3. Nth(S, k) \in S /\ Cardinality(Smaller(S, Nth(S, k))) = k - 1
  BY <1>2, NthIsMember
<1>4. Standing(S)[Nth(S, k)] = Standing(S)[i]
  BY <1>1, <1>2, <1>3 DEF Standing
<1>5. Nth(S, k) = i
  <2>1. Standing(S) \in Injection(S, 1..Cardinality(S))
    BY <1>1, RankInjective
  <2> QED
    BY <1>3, <1>4, <2>1 DEF Injection, IsInjective
<1> QED
  BY <1>2, <1>5

\* Different numbers are those of different members.
LEMMA NthInjective ==
    ASSUME NEW n \in Nat, NEW S \in SUBSET (1..n),
           NEW k \in 1..Cardinality(S), NEW l \in 1..Cardinality(S),
           Nth(S, k) = Nth(S, l)
    PROVE  k = l
<1>1. k - 1 = l - 1
  BY NthIsMember
<1>2. IsFiniteSet(S) /\ Cardinality(S) \in Nat
  BY InitialSegmentSubset
<1> QED
  BY <1>1, <1>2
-----------------------------------------------------------------------------
(***************************************************************************)
(* What the operators of the replay compute.                               *)
(***************************************************************************)

\* The transitions that follow a state lead to the state after them.
LEMMA AppliedInOrder ==
    ASSUME NEW r, NEW n \in Nat, NEW m \in Nat \ {0}, NEW tokens, Len(tokens) = m,
           tokens # << >>,
           \A i \in 1..m : tokens[i] = [req |-> r, pos |-> n + i - 1]
    PROVE  Applied(Prefix(r, n), tokens) = Prefix(r, n + m)
<1>1. Prefix(r, n) = [req |-> r, len |-> n] /\ Prefix(r, n + m) = [req |-> r, len |-> n + m]
  BY DEF Prefix, Abstract!Prefix
<1>2. Prefix(r, n) # Garbled
  <2>1. "req" \in DOMAIN Prefix(r, n)
    BY <1>1
  <2>2. "req" \notin DOMAIN Garbled
    BY DEF Garbled
  <2> QED
    BY <2>1, <2>2
<1>3. tokens[1] # Stale
  <2>1. tokens[1] = [req |-> r, pos |-> n + 1 - 1]
    OBVIOUS
  <2> QED
    BY <2>1 DEF Stale
<1> QED
  BY <1>1, <1>2, <1>3 DEF Applied

\* The rows a step may have.
LEMMA BatchesAreRows ==
    ASSUME NEW rows \in Batches, SlotInv
    PROVE  /\ Len(rows) \in 1..MaxRows
           /\ rows \in [1..Len(rows) -> [req : Live, drafts : 0..NumSpec]]
           /\ \A i, j \in 1..Len(rows) : rows[i].req = rows[j].req => i = j
<1>1. Cardinality(Live) \in Nat
  BY FS_CardinalityType DEF SlotInv
<1>2. PICK n \in 1..Cardinality(Live) : rows \in [1..n -> [req : Live, drafts : 0..NumSpec]]
  BY DEF Batches
<1>3. n \in Nat /\ n > 0
  BY <1>1, <1>2
<1>4. rows \in Seq([req : Live, drafts : 0..NumSpec])
  <2>1. \A S : rows \in [1..n -> S] => rows \in Seq(S)
    BY <1>3, Zenon, SeqDef
  <2> QED BY <1>2, <2>1, Zenon
<1>5. Len(rows) = n
  BY <1>2, <1>3, <1>4, LenProperties
<1>6. Len(rows) <= MaxRows
  BY DEF Batches
<1>7. \A i, j \in 1..Len(rows) : rows[i].req = rows[j].req => i = j
  BY DEF Batches
<1> QED
  BY <1>2, <1>3, <1>5, <1>6, <1>7, ReplayAssumption

\* The rows with drafts are numbered from 1 to at most the rows of the buffers.
LEMMA SpecRowsFit ==
    ASSUME NEW rows, Len(rows) \in 0..MaxRows
    PROVE  /\ Len(rows) \in Nat
           /\ SpecRows(rows) \in SUBSET (1..Len(rows))
           /\ IsFiniteSet(SpecRows(rows))
           /\ Cardinality(SpecRows(rows)) \in 0..MaxRows
<1>1. Len(rows) \in Nat /\ Len(rows) <= MaxRows /\ MaxRows \in Nat
  BY ReplayAssumption
<1>2. SpecRows(rows) \in SUBSET (1..Len(rows))
  BY DEF SpecRows
<1>3. IsFiniteSet(SpecRows(rows)) /\ Cardinality(SpecRows(rows)) \in Nat
  BY <1>1, <1>2, InitialSegmentSubset
<1>4. IsFiniteSet(1..Len(rows)) /\ Cardinality(1..Len(rows)) = Len(rows)
  BY <1>1, InitialSegment
<1>5. Cardinality(SpecRows(rows)) <= Len(rows)
  BY <1>2, <1>4, FS_Subset
<1> QED
  BY <1>1, <1>2, <1>3, <1>5

\* What the sampler accepts of each row.
LEMMA SamplingsAreAccepted ==
    ASSUME BatchInv, NEW sampled \in Samplings
    PROVE  /\ \A i \in SpecRows(batch) : sampled[i] \in 1..(batch[i].drafts + 1)
           /\ sampled \in [1..Len(batch) -> 0..(NumSpec + 1)]
  BY DEF Samplings, Sampled, SpecRows

\* Commit of one row of the buffers: a staged row brings the block of its
\* request to the tokens just accepted, and any other row commits nothing.
LEMMA RowCommits ==
    ASSUME ReplayInv, SpecRows(batch) # {}, NEW sampled \in Samplings, NEW k \in Rows
    PROVE  IF k <= Cardinality(SpecRows(batch))
             THEN LET i == Nth(SpecRows(batch), k)
                      r == batch[i].req
                  IN  /\ i \in SpecRows(batch)
                      /\ staged[k].block = slot[r]
                      /\ Commits(sampled, k)
                      /\ Transitioned(sampled, k) = Prefix(r, done[r] + sampled[i])
             ELSE ~Commits(sampled, k)
<1> DEFINE S == SpecRows(batch)
<1>1. /\ Len(batch) \in Nat /\ S \in SUBSET (1..Len(batch)) /\ IsFiniteSet(S)
      /\ Cardinality(S) \in 0..MaxRows
  BY SpecRowsFit DEF ReplayInv, BatchInv
<1>2. staged[k] = StagedRow(batch, k)
  BY DEF ReplayInv, StagedInv
<1>3. MaskedRows = S
  <2>1. \A i \in 1..Len(batch) : i \in Rows
    <3>1. Len(batch) \in 0..MaxRows /\ MaxRows \in Nat
      BY ReplayAssumption DEF ReplayInv, BatchInv
    <3> QED
      BY <3>1 DEF Rows
  <2>2. mask = [i \in Rows |-> i \in S]
    BY DEF ReplayInv, StagedInv
  <2> QED
    BY <1>1, <2>1, <2>2 DEF MaskedRows
<1>4. CASE k <= Cardinality(S)
  <2> DEFINE i == Nth(S, k)
             r == batch[i].req
             n == sampled[i]
  <2>1. i \in S
    <3>1. k \in 1..Cardinality(S)
      BY <1>1, <1>4 DEF Rows
    <3> QED
      BY <1>1, <3>1, NthIsMember
  <2>2. r \in Live /\ batch[i].drafts \in 0..NumSpec /\ i \in 1..Len(batch)
    BY <1>1, <2>1 DEF ReplayInv, BatchInv
  <2>3. n \in 1..(batch[i].drafts + 1)
    BY <2>1, SamplingsAreAccepted DEF ReplayInv
  <2>4. staged[k].block = slot[r] /\ staged[k].tokens = Candidates(batch[i])
    BY <1>2, <1>4 DEF StagedRow
  <2>5. batch[i].drafts + 1 \in Nat /\ done[r] \in Nat /\ slot[r] \in Blocks
    BY <2>2, ReplayAssumption DEF ReplayInv, SlotInv
  <2>6. /\ staged[k].tokens \in Seq([req : {r}, pos : Nat])
        /\ Len(staged[k].tokens) = batch[i].drafts + 1
        /\ \A j \in 1..(batch[i].drafts + 1) :
               staged[k].tokens[j] = [req |-> r, pos |-> done[r] + j - 1]
    <3> DEFINE t == staged[k].tokens
               d == batch[i].drafts + 1
    <3>1. t = [j \in 1..d |-> [req |-> r, pos |-> done[r] + j - 1]]
      BY <2>4 DEF Candidates
    <3>2. \A j \in 1..d : done[r] + j - 1 \in Nat
      BY <2>5
    <3>3. t \in [1..d -> [req : {r}, pos : Nat]]
      BY <3>1, <3>2
    <3>4. t \in Seq([req : {r}, pos : Nat])
      BY <2>5, <3>3, SeqDef
    <3>5. Len(t) = d
      BY <2>5, <3>3, <3>4, LenProperties
    <3> QED
      BY <3>1, <3>4, <3>5
  <2>7. ReplayLength(sampled, k) = n
    BY <1>3, <1>4, <2>2, <2>3, <2>6 DEF ReplayLength, Accepted
  <2>8. Commits(sampled, k)
    BY <2>2, <2>3, <2>4, <2>5, <2>7, ReplayAssumption DEF Commits
  <2>9. Transitioned(sampled, k) = Prefix(r, done[r] + n)
    <3> DEFINE t == SubSeq(staged[k].tokens, 1, n)
    <3>1. 1 \in Int /\ n \in Int /\ n \in Nat \ {0} /\ n <= batch[i].drafts + 1
      BY <2>2, <2>3
    <3>2. \A j \in 1..n : staged[k].tokens[j] = [req |-> r, pos |-> done[r] + j - 1]
      BY <2>5, <2>6, <3>1
    <3>3. \A j \in 1..n : staged[k].tokens[j] \in [req : {r}, pos : Nat]
      <4> SUFFICES ASSUME NEW j \in 1..n
                   PROVE  staged[k].tokens[j] \in [req : {r}, pos : Nat]
        OBVIOUS
      <4> DEFINE p == done[r] + j - 1
      <4>1. p \in Nat
        BY <2>5, <3>1
      <4>2. staged[k].tokens[j] = [req |-> r, pos |-> p]
        BY <3>2
      <4> HIDE DEF n, r, p
      <4> QED
        BY <4>1, <4>2
    <3>4. /\ t \in Seq([req : {r}, pos : Nat]) /\ Len(t) = n
          /\ \A j \in 1..n : t[j] = staged[k].tokens[j]
      <4>1. /\ t \in Seq([req : {r}, pos : Nat])
            /\ Len(t) = IF 1 <= n THEN n - 1 + 1 ELSE 0
            /\ \A j \in 1..(n - 1 + 1) : t[j] = staged[k].tokens[1 + j - 1]
        BY <3>1, <3>3, SubSeqProperties
      <4> HIDE DEF t
      <4>2. n - 1 + 1 = n /\ \A j \in 1..n : 1 + j - 1 = j
        BY <3>1
      <4> QED
        BY <3>1, <4>1, <4>2
    <3>5. t # << >>
      BY <3>1, <3>4, EmptySeq
    <3>6. Applied(Prefix(r, done[r]), t) = Prefix(r, done[r] + n)
      <4> HIDE DEF t
      <4>1. \A j \in 1..n : t[j] = [req |-> r, pos |-> done[r] + j - 1]
        BY <3>2, <3>4
      <4>2. done[r] \in Nat
        BY <2>5
      <4>3. n \in Nat \ {0} /\ Len(t) = n
        BY <3>1, <3>4
      <4> HIDE DEF n, r
      <4> QED
        BY <3>5, <4>1, <4>2, <4>3, AppliedInOrder
    <3>7. state[staged[k].block] = Prefix(r, done[r])
      BY <2>2, <2>4 DEF ReplayInv, StateIsAcceptedPrefix
    <3> QED
      BY <2>7, <3>6, <3>7 DEF Transitioned
  <2> QED
    BY <1>4, <2>1, <2>4, <2>8, <2>9
<1>5. CASE ~(k <= Cardinality(S))
  <2>1. staged[k].block = Null
    BY <1>2, <1>5 DEF StagedRow, OldRow
  <2> QED
    BY <1>5, <2>1 DEF Commits
<1> QED
  BY <1>4, <1>5

\* The launch brings each staged row to its accepted tokens and writes nothing else.
LEMMA ReplayIsExact ==
    ASSUME ReplayInv, NEW sampled \in Samplings
    PROVE  /\ \A i \in SpecRows(batch) :
                 Replayed(sampled)[slot[batch[i].req]] =
                     Prefix(batch[i].req, done[batch[i].req] + sampled[i])
           /\ \A b \in Blocks \cup {Null} :
                 (\A i \in SpecRows(batch) : slot[batch[i].req] # b) =>
                     Replayed(sampled)[b] = state[b]
           /\ DOMAIN Replayed(sampled) = Blocks \cup {Null}
<1> DEFINE S == SpecRows(batch)
           Writes(k, b) == Commits(sampled, k) /\ staged[k].block = b
<1>1. /\ Len(batch) \in Nat /\ S \in SUBSET (1..Len(batch))
      /\ Cardinality(S) \in 0..MaxRows /\ MaxRows \in Nat
  BY SpecRowsFit, ReplayAssumption DEF ReplayInv, BatchInv
<1>2. DOMAIN state = Blocks \cup {Null}
  BY DEF ReplayInv, SlotInv
<1>3. CASE S = {}
  BY <1>2, <1>3 DEF Replayed, Armed
<1>4. CASE S # {}
  <2>1. Replayed(sampled) = Replay(sampled)
    BY <1>4 DEF Replayed, Armed
  <2>2. \A b \in DOMAIN state :
           Replay(sampled)[b] = IF \E k \in Rows : Writes(k, b)
                                  THEN Transitioned(sampled, CHOOSE k \in Rows : Writes(k, b))
                                  ELSE state[b]
    BY DEF Replay
  <2>3. ASSUME NEW k \in Rows, Commits(sampled, k)
        PROVE  LET i == Nth(S, k)
                   r == batch[i].req
               IN  /\ i \in S /\ staged[k].block = slot[r]
                   /\ Transitioned(sampled, k) = Prefix(r, done[r] + sampled[i])
    BY <1>4, <2>3, RowCommits
  <2>4. ASSUME NEW i \in S
        PROVE  Replay(sampled)[slot[batch[i].req]] =
                   Prefix(batch[i].req, done[batch[i].req] + sampled[i])
    <3> DEFINE r == batch[i].req
               b == slot[r]
               k == CHOOSE k \in Rows : Writes(k, b)
    <3>1. PICK l \in 1..Cardinality(S) : Nth(S, l) = i
      BY <1>1, NthReaches
    <3>2. l \in Rows /\ l <= Cardinality(S)
      BY <1>1, <3>1 DEF Rows
    <3>3. Writes(l, b)
      BY <1>4, <3>1, <3>2, RowCommits
    <3>4. k \in Rows /\ Writes(k, b)
      BY <3>2, <3>3
    <3>5. i \in 1..Len(batch) /\ r \in Live /\ b \in DOMAIN state
      BY <1>1, <1>2 DEF ReplayInv, BatchInv, SlotInv
    <3> HIDE DEF k
    <3> DEFINE j == Nth(S, k)
    <3>6. /\ j \in S /\ staged[k].block = slot[batch[j].req]
          /\ Transitioned(sampled, k) = Prefix(batch[j].req, done[batch[j].req] + sampled[j])
      BY <2>3, <3>4
    <3>7. j \in 1..Len(batch) /\ batch[j].req \in Live
      BY <1>1, <3>6 DEF ReplayInv, BatchInv
    <3>8. batch[j].req = r
      BY <3>4, <3>5, <3>6, <3>7 DEF ReplayInv, SlotInv
    <3>9. j = i
      BY <3>5, <3>7, <3>8 DEF ReplayInv, BatchInv
    <3>10. Replay(sampled)[b] = Transitioned(sampled, k)
      BY <2>2, <3>2, <3>3, <3>5 DEF k
    <3> QED
      BY <3>6, <3>9, <3>10
  <2>5. ASSUME NEW b \in Blocks \cup {Null}, \A i \in S : slot[batch[i].req] # b
        PROVE  Replay(sampled)[b] = state[b]
    <3>1. ASSUME NEW k \in Rows, Writes(k, b) PROVE FALSE
      BY <2>3, <2>5, <3>1
    <3> QED
      BY <1>2, <2>2, <3>1
  <2>6. DOMAIN Replay(sampled) = Blocks \cup {Null}
    BY <1>2 DEF Replay
  <2> QED
    BY <2>1, <2>4, <2>5, <2>6
<1> QED
  BY <1>3, <1>4
-----------------------------------------------------------------------------
\* Before the first step nothing is live.
LEMMA InitReplayInv == Init => ReplayInv
<1> SUFFICES ASSUME Init PROVE ReplayInv
  OBVIOUS
<1>1. Live = {} /\ DOMAIN done = {}
  BY DEF Init, Live
<1>2. SlotInv
  <2>1. slot = [r \in Live |-> slot[r]] /\ done = [r \in Live |-> done[r]]
    BY <1>1 DEF Init, Live
  <2>2. IsFiniteSet(Live)
    BY <1>1, FS_EmptySet
  <2> QED
    BY <1>1, <2>1, <2>2 DEF SlotInv, Init
<1>3. Len(batch) = 0 /\ batch = << >>
  BY DEF Init
<1>4. BatchInv
  <2>1. batch \in [1..0 -> [req : Live, drafts : 0..NumSpec]]
    BY <1>3
  <2> QED
    BY <1>3, <2>1, ReplayAssumption DEF BatchInv
<1>5. SpecRows(batch) = {}
  BY <1>3 DEF SpecRows
<1> QED
  BY <1>1, <1>2, <1>4, <1>5 DEF ReplayInv, StagedInv, StateIsAcceptedPrefix, Init

\* Forward. Rows with drafts are staged, the others advance in place.
LEMMA ForwardStep ==
    ASSUME ReplayInv, NEW rows \in Batches, NEW graph \in BOOLEAN, Forward(rows, graph)
    PROVE  /\ ReplayInv'
           /\ \A b \in pages : state'[b] = state[b]
           /\ Live' = Live /\ \A r \in Live : done'[r] \in Nat /\ done'[r] >= done[r]
<1> DEFINE S == SpecRows(rows)
           plain == {rows[i].req : i \in 1..Len(rows) \ S}
           stores(b, i) == rows[i].drafts = 0 /\ slot[rows[i].req] = b
<1>1. /\ Len(rows) \in 1..MaxRows /\ MaxRows \in Nat
      /\ rows \in [1..Len(rows) -> [req : Live, drafts : 0..NumSpec]]
      /\ \A i, j \in 1..Len(rows) : rows[i].req = rows[j].req => i = j
  BY BatchesAreRows, ReplayAssumption DEF ReplayInv
<1>2. /\ batch' = rows /\ slot' = slot /\ pages' = pages /\ Live' = Live
      /\ done' = [r \in Live |-> IF r \in plain THEN done[r] + 1 ELSE done[r]]
      /\ state' = Recurrence(rows)
  BY DEF Forward, Live
<1>3. \A r \in Live : done'[r] = IF r \in plain THEN done[r] + 1 ELSE done[r]
  BY <1>2
<1>4. \A i \in 1..Len(rows) : rows[i].req \in Live /\ rows[i].drafts \in 0..NumSpec /\ NumSpec \in Nat
  BY <1>1, ReplayAssumption
<1>5. \A i \in 1..Len(rows) : i \in S <=> rows[i].req \notin plain
  BY <1>1
<1>6. \A i \in 1..Len(rows) : rows[i].drafts = 0 <=> i \notin S
  BY <1>4 DEF SpecRows
<1>7. DOMAIN state = Blocks \cup {Null} /\ DOMAIN state' = Blocks \cup {Null}
  BY <1>2 DEF Recurrence, ReplayInv, SlotInv
<1>8. ASSUME NEW r \in Live
      PROVE  state'[slot[r]] = Prefix(r, done'[r])
  <2>1. /\ slot[r] \in DOMAIN state /\ done[r] \in Nat
        /\ state[slot[r]] = Prefix(r, done[r])
    BY <1>7 DEF ReplayInv, SlotInv, StateIsAcceptedPrefix
  <2>2. CASE r \in plain
    <3>1. PICK i \in 1..Len(rows) : i \notin S /\ rows[i].req = r
      BY <2>2
    <3>2. stores(slot[r], i)
      BY <1>6, <3>1
    <3> DEFINE j == CHOOSE j \in 1..Len(rows) : stores(slot[r], j)
    <3>3. j \in 1..Len(rows) /\ stores(slot[r], j)
      BY <3>2
    <3>4. state'[slot[r]] =
             Applied(state[slot[r]], <<[req |-> rows[j].req, pos |-> done[rows[j].req]]>>)
      BY <1>2, <2>1, <3>2 DEF Recurrence
    <3> HIDE DEF j
    <3>5. rows[j].req = r
      BY <1>4, <3>3 DEF ReplayInv, SlotInv
    <3> DEFINE t == <<[req |-> r, pos |-> done[r]]>>
    <3>6. Len(t) = 1 /\ t # << >> /\ t[1] = [req |-> r, pos |-> done[r]]
      OBVIOUS
    <3> HIDE DEF t
    <3>7. \A l \in 1..1 : t[l] = [req |-> r, pos |-> done[r] + l - 1]
      <4>1. done[r] + 1 - 1 = done[r]
        BY <2>1
      <4>2. t[1] = [req |-> r, pos |-> done[r] + 1 - 1]
        BY <3>6, <4>1
      <4> QED
        BY <4>2
    <3>8. Applied(Prefix(r, done[r]), t) = Prefix(r, done[r] + 1)
      <4>1. 1 \in Nat \ {0} /\ done[r] \in Nat
        BY <2>1
      <4> QED
        BY <3>6, <3>7, <4>1, AppliedInOrder
    <3>9. state'[slot[r]] = Applied(Prefix(r, done[r]), t)
      BY <2>1, <3>4, <3>5 DEF t
    <3> QED
      BY <1>3, <2>2, <3>8, <3>9
  <2>3. CASE r \notin plain
    <3>1. \A i \in 1..Len(rows) : ~stores(slot[r], i)
      BY <1>4, <1>5, <1>6, <2>3 DEF ReplayInv, SlotInv
    <3>2. state'[slot[r]] = state[slot[r]]
      BY <1>2, <2>1, <3>1 DEF Recurrence
    <3> QED
      BY <1>3, <2>1, <2>3, <3>2
  <2> QED
    BY <2>2, <2>3
<1>9. ASSUME NEW b \in pages PROVE state'[b] = state[b]
  <2>1. b \in DOMAIN state
    BY <1>7 DEF ReplayInv, SlotInv
  <2>2. \A i \in 1..Len(rows) : ~stores(b, i)
    BY <1>4 DEF ReplayInv, SlotInv
  <2> QED
    BY <1>2, <2>1, <2>2 DEF Recurrence
<1>10. \A r \in Live : done'[r] \in Nat /\ done'[r] >= done[r]
  BY <1>3 DEF ReplayInv, SlotInv
<1>11. SlotInv'
  <2>1. done' = [r \in Live' |-> done'[r]]
    BY <1>2
  <2>2. state' = [b \in Blocks \cup {Null} |-> state'[b]]
    BY <1>2, <1>7 DEF Recurrence
  <2> QED
    BY <1>2, <1>10, <2>1, <2>2 DEF ReplayInv, SlotInv
<1>12. BatchInv'
  BY <1>1, <1>2 DEF BatchInv
<1>13. StagedInv'
  <2>1. CASE S = {}
    BY <1>2, <2>1 DEF Forward, StagedInv, ReplayInv
  <2>2. CASE S # {}
    <3>1. /\ staged' = [k \in Rows |-> StagedRow(rows, k)]
          /\ mask' = [i \in Rows |-> i \in S]
      BY <2>2 DEF Forward
    <3>2. ASSUME NEW k \in Rows PROVE StagedRow(rows, k) = StagedRow(rows, k)'
      <4>1. CASE k <= Cardinality(S)
        <5> DEFINE i == Nth(S, k)
        <5>1. i \in S /\ i \in 1..Len(rows)
          <6>1. Len(rows) \in 0..MaxRows
            BY <1>1
          <6>2. Len(rows) \in Nat /\ S \in SUBSET (1..Len(rows)) /\ Cardinality(S) \in 0..MaxRows
            BY <6>1, SpecRowsFit
          <6>3. k \in 1..Cardinality(S)
            BY <4>1, <6>2 DEF Rows
          <6> QED
            BY <6>2, <6>3, NthIsMember
        <5>2. done'[rows[i].req] = done[rows[i].req]
          BY <1>3, <1>4, <1>5, <5>1
        <5>3. Candidates(rows[i])' = Candidates(rows[i])
          BY <5>2 DEF Candidates
        <5> QED
          BY <1>2, <4>1, <5>3 DEF StagedRow
      <4>2. CASE ~(k <= Cardinality(S))
        BY <4>2 DEF StagedRow
      <4> QED
        BY <4>1, <4>2
    <3>3. staged' = [k \in Rows |-> StagedRow(batch, k)']
      <4>1. \A k \in Rows : StagedRow(batch, k)' = StagedRow(rows, k)
        BY <1>2, <3>2 DEF StagedRow, Candidates
      <4> QED
        BY <3>1, <4>1
    <3>4. mask' \in [Rows -> BOOLEAN]
      BY <3>1
    <3>5. SpecRows(batch)' = S
      BY <1>2 DEF SpecRows
    <3> QED
      BY <3>1, <3>3, <3>4, <3>5 DEF StagedInv
  <2> QED
    BY <2>1, <2>2
<1>14. StateIsAcceptedPrefix'
  BY <1>2, <1>8 DEF StateIsAcceptedPrefix
<1> QED
  BY <1>2, <1>9, <1>10, <1>11, <1>12, <1>13, <1>14 DEF ReplayInv

\* What a step offers, row by row; none is under way exactly when nothing is offered.
LEMMA OfferedByRow ==
    ASSUME NEW rows, Len(rows) \in Nat,
           \A i, j \in 1..Len(rows) : rows[i].req = rows[j].req => i = j
    PROVE  /\ DOMAIN Offered(rows) = Requests(rows)
           /\ \A i \in 1..Len(rows) :
                 rows[i].req \in Requests(rows) /\ Offered(rows)[rows[i].req] = rows[i].drafts
           /\ Offered(rows) = << >> <=> Len(rows) = 0
<1>1. DOMAIN Offered(rows) = Requests(rows)
  BY DEF Offered
<1>2. ASSUME NEW i \in 1..Len(rows)
      PROVE  rows[i].req \in Requests(rows) /\ Offered(rows)[rows[i].req] = rows[i].drafts
  <2> DEFINE r == rows[i].req
             j == CHOOSE j \in 1..Len(rows) : rows[j].req = r
  <2>1. j \in 1..Len(rows) /\ rows[j].req = r
    OBVIOUS
  <2>2. r \in Requests(rows)
    BY DEF Requests
  <2>3. Offered(rows)[r] = rows[j].drafts
    BY <2>2 DEF Offered
  <2> QED
    BY <2>1, <2>2, <2>3
<1>3. ASSUME Len(rows) = 0 PROVE Offered(rows) = << >>
  <2>1. Requests(rows) = {}
    BY <1>3 DEF Requests
  <2> QED
    BY <2>1 DEF Offered
<1>4. ASSUME Len(rows) # 0 PROVE Offered(rows) # << >>
  <2>1. 1 \in 1..Len(rows)
    BY <1>4
  <2>2. rows[1].req \in DOMAIN Offered(rows)
    BY <1>1, <1>2, <2>1
  <2>3. DOMAIN << >> = {}
    OBVIOUS
  <2> QED
    BY <2>2, <2>3
<1> QED
  BY <1>1, <1>2, <1>3, <1>4

\* Sample. The replay is committed before any block is migrated from: each request
\* with drafts advances by what was accepted, a page left holds the state it left with.
LEMMA SampleStep ==
    ASSUME ReplayInv, NEW sampled \in Samplings, NEW moved \in Moves(batch),
           Sample(sampled, moved)
    PROVE  /\ ReplayInv'
           /\ \A b \in pages : state'[b] = state[b]
           /\ Live' = Live
           /\ \A r \in Live :
                 /\ done'[r] \in Nat
                 /\ IF r \in DOMAIN Offered(batch) /\ Offered(batch)[r] > 0
                      THEN done'[r] \in (done[r] + 1)..(done[r] + Offered(batch)[r] + 1)
                      ELSE done'[r] = done[r]
           /\ pages \subseteq pages'
           /\ \A b \in pages' \ pages :
                 \E r \in Requests(batch) :
                    r \in Live /\ b = slot[r] /\ state'[b] = Prefix(r, done'[r])
<1> DEFINE S == SpecRows(batch)
           contents == Replayed(sampled)
           stays(r) == \A i \in S : batch[i].req # r
           row(r) == CHOOSE i \in S : batch[i].req = r
<1>1. /\ Len(batch) \in Nat /\ S \in SUBSET (1..Len(batch))
      /\ \A i \in 1..Len(batch) : batch[i].req \in Live
  BY SpecRowsFit DEF ReplayInv, BatchInv
<1>2. PICK M \in SUBSET {batch[i].req : i \in 1..Len(batch)} :
         moved \in [M -> FreeBlocks] /\ \A r, s \in M : moved[r] = moved[s] => r = s
  BY DEF Moves, Requests
<1>3. /\ DOMAIN moved = M /\ M \subseteq Live
      /\ \A r \in M : moved[r] \in Blocks /\ moved[r] \notin pages
                        /\ \A s \in Live : slot[s] # moved[r]
  <2>1. \A r \in M : moved[r] \in FreeBlocks
    BY <1>2
  <2> QED
    BY <1>1, <1>2, <2>1 DEF FreeBlocks, Running
<1>4. /\ batch' = << >> /\ staged' = staged /\ mask' = mask
      /\ slot' = [r \in Live |-> IF r \in M THEN moved[r] ELSE slot[r]]
      /\ pages' = pages \cup {slot[r] : r \in M}
      /\ state' = MoveFrom(contents, moved)
  BY <1>3 DEF Sample, AfterSampling
<1>5. done' = [r \in Live |-> IF \E i \in S : batch[i].req = r
                                THEN done[r] + sampled[row(r)] ELSE done[r]]
  BY DEF Sample, AfterSampling
<1>6. Live' = Live /\ \A r \in Live : slot'[r] = IF r \in M THEN moved[r] ELSE slot[r]
  BY <1>4 DEF Live
<1>7. /\ \A r, s \in Live : slot[r] = slot[s] => r = s
      /\ \A r \in Live : slot[r] \in Blocks \ pages /\ done[r] \in Nat
      /\ DOMAIN state = Blocks \cup {Null} /\ pages \subseteq Blocks
      /\ IsFiniteSet(Live) /\ Live \subseteq Req
      /\ \A r \in Live : state[slot[r]] = Prefix(r, done[r])
  BY DEF ReplayInv, SlotInv, StateIsAcceptedPrefix
<1>8. ASSUME NEW r \in Live
      PROVE  /\ contents[slot[r]] = Prefix(r, done'[r])
             /\ done'[r] \in Nat
             /\ IF r \in DOMAIN Offered(batch) /\ Offered(batch)[r] > 0
                  THEN done'[r] \in (done[r] + 1)..(done[r] + Offered(batch)[r] + 1)
                  ELSE done'[r] = done[r]
  <2>0. /\ DOMAIN Offered(batch) = Requests(batch)
        /\ \A i \in 1..Len(batch) :
              batch[i].req \in Requests(batch) /\ Offered(batch)[batch[i].req] = batch[i].drafts
    BY <1>1, OfferedByRow DEF ReplayInv, BatchInv
  <2>1. CASE stays(r)
    <3>1. done'[r] = done[r]
      BY <1>5, <2>1
    <3>4. ~(r \in DOMAIN Offered(batch) /\ Offered(batch)[r] > 0)
      <4> SUFFICES ASSUME r \in Requests(batch), Offered(batch)[r] > 0 PROVE FALSE
        BY <2>0
      <4>1. PICK i \in 1..Len(batch) : batch[i].req = r
        BY DEF Requests
      <4>2. batch[i].drafts > 0
        BY <2>0, <4>1
      <4>3. i \in S
        BY <4>1, <4>2 DEF SpecRows
      <4> QED
        BY <2>1, <4>1, <4>3
    <3>2. \A i \in S : slot[batch[i].req] # slot[r]
      BY <1>1, <1>7, <2>1
    <3>3. contents[slot[r]] = state[slot[r]]
      BY <1>7, <3>2, ReplayIsExact
    <3> QED
      BY <1>7, <3>1, <3>3, <3>4
  <2>2. CASE ~stays(r)
    <3>1. row(r) \in S /\ batch[row(r)].req = r
      BY <2>2
    <3>2. done'[r] = done[r] + sampled[row(r)]
      BY <1>5, <2>2
    <3> HIDE DEF row
    <3>3. contents[slot[r]] = Prefix(r, done[r] + sampled[row(r)])
      BY <3>1, ReplayIsExact
    <3>4. /\ row(r) \in 1..Len(batch) /\ batch[row(r)].drafts \in 0..NumSpec /\ NumSpec \in Nat
          /\ batch[row(r)].drafts > 0
      BY <1>1, <3>1, ReplayAssumption DEF ReplayInv, BatchInv, SpecRows
    <3>5. sampled[row(r)] \in 1..(batch[row(r)].drafts + 1)
      BY <3>1, SamplingsAreAccepted DEF ReplayInv
    <3>6. r \in DOMAIN Offered(batch) /\ Offered(batch)[r] = batch[row(r)].drafts
      BY <2>0, <3>1, <3>4
    <3>7. done[r] \in Nat
      BY <1>7
    <3>8. /\ done'[r] \in Nat
          /\ done'[r] \in (done[r] + 1)..(done[r] + Offered(batch)[r] + 1)
          /\ Offered(batch)[r] > 0
      BY <3>2, <3>4, <3>5, <3>6, <3>7
    <3> QED
      BY <3>2, <3>3, <3>6, <3>8
  <2> QED
    BY <2>1, <2>2
<1>9. \A b \in Blocks \cup {Null} :
         state'[b] = IF \E r \in M : moved[r] = b
                       THEN contents[slot[CHOOSE r \in M : moved[r] = b]] ELSE contents[b]
  BY <1>3, <1>4, <1>7 DEF MoveFrom
<1> HIDE DEF contents
<1>10. ASSUME NEW r \in Live PROVE state'[slot'[r]] = Prefix(r, done'[r])
  <2>1. CASE r \in M
    <3> DEFINE q == CHOOSE q \in M : moved[q] = moved[r]
    <3>1. q \in M /\ moved[q] = moved[r]
      BY <2>1
    <3>2. state'[moved[r]] = contents[slot[q]]
      BY <1>3, <1>9, <2>1
    <3> HIDE DEF q
    <3>3. q = r
      BY <1>2, <2>1, <3>1
    <3> QED
      BY <1>6, <1>8, <2>1, <3>2, <3>3
  <2>2. CASE r \notin M
    <3>1. \A q \in M : moved[q] # slot[r]
      BY <1>3
    <3>2. state'[slot[r]] = contents[slot[r]]
      BY <1>7, <1>9, <3>1
    <3> QED
      BY <1>6, <1>8, <2>2, <3>2
  <2> QED
    BY <2>1, <2>2
<1>11. ASSUME NEW b \in pages PROVE state'[b] = state[b]
  <2>1. \A i \in S : slot[batch[i].req] # b
    BY <1>1, <1>7
  <2>2. contents[b] = state[b]
    BY <1>7, <2>1, ReplayIsExact DEF contents
  <2>3. \A r \in M : moved[r] # b
    BY <1>3
  <2> QED
    BY <1>7, <1>9, <2>2, <2>3
<1>14. ASSUME NEW b \in pages' \ pages
       PROVE  \E r \in Requests(batch) :
                 r \in Live /\ b = slot[r] /\ state'[b] = Prefix(r, done'[r])
  <2>1. PICK r \in M : b = slot[r]
    BY <1>4
  <2>2. r \in Requests(batch) /\ r \in Live /\ b \in Blocks \cup {Null}
    BY <1>3, <1>7, <2>1 DEF Requests
  <2>3. \A q \in M : moved[q] # b
    BY <1>3, <2>1, <2>2
  <2>4. state'[b] = contents[b]
    BY <1>9, <2>2, <2>3
  <2> QED
    BY <1>8, <2>1, <2>2, <2>4
<1>12. SlotInv'
  <2>1. slot' = [r \in Live' |-> slot'[r]] /\ done' = [r \in Live' |-> done'[r]]
    BY <1>4, <1>5, <1>6
  <2>2. state' = [b \in Blocks \cup {Null} |-> state'[b]]
    BY <1>4, <1>7 DEF MoveFrom
  <2>3. \A r \in Live : slot'[r] \in Blocks \ pages'
    BY <1>3, <1>4, <1>6, <1>7
  <2>4. \A r, s \in Live : slot'[r] = slot'[s] => r = s
    BY <1>2, <1>3, <1>6, <1>7
  <2>5. pages' \subseteq Blocks
    BY <1>3, <1>4, <1>7
  <2> QED
    BY <1>6, <1>7, <1>8, <2>1, <2>2, <2>3, <2>4, <2>5 DEF SlotInv
<1>13. BatchInv' /\ StagedInv'
  <2>1. batch' = << >> /\ Len(batch') = 0
    BY <1>4
  <2>2. SpecRows(batch)' = {}
    BY <2>1 DEF SpecRows
  <2>3. batch' \in [1..0 -> [req : Live', drafts : 0..NumSpec]]
    BY <2>1
  <2> QED
    BY <1>4, <2>1, <2>2, <2>3, ReplayAssumption DEF BatchInv, StagedInv, ReplayInv
<1> QED
  BY <1>4, <1>6, <1>8, <1>10, <1>11, <1>12, <1>13, <1>14 DEF ReplayInv, StateIsAcceptedPrefix

\* Nothing is staged while no step is under way.
LEMMA IdleInv ==
    ASSUME ReplayInv, Idle, UNCHANGED <<batch, staged, mask>>
    PROVE  BatchInv' /\ StagedInv'
<1>1. batch' = << >> /\ Len(batch') = 0
  BY DEF Idle
<1>2. SpecRows(batch)' = {}
  BY <1>1 DEF SpecRows
<1>3. batch' \in [1..0 -> [req : Live', drafts : 0..NumSpec]]
  BY <1>1
<1> QED
  BY <1>1, <1>2, <1>3, ReplayAssumption DEF BatchInv, StagedInv, ReplayInv

\* Arrive. The new state takes a block nobody holds.
LEMMA ArriveStep ==
    ASSUME ReplayInv, NEW r \in Req, NEW b \in Blocks, Arrive(r, b)
    PROVE  ReplayInv' /\ \A p \in pages : state'[p] = state[p]
<1>1. BatchInv' /\ StagedInv'
  BY IdleInv DEF Arrive
<1>2. /\ Live' = Live \cup {r} /\ r \notin Live /\ pages' = pages
      /\ \A s \in Live' : slot'[s] = IF s = r THEN b ELSE slot[s]
      /\ \A s \in Live' : done'[s] = IF s = r THEN 0 ELSE done[s]
  BY DEF Arrive, Live
<1>3. b \notin pages /\ \A s \in Live : slot[s] # b
  BY DEF Arrive, FreeBlocks, Running
<1>4. /\ DOMAIN state' = Blocks \cup {Null}
      /\ \A c \in Blocks \cup {Null} : state'[c] = IF c = b THEN Prefix(r, 0) ELSE state[c]
  BY DEF Arrive, ReplayInv, SlotInv
<1>5. SlotInv'
  <2>1. slot' = [s \in Live' |-> slot'[s]] /\ done' = [s \in Live' |-> done'[s]]
    BY <1>2 DEF Arrive
  <2>2. state' = [c \in Blocks \cup {Null} |-> state'[c]]
    BY <1>4 DEF Arrive, ReplayInv, SlotInv
  <2>3. IsFiniteSet(Live')
    BY <1>2, FS_AddElement DEF ReplayInv, SlotInv
  <2> QED
    BY <1>2, <1>3, <2>1, <2>2, <2>3 DEF ReplayInv, SlotInv
<1>6. StateIsAcceptedPrefix'
  <2> SUFFICES ASSUME NEW s \in Live' PROVE state'[slot'[s]] = Prefix(s, done'[s])
    BY DEF StateIsAcceptedPrefix
  <2>1. CASE s = r
    BY <1>2, <1>4, <2>1
  <2>2. CASE s # r
    <3>1. s \in Live /\ slot'[s] = slot[s] /\ done'[s] = done[s] /\ slot[s] # b
      BY <1>2, <1>3, <2>2
    <3>2. slot[s] \in Blocks /\ state[slot[s]] = Prefix(s, done[s])
      BY <3>1 DEF StateIsAcceptedPrefix, ReplayInv, SlotInv
    <3> QED BY <1>4, <3>1, <3>2
  <2> QED BY <2>1, <2>2
<1>7. \A p \in pages : state'[p] = state[p]
  BY <1>3, <1>4 DEF ReplayInv, SlotInv
<1> QED
  BY <1>1, <1>5, <1>6, <1>7 DEF ReplayInv

\* Leave. The block goes back to the pool, whatever it holds.
LEMMA LeaveStep ==
    ASSUME ReplayInv, NEW r \in Req, Leave(r)
    PROVE  ReplayInv' /\ \A p \in pages : state'[p] = state[p]
<1>1. BatchInv' /\ StagedInv'
  BY IdleInv DEF Leave
<1>2. /\ Live' = Live \ {r} /\ r \in Live /\ pages' = pages
      /\ \A s \in Live' : slot'[s] = slot[s] /\ done'[s] = done[s]
  BY DEF Leave, Live
<1>3. /\ DOMAIN state' = Blocks \cup {Null}
      /\ \A c \in Blocks \cup {Null} : state'[c] = IF c = slot[r] THEN Garbled ELSE state[c]
  BY DEF Leave, ReplayInv, SlotInv
<1>4. SlotInv'
  <2>1. slot' = [s \in Live' |-> slot'[s]] /\ done' = [s \in Live' |-> done'[s]]
    BY <1>2 DEF Leave
  <2>2. state' = [c \in Blocks \cup {Null} |-> state'[c]]
    BY <1>3 DEF Leave, ReplayInv, SlotInv
  <2>3. IsFiniteSet(Live')
    BY <1>2, FS_RemoveElement DEF ReplayInv, SlotInv
  <2> QED
    BY <1>2, <2>1, <2>2, <2>3 DEF ReplayInv, SlotInv
<1>5. StateIsAcceptedPrefix'
  BY <1>2, <1>3 DEF StateIsAcceptedPrefix, ReplayInv, SlotInv
<1>6. \A p \in pages : state'[p] = state[p]
  BY <1>2, <1>3 DEF ReplayInv, SlotInv
<1> QED
  BY <1>1, <1>4, <1>5, <1>6 DEF ReplayInv

\* Evict. A page that is given up is in use by no request.
LEMMA EvictStep ==
    ASSUME ReplayInv, NEW b \in Blocks, Evict(b)
    PROVE  ReplayInv' /\ \A p \in pages' : state'[p] = state[p]
<1>1. BatchInv' /\ StagedInv'
  BY IdleInv DEF Evict
<1>2. Live' = Live /\ slot' = slot /\ done' = done /\ pages' = pages \ {b} /\ b \in pages
  BY DEF Evict, Live
<1>3. /\ DOMAIN state' = Blocks \cup {Null}
      /\ \A c \in Blocks \cup {Null} : state'[c] = IF c = b THEN Garbled ELSE state[c]
  BY DEF Evict, ReplayInv, SlotInv
<1>4. SlotInv'
  <2>1. state' = [c \in Blocks \cup {Null} |-> state'[c]]
    BY <1>3 DEF Evict, ReplayInv, SlotInv
  <2> QED
    BY <1>2, <2>1 DEF ReplayInv, SlotInv
<1>5. StateIsAcceptedPrefix'
  BY <1>2, <1>3 DEF StateIsAcceptedPrefix, ReplayInv, SlotInv
<1>6. \A p \in pages' : state'[p] = state[p]
  BY <1>2, <1>3 DEF ReplayInv, SlotInv
<1> QED
  BY <1>1, <1>4, <1>5, <1>6 DEF ReplayInv
-----------------------------------------------------------------------------
\* Every step keeps the invariant and every page that stays one.
LEMMA ReplayStep ==
    ASSUME ReplayInv, [Next]_vars
    PROVE  ReplayInv' /\ \A b \in pages \cap pages' : state'[b] = state[b]
<1>1. CASE ForwardSome
  BY <1>1, ForwardStep DEF ForwardSome
<1>2. CASE SampleSome
  BY <1>2, SampleStep DEF SampleSome
<1>3. CASE Pool
  BY <1>3, LeaveStep, ArriveStep, EvictStep DEF Pool
<1>4. CASE UNCHANGED vars
  <2>1. /\ Live' = Live /\ SpecRows(batch)' = SpecRows(batch)
        /\ \A k \in Rows : StagedRow(batch, k)' = StagedRow(batch, k)
    BY <1>4 DEF vars, Live, SpecRows, StagedRow, Candidates
  <2>2. SlotInv' /\ BatchInv'
    BY <1>4, <2>1 DEF vars, ReplayInv, SlotInv, BatchInv
  <2>3. StateIsAcceptedPrefix'
    BY <1>4, <2>1 DEF vars, ReplayInv, StateIsAcceptedPrefix, Prefix
  <2>4. StagedInv'
    <3>1. [k \in Rows |-> StagedRow(batch, k)'] = [k \in Rows |-> StagedRow(batch, k)]
      BY <2>1
    <3> QED
      BY <1>4, <2>1, <3>1 DEF vars, ReplayInv, StagedInv
  <2> QED
    BY <1>4, <2>2, <2>3, <2>4 DEF vars, ReplayInv
<1> QED
  BY <1>1, <1>2, <1>3, <1>4 DEF Next

\* The invariant holds throughout.
THEOREM ReplayInvariant == Spec => []ReplayInv
<1>1. ReplayInv /\ [Next]_vars => ReplayInv'
  BY ReplayStep
<1> QED
  BY InitReplayInv, <1>1, PTL DEF Spec

\* Whatever ran eagerly or as a graph, in whatever mix of rows, and whatever
\* block a request moved to: its state is the one after its accepted tokens.
THEOREM AcceptedPrefixHolds == Spec => []StateIsAcceptedPrefix
<1>1. ReplayInv => StateIsAcceptedPrefix
  BY DEF ReplayInv
<1> QED
  BY ReplayInvariant, <1>1, PTL

\* A page left behind in the prefix cache keeps its content.
THEOREM PagesFrozen == Spec => PagesAreFrozen
<1>1. ReplayInv /\ [Next]_vars => [\A b \in pages \cap pages' : state'[b] = state[b]]_vars
  BY ReplayStep
<1> QED
  BY ReplayInvariant, <1>1, PTL DEF Spec, PagesAreFrozen
-----------------------------------------------------------------------------
(***************************************************************************)
(* Refinement: a step offers its drafts, one commit decides them, and what *)
(* requests continue from and leave behind is what KdaState says.          *)
(***************************************************************************)
\* What is mapped onto the memory is, at any time, what the promise holds.
LEMMA MemoryHeld == ASSUME ReplayInv' PROVE Abstract!Held
<1>1. \A r \in DOMAIN slot' : state'[slot'[r]] = Abstract!Prefix(r, done'[r])
  BY DEF ReplayInv, StateIsAcceptedPrefix, Prefix, Live
<1>2. DOMAIN slot' = DOMAIN done'
  BY DEF ReplayInv, SlotInv, Live
<1> QED
  BY <1>1, <1>2 DEF Abstract!Held

\* A step is under way exactly when drafts are offered.
LEMMA RestingIsIdle == ASSUME ReplayInv PROVE Idle <=> Abstract!Resting
<1>1. Len(batch) \in Nat /\ (Offered(batch) = << >> <=> Len(batch) = 0)
  BY OfferedByRow, ReplayAssumption DEF ReplayInv, BatchInv
<1>2. batch = << >> <=> Len(batch) = 0
  <2>1. batch \in Seq([req : Live, drafts : 0..NumSpec])
    <3>1. \A T : \A n \in Nat : batch \in [1..n -> T] => batch \in Seq(T)
      BY Zenon, SeqDef
    <3> QED
      BY <1>1, <3>1 DEF ReplayInv, BatchInv
  <2> QED
    BY <2>1, EmptySeq
<1> QED
  BY <1>1, <1>2 DEF Idle, Abstract!Resting

\* The forward of a step offers its drafts and decides rows without.
LEMMA ForwardVerifies ==
    ASSUME ReplayInv, ReplayInv', NEW rows \in Batches, NEW graph \in BOOLEAN,
           Forward(rows, graph)
    PROVE  Abstract!VerifySome
<1>1. /\ Len(rows) \in 1..MaxRows
      /\ rows \in [1..Len(rows) -> [req : Live, drafts : 0..NumSpec]]
      /\ \A i, j \in 1..Len(rows) : rows[i].req = rows[j].req => i = j
  BY BatchesAreRows DEF ReplayInv
<1>2. Len(rows) \in Nat /\ Len(rows) # 0
  BY <1>1, ReplayAssumption
<1>3. /\ DOMAIN Offered(rows) = Requests(rows)
      /\ \A i \in 1..Len(rows) :
            rows[i].req \in Requests(rows) /\ Offered(rows)[rows[i].req] = rows[i].drafts
  BY <1>1, <1>2, OfferedByRow
<1>4. DOMAIN done = Live
  BY DEF ReplayInv, SlotInv
<1>5. Requests(rows) \in (SUBSET DOMAIN done) \ {{}}
  <2>1. Requests(rows) \subseteq Live
    BY <1>1 DEF Requests
  <2>2. rows[1].req \in Requests(rows)
    <3>1. 1 \in 1..Len(rows)
      BY <1>2
    <3> QED
      BY <1>3, <3>1
  <2> QED
    BY <1>4, <2>1, <2>2
<1>6. Offered(rows) \in [Requests(rows) -> 0..NumSpec]
  <2>1. ASSUME NEW r \in Requests(rows) PROVE Offered(rows)[r] \in 0..NumSpec
    <3>1. PICK i \in 1..Len(rows) : rows[i].req = r
      BY DEF Requests
    <3>2. Offered(rows)[r] = rows[i].drafts /\ rows[i].drafts \in 0..NumSpec
      BY <1>1, <1>3, <3>1
    <3> QED
      BY <3>2
  <2>2. Offered(rows) = [r \in Requests(rows) |-> Offered(rows)[r]]
    BY DEF Offered
  <2> QED
    BY <2>1, <2>2
<1>7. done' = [r \in DOMAIN done |->
                 IF r \in DOMAIN Offered(rows) /\ Offered(rows)[r] = 0
                   THEN done[r] + 1 ELSE done[r]]
  <2> DEFINE plain == {rows[i].req : i \in 1..Len(rows) \ SpecRows(rows)}
  <2>1. done' = [r \in Live |-> IF r \in plain THEN done[r] + 1 ELSE done[r]]
    BY DEF Forward
  <2>2. ASSUME NEW r
        PROVE  r \in plain <=> r \in Requests(rows) /\ Offered(rows)[r] = 0
    <3>1. \A i \in 1..Len(rows) : i \notin SpecRows(rows) <=> rows[i].drafts = 0
      BY <1>1, ReplayAssumption DEF SpecRows
    <3>2. ASSUME r \in plain PROVE r \in Requests(rows) /\ Offered(rows)[r] = 0
      BY <1>3, <3>1, <3>2
    <3>3. ASSUME r \in Requests(rows), Offered(rows)[r] = 0 PROVE r \in plain
      <4>1. PICK i \in 1..Len(rows) : rows[i].req = r
        BY <3>3 DEF Requests
      <4>2. i \notin SpecRows(rows)
        BY <1>3, <3>1, <3>3, <4>1
      <4> QED
        BY <4>1, <4>2
    <3> QED
      BY <3>2, <3>3
  <2> HIDE DEF plain
  <2> QED
    BY <1>3, <1>4, <2>1, <2>2
<1>8. Abstract!Verify(Offered(rows))
  <2>1. Abstract!Resting
    BY RestingIsIdle DEF Forward
  <2>2. Offered(batch') = Offered(rows) /\ pages' = pages
    BY DEF Forward
  <2>3. [b \in pages' |-> state'[b]] = [b \in pages |-> state[b]]
    BY <2>2, ForwardStep
  <2> QED
    BY <1>7, <2>1, <2>2, <2>3, MemoryHeld DEF Abstract!Verify, Offered, Requests
<1> QED
  BY <1>5, <1>6, <1>8 DEF Abstract!VerifySome

\* Sampling, replay and migration together are the commit.
LEMMA SampleCommits ==
    ASSUME ReplayInv, ReplayInv', NEW sampled \in Samplings, NEW moved \in Moves(batch),
           Sample(sampled, moved)
    PROVE  Abstract!Commit
<1>1. /\ DOMAIN done = Live /\ Live' = Live /\ done' = [r \in Live' |-> done'[r]]
      /\ \A r, s \in Live : slot[r] = slot[s] => r = s
  BY SampleStep DEF ReplayInv, SlotInv
<1>2. ~Abstract!Resting
  BY RestingIsIdle DEF Sample
<1>3. Offered(batch)' = << >>
  <2>1. batch' = << >>
    BY DEF Sample, AfterSampling
  <2>2. Requests(batch)' = {}
    BY <2>1 DEF Requests
  <2> QED
    BY <2>2 DEF Offered
<1>4. done' \in [DOMAIN done -> Nat]
  BY <1>1, SampleStep
<1>5. \A r \in DOMAIN done :
         IF r \in DOMAIN Offered(batch) /\ Offered(batch)[r] > 0
           THEN done'[r] \in (done[r] + 1)..(done[r] + Offered(batch)[r] + 1)
           ELSE done'[r] = done[r]
  BY <1>1, SampleStep
<1>6. /\ pages \subseteq pages'
      /\ \A p \in pages : state'[p] = state[p]
      /\ \A p \in pages' \ pages :
            \E r \in Requests(batch) :
               r \in Live /\ p = slot[r] /\ state'[p] = Abstract!Prefix(r, done'[r])
  BY SampleStep DEF Prefix
<1>7. ASSUME NEW p \in pages' \ pages, NEW q \in pages' \ pages, state'[p] = state'[q]
      PROVE  p = q
  <2>1. PICK r \in Live : p = slot[r] /\ state'[p] = Abstract!Prefix(r, done'[r])
    BY <1>6
  <2>2. PICK s \in Live : q = slot[s] /\ state'[q] = Abstract!Prefix(s, done'[s])
    BY <1>6
  <2>3. r = s
    BY <1>7, <2>1, <2>2 DEF Abstract!Prefix
  <2> QED
    BY <2>1, <2>2, <2>3
<1>8. DOMAIN Offered(batch) = Requests(batch)
  BY DEF Offered
<1> DEFINE left == [b \in pages |-> state[b]]
           leaves == [b \in pages' |-> state'[b]]
<1>9. /\ DOMAIN left \subseteq DOMAIN leaves
      /\ \A p \in DOMAIN leaves :
            IF p \in DOMAIN left
              THEN leaves[p] = left[p]
              ELSE \E r \in DOMAIN Offered(batch) : leaves[p] = Abstract!Prefix(r, done'[r])
      /\ \A p, q \in DOMAIN leaves \ DOMAIN left : leaves[p] = leaves[q] => p = q
  BY <1>6, <1>7, <1>8
<1> QED
  BY <1>2, <1>3, <1>4, <1>5, <1>9, MemoryHeld DEF Abstract!Commit

\* Requests that come and go and pages that are evicted, between steps.
LEMMA PoolRests ==
    ASSUME ReplayInv, ReplayInv', Pool
    PROVE  Abstract!Next
<1>1. DOMAIN done = Live
  BY DEF ReplayInv, SlotInv
<1>2. ASSUME NEW r \in Req, Leave(r) PROVE Abstract!Next
  <2>1. Abstract!Resting
    BY <1>2, RestingIsIdle DEF Leave
  <2>2. Offered(batch)' = Offered(batch)
    BY <1>2 DEF Leave, Offered, Requests
  <2>3. [b \in pages' |-> state'[b]] = [b \in pages |-> state[b]]
    BY <1>2, LeaveStep DEF Leave
  <2>4. Abstract!Finish(r)
    BY <1>1, <1>2, <2>1, <2>2, <2>3, MemoryHeld DEF Leave, Abstract!Finish
  <2> QED
    BY <2>4 DEF Abstract!Next
<1>3. ASSUME NEW r \in Req, NEW b \in Blocks, Arrive(r, b) PROVE Abstract!Next
  <2>1. Abstract!Resting
    BY <1>3, RestingIsIdle DEF Arrive
  <2>2. Offered(batch)' = Offered(batch)
    BY <1>3 DEF Arrive, Offered, Requests
  <2>3. [c \in pages' |-> state'[c]] = [c \in pages |-> state[c]]
    BY <1>3, ArriveStep DEF Arrive
  <2>4. Abstract!Start(r)
    BY <1>1, <1>3, <2>1, <2>2, <2>3, MemoryHeld DEF Arrive, Abstract!Start
  <2> QED
    BY <2>4 DEF Abstract!Next
<1>4. ASSUME NEW b \in Blocks, Evict(b) PROVE Abstract!Next
  <2>1. Abstract!Resting
    BY <1>4, RestingIsIdle DEF Evict
  <2>2. /\ Offered(batch)' = Offered(batch) /\ done' = done /\ slot' = slot
        /\ b \in pages /\ pages' = pages \ {b}
    BY <1>4 DEF Evict, Offered, Requests
  <2>3. [p \in pages' |-> state'[p]] = [p \in pages \ {b} |-> state[p]]
    BY <1>4, <2>2, EvictStep
  <2>4. [r \in DOMAIN slot' |-> state'[slot'[r]]] = [r \in DOMAIN slot |-> state[slot[r]]]
    <3>1. \A r \in DOMAIN slot : state'[slot'[r]] = state[slot[r]]
      BY <2>2 DEF ReplayInv, StateIsAcceptedPrefix, Live
    <3> QED
      BY <2>2, <3>1
  <2> DEFINE cached == [p \in pages |-> state[p]]
  <2>5. \E p \in DOMAIN cached :
           [q \in pages' |-> state'[q]] = [q \in DOMAIN cached \ {p} |-> cached[q]]
    <3>1. [q \in pages \ {b} |-> state[q]] = [q \in DOMAIN cached \ {b} |-> cached[q]]
      OBVIOUS
    <3> QED
      BY <2>2, <2>3, <3>1
  <2>6. Abstract!Evict
    BY <2>1, <2>2, <2>4, <2>5 DEF Abstract!Evict
  <2> QED
    BY <2>6 DEF Abstract!Next
<1> QED
  BY <1>2, <1>3, <1>4 DEF Pool

\* Staging, replay and migration implement the atomic commit that KdaState promises.
THEOREM ReplayImplementsKdaState == Spec => ImplementsKdaState
<1>1. Init => Abstract!Init
  <2> SUFFICES ASSUME Init PROVE Abstract!Init
    OBVIOUS
  <2>1. /\ [r \in DOMAIN slot |-> state[slot[r]]] = << >>
        /\ [b \in pages |-> state[b]] = << >>
    BY DEF Init
  <2>2. Requests(batch) = {}
    BY DEF Init, Requests
  <2>3. Offered(batch) = << >>
    BY <2>2 DEF Offered
  <2> QED
    BY <2>1, <2>3 DEF Init, Abstract!Init
<1>2. ASSUME ReplayInv, ReplayInv', [Next]_vars PROVE [Abstract!Next]_(Abstract!vars)
  <2>1. CASE ForwardSome
    BY <1>2, <2>1, ForwardVerifies DEF ForwardSome, Abstract!Next
  <2>2. CASE SampleSome
    BY <1>2, <2>2, SampleCommits DEF SampleSome, Abstract!Next
  <2>3. CASE Pool
    BY <1>2, <2>3, PoolRests
  <2>4. CASE UNCHANGED vars
    BY <2>4 DEF vars, Abstract!vars, Offered, Requests
  <2> QED
    BY <1>2, <2>1, <2>2, <2>3, <2>4 DEF Next
<1>3. ReplayInv /\ ReplayInv' /\ [Next]_vars => [Abstract!Next]_(Abstract!vars)
  BY <1>2
<1> QED
  BY <1>1, <1>3, ReplayInvariant, PTL DEF Spec, ImplementsKdaState, Abstract!Spec
=============================================================================
