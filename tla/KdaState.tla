------------------------------ MODULE KdaState ------------------------------
(***************************************************************************)
(* What speculative decoding promises of the recurrent state, whatever     *)
(* buffers, blocks and graphs it goes through. A step offers drafts for    *)
(* the requests it runs; one atomic commit then accepts some of each; at   *)
(* any time a request continues from the state after exactly its accepted  *)
(* tokens, and a page given to the prefix cache is a state that some       *)
(* request of the step had reached, and stays so until it is evicted.      *)
(***************************************************************************)
EXTENDS Integers

CONSTANTS Req, NumSpec

VARIABLES
    done,                 \* tokens accepted, for each live request
    memory,               \* the recurrent state each of them continues from
    offered,              \* drafts under verification, for each request of the step
    cache                 \* states kept in the prefix cache, by page

vars == <<done, memory, offered, cache>>

\* The state after the first n tokens of request r.
Prefix(r, n) == [req |-> r, len |-> n]

Init == done = << >> /\ memory = << >> /\ offered = << >> /\ cache = << >>

Resting == offered = << >>

Held == memory' = [r \in DOMAIN done' |-> Prefix(r, done'[r])]

Start(r) ==
    /\ Resting
    /\ r \notin DOMAIN done
    /\ done' = [s \in DOMAIN done \cup {r} |-> IF s = r THEN 0 ELSE done[s]]
    /\ Held
    /\ UNCHANGED <<offered, cache>>

Finish(r) ==
    /\ Resting
    /\ r \in DOMAIN done
    /\ done' = [s \in DOMAIN done \ {r} |-> done[s]]
    /\ Held
    /\ UNCHANGED <<offered, cache>>

Evict ==
    /\ Resting
    /\ \E p \in DOMAIN cache : cache' = [q \in DOMAIN cache \ {p} |-> cache[q]]
    /\ UNCHANGED <<done, memory, offered>>

\* A request without drafts has its one token already; of the others nothing
\* is decided, and what they continue from is not touched.
Verify(drafts) ==
    /\ Resting
    /\ offered' = drafts
    /\ done' = [r \in DOMAIN done |->
                  IF r \in DOMAIN drafts /\ drafts[r] = 0 THEN done[r] + 1 ELSE done[r]]
    /\ Held
    /\ UNCHANGED cache

\* Between one token and all drafts with the bonus token, for every request of
\* the step at once; a request whose page is full leaves it as it now stands.
Commit ==
    /\ ~Resting
    /\ offered' = << >>
    /\ done' \in [DOMAIN done -> Nat]
    /\ \A r \in DOMAIN done :
          IF r \in DOMAIN offered /\ offered[r] > 0
            THEN done'[r] \in (done[r] + 1)..(done[r] + offered[r] + 1)
            ELSE done'[r] = done[r]
    /\ Held
    /\ DOMAIN cache \subseteq DOMAIN cache'
    /\ \A p \in DOMAIN cache' :
          IF p \in DOMAIN cache
            THEN cache'[p] = cache[p]
            ELSE \E r \in DOMAIN offered : cache'[p] = Prefix(r, done'[r])
    /\ \A p, q \in DOMAIN cache' \ DOMAIN cache : cache'[p] = cache'[q] => p = q

VerifySome ==
    \E S \in (SUBSET DOMAIN done) \ {{}} : \E drafts \in [S -> 0..NumSpec] : Verify(drafts)

Next == VerifySome \/ Commit \/ Evict \/ \E r \in Req : Start(r) \/ Finish(r)

Spec == Init /\ [][Next]_vars
=============================================================================
