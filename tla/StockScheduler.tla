--------------------------- MODULE StockScheduler ---------------------------
(***************************************************************************)
(* The part of vLLM's AsyncScheduler the two GLM schedulers are built on,  *)
(* modelled from how docker/glm_decode_first_scheduler.py uses it: request *)
(* queues, the mutable settings the adapters scope to one call, and the    *)
(* scheduling loop that hands prompt tokens to one prefill after another.  *)
(*                                                                         *)
(* waiting stands for the two queues waiting and skipped_waiting, which    *)
(* the adapters always read together; flagged is the set of requests with  *)
(* is_prefill_chunk set. The loop is a sequence of grants, one request at  *)
(* a time, so that everything it changes is visible in between.            *)
(***************************************************************************)
EXTENDS SchedulerProfile

CONSTANTS
    Req,                  \* requests
    MaxRunning,           \* max_num_running_reqs, the sequence slots
    BatchTokens,          \* max_num_batched_tokens of one engine step
    ConfiguredThreshold   \* long_prefill_token_threshold of the launch

ASSUME StockAssumption ==
    /\ IsFiniteSet(Req)
    /\ MaxRunning \in Nat \ {0}
    /\ BatchTokens \in Nat \ {0}
    /\ ConfiguredThreshold \in Nat

VARIABLES
    running, waiting,     \* requests in a slot, requests in a queue
    flagged,              \* requests whose is_prefill_chunk is set
    threshold,            \* scheduler_config.long_prefill_token_threshold
    capacityBound,        \* prefill_capacity_bound
    served,               \* prefills granted tokens by the current call
    stepTokens            \* prompt tokens the current call has scheduled

queueVars == <<running, waiting, flagged>>
stockVars == <<running, waiting, flagged, threshold, capacityBound,
               served, stepTokens>>

Decoders == running \ flagged

StockTypeOK ==
    /\ running \subseteq Req
    /\ waiting \subseteq Req \ running
    /\ flagged \subseteq running \cup waiting
    /\ Cardinality(running) <= MaxRunning
    /\ threshold \in Nat
    /\ capacityBound \in BOOLEAN
    /\ served \subseteq Req
    /\ stepTokens \in Nat

StockInit ==
    /\ running = {}
    /\ waiting = {}
    /\ flagged = {}
    /\ threshold = ConfiguredThreshold
    /\ capacityBound = FALSE
    /\ served = {}
    /\ stepTokens = 0

(***************************************************************************)
(* Between two calls: requests arrive and leave, and DP balancing updates  *)
(* the capacity flag.                                                      *)
(***************************************************************************)
Arrive(r) ==
    /\ r \notin running \cup waiting
    /\ waiting' = waiting \cup {r}
    /\ flagged' = flagged \cup {r}
    /\ UNCHANGED <<running, threshold, capacityBound, served, stepTokens>>

Leave(r) ==
    /\ r \in running \cup waiting
    /\ running' = running \ {r}
    /\ waiting' = waiting \ {r}
    /\ flagged' = flagged \ {r}
    /\ UNCHANGED <<threshold, capacityBound, served, stepTokens>>

BalanceCapacity ==
    /\ capacityBound' = ~capacityBound
    /\ UNCHANGED <<queueVars, threshold, served, stepTokens>>

(***************************************************************************)
(* Inside one call. A throttled call that began with active decoders       *)
(* defers every prefill, unless the queue is capacity-bound. A grant is    *)
(* cut to the threshold when there is one; the last chunk of a prompt      *)
(* clears the flag of its request.                                         *)
(***************************************************************************)
PrefillsAllowed(throttled, hasDecoders) == throttled /\ hasDecoders => capacityBound

GrantSizes ==
    {n \in 1..BatchTokens : /\ threshold > 0 => n <= threshold
                            /\ stepTokens + n <= BatchTokens}

Grant(r, n, lastChunk) ==
    /\ n \in GrantSizes
    /\ stepTokens' = stepTokens + n
    /\ served' = served \cup {r}
    /\ flagged' = IF lastChunk THEN flagged \ {r} ELSE flagged
    /\ UNCHANGED <<threshold, capacityBound>>

GrantRunning(r, n, lastChunk) ==
    /\ r \in (running \cap flagged) \ served
    /\ Grant(r, n, lastChunk)
    /\ UNCHANGED <<running, waiting>>

GrantWaiting(r, n, lastChunk) ==
    /\ r \in (waiting \cap flagged) \ served
    /\ Cardinality(running) < MaxRunning
    /\ Grant(r, n, lastChunk)
    /\ running' = running \cup {r}
    /\ waiting' = waiting \ {r}

=============================================================================
