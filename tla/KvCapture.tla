------------------------------ MODULE KvCapture ------------------------------
(***************************************************************************)
(* Capture of KV latents for the calibration of the NVFP4 scales:          *)
(* kv_calibration/runtime.py in every rank of the server, and              *)
(* kv_calibration/drive_capture.py, which labels the captured groups       *)
(* through a control file and at the end asks for a flush.                 *)
(*                                                                         *)
(* The server runs one engine step at a time, and one step is one request. *)
(* A driver that gives up waiting for an answer, or is interrupted, does   *)
(* not stop it: the step goes on, and requests it has may begin later.     *)
(*                                                                         *)
(* A sample stands for the groups one layer of one rank takes from one     *)
(* request, and carries the process that took it.  A reservoir keeps or    *)
(* drops a sample as a whole; its priorities are random, so it may keep    *)
(* any of the samples it has seen.                                         *)
(***************************************************************************)
EXTENDS Naturals, Sequences, FiniteSets

CONSTANTS
    Rank, HeadRank,   \* the ranks; the one that shares the driver's file system
    Layers,           \* number of MLA layers; each has a collector
    Corpus,           \* the buckets of the prompts, in order
    Capacity,         \* VLLM_NVFP4_MLA_CAPTURE_GROUPS_PER_STRATUM, in samples
    FlushEvery,       \* VLLM_NVFP4_MLA_CAPTURE_FLUSH_EVERY
    Delay,            \* whether --delay outlasts the rate limit of the control
    MaxDeaths         \* bound: deaths of the server

ASSUME CaptureAssumption ==
    /\ HeadRank \in Rank
    /\ Layers \in Nat \ {0}
    /\ Corpus \in Seq(STRING)
    /\ \A i \in 1..Len(Corpus) : Corpus[i] \notin {"none", "capture-flush"}
    /\ Capacity \in Nat \ {0}
    /\ FlushEvery \in Nat \ {0}
    /\ Delay \in BOOLEAN
    /\ MaxDeaths \in Nat

VARIABLES
    control,          \* rank -> its control file
    known,            \* rank -> _Control._value
    recent,           \* rank -> the file was looked at less than 0.25 s ago
    held,             \* rank, layer -> samples in the reservoirs
    calls,            \* rank, layer -> _calls, modulo FlushEvery
    epochSeen,        \* rank, layer -> _flush_epoch
    shards,           \* rank, layer -> samples in the .npz files
    posted,           \* requests the server has and has not begun
    forward,          \* the request it runs, and the layers each rank has run
    driver,           \* where the driver is
    row, active, successes,   \* its loop variables
    flushed,          \* it has printed "final capture flush completed"
    due,              \* history: samples held when the flush was asked for
    mixed,            \* history: requests that ran across a change of the control
    deaths

controlVars == <<control, known, recent>>
collectorVars == <<held, calls, epochSeen, shards>>
driverVars == <<driver, row, active, successes, flushed>>
serverVars == <<posted, forward>>
historyVars == <<due, mixed>>
captureVars == <<controlVars, collectorVars, serverVars, driverVars, historyVars, deaths>>

Layer == 1..Layers
Worker == Rank \ {HeadRank}
Idle == [row |-> 0, done |-> [r \in Rank |-> 0]]
FlushRow == Len(Corpus) + 1       \* the request "Reply with OK."
Bucket == {Corpus[i] : i \in 1..Len(Corpus)} \cup {"unlabeled", "capture-flush", "disabled"}
Control == [bucket : Bucket, enabled : BOOLEAN, epoch : 0..1]
Label(b) == [bucket |-> b, enabled |-> TRUE, epoch |-> 0]
NoFile == Label("unlabeled")      \* FileNotFoundError: the default stays
Flush == [bucket |-> "capture-flush", enabled |-> TRUE, epoch |-> 1]
Off(epoch) == [bucket |-> "disabled", enabled |-> FALSE, epoch |-> epoch]
Sample == [row : 1..FlushRow, bucket : Bucket, pid : 0..MaxDeaths]
Nothing == [r \in Rank |-> [l \in Layer |-> {}]]
Zeros == [r \in Rank |-> [l \in Layer |-> 0]]

CaptureTypeOK ==
    /\ control \in [Rank -> Control] /\ known \in [Rank -> Control]
    /\ recent \in [Rank -> BOOLEAN]
    /\ held \in [Rank -> [Layer -> SUBSET Sample]]
    /\ shards \in [Rank -> [Layer -> SUBSET Sample]]
    /\ due \in [Rank -> [Layer -> SUBSET Sample]]
    /\ calls \in [Rank -> [Layer -> 0..FlushEvery - 1]]
    /\ epochSeen \in [Rank -> [Layer -> 0..1]]
    /\ posted \subseteq 1..FlushRow /\ mixed \subseteq 1..FlushRow
    /\ forward \in [row : 0..FlushRow, done : [Rank -> 0..Layers]]
    /\ row \in 1..FlushRow /\ active \in Bucket \cup {"none"} /\ successes \in 0..Len(Corpus)
    /\ flushed \in BOOLEAN /\ deaths \in 0..MaxDeaths

CaptureInit ==
    /\ control = [r \in Rank |-> NoFile] /\ known = [r \in Rank |-> NoFile]
    /\ recent = [r \in Rank |-> FALSE]
    /\ held = Nothing /\ shards = Nothing /\ due = Nothing
    /\ calls = Zeros /\ epochSeen = Zeros
    /\ posted = {} /\ forward = Idle /\ mixed = {}
    /\ driver = "next" /\ row = 1 /\ active = "none" /\ successes = 0
    /\ flushed = FALSE /\ deaths = 0

-----------------------------------------------------------------------------
\* The collectors.

\* _Control.get: what it returns, and the look it may take at the file.
Looked(r) == IF recent[r] THEN known[r] ELSE control[r]

Look(r) ==
    /\ known' = [known EXCEPT ![r] = Looked(r)]
    /\ recent' = [recent EXCEPT ![r] = TRUE]
    /\ UNCHANGED control

\* _PriorityReservoir.add, once for each stratum.
Reservoirs(seen) ==
    {kept \in SUBSET seen : \A b \in Bucket :
        LET InBucket(S) == {s \in S : s.bucket = b} IN
        IF Cardinality(InBucket(seen)) <= Capacity THEN InBucket(kept) = InBucket(seen)
        ELSE Cardinality(InBucket(kept)) = Capacity}

\* A flush puts a process's own files in place again, one for each stratum.
Flushed(files, reservoirs) == {s \in files : s.pid # deaths} \cup reservoirs

\* Layer l of rank r observes the latents of the current request.  A new epoch
\* flushes what is held before this request is sampled; every FlushEvery-th call
\* flushes after it.
Observe(r, l) ==
    LET c == Looked(r)
        taken == IF c.enabled
                 THEN {[row |-> forward.row, bucket |-> c.bucket, pid |-> deaths]} ELSE {}
        count == IF c.enabled THEN (calls[r][l] + 1) % FlushEvery ELSE calls[r][l]
        before == IF c.epoch # epochSeen[r][l] THEN Flushed(shards[r][l], held[r][l]) ELSE shards[r][l]
    IN  \E kept \in Reservoirs(held[r][l] \cup taken) :
        /\ Look(r)
        /\ held' = [held EXCEPT ![r][l] = kept]
        /\ calls' = [calls EXCEPT ![r][l] = count]
        /\ epochSeen' = [epochSeen EXCEPT ![r][l] = c.epoch]
        /\ shards' = [shards EXCEPT ![r][l] =
                         IF c.enabled /\ count = 0 THEN Flushed(before, kept) ELSE before]

RunLayer(r) ==
    /\ forward.row # 0 /\ forward.done[r] < Layers
    /\ forward' = [forward EXCEPT !.done[r] = @ + 1]
    /\ Observe(r, forward.done[r] + 1)
    /\ UNCHANGED <<posted, driverVars, historyVars, deaths>>

\* The server begins the step of a request it has; it ends one whose answer nobody
\* gets after the last layer of every rank; it refuses or aborts one before it begins.
BeginStep(i) ==
    /\ forward = Idle /\ i \in posted
    /\ forward' = [Idle EXCEPT !.row = i]
    /\ posted' = posted \ {i}
    /\ UNCHANGED <<controlVars, collectorVars, driverVars, historyVars, deaths>>

StepDone(i) == forward.row = i /\ \A r \in Rank : forward.done[r] = Layers

EndStep(i) ==
    /\ StepDone(i) /\ i # 0
    /\ forward' = Idle
    /\ UNCHANGED <<controlVars, collectorVars, posted, driverVars, historyVars, deaths>>

Discard(i) ==
    /\ i \in posted
    /\ posted' = posted \ {i}
    /\ UNCHANGED <<controlVars, collectorVars, forward, driverVars, historyVars, deaths>>

\* 0.25 seconds have gone by since the last look of rank r.
TimePasses(r) ==
    /\ recent[r]
    /\ recent' = [recent EXCEPT ![r] = FALSE]
    /\ UNCHANGED <<control, known, collectorVars, serverVars, driverVars, historyVars, deaths>>

\* The server goes down and comes back with new processes.  _flush_all runs when
\* it exits and not when it is killed; the shards of old processes stay.
Restart ==
    /\ deaths < MaxDeaths
    /\ deaths' = deaths + 1
    /\ \/ shards' = [r \in Rank |-> [l \in Layer |-> Flushed(shards[r][l], held[r][l])]]
       \/ UNCHANGED shards
    /\ held' = Nothing /\ calls' = Zeros /\ epochSeen' = Zeros /\ due' = Nothing
    /\ known' = [r \in Rank |-> NoFile] /\ recent' = [r \in Rank |-> FALSE]
    /\ posted' = {} /\ forward' = Idle
    /\ UNCHANGED <<control, driverVars, mixed>>

-----------------------------------------------------------------------------
\* The driver.

At(pc) == driver = pc
Goto(pc) == driver' = pc

\* _set_control writes the local file and then, through ssh, the remote one.
SetLocal(value) == control' = [control EXCEPT ![HeadRank] = value]
SetRemote(value) == control' = [r \in Rank |-> IF r = HeadRank THEN control[r] ELSE value]

NextRow ==
    /\ At("next") /\ row <= Len(Corpus)
    /\ IF Corpus[row] = active
       THEN Goto("request") /\ UNCHANGED control
       ELSE Goto("remote") /\ SetLocal(Label(Corpus[row]))
    /\ UNCHANGED <<known, recent, collectorVars, serverVars, row, active, successes, flushed, historyVars, deaths>>

\* Mutant: the remote file is not written.
LabelNoRemote ==
    /\ At("remote") /\ Goto("request")
    /\ active' = Corpus[row]
    /\ UNCHANGED <<controlVars, collectorVars, serverVars, row, successes, flushed, historyVars, deaths>>

LabelRemote ==
    /\ At("remote") /\ Goto("request")
    /\ SetRemote(Label(Corpus[row])) /\ active' = Corpus[row]
    /\ UNCHANGED <<known, recent, collectorVars, serverVars, row, successes, flushed, historyVars, deaths>>

Post(i) == posted' = posted \cup {i} /\ UNCHANGED forward

Request ==
    /\ At("request") /\ Post(row) /\ Goto("wait")
    /\ UNCHANGED <<controlVars, collectorVars, row, active, successes, flushed, historyVars, deaths>>

\* The sleep of --delay is between two rows.
Rested == IF Delay THEN [r \in Rank |-> FALSE] ELSE recent

\* The requests the server has.
UnderWay == posted \cup ({forward.row} \ {0})

\* The row that follows carries another label: what the server still has then sees
\* it, and may have made a rank look at the old one just before.
Mixes == row < Len(Corpus) /\ Corpus[row + 1] # Corpus[row] /\ UnderWay' # {}

NextPrompt ==
    /\ UNCHANGED posted
    /\ row' = row + 1 /\ recent' = Rested /\ Goto("next")
    /\ mixed' = IF Mixes THEN mixed \cup UnderWay' \cup {row'} ELSE mixed
    /\ UNCHANGED <<control, known, collectorVars, active, flushed, due, deaths>>

Reply ==
    /\ At("wait") /\ StepDone(row)
    /\ forward' = Idle /\ successes' = successes + 1
    /\ NextPrompt

\* URLError or TimeoutError: the driver goes on.  The server may have refused the
\* request; if not, it runs on.
RequestFails ==
    /\ At("wait")
    /\ UNCHANGED <<forward, successes>>
    /\ NextPrompt

\* The end of the corpus, an interrupt, a row without a prompt or an ssh that
\* fails: the finally block.  Here, too, the server keeps what it has.
Finally ==
    /\ driver \in {"next", "remote", "request", "wait"}
    /\ IF successes > 0
       THEN SetLocal(Flush) /\ Goto("flushRemote") /\ due' = held
       ELSE SetLocal(Off(0)) /\ Goto("offRemote") /\ UNCHANGED due
    /\ mixed' = mixed \cup UnderWay
    /\ UNCHANGED <<known, recent, collectorVars, serverVars, row, active, successes, flushed, deaths>>

FlushRemote ==
    /\ At("flushRemote") /\ Goto("sleep")
    /\ SetRemote(Flush)
    /\ UNCHANGED <<known, recent, collectorVars, serverVars, row, active, successes, flushed, historyVars, deaths>>

\* Mutant: no sleep; a rank may answer from what it saw before.
SleepTooShort ==
    /\ At("sleep") /\ Goto("flushRequest")
    /\ UNCHANGED <<controlVars, collectorVars, serverVars, row, active, successes, flushed, historyVars, deaths>>

\* time.sleep(0.35): what was looked at before is looked at again.
Sleep ==
    /\ At("sleep") /\ Goto("flushRequest")
    /\ recent' = [r \in Rank |-> FALSE]
    /\ UNCHANGED <<control, known, collectorVars, serverVars, row, active, successes, flushed, historyVars, deaths>>

FlushRequest ==
    /\ At("flushRequest") /\ Post(FlushRow) /\ Goto("flushWait")
    /\ UNCHANGED <<controlVars, collectorVars, row, active, successes, flushed, historyVars, deaths>>

FlushReply ==
    /\ At("flushWait") /\ StepDone(FlushRow)
    /\ flushed' = TRUE /\ forward' = Idle
    /\ SetLocal(Off(1)) /\ Goto("offRemote")
    /\ UNCHANGED <<known, recent, collectorVars, posted, row, active, successes, historyVars, deaths>>

\* ssh, the sleep or the request fails, or the operator interrupts.
FlushFails ==
    /\ driver \in {"flushRemote", "sleep", "flushRequest", "flushWait"}
    /\ SetLocal(Off(1)) /\ Goto("offRemote")
    /\ UNCHANGED <<known, recent, collectorVars, serverVars, row, active, successes, flushed, historyVars, deaths>>

OffRemote ==
    /\ At("offRemote") /\ Goto("done")
    /\ SetRemote(Off(control[HeadRank].epoch)) \/ UNCHANGED control
    /\ UNCHANGED <<known, recent, collectorVars, serverVars, row, active, successes, flushed, historyVars, deaths>>

Drive ==
    \/ NextRow \/ LabelRemote \/ Request \/ Reply \/ RequestFails \/ Finally
    \/ FlushRemote \/ Sleep \/ FlushRequest \/ FlushReply \/ FlushFails \/ OffRemote

ServerStep == \E i \in 1..FlushRow : BeginStep(i) \/ EndStep(i) \/ Discard(i)

CaptureNext == Drive \/ ServerStep \/ Restart \/ \E r \in Rank : RunLayer(r) \/ TimePasses(r)

-----------------------------------------------------------------------------
(***************************************************************************)
(* What the fit may rely on.                                               *)
(***************************************************************************)

\* Sample d has lost its place in a reservoir to one of a request that was still in
\* the server when the flush was asked for, or ran across a change of label.
Displaced(d, r, l) == \E s \in held[r][l] : s.bucket = d.bucket /\ s.row \in mixed

\* Once the driver reports that the final flush is complete, all that any layer of
\* any rank held when it asked for the flush is in a file, unless requests given up
\* under way took its place meanwhile: the flush request runs through every
\* collector after it has seen the new epoch, whichever request brought it that.
\* (A server that dies between the two takes what was held with it.)
FlushIsDurable ==
    flushed => \A r \in Rank, l \in Layer : \A d \in due[r][l] :
                   d \in shards[r][l] \/ Displaced(d, r, l)

\* If the pause between requests outlasts the rate limit of the control, a sample
\* carries the bucket of the prompt it comes from, on every rank; except of a prompt
\* given up under way that runs on when the control changes, and of the one sent
\* right after it.  Without a pause the first layers of any new bucket see the old label.
LabelsAreRight ==
    Delay => \A r \in Rank, l \in Layer : \A s \in held[r][l] \cup shards[r][l] :
                 s.row <= Len(Corpus) /\ s.row \notin mixed => s.bucket = Corpus[s.row]
=============================================================================
