---------------------------- MODULE ProfileReload ----------------------------
(***************************************************************************)
(* _adaptive_profile: the profile file is checked for a change at most     *)
(* once per reload period, from inside schedule(), while an operator edits *)
(* it. The stat and the read of a check are two steps, and the file may be *)
(* replaced between them. An edit gives the file a modification time of    *)
(* its own; putting an earlier file back restores its time with it.        *)
(***************************************************************************)
EXTENDS ProfileValidation

CONSTANTS
    RawProfiles,          \* contents the file may be given
    FirstRaw,             \* its content when the engine starts
    FallbackPacket,       \* long_prefill_token_threshold
    FallbackInterval,     \* prefill_schedule_interval
    MaxEdits              \* bound on the edits explored

ASSUME RawAssumption ==
    /\ RawProfiles \cup {FirstRaw} \subseteq RawProfile \cup {BadType}
    /\ {FallbackPacket, FallbackInterval, MaxEdits} \subseteq Nat

NoFile == [mtime |-> 0]
NoProfile == [none |-> TRUE]

VARIABLES
    file,                 \* the file, a version of it
    versions,             \* every version written so far
    cache,                \* _adaptive_profile_cache
    cacheTime,            \* _adaptive_profile_mtime_ns
    due,                  \* now >= _adaptive_profile_next_check
    statTime,             \* mtime_ns of a check between its stat and its read
    checking,             \* a check has done its stat and not its read
    failed,               \* the last call raised
    restored              \* history: an earlier version has been put back

checkVars == <<cache, cacheTime, due, statTime, checking, failed>>
reloadVars == <<file, versions, restored, checkVars>>

Version(m, raw) == [mtime |-> m, raw |-> raw]
Parsed(v) == Validate(v.raw, FallbackPacket, FallbackInterval)
Good(v) == v # NoFile /\ Parsed(v) # Rejected

ReloadTypeOK ==
    /\ file \in versions \cup {NoFile}
    /\ cache = NoProfile \/ ValidProfile(cache)
    /\ cacheTime \in 0..(MaxEdits + 1)
    /\ statTime \in 0..(MaxEdits + 1)
    /\ {due, checking, failed, restored} \subseteq BOOLEAN

ReloadInit ==
    /\ file = Version(1, FirstRaw)
    /\ versions = {file}
    /\ cache = NoProfile
    /\ cacheTime = 0
    /\ due = TRUE
    /\ statTime = 0
    /\ checking = FALSE
    /\ failed = FALSE
    /\ restored = FALSE

(***************************************************************************)
(* The operator: a new content, an earlier version, or no file at all.     *)
(***************************************************************************)
Edit(raw) ==
    /\ Cardinality(versions) <= MaxEdits
    /\ LET v == Version(Cardinality(versions) + 1, raw)
       IN  file' = v /\ versions' = versions \cup {v}
    /\ UNCHANGED <<restored, checkVars>>

PutBack(v) ==
    /\ v # file
    /\ file' = v
    /\ restored' = (restored \/ v # NoFile)
    /\ UNCHANGED <<versions, checkVars>>

PeriodElapses ==
    /\ ~due /\ ~checking
    /\ due' = TRUE
    /\ UNCHANGED <<file, versions, restored, cache, cacheTime, statTime, checking, failed>>

(***************************************************************************)
(* One call. The next check is put off before anything can go wrong; a     *)
(* call before that time returns the cache and changes nothing.            *)
(***************************************************************************)
CheckNeeded == cache = NoProfile \/ due

DropCache ==
    /\ failed' = FALSE
    /\ checking' = FALSE
    /\ cache' = NoProfile
    /\ UNCHANGED cacheTime

\* A failed stat, read or validation raises when there is nothing cached.
KeepCache ==
    /\ failed' = (cache = NoProfile)
    /\ checking' = FALSE
    /\ UNCHANGED <<cache, cacheTime>>

StatFile ==
    /\ ~checking /\ CheckNeeded
    /\ due' = FALSE
    /\ \/ /\ file = NoFile
          /\ KeepCache
          /\ UNCHANGED statTime
       \/ /\ file # NoFile
          /\ cache # NoProfile /\ file.mtime = cacheTime
          /\ failed' = FALSE
          /\ UNCHANGED <<cache, cacheTime, statTime, checking>>
       \/ /\ file # NoFile
          /\ cache = NoProfile \/ file.mtime # cacheTime
          /\ checking' = TRUE
          /\ statTime' = file.mtime
          /\ UNCHANGED <<cache, cacheTime, failed>>
    /\ UNCHANGED <<file, versions, restored>>

ReadThenStat ==
    /\ checking
    /\ \E v \in versions :
          /\ v.mtime = statTime
          /\ \/ /\ ~Good(v)
                /\ KeepCache
             \/ /\ Good(v)
                /\ cache' = Parsed(v)
                /\ cacheTime' = file.mtime
                /\ failed' = FALSE
                /\ checking' = FALSE
    /\ UNCHANGED <<file, versions, restored, due, statTime>>

ReadFile ==
    /\ checking
    /\ \/ /\ ~Good(file)
          /\ KeepCache
       \/ /\ Good(file)
          /\ cache' = Parsed(file)
          /\ cacheTime' = statTime
          /\ failed' = FALSE
          /\ checking' = FALSE
    /\ UNCHANGED <<file, versions, restored, due, statTime>>

Operator ==
    \/ \E raw \in RawProfiles : Edit(raw)
    \/ \E v \in versions \cup {NoFile} : PutBack(v)

ReloadNext == Operator \/ PeriodElapses \/ StatFile \/ ReadFile
-----------------------------------------------------------------------------
\* What is cached was the accepted content of some version of the file, and is
\* a profile the scheduler can work with whatever the file held. (lines 31-105)
CacheIsAccepted ==
    cache # NoProfile
        => ValidProfile(cache) /\ \E v \in versions : Good(v) /\ cache = Parsed(v)

\* A good profile in use is never lost: not to a bad edit, a file that is gone
\* or one replaced half-way through a check. (lines 146-150)
ProfileIsKept == [][cache # NoProfile => cache' # NoProfile /\ ~failed']_reloadVars
=============================================================================
