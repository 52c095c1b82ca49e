---------------------------- MODULE DownloadBatch ----------------------------
(***************************************************************************)
(* The download of a repository's files (download_all_files_map in         *)
(* src/download.rs): list them, look at the cache, spawn a task per file   *)
(* under a semaphore, collect the tasks' results, answer.                  *)
(*                                                                         *)
(* The loop and every task run concurrently; what one of them awaits ends  *)
(* a step.  How a single file is downloaded is ChunkedDownload's subject:  *)
(* here it ends in success, in an error, or at the batch's deadline.       *)
(***************************************************************************)
EXTENDS Integers, FiniteSets

CONSTANTS
  FileCounts,   \* how many files the filters may select
  Limits,       \* settings.concurrency
  Deadlines,    \* "none": no timeout_total; "ahead": there is one
  Faults        \* what the environment may do, see FaultKinds

\* listingStalls: the peer stops answering one of the requests that precede
\*                the first download
\* directStalls:  it stops answering a direct GET
\* panics:        a library the task calls panics
FaultKinds == {"listingStalls", "directStalls", "panics"}

ASSUME BatchAssumption ==
  /\ FileCounts \subseteq Nat
  /\ Limits \subseteq Nat \ {0}
  /\ Deadlines \subseteq {"none", "ahead"}
  /\ Faults \subseteq FaultKinds

VARIABLES
  total,      \* number of files selected
  limit,      \* settings.concurrency after the plan was merged
  pc,         \* where download_all_files_map is, or what it answered
  deadline,   \* whether total_deadline has passed
  spawned,    \* files 1 .. spawned have a task
  permits,    \* the semaphore's free permits
  phase,      \* where each file's task is
  result,     \* the result it hands to the JoinSet
  disk,       \* files resolve_cached_file finds
  map,        \* file_map
  failures    \* files in the failure list

batch == <<pc, spawned, map, failures>>
chosen == <<total, limit>>
vars == <<chosen, batch, deadline, permits, phase, result, disk>>

Files == 1 .. total

Answers == {"cached", "ok", "partial", "noFiles", "timeout", "error"}
Answered == pc \in Answers

\* A task in one of these phases holds a permit.
WorkPhases == {"fetching", "direct", "stuck", "linking"}
Working == {f \in Files : phase[f] \in WorkPhases}

Init ==
  /\ total \in FileCounts
  /\ limit \in Limits
  /\ pc = "listing"
  /\ deadline \in Deadlines
  /\ spawned = 0
  /\ permits = limit
  /\ phase = [f \in Files |-> "queued"]
  /\ result = [f \in Files |-> "none"]
  /\ disk \in SUBSET Files
  /\ map = {} /\ failures = {}
-----------------------------------------------------------------------------
(* The loop.                                                                *)

\* The listing has arrived.  Every file in the cache: nothing to download.
ResolveFromCache ==
  /\ pc = "listing"
  /\ total > 0
  /\ disk = Files
  /\ pc' = "cached"
  /\ UNCHANGED <<chosen, deadline, spawned, permits, phase, result, disk, map,
                 failures>>

\* The metadata as well, or it failed, which is only logged.
BeginLoop ==
  /\ pc = "listing"
  /\ total = 0 \/ disk # Files
  /\ pc' = "loop"
  /\ UNCHANGED <<chosen, deadline, spawned, permits, phase, result, disk, map,
                 failures>>

ListingFails ==
  /\ pc = "listing"
  /\ pc' = "error"
  /\ UNCHANGED <<chosen, deadline, spawned, permits, phase, result, disk, map,
                 failures>>

\* The client has a connect timeout and no other, and the batch's deadline
\* is not looked at here.
ListingStalls ==
  /\ "listingStalls" \in Faults
  /\ pc = "listing"
  /\ pc' = "stalled"
  /\ UNCHANGED <<chosen, deadline, spawned, permits, phase, result, disk, map,
                 failures>>

\* The loop's head, for the next file or for the end of the list.
CheckDeadline ==
  /\ pc = "loop"
  /\ pc' = IF spawned = total THEN "collect"
           ELSE IF deadline = "passed" THEN "timeout"
           ELSE "acquire"
  /\ UNCHANGED <<chosen, deadline, spawned, permits, phase, result, disk, map,
                 failures>>

\* Seeded bug: the task is spawned first and takes its permit later.
SpawnAtOnce ==
  /\ pc = "acquire"
  /\ permits' = permits - 1
  /\ spawned' = spawned + 1
  /\ phase' = [phase EXCEPT ![spawned + 1] = "fetching"]
  /\ pc' = "loop"
  /\ UNCHANGED <<chosen, deadline, result, disk, map, failures>>

\* acquire_owned, then the spawn.
Spawn ==
  /\ pc = "acquire"
  /\ permits > 0
  /\ permits' = permits - 1
  /\ spawned' = spawned + 1
  /\ phase' = [phase EXCEPT ![spawned + 1] = "fetching"]
  /\ pc' = "loop"
  /\ UNCHANGED <<chosen, deadline, result, disk, map, failures>>
-----------------------------------------------------------------------------
(* The task of file f.                                                      *)

\* The task drops its permit and hands over its result.
EndTask(f, r) ==
  /\ phase' = [phase EXCEPT ![f] = "returned"]
  /\ result' = [result EXCEPT ![f] = r]
  /\ permits' = permits + 1

\* A download that ends badly may have put its file in place before: the
\* checksum is verified after the file was published.
MayBePublished(f) == disk' = disk \/ disk' = disk \cup {f}

\* dispatch_download finds the file in the cache; finish_fetch leaves it.
FetchCached(f) ==
  /\ phase[f] = "fetching"
  /\ f \in disk
  /\ EndTask(f, "ok")
  /\ UNCHANGED <<chosen, batch, deadline, disk>>

\* Seeded bug: the permit is dropped before finish_fetch, and after it.
FetchFreshReleasing(f) ==
  /\ phase[f] \in {"fetching", "direct"}
  /\ f \notin disk
  /\ disk' = disk \cup {f}
  /\ phase' = [phase EXCEPT ![f] = "linking"]
  /\ permits' = permits + 1
  /\ UNCHANGED <<chosen, batch, deadline, result>>

\* The download succeeds, and finish_fetch goes on to compare the pointer with
\* its blob, if the listing names a SHA-256.
FetchFresh(f) ==
  /\ phase[f] \in {"fetching", "direct"}
  /\ f \notin disk
  /\ disk' = disk \cup {f}
  /\ \/ phase' = [phase EXCEPT ![f] = "linking"] /\ UNCHANGED <<permits, result>>
     \/ EndTask(f, "ok")
  /\ UNCHANGED <<chosen, batch, deadline>>

\* An error, or timeout_per_file.
FetchFails(f) ==
  /\ phase[f] = "fetching"
  /\ f \notin disk
  /\ MayBePublished(f)
  /\ EndTask(f, "failed")
  /\ UNCHANGED <<chosen, batch, deadline>>

\* HTTP 416: the file is asked for again with a plain GET, under no
\* timeout_per_file.
FallBack(f) ==
  /\ phase[f] = "fetching"
  /\ f \notin disk
  /\ phase' = [phase EXCEPT ![f] = "direct"]
  /\ UNCHANGED <<chosen, batch, deadline, permits, result, disk>>

\* The GET fails, or the write of the snapshot file, which is not atomic.
DirectFails(f) ==
  /\ phase[f] = "direct"
  /\ MayBePublished(f)
  /\ EndTask(f, "failed")
  /\ UNCHANGED <<chosen, batch, deadline>>

DirectStalls(f) ==
  /\ "directStalls" \in Faults
  /\ phase[f] = "direct"
  /\ phase' = [phase EXCEPT ![f] = "stuck"]
  /\ UNCHANGED <<chosen, batch, deadline, permits, result, disk>>

\* Seeded bug: the deadline bounds the first way of downloading only.
DeadlineSparesDirect(f) ==
  /\ deadline = "passed"
  /\ phase[f] = "fetching"
  /\ f \notin disk
  /\ MayBePublished(f)
  /\ EndTask(f, "timedOut")
  /\ UNCHANGED <<chosen, batch, deadline>>

\* timeout_at polls the download first, so one that is ready still wins.
DeadlineEndsFetch(f) ==
  /\ deadline = "passed"
  /\ phase[f] \in {"fetching", "direct", "stuck"}
  /\ f \notin disk
  /\ MayBePublished(f)
  /\ EndTask(f, "timedOut")
  /\ UNCHANGED <<chosen, batch, deadline>>

\* link_pointer_to_blob ends, whatever came of it.
Link(f) ==
  /\ phase[f] = "linking"
  /\ EndTask(f, "ok")
  /\ UNCHANGED <<chosen, batch, deadline, disk>>

\* Unwinding drops the permit; the JoinSet gets a JoinError.
Panic(f) ==
  /\ "panics" \in Faults
  /\ phase[f] = "fetching"
  /\ f \notin disk
  /\ EndTask(f, "panicked")
  /\ UNCHANGED <<chosen, batch, deadline, disk>>

\* The batch has answered and dropped its JoinSet: the task stops at its
\* next await.
Abort(f) ==
  /\ Answered
  /\ phase[f] \in WorkPhases
  /\ MayBePublished(f)
  /\ EndTask(f, "aborted")
  /\ UNCHANGED <<chosen, batch, deadline>>
-----------------------------------------------------------------------------
(* collect_results and validate_download_results.                           *)

Join(f) ==
  /\ pc = "collect"
  /\ phase[f] = "returned"
  /\ phase' = [phase EXCEPT ![f] = "joined"]
  /\ UNCHANGED <<chosen, deadline, spawned, permits, result, disk>>

\* Seeded bug: the deadline is not looked at between the results.
CollectPastDeadline(f) ==
  /\ Join(f)
  /\ result[f] # "panicked"
  /\ IF result[f] = "ok"
     THEN map' = map \cup {f} /\ UNCHANGED failures
     ELSE failures' = failures \cup {f} /\ UNCHANGED map
  /\ UNCHANGED pc

Collect(f) ==
  /\ Join(f)
  /\ deadline # "passed"
  /\ result[f] # "panicked"
  /\ IF result[f] = "ok"
     THEN map' = map \cup {f} /\ UNCHANGED failures
     ELSE failures' = failures \cup {f} /\ UNCHANGED map
  /\ UNCHANGED pc

\* The deadline is checked before the result is looked at.
CollectGivesUp(f) ==
  /\ Join(f)
  /\ \/ deadline = "passed" /\ pc' = "timeout"
     \/ deadline # "passed" /\ result[f] = "panicked" /\ pc' = "error"
  /\ UNCHANGED <<map, failures>>

AllJoined == pc = "collect" /\ \A f \in Files : phase[f] = "joined"

\* Seeded bug: what was downloaded counts before what failed.
ValidateMapFirst ==
  /\ AllJoined
  /\ pc' = IF map # {} THEN "ok"
           ELSE IF failures # {} THEN "partial" ELSE "noFiles"
  /\ UNCHANGED <<chosen, deadline, spawned, permits, phase, result, disk, map,
                 failures>>

Validate ==
  /\ AllJoined
  /\ pc' = IF failures # {} THEN "partial"
           ELSE IF map = {} THEN "noFiles" ELSE "ok"
  /\ UNCHANGED <<chosen, deadline, spawned, permits, phase, result, disk, map,
                 failures>>
-----------------------------------------------------------------------------
DeadlinePasses ==
  /\ deadline = "ahead"
  /\ deadline' = "passed"
  /\ UNCHANGED <<chosen, batch, permits, phase, result, disk>>

Prepare == ResolveFromCache \/ BeginLoop \/ ListingFails \/ ListingStalls
Loop == CheckDeadline \/ Spawn
CollectAny == \E f \in Files : Collect(f) \/ CollectGivesUp(f)
Batch == Prepare \/ Loop \/ CollectAny \/ Validate

Task(f) ==
  \/ FetchCached(f) \/ FetchFresh(f) \/ FetchFails(f)
  \/ FallBack(f) \/ DirectFails(f) \/ DirectStalls(f)
  \/ DeadlineEndsFetch(f) \/ Link(f) \/ Panic(f) \/ Abort(f)

Next == Batch \/ (\E f \in Files : Task(f)) \/ DeadlinePasses

Spec == Init /\ [][Next]_vars

\* The runtime polls what can run, the per-file timeout ends a download that
\* does not end by itself, a comparison of two local files ends, and time
\* passes.  Nothing ends a request that stalled.
Fairness ==
  /\ WF_vars(Batch)
  /\ \A n \in UNION {1 .. c : c \in FileCounts} : WF_vars(n \in Files /\ Task(n))
  /\ WF_vars(DeadlinePasses)

FairSpec == Spec /\ Fairness
-----------------------------------------------------------------------------
Phases == {"queued", "returned", "joined"} \cup WorkPhases
Results == {"none", "ok", "failed", "timedOut", "panicked", "aborted"}

\* Every variable has the values the code can give it.
TypeOK ==
  /\ total \in FileCounts
  /\ limit \in Limits
  /\ pc \in {"listing", "stalled", "loop", "acquire", "collect"} \cup Answers
  /\ deadline \in {"none", "ahead", "passed"}
  /\ spawned \in 0 .. total
  /\ permits \in 0 .. limit
  /\ phase \in [Files -> Phases]
  /\ result \in [Files -> Results]
  /\ disk \subseteq Files /\ map \subseteq Files /\ failures \subseteq Files

\* At every moment at most `concurrency' files are being downloaded or linked,
\* and every permit that no task holds is there to be acquired: no way a task
\* ends loses one or gives one back twice.
PermitsConserved ==
  permits >= 0 /\ permits + Cardinality(Working) = limit

\* A success names every selected file, and each of them is in the cache; a
\* partial download accounts for every file once, as downloaded or as failed;
\* "no files" is said only of an empty selection.
AnswerIsWhole ==
  /\ pc = "cached" => disk = Files
  /\ pc = "ok" => map = Files /\ map \subseteq disk
  /\ pc = "partial" => /\ failures # {}
                       /\ map \cup failures = Files
                       /\ map \cap failures = {}
                       /\ map \subseteq disk
  /\ pc = "noFiles" => total = 0

\* "the total download time exceeds this duration ... FetchError::Timeout is
\* returned" (config.rs): a file the batch's deadline cut short is never passed
\* off as an ordinary failure of a partial download.
DeadlineIsNeverPartial ==
  pc \in {"ok", "partial"} => \A f \in Files : result[f] # "timedOut"

\* A batch that has its listing answers, and all its tasks stop: no way a task
\* ends leaves the loop waiting for a permit, and with a deadline not even a
\* peer that stops answering a direct GET does ("a hard cap on in-flight work",
\* bound_by_total_timeout).
BatchEnds == pc = "loop" ~> Answered /\ Working = {}
=============================================================================
