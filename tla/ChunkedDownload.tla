--------------------------- MODULE ChunkedDownload ---------------------------
(***************************************************************************)
(* The multi-connection download of one repository file                    *)
(* (src/chunked.rs, src/chunked_state.rs, src/atomic_write.rs and the      *)
(* retry loop of src/retry.rs), over any number of sessions: a session     *)
(* that is interrupted or fails leaves a `.chunked.part' file and its      *)
(* `.state' sidecar, which the next session may resume from.               *)
(*                                                                         *)
(* One process runs one session at a time; within it every chunk is an     *)
(* asynchronous task of its own.  What a task awaits is a step: another    *)
(* task, or a crash, can come between.                                     *)
(***************************************************************************)
EXTENDS ChunkLayout

CONSTANTS
  Versions,               \* contents the file has had upstream, one etag each
  SizeOf,                 \* their sizes in bytes
  ConnectionCounts,       \* values of connections_per_file a session may use
  SidecarCheckpointBytes, \* SIDECAR_CHECKPOINT_BYTES
  MaxRetries,             \* RetryPolicy::max_retries
  Faults,                 \* what the environment may do, see FaultKinds
  NoFile,                 \* a path that names no file
  Hole,                   \* a byte set_len allocated and nobody wrote
  Empty, Blend            \* a truncated sidecar, and one of mixed contents

\* shortBody:    a response ends, without an error, before the chunk does
\* upstreamMove: the revision moves to other contents while a session runs
\* writeError:   the file system refuses to open the partial, or a write to it
\* lostWrite:    the process dies while a write of file data is under way
\* saveError:    the file system refuses a step of a sidecar save
FaultKinds ==
  {"shortBody", "upstreamMove", "writeError", "lostWrite", "saveError"}

ASSUME ParametersAssumption ==
  /\ Versions # {}
  /\ SizeOf \in [Versions -> Nat]
  /\ ConnectionCounts \subseteq Nat \ {0}
  /\ \A v \in Versions, c \in ConnectionCounts : c <= SizeOf[v]
  /\ SidecarCheckpointBytes \in Nat \ {0}
  /\ MaxRetries \in Nat
  /\ Faults \subseteq FaultKinds

\* Chunk indices of the widest layout.
Slots == UNION {0 .. c - 1 : c \in ConnectionCounts}

\* A sidecar: the connection count it was written for and the bytes each
\* chunk completed.  Schema, etag and size do not vary on one path.
Sidecar == [conns : ConnectionCounts, done : [Slots -> Nat]]

Offsets(v) == 0 .. SizeOf[v] - 1
PartFiles(v) == [Offsets(v) -> Versions \cup {Hole}]

ASSUME FileStatesAssumption ==
  /\ NoFile \notin Versions
  /\ Hole \notin Versions
  /\ {NoFile, Empty, Blend} \cap Sidecar = {}
  /\ \A v \in Versions : NoFile \notin PartFiles(v)

CompleteFile(v) == [o \in Offsets(v) |-> v]
HoleyFile(v) == [o \in Offsets(v) |-> Hole]
NoBytes == [i \in Slots |-> 0]

VARIABLES
  upstream,   \* the version the revision names on the server
  part,       \* blobs/<etag>.chunked.part
  side,       \* blobs/<etag>.chunked.part.state
  tmp,        \* blobs/<etag>.chunked.part.state.tmp
  blob,       \* blobs/<etag>
  pointer,    \* whether snapshots/<commit>/<filename> exists
  ref,        \* the commit refs/<revision> names
  pc,         \* where download_chunked is; "idle" between sessions
  ver,        \* the version the probe reported (RangeInfo)
  conns,      \* `connections'
  mem,        \* shared_state: `completed' of every chunk
  st,         \* where each chunk's task is
  att,        \* retries it has used
  served,     \* the version its response carries
  cur,        \* current_completed
  last,       \* last_checkpoint
  land,       \* bytes of the chunk the file has: tokio writes behind
  werr,       \* the write behind failed and nobody has been told yet
  fin,        \* the save under way is the chunk's final checkpoint
  snap,       \* the snapshot being saved
  at          \* the path that now names the file the save has open

disk == <<part, side, tmp, blob, pointer, ref>>
retry == <<att, served>>
stream == <<cur, last, land, werr>>
save == <<fin, snap, at>>
vars == <<upstream, disk, pc, ver, conns, mem, st, retry, stream, save>>
-----------------------------------------------------------------------------
Chunks == 0 .. conns - 1

Start(i) == ChunkStart(SizeOf[ver], conns, i)
Length(i) == ChunkLength(SizeOf[ver], conns, i)

\* ChunkedState::load: an unparsable sidecar counts as none.
Readable(v) == side[v] \in Sidecar

\* ChunkedState::is_compatible_with, and the temp file must exist.
Resumable ==
  /\ Readable(ver)
  /\ side[ver].conns = conns
  /\ part[ver] # NoFile

\* resolve_cached_file finds the pointer of the commit the ref names.
Cached == ref # NoFile /\ pointer[ref]

\* The bytes a response for chunk i can carry: the server clamps the range
\* to the contents it has.
Available(i) ==
  LET rest == SizeOf[served[i]] - Start(i)
  IN  IF rest < Length(i) THEN rest ELSE Length(i)

\* Every write of file data that was issued has ended.
Landed(i) == land[i] = cur[i] \/ werr[i]
Quiet == \A i \in Slots : Landed(i)

Init ==
  /\ upstream \in Versions
  /\ part = [v \in Versions |-> NoFile]
  /\ side = [v \in Versions |-> NoFile]
  /\ tmp = [v \in Versions |-> NoFile]
  /\ blob = [v \in Versions |-> NoFile]
  /\ pointer = [v \in Versions |-> FALSE]
  /\ ref = NoFile
  /\ pc = "idle"
  /\ ver = upstream
  /\ conns \in ConnectionCounts
  /\ mem = NoBytes
  /\ st = [i \in Slots |-> "off"]
  /\ att = NoBytes
  /\ served = [i \in Slots |-> upstream]
  /\ cur = NoBytes /\ last = NoBytes /\ land = NoBytes
  /\ werr = [i \in Slots |-> FALSE]
  /\ fin = [i \in Slots |-> FALSE]
  /\ snap = [i \in Slots |-> NoFile]
  /\ at = [i \in Slots |-> "none"]

\* The chunk tasks are gone, and with them everything held in memory.
DropTasks ==
  /\ mem' = NoBytes
  /\ st' = [i \in Slots |-> "off"]
  /\ att' = NoBytes
  /\ served' = [i \in Slots |-> ver]
  /\ cur' = NoBytes /\ last' = NoBytes /\ land' = NoBytes
  /\ werr' = [i \in Slots |-> FALSE]
  /\ fin' = [i \in Slots |-> FALSE]
  /\ snap' = [i \in Slots |-> NoFile]
  /\ at' = [i \in Slots |-> "none"]

\* The session spawns one task per chunk, at the offsets `offsets'.
SpawnTasks(offsets) ==
  /\ mem' = offsets
  /\ st' = [i \in Slots |-> IF i \in Chunks THEN "attempt" ELSE "off"]
  /\ cur' = offsets /\ last' = offsets /\ land' = offsets
  /\ UNCHANGED <<retry, werr, save>>
-----------------------------------------------------------------------------
(* The session: download_chunked up to the spawn.                           *)

\* dispatch_download misses the cache, the probe reports the version the
\* revision names, and the pointer of that version does not exist.
Begin(c) ==
  /\ pc = "idle"
  /\ ~Cached
  /\ ~pointer[upstream]
  /\ pc' = "prepare"
  /\ ver' = upstream
  /\ conns' = c
  /\ UNCHANGED <<upstream, disk, mem, st, retry, stream, save>>

Resume ==
  /\ pc = "prepare"
  /\ Resumable
  /\ pc' = "run"
  /\ SpawnTasks(side[ver].done)
  /\ UNCHANGED <<upstream, disk, ver, conns>>

\* No usable pair of files: both are removed, the partial first.
WipePart ==
  /\ pc = "prepare"
  /\ ~Resumable
  /\ part' = [part EXCEPT ![ver] = NoFile]
  /\ pc' = "wipeSide"
  /\ UNCHANGED <<upstream, side, tmp, blob, pointer, ref, ver, conns, mem, st,
                 retry, stream, save>>

\* Seeded bug: the stale sidecar is left for the next save to replace.
KeepStaleSide ==
  /\ pc = "wipeSide"
  /\ pc' = "create"
  /\ UNCHANGED <<upstream, disk, ver, conns, mem, st, retry, stream, save>>

WipeSide ==
  /\ pc = "wipeSide"
  /\ side' = [side EXCEPT ![ver] = NoFile]
  /\ pc' = "create"
  /\ UNCHANGED <<upstream, part, tmp, blob, pointer, ref, ver, conns, mem, st,
                 retry, stream, save>>

\* File::create and set_len.
CreatePart ==
  /\ pc = "create"
  /\ part' = [part EXCEPT ![ver] = HoleyFile(ver)]
  /\ pc' = "saveFresh"
  /\ UNCHANGED <<upstream, side, tmp, blob, pointer, ref, ver, conns, mem, st,
                 retry, stream, save>>

\* The first save has the .tmp file to itself, and a crash inside it leaves
\* no sidecar, as a crash before it does: one step.
SaveFresh ==
  /\ pc = "saveFresh"
  /\ side' = [side EXCEPT ![ver] = [conns |-> conns, done |-> NoBytes]]
  /\ tmp' = [tmp EXCEPT ![ver] = NoFile]
  /\ pc' = "run"
  /\ SpawnTasks(NoBytes)
  /\ UNCHANGED <<upstream, part, blob, pointer, ref, ver, conns>>
-----------------------------------------------------------------------------
(* A chunk's task: download_chunk inside retry_async.                       *)

\* Seeded bug: the retries are counted and never compared with the limit.
RetryWithoutLimit(i) ==
  /\ st' = [st EXCEPT ![i] = "attempt"]
  /\ att' = [att EXCEPT ![i] = @ + 1]

\* Seeded bug: the retries are not counted.
RetryForever(i) == st' = [st EXCEPT ![i] = "attempt"] /\ UNCHANGED att

\* retry_async after a retryable error.
RetryOrGiveUp(i) ==
  IF att[i] = MaxRetries
  THEN st' = [st EXCEPT ![i] = "failed"] /\ UNCHANGED att
  ELSE st' = [st EXCEPT ![i] = "attempt"] /\ att' = [att EXCEPT ![i] = @ + 1]

\* Seeded bug: the inclusive end of the chunk is taken for its length.
CompleteOneShort(i) ==
  /\ st[i] = "attempt"
  /\ Landed(i)
  /\ mem[i] >= Length(i) - 1
  /\ st' = [st EXCEPT ![i] = "done"]
  /\ UNCHANGED <<upstream, disk, pc, ver, conns, mem, retry, stream, save>>

\* The attempt finds its chunk complete.
AlreadyComplete(i) ==
  /\ st[i] = "attempt"
  /\ Landed(i)
  /\ mem[i] >= Length(i)
  /\ st' = [st EXCEPT ![i] = "done"]
  /\ UNCHANGED <<upstream, disk, pc, ver, conns, mem, retry, stream, save>>

\* Seeded bug: an attempt starts its chunk over.
RequestFromStart(i) ==
  /\ st[i] = "attempt"
  /\ Landed(i)
  /\ mem[i] < Length(i)
  /\ st' = [st EXCEPT ![i] = "stream"]
  /\ served' = [served EXCEPT ![i] = upstream]
  /\ cur' = [cur EXCEPT ![i] = 0]
  /\ last' = [last EXCEPT ![i] = 0]
  /\ land' = [land EXCEPT ![i] = 0]
  /\ werr' = [werr EXCEPT ![i] = FALSE]
  /\ UNCHANGED <<upstream, disk, pc, ver, conns, mem, att, save>>

\* The attempt re-reads `completed', asks for the rest of the chunk and gets
\* a response.  initial_offset is never above `completed' (see
\* CompletedNeverFallsBack), so their maximum is `completed'.
Request(i) ==
  /\ st[i] = "attempt"
  /\ Landed(i)
  /\ mem[i] < Length(i)
  /\ Start(i) + mem[i] < SizeOf[upstream]
  /\ st' = [st EXCEPT ![i] = "stream"]
  /\ served' = [served EXCEPT ![i] = upstream]
  /\ cur' = [cur EXCEPT ![i] = mem[i]]
  /\ last' = [last EXCEPT ![i] = mem[i]]
  /\ land' = [land EXCEPT ![i] = mem[i]]
  /\ werr' = [werr EXCEPT ![i] = FALSE]
  /\ UNCHANGED <<upstream, disk, pc, ver, conns, mem, att, save>>

\* The answer is a success, but the partial cannot be opened, or sought in:
\* an I/O error, which is not retryable.
OpenFails(i) ==
  /\ "writeError" \in Faults
  /\ st[i] = "attempt"
  /\ Landed(i)
  /\ mem[i] < Length(i)
  /\ Start(i) + mem[i] < SizeOf[upstream]
  /\ st' = [st EXCEPT ![i] = "failed"]
  /\ UNCHANGED <<upstream, disk, pc, ver, conns, mem, retry, stream, save>>

\* The request fails, or the answer is not a success.
RequestFails(i) ==
  /\ st[i] = "attempt"
  /\ Landed(i)
  /\ mem[i] < Length(i)
  /\ RetryOrGiveUp(i)
  /\ UNCHANGED <<upstream, disk, pc, ver, conns, mem, served, stream, save>>

\* The task enters a save of the whole state, as it stands under the lock.
TakeSnapshot(i, completed, final) ==
  /\ mem' = [mem EXCEPT ![i] = completed]
  /\ snap' = [snap EXCEPT ![i] = [conns |-> conns, done |-> mem']]
  /\ fin' = [fin EXCEPT ![i] = final]
  /\ st' = [st EXCEPT ![i] = "open"]
  /\ UNCHANGED at

\* n bytes arrive.  write_all waits for the write before it and only starts
\* this one, so `cur' runs ahead of the file; every SidecarCheckpointBytes
\* the task saves the sidecar.
Receive(i, n) ==
  /\ st[i] = "stream"
  /\ land[i] = cur[i]
  /\ ~werr[i]
  /\ cur[i] + n <= Available(i)
  /\ cur' = [cur EXCEPT ![i] = @ + n]
  /\ IF cur[i] + n - last[i] >= SidecarCheckpointBytes
     THEN /\ TakeSnapshot(i, cur[i] + n, FALSE)
          /\ last' = [last EXCEPT ![i] = cur[i] + n]
     ELSE UNCHANGED <<mem, st, last, save>>
  /\ UNCHANGED <<upstream, disk, pc, ver, conns, retry, land, werr>>

\* The write under way reaches the file.
Land(i) ==
  /\ ~Landed(i)
  /\ LET written == Start(i) + land[i] .. Start(i) + cur[i] - 1
     IN  part' = [part EXCEPT ![ver] =
           [o \in Offsets(ver) |-> IF o \in written THEN served[i]
                                                   ELSE part[ver][o]]]
  /\ land' = [land EXCEPT ![i] = cur[i]]
  /\ UNCHANGED <<upstream, side, tmp, blob, pointer, ref, pc, ver, conns, mem,
                 st, retry, cur, last, werr, save>>

\* The write under way is refused; the task's next write or flush will say so.
WriteFails(i) ==
  /\ "writeError" \in Faults
  /\ ~Landed(i)
  /\ werr' = [werr EXCEPT ![i] = TRUE]
  /\ UNCHANGED <<upstream, disk, pc, ver, conns, mem, st, retry, cur, last,
                 land, save>>

\* An I/O error is not retryable.
WriteErrorSurfaces(i) ==
  /\ st[i] = "stream"
  /\ werr[i]
  /\ st' = [st EXCEPT ![i] = "failed"]
  /\ UNCHANGED <<upstream, disk, pc, ver, conns, mem, retry, stream, save>>

StreamFails(i) ==
  /\ st[i] = "stream"
  /\ RetryOrGiveUp(i)
  /\ UNCHANGED <<upstream, disk, pc, ver, conns, mem, served, stream, save>>

\* The body ends: flush, then the final checkpoint.
StreamEnds(i) ==
  /\ st[i] = "stream"
  /\ cur[i] = Available(i) \/ "shortBody" \in Faults
  /\ land[i] = cur[i]
  /\ ~werr[i]
  /\ TakeSnapshot(i, cur[i], TRUE)
  /\ UNCHANGED <<upstream, disk, pc, ver, conns, retry, stream>>
-----------------------------------------------------------------------------
(* ChunkedState::save_atomic, outside the lock.  All the tasks of a session *)
(* write the one .tmp path.                                                 *)

\* A save's outcome is ignored: the task goes on.
AfterSave(i) == IF fin[i] THEN "done" ELSE "stream"

\* std::fs::write opens the .tmp file, truncating the one that is there.
SaveOpen(i) ==
  /\ st[i] = "open"
  /\ tmp' = [tmp EXCEPT ![ver] = Empty]
  /\ at' = [at EXCEPT ![i] = "tmp"]
  /\ st' = [st EXCEPT ![i] = "write"]
  /\ UNCHANGED <<upstream, part, side, blob, pointer, ref, pc, ver, conns, mem,
                 retry, stream, fin, snap>>

\* Writing over a file another save has written to since the truncation
\* leaves the longer text's tail in place, if the other one was longer.
Written(old, new) == IF old = Empty THEN {new} ELSE {new, Blend}

\* The file open under the name of .tmp may have been renamed meanwhile.
SaveWrite(i) ==
  /\ st[i] = "write"
  /\ \/ /\ at[i] = "tmp"
        /\ \E new \in Written(tmp[ver], snap[i]) :
             tmp' = [tmp EXCEPT ![ver] = new]
        /\ UNCHANGED side
     \/ /\ at[i] = "side"
        /\ \E new \in Written(side[ver], snap[i]) :
             side' = [side EXCEPT ![ver] = new]
        /\ UNCHANGED tmp
     \/ /\ at[i] = "gone"
        /\ UNCHANGED <<side, tmp>>
  /\ at' = [at EXCEPT ![i] = "none"]
  /\ st' = [st EXCEPT ![i] = "rename"]
  /\ UNCHANGED <<upstream, part, blob, pointer, ref, pc, ver, conns, mem, retry,
                 stream, fin, snap>>

\* What a rename of .tmp onto the sidecar does to the file another save has
\* open.
AfterRename(where) ==
  CASE where = "tmp" -> "side"
    [] where = "side" -> "gone"
    [] OTHER -> where

SaveRename(i) ==
  /\ st[i] = "rename"
  /\ IF tmp[ver] = NoFile
     THEN UNCHANGED <<side, tmp, at>>      \* another save renamed it first
     ELSE /\ side' = [side EXCEPT ![ver] = tmp[ver]]
          /\ tmp' = [tmp EXCEPT ![ver] = NoFile]
          /\ at' = [j \in Slots |-> AfterRename(at[j])]
  /\ st' = [st EXCEPT ![i] = AfterSave(i)]
  /\ snap' = [snap EXCEPT ![i] = NoFile]
  /\ UNCHANGED <<upstream, part, blob, pointer, ref, pc, ver, conns, mem, retry,
                 stream, fin>>

SaveFails(i) ==
  /\ "saveError" \in Faults
  /\ st[i] \in {"open", "write", "rename"}
  /\ st' = [st EXCEPT ![i] = AfterSave(i)]
  /\ snap' = [snap EXCEPT ![i] = NoFile]
  /\ at' = [at EXCEPT ![i] = "none"]
  /\ UNCHANGED <<upstream, disk, pc, ver, conns, mem, retry, stream, fin>>
-----------------------------------------------------------------------------
(* The session again: collect the tasks, publish the file.                  *)

TasksEnded ==
  /\ pc = "run"
  /\ \A i \in Chunks : st[i] \in {"done", "failed"}
  /\ Quiet

\* Some chunk failed: Err(ChunkedDownload), the pair of files stays.
JoinFailed ==
  /\ TasksEnded
  /\ \E i \in Chunks : st[i] = "failed"
  /\ pc' = "idle"
  /\ DropTasks
  /\ UNCHANGED <<upstream, disk, ver, conns>>

JoinDone ==
  /\ TasksEnded
  /\ \A i \in Chunks : st[i] = "done"
  /\ pc' = "rename"
  /\ DropTasks
  /\ UNCHANGED <<upstream, disk, ver, conns>>

FinalizeRename ==
  /\ pc = "rename"
  /\ blob' = [blob EXCEPT ![ver] = part[ver]]
  /\ part' = [part EXCEPT ![ver] = NoFile]
  /\ pc' = "link"
  /\ UNCHANGED <<upstream, side, tmp, pointer, ref, ver, conns, mem, st, retry,
                 stream, save>>

\* Seeded bug: the ref is written before the pointer is.
RefBeforeLink ==
  /\ pc = "link"
  /\ ref' = ver
  /\ pc' = "ref"
  /\ UNCHANGED <<upstream, part, side, tmp, blob, pointer, ver, conns, mem, st,
                 retry, stream, save>>

FinalizeLink ==
  /\ pc = "link"
  /\ pointer' = [pointer EXCEPT ![ver] = TRUE]
  /\ pc' = "ref"
  /\ UNCHANGED <<upstream, part, side, tmp, blob, ref, ver, conns, mem, st,
                 retry, stream, save>>

FinalizeRef ==
  /\ pc = "ref"
  /\ ref' = ver
  /\ pc' = "cleanup"
  /\ UNCHANGED <<upstream, part, side, tmp, blob, pointer, ver, conns, mem, st,
                 retry, stream, save>>

RemoveSidecar ==
  /\ pc = "cleanup"
  /\ side' = [side EXCEPT ![ver] = NoFile]
  /\ pc' = "idle"
  /\ UNCHANGED <<upstream, part, tmp, blob, pointer, ref, ver, conns, mem, st,
                 retry, stream, save>>
-----------------------------------------------------------------------------
(* What comes from outside.                                                 *)

\* A timeout drops the session's future, an I/O error outside the tasks ends
\* it, or the process is interrupted or dies.  Blocking calls already under
\* way run to their end when only the future is dropped, so such a drop is
\* taken where no write of file data is outstanding; a process that dies can
\* lose one (fault lostWrite).
Interrupt ==
  /\ pc # "idle"
  /\ Quiet \/ "lostWrite" \in Faults
  /\ pc' = "idle"
  /\ DropTasks
  /\ UNCHANGED <<upstream, disk, ver, conns>>

UpstreamMoves ==
  /\ pc = "idle" \/ "upstreamMove" \in Faults
  /\ \E v \in Versions \ {upstream} : upstream' = v
  /\ UNCHANGED <<disk, pc, ver, conns, mem, st, retry, stream, save>>
-----------------------------------------------------------------------------
Prepare == Resume \/ WipePart \/ WipeSide \/ CreatePart \/ SaveFresh
Join == JoinFailed \/ JoinDone
Finalize == FinalizeRename \/ FinalizeLink \/ FinalizeRef \/ RemoveSidecar
Session == Prepare \/ Join \/ Finalize

ChunkNetwork(i) ==
  \/ AlreadyComplete(i) \/ Request(i) \/ RequestFails(i)
  \/ \E n \in 1 .. Length(i) : Receive(i, n)
  \/ StreamFails(i) \/ StreamEnds(i)
ChunkFile(i) ==
  OpenFails(i) \/ Land(i) \/ WriteFails(i) \/ WriteErrorSurfaces(i)
ChunkSave(i) == SaveOpen(i) \/ SaveWrite(i) \/ SaveRename(i) \/ SaveFails(i)
ChunkTask(i) == ChunkNetwork(i) \/ ChunkFile(i) \/ ChunkSave(i)

Next ==
  \/ \E c \in ConnectionCounts : Begin(c)
  \/ Session
  \/ \E i \in Slots : ChunkTask(i)
  \/ Interrupt
  \/ UpstreamMoves

Spec == Init /\ [][Next]_vars

\* The runtime polls the session and every task that can run, and a request
\* or a write that was issued ends, one way or the other.
Fairness == WF_vars(Session) /\ \A i \in Slots : WF_vars(ChunkTask(i))

FairSpec == Spec /\ Fairness
-----------------------------------------------------------------------------
\* Every variable has the values the code can give it; a chunk never uses more
\* retries than the policy allows nor holds more bytes than its length.
TypeOK ==
  /\ upstream \in Versions /\ ver \in Versions
  /\ DOMAIN part = Versions /\ DOMAIN blob = Versions
  /\ \A v \in Versions :
       /\ part[v] = NoFile \/ part[v] \in PartFiles(v)
       /\ blob[v] = NoFile \/ blob[v] \in PartFiles(v)
  /\ side \in [Versions -> Sidecar \cup {NoFile, Empty, Blend}]
  /\ tmp \in [Versions -> Sidecar \cup {NoFile, Empty, Blend}]
  /\ pointer \in [Versions -> BOOLEAN]
  /\ ref \in Versions \cup {NoFile}
  /\ pc \in {"idle", "prepare", "wipeSide", "create", "saveFresh", "run",
             "rename", "link", "ref", "cleanup"}
  /\ conns \in ConnectionCounts
  /\ st \in [Slots -> {"off", "attempt", "stream", "open", "write", "rename",
                       "done", "failed"}]
  /\ mem \in [Slots -> Nat]
  /\ att \in [Slots -> 0 .. MaxRetries]
  /\ served \in [Slots -> Versions]
  /\ cur \in [Slots -> Nat] /\ last \in [Slots -> Nat] /\ land \in [Slots -> Nat]
  /\ werr \in [Slots -> BOOLEAN]
  /\ fin \in [Slots -> BOOLEAN]
  /\ snap \in [Slots -> Sidecar \cup {NoFile}]
  /\ at \in [Slots -> {"none", "tmp", "side", "gone"}]

\* Resuming from this pair of files skips no byte that was never written.
HonestPair(v) ==
  Readable(v) /\ part[v] # NoFile =>
    \A j \in 0 .. side[v].conns - 1 :
      LET from == ChunkStart(SizeOf[v], side[v].conns, j)
      IN  /\ side[v].done[j] <= ChunkLength(SizeOf[v], side[v].conns, j)
          /\ \A o \in from .. from + side[v].done[j] - 1 : part[v][o] # Hole

\* Whenever no chunk task runs, whatever interrupted the sessions before, the
\* sidecar claims for each chunk only bytes that are in the partial file
\* (ChunkProgress::completed: "Bytes successfully written to disk for this
\* chunk so far"): a resume skips no hole.
SidecarHonest == pc # "run" => \A v \in Versions : HonestPair(v)

\* A blob that exists under an etag holds that etag's contents, every byte of
\* them, however many sessions, connection counts and retries it took.
BlobIntact == \A v \in Versions : blob[v] \in {NoFile, CompleteFile(v)}

\* Within a session the `completed' a retry starts from never falls back: an
\* attempt that failed costs no bytes an earlier checkpoint recorded.
CompletedNeverFallsBack ==
  [][pc = "run" /\ pc' = "run" => \A i \in Slots : mem[i] <= mem'[i]]_vars

\* A session that starts ends: in success, in an error or by an interruption.
SessionEnds == pc # "idle" ~> pc = "idle"

\* The abstract specification of what the cache shows of the file.
Published == INSTANCE PublishedFile WITH
  blob <- [v \in Versions |->
            IF blob[v] = NoFile THEN "absent"
            ELSE IF blob[v] = CompleteFile(v) THEN "complete" ELSE "corrupt"],
  NoCommit <- NoFile

\* The download implements it.
PublishesInOrder == Published!Spec
-----------------------------------------------------------------------------
\* The bytes of a partial are its etag's, as long as the revision does not
\* move while a session runs: part of the invariant that is proved.
PartialMatchesEtag ==
  \A v \in Versions : part[v] # NoFile =>
    \A o \in Offsets(v) : part[v][o] \in {Hole, v}
=============================================================================
