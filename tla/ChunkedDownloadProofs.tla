------------------------ MODULE ChunkedDownloadProofs ------------------------
(***************************************************************************)
(* What holds of ChunkLayout and ChunkedDownload for every size, every set *)
(* of connection counts, every retry policy and every checkpoint interval. *)
(***************************************************************************)
EXTENDS ChunkedDownload, TLAPS
-----------------------------------------------------------------------------
(***************************************************************************)
(* The layout: the chunks of a file partition it, for every size and every *)
(* connection count that is not above the size.                            *)
(***************************************************************************)

\* What the division gives: c chunks of k bytes fit in the file, and k > 0.
LEMMA Division ==
  ASSUME NEW total \in Nat, NEW c \in Nat \ {0}, c <= total
  PROVE  /\ total \div c \in Nat \ {0}
         /\ c * (total \div c) <= total
  OBVIOUS

\* Multiplication is monotonic, in the form the layout needs.
LEMMA Multiples ==
  ASSUME NEW k \in Nat, NEW a \in Int, NEW b \in Int, a <= b
  PROVE  a * k <= b * k
  OBVIOUS

\* Every chunk lies in the file and has at least one byte.
LEMMA ChunkBounds ==
  ASSUME NEW total \in Nat, NEW c \in Nat \ {0}, c <= total,
         NEW i \in 0 .. c - 1
  PROVE  /\ ChunkStart(total, c, i) \in Nat
         /\ ChunkLength(total, c, i) \in Nat \ {0}
         /\ ChunkStart(total, c, i) + ChunkLength(total, c, i) <= total
<1> DEFINE k == total \div c
<1>1. k \in Nat \ {0} /\ c * k <= total
  BY Division
<1> HIDE DEF k
<1>2. i * k \in Nat /\ (i + 1) * k = i * k + k
  BY <1>1
<1>3. (i + 1) * k <= c * k
  BY <1>1, Multiples
<1>4. (c - 1) * k + k = c * k
  BY <1>1
<1>5. CASE i = c - 1
  BY <1>1, <1>2, <1>3, <1>5 DEF ChunkStart, ChunkEnd, ChunkLength, k
<1>6. CASE i # c - 1
  BY <1>1, <1>2, <1>3, <1>6 DEF ChunkStart, ChunkEnd, ChunkLength, k
<1> QED BY <1>5, <1>6

ChunkBytes(total, c, i) == ChunkStart(total, c, i) .. ChunkEnd(total, c, i)

\* Every byte of the file belongs to a chunk: a file whose chunks are all
\* complete has no byte missing.
THEOREM ChunksCover ==
  ASSUME NEW total \in Nat, NEW c \in Nat \ {0}, c <= total,
         NEW o \in 0 .. total - 1
  PROVE  \E i \in 0 .. c - 1 : o \in ChunkBytes(total, c, i)
<1> DEFINE k == total \div c
<1>1. k \in Nat \ {0} /\ c * k <= total
  BY Division
<1>2. CASE (c - 1) * k <= o
  <2>1. c - 1 \in 0 .. c - 1
    OBVIOUS
  <2>2. o \in ChunkBytes(total, c, c - 1)
    BY <1>1, <1>2 DEF ChunkBytes, ChunkStart, ChunkEnd
  <2> QED BY <2>1, <2>2
<1>3. CASE o < (c - 1) * k
  <2> DEFINE i == o \div k
  <2> HIDE DEF k
  <2>1. i \in Nat /\ i * k <= o /\ o < (i + 1) * k
    BY <1>1
  <2> HIDE DEF i
  <2>2. i < c - 1
    <3>1. SUFFICES ASSUME c - 1 <= i PROVE FALSE
      BY <2>1
    <3>2. (c - 1) * k <= i * k
      BY <1>1, <2>1, <3>1, Multiples
    <3>3. (c - 1) * k \in Int /\ i * k \in Int
      BY <1>1, <2>1
    <3> QED BY <1>3, <2>1, <3>2, <3>3
  <2>3. o \in ChunkBytes(total, c, i)
    <3>1. (i + 1) * k \in Int /\ i * k \in Int
      BY <1>1, <2>1
    <3> QED BY <2>1, <2>2, <3>1 DEF ChunkBytes, ChunkStart, ChunkEnd, k
  <2> QED BY <2>1, <2>2, <2>3
<1> QED
  <2>1. (c - 1) * k \in Int
    BY <1>1
  <2> QED BY <1>2, <1>3, <2>1

\* No byte belongs to two chunks: two tasks never write the same byte.
THEOREM ChunksDisjoint ==
  ASSUME NEW total \in Nat, NEW c \in Nat \ {0}, c <= total,
         NEW i \in 0 .. c - 1, NEW j \in 0 .. c - 1, i < j
  PROVE  ChunkBytes(total, c, i) \cap ChunkBytes(total, c, j) = {}
<1> DEFINE k == total \div c
<1>1. k \in Nat \ {0}
  BY Division
<1> HIDE DEF k
<1>2. (i + 1) * k <= j * k
  BY <1>1, Multiples
<1>3. (i + 1) * k \in Int /\ j * k \in Int
  BY <1>1
<1>4. ChunkEnd(total, c, i) < ChunkStart(total, c, j)
  BY <1>2, <1>3 DEF ChunkEnd, ChunkStart, k
<1>5. /\ ChunkEnd(total, c, i) \in Int /\ ChunkStart(total, c, i) \in Int
      /\ ChunkEnd(total, c, j) \in Int /\ ChunkStart(total, c, j) \in Int
  BY <1>1, <1>3 DEF ChunkEnd, ChunkStart, k
<1> QED BY <1>4, <1>5 DEF ChunkBytes
-----------------------------------------------------------------------------
(***************************************************************************)
(* The session and its checkpoints.                                        *)
(***************************************************************************)

\* The chunks of the session are among the slots, and their lengths are
\* natural numbers.
LEMMA ChunksAreSlots ==
  ASSUME TypeOK
  PROVE  /\ Chunks \subseteq Slots
         /\ Slots \subseteq Nat
         /\ conns \in Nat \ {0}
         /\ conns <= SizeOf[ver]
         /\ \A v \in Versions : SizeOf[v] \in Nat
BY ParametersAssumption DEF TypeOK, Chunks, Slots

\* ChunkBounds for the session's chunks.
LEMMA SessionChunkBounds ==
  ASSUME TypeOK, NEW j \in Chunks
  PROVE  /\ Start(j) \in Nat
         /\ Length(j) \in Nat \ {0}
         /\ Start(j) + Length(j) <= SizeOf[ver]
<1>1. /\ ver \in Versions /\ SizeOf[ver] \in Nat
      /\ conns \in Nat \ {0} /\ conns <= SizeOf[ver]
  BY ChunksAreSlots DEF TypeOK
<1>2. j \in 0 .. conns - 1
  BY DEF Chunks
<1> QED BY <1>1, <1>2, ChunkBounds DEF Start, Length

\* HoleyFile and CompleteFile are files of the right shape.
LEMMA FileShapes ==
  ASSUME NEW v \in Versions
  PROVE  HoleyFile(v) \in PartFiles(v) /\ CompleteFile(v) \in PartFiles(v)
BY DEF HoleyFile, CompleteFile, PartFiles

LEMMA NoBytesType == NoBytes \in [Slots -> Nat]
BY DEF NoBytes
-----------------------------------------------------------------------------
(* Type correctness, and the order between what the tasks publish and what  *)
(* they count: no assumption on the faults.                                 *)

MemBelowCur == \A i \in Slots : mem[i] <= cur[i]

\* The tasks exist only while the session runs them, and from the moment the
\* session could write to the partial file, there is one.
TasksInRun ==
  /\ pc # "run" => \A i \in Slots : st[i] = "off" /\ Landed(i)
  /\ pc \in {"saveFresh", "run"} => part[ver] \in PartFiles(ver)

TypeInv == TypeOK /\ MemBelowCur /\ TasksInRun

LEMMA TypeInit == Init => TypeInv
BY ParametersAssumption, NoBytesType
   DEF Init, TypeInv, TypeOK, MemBelowCur, TasksInRun, Landed, NoBytes

\* Dropping or spawning the tasks leaves well-typed task variables.
TaskVariablesOK ==
  /\ mem' \in [Slots -> Nat]
  /\ st' \in [Slots -> {"off", "attempt", "stream", "open", "write", "rename",
                        "done", "failed"}]
  /\ att' \in [Slots -> 0 .. MaxRetries]
  /\ served' \in [Slots -> Versions]
  /\ cur' \in [Slots -> Nat] /\ last' \in [Slots -> Nat]
  /\ land' \in [Slots -> Nat]
  /\ werr' \in [Slots -> BOOLEAN]
  /\ fin' \in [Slots -> BOOLEAN]
  /\ snap' \in [Slots -> Sidecar \cup {NoFile}]
  /\ at' \in [Slots -> {"none", "tmp", "side", "gone"}]
  /\ \A i \in Slots : mem'[i] <= cur'[i] /\ Landed(i)'

LEMMA DropTasksType ==
  ASSUME TypeInv, DropTasks
  PROVE  TaskVariablesOK /\ \A i \in Slots : st'[i] = "off"
BY ParametersAssumption DEF TypeInv, TypeOK, DropTasks, TaskVariablesOK,
                               NoBytes, Landed

LEMMA SpawnTasksType ==
  ASSUME TypeInv, NEW offsets \in [Slots -> Nat], SpawnTasks(offsets)
  PROVE  TaskVariablesOK
BY DEF TypeInv, TypeOK, SpawnTasks, TaskVariablesOK, Landed, retry, save

LEMMA SessionType ==
  ASSUME TypeInv, Session
  PROVE  TypeInv'
<1> USE DEF TypeInv, TypeOK, TasksInRun, Landed, disk, retry, stream, save
<1>1. CASE Resume
  <2>1. side[ver].done \in [Slots -> Nat]
    BY <1>1 DEF Resume, Resumable, Readable, Sidecar
  <2>2. TaskVariablesOK
    BY <1>1, <2>1, SpawnTasksType DEF Resume
  <2>3. TypeOK' /\ MemBelowCur'
    BY <1>1, <2>2 DEF Resume, TaskVariablesOK, MemBelowCur
  <2>4. TasksInRun'
    BY <1>1 DEF Resume, Resumable
  <2> QED BY <2>3, <2>4
<1>2. CASE WipePart
  BY <1>2 DEF WipePart, MemBelowCur
<1>3. CASE WipeSide
  BY <1>3 DEF WipeSide, MemBelowCur
<1>4. CASE CreatePart
  <2>1. part' = [part EXCEPT ![ver] = HoleyFile(ver)]
    BY <1>4 DEF CreatePart
  <2>2. part'[ver] \in PartFiles(ver)
    BY <2>1, <1>4, FileShapes DEF CreatePart
  <2>3. TypeOK' /\ MemBelowCur'
    BY <1>4, <2>1, FileShapes DEF CreatePart, MemBelowCur
  <2>4. TasksInRun'
    BY <1>4, <2>2 DEF CreatePart
  <2> QED BY <2>3, <2>4
<1>5. CASE SaveFresh
  <2>1. [conns |-> conns, done |-> NoBytes] \in Sidecar
    BY NoBytesType DEF Sidecar
  <2>2. TaskVariablesOK
    BY <1>5, NoBytesType, SpawnTasksType DEF SaveFresh
  <2>3. TypeOK' /\ MemBelowCur'
    BY <1>5, <2>1, <2>2 DEF SaveFresh, TaskVariablesOK, MemBelowCur
  <2>4. TasksInRun'
    BY <1>5 DEF SaveFresh
  <2> QED BY <2>3, <2>4
<1>6. CASE Join
  <2>1. /\ DropTasks /\ UNCHANGED <<upstream, disk, ver, conns>>
        /\ pc' \in {"idle", "rename"}
    BY <1>6 DEF Join, JoinFailed, JoinDone
  <2>2. TaskVariablesOK /\ \A i \in Slots : st'[i] = "off"
    BY <2>1, DropTasksType
  <2>3. TypeOK' /\ MemBelowCur'
    BY <2>1, <2>2 DEF TaskVariablesOK, MemBelowCur
  <2>4. TasksInRun'
    BY <2>1, <2>2 DEF TaskVariablesOK
  <2> QED BY <2>3, <2>4
<1>7. CASE FinalizeRename
  BY <1>7 DEF FinalizeRename, MemBelowCur
<1>8. CASE FinalizeLink
  BY <1>8 DEF FinalizeLink, MemBelowCur
<1>9. CASE FinalizeRef
  BY <1>9 DEF FinalizeRef, MemBelowCur
<1>10. CASE RemoveSidecar
  BY <1>10 DEF RemoveSidecar, MemBelowCur
<1> QED BY <1>1, <1>2, <1>3, <1>4, <1>5, <1>6, <1>7, <1>8, <1>9, <1>10
        DEF Session, Prepare, Finalize

LEMMA RetryType ==
  ASSUME TypeInv, NEW i \in Slots, RetryOrGiveUp(i)
  PROVE  /\ st' \in [Slots -> {"off", "attempt", "stream", "open", "write",
                               "rename", "done", "failed"}]
         /\ att' \in [Slots -> 0 .. MaxRetries]
<1>1. CASE att[i] = MaxRetries
  BY <1>1 DEF TypeInv, TypeOK, RetryOrGiveUp
<1>2. CASE att[i] # MaxRetries
  <2>1. att[i] + 1 \in 0 .. MaxRetries
    <3>1. att[i] \in 0 .. MaxRetries
      BY DEF TypeInv, TypeOK
    <3>2. MaxRetries \in Nat
      BY ParametersAssumption
    <3> QED BY <1>2, <3>1, <3>2
  <2> QED BY <1>2, <2>1 DEF TypeInv, TypeOK, RetryOrGiveUp
<1> QED BY <1>1, <1>2

LEMMA SnapshotType ==
  ASSUME TypeInv, NEW i \in Slots, NEW completed \in Nat, NEW final \in BOOLEAN,
         TakeSnapshot(i, completed, final)
  PROVE  /\ mem' \in [Slots -> Nat]
         /\ mem'[i] = completed
         /\ \A j \in Slots \ {i} : mem'[j] = mem[j]
         /\ snap' \in [Slots -> Sidecar \cup {NoFile}]
         /\ fin' \in [Slots -> BOOLEAN]
         /\ st' \in [Slots -> {"off", "attempt", "stream", "open", "write",
                               "rename", "done", "failed"}]
<1>1. mem' \in [Slots -> Nat]
  BY DEF TypeInv, TypeOK, TakeSnapshot
<1>2. [conns |-> conns, done |-> mem'] \in Sidecar
  BY <1>1 DEF TypeInv, TypeOK, Sidecar
<1> QED BY <1>1, <1>2 DEF TypeInv, TypeOK, TakeSnapshot

LEMMA ReceiveType ==
  ASSUME TypeInv, NEW i \in Slots, NEW n \in 1 .. Length(i), Receive(i, n)
  PROVE  TypeInv'
<1>1. /\ cur[i] + n \in Nat
      /\ cur' = [cur EXCEPT ![i] = cur[i] + n]
      /\ cur \in [Slots -> Nat]
  BY DEF Receive, TypeInv, TypeOK
<1>2. /\ cur' \in [Slots -> Nat]
      /\ cur'[i] = cur[i] + n
      /\ \A j \in Slots \ {i} : cur'[j] = cur[j]
  BY <1>1
<1>3. /\ mem' \in [Slots -> Nat]
      /\ last' \in [Slots -> Nat]
      /\ snap' \in [Slots -> Sidecar \cup {NoFile}]
      /\ fin' \in [Slots -> BOOLEAN]
      /\ st' \in [Slots -> {"off", "attempt", "stream", "open", "write",
                            "rename", "done", "failed"}]
      /\ at' = at
      /\ mem'[i] <= cur[i] + n
      /\ \A j \in Slots \ {i} : mem'[j] = mem[j]
  <2>1. CASE cur[i] + n - last[i] >= SidecarCheckpointBytes
    <3>1. TakeSnapshot(i, cur[i] + n, FALSE)
      BY <2>1 DEF Receive
    <3>2. last' = [last EXCEPT ![i] = cur[i] + n]
      BY <2>1 DEF Receive
    <3>3. last' \in [Slots -> Nat]
      BY <1>1, <3>2 DEF TypeInv, TypeOK
    <3>4. at' = at
      BY <3>1 DEF TakeSnapshot
    <3>5. /\ mem' \in [Slots -> Nat]
          /\ mem'[i] = cur[i] + n
          /\ \A j \in Slots \ {i} : mem'[j] = mem[j]
          /\ snap' \in [Slots -> Sidecar \cup {NoFile}]
          /\ fin' \in [Slots -> BOOLEAN]
          /\ st' \in [Slots -> {"off", "attempt", "stream", "open", "write",
                                "rename", "done", "failed"}]
      BY <1>1, <3>1, SnapshotType
    <3>6. mem'[i] <= cur[i] + n
      BY <1>1, <3>5
    <3> QED BY <3>3, <3>4, <3>5, <3>6
  <2>2. CASE ~(cur[i] + n - last[i] >= SidecarCheckpointBytes)
    <3>1. UNCHANGED <<mem, st, last, save>>
      BY <2>2 DEF Receive
    <3>2. mem[i] <= cur[i] /\ mem[i] \in Nat /\ cur[i] \in Nat
      BY DEF TypeInv, TypeOK, MemBelowCur
    <3>3. mem[i] <= cur[i] + n
      BY <1>1, <3>2
    <3> QED BY <3>1, <3>3 DEF save, TypeInv, TypeOK
  <2> QED BY <2>1, <2>2
<1>4. UNCHANGED <<upstream, disk, pc, ver, conns, retry, land, werr>>
  BY DEF Receive
<1>5. TypeOK'
  BY <1>2, <1>3, <1>4 DEF TypeInv, TypeOK, disk, retry
<1>6. MemBelowCur'
  <2> SUFFICES ASSUME NEW j \in Slots PROVE mem'[j] <= cur'[j]
    BY DEF MemBelowCur
  <2>1. CASE j = i
    BY <2>1, <1>2, <1>3
  <2>2. CASE j # i
    BY <2>2, <1>2, <1>3 DEF TypeInv, MemBelowCur
  <2> QED BY <2>1, <2>2
<1>7. TasksInRun'
  BY <1>4 DEF Receive, TypeInv, TasksInRun, disk
<1> QED BY <1>5, <1>6, <1>7 DEF TypeInv

LEMMA TaskType ==
  ASSUME TypeInv, NEW i \in Slots, ChunkTask(i)
  PROVE  TypeInv'
<1> USE DEF TypeInv, TypeOK, TasksInRun, Landed, disk, retry, stream, save
<1>1. CASE AlreadyComplete(i)
  BY <1>1 DEF AlreadyComplete, MemBelowCur
<1>2. CASE Request(i)
  BY <1>2 DEF Request, MemBelowCur
<1>3. CASE RequestFails(i)
  BY <1>3, RetryType DEF RequestFails, MemBelowCur
<1>4. ASSUME NEW n \in 1 .. Length(i), Receive(i, n)
      PROVE  TypeInv'
  BY <1>4, ReceiveType
<1>5. CASE Land(i)
  <2> DEFINE written == Start(i) + land[i] .. Start(i) + cur[i] - 1
             new == [o \in Offsets(ver) |-> IF o \in written THEN served[i]
                                            ELSE part[ver][o]]
  <2>1. part' = [part EXCEPT ![ver] = new]
    BY <1>5 DEF Land
  <2>2. part[ver] \in PartFiles(ver) => new \in PartFiles(ver)
    BY DEF PartFiles
  <2> QED BY <1>5, <2>1, <2>2 DEF Land, MemBelowCur
<1>6. CASE WriteFails(i)
  BY <1>6 DEF WriteFails, MemBelowCur
<1>7. CASE OpenFails(i) \/ WriteErrorSurfaces(i)
  BY <1>7 DEF OpenFails, WriteErrorSurfaces, MemBelowCur
<1>8. CASE StreamFails(i)
  BY <1>8, RetryType DEF StreamFails, MemBelowCur
<1>9. CASE StreamEnds(i)
  <2>1. TakeSnapshot(i, cur[i], TRUE) /\ UNCHANGED at
    BY <1>9 DEF StreamEnds, TakeSnapshot
  <2>2. MemBelowCur'
    <3>1. mem'[i] = cur'[i]
      BY <1>9, <2>1, SnapshotType DEF StreamEnds
    <3>2. ASSUME NEW j \in Slots, j # i PROVE mem'[j] <= cur'[j]
      BY <1>9, <2>1, <3>2, SnapshotType DEF StreamEnds, MemBelowCur
    <3> QED BY <1>9, <3>1, <3>2 DEF StreamEnds, MemBelowCur
  <2> QED BY <1>9, <2>1, <2>2, SnapshotType DEF StreamEnds
<1>10. CASE SaveOpen(i)
  BY <1>10 DEF SaveOpen, MemBelowCur
<1>11. CASE SaveWrite(i)
  BY <1>11 DEF SaveWrite, Written, MemBelowCur
<1>12. CASE SaveRename(i)
  BY <1>12 DEF SaveRename, AfterSave, AfterRename, MemBelowCur
<1>13. CASE SaveFails(i)
  BY <1>13 DEF SaveFails, AfterSave, MemBelowCur
<1> QED BY <1>1, <1>2, <1>3, <1>4, <1>5, <1>6, <1>7, <1>8, <1>9, <1>10, <1>11,
           <1>12, <1>13 DEF ChunkTask, ChunkNetwork, ChunkFile, ChunkSave

LEMMA TypeNext == TypeInv /\ [Next]_vars => TypeInv'
<1> SUFFICES ASSUME TypeInv, [Next]_vars PROVE TypeInv'
  OBVIOUS
<1> USE DEF TypeInv, TypeOK, TasksInRun, Landed, disk, retry, stream, save
<1>1. ASSUME NEW c \in ConnectionCounts, Begin(c) PROVE TypeInv'
  BY <1>1 DEF Begin, MemBelowCur
<1>2. CASE Interrupt
  <2>1. /\ DropTasks /\ UNCHANGED <<upstream, disk, ver, conns>>
        /\ pc' = "idle"
    BY <1>2 DEF Interrupt
  <2>2. TaskVariablesOK /\ \A i \in Slots : st'[i] = "off"
    BY <2>1, DropTasksType
  <2>3. TypeOK' /\ MemBelowCur'
    BY <2>1, <2>2 DEF TaskVariablesOK, MemBelowCur
  <2>4. TasksInRun'
    BY <2>1, <2>2 DEF TaskVariablesOK
  <2> QED BY <2>3, <2>4
<1>3. CASE UpstreamMoves
  BY <1>3 DEF UpstreamMoves, MemBelowCur
<1>4. CASE UNCHANGED vars
  BY <1>4 DEF vars, MemBelowCur
<1> QED BY <1>1, <1>2, <1>3, <1>4, SessionType, TaskType DEF Next

\* Every variable keeps its type, whatever the environment does.
THEOREM TypeCorrect == Spec => []TypeOK
<1>1. TypeInv => TypeOK
  BY DEF TypeInv
<1> QED BY <1>1, TypeInit, TypeNext, PTL DEF Spec

\* A task step is a step of a running session, and leaves its version and its
\* connection count alone.
LEMMA TaskInRun ==
  ASSUME TypeInv, NEW i \in Slots, ChunkTask(i)
  PROVE  /\ pc = "run" /\ pc' = "run"
         /\ ver' = ver /\ conns' = conns
<1>1. st[i] # "off" \/ ~Landed(i)
  BY DEF ChunkTask, ChunkNetwork, ChunkFile, ChunkSave, AlreadyComplete, Request,
         RequestFails, Receive, StreamFails, StreamEnds, Land, WriteFails,
         OpenFails, WriteErrorSurfaces, SaveOpen, SaveWrite, SaveRename, SaveFails
<1>2. UNCHANGED <<pc, ver, conns>>
  BY DEF ChunkTask, ChunkNetwork, ChunkFile, ChunkSave, AlreadyComplete, Request,
         RequestFails, Receive, StreamFails, StreamEnds, Land, WriteFails,
         OpenFails, WriteErrorSurfaces, SaveOpen, SaveWrite, SaveRename, SaveFails
<1> QED BY <1>1, <1>2 DEF TypeInv, TasksInRun

\* What the tasks publish under the lock only grows.
LEMMA MemGrows ==
  ASSUME TypeInv, NEW i \in Slots, ChunkTask(i)
  PROVE  \A j \in Slots : mem[j] <= mem'[j]
<1>1. CASE UNCHANGED mem
  BY <1>1 DEF TypeInv, TypeOK
<1>2. ASSUME NEW n \in Nat, mem' = [mem EXCEPT ![i] = cur[i] + n]
      PROVE  \A j \in Slots : mem[j] <= mem'[j]
  <2>1. mem \in [Slots -> Nat] /\ cur \in [Slots -> Nat]
    BY DEF TypeInv, TypeOK
  <2>2. mem[i] <= cur[i]
    BY DEF TypeInv, MemBelowCur
  <2>3. mem[i] <= cur[i] + n
    BY <2>1, <2>2
  <2>4. mem'[i] = cur[i] + n /\ \A j \in Slots \ {i} : mem'[j] = mem[j]
    BY <1>2, <2>1
  <2> SUFFICES ASSUME NEW j \in Slots PROVE mem[j] <= mem'[j]
    OBVIOUS
  <2>5. CASE j = i
    BY <2>3, <2>4, <2>5
  <2>6. CASE j # i
    BY <2>1, <2>4, <2>6
  <2> QED BY <2>5, <2>6
<1>3. ASSUME NEW n \in 1 .. Length(i), Receive(i, n)
      PROVE  \/ UNCHANGED mem
             \/ n \in Nat /\ mem' = [mem EXCEPT ![i] = cur[i] + n]
  BY <1>3 DEF Receive, TakeSnapshot
<1>4. StreamEnds(i) => mem' = [mem EXCEPT ![i] = cur[i] + 0]
  <2>1. cur[i] + 0 = cur[i]
    BY DEF TypeInv, TypeOK
  <2>2. StreamEnds(i) => mem' = [mem EXCEPT ![i] = cur[i]]
    BY DEF StreamEnds, TakeSnapshot
  <2> QED BY <2>1, <2>2
<1>5. \/ UNCHANGED mem \/ StreamEnds(i)
      \/ \E n \in 1 .. Length(i) : Receive(i, n)
  BY DEF ChunkTask, ChunkNetwork, ChunkFile, ChunkSave, AlreadyComplete, Request,
         RequestFails, StreamFails, Land, WriteFails, OpenFails, WriteErrorSurfaces,
         SaveOpen, SaveWrite, SaveRename, SaveFails
<1> QED BY <1>1, <1>2, <1>3, <1>4, <1>5

\* A retry never starts below what an earlier checkpoint recorded, whatever
\* the environment does.
THEOREM CompletedIsMonotonic == Spec => CompletedNeverFallsBack
<1> DEFINE Grows == pc = "run" /\ pc' = "run" => \A i \in Slots : mem[i] <= mem'[i]
<1>1. ASSUME TypeInv, [Next]_vars PROVE [Grows]_vars
  <2>1. CASE \E c \in ConnectionCounts : Begin(c)
    BY <2>1 DEF Begin
  <2>2. CASE Session
    BY <2>2 DEF Session, Prepare, Join, Finalize, Resume, WipePart, WipeSide,
       CreatePart, SaveFresh, JoinFailed, JoinDone, FinalizeRename,
       FinalizeLink, FinalizeRef, RemoveSidecar
  <2>3. ASSUME NEW i \in Slots, ChunkTask(i) PROVE Grows
    BY <1>1, <2>3, MemGrows
  <2>4. CASE Interrupt
    BY <2>4 DEF Interrupt
  <2>5. CASE UpstreamMoves
    BY <1>1, <2>5 DEF UpstreamMoves, TypeInv, TypeOK
  <2> QED BY <1>1, <2>1, <2>2, <2>3, <2>4, <2>5 DEF Next
<1> QED BY <1>1, TypeInit, TypeNext, PTL DEF Spec, CompletedNeverFallsBack
-----------------------------------------------------------------------------
(* SidecarHonest, when the file system accepts every write of file data and *)
(* the process does not die inside one.  Retries, refused sidecar saves,    *)
(* torn and stale sidecars, short responses and a moving revision may all   *)
(* happen.                                                                  *)

NoDataLoss == Faults \cap {"writeError", "lostWrite"} = {}

\* A snapshot of a session with c connections that claims no more than the
\* counts m.
Below(s, c, m) == s.conns = c /\ \A j \in 0 .. c - 1 : s.done[j] <= m[j]

\* Each task's bytes are in the file, up to the write under way.
Frontier ==
  pc = "run" => \A j \in Chunks :
    /\ land[j] <= cur[j] /\ cur[j] <= Length(j)
    /\ \A o \in Start(j) .. Start(j) + land[j] - 1 : part[ver][o] # Hole

\* Whatever a save of this session has written, or will, is below the tasks;
\* a .tmp file left by an earlier session is truncated before any rename.
SavesBelow ==
  pc = "run" =>
    /\ Readable(ver) => Below(side[ver], conns, mem)
    /\ \A i \in Slots : st[i] \in {"open", "write", "rename"} /\ snap[i] # NoFile
                          => Below(snap[i], conns, mem)
    /\ (\E i \in Slots : st[i] \in {"write", "rename"}) /\ tmp[ver] \in Sidecar
         => Below(tmp[ver], conns, mem)

FilesHonest == \A v \in Versions : v # ver \/ pc # "run" => HonestPair(v)

NoWriteErrors == \A i \in Slots : ~werr[i]

NoSidecarAtCreate == pc = "create" => ~Readable(ver)

HonestInv ==
  /\ TypeInv
  /\ Frontier
  /\ SavesBelow
  /\ FilesHonest
  /\ NoWriteErrors
  /\ NoSidecarAtCreate

LEMMA HonestInit == Init => HonestInv
<1> SUFFICES ASSUME Init PROVE HonestInv
  OBVIOUS
<1>1. TypeInv
  BY TypeInit
<1>2. NoFile \notin Sidecar
  BY FileStatesAssumption
<1> QED BY <1>1, <1>2 DEF Init, HonestInv, Frontier, SavesBelow, FilesHonest,
           HonestPair, Readable, NoWriteErrors, NoSidecarAtCreate

\* Below survives a step that only lets the counts grow.
LEMMA BelowGrows ==
  ASSUME TypeInv, NEW s \in Sidecar, Below(s, conns, mem), conns' = conns,
         mem' \in [Slots -> Nat], \A j \in Slots : mem[j] <= mem'[j]
  PROVE  Below(s, conns', mem')
<1>1. Chunks \subseteq Slots
  BY ChunksAreSlots DEF TypeInv
<1>2. ASSUME NEW j \in Chunks PROVE s.done[j] <= mem'[j]
  <2>1. s.done[j] \in Nat /\ mem[j] \in Nat /\ mem'[j] \in Nat
    BY <1>1 DEF Sidecar, TypeInv, TypeOK
  <2>2. s.done[j] <= mem[j] /\ mem[j] <= mem'[j]
    BY <1>1 DEF Below, Chunks
  <2> QED BY <2>1, <2>2
<1> QED BY <1>2 DEF Below, Chunks

\* What a task step does to the parts of HonestInv about the tasks.
LEMMA TaskFrontier ==
  ASSUME HonestInv, NEW i \in Slots, ChunkTask(i), NoDataLoss
  PROVE  Frontier' /\ NoWriteErrors'
<1>1. /\ TypeOK /\ TypeInv
      /\ pc = "run" /\ pc' = "run" /\ ver' = ver /\ conns' = conns
  BY TaskInRun DEF HonestInv, TypeInv
<1>2. /\ Chunks' = Chunks /\ Chunks \subseteq Slots /\ SizeOf[ver] \in Nat
      /\ \A j \in Slots : Start(j)' = Start(j) /\ Length(j)' = Length(j)
  BY <1>1, ChunksAreSlots DEF Chunks, Start, Length, TypeOK
<1>3. \A j \in Chunks : Start(j) \in Nat /\ Length(j) \in Nat
  BY <1>1, SessionChunkBounds
<1>4. CASE UNCHANGED <<part, cur, land, werr>>
  BY <1>1, <1>2, <1>4 DEF HonestInv, Frontier, NoWriteErrors
<1>5. CASE Request(i)
  <2>1. mem[i] <= cur[i] /\ land[i] = cur[i]
    BY <1>1, <1>5 DEF Request, Landed, HonestInv, NoWriteErrors, TypeInv, MemBelowCur
  <2>2. NoWriteErrors'
    BY <1>1, <1>5 DEF Request, HonestInv, NoWriteErrors, TypeOK
  <2>3. ASSUME NEW j \in Chunks
        PROVE  /\ land'[j] <= cur'[j] /\ cur'[j] <= Length(j)
               /\ \A o \in Start(j) .. Start(j) + land'[j] - 1 : part'[ver][o] # Hole
    <3>1. CASE j = i
      <4>1. land'[j] = mem[j] /\ cur'[j] = mem[j] /\ part' = part
        BY <1>1, <1>2, <1>5, <3>1 DEF Request, disk, TypeOK
      <4>2. mem[j] \in Nat /\ land[j] \in Nat /\ mem[j] <= land[j]
        BY <1>1, <1>2, <2>1, <3>1 DEF TypeOK
      <4>3. \A o \in Start(j) .. Start(j) + land[j] - 1 : part[ver][o] # Hole
        BY <1>1 DEF HonestInv, Frontier
      <4>4. cur[j] <= Length(j) /\ cur[j] \in Nat /\ mem[j] <= cur[j]
        BY <1>1, <1>2, <2>1, <3>1 DEF HonestInv, Frontier, TypeOK
      <4> QED BY <1>3, <4>1, <4>2, <4>3, <4>4
    <3>2. CASE j # i
      BY <1>1, <1>2, <1>5, <3>2 DEF Request, disk, TypeOK, HonestInv, Frontier
    <3> QED BY <3>1, <3>2
  <2> QED BY <1>1, <1>2, <2>2, <2>3 DEF Frontier
<1>6. ASSUME NEW n \in 1 .. Length(i), Receive(i, n)
      PROVE  Frontier' /\ NoWriteErrors'
  <2>1. /\ UNCHANGED <<part, land, werr>> /\ cur' = [cur EXCEPT ![i] = @ + n]
        /\ cur[i] + n <= Available(i)
    BY <1>6 DEF Receive, disk
  <2>2. ASSUME NEW j \in Chunks PROVE land'[j] <= cur'[j] /\ cur'[j] <= Length(j)
    <3>1. land[j] \in Nat /\ cur[j] \in Nat /\ land[j] <= cur[j] /\ cur[j] <= Length(j)
      BY <1>1, <1>2 DEF TypeOK, HonestInv, Frontier
    <3>2. CASE j = i
      <4>1. Available(i) <= Length(i)
        <5>1. served[i] \in Versions /\ SizeOf[served[i]] \in Nat
          BY <1>1, ChunksAreSlots DEF TypeOK
        <5> QED BY <1>3, <3>2, <5>1 DEF Available
      <4>2. cur'[j] = cur[j] + n
        BY <1>1, <2>1, <3>2 DEF TypeOK
      <4>3. Available(i) \in Int
        <5>1. served[i] \in Versions /\ SizeOf[served[i]] \in Nat
          BY <1>1, ChunksAreSlots DEF TypeOK
        <5> QED BY <1>3, <3>2, <5>1 DEF Available
      <4> QED BY <1>3, <2>1, <3>1, <3>2, <4>1, <4>2, <4>3
    <3>3. CASE j # i
      BY <1>1, <1>2, <2>1, <3>1, <3>3 DEF TypeOK
    <3> QED BY <3>2, <3>3
  <2> QED BY <1>1, <1>2, <2>1, <2>2 DEF HonestInv, Frontier, NoWriteErrors
<1>7. CASE Land(i)
  <2> DEFINE written == Start(i) + land[i] .. Start(i) + cur[i] - 1
             new == [o \in Offsets(ver) |-> IF o \in written THEN served[i]
                                            ELSE part[ver][o]]
  <2>1. /\ part' = [part EXCEPT ![ver] = new]
        /\ land' = [land EXCEPT ![i] = cur[i]]
        /\ UNCHANGED <<cur, werr>>
    BY <1>7 DEF Land
  <2>2. part'[ver] = new
    BY <1>1, <2>1 DEF TypeOK
  <2>3. served[i] # Hole
    BY <1>1, FileStatesAssumption DEF TypeOK
  <2>4. ASSUME NEW j \in Chunks
        PROVE  /\ land'[j] <= cur'[j] /\ cur'[j] <= Length(j)
               /\ \A o \in Start(j) .. Start(j) + land'[j] - 1 : new[o] # Hole
    <3>1. /\ land[j] \in Nat /\ cur[j] \in Nat
          /\ land[j] <= cur[j] /\ cur[j] <= Length(j)
          /\ \A o \in Start(j) .. Start(j) + land[j] - 1 : part[ver][o] # Hole
      BY <1>1, <1>2 DEF TypeOK, HonestInv, Frontier
    <3>2. Start(j) .. Start(j) + cur[j] - 1 \subseteq Offsets(ver)
      <4>1. Start(j) + Length(j) <= SizeOf[ver]
        BY <1>1, SessionChunkBounds
      <4> QED BY <1>2, <1>3, <3>1, <4>1 DEF Offsets
    <3>3. cur'[j] = cur[j] /\ land'[j] = IF j = i THEN cur[i] ELSE land[j]
      BY <1>1, <1>2, <2>1 DEF TypeOK
    <3>4. ASSUME NEW o \in Start(j) .. Start(j) + land'[j] - 1 PROVE new[o] # Hole
      <4>1. o \in Start(j) .. Start(j) + cur[j] - 1
        BY <1>3, <3>1, <3>3
      <4>2. o \in Offsets(ver)
        BY <3>2, <4>1
      <4>3. CASE o \in written
        BY <2>3, <4>2, <4>3
      <4>4. CASE o \notin written
        <5>1. o \in Start(j) .. Start(j) + land[j] - 1
          BY <1>3, <3>1, <3>3, <4>1, <4>4
        <5> QED BY <3>1, <4>2, <4>4, <5>1
      <4> QED BY <4>3, <4>4
    <3>5. land'[j] <= cur'[j] /\ cur'[j] <= Length(j)
      BY <3>1, <3>3
    <3> QED BY <3>4, <3>5
  <2> HIDE DEF new
  <2>5. NoWriteErrors'
    BY <2>1 DEF HonestInv, NoWriteErrors
  <2> QED BY <1>1, <1>2, <2>2, <2>4, <2>5 DEF Frontier
<1>8. CASE WriteFails(i)
  BY <1>8 DEF WriteFails, NoDataLoss
<1>9. \/ UNCHANGED <<part, cur, land, werr>>
      \/ Request(i) \/ Land(i) \/ WriteFails(i)
      \/ \E n \in 1 .. Length(i) : Receive(i, n)
  BY DEF ChunkTask, ChunkNetwork, ChunkFile, ChunkSave, AlreadyComplete,
         RequestFails, StreamFails, StreamEnds, OpenFails, WriteErrorSurfaces, SaveOpen,
         SaveWrite, SaveRename, SaveFails, disk, stream
<1> QED BY <1>4, <1>5, <1>6, <1>7, <1>8, <1>9

LEMMA TaskSaves ==
  ASSUME HonestInv, NEW i \in Slots, ChunkTask(i)
  PROVE  SavesBelow'
<1>1. /\ TypeOK /\ TypeInv /\ TypeInv'
      /\ pc = "run" /\ pc' = "run" /\ ver' = ver /\ conns' = conns
  BY TaskInRun, TaskType DEF HonestInv, TypeInv
<1>2. /\ Readable(ver) => Below(side[ver], conns, mem)
      /\ \A j \in Slots : st[j] \in {"open", "write", "rename"} /\ snap[j] # NoFile
                            => Below(snap[j], conns, mem)
      /\ (\E j \in Slots : st[j] \in {"write", "rename"}) /\ tmp[ver] \in Sidecar
           => Below(tmp[ver], conns, mem)
  BY <1>1 DEF HonestInv, SavesBelow
<1>3. ASSUME NEW s \in Sidecar, Below(s, conns, mem) PROVE Below(s, conns', mem')
  <2>1. mem' \in [Slots -> Nat]
    BY <1>1 DEF TypeInv, TypeOK
  <2>2. \A j \in Slots : mem[j] <= mem'[j]
    BY <1>1, MemGrows
  <2> QED BY <1>1, <1>3, <2>1, <2>2, BelowGrows
<1>4. Empty \notin Sidecar /\ Blend \notin Sidecar /\ NoFile \notin Sidecar
  BY FileStatesAssumption
<1>5. \A j \in Slots : snap[j] \in Sidecar \cup {NoFile}
  BY <1>1 DEF TypeOK
<1> DEFINE Goal ==
        /\ side'[ver] \in Sidecar => Below(side'[ver], conns', mem')
        /\ \A j \in Slots : st'[j] \in {"open", "write", "rename"} /\ snap'[j] # NoFile
                              => Below(snap'[j], conns', mem')
        /\ (\E j \in Slots : st'[j] \in {"write", "rename"}) /\ tmp'[ver] \in Sidecar
             => Below(tmp'[ver], conns', mem')
<1>6. SUFFICES Goal
  BY <1>1 DEF SavesBelow, Readable
<1>7. CASE /\ UNCHANGED <<side, tmp>>
           /\ \A j \in Slots :
                st'[j] \in {"open", "write", "rename"} /\ snap'[j] # NoFile
                  => \/ st[j] = st'[j] /\ snap'[j] = snap[j]
                     \/ st'[j] = "open" /\ snap'[j] \in Sidecar /\ Below(snap'[j], conns', mem')
           /\ \A j \in Slots : st'[j] \in {"write", "rename"} => st[j] = st'[j]
  BY <1>2, <1>3, <1>4, <1>5, <1>7 DEF Readable
<1>8. ASSUME NEW completed \in Nat, NEW final \in BOOLEAN,
             TakeSnapshot(i, completed, final), UNCHANGED <<side, tmp>>
      PROVE  /\ \A j \in Slots :
                  st'[j] \in {"open", "write", "rename"} /\ snap'[j] # NoFile
                    => \/ st[j] = st'[j] /\ snap'[j] = snap[j]
                       \/ st'[j] = "open" /\ snap'[j] \in Sidecar /\ Below(snap'[j], conns', mem')
             /\ \A j \in Slots : st'[j] \in {"write", "rename"} => st[j] = st'[j]
  <2>1. /\ st' = [st EXCEPT ![i] = "open"]
        /\ snap' = [snap EXCEPT ![i] = [conns |-> conns, done |-> mem']]
    BY <1>8 DEF TakeSnapshot
  <2>2. mem' \in [Slots -> Nat] /\ conns \in ConnectionCounts
    BY <1>1 DEF TypeInv, TypeOK
  <2>3. snap'[i] \in Sidecar /\ snap'[i].conns = conns /\ snap'[i].done = mem'
    BY <1>1, <2>1, <2>2 DEF TypeOK, Sidecar
  <2>4. Below(snap'[i], conns', mem')
    <3>1. Chunks' = Chunks /\ Chunks \subseteq Slots
      BY <1>1, ChunksAreSlots DEF Chunks
    <3>2. \A j \in Chunks : mem'[j] <= mem'[j]
      BY <2>2, <3>1
    <3> QED BY <1>1, <2>3, <3>1, <3>2 DEF Below, Chunks
  <2> QED BY <1>1, <2>1, <2>3, <2>4 DEF TypeOK
<1>9. CASE SaveOpen(i)
  BY <1>1, <1>2, <1>3, <1>4, <1>5, <1>9 DEF SaveOpen, TypeOK, Readable
<1>10. CASE SaveWrite(i)
  <2>1. /\ st[i] = "write" /\ st' = [st EXCEPT ![i] = "rename"]
        /\ UNCHANGED snap
    BY <1>10 DEF SaveWrite
  <2>2. \/ side'[ver] = side[ver]
        \/ side'[ver] = Blend
        \/ side'[ver] = snap[i]
    BY <1>1, <1>10 DEF SaveWrite, Written, TypeOK
  <2>3. \/ tmp'[ver] = tmp[ver]
        \/ tmp'[ver] = Blend
        \/ tmp'[ver] = snap[i]
    BY <1>1, <1>10 DEF SaveWrite, Written, TypeOK
  <2>4. side'[ver] \in Sidecar => Below(side'[ver], conns', mem')
    BY <1>2, <1>3, <1>4, <2>1, <2>2 DEF Readable
  <2>5. tmp'[ver] \in Sidecar => Below(tmp'[ver], conns', mem')
    BY <1>2, <1>3, <1>4, <2>1, <2>3
  <2>6. \A j \in Slots : st'[j] \in {"open", "write", "rename"} /\ snap'[j] # NoFile
                           => Below(snap'[j], conns', mem')
    BY <1>1, <1>2, <1>3, <1>5, <2>1 DEF TypeOK
  <2> QED BY <2>4, <2>5, <2>6
<1>11. CASE SaveRename(i)
  <2>1. /\ st[i] = "rename" /\ st' = [st EXCEPT ![i] = AfterSave(i)]
        /\ snap' = [snap EXCEPT ![i] = NoFile]
    BY <1>11 DEF SaveRename
  <2>2. st'[i] \in {"done", "stream"}
    BY <1>1, <2>1 DEF AfterSave, TypeOK
  <2>3. \/ UNCHANGED <<side, tmp>>
        \/ side'[ver] = tmp[ver] /\ tmp'[ver] = NoFile
    BY <1>1, <1>11 DEF SaveRename, TypeOK
  <2>4. side'[ver] \in Sidecar => Below(side'[ver], conns', mem')
    BY <1>2, <1>3, <2>1, <2>3 DEF Readable
  <2>5. tmp'[ver] \in Sidecar => Below(tmp'[ver], conns', mem')
    BY <1>2, <1>3, <1>4, <2>1, <2>3
  <2>6. \A j \in Slots : st'[j] \in {"open", "write", "rename"} /\ snap'[j] # NoFile
                           => Below(snap'[j], conns', mem')
    BY <1>1, <1>2, <1>3, <1>5, <2>1, <2>2 DEF TypeOK
  <2> QED BY <2>4, <2>5, <2>6
<1>12. CASE SaveFails(i)
  <2>1. /\ st' = [st EXCEPT ![i] = AfterSave(i)]
        /\ snap' = [snap EXCEPT ![i] = NoFile] /\ UNCHANGED <<side, tmp>>
    BY <1>12 DEF SaveFails, disk
  <2>2. st'[i] \in {"done", "stream"}
    BY <1>1, <2>1 DEF AfterSave, TypeOK
  <2> QED BY <1>1, <1>7, <2>1, <2>2 DEF TypeOK
<1>13. CASE \/ AlreadyComplete(i) \/ Request(i) \/ RequestFails(i)
            \/ StreamFails(i) \/ OpenFails(i) \/ WriteErrorSurfaces(i)
  <2>1. UNCHANGED <<side, tmp, snap>>
    BY <1>13 DEF AlreadyComplete, Request, RequestFails, StreamFails,
       OpenFails, WriteErrorSurfaces, disk, save
  <2>2. \E where \in {"attempt", "stream", "done", "failed"} :
          st' = [st EXCEPT ![i] = where]
    BY <1>13 DEF AlreadyComplete, Request, RequestFails, StreamFails,
       OpenFails, WriteErrorSurfaces, RetryOrGiveUp
  <2> QED BY <1>1, <1>7, <2>1, <2>2 DEF TypeOK
<1>14. CASE Land(i) \/ WriteFails(i)
  <2>1. UNCHANGED <<side, tmp, snap, st>>
    BY <1>14 DEF Land, WriteFails, disk, save
  <2> QED BY <1>7, <2>1
<1>15. CASE StreamEnds(i)
  <2>1. TakeSnapshot(i, cur[i], TRUE) /\ UNCHANGED <<side, tmp>> /\ cur[i] \in Nat
    BY <1>1, <1>15 DEF StreamEnds, disk, TypeOK
  <2> QED BY <1>7, <1>8, <2>1
<1>16. ASSUME NEW n \in 1 .. Length(i), Receive(i, n)
       PROVE  Goal
  <2>1. UNCHANGED <<side, tmp>> /\ cur[i] + n \in Nat
    BY <1>1, <1>16 DEF Receive, disk, TypeOK
  <2>2. TakeSnapshot(i, cur[i] + n, FALSE) \/ UNCHANGED <<st, snap>>
    BY <1>16 DEF Receive, save
  <2> QED BY <1>7, <1>8, <2>1, <2>2
<1> QED BY <1>9, <1>10, <1>11, <1>12, <1>13, <1>14, <1>15, <1>16
        DEF ChunkTask, ChunkNetwork, ChunkFile, ChunkSave

\* A task step touches no files but its own session's.
LEMMA TaskFiles ==
  ASSUME HonestInv, NEW i \in Slots, ChunkTask(i)
  PROVE  FilesHonest' /\ NoSidecarAtCreate'
<1>1. /\ TypeOK /\ pc = "run" /\ pc' = "run" /\ ver' = ver
  BY TaskInRun DEF HonestInv, TypeInv
<1>2. ASSUME NEW v \in Versions, v # ver
      PROVE  part'[v] = part[v] /\ side'[v] = side[v]
  <2>1. part'[v] = part[v]
    BY <1>1, <1>2 DEF TypeOK, disk, ChunkTask, ChunkNetwork, ChunkFile, ChunkSave,
       AlreadyComplete, Request, RequestFails, Receive, StreamFails, StreamEnds,
       Land, WriteFails, OpenFails, WriteErrorSurfaces, SaveOpen, SaveWrite, SaveRename,
       SaveFails
  <2>2. side'[v] = side[v]
    BY <1>1, <1>2 DEF TypeOK, disk, ChunkTask, ChunkNetwork, ChunkFile, ChunkSave,
       AlreadyComplete, Request, RequestFails, Receive, StreamFails, StreamEnds,
       Land, WriteFails, OpenFails, WriteErrorSurfaces, SaveOpen, SaveWrite, SaveRename,
       SaveFails
  <2> QED BY <2>1, <2>2
<1>3. ASSUME NEW v \in Versions, v # ver PROVE HonestPair(v)'
  <2>1. HonestPair(v)
    BY <1>3 DEF HonestInv, FilesHonest
  <2>2. part'[v] = part[v] /\ side'[v] = side[v]
    BY <1>2, <1>3
  <2> QED BY <2>1, <2>2 DEF HonestPair, Readable
<1> QED BY <1>1, <1>3 DEF FilesHonest, NoSidecarAtCreate

\* When the tasks of a session stop, and every write they issued has ended,
\* the pair of files they leave is honest.
LEMMA StoppedIsHonest ==
  ASSUME HonestInv, Quiet
  PROVE  \A v \in Versions : HonestPair(v)
<1>1. CASE pc # "run"
  BY <1>1 DEF HonestInv, FilesHonest
<1>2. CASE pc = "run"
  <2>1. SUFFICES HonestPair(ver)
    BY DEF HonestInv, FilesHonest
  <2>2. SUFFICES ASSUME Readable(ver)
                 PROVE  \A j \in Chunks :
                          /\ side[ver].done[j] <= Length(j)
                          /\ \A o \in Start(j) .. Start(j) + side[ver].done[j] - 1 :
                               part[ver][o] # Hole
    BY <1>2 DEF HonestPair, HonestInv, SavesBelow, Below, Chunks, Start, Length
  <2>3. TypeOK /\ side[ver] \in Sidecar
    BY <2>2 DEF HonestInv, TypeInv, Readable
  <2>4. Chunks \subseteq Slots
    BY <2>3, ChunksAreSlots
  <2> SUFFICES ASSUME NEW j \in Chunks
               PROVE  /\ side[ver].done[j] <= Length(j)
                      /\ \A o \in Start(j) .. Start(j) + side[ver].done[j] - 1 :
                           part[ver][o] # Hole
    OBVIOUS
  <2>5. /\ side[ver].done[j] \in Nat /\ mem[j] \in Nat /\ cur[j] \in Nat
        /\ land[j] \in Nat /\ Start(j) \in Nat /\ Length(j) \in Nat
    <3>1. side[ver].done[j] \in Nat
      BY <2>3, <2>4 DEF Sidecar
    <3>2. mem[j] \in Nat /\ cur[j] \in Nat /\ land[j] \in Nat
      BY <2>3, <2>4 DEF TypeOK
    <3> QED BY <2>3, <3>1, <3>2, SessionChunkBounds
  <2>6. side[ver].done[j] <= mem[j]
    BY <1>2, <2>2 DEF HonestInv, SavesBelow, Below, Chunks
  <2>7. mem[j] <= cur[j]
    BY <2>4 DEF HonestInv, TypeInv, MemBelowCur
  <2>8. land[j] = cur[j]
    BY <2>4 DEF HonestInv, NoWriteErrors, Quiet, Landed
  <2>9. /\ cur[j] <= Length(j)
        /\ \A o \in Start(j) .. Start(j) + land[j] - 1 : part[ver][o] # Hole
    BY <1>2 DEF HonestInv, Frontier
  <2> QED BY <2>5, <2>6, <2>7, <2>8, <2>9
<1> QED BY <1>1, <1>2

\* Files that did not change are as honest as they were.
LEMMA SameFilesSameHonesty ==
  ASSUME \A v \in Versions : HonestPair(v), UNCHANGED <<part, side>>
  PROVE  \A v \in Versions : HonestPair(v)'
BY DEF HonestPair, Readable

\* A step of the session outside the tasks.
LEMMA SessionHonest ==
  ASSUME HonestInv, Session
  PROVE  HonestInv'
<1>1. TypeInv /\ TypeOK /\ TypeInv'
  BY SessionType DEF HonestInv, TypeInv
<1>2. NoFile \notin Sidecar
  BY FileStatesAssumption
<1>3. NoWriteErrors'
  BY <1>1 DEF HonestInv, NoWriteErrors, Session, Prepare, Join, Finalize, Resume,
     WipePart, WipeSide, CreatePart, SaveFresh, JoinFailed, JoinDone,
     FinalizeRename, FinalizeLink, FinalizeRef, RemoveSidecar, SpawnTasks,
     DropTasks, stream
<1>4. CASE Resume
  <2>1. /\ pc = "prepare" /\ pc' = "run" /\ Readable(ver)
        /\ side[ver].conns = conns /\ part[ver] # NoFile
        /\ UNCHANGED <<part, side, tmp, ver, conns>>
        /\ mem' = side[ver].done /\ cur' = mem' /\ land' = mem'
        /\ \A i \in Slots : st'[i] \in {"attempt", "off"}
    BY <1>4 DEF Resume, Resumable, SpawnTasks, disk
  <2>2. \A v \in Versions : HonestPair(v)
    BY <2>1 DEF HonestInv, FilesHonest
  <2>3. side[ver].done \in [Slots -> Nat] /\ side[ver] \in Sidecar
    BY <2>1 DEF Readable, Sidecar
  <2>4. /\ Chunks' = Chunks /\ Chunks \subseteq Slots
        /\ \A j \in Slots : Start(j)' = Start(j) /\ Length(j)' = Length(j)
    BY <1>1, <2>1, ChunksAreSlots DEF Chunks, Start, Length
  <2>5. \A j \in Chunks :
          /\ side[ver].done[j] <= Length(j)
          /\ \A o \in Start(j) .. Start(j) + side[ver].done[j] - 1 :
               part[ver][o] # Hole
    BY <1>1, <2>1, <2>2 DEF HonestPair, Chunks, Start, Length, TypeOK
  <2>6. Frontier'
    <3>1. \A j \in Chunks : land'[j] <= cur'[j] /\ cur'[j] <= Length(j)
      BY <2>1, <2>3, <2>4, <2>5
    <3> QED BY <2>1, <2>4, <2>5, <3>1 DEF Frontier
  <2>7. SavesBelow'
    <3>1. \A j \in Chunks : side[ver].done[j] <= mem'[j]
      BY <2>1, <2>3, <2>4
    <3> QED BY <2>1, <2>4, <3>1 DEF SavesBelow, Below, Chunks
  <2>8. FilesHonest'
    BY <2>1, <2>2, SameFilesSameHonesty DEF FilesHonest
  <2> QED BY <1>1, <1>3, <2>1, <2>6, <2>7, <2>8 DEF HonestInv, NoSidecarAtCreate
<1>5. CASE SaveFresh
  <2>1. /\ pc = "saveFresh" /\ pc' = "run" /\ UNCHANGED <<part, ver, conns>>
        /\ side' = [side EXCEPT ![ver] = [conns |-> conns, done |-> NoBytes]]
        /\ mem' = NoBytes /\ cur' = NoBytes /\ land' = NoBytes
        /\ \A i \in Slots : st'[i] \in {"attempt", "off"}
    BY <1>5 DEF SaveFresh, SpawnTasks
  <2>2. side'[ver] = [conns |-> conns, done |-> NoBytes]
    BY <1>1, <2>1 DEF TypeOK
  <2>3. /\ Chunks' = Chunks /\ Chunks \subseteq Slots
        /\ \A j \in Slots : Start(j)' = Start(j) /\ Length(j)' = Length(j)
    BY <1>1, <2>1, ChunksAreSlots DEF Chunks, Start, Length
  <2>4. Frontier'
    <3>1. ASSUME NEW j \in Chunks
          PROVE  /\ land'[j] = 0 /\ cur'[j] = 0 /\ Length(j) \in Nat
                 /\ Start(j) .. Start(j) + 0 - 1 = {}
      BY <1>1, <2>1, <2>3, SessionChunkBounds DEF NoBytes
    <3> QED BY <2>1, <2>3, <3>1 DEF Frontier
  <2>5. SavesBelow'
    <3>1. \A j \in Chunks : NoBytes[j] <= NoBytes[j]
      BY <2>3 DEF NoBytes
    <3> QED BY <2>1, <2>2, <2>3, <3>1 DEF SavesBelow, Below, Chunks
  <2>6. FilesHonest'
    <3>1. ASSUME NEW v \in Versions, v # ver PROVE HonestPair(v)'
      <4>1. HonestPair(v)
        BY <2>1 DEF HonestInv, FilesHonest
      <4>2. part'[v] = part[v] /\ side'[v] = side[v]
        BY <1>1, <2>1, <3>1 DEF TypeOK
      <4> QED BY <4>1, <4>2 DEF HonestPair, Readable
    <3> QED BY <2>1, <3>1 DEF FilesHonest
  <2> QED BY <1>1, <1>3, <2>1, <2>4, <2>5, <2>6 DEF HonestInv, NoSidecarAtCreate
<1>6. CASE Join
  <2>1. /\ Quiet /\ pc' \in {"idle", "rename"} /\ UNCHANGED <<part, side>>
    BY <1>6 DEF Join, JoinFailed, JoinDone, TasksEnded, disk
  <2>2. \A v \in Versions : HonestPair(v)'
    BY <2>1, StoppedIsHonest, SameFilesSameHonesty
  <2> QED BY <1>1, <1>3, <2>1, <2>2 DEF HonestInv, Frontier, SavesBelow,
          FilesHonest, NoSidecarAtCreate
<1>7. CASE WipePart \/ WipeSide \/ CreatePart \/ Finalize
  <2>1. pc # "run" /\ pc' # "run" /\ ver' = ver
    BY <1>7 DEF WipePart, WipeSide, CreatePart, Finalize, FinalizeRename,
       FinalizeLink, FinalizeRef, RemoveSidecar
  <2>2. \A v \in Versions : HonestPair(v)
    BY <2>1 DEF HonestInv, FilesHonest
  <2>3. ASSUME NEW v \in Versions
        PROVE  \/ part'[v] = NoFile
               \/ side'[v] = NoFile
               \/ ~Readable(v) /\ side'[v] = side[v]
               \/ part'[v] = part[v] /\ side'[v] = side[v]
    <3>1. CASE WipePart
      BY <1>1, <3>1 DEF WipePart, TypeOK
    <3>2. CASE WipeSide
      BY <1>1, <3>2 DEF WipeSide, TypeOK
    <3>3. CASE CreatePart
      BY <1>1, <3>3 DEF CreatePart, TypeOK, HonestInv, NoSidecarAtCreate
    <3>4. CASE FinalizeRename
      BY <1>1, <3>4 DEF FinalizeRename, TypeOK
    <3>5. CASE FinalizeLink \/ FinalizeRef
      BY <3>5 DEF FinalizeLink, FinalizeRef
    <3>6. CASE RemoveSidecar
      BY <1>1, <3>6 DEF RemoveSidecar, TypeOK
    <3> QED BY <1>7, <3>1, <3>2, <3>3, <3>4, <3>5, <3>6 DEF Finalize
  <2>4. ASSUME NEW v \in Versions PROVE HonestPair(v)'
    <3>1. CASE part'[v] = NoFile \/ side'[v] = NoFile
      BY <1>2, <3>1 DEF HonestPair, Readable
    <3>2. CASE ~Readable(v) /\ side'[v] = side[v]
      BY <3>2 DEF HonestPair, Readable
    <3>3. CASE part'[v] = part[v] /\ side'[v] = side[v]
      BY <2>2, <3>3 DEF HonestPair, Readable
    <3> QED BY <2>3, <3>1, <3>2, <3>3
  <2>5. NoSidecarAtCreate'
    BY <1>1, <1>2, <1>7 DEF WipePart, WipeSide, CreatePart, Finalize,
       FinalizeRename, FinalizeLink, FinalizeRef, RemoveSidecar,
       NoSidecarAtCreate, Readable, TypeOK
  <2> QED BY <1>1, <1>3, <2>1, <2>4, <2>5 DEF HonestInv, Frontier, SavesBelow,
          FilesHonest
<1> QED BY <1>4, <1>5, <1>6, <1>7 DEF Session, Prepare, Join

LEMMA HonestNext ==
  ASSUME NoDataLoss, HonestInv, [Next]_vars
  PROVE  HonestInv'
<1>1. TypeInv /\ TypeInv' /\ TypeOK
  BY TypeNext DEF HonestInv, TypeInv
<1>2. ASSUME NEW i \in Slots, ChunkTask(i) PROVE HonestInv'
  BY <1>1, <1>2, TaskFrontier, TaskSaves, TaskFiles DEF HonestInv
<1>3. ASSUME NEW c \in ConnectionCounts, Begin(c) PROVE HonestInv'
  <2>1. /\ pc = "idle" /\ pc' = "prepare" /\ UNCHANGED <<part, side, werr>>
    BY <1>3 DEF Begin, disk, stream
  <2>2. \A v \in Versions : HonestPair(v)'
    BY <2>1, SameFilesSameHonesty DEF HonestInv, FilesHonest
  <2> QED BY <1>1, <2>1, <2>2 DEF HonestInv, Frontier, SavesBelow, FilesHonest,
          NoWriteErrors, NoSidecarAtCreate
<1>4. CASE Interrupt
  <2>1. /\ Quiet /\ pc' = "idle" /\ UNCHANGED <<part, side>>
        /\ \A i \in Slots : ~werr'[i]
    BY <1>4 DEF Interrupt, NoDataLoss, disk, DropTasks
  <2>2. \A v \in Versions : HonestPair(v)'
    BY <2>1, StoppedIsHonest, SameFilesSameHonesty
  <2> QED BY <1>1, <2>1, <2>2 DEF HonestInv, Frontier, SavesBelow, FilesHonest,
          NoWriteErrors, NoSidecarAtCreate
<1>5. CASE UpstreamMoves \/ UNCHANGED vars
  <2>1. UNCHANGED <<part, side, tmp, pc, ver, conns, mem, st, cur, land, werr, snap>>
    BY <1>5 DEF UpstreamMoves, vars, disk, stream, save
  <2>2. \A v \in Versions : HonestPair(v)' <=> HonestPair(v)
    BY <2>1 DEF HonestPair, Readable
  <2>3. Frontier' /\ NoWriteErrors'
    BY <2>1 DEF HonestInv, Frontier, NoWriteErrors, Chunks, Start, Length
  <2>4. SavesBelow'
    BY <2>1 DEF HonestInv, SavesBelow, Below, Readable
  <2>5. FilesHonest' /\ NoSidecarAtCreate'
    BY <2>1, <2>2 DEF HonestInv, FilesHonest, NoSidecarAtCreate, Readable
  <2> QED BY <1>1, <2>3, <2>4, <2>5 DEF HonestInv
<1> QED BY <1>2, <1>3, <1>4, <1>5, SessionHonest DEF Next

\* Where the file system takes every write, a sidecar never claims a byte the
\* partial file does not have, however the sessions ended: with any number of
\* retries, short responses, refused or overlapping sidecar saves, connection
\* counts that change, a revision that moves.
THEOREM SidecarIsHonest ==
  ASSUME NoDataLoss
  PROVE  Spec => []SidecarHonest
<1>1. HonestInv => SidecarHonest
  BY DEF HonestInv, FilesHonest, SidecarHonest
<1>2. HonestInv /\ [Next]_vars => HonestInv'
  BY HonestNext
<1> QED BY <1>1, <1>2, HonestInit, PTL DEF Spec
-----------------------------------------------------------------------------
(***************************************************************************)
(* The download implements PublishedFile, and every blob it publishes is   *)
(* whole: under the assumptions of SidecarIsHonest, and where a response   *)
(* carries the contents the probe saw, all of what was asked for or an     *)
(* error.  ChunkedDownload's runs show what happens otherwise.             *)
(***************************************************************************)

NoForeignBytes == Faults \cap {"shortBody", "upstreamMove"} = {}

SessionIsCurrent == pc # "idle" => ver = upstream

\* Where bytes may still come from, they are the session's version.
ServedIsVersion ==
  pc = "run" => \A j \in Slots :
    \/ st[j] \in {"stream", "open", "write", "rename"}
    \/ land[j] # cur[j]
    => served[j] = ver

\* A task that has ended, or is at its final checkpoint, has all its bytes.
DoneIsComplete ==
  pc = "run" => \A j \in Chunks :
    st[j] = "done" \/ (fin[j] /\ st[j] \in {"open", "write", "rename"})
      => mem[j] >= Length(j)

\* Each step of the publication finds the one before it made.
InOrder ==
  /\ pc = "rename" => part[ver] = CompleteFile(ver)
  /\ pc = "link" => blob[ver] = CompleteFile(ver)
  /\ pc = "ref" => pointer[ver]
  /\ \A v \in Versions : pointer[v] => blob[v] = CompleteFile(v)
  /\ ref # NoFile => pointer[ref]

BlobInv ==
  /\ HonestInv
  /\ SessionIsCurrent
  /\ ServedIsVersion
  /\ DoneIsComplete
  /\ PartialMatchesEtag
  /\ BlobIntact
  /\ InOrder

LEMMA BlobInit == Init => BlobInv
<1> SUFFICES ASSUME Init PROVE BlobInv
  OBVIOUS
<1> QED BY HonestInit DEF Init, BlobInv, SessionIsCurrent, ServedIsVersion,
           DoneIsComplete, PartialMatchesEtag, BlobIntact, InOrder

\* While responses carry the session's version, they can carry all of a chunk.
LEMMA AvailableIsAll ==
  ASSUME TypeOK, NEW j \in Chunks, served[j] = ver
  PROVE  Available(j) = Length(j)
<1>1. /\ Start(j) \in Nat /\ Length(j) \in Nat
      /\ Start(j) + Length(j) <= SizeOf[ver] /\ SizeOf[ver] \in Nat
  BY SessionChunkBounds, ChunksAreSlots DEF TypeOK
<1> QED BY <1>1 DEF Available

\* When every task is done and every write has ended, the partial file is the
\* file.
LEMMA AllDoneIsComplete ==
  ASSUME BlobInv, JoinDone
  PROVE  part[ver] = CompleteFile(ver)
<1>1. TypeOK /\ pc = "run" /\ Quiet /\ part[ver] \in PartFiles(ver)
  BY DEF BlobInv, HonestInv, TypeInv, TasksInRun, JoinDone, TasksEnded
<1>2. ver \in Versions /\ SizeOf[ver] \in Nat /\ conns \in Nat \ {0}
      /\ conns <= SizeOf[ver] /\ Chunks \subseteq Slots
  BY <1>1, ChunksAreSlots DEF TypeOK
<1>3. ASSUME NEW o \in Offsets(ver) PROVE part[ver][o] = ver
  <2>1. PICK j \in Chunks : o \in ChunkBytes(SizeOf[ver], conns, j)
    BY <1>2, ChunksCover DEF Offsets, Chunks
  <2>2. o \in Start(j) .. Start(j) + Length(j) - 1
    <3>1. /\ Start(j) \in Nat /\ Length(j) \in Nat
          /\ Start(j) + Length(j) - 1 = ChunkEnd(SizeOf[ver], conns, j)
      <4>1. Start(j) \in Nat /\ Length(j) \in Nat
        BY <1>1, SessionChunkBounds
      <4>2. ChunkEnd(SizeOf[ver], conns, j) \in Int
        BY <1>2 DEF ChunkEnd, Chunks
      <4> QED BY <4>1, <4>2 DEF Start, Length, ChunkLength
    <3> QED BY <2>1, <3>1 DEF ChunkBytes, Start
  <2>3. mem[j] >= Length(j)
    BY <1>1 DEF BlobInv, DoneIsComplete, JoinDone
  <2>4. /\ mem[j] <= cur[j] /\ land[j] = cur[j] /\ cur[j] <= Length(j)
        /\ \A p \in Start(j) .. Start(j) + land[j] - 1 : part[ver][p] # Hole
    BY <1>1, <1>2 DEF BlobInv, HonestInv, TypeInv, MemBelowCur, Frontier, Quiet,
       Landed, NoWriteErrors
  <2>5. /\ mem[j] \in Nat /\ cur[j] \in Nat /\ land[j] \in Nat
        /\ Length(j) \in Nat
    BY <1>1, <1>2, SessionChunkBounds DEF TypeOK
  <2>6. land[j] = Length(j)
    BY <2>3, <2>4, <2>5
  <2>7. part[ver][o] # Hole
    BY <2>2, <2>4, <2>6
  <2>8. part[ver] # NoFile
    BY <1>1, <1>2, FileStatesAssumption
  <2> QED BY <1>2, <2>7, <2>8 DEF BlobInv, PartialMatchesEtag
<1> QED BY <1>1, <1>3 DEF PartFiles, CompleteFile

LEMMA TaskServed ==
  ASSUME BlobInv, NEW i \in Slots, ChunkTask(i)
  PROVE  ServedIsVersion'
<1>1. /\ TypeOK /\ pc = "run" /\ pc' = "run" /\ ver' = ver
      /\ upstream = ver /\ \A j \in Slots : ~werr[j]
  BY TaskInRun DEF BlobInv, HonestInv, NoWriteErrors, TypeInv, SessionIsCurrent
<1>2. ASSUME NEW j \in Slots,
             \/ st[j] \in {"stream", "open", "write", "rename"}
             \/ land[j] # cur[j]
      PROVE  served[j] = ver
  BY <1>1, <1>2 DEF BlobInv, ServedIsVersion
<1>3. SUFFICES ASSUME NEW j \in Slots,
                      \/ st'[j] \in {"stream", "open", "write", "rename"}
                      \/ land'[j] # cur'[j]
               PROVE  served'[j] = ver
  BY <1>1 DEF ServedIsVersion
<1>4. CASE Request(i)
  <2>1. CASE j = i
    BY <1>1, <1>4, <2>1 DEF Request, TypeOK
  <2>2. CASE j # i
    BY <1>1, <1>2, <1>3, <1>4, <2>2 DEF Request, TypeOK
  <2> QED BY <2>1, <2>2
<1>5. CASE UNCHANGED served /\ (st[j] = "stream" \/ UNCHANGED <<st, land, cur>>)
  BY <1>2, <1>3, <1>5
<1>6. ASSUME UNCHANGED served,
             \/ st'[j] \notin {"stream", "open", "write", "rename"}
             \/ st[j] \in {"stream", "open", "write", "rename"},
             land'[j] = cur'[j] \/ (land'[j] = land[j] /\ cur'[j] = cur[j])
      PROVE  served'[j] = ver
  BY <1>2, <1>3, <1>6
<1>7. CASE AlreadyComplete(i) \/ RequestFails(i) \/ StreamFails(i)
           \/ OpenFails(i) \/ WriteErrorSurfaces(i)
  <2>1. UNCHANGED <<served, land, cur>>
    BY <1>7 DEF AlreadyComplete, RequestFails, StreamFails, OpenFails, WriteErrorSurfaces,
       retry, stream
  <2>2. \E where \in {"attempt", "done", "failed"} :
          st' = [st EXCEPT ![i] = where]
    BY <1>7 DEF AlreadyComplete, RequestFails, StreamFails, OpenFails, WriteErrorSurfaces,
       RetryOrGiveUp
  <2> QED BY <1>1, <1>6, <2>1, <2>2 DEF TypeOK
<1>8. ASSUME NEW n \in 1 .. Length(i), Receive(i, n) PROVE served'[j] = ver
  <2>1. /\ UNCHANGED <<served, land>> /\ st[i] = "stream"
        /\ cur' = [cur EXCEPT ![i] = @ + n]
        /\ UNCHANGED st \/ st' = [st EXCEPT ![i] = "open"]
    BY <1>8 DEF Receive, TakeSnapshot, retry
  <2>2. CASE j = i
    BY <1>2, <2>1, <2>2
  <2>3. CASE j # i
    BY <1>1, <1>6, <2>1, <2>3 DEF TypeOK
  <2> QED BY <2>2, <2>3
<1>9. CASE Land(i)
  BY <1>1, <1>6, <1>9 DEF Land, retry, TypeOK
<1>10. CASE WriteFails(i)
  BY <1>6, <1>10 DEF WriteFails, retry
<1>11. CASE StreamEnds(i)
  <2>1. /\ UNCHANGED <<served, land, cur>> /\ st[i] = "stream"
        /\ st' = [st EXCEPT ![i] = "open"]
    BY <1>11 DEF StreamEnds, TakeSnapshot, retry, stream
  <2> QED BY <1>1, <1>6, <2>1 DEF TypeOK
<1>12. CASE ChunkSave(i)
  <2>1. /\ UNCHANGED <<served, land, cur>>
        /\ st[i] \in {"open", "write", "rename"}
        /\ \A k \in Slots : k # i => st'[k] = st[k]
    BY <1>1, <1>12 DEF ChunkSave, SaveOpen, SaveWrite, SaveRename, SaveFails,
       retry, stream, TypeOK
  <2> QED BY <1>1, <1>6, <2>1 DEF TypeOK
<1> QED BY <1>4, <1>7, <1>8, <1>9, <1>10, <1>11, <1>12
        DEF ChunkTask, ChunkNetwork, ChunkFile

LEMMA TaskDone ==
  ASSUME NoForeignBytes, BlobInv, NEW i \in Slots, ChunkTask(i)
  PROVE  DoneIsComplete'
<1>1. /\ TypeOK /\ TypeInv /\ TypeInv'
      /\ pc = "run" /\ pc' = "run" /\ ver' = ver /\ conns' = conns
  BY TaskInRun, TaskType DEF BlobInv, HonestInv, TypeInv
<1>2. /\ Chunks' = Chunks /\ Chunks \subseteq Slots
      /\ \A j \in Slots : Length(j)' = Length(j)
      /\ \A j \in Chunks : Length(j) \in Nat
  BY <1>1, ChunksAreSlots, SessionChunkBounds DEF Chunks, Length
<1>3. \A j \in Slots : mem[j] \in Nat /\ mem'[j] \in Nat /\ mem[j] <= mem'[j]
  BY <1>1, MemGrows DEF TypeInv, TypeOK
<1>4. SUFFICES ASSUME NEW j \in Chunks,
                      \/ st'[j] = "done"
                      \/ fin'[j] /\ st'[j] \in {"open", "write", "rename"}
               PROVE  mem'[j] >= Length(j)
  BY <1>1, <1>2 DEF DoneIsComplete
<1>5. \/ st[j] = "done"
      \/ fin[j] /\ st[j] \in {"open", "write", "rename"}
      => mem'[j] >= Length(j)
  <2>1. SUFFICES ASSUME \/ st[j] = "done"
                        \/ fin[j] /\ st[j] \in {"open", "write", "rename"}
                 PROVE  mem'[j] >= Length(j)
    OBVIOUS
  <2>2. mem[j] >= Length(j)
    BY <1>1, <2>1 DEF BlobInv, DoneIsComplete
  <2> QED BY <1>2, <1>3, <2>2
<1>6. CASE j # i
  <2>1. st'[j] = st[j] /\ fin'[j] = fin[j]
    BY <1>1, <1>2, <1>6 DEF TypeOK, ChunkTask, ChunkNetwork, ChunkFile, ChunkSave,
       AlreadyComplete, Request, RequestFails, Receive, StreamFails, StreamEnds,
       Land, WriteFails, OpenFails, WriteErrorSurfaces, SaveOpen, SaveWrite, SaveRename,
       SaveFails, RetryOrGiveUp, TakeSnapshot, save
  <2> QED BY <1>4, <1>5, <2>1
<1>7. CASE j = i
  <2>1. CASE AlreadyComplete(i)
    BY <1>2, <1>3, <1>7, <2>1 DEF AlreadyComplete
  <2>2. CASE \/ Request(i) \/ RequestFails(i) \/ StreamFails(i)
             \/ OpenFails(i) \/ WriteErrorSurfaces(i)
    <3>1. \E where \in {"attempt", "stream", "failed"} :
            st' = [st EXCEPT ![i] = where]
      BY <2>2 DEF Request, RequestFails, StreamFails, OpenFails, WriteErrorSurfaces,
         RetryOrGiveUp
    <3> QED BY <1>1, <1>4, <1>7, <3>1 DEF TypeOK
  <2>3. ASSUME NEW n \in 1 .. Length(i), Receive(i, n) PROVE mem'[j] >= Length(j)
    <3>1. st[i] = "stream"
      BY <2>3 DEF Receive
    <3>2. UNCHANGED st \/ (st'[i] = "open" /\ fin'[i] = FALSE)
      BY <1>1, <2>3 DEF Receive, TakeSnapshot, TypeOK
    <3> QED BY <1>4, <1>7, <3>1, <3>2
  <2>4. CASE StreamEnds(i)
    <3>1. served[i] = ver
      BY <1>1, <2>4 DEF StreamEnds, BlobInv, ServedIsVersion
    <3>2. cur[i] = Available(i)
      BY <2>4 DEF StreamEnds, NoForeignBytes
    <3>3. Available(i) = Length(i)
      BY <1>1, <1>7, <3>1, AvailableIsAll
    <3>4. mem'[i] = cur[i]
      BY <1>1, <2>4 DEF StreamEnds, TakeSnapshot, TypeOK
    <3> QED BY <1>2, <1>7, <3>2, <3>3, <3>4
  <2>5. CASE Land(i) \/ WriteFails(i)
    BY <1>4, <1>5, <2>5 DEF Land, WriteFails, save
  <2>6. CASE ChunkSave(i)
    <3>1. /\ st[i] \in {"open", "write", "rename"} /\ UNCHANGED fin
          /\ st'[i] = "done" => fin[i]
      BY <1>1, <2>6 DEF ChunkSave, SaveOpen, SaveWrite, SaveRename, SaveFails,
         AfterSave, TypeOK
    <3> QED BY <1>4, <1>5, <1>7, <3>1
  <2> QED BY <2>1, <2>2, <2>3, <2>4, <2>5, <2>6
          DEF ChunkTask, ChunkNetwork, ChunkFile
<1> QED BY <1>6, <1>7

LEMMA TaskBytes ==
  ASSUME BlobInv, NEW i \in Slots, ChunkTask(i)
  PROVE  /\ PartialMatchesEtag'
         /\ UNCHANGED <<blob, pointer, ref, upstream>>
<1>1. TypeOK /\ TypeInv /\ pc = "run"
  BY TaskInRun DEF BlobInv, HonestInv, TypeInv
<1>2. UNCHANGED <<blob, pointer, ref, upstream>>
  BY DEF ChunkTask, ChunkNetwork, ChunkFile, ChunkSave, AlreadyComplete, Request,
     RequestFails, Receive, StreamFails, StreamEnds, Land, WriteFails,
     OpenFails, WriteErrorSurfaces, SaveOpen, SaveWrite, SaveRename, SaveFails, disk
<1>3. CASE UNCHANGED part
  BY <1>2, <1>3 DEF BlobInv, PartialMatchesEtag, Offsets
<1>4. CASE Land(i)
  <2> DEFINE written == Start(i) + land[i] .. Start(i) + cur[i] - 1
             new == [o \in Offsets(ver) |-> IF o \in written THEN served[i]
                                            ELSE part[ver][o]]
  <2>1. part' = [part EXCEPT ![ver] = new]
    BY <1>4 DEF Land
  <2>2. served[i] = ver
    BY <1>1, <1>4 DEF Land, Landed, BlobInv, ServedIsVersion
  <2>3. part[ver] # NoFile
    BY <1>1, FileStatesAssumption DEF TypeInv, TasksInRun, TypeOK
  <2>4. \A o \in Offsets(ver) : new[o] \in {Hole, ver}
    BY <1>1, <2>2, <2>3 DEF BlobInv, PartialMatchesEtag, TypeOK
  <2>5. ASSUME NEW v \in Versions, part'[v] # NoFile
        PROVE  \A o \in Offsets(v) : part'[v][o] \in {Hole, v}
    <3>1. CASE v = ver
      <4>1. part'[ver] = new
        BY <1>1, <2>1 DEF TypeOK
      <4> QED BY <2>4, <3>1, <4>1
    <3>2. CASE v # ver
      <4>1. part'[v] = part[v]
        BY <1>1, <2>1, <3>2 DEF TypeOK
      <4> QED BY <2>5, <4>1 DEF BlobInv, PartialMatchesEtag
    <3> QED BY <3>1, <3>2
  <2> QED BY <1>2, <2>5 DEF PartialMatchesEtag
<1>5. UNCHANGED part \/ Land(i)
  BY DEF ChunkTask, ChunkNetwork, ChunkFile, ChunkSave, AlreadyComplete, Request,
     RequestFails, Receive, StreamFails, StreamEnds, WriteFails,
     OpenFails, WriteErrorSurfaces, SaveOpen, SaveWrite, SaveRename, SaveFails, disk
<1> QED BY <1>2, <1>3, <1>4, <1>5

\* A step of the session outside the tasks.
LEMMA SessionPublishes ==
  ASSUME BlobInv, Session
  PROVE  /\ SessionIsCurrent' /\ ServedIsVersion' /\ DoneIsComplete'
         /\ PartialMatchesEtag' /\ BlobIntact' /\ InOrder'
<1>1. /\ TypeOK /\ TypeInv
      /\ NoFile \notin Versions
      /\ \A v \in Versions : NoFile # CompleteFile(v)
  BY FileStatesAssumption, FileShapes DEF BlobInv, HonestInv, TypeInv
<1>2. pc # "idle" /\ ver = upstream /\ UNCHANGED <<ver, upstream>>
  BY DEF BlobInv, SessionIsCurrent, Session, Prepare, Join, Finalize, Resume,
     WipePart, WipeSide, CreatePart, SaveFresh, JoinFailed, JoinDone, TasksEnded,
     FinalizeRename, FinalizeLink, FinalizeRef, RemoveSidecar
<1>3. SessionIsCurrent'
  BY <1>2 DEF SessionIsCurrent
<1>4. ServedIsVersion' /\ DoneIsComplete'
  <2>1. CASE Resume \/ SaveFresh
    <3>1. \A j \in Slots : st'[j] \in {"attempt", "off"} /\ land'[j] = cur'[j]
      BY <2>1 DEF Resume, SaveFresh, SpawnTasks
    <3>2. Chunks' \subseteq Slots
      BY <1>1, <2>1, ChunksAreSlots DEF Resume, SaveFresh, Chunks
    <3> QED BY <3>1, <3>2 DEF ServedIsVersion, DoneIsComplete
  <2>2. CASE ~(Resume \/ SaveFresh)
    <3>1. pc' # "run"
      BY <2>2 DEF Session, Prepare, Join, Finalize, WipePart, WipeSide,
         CreatePart, JoinFailed, JoinDone, FinalizeRename, FinalizeLink,
         FinalizeRef, RemoveSidecar
    <3> QED BY <3>1 DEF ServedIsVersion, DoneIsComplete
  <2> QED BY <2>1, <2>2
<1>5. PartialMatchesEtag'
  <2>1. ASSUME NEW v \in Versions
        PROVE  part'[v] \in {part[v], NoFile, HoleyFile(v)}
    BY <1>1 DEF TypeOK, Session, Prepare, Join, Finalize, Resume, WipePart,
       WipeSide, CreatePart, SaveFresh, JoinFailed, JoinDone, FinalizeRename,
       FinalizeLink, FinalizeRef, RemoveSidecar, disk
  <2>2. \A v \in Versions : \A o \in Offsets(v) : HoleyFile(v)[o] = Hole
    BY DEF HoleyFile
  <2> QED BY <2>1, <2>2 DEF BlobInv, PartialMatchesEtag
<1>6. BlobIntact' /\ InOrder'
  <2>1. CASE Prepare \/ JoinFailed
    <3>1. /\ UNCHANGED <<blob, pointer, ref>>
          /\ pc' \notin {"rename", "link", "ref"}
      BY <2>1 DEF Prepare, Resume, WipePart, WipeSide, CreatePart, SaveFresh,
         JoinFailed, disk
    <3> QED BY <3>1 DEF BlobInv, BlobIntact, InOrder
  <2>2. CASE JoinDone
    <3>1. UNCHANGED <<part, blob, pointer, ref, ver>> /\ pc' = "rename"
      BY <2>2 DEF JoinDone, disk
    <3>2. part[ver] = CompleteFile(ver)
      BY <2>2, AllDoneIsComplete
    <3> QED BY <3>1, <3>2 DEF BlobInv, BlobIntact, InOrder, CompleteFile, Offsets
  <2>3. CASE FinalizeRename
    <3>1. /\ blob' = [blob EXCEPT ![ver] = CompleteFile(ver)] /\ pc' = "link"
          /\ UNCHANGED <<pointer, ref>>
      BY <2>3 DEF FinalizeRename, BlobInv, InOrder
    <3>2. /\ blob'[ver] = CompleteFile(ver)
          /\ \A v \in Versions : v # ver => blob'[v] = blob[v]
      BY <1>1, <3>1 DEF TypeOK
    <3>3. BlobIntact'
      BY <3>2 DEF BlobInv, BlobIntact, CompleteFile, Offsets
    <3> QED BY <1>2, <3>1, <3>2, <3>3 DEF BlobInv, InOrder, CompleteFile, Offsets
  <2>4. CASE FinalizeLink
    <3>1. /\ blob[ver] = CompleteFile(ver) /\ pc' = "ref"
          /\ pointer' = [pointer EXCEPT ![ver] = TRUE] /\ UNCHANGED <<blob, ref>>
      BY <2>4 DEF FinalizeLink, BlobInv, InOrder
    <3>2. /\ pointer'[ver] = TRUE
          /\ \A v \in Versions : v # ver => pointer'[v] = pointer[v]
      BY <1>1, <3>1 DEF TypeOK
    <3>3. BlobIntact'
      BY <3>1 DEF BlobInv, BlobIntact, CompleteFile, Offsets
    <3>4. \A v \in Versions : pointer'[v] => blob[v] = CompleteFile(v)
      BY <3>1, <3>2 DEF BlobInv, InOrder
    <3>5. ref # NoFile => pointer'[ref]
      BY <1>1, <3>2 DEF BlobInv, InOrder, TypeOK
    <3> QED BY <1>2, <3>1, <3>2, <3>3, <3>4, <3>5
            DEF InOrder, CompleteFile, Offsets
  <2>5. CASE FinalizeRef \/ RemoveSidecar
    <3>1. /\ UNCHANGED <<blob, pointer>>
          /\ ref' = ref \/ (ref' = ver /\ pointer[ver])
          /\ pc' \in {"cleanup", "idle"}
      BY <2>5 DEF FinalizeRef, RemoveSidecar, BlobInv, InOrder
    <3> QED BY <3>1 DEF BlobInv, BlobIntact, InOrder
  <2> QED BY <2>1, <2>2, <2>3, <2>4, <2>5 DEF Session, Join, Finalize
<1> QED BY <1>3, <1>4, <1>5, <1>6

LEMMA BlobNext ==
  ASSUME NoDataLoss, NoForeignBytes, BlobInv, [Next]_vars
  PROVE  BlobInv'
<1>1. HonestInv' /\ TypeOK
  BY HonestNext DEF BlobInv, HonestInv, TypeInv
<1>2. ASSUME NEW i \in Slots, ChunkTask(i) PROVE BlobInv'
  <2>1. pc = "run" /\ pc' = "run" /\ ver' = ver
    BY <1>2, TaskInRun DEF BlobInv, HonestInv
  <2>2. /\ PartialMatchesEtag' /\ ServedIsVersion' /\ DoneIsComplete'
        /\ UNCHANGED <<blob, pointer, ref, upstream>>
    BY <1>2, TaskBytes, TaskServed, TaskDone
  <2> QED BY <1>1, <2>1, <2>2 DEF BlobInv, SessionIsCurrent, BlobIntact, InOrder
<1>3. CASE Session
  BY <1>1, <1>3, SessionPublishes DEF BlobInv
<1>4. CASE \/ \E c \in ConnectionCounts : Begin(c)
           \/ Interrupt \/ UpstreamMoves
  <2>1. /\ UNCHANGED <<part, blob, pointer, ref>>
        /\ pc' \in {"idle", "prepare"}
        /\ pc' = "prepare" => ver' = upstream /\ upstream' = upstream
    BY <1>4 DEF Begin, Interrupt, UpstreamMoves, NoForeignBytes, disk
  <2> QED BY <1>1, <2>1 DEF BlobInv, SessionIsCurrent, ServedIsVersion,
          DoneIsComplete, PartialMatchesEtag, BlobIntact, InOrder
<1>5. CASE UNCHANGED vars
  <2>1. UNCHANGED <<upstream, part, blob, pointer, ref, pc, ver, conns, mem, st,
                    served, cur, land, fin>>
    BY <1>5 DEF vars, disk, retry, stream, save
  <2>2. ServedIsVersion' /\ DoneIsComplete' /\ SessionIsCurrent'
    BY <2>1 DEF BlobInv, ServedIsVersion, DoneIsComplete, SessionIsCurrent,
       Chunks, Length
  <2>3. PartialMatchesEtag' /\ BlobIntact' /\ InOrder'
    BY <2>1 DEF BlobInv, PartialMatchesEtag, BlobIntact, InOrder, CompleteFile,
       Offsets
  <2> QED BY <1>1, <2>2, <2>3 DEF BlobInv
<1> QED BY <1>2, <1>3, <1>4, <1>5 DEF Next

\* Every blob holds exactly the contents its etag names, whatever sequence of
\* interrupted, failed and resumed sessions wrote it.
THEOREM BlobsAreIntact ==
  ASSUME NoDataLoss, NoForeignBytes
  PROVE  Spec => []BlobIntact
<1>1. BlobInv => BlobIntact
  BY DEF BlobInv
<1>2. BlobInv /\ [Next]_vars => BlobInv'
  BY BlobNext
<1> QED BY <1>1, <1>2, BlobInit, PTL DEF Spec
-----------------------------------------------------------------------------
(* The refinement of PublishedFile.                                         *)

\* The refinement mapping, named.
blobView ==
  [v \in Versions |-> IF blob[v] = NoFile THEN "absent"
                      ELSE IF blob[v] = CompleteFile(v) THEN "complete"
                      ELSE "corrupt"]

\* A step the cache's readers can see is a step of PublishedFile.
LEMMA StepPublishes ==
  ASSUME NoDataLoss, NoForeignBytes, BlobInv, [Next]_vars
  PROVE  [Published!Next]_(Published!view)
<1>1. /\ TypeOK
      /\ \A v \in Versions : NoFile # CompleteFile(v)
  BY FileStatesAssumption, FileShapes DEF BlobInv, HonestInv, TypeInv
<1>2. CASE UNCHANGED <<blob, pointer, ref>>
  BY <1>2 DEF Published!view, CompleteFile, Offsets
<1>3. CASE FinalizeRename
  <2>1. /\ blob' = [blob EXCEPT ![ver] = CompleteFile(ver)]
        /\ UNCHANGED <<pointer, ref>> /\ ver \in Versions
    BY <1>1, <1>3 DEF FinalizeRename, BlobInv, InOrder, TypeOK
  <2>2. \A v \in Versions :
          blob'[v] = IF v = ver THEN CompleteFile(v) ELSE blob[v]
    BY <1>1, <2>1 DEF TypeOK
  <2>3. blobView' = [blobView EXCEPT ![ver] = "complete"]
    BY <1>1, <2>2 DEF blobView, CompleteFile, Offsets
  <2> QED BY <2>1, <2>3 DEF Published!Next, Published!PublishBlob, blobView
<1>4. CASE FinalizeLink
  <2>1. /\ blob[ver] = CompleteFile(ver) /\ ver \in Versions
        /\ pointer' = [pointer EXCEPT ![ver] = TRUE] /\ UNCHANGED <<blob, ref>>
    BY <1>1, <1>4 DEF FinalizeLink, BlobInv, InOrder, TypeOK
  <2>2. blobView[ver] = "complete" /\ blobView' = blobView
    BY <1>1, <2>1 DEF blobView, CompleteFile, Offsets
  <2> QED BY <2>1, <2>2 DEF Published!Next, Published!PublishPointer, blobView
<1>5. CASE FinalizeRef
  <2>1. /\ pointer[ver] /\ ver \in Versions
        /\ ref' = ver /\ UNCHANGED <<blob, pointer>>
    BY <1>1, <1>5 DEF FinalizeRef, BlobInv, InOrder, TypeOK
  <2>2. blobView' = blobView
    BY <2>1 DEF blobView, CompleteFile, Offsets
  <2> QED BY <2>1, <2>2 DEF Published!Next, Published!PublishRef, blobView
<1>6. \/ UNCHANGED <<blob, pointer, ref>>
      \/ FinalizeRename \/ FinalizeLink \/ FinalizeRef
  <2>1. ASSUME NEW i \in Slots, ChunkTask(i) PROVE UNCHANGED <<blob, pointer, ref>>
    BY <2>1, TaskBytes
  <2>2. CASE \/ \E c \in ConnectionCounts : Begin(c)
             \/ Prepare \/ Join \/ RemoveSidecar \/ Interrupt \/ UpstreamMoves
             \/ UNCHANGED vars
    BY <2>2 DEF Begin, Prepare, Join, Resume, WipePart, WipeSide, CreatePart,
       SaveFresh, JoinFailed, JoinDone, RemoveSidecar, Interrupt, UpstreamMoves,
       vars, disk
  <2> QED BY <2>1, <2>2 DEF Next, Session, Finalize
<1> QED BY <1>2, <1>3, <1>4, <1>5, <1>6

\* To its readers the cache shows what PublishedFile allows and nothing else: a
\* blob appears whole, then the pointer to it, then the ref to that pointer's
\* commit, across crashes and resumes.
THEOREM DownloadImplementsPublishedFile ==
  ASSUME NoDataLoss, NoForeignBytes
  PROVE  Spec => PublishesInOrder
<1>1. Init => Published!Init
  BY DEF Init, Published!Init
<1>2. BlobInv /\ [Next]_vars => BlobInv'
  BY BlobNext
<1>3. BlobInv /\ [Next]_vars => [Published!Next]_(Published!view)
  BY StepPublishes
<1> QED BY <1>1, <1>2, <1>3, BlobInit, PTL
        DEF Spec, PublishesInOrder, Published!Spec
=============================================================================
