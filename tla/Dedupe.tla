-------------------------------- MODULE Dedupe --------------------------------
(***************************************************************************)
(* Deduplication of one repository's snapshot files (src/cache/dedupe.rs), *)
(* on a volume where pointers are copies of their blobs or hard links to   *)
(* them: `cache dedupe' runs by several processes, the prevention step of   *)
(* the download path (finish_fetch), and the downloads that rewrite         *)
(* pointers and publish blobs meanwhile.                                    *)
(*                                                                          *)
(* A directory is a function from names to inodes.                          *)
(***************************************************************************)
EXTENDS Integers, FiniteSets

CONSTANTS
  Blobs,        \* names in blobs/
  Pointers,     \* names in snapshots/
  BlobOf,       \* the blob each pointer is of
  Inodes, NoInode,
  Contents,     \* what a file may hold
  Named,        \* the contents a blob's name stands for
  Rotten,       \* what else a blob of that name may hold
  Torn,         \* a file that is being written
  LengthOf,     \* the length of each
  ShaNamed,     \* blobs named by a SHA-256, not by a git hash
  Processes,
  NoName,
  AtOnce        \* bound on the downloads under way at once

ASSUME DedupeAssumption ==
  /\ BlobOf \in [Pointers -> Blobs]
  /\ NoInode \notin Inodes
  /\ Named \in [Blobs -> Contents] /\ Rotten \in [Blobs -> Contents]
  /\ Torn \in Contents
  /\ \A b \in Blobs : Torn # Named[b] /\ Rotten[b] # Named[b]
  /\ NoName \notin Blobs \cup Pointers
  /\ AtOnce \in Nat

\* `<name>.hf-fm-link.<pid>.tmp'
Temps == Pointers \X Processes
Names == Blobs \cup Pointers \cup Temps

ASSUME NamesAreDistinct ==
  /\ Blobs \cap Pointers = {} /\ Blobs \cap Temps = {} /\ Pointers \cap Temps = {}

ASSUME NamesAreFinite ==
  IsFiniteSet(Blobs) /\ IsFiniteSet(Pointers) /\ IsFiniteSet(Processes)

VARIABLES
  ino, data,             \* the files
  partial, locked,       \* a partial download; a download lock
  pc,                    \* where each process is
  plan, leftovers,       \* what it has yet to look at
  copy, seen,            \* the candidate's name, and the inode it had
  tries, blob,           \* the blobs to compare with, and the equal one
  frees,                 \* whether replacing the copy frees its bytes
  crashed,               \* history: temporary links of interrupted runs
  hub, chunked           \* the downloads: what they are doing, and to what

files == <<ino, data>>
work == <<plan, leftovers, copy, seen, tries, blob, frees>>
downloads == <<partial, locked, hub, chunked>>
vars == <<files, pc, work, crashed, downloads>>

Idle == [at |-> "idle", name |-> NoName, file |-> NoInode]

Exists(n) == ino[n] # NoInode
Reads(n) == data[ino[n]]
LinksTo(x) == {n \in Names : ino[n] = x}
IsBlob(x) == \E b \in Blobs : ino[b] = x
Free == {x \in Inodes : LinksTo(x) = {} /\ x \notin {hub.file} \cup {seen[d] : d \in Processes}}

Candidates == [copy : Pointers, blobs : SUBSET Blobs]
Phases == {"idle", "sweeping", "choosing", "comparing", "linking", "staging",
           "renaming", "tidying"}

Init ==
  /\ \E file \in [Blobs \cup Pointers -> Inodes \cup {NoInode}] :
       ino = [n \in Names |-> IF n \in Temps THEN NoInode ELSE file[n]]
  /\ data \in [Inodes -> Contents]
  /\ \A b, c \in Blobs : b # c => ino[b] # ino[c]
  /\ \A b \in Blobs : Exists(b) => Reads(b) \in {Named[b], Rotten[b]}
  /\ \A p \in Pointers : Exists(p) =>
       /\ Reads(p) \in {Named[BlobOf[p]], Rotten[BlobOf[p]], Torn}
       /\ IsBlob(ino[p]) => ino[p] = ino[BlobOf[p]]
  /\ \A x \in Inodes : LinksTo(x) = {} => data[x] = Torn
  /\ partial = FALSE /\ locked = FALSE
  /\ pc = [d \in Processes |-> "idle"]
  /\ plan = [d \in Processes |-> {}]
  /\ leftovers = [d \in Processes |-> {}]
  /\ copy = [d \in Processes |-> NoName]
  /\ seen = [d \in Processes |-> NoInode]
  /\ tries = [d \in Processes |-> {}]
  /\ blob = [d \in Processes |-> NoName]
  /\ frees = [d \in Processes |-> FALSE]
  /\ crashed = {}
  /\ hub = Idle /\ chunked = Idle

Goto(d, phase) == pc' = [pc EXCEPT ![d] = phase]
-----------------------------------------------------------------------------
(* Plan and candidates.                                                     *)

\* What download_in_progress sees.
InProgress == partial \/ locked

\* plan_in: a pointer that is no other name of a blob, beside a blob of its
\* length.
PlannedBlobs(p) == {b \in Blobs : Exists(b) /\ LengthOf[Reads(b)] = LengthOf[Reads(p)]}

PlanDedupe(d) ==
  /\ pc[d] = "idle" /\ ~InProgress
  /\ plan' = [plan EXCEPT ![d] =
       {[copy |-> p, blobs |-> PlannedBlobs(p)] : p \in
          {q \in Pointers : /\ Exists(q)
                            /\ PlannedBlobs(q) # {}
                            /\ \A b \in PlannedBlobs(q) : ino[b] # ino[q]}}]
  /\ leftovers' = [leftovers EXCEPT ![d] = {t \in Temps : Exists(t) /\ IsBlob(ino[t])}]
  /\ Goto(d, "sweeping")
  /\ UNCHANGED <<files, copy, seen, tries, blob, frees, crashed, downloads>>

\* apply_dedupe removes what an interrupted run left, if it still is a link
\* to a blob.
Sweep(d, t) ==
  /\ pc[d] = "sweeping" /\ t \in leftovers[d]
  /\ leftovers' = [leftovers EXCEPT ![d] = @ \ {t}]
  /\ IF Exists(t) /\ IsBlob(ino[t])
     THEN ino' = [ino EXCEPT ![t] = NoInode] /\ crashed' = crashed \ {t}
     ELSE UNCHANGED <<ino, crashed>>
  /\ UNCHANGED <<data, pc, plan, copy, seen, tries, blob, frees, downloads>>

\* A download in progress leaves the leftovers for another run.
SweepEnds(d) ==
  /\ pc[d] = "sweeping"
  /\ leftovers[d] = {} \/ InProgress
  /\ leftovers' = [leftovers EXCEPT ![d] = {}]
  /\ Goto(d, "choosing")
  /\ UNCHANGED <<files, plan, copy, seen, tries, blob, frees, crashed, downloads>>

\* The candidate is done with, whatever became of it.
NextCandidate(d) ==
  /\ Goto(d, "choosing")
  /\ copy' = [copy EXCEPT ![d] = NoName]
  /\ seen' = [seen EXCEPT ![d] = NoInode]
  /\ tries' = [tries EXCEPT ![d] = {}]
  /\ blob' = [blob EXCEPT ![d] = NoName]
  /\ frees' = [frees EXCEPT ![d] = FALSE]

\* A download in progress: the candidate is skipped.  A lock that another
\* process is only testing looks held.
SkipInProgress(d, c) ==
  /\ pc[d] = "choosing" /\ c \in plan[d]
  /\ InProgress \/ \E e \in Processes \ {d} : pc[e] = "choosing"
  /\ plan' = [plan EXCEPT ![d] = @ \ {c}]
  /\ UNCHANGED <<files, pc, leftovers, copy, seen, tries, blob, frees, crashed, downloads>>

\* The checks of dedupe_one before anything is read: the blobs that are still
\* of the copy's length, none of them the copy itself.
StillOfItsLength(c) ==
  {b \in c.blobs : Exists(b) /\ LengthOf[Reads(b)] = LengthOf[Reads(c.copy)]}

\* Seeded bug: a name the copy still has elsewhere is not looked for.
AnyName(p) == TRUE

\* Whether the copy's bytes go with this name of it.
LastName(p) == Cardinality(LinksTo(ino[p])) <= 1

Choose(d, c) ==
  LET p == c.copy IN
  /\ pc[d] = "choosing" /\ c \in plan[d] /\ ~InProgress
  /\ plan' = [plan EXCEPT ![d] = @ \ {c}]
  /\ IF Exists(p) /\ \A b \in StillOfItsLength(c) : ino[b] # ino[p]
     THEN /\ copy' = [copy EXCEPT ![d] = p]
          /\ seen' = [seen EXCEPT ![d] = ino[p]]
          /\ tries' = [tries EXCEPT ![d] = StillOfItsLength(c)]
          /\ frees' = [frees EXCEPT ![d] = LastName(p)]
          /\ Goto(d, "comparing")
          /\ UNCHANGED blob
     ELSE UNCHANGED <<pc, copy, seen, tries, blob, frees>>
  /\ UNCHANGED <<files, leftovers, crashed, downloads>>

\* files_equal.  With --verify, equal bytes that do not hash to the blob's
\* name are left alone.
Confirmed(d, b, verify) == verify /\ b \in ShaNamed => Reads(copy[d]) = Named[b]

\* Seeded bug: the lengths are taken for the contents.
CompareByLength(d, b, verify) ==
  /\ pc[d] = "comparing" /\ b \in tries[d]
  /\ Exists(copy[d]) /\ Exists(b)
  /\ blob' = [blob EXCEPT ![d] = b]
  /\ tries' = [tries EXCEPT ![d] = {}]
  /\ Goto(d, "linking")
  /\ UNCHANGED <<copy, seen, frees>>
  /\ UNCHANGED <<files, plan, leftovers, crashed, downloads>>

CompareEqual(d, b, verify) ==
  /\ pc[d] = "comparing" /\ b \in tries[d]
  /\ Exists(copy[d]) /\ Exists(b) /\ Reads(copy[d]) = Reads(b)
  /\ IF Confirmed(d, b, verify)
     THEN /\ blob' = [blob EXCEPT ![d] = b]
          /\ tries' = [tries EXCEPT ![d] = {}]
          /\ Goto(d, "linking")
          /\ UNCHANGED <<copy, seen, frees>>
     ELSE NextCandidate(d)
  /\ UNCHANGED <<files, plan, leftovers, crashed, downloads>>

\* They differ, or one of the two cannot be read: the next blob.
CompareDiffers(d, b) ==
  /\ pc[d] = "comparing" /\ b \in tries[d]
  /\ ~(Exists(copy[d]) /\ Exists(b) /\ Reads(copy[d]) = Reads(b))
  /\ tries' = [tries EXCEPT ![d] = @ \ {b}]
  /\ UNCHANGED <<files, pc, plan, leftovers, copy, seen, blob, frees, crashed, downloads>>

NoneEqual(d) ==
  /\ pc[d] = "comparing" /\ tries[d] = {}
  /\ NextCandidate(d)
  /\ UNCHANGED <<files, plan, leftovers, crashed, downloads>>

DedupeEnds(d) ==
  /\ pc[d] = "choosing" /\ plan[d] = {}
  /\ Goto(d, "idle")
  /\ UNCHANGED <<files, work, crashed, downloads>>

\* finish_fetch: the pointer just fetched and its blob, whatever else is in
\* progress.  What follows is the same.
LinkFresh(d, p) ==
  LET b == BlobOf[p] IN
  /\ pc[d] = "idle"
  /\ Exists(p) /\ Exists(b) /\ ino[p] # ino[b]
  /\ LengthOf[Reads(p)] = LengthOf[Reads(b)]
  /\ copy' = [copy EXCEPT ![d] = p]
  /\ seen' = [seen EXCEPT ![d] = ino[p]]
  /\ tries' = [tries EXCEPT ![d] = {b}]
  /\ Goto(d, "comparing")
  /\ UNCHANGED <<files, plan, leftovers, blob, frees, crashed, downloads>>
-----------------------------------------------------------------------------
(* link_over.                                                               *)

Temp(d) == <<copy[d], d>>

\* One of the two is gone, or they are one file already.
NothingToLink(d) ==
  /\ pc[d] = "linking"
  /\ ~Exists(copy[d]) \/ ~Exists(blob[d]) \/ ino[copy[d]] = ino[blob[d]]
  /\ NextCandidate(d)
  /\ UNCHANGED <<files, plan, leftovers, crashed, downloads>>

CheckIdentity(d) ==
  /\ pc[d] = "linking"
  /\ Exists(copy[d]) /\ Exists(blob[d]) /\ ino[copy[d]] # ino[blob[d]]
  /\ Goto(d, "staging")
  /\ UNCHANGED <<files, work, crashed, downloads>>

\* The link is made beside the pointer, over a leftover of this process ID
\* that is a link to the same blob.
StageLink(d) ==
  /\ pc[d] = "staging"
  /\ Exists(blob[d]) /\ ino[Temp(d)] \in {NoInode, ino[blob[d]]}
  /\ ino' = [ino EXCEPT ![Temp(d)] = ino[blob[d]]]
  /\ crashed' = crashed \ {Temp(d)}
  /\ Goto(d, "renaming")
  /\ UNCHANGED <<data, work, downloads>>

\* Another file has that name, or the blob is gone.
StageFails(d) ==
  /\ pc[d] = "staging"
  /\ ~Exists(blob[d]) \/ ino[Temp(d)] \notin {NoInode, ino[blob[d]]}
  /\ NextCandidate(d)
  /\ UNCHANGED <<files, plan, leftovers, crashed, downloads>>

\* The link is renamed over the pointer.  Onto another name of the same file
\* a rename does nothing.
RenameLink(d) ==
  /\ pc[d] = "renaming"
  /\ Exists(Temp(d)) /\ ino[Temp(d)] # ino[copy[d]]
  /\ ino' = [ino EXCEPT ![copy[d]] = ino[Temp(d)], ![Temp(d)] = NoInode]
  /\ NextCandidate(d)
  /\ UNCHANGED <<data, plan, leftovers, crashed, downloads>>

\* Nothing was renamed: the pointer was linked meanwhile, the pointer is in
\* use, or another run swept the link away.
RenameDoesNothing(d) ==
  /\ pc[d] = "renaming"
  /\ Goto(d, "tidying")
  /\ UNCHANGED <<files, work, crashed, downloads>>

\* Seeded bug: the temporary name is left where it is.
TidyNothing(d) ==
  /\ pc[d] = "tidying"
  /\ NextCandidate(d)
  /\ UNCHANGED <<files, plan, leftovers, crashed, downloads>>

TidyLink(d) ==
  /\ pc[d] = "tidying"
  /\ ino' = [ino EXCEPT ![Temp(d)] = NoInode]
  /\ NextCandidate(d)
  /\ UNCHANGED <<data, plan, leftovers, crashed, downloads>>

\* The process is killed.
Killed(d) ==
  /\ pc[d] # "idle"
  /\ crashed' = crashed \cup
       (IF pc[d] \in {"renaming", "tidying"} /\ Exists(Temp(d)) THEN {Temp(d)} ELSE {})
  /\ Goto(d, "idle")
  /\ plan' = [plan EXCEPT ![d] = {}]
  /\ leftovers' = [leftovers EXCEPT ![d] = {}]
  /\ copy' = [copy EXCEPT ![d] = NoName]
  /\ seen' = [seen EXCEPT ![d] = NoInode]
  /\ tries' = [tries EXCEPT ![d] = {}]
  /\ blob' = [blob EXCEPT ![d] = NoName]
  /\ frees' = [frees EXCEPT ![d] = FALSE]
  /\ UNCHANGED <<files, downloads>>
-----------------------------------------------------------------------------
(* Downloads into the repository.                                           *)

MayBegin == Cardinality({k \in 1 .. 2 : <<hub, chunked>>[k] # Idle}) < AtOnce

\* A new file x at name n.
Create(n, x, bytes) ==
  /\ ino' = [ino EXCEPT ![n] = x]
  /\ data' = [data EXCEPT ![x] = bytes]

Unchanging == UNCHANGED <<pc, work, crashed>>

\* hf-hub rewrites a pointer: it removes it and copies the blob there, under
\* a lock or not.  A copy onto another name of the blob fails.
HubBegins(p, lock) ==
  /\ hub = Idle /\ MayBegin
  /\ hub' = [at |-> "removing", name |-> p, file |-> NoInode]
  /\ locked' = lock
  /\ Unchanging /\ UNCHANGED <<files, partial, chunked>>

HubRemoves ==
  /\ hub.at = "removing"
  /\ ino' = [ino EXCEPT ![hub.name] = NoInode]
  /\ hub' = [hub EXCEPT !.at = "copying"]
  /\ Unchanging /\ UNCHANGED <<data, partial, locked, chunked>>

HubEnds ==
  /\ hub' = Idle /\ locked' = FALSE
  /\ Unchanging /\ UNCHANGED <<files, partial, chunked>>

HubCreates(x) ==
  /\ hub.at = "copying" /\ Exists(BlobOf[hub.name])
  /\ ~Exists(hub.name) /\ x \in Free
  /\ Create(hub.name, x, Torn)
  /\ hub' = [hub EXCEPT !.at = "writing", !.file = x]
  /\ Unchanging /\ UNCHANGED <<partial, locked, chunked>>

HubWrites ==
  /\ hub.at = "writing" /\ Exists(BlobOf[hub.name])
  /\ data' = [data EXCEPT ![hub.file] = Reads(BlobOf[hub.name])]
  /\ hub' = Idle /\ locked' = FALSE
  /\ Unchanging /\ UNCHANGED <<ino, partial, chunked>>

\* It fails or is interrupted, at any point.
HubFails == hub # Idle /\ HubEnds

\* A chunked download: a partial file, then the blob by a rename, then the
\* pointer by symlink_or_copy, if nobody made it meanwhile.
ChunkedBegins(p) ==
  /\ chunked = Idle /\ MayBegin /\ ~Exists(p)
  /\ chunked' = [at |-> "fetching", name |-> p, file |-> NoInode]
  /\ partial' = TRUE
  /\ Unchanging /\ UNCHANGED <<files, locked, hub>>

ChunkedPublishes(x) ==
  LET b == BlobOf[chunked.name] IN
  /\ chunked.at = "fetching" /\ x \in Free
  /\ Create(b, x, Named[b])
  /\ partial' = FALSE
  /\ chunked' = [chunked EXCEPT !.at = "pointing"]
  /\ Unchanging /\ UNCHANGED <<locked, hub>>

ChunkedPoints ==
  LET p == chunked.name IN
  /\ chunked.at = "pointing"
  /\ ino' = IF Exists(p) THEN ino ELSE [ino EXCEPT ![p] = ino[BlobOf[p]]]
  /\ chunked' = Idle
  /\ Unchanging /\ UNCHANGED <<data, partial, locked, hub>>

\* A partial file stays, until it is resumed or cleaned.
ChunkedInterrupted ==
  /\ chunked # Idle
  /\ chunked' = Idle
  /\ Unchanging /\ UNCHANGED <<files, partial, locked, hub>>

PartialCleaned ==
  /\ partial /\ chunked = Idle
  /\ partial' = FALSE
  /\ Unchanging /\ UNCHANGED <<files, locked, hub, chunked>>

Compare(d) ==
  \/ \E b \in Blobs, verify \in BOOLEAN : CompareEqual(d, b, verify)
  \/ \E b \in Blobs : CompareDiffers(d, b)
  \/ NoneEqual(d)

LinkOver(d) ==
  \/ NothingToLink(d) \/ CheckIdentity(d)
  \/ StageLink(d) \/ StageFails(d)
  \/ RenameLink(d) \/ RenameDoesNothing(d) \/ TidyLink(d)

Step(d) ==
  \/ PlanDedupe(d)
  \/ \E t \in Temps : Sweep(d, t)
  \/ SweepEnds(d) \/ DedupeEnds(d)
  \/ \E c \in Candidates : SkipInProgress(d, c) \/ Choose(d, c)
  \/ \E p \in Pointers : LinkFresh(d, p)
  \/ Compare(d) \/ LinkOver(d)

Hub ==
  \/ \E p \in Pointers, lock \in BOOLEAN : HubBegins(p, lock)
  \/ \E x \in Inodes : HubCreates(x)
  \/ HubRemoves \/ HubWrites \/ HubFails

Chunked ==
  \/ \E p \in Pointers : ChunkedBegins(p)
  \/ \E x \in Inodes : ChunkedPublishes(x)
  \/ ChunkedPoints \/ ChunkedInterrupted \/ PartialCleaned

Next ==
  \/ \E d \in Processes : Step(d) \/ Killed(d)
  \/ Hub \/ Chunked

Spec == Init /\ [][Next]_vars
-----------------------------------------------------------------------------
\* The staged link is no longer a name of the blob: it was published anew.
Outdated(d) == ino[Temp(d)] # ino[blob[d]]

\* No step of a deduplication makes a pointer go missing, and none takes the
\* right contents from one, whatever was removed, rewritten or published
\* since it compared the two files; save that a blob published after the link
\* was staged does not reach the link.
GoodPointersKept ==
  [][\A d \in Processes : Step(d) =>
       \A p \in Pointers : Exists(p) =>
         /\ Exists(p)'
         /\ \/ Reads(p) = Named[BlobOf[p]] => Reads(p)' = Named[BlobOf[p]]
            \/ RenameLink(d) /\ Outdated(d)]_vars

\* A temporary link is there only while the process that made it is about to
\* rename or remove it, or if that process was killed then.
NoStrayLinks ==
  \A t \in Temps : Exists(t) =>
    \/ t \in crashed
    \/ pc[t[2]] \in {"renaming", "tidying"} /\ Temp(t[2]) = t

\* A replacement that is reported to free the copy's bytes leaves no name of
\* the copy, unless the pointer was rewritten since it was looked at.
FreesWhatItReports ==
  [][\A d \in Processes :
       RenameLink(d) /\ frees[d] /\ ino[copy[d]] = seen[d] =>
         \A n \in Names : ino'[n] # seen[d]]_vars
=============================================================================
