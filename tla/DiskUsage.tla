------------------------------- MODULE DiskUsage -------------------------------
(***************************************************************************)
(* What a cached repo occupies (walk_repo_files and pair_duplicates of     *)
(* src/cache.rs, du_repo_figures of src/bin/main.rs): the blobs, then the   *)
(* snapshot entries, then the rest are read, each directory in whatever     *)
(* order the filesystem lists it, and every file is charged once.           *)
(***************************************************************************)
EXTENDS Integers, FiniteSets, FiniteSetsExt

CONSTANTS
  Blobs, Rank,     \* names in blobs/, and their path order
  Partials,        \* those of partial downloads and their sidecars
  Entries,         \* names in snapshots/
  Others,          \* names elsewhere in the repo
  Inodes,          \* files of the repo
  Payloads,        \* files of the shared blob store
  LengthOf

\* A name is in one directory, and a file in the repo or in the store.
ASSUME UsageAssumption ==
  /\ \A S \in {Blobs, Entries, Others, Inodes, Payloads} : IsFiniteSet(S)
  /\ Blobs \cap Entries = {} /\ (Blobs \cup Entries) \cap Others = {}
  /\ Payloads \cap (Inodes \cup Blobs) = {}
  /\ Partials \subseteq Blobs /\ Rank \in [Blobs -> Nat]
  /\ LengthOf \in [Inodes \cup Payloads -> Nat]

\* A name is of nothing, of a file, or of a link: in blobs/ to a payload, in
\* snapshots/ to a blob.
Nothing == [is |-> "nothing"]
File(x) == [is |-> "file", ino |-> x]
Link(to) == [is |-> "link", to |-> to]
Files == {File(x) : x \in Inodes}

VARIABLES
  at,                        \* the directories
  phase, todo,               \* which is being read, and what of it is left
  seen, paid,                \* files and payloads already charged
  total, shared, partial, bookkeeping,   \* bytes
  records, copies,           \* blobs and copies found
  ids, targets,              \* files and blob names that entries lead to
  duplicated, orphan         \* bytes

layout == <<at>>
charged == <<seen, paid, total, shared, partial, bookkeeping>>
found == <<records, copies, ids, targets>>
paired == <<duplicated, orphan>>
walkVars == <<layout, phase, todo, charged, found, paired>>

Names == Blobs \cup Entries \cup Others
IsFile(n) == at[n].is = "file"
IsLink(n) == at[n].is = "link"
Bytes(S) == MapThenSumSet(LAMBDA x : LengthOf[x], S)

\* The files a name leads to, through links: one or none.
Resolved(n) ==
  IF IsFile(n) THEN {at[n].ino}
  ELSE IF ~IsLink(n) THEN {}
  ELSE IF at[n].to \in Payloads THEN {at[n].to}
  ELSE LET b == at[n].to IN
       IF IsFile(b) THEN {at[b].ino} ELSE IF IsLink(b) THEN {at[b].to} ELSE {}

\* Blobs and the rest are files of their own; an entry is a link to a blob, a
\* hard link to one, a copy, or another name of a copy.
WalkInit ==
  /\ \E inBlobs \in [Blobs -> {Nothing} \cup Files \cup {Link(p) : p \in Payloads}],
        inSnapshots \in [Entries -> {Nothing} \cup Files \cup {Link(b) : b \in Blobs \ Partials}],
        elsewhere \in [Others -> {Nothing} \cup Files] :
       at = [n \in Names |-> IF n \in Blobs THEN inBlobs[n]
                             ELSE IF n \in Entries THEN inSnapshots[n] ELSE elsewhere[n]]
  /\ \A n, m \in Names : n # m /\ IsFile(n) /\ at[n] = at[m] =>
       {n, m} \cap Entries # {} /\ {n, m} \cap (Others \cup Partials) = {}
  /\ \A b \in Partials : ~IsLink(b)
  /\ phase = "blobs" /\ todo = Blobs
  /\ seen = {} /\ paid = {}
  /\ total = 0 /\ shared = 0 /\ partial = 0 /\ bookkeeping = 0
  /\ records = {} /\ copies = {} /\ ids = {} /\ targets = {}
  /\ duplicated = 0 /\ orphan = 0

Read(n) == n \in todo /\ todo' = todo \ {n}

\* Seeded bug: a name is charged as if it were the only one.
EveryName(x) == TRUE

FirstSighting(x) == x \notin seen

Charge(x) == IF FirstSighting(x) THEN LengthOf[x] ELSE 0
-----------------------------------------------------------------------------
\* walk_blob_files: a file is charged and recorded, a link into the store
\* charged as shared.
WalkBlob(b) ==
  /\ phase = "blobs" /\ Read(b) /\ IsFile(b)
  /\ LET x == at[b].ino IN
     /\ seen' = seen \cup {x}
     /\ total' = total + Charge(x)
     /\ partial' = IF b \in Partials THEN partial + Charge(x) ELSE partial
     /\ records' = IF FirstSighting(x) THEN records \cup {b} ELSE records
  /\ UNCHANGED <<layout, phase, paid, shared, bookkeeping, copies, ids, targets, paired>>

WalkStoreLink(b) ==
  /\ phase = "blobs" /\ Read(b) /\ IsLink(b)
  /\ LET x == at[b].to
         charge == IF x \in paid THEN 0 ELSE LengthOf[x]
     IN /\ seen' = seen \cup {x} /\ paid' = paid \cup {x}
        /\ total' = total + charge /\ shared' = shared + charge
  /\ UNCHANGED <<layout, phase, partial, bookkeeping, found, paired>>

\* walk_snapshot_files: every entry says what it leads to; a file that has not
\* been charged under another name is, and is a copy.
WalkCopy(e) ==
  /\ phase = "snapshots" /\ Read(e) /\ IsFile(e)
  /\ LET x == at[e].ino IN
     /\ seen' = seen \cup {x}
     /\ total' = total + Charge(x)
     /\ copies' = IF FirstSighting(x) THEN copies \cup {e} ELSE copies
     /\ ids' = ids \cup {x}
  /\ UNCHANGED <<layout, phase, paid, shared, partial, bookkeeping, records, targets, paired>>

WalkPointer(e) ==
  /\ phase = "snapshots" /\ Read(e) /\ IsLink(e)
  /\ ids' = ids \cup Resolved(e)
  /\ targets' = targets \cup {at[e].to}
  /\ UNCHANGED <<layout, phase, charged, records, copies, paired>>

\* walk_other_files.
WalkOther(o) ==
  /\ phase = "others" /\ Read(o) /\ IsFile(o)
  /\ seen' = seen \cup {at[o].ino}
  /\ total' = total + Charge(at[o].ino)
  /\ bookkeeping' = bookkeeping + Charge(at[o].ino)
  /\ UNCHANGED <<layout, phase, paid, shared, partial, found, paired>>

WalkNothing(n) ==
  /\ phase \in {"blobs", "snapshots", "others"} /\ Read(n) /\ at[n] = Nothing
  /\ UNCHANGED <<layout, phase, charged, found, paired>>

NextDirectory ==
  /\ phase \in {"blobs", "snapshots", "others"} /\ todo = {}
  /\ phase' = CASE phase = "blobs" -> "snapshots"
                [] phase = "snapshots" -> "others"
                [] phase = "others" -> "pairing"
  /\ todo' = CASE phase = "blobs" -> Entries
               [] phase = "snapshots" -> Others
               [] phase = "others" -> records \ Partials
  /\ UNCHANGED <<layout, charged, found, paired>>
-----------------------------------------------------------------------------
\* Seeded bug: only links are looked for, not hard links.
LinkedTo(b) == b \in targets

\* An entry is a hard link to the blob, or a link to its name.
PointedAt(b) == at[b].ino \in ids \/ b \in targets

\* pair_duplicates takes the blobs in path order, and for one that nothing
\* points at a copy of its length, if any is left.
Turn(b) == phase = "pairing" /\ Read(b) /\ \A c \in todo \ {b} : Rank[b] < Rank[c]

CopiesLike(b) == {e \in copies : LengthOf[at[e].ino] = LengthOf[at[b].ino]}

PairPointed(b) ==
  /\ Turn(b)
  /\ PointedAt(b) \/ LengthOf[at[b].ino] = 0
  /\ UNCHANGED <<layout, phase, charged, found, paired>>

\* Seeded bug: the copy is left for the next blob of that length.
PairKeepingCopy(b, e) ==
  /\ Turn(b)
  /\ ~PointedAt(b) /\ LengthOf[at[b].ino] > 0 /\ e \in CopiesLike(b)
  /\ duplicated' = duplicated + LengthOf[at[b].ino]
  /\ UNCHANGED <<layout, phase, charged, found, orphan>>

PairCopy(b, e) ==
  /\ Turn(b)
  /\ ~PointedAt(b) /\ LengthOf[at[b].ino] > 0 /\ e \in CopiesLike(b)
  /\ duplicated' = duplicated + LengthOf[at[b].ino]
  /\ copies' = copies \ {e}
  /\ UNCHANGED <<layout, phase, charged, records, ids, targets, orphan>>

PairNone(b) ==
  /\ Turn(b)
  /\ ~PointedAt(b) /\ LengthOf[at[b].ino] > 0 /\ CopiesLike(b) = {}
  /\ orphan' = orphan + LengthOf[at[b].ino]
  /\ UNCHANGED <<layout, phase, charged, found, duplicated>>

WalkEnds ==
  /\ phase = "pairing" /\ todo = {}
  /\ phase' = "done"
  /\ UNCHANGED <<layout, todo, charged, found, paired>>

WalkNext ==
  \/ \E b \in Blobs : WalkBlob(b) \/ WalkStoreLink(b)
  \/ \E e \in Entries : WalkCopy(e) \/ WalkPointer(e)
  \/ \E o \in Others : WalkOther(o)
  \/ \E n \in Names : WalkNothing(n)
  \/ NextDirectory
  \/ \E b \in Blobs : PairPointed(b) \/ PairNone(b) \/ \E e \in Entries : PairCopy(b, e)
  \/ WalkEnds

WalkSpec == WalkInit /\ [][WalkNext]_walkVars
-----------------------------------------------------------------------------
\* The sum of the listing: an entry at the size of what it leads to.
Listed ==
  LET size == [e \in Entries |-> Bytes(Resolved(e))]
  IN MapThenSumSet(LAMBDA e : size[e], Entries)

\* du_repo_figures.
Accounted == Listed + duplicated + orphan + partial + bookkeeping

\* What is charged beside the shared store is what removing the directory
\* frees: every file that has a name in it, once.
DeletingFreesTotal ==
  phase = "done" =>
    total - shared = Bytes({x \in Inodes : \E n \in Names : at[n] = File(x)})

\* The parts that du attributes add up to the bytes on disk, unless entries
\* share a file, or a file in the store is not listed.
FiguresAddUp ==
  /\ phase = "done"
  /\ \A e, f \in Entries : e # f => Resolved(e) \cap Resolved(f) = {}
  /\ \A b \in Blobs : IsLink(b) => \E e \in Entries : Resolved(e) = {at[b].to}
  => Accounted = total

\* Each copy is a duplicate of one blob at most, each blob one of pointed at,
\* duplicated, orphan or partial.
EachForOneThing ==
  phase = "done" =>
    /\ duplicated <= Bytes({x \in Inodes : /\ \E e \in Entries : at[e] = File(x)
                                           /\ \A b \in Blobs : at[b] # File(x)})
    /\ duplicated + orphan + partial =
         Bytes({at[b].ino : b \in {c \in Blobs : IsFile(c) /\ \A e \in Entries : Resolved(e) # Resolved(c)}})
=============================================================================
