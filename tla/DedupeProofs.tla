----------------------------- MODULE DedupeProofs -----------------------------
(***************************************************************************)
(* Proofs about Dedupe, for any number of blobs, pointers and processes:   *)
(* the temporary links that are left, the bytes that are freed, and the    *)
(* contents of pointers.                                                   *)
(***************************************************************************)
EXTENDS Dedupe, FiniteSetTheorems, TLAPS

Downloads == [at : {"idle", "removing", "copying", "writing", "fetching", "pointing"},
              name : Pointers \cup {NoName}, file : Inodes \cup {NoInode}]

TypeInv ==
  /\ ino \in [Names -> Inodes \cup {NoInode}]
  /\ data \in [Inodes -> Contents]
  /\ partial \in BOOLEAN /\ locked \in BOOLEAN
  /\ pc \in [Processes -> Phases]
  /\ plan \in [Processes -> SUBSET Candidates]
  /\ leftovers \in [Processes -> SUBSET Temps]
  /\ copy \in [Processes -> Pointers \cup {NoName}]
  /\ seen \in [Processes -> Inodes \cup {NoInode}]
  /\ tries \in [Processes -> SUBSET Blobs]
  /\ blob \in [Processes -> Blobs \cup {NoName}]
  /\ frees \in [Processes -> BOOLEAN]
  /\ crashed \in SUBSET Temps
  /\ hub \in Downloads /\ chunked \in Downloads

\* A candidate under way has its name, and once compared its blob; a download
\* under way has its pointer, and one that writes its file.
Chosen(d) ==
  /\ pc[d] \notin {"idle", "sweeping", "choosing"} => copy[d] \in Pointers
  /\ pc[d] \in {"linking", "staging", "renaming", "tidying"} => blob[d] \in Blobs

Downloading ==
  /\ hub.at # "idle" => hub.name \in Pointers
  /\ hub.at = "writing" => hub.file \in Inodes
  /\ chunked.at # "idle" => chunked.name \in Pointers

TypesHold == TypeInv /\ (\A d \in Processes : Chosen(d)) /\ Downloading

USE DedupeAssumption, NamesAreDistinct

LEMMA InitTypes == Init => TypesHold
<1> SUFFICES ASSUME Init PROVE TypesHold  OBVIOUS
<1>1. ino \in [Names -> Inodes \cup {NoInode}]
  BY DEF Init, Names
<1>2. /\ pc \in [Processes -> Phases] /\ plan \in [Processes -> SUBSET Candidates]
      /\ leftovers \in [Processes -> SUBSET Temps]
      /\ copy \in [Processes -> Pointers \cup {NoName}]
      /\ seen \in [Processes -> Inodes \cup {NoInode}]
      /\ tries \in [Processes -> SUBSET Blobs]
      /\ blob \in [Processes -> Blobs \cup {NoName}]
  BY DEF Init, Phases
<1>3. frees \in [Processes -> BOOLEAN] /\ partial \in BOOLEAN /\ locked \in BOOLEAN
  BY DEF Init
<1>4. hub \in Downloads /\ chunked \in Downloads /\ Downloading
  BY DEF Init, Downloads, Downloading, Idle
<1>5. \A d \in Processes : Chosen(d)
  BY DEF Init, Chosen
<1> QED  BY <1>1, <1>2, <1>3, <1>4, <1>5 DEF Init, TypesHold, TypeInv

LEMMA PlanTypes ==
  ASSUME TypesHold, NEW d \in Processes, PlanDedupe(d)
  PROVE  TypesHold'
BY DEF TypesHold, TypeInv, Chosen, Downloading, PlanDedupe, PlannedBlobs, Candidates, Phases,
       Goto, files, downloads

LEMMA SweepTypes ==
  ASSUME TypesHold, NEW d \in Processes, SweepEnds(d) \/ \E t \in Temps : Sweep(d, t)
  PROVE  TypesHold'
BY DEF TypesHold, TypeInv, Chosen, Downloading, Sweep, SweepEnds, Phases, Goto, Names,
       files, downloads

LEMMA ChooseTypes ==
  ASSUME TypesHold, NEW d \in Processes, NEW c \in Candidates, SkipInProgress(d, c) \/ Choose(d, c)
  PROVE  TypesHold'
<1>1. CASE UNCHANGED <<pc, copy, seen, tries, blob, frees>>
  BY <1>1 DEF TypesHold, TypeInv, Chosen, Downloading, SkipInProgress, Choose, files, downloads
<1>2. CASE Choose(d, c) /\ Exists(c.copy) /\ \A b \in StillOfItsLength(c) : ino[b] # ino[c.copy]
  <2>1. frees' = [frees EXCEPT ![d] = LastName(c.copy)] /\ LastName(c.copy) \in BOOLEAN
    BY <1>2 DEF Choose, LastName
  <2>2. frees' \in [Processes -> BOOLEAN]
    BY <2>1 DEF TypesHold, TypeInv
  <2>3. c.copy \in Pointers /\ StillOfItsLength(c) \subseteq Blobs
    BY DEF Candidates, StillOfItsLength
  <2>4. ino[c.copy] \in Inodes \cup {NoInode}
    BY <2>3 DEF TypesHold, TypeInv, Names
  <2> QED  BY <1>2, <2>2, <2>3, <2>4 DEF TypesHold, TypeInv, Chosen, Downloading, Choose, Phases,
                                         Goto, files, downloads
<1> QED  BY <1>1, <1>2 DEF SkipInProgress, Choose

LEMMA NextCandidateTypes ==
  ASSUME TypesHold, NEW d \in Processes, NextCandidate(d),
         ino' \in [Names -> Inodes \cup {NoInode}],
         UNCHANGED <<data, plan, leftovers, crashed, downloads>>
  PROVE  TypesHold'
<1> frees' \in [Processes -> BOOLEAN]
  BY DEF TypesHold, TypeInv, NextCandidate
<1> QED  BY DEF TypesHold, TypeInv, Chosen, Downloading, NextCandidate, Phases, Goto, downloads

LEMMA CompareTypes ==
  ASSUME TypesHold, NEW d \in Processes, Compare(d)
  PROVE  TypesHold'
<1>1. ASSUME NEW b \in Blobs, NEW verify \in BOOLEAN, CompareEqual(d, b, verify)
      PROVE  TypesHold'
  <2>1. CASE Confirmed(d, b, verify)
    BY <1>1, <2>1 DEF TypesHold, TypeInv, Chosen, Downloading, CompareEqual, Phases, Goto,
                      files, downloads
  <2>2. CASE ~Confirmed(d, b, verify)
    BY <1>1, <2>2, NextCandidateTypes DEF TypesHold, TypeInv, CompareEqual, files
  <2> QED  BY <2>1, <2>2
<1>2. ASSUME NEW b \in Blobs, CompareDiffers(d, b)
      PROVE  TypesHold'
  BY <1>2 DEF TypesHold, TypeInv, Chosen, Downloading, CompareDiffers, files, downloads
<1>3. CASE NoneEqual(d)
  BY <1>3, NextCandidateTypes DEF TypesHold, TypeInv, NoneEqual, files
<1> QED  BY <1>1, <1>2, <1>3 DEF Compare

LEMMA FreshTypes ==
  ASSUME TypesHold, NEW d \in Processes,
         DedupeEnds(d) \/ \E p \in Pointers : LinkFresh(d, p)
  PROVE  TypesHold'
<1>1. CASE DedupeEnds(d)
  BY <1>1 DEF TypesHold, TypeInv, Chosen, Downloading, DedupeEnds, Phases, Goto,
              files, work, downloads
<1>2. ASSUME NEW p \in Pointers, LinkFresh(d, p)
      PROVE  TypesHold'
  <2>1. ino[p] \in Inodes \cup {NoInode} /\ BlobOf[p] \in Blobs
    BY DEF TypesHold, TypeInv, Names
  <2> QED  BY <1>2, <2>1 DEF TypesHold, TypeInv, Chosen, Downloading, LinkFresh, Phases, Goto,
                             files, downloads
<1> QED  BY <1>1, <1>2

LEMMA LinkTypes ==
  ASSUME TypesHold, NEW d \in Processes, LinkOver(d)
  PROVE  TypesHold'
<1>1. CASE NothingToLink(d) \/ StageFails(d)
  BY <1>1, NextCandidateTypes DEF TypesHold, TypeInv, NothingToLink, StageFails, files
<1>2. CASE RenameLink(d) \/ TidyLink(d)
  <2>1. Temp(d) \in Temps /\ copy[d] \in Pointers
    BY <1>2 DEF TypesHold, Chosen, Temp, Temps, RenameLink, TidyLink
  <2>2. ino' \in [Names -> Inodes \cup {NoInode}]
    BY <1>2, <2>1 DEF TypesHold, TypeInv, RenameLink, TidyLink, Names
  <2> QED  BY <1>2, <2>2, NextCandidateTypes DEF RenameLink, TidyLink
<1>3. CASE StageLink(d)
  <2>1. Temp(d) \in Temps /\ blob[d] \in Blobs
    BY <1>3 DEF TypesHold, Chosen, Temp, Temps, StageLink
  <2>2. ino' \in [Names -> Inodes \cup {NoInode}]
    BY <1>3, <2>1 DEF TypesHold, TypeInv, StageLink, Names
  <2> QED  BY <1>3, <2>2 DEF TypesHold, TypeInv, Chosen, Downloading, StageLink, Phases, Goto,
                             work, downloads
<1>4. CASE CheckIdentity(d)
  BY <1>4 DEF TypesHold, TypeInv, Chosen, Downloading, CheckIdentity, Phases, Goto,
              files, work, downloads
<1>5. CASE RenameDoesNothing(d)
  BY <1>5 DEF TypesHold, TypeInv, Chosen, Downloading, RenameDoesNothing, Phases, Goto,
              files, work, downloads
<1> QED  BY <1>1, <1>2, <1>3, <1>4, <1>5 DEF LinkOver

LEMMA KilledTypes ==
  ASSUME TypesHold, NEW d \in Processes, Killed(d)
  PROVE  TypesHold'
<1> frees' \in [Processes -> BOOLEAN]
  BY DEF TypesHold, TypeInv, Killed
<1> crashed' \in SUBSET Temps
  BY DEF TypesHold, TypeInv, Chosen, Killed, Temp, Temps
<1> QED  BY DEF TypesHold, TypeInv, Chosen, Downloading, Killed, Phases, Goto, files, downloads

LEMMA StepTypes ==
  ASSUME TypesHold, NEW d \in Processes, Step(d)
  PROVE  TypesHold'
BY PlanTypes, SweepTypes, ChooseTypes, CompareTypes, FreshTypes, LinkTypes DEF Step

LEMMA HubTypes ==
  ASSUME TypesHold, Hub
  PROVE  TypesHold'
<1>1. ASSUME NEW p \in Pointers, NEW lock \in BOOLEAN, HubBegins(p, lock)
      PROVE  TypesHold'
  BY <1>1 DEF TypesHold, TypeInv, Chosen, Downloading, Downloads, HubBegins, Unchanging, files, work
<1>2. ASSUME NEW x \in Inodes, HubCreates(x)
      PROVE  TypesHold'
  BY <1>2 DEF TypesHold, TypeInv, Chosen, Downloading, Downloads, HubCreates, Create, Names,
              Unchanging, work
<1>3. CASE HubRemoves
  BY <1>3 DEF TypesHold, TypeInv, Chosen, Downloading, Downloads, HubRemoves, Names,
              Unchanging, work
<1>4. CASE HubWrites
  <2>1. Reads(BlobOf[hub.name]) \in Contents
    BY <1>4 DEF TypesHold, TypeInv, Downloading, HubWrites, Exists, Reads, Names
  <2> QED  BY <1>4, <2>1 DEF TypesHold, TypeInv, Chosen, Downloading, Downloads, HubWrites, Idle,
                             Unchanging, work
<1>5. CASE HubFails
  BY <1>5 DEF TypesHold, TypeInv, Chosen, Downloading, Downloads, HubFails, HubEnds, Idle,
              Unchanging, files, work
<1> QED  BY <1>1, <1>2, <1>3, <1>4, <1>5 DEF Hub

LEMMA ChunkedTypes ==
  ASSUME TypesHold, Chunked
  PROVE  TypesHold'
<1>1. ASSUME NEW p \in Pointers, ChunkedBegins(p)
      PROVE  TypesHold'
  BY <1>1 DEF TypesHold, TypeInv, Chosen, Downloading, Downloads, ChunkedBegins, Unchanging,
              files, work
<1>2. ASSUME NEW x \in Inodes, ChunkedPublishes(x)
      PROVE  TypesHold'
  BY <1>2 DEF TypesHold, TypeInv, Chosen, Downloading, Downloads, ChunkedPublishes, Create, Names,
              Unchanging, work
<1>3. CASE ChunkedPoints
  BY <1>3 DEF TypesHold, TypeInv, Chosen, Downloading, Downloads, ChunkedPoints, Idle, Names,
              Unchanging, work
<1>4. CASE ChunkedInterrupted
  BY <1>4 DEF TypesHold, TypeInv, Chosen, Downloading, Downloads, ChunkedInterrupted, Idle,
              Unchanging, files, work
<1>5. CASE PartialCleaned
  BY <1>5 DEF TypesHold, TypeInv, Chosen, Downloading, PartialCleaned, Unchanging, files, work
<1> QED  BY <1>1, <1>2, <1>3, <1>4, <1>5 DEF Chunked

LEMMA NextTypes == TypesHold /\ [Next]_vars => TypesHold'
<1>1. TypesHold /\ UNCHANGED vars => TypesHold'
  BY DEF TypesHold, TypeInv, Chosen, Downloading, vars, files, work, downloads
<1> QED  BY <1>1, StepTypes, KilledTypes, HubTypes, ChunkedTypes DEF Next

\* Every variable of the deduplication keeps its type, and what is under way
\* has its names.
THEOREM DedupeTypes == Spec => []TypesHold
BY InitTypes, NextTypes, PTL DEF Spec
-----------------------------------------------------------------------------
(* The temporary links.                                                     *)

\* What a process that has no link of its own leaves alone: the links of
\* others, but for those it removes, and their excuses.
LEMMA LinksStay ==
  ASSUME TypesHold, NoStrayLinks, NEW d \in Processes,
         pc[d] \notin {"renaming", "tidying"},
         \A e \in Processes \ {d} : pc'[e] = pc[e] /\ copy'[e] = copy[e],
         \A t \in Temps :
           \/ ino'[t] = NoInode
           \/ ino'[t] = ino[t] /\ (t \in crashed => t \in crashed')
  PROVE  NoStrayLinks'
BY DEF NoStrayLinks, Temp, Temps, Exists

\* The rest of link_over: the link that is made has its process to excuse it,
\* and a process that forgets its candidate has removed its link.
LEMMA OwnLinkStays ==
  ASSUME TypesHold, NoStrayLinks, NEW d \in Processes,
         StageLink(d) \/ RenameLink(d) \/ RenameDoesNothing(d) \/ TidyLink(d)
  PROVE  NoStrayLinks'
<1>1. copy[d] \in Pointers /\ Temp(d) \in Temps
  BY DEF TypesHold, Chosen, StageLink, RenameLink, RenameDoesNothing, TidyLink, Temp, Temps
<1>2. CASE StageLink(d)
  BY <1>1, <1>2 DEF TypesHold, TypeInv, NoStrayLinks, StageLink, Goto, work, Temp, Temps, Names,
                    Exists
<1>3. CASE RenameDoesNothing(d)
  BY <1>1, <1>3 DEF TypesHold, TypeInv, NoStrayLinks, RenameDoesNothing, Goto, work, files, Temp,
                    Temps, Exists
<1>4. CASE RenameLink(d) \/ TidyLink(d)
  <2>1. \A t \in Temps : ino'[t] = IF t = Temp(d) THEN NoInode ELSE ino[t]
    BY <1>1, <1>4 DEF TypesHold, TypeInv, RenameLink, TidyLink, Names
  <2>2. \A e \in Processes \ {d} : pc'[e] = pc[e] /\ copy'[e] = copy[e]
    BY <1>4 DEF TypesHold, TypeInv, RenameLink, TidyLink, NextCandidate, Goto
  <2>3. crashed' = crashed
    BY <1>4 DEF RenameLink, TidyLink
  <2> QED  BY <1>1, <2>1, <2>2, <2>3 DEF NoStrayLinks, Temp, Temps, Exists
<1> QED  BY <1>2, <1>3, <1>4

LEMMA StepKeepsLinks ==
  ASSUME TypesHold, NoStrayLinks, NEW d \in Processes, Step(d)
  PROVE  NoStrayLinks'
<1>1. CASE PlanDedupe(d) \/ SweepEnds(d) \/ DedupeEnds(d)
  <2>1. pc[d] \notin {"renaming", "tidying"} /\ UNCHANGED <<ino, crashed, copy>>
    BY <1>1 DEF PlanDedupe, SweepEnds, DedupeEnds, files, work
  <2>2. \A e \in Processes \ {d} : pc'[e] = pc[e]
    BY <1>1 DEF TypesHold, TypeInv, PlanDedupe, SweepEnds, DedupeEnds, Goto
  <2> QED  BY <2>1, <2>2, LinksStay
<1>2. ASSUME NEW t \in Temps, Sweep(d, t)
      PROVE  NoStrayLinks'
  <2>1. pc[d] \notin {"renaming", "tidying"}
    BY <1>2 DEF Sweep
  <2>2. \A e \in Processes \ {d} : pc'[e] = pc[e] /\ copy'[e] = copy[e]
    BY <1>2 DEF Sweep
  <2>3. \A u \in Temps :
          \/ ino'[u] = NoInode
          \/ ino'[u] = ino[u] /\ (u \in crashed => u \in crashed')
    BY <1>2 DEF TypesHold, TypeInv, Sweep, Names
  <2> QED  BY <2>1, <2>2, <2>3, LinksStay
<1>3. ASSUME NEW c \in Candidates, SkipInProgress(d, c) \/ Choose(d, c)
      PROVE  NoStrayLinks'
  <2>1. pc[d] \notin {"renaming", "tidying"} /\ UNCHANGED <<ino, crashed>>
    BY <1>3 DEF SkipInProgress, Choose, files
  <2>2. \A e \in Processes \ {d} : pc'[e] = pc[e] /\ copy'[e] = copy[e]
    BY <1>3 DEF TypesHold, TypeInv, SkipInProgress, Choose, Goto
  <2> QED  BY <2>1, <2>2, LinksStay
<1>4. CASE \/ \E p \in Pointers : LinkFresh(d, p)
           \/ Compare(d) \/ NothingToLink(d) \/ CheckIdentity(d) \/ StageFails(d)
  <2>1. pc[d] \notin {"renaming", "tidying"} /\ UNCHANGED <<ino, crashed>>
    BY <1>4 DEF LinkFresh, Compare, CompareEqual, CompareDiffers, NoneEqual, NothingToLink,
                CheckIdentity, StageFails, files
  <2>2. \A e \in Processes \ {d} : pc'[e] = pc[e] /\ copy'[e] = copy[e]
    BY <1>4 DEF TypesHold, TypeInv, LinkFresh, Compare, CompareEqual, CompareDiffers, NoneEqual,
                NothingToLink, CheckIdentity, StageFails, NextCandidate, Goto, work
  <2> QED  BY <2>1, <2>2, LinksStay
<1>5. CASE StageLink(d) \/ RenameLink(d) \/ RenameDoesNothing(d) \/ TidyLink(d)
  BY <1>5, OwnLinkStays
<1> QED  BY <1>1, <1>2, <1>3, <1>4, <1>5 DEF Step, LinkOver

LEMMA KilledKeepsLinks ==
  ASSUME TypesHold, NoStrayLinks, NEW d \in Processes, Killed(d)
  PROVE  NoStrayLinks'
<1>1. ino' = ino
  BY DEF Killed, files
<1>2. \A e \in Processes \ {d} : pc'[e] = pc[e] /\ copy'[e] = copy[e]
  BY DEF TypesHold, TypeInv, Killed, Goto
<1>3. \A t \in Temps :
        t \in crashed \/ (pc[d] \in {"renaming", "tidying"} /\ t = Temp(d) /\ Exists(t)) =>
          t \in crashed'
  BY DEF Killed
<1> QED  BY <1>1, <1>2, <1>3 DEF NoStrayLinks, Temp, Temps, Exists

\* A download has other names.
LEMMA DownloadsKeepLinks ==
  ASSUME TypesHold, NoStrayLinks, Hub \/ Chunked
  PROVE  NoStrayLinks'
<1>1. UNCHANGED <<pc, copy, crashed>>
  BY DEF Hub, HubBegins, HubCreates, HubRemoves, HubWrites, HubFails, HubEnds, Chunked,
         ChunkedBegins, ChunkedPublishes, ChunkedPoints, ChunkedInterrupted, PartialCleaned,
         Unchanging, work
<1>2. \A t \in Temps : ino'[t] = ino[t]
  <2>1. CASE Hub
    BY <2>1 DEF TypesHold, TypeInv, Downloading, Names, Hub, HubBegins, HubCreates, HubRemoves,
                HubWrites, HubFails, HubEnds, Create, files
  <2>2. CASE Chunked
    BY <2>2 DEF TypesHold, TypeInv, Downloading, Names, Chunked, ChunkedBegins, ChunkedPublishes,
                ChunkedPoints, ChunkedInterrupted, PartialCleaned, Create, files
  <2> QED  BY <2>1, <2>2
<1> QED  BY <1>1, <1>2 DEF NoStrayLinks, Temp, Exists

\* A temporary link that is there belongs to a process about to rename or
\* remove it, or to one that was killed then, however many run.
THEOREM NoLinksAreLeft == Spec => []NoStrayLinks
<1>1. Init => NoStrayLinks
  BY DEF Init, NoStrayLinks, Exists, Names
<1>2. TypesHold /\ NoStrayLinks /\ [Next]_vars => NoStrayLinks'
  <2>1. UNCHANGED vars /\ NoStrayLinks => NoStrayLinks'
    BY DEF NoStrayLinks, Temp, Exists, vars, files, work
  <2> QED  BY <2>1, StepKeepsLinks, KilledKeepsLinks, DownloadsKeepLinks DEF Next
<1> QED  BY <1>1, <1>2, DedupeTypes, PTL DEF Spec
-----------------------------------------------------------------------------
(* The bytes that are freed.                                                *)

\* A copy that is said to free its bytes has no other name, since it was
\* looked at and for as long as it is the candidate.
FreesOK(d) ==
  frees[d] =>
    /\ pc[d] \notin {"idle", "sweeping", "choosing"}
    /\ seen[d] \in Inodes
    /\ \A n \in Names : ino[n] = seen[d] => n = copy[d]

LEMMA NamesFinite == IsFiniteSet(Names)
<1>1. IsFiniteSet(Temps)
  BY NamesAreFinite, FS_Product DEF Temps
<1>2. IsFiniteSet(Blobs \cup Pointers)
  BY NamesAreFinite, FS_Union
<1> QED  BY <1>1, <1>2, FS_Union DEF Names

LEMMA LastNameIsOnly ==
  ASSUME NEW p \in Pointers, LastName(p)
  PROVE  \A n \in Names : ino[n] = ino[p] => n = p
<1>1. IsFiniteSet(LinksTo(ino[p])) /\ p \in LinksTo(ino[p])
  BY NamesFinite, FS_Subset DEF LinksTo, Names
<1>2. Cardinality(LinksTo(ino[p])) = 1
  BY <1>1, FS_CardinalityType, FS_EmptySet DEF LastName
<1>3. PICK x : LinksTo(ino[p]) = {x}
  BY <1>1, <1>2, FS_Singleton
<1> QED  BY <1>1, <1>3 DEF LinksTo

\* Links are made of blobs, which the copy is not, and files made anew are not
\* one that a process looks at.
LEMMA NoNewNames ==
  ASSUME TypesHold, NEW e \in Processes, FreesOK(e), frees[e], Next
  PROVE  \A n \in Names : ino'[n] = seen[e] => n = copy[e]
<1> USE DEF FreesOK
<1>1. copy[e] \in Pointers /\ seen[e] # NoInode
  BY DEF TypesHold, TypeInv, Chosen
<1>2. ASSUME NEW d \in Processes, StageLink(d)
      PROVE  \A n \in Names : ino'[n] = seen[e] => n = copy[e]
  <2>1. blob[d] \in Blobs
    BY <1>2 DEF TypesHold, Chosen, StageLink
  <2>2. ino[blob[d]] # seen[e]
    BY <1>1, <2>1 DEF Names
  <2> QED  BY <1>2, <2>2 DEF TypesHold, TypeInv, StageLink
<1>3. ASSUME NEW d \in Processes, RenameLink(d)
      PROVE  \A n \in Names : ino'[n] = seen[e] => n = copy[e]
  <2>1. Temp(d) \in Temps
    BY <1>3 DEF TypesHold, Chosen, RenameLink, Temp, Temps
  <2>2. ino[Temp(d)] # seen[e]
    BY <1>1, <2>1 DEF Names
  <2> QED  BY <1>1, <1>3, <2>2 DEF TypesHold, TypeInv, RenameLink
<1>4. ASSUME NEW d \in Processes, TidyLink(d) \/ \E t \in Temps : Sweep(d, t)
      PROVE  \A n \in Names : ino'[n] = seen[e] => n = copy[e]
  BY <1>1, <1>4 DEF TypesHold, TypeInv, TidyLink, Sweep
<1>5. CASE Hub
  <2>1. ASSUME NEW x \in Inodes, HubCreates(x)
        PROVE  \A n \in Names : ino'[n] = seen[e] => n = copy[e]
    BY <1>1, <2>1 DEF TypesHold, TypeInv, HubCreates, Create, Free
  <2>2. CASE HubRemoves
    BY <1>1, <2>2 DEF TypesHold, TypeInv, HubRemoves
  <2>3. CASE ino' = ino
    BY <2>3
  <2> QED  BY <1>5, <2>1, <2>2, <2>3 DEF Hub, HubBegins, HubWrites, HubFails, HubEnds, files
<1>6. ASSUME NEW x \in Inodes, ChunkedPublishes(x)
      PROVE  \A n \in Names : ino'[n] = seen[e] => n = copy[e]
  BY <1>1, <1>6 DEF TypesHold, TypeInv, ChunkedPublishes, Create, Free
<1>7. CASE ChunkedPoints
  <2>1. BlobOf[chunked.name] \in Blobs
    BY <1>7 DEF TypesHold, Downloading, ChunkedPoints
  <2>2. ino[BlobOf[chunked.name]] # seen[e]
    BY <1>1, <2>1 DEF Names
  <2> QED  BY <1>7, <2>2 DEF TypesHold, TypeInv, ChunkedPoints
<1>8. CASE ino' = ino
  BY <1>8
<1> QED
  BY <1>2, <1>3, <1>4, <1>5, <1>6, <1>7, <1>8
  DEF Next, Step, LinkOver, Compare, PlanDedupe, SweepEnds, DedupeEnds, SkipInProgress, Choose,
      LinkFresh, CompareEqual, CompareDiffers, NoneEqual, NothingToLink, CheckIdentity,
      StageFails, RenameDoesNothing, Killed, Chunked, ChunkedBegins, ChunkedInterrupted,
      PartialCleaned, files, work

\* The flag is set as the copy is chosen, and dropped with it.
LEMMA StepKeepsFrees ==
  ASSUME TypesHold, NEW d \in Processes, NEW e \in Processes, Step(d) \/ Killed(d),
         FreesOK(e), frees'[e]
  PROVE  \/ /\ frees[e] /\ seen'[e] = seen[e] /\ copy'[e] = copy[e]
            /\ pc'[e] \notin {"idle", "sweeping", "choosing"}
         \/ \E c \in Candidates : Choose(d, c) /\ e = d /\ copy'[d] = c.copy
<1>1. CASE PlanDedupe(d) \/ (\E t \in Temps : Sweep(d, t)) \/ SweepEnds(d) \/ DedupeEnds(d)
           \/ (\E c \in Candidates : SkipInProgress(d, c))
           \/ (\E p \in Pointers : LinkFresh(d, p))
  BY <1>1 DEF TypesHold, TypeInv, FreesOK, PlanDedupe, Sweep, SweepEnds, DedupeEnds,
              SkipInProgress, LinkFresh, Goto, work
<1>2. ASSUME NEW c \in Candidates, Choose(d, c)
      PROVE  \/ /\ frees[e] /\ seen'[e] = seen[e] /\ copy'[e] = copy[e]
                /\ pc'[e] \notin {"idle", "sweeping", "choosing"}
             \/ Choose(d, c) /\ e = d /\ copy'[d] = c.copy
  BY <1>2 DEF TypesHold, TypeInv, FreesOK, Choose, Goto
<1>3. CASE Compare(d)
  BY <1>3 DEF TypesHold, TypeInv, FreesOK, Compare, CompareEqual, CompareDiffers, NoneEqual,
              NextCandidate, Goto
<1>4. CASE LinkOver(d)
  BY <1>4 DEF TypesHold, TypeInv, FreesOK, LinkOver, NothingToLink, CheckIdentity, StageLink,
              StageFails, RenameLink, RenameDoesNothing, TidyLink, NextCandidate, Goto, work
<1>5. CASE Killed(d)
  BY <1>5 DEF TypesHold, TypeInv, FreesOK, Killed, Goto
<1> QED  BY <1>1, <1>2, <1>3, <1>4, <1>5 DEF Step

LEMMA ChooseFrees ==
  ASSUME TypesHold, NEW d \in Processes, NEW c \in Candidates, Choose(d, c), frees'[d],
         FreesOK(d)
  PROVE  FreesOK(d)'
<1>1. frees' = [frees EXCEPT ![d] = LastName(c.copy)] /\ Exists(c.copy) /\ c.copy \in Pointers
      /\ pc'[d] = "comparing" /\ copy'[d] = c.copy /\ seen'[d] = ino[c.copy] /\ ino' = ino
  BY DEF TypesHold, TypeInv, FreesOK, Choose, Candidates, Goto, files
<1>2. LastName(c.copy)
  BY <1>1 DEF TypesHold, TypeInv
<1>3. ino[c.copy] \in Inodes
  BY <1>1 DEF TypesHold, TypeInv, Names, Exists
<1> QED  BY <1>1, <1>2, <1>3, LastNameIsOnly DEF FreesOK

\* A replacement that is reported to free the copy's bytes leaves no name of
\* the copy, unless it was rewritten since, for any number of names.
THEOREM FreesAreTrue == Spec => FreesWhatItReports
<1> DEFINE AllFreesOK == \A e \in Processes : FreesOK(e)
<1>1. Init => AllFreesOK
  BY DEF Init, FreesOK
<1>2. TypesHold /\ AllFreesOK /\ [Next]_vars => AllFreesOK'
  <2>1. SUFFICES ASSUME TypesHold, AllFreesOK, Next, NEW e \in Processes, frees'[e]
                 PROVE  FreesOK(e)'
    BY DEF FreesOK, vars, files, work
  <2>2. CASE /\ frees[e] /\ seen'[e] = seen[e] /\ copy'[e] = copy[e]
             /\ pc'[e] \notin {"idle", "sweeping", "choosing"}
    BY <2>1, <2>2, NoNewNames DEF FreesOK
  <2>3. ASSUME NEW c \in Candidates, Choose(e, c)
        PROVE  FreesOK(e)'
    BY <2>1, <2>3, ChooseFrees
  <2>4. CASE Hub \/ Chunked
    <3>1. UNCHANGED <<pc, work>>
      BY <2>4 DEF Hub, HubBegins, HubCreates, HubRemoves, HubWrites, HubFails, HubEnds, Chunked,
             ChunkedBegins, ChunkedPublishes, ChunkedPoints, ChunkedInterrupted, PartialCleaned,
             Unchanging
    <3> QED  BY <2>1, <2>2, <3>1 DEF FreesOK, work
  <2>5. ASSUME NEW d \in Processes, Step(d) \/ Killed(d)
        PROVE  FreesOK(e)'
    BY <2>1, <2>2, <2>3, <2>5, StepKeepsFrees
  <2> QED  BY <2>1, <2>4, <2>5 DEF Next
<1>3. TypesHold /\ AllFreesOK /\ [Next]_vars =>
        [\A d \in Processes :
           RenameLink(d) /\ frees[d] /\ ino[copy[d]] = seen[d] =>
             \A n \in Names : ino'[n] # seen[d]]_vars
  <2>1. SUFFICES ASSUME TypesHold, AllFreesOK, Next, NEW d \in Processes,
                        RenameLink(d), frees[d], ino[copy[d]] = seen[d],
                        NEW n \in Names, ino'[n] = seen[d]
                 PROVE  FALSE
    BY DEF vars
  <2>2. n = copy[d]
    BY <2>1, NoNewNames
  <2>3. copy[d] \in Pointers /\ Temp(d) \in Temps
    BY <2>1 DEF TypesHold, Chosen, RenameLink, Temp, Temps
  <2>4. ino'[copy[d]] = ino[Temp(d)]
    BY <2>1, <2>3 DEF TypesHold, TypeInv, RenameLink, Names
  <2> QED  BY <2>1, <2>2, <2>4 DEF RenameLink
<1> QED  BY <1>1, <1>2, <1>3, DedupeTypes, PTL DEF Spec, FreesWhatItReports
-----------------------------------------------------------------------------
(* The pointers' contents.                                                  *)

\* What a blob's name stands for is told from what another's does, and from
\* whatever else is there under a name.
ContentsDiffer ==
  /\ \A b, c \in Blobs : Rotten[b] # Named[c]
  /\ \A b \in Blobs : Torn # Rotten[b]
  /\ \A b, c \in Blobs : b # c => Named[b] # Named[c] /\ Rotten[b] # Rotten[c]

BlobRotten(b) == Exists(b) /\ Reads(b) = Rotten[b]

BlobsOK == \A b \in Blobs : Exists(b) => Reads(b) \in {Named[b], Rotten[b]}

PointersOK ==
  \A p \in Pointers : Exists(p) => Reads(p) \in {Named[BlobOf[p]], Rotten[BlobOf[p]], Torn}

\* A link was made of its pointer's blob; while the blob is rotten it has not
\* been published anew, and the link is of the same contents.
TempsOK ==
  \A p \in Pointers, d \in Processes : Exists(<<p, d>>) =>
    /\ Reads(<<p, d>>) \in {Named[BlobOf[p]], Rotten[BlobOf[p]]}
    /\ BlobRotten(BlobOf[p]) => Reads(<<p, d>>) # Named[BlobOf[p]]

\* The file that hf-hub writes has one name.
WritingOK ==
  hub.at = "writing" => \A n \in Names : ino[n] = hub.file => n = hub.name

FilesOK == BlobsOK /\ PointersOK /\ TempsOK /\ WritingOK

\* The pointer is not right where its blob is rotten.
NotBetter(p) == Exists(p) /\ BlobRotten(BlobOf[p]) => Reads(p) # Named[BlobOf[p]]

\* Once the two are found equal, the blob is the pointer's, and the pointer no
\* better than it.
LinkOK(d) ==
  pc[d] \in {"linking", "staging", "renaming", "tidying"} =>
    blob[d] = BlobOf[copy[d]] /\ NotBetter(copy[d])

\* A temporary link goes: swept, or tidied.
LinkRemoved(t) == ino' = [ino EXCEPT ![t] = NoInode] /\ data' = data

\* What each step that changes files is shown to keep, first one that removes
\* a link.
Kept == FilesOK' /\ \A p \in Pointers : NotBetter(p) => NotBetter(p)'

LEMMA RemovalKeeps ==
  ASSUME TypesHold, FilesOK, NEW t \in Temps, LinkRemoved(t), hub' = hub
  PROVE  Kept
<1>1. \A n \in Names : ino'[n] = IF n = t THEN NoInode ELSE ino[n]
  BY DEF TypesHold, TypeInv, LinkRemoved
<1>2. data' = data
  BY DEF LinkRemoved
<1>3. BlobsOK' /\ PointersOK' /\ TempsOK'
  BY <1>1, <1>2 DEF FilesOK, BlobsOK, PointersOK, TempsOK, BlobRotten, Exists, Reads, Names, Temps
<1>4. WritingOK'
  BY <1>1 DEF TypesHold, Downloading, FilesOK, WritingOK
<1>5. \A p \in Pointers : NotBetter(p) => NotBetter(p)'
  BY <1>1, <1>2 DEF NotBetter, BlobRotten, Exists, Reads, Names
<1> QED  BY <1>3, <1>4, <1>5 DEF Kept, FilesOK

LEMMA StageKeeps ==
  ASSUME TypesHold, FilesOK, ContentsDiffer, NEW d \in Processes, LinkOK(d), StageLink(d)
  PROVE  Kept
<1>1. /\ copy[d] \in Pointers /\ Temp(d) \in Temps /\ Temp(d) = <<copy[d], d>>
      /\ blob[d] = BlobOf[copy[d]] /\ blob[d] \in Blobs /\ Exists(blob[d])
  BY DEF TypesHold, Chosen, LinkOK, StageLink, Temp, Temps
<1>2. \A n \in Names : ino'[n] = IF n = Temp(d) THEN ino[blob[d]] ELSE ino[n]
  BY DEF TypesHold, TypeInv, StageLink
<1>3. data' = data /\ hub' = hub
  BY DEF StageLink, downloads
<1>4. BlobsOK' /\ PointersOK' /\ \A p \in Pointers : NotBetter(p) => NotBetter(p)'
  BY <1>1, <1>2, <1>3 DEF FilesOK, BlobsOK, PointersOK, NotBetter, BlobRotten, Exists, Reads, Names
<1>5. TempsOK'
  <2>1. SUFFICES ASSUME NEW p \in Pointers, NEW e \in Processes, Exists(<<p, e>>)'
                 PROVE  /\ Reads(<<p, e>>)' \in {Named[BlobOf[p]], Rotten[BlobOf[p]]}
                        /\ BlobRotten(BlobOf[p])' => Reads(<<p, e>>)' # Named[BlobOf[p]]
    BY DEF TempsOK
  <2>2. BlobOf[p] \in Blobs /\ <<p, e>> \in Names /\ BlobOf[p] # Temp(d)
    BY <1>1 DEF Names, Temps
  <2>3. BlobRotten(BlobOf[p])' = BlobRotten(BlobOf[p])
    BY <1>2, <1>3, <2>2 DEF BlobRotten, Exists, Reads, Names
  <2>4. CASE <<p, e>> = Temp(d)
    <3>1. p = copy[d] /\ Reads(<<p, e>>)' = Reads(BlobOf[p])
      BY <1>1, <1>2, <1>3, <2>2, <2>4 DEF Reads
    <3> QED  BY <1>1, <2>2, <2>3, <3>1 DEF FilesOK, BlobsOK, BlobRotten, ContentsDiffer
  <2>5. CASE <<p, e>> # Temp(d)
    BY <1>2, <1>3, <2>1, <2>2, <2>3, <2>5 DEF FilesOK, TempsOK, Exists, Reads
  <2> QED  BY <2>4, <2>5
<1>6. WritingOK'
  <2>1. SUFFICES ASSUME hub.at = "writing", NEW n \in Names, ino'[n] = hub.file
                 PROVE  n = hub.name
    BY <1>3 DEF WritingOK
  <2>2. ino[blob[d]] # hub.file
    BY <1>1, <2>1 DEF TypesHold, Downloading, FilesOK, WritingOK, Names
  <2> QED  BY <1>2, <2>1, <2>2 DEF FilesOK, WritingOK
<1> QED  BY <1>4, <1>5, <1>6 DEF Kept, FilesOK

LEMMA RenameKeeps ==
  ASSUME TypesHold, FilesOK, NEW d \in Processes, RenameLink(d)
  PROVE  Kept
<1>1. PICK c \in Pointers : c = copy[d]
  BY DEF TypesHold, Chosen, RenameLink
<1> DEFINE t == <<c, d>>
<1>2. t \in Temps /\ t = Temp(d) /\ Exists(t) /\ c \in Names /\ t \in Names /\ c # t
  BY <1>1 DEF RenameLink, Temp, Temps, Names
<1>3. \A n \in Names : ino'[n] = IF n = t THEN NoInode ELSE IF n = c THEN ino[t] ELSE ino[n]
  BY <1>1, <1>2 DEF TypesHold, TypeInv, RenameLink
<1>4. data' = data /\ hub' = hub
  BY DEF RenameLink, downloads
<1>5. \A b \in Blobs : Exists(b)' = Exists(b) /\ Reads(b)' = Reads(b)
  BY <1>2, <1>3, <1>4 DEF Exists, Reads, Names
<1>6. Reads(c)' = Reads(t) /\ Exists(c)'
  BY <1>2, <1>3, <1>4 DEF Exists, Reads
<1>7. \A p \in Pointers \ {c} : Exists(p)' = Exists(p) /\ Reads(p)' = Reads(p)
  BY <1>2, <1>3, <1>4 DEF Exists, Reads, Names
<1>8. \A u \in Temps : Exists(u)' => Exists(u) /\ Reads(u)' = Reads(u)
  BY <1>2, <1>3, <1>4 DEF Exists, Reads, Names
<1>9. /\ Reads(t) \in {Named[BlobOf[c]], Rotten[BlobOf[c]]}
      /\ BlobRotten(BlobOf[c]) => Reads(t) # Named[BlobOf[c]]
  BY <1>2 DEF FilesOK, TempsOK
<1> HIDE DEF t
<1>10. BlobsOK' /\ PointersOK'
  BY <1>5, <1>6, <1>7, <1>9 DEF FilesOK, BlobsOK, PointersOK
<1>11. \A b \in Blobs : BlobRotten(b)' = BlobRotten(b)
  BY <1>5 DEF BlobRotten
<1>12. TempsOK'
  BY <1>8, <1>11 DEF FilesOK, TempsOK, Temps
<1>13. WritingOK'
  BY <1>2, <1>3, <1>4 DEF TypesHold, Downloading, FilesOK, WritingOK
<1>14. \A p \in Pointers : NotBetter(p) => NotBetter(p)'
  BY <1>6, <1>7, <1>9, <1>11 DEF NotBetter
<1> QED  BY <1>10, <1>12, <1>13, <1>14 DEF Kept, FilesOK

\* A file made anew: no name had it.
LEMMA FreeIsNobodys ==
  ASSUME TypesHold, NEW x \in Free
  PROVE  x \in Inodes /\ x # hub.file /\ \A n \in Names : ino[n] # x
BY DEF Free, LinksTo

\* hf-hub's steps, and a chunked download's.
LEMMA HubRemovesKeeps ==
  ASSUME TypesHold, FilesOK, HubRemoves
  PROVE  Kept
<1>1. hub.name \in Pointers /\ hub.name \notin Temps /\ hub.name \notin Blobs
  BY DEF TypesHold, Downloading, HubRemoves
<1>2. \A n \in Names : ino'[n] = IF n = hub.name THEN NoInode ELSE ino[n]
  BY DEF TypesHold, TypeInv, HubRemoves
<1>3. data' = data /\ hub'.at = "copying"
  BY DEF TypesHold, TypeInv, Downloads, HubRemoves
<1>4. BlobsOK' /\ PointersOK' /\ TempsOK'
  BY <1>1, <1>2, <1>3 DEF FilesOK, BlobsOK, PointersOK, TempsOK, BlobRotten, Exists, Reads, Names,
                          Temps
<1>5. \A p \in Pointers : NotBetter(p) => NotBetter(p)'
  BY <1>1, <1>2, <1>3 DEF NotBetter, BlobRotten, Exists, Reads, Names
<1> QED  BY <1>3, <1>4, <1>5 DEF Kept, FilesOK, WritingOK

LEMMA HubCreatesKeeps ==
  ASSUME TypesHold, FilesOK, NEW x \in Inodes, HubCreates(x)
  PROVE  Kept
<1>1. hub.name \in Pointers /\ hub.name \notin Temps /\ hub.name \notin Blobs /\ x \in Free
  BY DEF TypesHold, Downloading, HubCreates
<1>2. \A n \in Names : ino'[n] = IF n = hub.name THEN x ELSE ino[n]
  BY DEF TypesHold, TypeInv, HubCreates, Create
<1>3. \A n \in Names : n # hub.name /\ Exists(n) => Reads(n)' = Reads(n)
  BY <1>1, <1>2, FreeIsNobodys DEF TypesHold, TypeInv, HubCreates, Create, Exists, Reads
<1>4. \A n \in Names : n # hub.name => Exists(n)' = Exists(n)
  BY <1>2 DEF Exists
<1>5. Exists(hub.name) = FALSE /\ data'[ino'[hub.name]] = Torn
  BY <1>1, <1>2 DEF TypesHold, TypeInv, HubCreates, Create, Names
<1>6. hub'.name = hub.name /\ hub'.file = x
  BY DEF TypesHold, TypeInv, Downloads, HubCreates
<1>7. BlobsOK' /\ TempsOK'
  BY <1>1, <1>3, <1>4 DEF FilesOK, BlobsOK, TempsOK, BlobRotten, Names, Temps
<1>8. PointersOK'
  BY <1>1, <1>3, <1>4, <1>5 DEF FilesOK, PointersOK, Reads, Names
<1>9. WritingOK'
  BY <1>1, <1>2, <1>6, FreeIsNobodys DEF WritingOK
<1>10. \A p \in Pointers : NotBetter(p) => NotBetter(p)'
  BY <1>1, <1>3, <1>4, <1>5 DEF NotBetter, BlobRotten, Reads, Names
<1> QED  BY <1>7, <1>8, <1>9, <1>10 DEF Kept, FilesOK

LEMMA HubWritesKeeps ==
  ASSUME TypesHold, FilesOK, ContentsDiffer, HubWrites
  PROVE  Kept
<1>1. PICK p0 \in Pointers : p0 = hub.name
  BY DEF TypesHold, Downloading, HubWrites
<1>2. ino' = ino /\ hub.file \in Inodes /\ BlobOf[p0] \in Blobs /\ Exists(BlobOf[p0])
  BY <1>1 DEF TypesHold, Downloading, HubWrites
<1>3. \A n \in Names : Exists(n) /\ n # p0 => Reads(n)' = Reads(n)
  BY <1>1, <1>2 DEF TypesHold, TypeInv, FilesOK, WritingOK, HubWrites, Exists, Reads
<1>4. Reads(p0)' \in {Reads(p0), Reads(BlobOf[p0])}
  BY <1>1 DEF TypesHold, TypeInv, HubWrites, Exists, Reads
<1>5. \A n \in Names : Exists(n)' = Exists(n)
  BY <1>2 DEF Exists
<1>6. BlobsOK' /\ TempsOK'
  BY <1>1, <1>3, <1>5 DEF FilesOK, BlobsOK, TempsOK, BlobRotten, Names, Temps
<1>7. PointersOK'
  BY <1>1, <1>2, <1>3, <1>4, <1>5 DEF FilesOK, PointersOK, BlobsOK, Names
<1>8. WritingOK'
  BY DEF HubWrites, WritingOK, Idle
<1>9. \A b \in Blobs : BlobRotten(b)' = BlobRotten(b)
  BY <1>1, <1>3, <1>5 DEF BlobRotten, Names
<1>10. \A p \in Pointers : NotBetter(p) => NotBetter(p)'
  <2>1. SUFFICES ASSUME NEW p \in Pointers, NotBetter(p), Exists(p)', BlobRotten(BlobOf[p])'
                 PROVE  Reads(p)' # Named[BlobOf[p]]
    BY DEF NotBetter
  <2>2. Exists(p) /\ BlobRotten(BlobOf[p]) /\ p \in Names
    BY <1>5, <1>9, <2>1 DEF Names
  <2>3. CASE p = p0
    BY <1>1, <1>2, <1>4, <2>1, <2>2, <2>3 DEF NotBetter, BlobRotten
  <2>4. CASE p # p0
    BY <1>3, <2>1, <2>2, <2>4 DEF NotBetter
  <2> QED  BY <2>3, <2>4
<1> QED  BY <1>6, <1>7, <1>8, <1>10 DEF Kept, FilesOK

LEMMA ChunkedPublishesKeeps ==
  ASSUME TypesHold, FilesOK, NEW x \in Inodes, ChunkedPublishes(x)
  PROVE  Kept
<1>1. PICK b0 \in Blobs : b0 = BlobOf[chunked.name]
  BY DEF TypesHold, Downloading, ChunkedPublishes
<1>2. x \in Free /\ b0 \notin Pointers /\ b0 \notin Temps /\ hub' = hub
  BY <1>1 DEF ChunkedPublishes
<1>3. \A n \in Names : ino'[n] = IF n = b0 THEN x ELSE ino[n]
  BY <1>1 DEF TypesHold, TypeInv, ChunkedPublishes, Create
<1>4. \A n \in Names : n # b0 /\ Exists(n)' => Exists(n) /\ Reads(n)' = Reads(n)
  BY <1>1, <1>2, <1>3, FreeIsNobodys
  DEF TypesHold, TypeInv, ChunkedPublishes, Create, Exists, Reads
<1>5. Reads(b0)' = Named[b0]
  BY <1>1, <1>3 DEF TypesHold, TypeInv, ChunkedPublishes, Create, Reads, Names
<1>6. \A b \in Blobs : BlobRotten(b)' => BlobRotten(b)
  BY <1>1, <1>4, <1>5 DEF BlobRotten, Names
<1>7. BlobsOK' /\ PointersOK'
  BY <1>1, <1>2, <1>4, <1>5 DEF FilesOK, BlobsOK, PointersOK, Names
<1>8. TempsOK'
  BY <1>2, <1>4, <1>6 DEF FilesOK, TempsOK, Names, Temps
<1>9. WritingOK'
  BY <1>2, <1>3, FreeIsNobodys DEF FilesOK, WritingOK
<1>10. \A p \in Pointers : NotBetter(p) => NotBetter(p)'
  BY <1>2, <1>4, <1>6 DEF NotBetter, Names
<1> QED  BY <1>7, <1>8, <1>9, <1>10 DEF Kept, FilesOK

LEMMA ChunkedPointsKeeps ==
  ASSUME TypesHold, FilesOK, ContentsDiffer, ChunkedPoints
  PROVE  Kept
<1>1. PICK p0 \in Pointers : p0 = chunked.name
  BY DEF TypesHold, Downloading, ChunkedPoints
<1> DEFINE b0 == BlobOf[p0]
<1>2. b0 \in Blobs /\ data' = data /\ hub' = hub
  BY <1>1 DEF ChunkedPoints
<1>3. \A n \in Names : ino'[n] = IF n = p0 /\ ~Exists(p0) THEN ino[b0] ELSE ino[n]
  BY <1>1 DEF TypesHold, TypeInv, ChunkedPoints
<1>4. p0 \notin Temps /\ p0 \notin Blobs
  OBVIOUS
<1>5. \A n \in Names : n # p0 => Exists(n)' = Exists(n) /\ Reads(n)' = Reads(n)
  BY <1>2, <1>3 DEF Exists, Reads
<1>6. Exists(p0)' =>
        \/ Exists(p0) /\ Reads(p0)' = Reads(p0)
        \/ Exists(b0) /\ Reads(p0)' = Reads(b0)
  BY <1>2, <1>3 DEF Exists, Reads, Names
<1>7. \A b \in Blobs : BlobRotten(b)' = BlobRotten(b)
  BY <1>4, <1>5 DEF BlobRotten, Names
<1>8. BlobsOK' /\ PointersOK'
  BY <1>2, <1>4, <1>5, <1>6 DEF FilesOK, BlobsOK, PointersOK, Names
<1>9. TempsOK'
  BY <1>4, <1>5, <1>7 DEF FilesOK, TempsOK, Names, Temps
<1>10. WritingOK'
  <2>1. SUFFICES ASSUME hub.at = "writing", NEW n \in Names, ino'[n] = hub.file
                 PROVE  n = hub.name
    BY <1>2 DEF WritingOK
  <2>2. ino[b0] # hub.file
    BY <1>2, <2>1 DEF TypesHold, Downloading, FilesOK, WritingOK, Names
  <2> QED  BY <1>3, <2>1, <2>2 DEF FilesOK, WritingOK
<1>11. \A p \in Pointers : NotBetter(p) => NotBetter(p)'
  <2>1. SUFFICES ASSUME NEW p \in Pointers, NotBetter(p), Exists(p)', BlobRotten(BlobOf[p])'
                 PROVE  Reads(p)' # Named[BlobOf[p]]
    BY DEF NotBetter
  <2>2. BlobRotten(BlobOf[p]) /\ p \in Names
    BY <1>7, <2>1 DEF Names
  <2>3. CASE p = p0
    BY <1>2, <1>6, <2>1, <2>2, <2>3 DEF NotBetter, BlobRotten
  <2>4. CASE p # p0
    BY <1>5, <2>1, <2>2, <2>4 DEF NotBetter
  <2> QED  BY <2>3, <2>4
<1> QED  BY <1>8, <1>9, <1>10, <1>11 DEF Kept, FilesOK

LEMMA StepKeepsFiles ==
  ASSUME TypesHold, FilesOK, ContentsDiffer, \A d \in Processes : LinkOK(d), Next
  PROVE  Kept
<1>1. CASE \E d \in Processes : StageLink(d) \/ RenameLink(d)
  BY <1>1, StageKeeps, RenameKeeps
<1>2. CASE HubRemoves \/ HubWrites \/ ChunkedPoints
           \/ \E x \in Inodes : HubCreates(x) \/ ChunkedPublishes(x)
  BY <1>2, HubRemovesKeeps, HubWritesKeeps, ChunkedPointsKeeps, HubCreatesKeeps,
     ChunkedPublishesKeeps
<1>3. ASSUME NEW d \in Processes, Step(d) \/ Killed(d), ~StageLink(d), ~RenameLink(d)
      PROVE  Kept
  <2>1. hub' = hub
    BY <1>3 DEF Step, LinkOver, Compare, PlanDedupe, Sweep, SweepEnds, DedupeEnds, SkipInProgress,
       Choose, LinkFresh, CompareEqual, CompareDiffers, NoneEqual, NothingToLink, CheckIdentity,
       StageFails, RenameDoesNothing, TidyLink, Killed, downloads
  <2>2. UNCHANGED <<ino, data>> \/ \E t \in Temps : LinkRemoved(t)
    <3>1. TidyLink(d) => Temp(d) \in Temps
      BY DEF TypesHold, Chosen, TidyLink, Temp, Temps
    <3> QED  BY <1>3, <3>1
       DEF Step, LinkOver, Compare, PlanDedupe, Sweep, SweepEnds, DedupeEnds, SkipInProgress,
       Choose, LinkFresh, CompareEqual, CompareDiffers, NoneEqual, NothingToLink, CheckIdentity,
       StageFails, RenameDoesNothing, TidyLink, Killed, LinkRemoved, files
  <2>3. CASE UNCHANGED <<ino, data>>
    BY <2>1, <2>3 DEF Kept, FilesOK, BlobsOK, PointersOK, TempsOK, WritingOK, NotBetter,
                      BlobRotten, Exists, Reads
  <2> QED  BY <2>1, <2>2, <2>3, RemovalKeeps
<1>4. CASE HubFails \/ (\E p \in Pointers, lock \in BOOLEAN : HubBegins(p, lock))
           \/ (\E p \in Pointers : ChunkedBegins(p)) \/ ChunkedInterrupted \/ PartialCleaned
  <2>1. UNCHANGED <<ino, data>> /\ (hub' = hub \/ hub'.at # "writing")
    BY <1>4 DEF HubFails, HubEnds, HubBegins, ChunkedBegins, ChunkedInterrupted, PartialCleaned,
                Idle, files
  <2> QED  BY <2>1 DEF Kept, FilesOK, BlobsOK, PointersOK, TempsOK, WritingOK, NotBetter,
                       BlobRotten, Exists, Reads
<1> QED  BY <1>1, <1>2, <1>3, <1>4 DEF Next, Hub, Chunked

\* A process comes to link_over with a blob it found equal, and keeps to it.
LEMMA StepKeepsChoice ==
  ASSUME TypesHold, NEW e \in Processes, Next,
         pc'[e] \in {"linking", "staging", "renaming", "tidying"}
  PROVE  \/ /\ pc[e] \in {"linking", "staging", "renaming", "tidying"}
            /\ copy'[e] = copy[e] /\ blob'[e] = blob[e]
         \/ /\ copy'[e] = copy[e] /\ copy[e] \in Pointers /\ blob'[e] \in Blobs
            /\ Exists(copy[e]) /\ Exists(blob'[e]) /\ Reads(copy[e]) = Reads(blob'[e])
            /\ ino' = ino /\ data' = data
<1>1. CASE Hub \/ Chunked
  BY <1>1 DEF Hub, HubBegins, HubCreates, HubRemoves, HubWrites, HubFails, HubEnds, Chunked,
         ChunkedBegins, ChunkedPublishes, ChunkedPoints, ChunkedInterrupted, PartialCleaned,
         Unchanging, work
<1>2. ASSUME NEW d \in Processes, NEW b \in Blobs, NEW verify \in BOOLEAN,
             CompareEqual(d, b, verify), d = e
      PROVE  /\ copy'[e] = copy[e] /\ copy[e] \in Pointers /\ blob'[e] \in Blobs
             /\ Exists(copy[e]) /\ Exists(blob'[e]) /\ Reads(copy[e]) = Reads(blob'[e])
             /\ ino' = ino /\ data' = data
  <2>1. Confirmed(d, b, verify)
    BY <1>2 DEF TypesHold, TypeInv, CompareEqual, NextCandidate, Goto
  <2> QED  BY <1>2, <2>1 DEF TypesHold, TypeInv, Chosen, CompareEqual, files
<1>3. ASSUME NEW d \in Processes, d # e, Step(d) \/ Killed(d)
      PROVE  pc'[e] = pc[e] /\ copy'[e] = copy[e] /\ blob'[e] = blob[e]
  BY <1>3 DEF TypesHold, TypeInv, Step, LinkOver, Compare, PlanDedupe, Sweep, SweepEnds,
       DedupeEnds, SkipInProgress, Choose, LinkFresh, CompareEqual, CompareDiffers, NoneEqual,
       NothingToLink, CheckIdentity, StageLink, StageFails, RenameLink, RenameDoesNothing,
       TidyLink, NextCandidate, Killed, Goto, work
<1>4. CASE \/ PlanDedupe(e) \/ (\E t \in Temps : Sweep(e, t)) \/ SweepEnds(e) \/ DedupeEnds(e)
           \/ (\E c \in Candidates : SkipInProgress(e, c) \/ Choose(e, c))
           \/ (\E p \in Pointers : LinkFresh(e, p))
           \/ (\E b \in Blobs : CompareDiffers(e, b)) \/ NoneEqual(e) \/ Killed(e)
  <2>1. pc'[e] \notin {"linking", "staging", "renaming", "tidying"}
    BY <1>4 DEF TypesHold, TypeInv, PlanDedupe, Sweep, SweepEnds, DedupeEnds, SkipInProgress,
       Choose, LinkFresh, CompareDiffers, NoneEqual, NextCandidate, Killed, Goto
  <2> QED  BY <2>1
<1>5. CASE LinkOver(e)
  BY <1>5 DEF TypesHold, TypeInv, LinkOver, NothingToLink, CheckIdentity, StageLink, StageFails,
       RenameLink, RenameDoesNothing, TidyLink, NextCandidate, Goto, work
<1> QED  BY <1>1, <1>2, <1>3, <1>4, <1>5 DEF Next, Step, Compare

LEMMA LinkChoiceKeeps ==
  ASSUME TypesHold, FilesOK, ContentsDiffer, \A d \in Processes : LinkOK(d), Next,
         NEW e \in Processes
  PROVE  LinkOK(e)'
<1> USE DEF NotBetter, BlobRotten
<1> SUFFICES ASSUME pc'[e] \in {"linking", "staging", "renaming", "tidying"}
             PROVE  blob'[e] = BlobOf[copy'[e]] /\ NotBetter(copy[e])'
  BY DEF LinkOK
<1>1. PICK c \in Pointers : c = copy[e] /\ copy'[e] = c
  BY StepKeepsChoice DEF TypesHold, Chosen
<1>2. SUFFICES blob'[e] = BlobOf[c] /\ NotBetter(c)'
  BY <1>1 DEF Exists, Reads
<1>3. CASE /\ pc[e] \in {"linking", "staging", "renaming", "tidying"}
           /\ blob'[e] = blob[e]
  BY <1>1, <1>3, StepKeepsFiles DEF LinkOK, Kept
<1>4. CASE /\ blob'[e] \in Blobs
           /\ Exists(c) /\ Exists(blob'[e]) /\ Reads(c) = Reads(blob'[e])
           /\ ino' = ino /\ data' = data
  <2>1. PICK b \in Blobs : b = blob'[e]
    BY <1>4
  <2>2. b = BlobOf[c]
    BY <1>4, <2>1 DEF FilesOK, BlobsOK, PointersOK, ContentsDiffer
  <2>3. NotBetter(c)
    BY <1>4, <2>1, <2>2 DEF ContentsDiffer
  <2> QED  BY <1>4, <2>1, <2>2, <2>3 DEF Exists, Reads
<1> QED  BY <1>1, <1>3, <1>4, StepKeepsChoice

\* Pointers that a step of a deduplication does not replace it does not touch.
LEMMA OnlyRenamesReplace ==
  ASSUME TypesHold, NEW d \in Processes, Step(d), NEW p \in Pointers,
         ~(RenameLink(d) /\ copy[d] = p)
  PROVE  ino'[p] = ino[p] /\ data' = data
<1>1. CASE StageLink(d) \/ TidyLink(d) \/ RenameLink(d)
  <2>1. Temp(d) \in Temps
    BY <1>1 DEF TypesHold, Chosen, StageLink, TidyLink, RenameLink, Temp, Temps
  <2> QED  BY <1>1, <2>1 DEF TypesHold, TypeInv, StageLink, TidyLink, RenameLink, Names
<1>2. ASSUME NEW t \in Temps, Sweep(d, t)
      PROVE  ino'[p] = ino[p] /\ data' = data
  BY <1>2 DEF TypesHold, TypeInv, Sweep, Names
<1>3. CASE UNCHANGED <<ino, data>>
  BY <1>3
<1> QED  BY <1>1, <1>2, <1>3
   DEF Step, LinkOver, Compare, PlanDedupe, SweepEnds, DedupeEnds, SkipInProgress, Choose,
       LinkFresh, CompareEqual, CompareDiffers, NoneEqual, NothingToLink, CheckIdentity,
       StageFails, RenameDoesNothing, files

LEMMA RenameIsGood ==
  ASSUME TypesHold, FilesOK, NEW d \in Processes, LinkOK(d), RenameLink(d),
         Exists(copy[d]), NEW c \in Pointers, c = copy[d]
  PROVE  /\ Exists(c)'
         /\ \/ Reads(c) = Named[BlobOf[c]] => Reads(c)' = Named[BlobOf[c]]
            \/ Outdated(d)
<1>1. Temp(d) \in Temps /\ blob[d] = BlobOf[c] /\ blob[d] \in Blobs /\ NotBetter(c)
  BY DEF TypesHold, Chosen, LinkOK, RenameLink, Temp, Temps
<1>2. ino'[c] = ino[Temp(d)] /\ data' = data /\ Exists(Temp(d))
  BY <1>1 DEF TypesHold, TypeInv, RenameLink, Names
<1>3. CASE ino[Temp(d)] = ino[blob[d]]
  BY <1>1, <1>2, <1>3 DEF FilesOK, BlobsOK, NotBetter, BlobRotten, Exists, Reads
<1>4. CASE ino[Temp(d)] # ino[blob[d]]
  BY <1>2, <1>4 DEF Outdated, Exists
<1> QED  BY <1>3, <1>4

\* No step of a deduplication makes a pointer go missing or takes the right
\* contents from it, whatever downloads and other processes do, if contents
\* are told apart by what they are the contents of.
THEOREM GoodPointersAreKept ==
  ASSUME ContentsDiffer
  PROVE  Spec => GoodPointersKept
<1> DEFINE AllOK == FilesOK /\ \A d \in Processes : LinkOK(d)
<1>1. Init => AllOK
  <2>1. Init => BlobsOK /\ PointersOK
    BY DEF Init, BlobsOK, PointersOK
  <2>2. Init => TempsOK
    BY DEF Init, TempsOK, Exists, Names, Temps
  <2>3. Init => WritingOK /\ \A d \in Processes : LinkOK(d)
    BY DEF Init, WritingOK, LinkOK, Idle
  <2> QED  BY <2>1, <2>2, <2>3 DEF FilesOK
<1>2. TypesHold /\ AllOK /\ [Next]_vars => AllOK'
  <2>1. CASE UNCHANGED vars
    BY <2>1 DEF FilesOK, BlobsOK, PointersOK, TempsOK, WritingOK, LinkOK, NotBetter, BlobRotten,
                Exists, Reads, vars, files, work, downloads
  <2>2. CASE Next
    BY <2>2, StepKeepsFiles, LinkChoiceKeeps DEF Kept
  <2> QED  BY <2>1, <2>2
<1>3. TypesHold /\ AllOK /\ [Next]_vars =>
        [\A d \in Processes : Step(d) =>
           \A p \in Pointers : Exists(p) =>
             /\ Exists(p)'
             /\ \/ Reads(p) = Named[BlobOf[p]] => Reads(p)' = Named[BlobOf[p]]
                \/ RenameLink(d) /\ Outdated(d)]_vars
  <2>1. SUFFICES ASSUME TypesHold, AllOK, NEW d \in Processes, Step(d), NEW p \in Pointers, Exists(p)
                 PROVE  /\ Exists(p)'
                        /\ \/ Reads(p) = Named[BlobOf[p]] => Reads(p)' = Named[BlobOf[p]]
                           \/ RenameLink(d) /\ Outdated(d)
    OBVIOUS
  <2>2. CASE RenameLink(d) /\ copy[d] = p
    BY <2>1, <2>2, RenameIsGood
  <2>3. CASE ~(RenameLink(d) /\ copy[d] = p)
    BY <2>1, <2>3, OnlyRenamesReplace DEF Exists, Reads
  <2> QED  BY <2>2, <2>3
<1> QED  BY <1>1, <1>2, <1>3, DedupeTypes, PTL DEF Spec, GoodPointersKept
=============================================================================
