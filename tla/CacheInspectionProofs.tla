------------------------- MODULE CacheInspectionProofs -------------------------
(***************************************************************************)
(* Proofs about what tells the state of the cache: DiskUsage, for any      *)
(* directories, lengths and order in which the names are read, and         *)
(* CacheAudit, for any files, listings, commits and contents.  The two     *)
(* share no state; the module has one specification of each.               *)
(***************************************************************************)
EXTENDS DiskUsage, CacheAudit, FiniteSums

\* The entries that are links to a member of S.
Links(S) == {Link(x) : x \in S}

\* What is in the directories: WalkInit's, which nothing changes.
Layout ==
  /\ DOMAIN at = Names
  /\ \A b \in Blobs : at[b] \in {Nothing} \cup Files \cup Links(Payloads)
  /\ \A b \in Partials : at[b] \in {Nothing} \cup Files
  /\ \A e \in Entries : at[e] \in {Nothing} \cup Files \cup Links(Blobs \ Partials)
  /\ \A o \in Others : at[o] \in {Nothing} \cup Files
  /\ \A n, m \in Names : n # m /\ IsFile(n) /\ at[n] = at[m] =>
       {n, m} \cap Entries # {} /\ {n, m} \cap (Others \cup Partials) = {}

\* What each variable of the walk holds.
TypeOK ==
  /\ phase \in {"blobs", "snapshots", "others", "pairing", "done"}
  /\ todo \subseteq CASE phase = "blobs" -> Blobs
                      [] phase = "snapshots" -> Entries
                      [] phase = "others" -> Others
                      [] OTHER -> records \ Partials
  /\ phase = "done" => todo = {}
  /\ seen \subseteq Inodes \cup Payloads /\ paid \subseteq Payloads
  /\ {total, shared, partial, bookkeeping, duplicated, orphan} \subseteq Int
  /\ copies \subseteq Entries

\* The names that are not walked yet.
Unread ==
  CASE phase = "blobs" -> todo \cup Entries \cup Others
    [] phase = "snapshots" -> todo \cup Others
    [] phase = "others" -> todo
    [] OTHER -> {}

Walked == Names \ Unread

\* The files, and the payloads, that are under some name of S.
FilesOf(S) == {x \in Inodes : \E n \in S : at[n] = File(x)}
PaidBy(S) == {p \in Payloads : \E n \in S : at[n] = Link(p)}

\* What the walk has charged is each file it has met, once.
Charged ==
  /\ seen \cap Inodes = FilesOf(Walked)
  /\ paid = PaidBy(Walked \cap Blobs)
  /\ shared = Bytes(paid)
  /\ total = Bytes(FilesOf(Walked)) + Bytes(paid)
  /\ partial = Bytes(FilesOf(Walked \cap Partials))
  /\ bookkeeping = Bytes(FilesOf(Walked \cap Others))

\* What it has found: the blobs, and what the entries lead to.
Findings ==
  /\ records = {b \in Walked \cap Blobs : IsFile(b)}
  /\ ids = UNION {Resolved(e) : e \in Walked \cap Entries}
  /\ targets = {b \in Blobs : \E e \in Walked \cap Entries : at[e] = Link(b)}

\* The files that only entries are names of, among those of S.
CopiedIn(S) == FilesOf(S \cap Entries) \ FilesOf(Blobs)

\* A copy is kept for each file that only entries are names of, until it is
\* taken for a blob.
SoleCopies ==
  /\ \A e \in copies : \E x \in CopiedIn(Walked) : at[e] = File(x)
  /\ \A e, f \in copies : e # f => at[e] # at[f]
  /\ duplicated + Bytes(FilesOf(copies)) = Bytes(CopiedIn(Walked))

\* The blobs that pairing has dealt with and that no entry leads to.
Unpointed ==
  {b \in Blobs \ Partials : IsFile(b) /\ at[b].ino \notin ids}

\* Those of them that are dealt with already.
Dealt == IF phase \in {"pairing", "done"} THEN Unpointed \ todo ELSE {}

\* What is called a duplicate or an orphan is their bytes.
Paired == duplicated + orphan = Bytes(FilesOf(Dealt))

\* The inductive invariant.
IInv == Layout /\ TypeOK /\ Charged /\ Findings /\ SoleCopies /\ Paired

USE UsageAssumption

Things == Inodes \cup Payloads

-----------------------------------------------------------------------------
(* Sums of lengths.                                                         *)

\* Any set of files has a size.
LEMMA BytesType ==
  ASSUME NEW S \in SUBSET Things
  PROVE  IsFiniteSet(S) /\ Bytes(S) \in Nat /\ Bytes({}) = 0
<1>1. IsFiniteSet(Things)
  BY FS_Union DEF Things
<1>2. IsFiniteSet(S)
  BY <1>1, FS_Subset
<1>3. \A x \in S : LengthOf[x] \in Nat
  BY DEF Things
<1>4. SumOf(LengthOf, S) \in Nat /\ SumOf(LengthOf, {}) = 0
  BY <1>2, <1>3, SumNat, SumEmpty
<1>5. QED
  BY <1>2, <1>4 DEF Bytes, SumOf

\* A file more adds its length, and one that is there already nothing.
LEMMA BytesAdd ==
  ASSUME NEW S \in SUBSET Things, NEW x \in Things
  PROVE  /\ LengthOf[x] \in Nat
         /\ Bytes(S \cup {x}) = IF x \in S THEN Bytes(S) ELSE Bytes(S) + LengthOf[x]
<1>1. CASE x \in S
  <2>1. S \cup {x} = S
    BY <1>1
  <2>2. QED
    BY <1>1, <2>1 DEF Things
<1>2. CASE x \notin S
  <2>1. IsFiniteSet(S) /\ \A y \in S \cup {x} : LengthOf[y] \in Int
    BY BytesType DEF Things
  <2>2. SumOf(LengthOf, S \cup {x}) = LengthOf[x] + SumOf(LengthOf, S)
    BY <1>2, <2>1, SumAdd
  <2>3. Bytes(S \cup {x}) = LengthOf[x] + Bytes(S)
    BY <2>2 DEF Bytes, SumOf
  <2>4. Bytes(S) \in Nat /\ LengthOf[x] \in Nat
    BY BytesType DEF Things
  <2>5. QED
    BY <1>2, <2>3, <2>4
<1>3. QED
  BY <1>1, <1>2

\* Files that do not overlap add up.
LEMMA BytesUnion ==
  ASSUME NEW S \in SUBSET Things, NEW T \in SUBSET Things, S \cap T = {}
  PROVE  Bytes(S \cup T) = Bytes(S) + Bytes(T)
<1>1. IsFiniteSet(S) /\ IsFiniteSet(T) /\ \A x \in S \cup T : LengthOf[x] \in Int
  BY BytesType DEF Things
<1>2. SumOf(LengthOf, S \cup T) = SumOf(LengthOf, S) + SumOf(LengthOf, T)
  BY <1>1, SumUnion
<1>3. QED
  BY <1>2 DEF Bytes, SumOf
-----------------------------------------------------------------------------
(* The names.                                                               *)

\* A file, a link and nothing differ from each other.
LEMMA Kinds ==
  /\ \A x : File(x) # Nothing /\ Link(x) # Nothing
  /\ \A x, y : File(x) # Link(y)
  /\ \A x, y : File(x) = File(y) => x = y
  /\ \A x, y : Link(x) = Link(y) => x = y
  /\ \A x : File(x).is = "file" /\ File(x).ino = x
  /\ \A x : Link(x).is = "link" /\ Link(x).to = x
  /\ Nothing.is = "nothing"
BY DEF File, Link, Nothing

\* What there can be under the names of each directory.
LEMMA Shapes ==
  ASSUME Layout, NEW n \in Names
  PROVE  /\ IsFile(n) <=> \E x \in Inodes : at[n] = File(x)
         /\ IsFile(n) => at[n].ino \in Inodes /\ at[n] = File(at[n].ino)
         /\ IsFile(n) => ~IsLink(n)
         /\ IsLink(n) => at[n] = Link(at[n].to)
         /\ IsLink(n) /\ n \in Blobs => at[n].to \in Payloads /\ n \notin Partials
         /\ IsLink(n) /\ n \in Entries => at[n].to \in Blobs \ Partials
         /\ n \in Others => ~IsLink(n)
         /\ ~IsFile(n) /\ ~IsLink(n) => at[n] = Nothing
<1>1. CASE n \in Blobs
  BY <1>1, Kinds DEF Layout, IsFile, IsLink, Files, Links
<1>2. CASE n \in Entries
  BY <1>2, Kinds DEF Layout, IsFile, IsLink, Files, Links
<1>3. CASE n \in Others
  BY <1>3, Kinds DEF Layout, IsFile, IsLink, Files, Links
<1>4. QED
  BY <1>1, <1>2, <1>3 DEF Names

\* Which files are under a set of names, and under one name more.
LEMMA FilesAre ==
  ASSUME Layout
  PROVE  /\ \A S : FilesOf(S) \in SUBSET Inodes
         /\ \A S, n, x : x \in Inodes /\ at[n] = File(x) => FilesOf(S \cup {n}) = FilesOf(S) \cup {x}
         /\ \A S : \A n \in Names : ~IsFile(n) => FilesOf(S \cup {n}) = FilesOf(S)
         /\ \A S, T : FilesOf(S \cup T) = FilesOf(S) \cup FilesOf(T)
         /\ FilesOf({}) = {}
<1>1. \A S, n, x : x \in Inodes /\ at[n] = File(x) => FilesOf(S \cup {n}) = FilesOf(S) \cup {x}
  BY Kinds DEF FilesOf
<1>2. \A S : \A n \in Names : ~IsFile(n) => FilesOf(S \cup {n}) = FilesOf(S)
  BY Shapes DEF FilesOf
<1>3. QED
  BY <1>1, <1>2 DEF FilesOf

\* A blob's file is no other blob's, and a file of the rest, or a partial
\* download, is no other name's.
LEMMA OwnFiles ==
  ASSUME Layout, NEW n \in Names, NEW m \in Names, n # m, IsFile(n), at[n] = at[m]
  PROVE  /\ n \in Entries \/ m \in Entries
         /\ n \notin Others \cup Partials
         /\ m \notin Others \cup Partials
BY DEF Layout

\* What is walked, by phase.
LEMMA WalkedIs ==
  ASSUME TypeOK
  PROVE  /\ phase = "blobs" => todo \subseteq Blobs /\ Walked = Blobs \ todo
         /\ phase = "snapshots" => todo \subseteq Entries /\ Walked = Blobs \cup (Entries \ todo)
         /\ phase = "others" => todo \subseteq Others /\ Walked = Blobs \cup Entries \cup (Others \ todo)
         /\ phase \in {"pairing", "done"} => todo \subseteq records \ Partials /\ Walked = Names
BY DEF TypeOK, Walked, Unread, Names

\* Reading a name.
LEMMA ReadsOne ==
  ASSUME TypeOK, NEW n, Read(n), UNCHANGED phase,
         phase \in {"blobs", "snapshots", "others"}
  PROVE  /\ n \in Names /\ n \notin Walked /\ Walked' = Walked \cup {n}
         /\ phase = "blobs" <=> n \in Blobs
         /\ phase = "snapshots" <=> n \in Entries
         /\ phase = "others" <=> n \in Others
<1>1. CASE phase = "blobs"
  BY <1>1, WalkedIs DEF Read, Walked, Unread, Names
<1>2. CASE phase = "snapshots"
  BY <1>2, WalkedIs DEF Read, Walked, Unread, Names
<1>3. CASE phase = "others"
  BY <1>3, WalkedIs DEF Read, Walked, Unread, Names
<1>4. QED
  BY <1>1, <1>2, <1>3
-----------------------------------------------------------------------------
(* The walk.                                                                *)

\* No step of du changes the directories.
LEMMA LayoutKept == Layout /\ [WalkNext]_walkVars => Layout' /\ UNCHANGED at
<1> SUFFICES ASSUME Layout, [WalkNext]_walkVars PROVE Layout' /\ UNCHANGED at
  OBVIOUS
<1>1. UNCHANGED at
  BY DEF WalkNext, WalkBlob, WalkStoreLink, WalkCopy, WalkPointer, WalkOther, WalkNothing,
     NextDirectory, PairPointed, PairNone, PairCopy, WalkEnds, layout, walkVars
<1>2. QED
  BY <1>1 DEF Layout, IsFile

\* A file that is read is charged if it was not, and the walk has met it.
LEMMA ChargesFile ==
  ASSUME Layout, TypeOK, Charged, UNCHANGED <<at, phase, paid, shared>>,
         NEW n, Read(n), IsFile(n), phase \in {"blobs", "snapshots", "others"},
         seen' = seen \cup {at[n].ino}, total' = total + Charge(at[n].ino)
  PROVE  /\ seen' \cap Inodes = FilesOf(Walked)'
         /\ total' = Bytes(FilesOf(Walked))' + Bytes(paid)'
         /\ Charge(at[n].ino) = IF at[n].ino \in FilesOf(Walked) THEN 0 ELSE LengthOf[at[n].ino]
<1> DEFINE x == at[n].ino
<1>1. n \in Names /\ x \in Inodes /\ at[n] = File(x) /\ Walked' = Walked \cup {n}
  BY ReadsOne, Shapes
<1>2. FilesOf(Walked)' = FilesOf(Walked) \cup {x} /\ FilesOf(Walked) \in SUBSET Inodes
  <2>1. FilesOf(Walked)' = FilesOf(Walked')
    BY DEF FilesOf
  <2>2. FilesOf(Walked \cup {n}) = FilesOf(Walked) \cup {x}
    BY <1>1, FilesAre
  <2>3. FilesOf(Walked) \in SUBSET Inodes
    BY FilesAre
  <2>4. QED
    BY <1>1, <2>1, <2>2, <2>3
<1> HIDE DEF x
<1>3. x \in seen <=> x \in FilesOf(Walked)
  BY <1>1 DEF Charged
<1>4. Bytes(FilesOf(Walked) \cup {x}) =
        IF x \in FilesOf(Walked) THEN Bytes(FilesOf(Walked))
        ELSE Bytes(FilesOf(Walked)) + LengthOf[x]
  BY <1>1, <1>2, BytesAdd DEF Things
<1>5. Bytes(FilesOf(Walked)) \in Nat /\ Bytes(paid) \in Nat /\ LengthOf[x] \in Nat
  BY <1>1, <1>2, BytesType DEF Things, TypeOK
<1>6. total = Bytes(FilesOf(Walked)) + Bytes(paid)
  BY DEF Charged
<1>7. Bytes(FilesOf(Walked))' = Bytes(FilesOf(Walked) \cup {x}) /\ Bytes(paid)' = Bytes(paid)
  BY <1>2
<1>8. Charge(x) = IF x \in FilesOf(Walked) THEN 0 ELSE LengthOf[x]
  BY <1>3 DEF Charge, FirstSighting
<1>9. total' = total + Charge(x) /\ seen' = seen \cup {x}
  BY DEF x
<1>10. total' = Bytes(FilesOf(Walked))' + Bytes(paid)'
  BY <1>4, <1>5, <1>6, <1>7, <1>8, <1>9
<1>11. seen' \cap Inodes = FilesOf(Walked)'
  BY <1>1, <1>2, <1>9 DEF Charged
<1>12. QED
  BY <1>8, <1>10, <1>11 DEF x

\* Every step charges the files it meets for the first time, and no other.
LEMMA ChargedKept == Layout /\ TypeOK /\ Charged /\ [WalkNext]_walkVars => Charged'
<1> SUFFICES ASSUME Layout, TypeOK, Charged, [WalkNext]_walkVars PROVE Charged'
  OBVIOUS
<1>0. UNCHANGED at
  BY LayoutKept
<1>1. \A S : FilesOf(S) \in SUBSET Things
  BY DEF FilesOf, Things
<1>2. ASSUME UNCHANGED Walked, UNCHANGED charged PROVE Charged'
  <2>1. UNCHANGED <<seen, paid, total, shared, partial, bookkeeping>>
    BY <1>2 DEF charged
  <2>2. /\ FilesOf(Walked)' = FilesOf(Walked)
        /\ PaidBy(Walked \cap Blobs)' = PaidBy(Walked \cap Blobs)
        /\ FilesOf(Walked \cap Partials)' = FilesOf(Walked \cap Partials)
        /\ FilesOf(Walked \cap Others)' = FilesOf(Walked \cap Others)
    BY <1>0, <1>2 DEF FilesOf, PaidBy
  <2>3. QED
    BY <2>1, <2>2 DEF Charged
<1>3. ASSUME NEW b \in Blobs, WalkBlob(b) PROVE Charged'
  <2> DEFINE x == at[b].ino
  <2>1. /\ phase = "blobs" /\ Read(b) /\ IsFile(b) /\ UNCHANGED <<phase, paid, shared, bookkeeping>>
        /\ seen' = seen \cup {x} /\ total' = total + Charge(x)
        /\ partial' = IF b \in Partials THEN partial + Charge(x) ELSE partial
    BY <1>3 DEF WalkBlob
  <2>2. /\ seen' \cap Inodes = FilesOf(Walked)'
        /\ total' = Bytes(FilesOf(Walked))' + Bytes(paid)'
        /\ Charge(x) = IF x \in FilesOf(Walked) THEN 0 ELSE LengthOf[x]
    BY <1>0, <2>1, ChargesFile
  <2>3. /\ b \in Names /\ b \notin Walked /\ Walked' = Walked \cup {b}
        /\ x \in Inodes /\ at[b] = File(x)
    BY <2>1, ReadsOne, Shapes
  <2> HIDE DEF x
  <2>4. paid' = PaidBy(Walked \cap Blobs)' /\ shared' = Bytes(paid)'
    <3>1. PaidBy(Walked \cap Blobs)' = PaidBy(Walked \cap Blobs)
      BY <1>0, <2>3, Kinds DEF PaidBy
    <3>2. QED
      BY <2>1, <3>1 DEF Charged
  <2>5. bookkeeping' = Bytes(FilesOf(Walked \cap Others))'
    <3>1. FilesOf(Walked \cap Others)' = FilesOf(Walked \cap Others)
      BY <1>0, <1>3, <2>3 DEF FilesOf
    <3>2. QED
      BY <2>1, <3>1 DEF Charged
  <2>6. partial' = Bytes(FilesOf(Walked \cap Partials))'
    <3>1. CASE b \notin Partials
      <4>1. FilesOf(Walked \cap Partials)' = FilesOf(Walked \cap Partials)
        BY <1>0, <2>3, <3>1 DEF FilesOf
      <4>2. QED
        BY <2>1, <3>1, <4>1 DEF Charged
    <3>2. CASE b \in Partials
      <4>1. x \notin FilesOf(Walked)
        BY <2>1, <2>3, <3>2, OwnFiles DEF FilesOf, Walked
      <4>2. x \notin FilesOf(Walked \cap Partials) /\ FilesOf(Walked \cap Partials) \in SUBSET Things
        BY <1>1, <4>1 DEF FilesOf
      <4>3. FilesOf(Walked \cap Partials)' = FilesOf(Walked \cap Partials) \cup {x}
        BY <1>0, <2>3, <3>2, Kinds DEF FilesOf
      <4>4. Bytes(FilesOf(Walked \cap Partials))' = Bytes(FilesOf(Walked \cap Partials)) + LengthOf[x]
        BY <2>3, <4>2, <4>3, BytesAdd DEF Things
      <4>5. partial = Bytes(FilesOf(Walked \cap Partials)) /\ partial' = partial + LengthOf[x]
        BY <2>1, <2>2, <3>2, <4>1 DEF Charged
      <4>6. QED
        BY <4>4, <4>5
    <3>3. QED
      BY <3>1, <3>2
  <2>7. QED
    BY <2>2, <2>4, <2>5, <2>6 DEF Charged
<1>4. ASSUME NEW b \in Blobs, WalkStoreLink(b) PROVE Charged'
  <2> DEFINE p == at[b].to
             charge == IF p \in paid THEN 0 ELSE LengthOf[p]
  <2>1. /\ phase = "blobs" /\ Read(b) /\ IsLink(b) /\ UNCHANGED <<phase, partial, bookkeeping>>
        /\ seen' = seen \cup {p} /\ paid' = paid \cup {p}
        /\ total' = total + charge /\ shared' = shared + charge
    BY <1>4 DEF WalkStoreLink, found
  <2>2. /\ b \in Names /\ Walked' = Walked \cup {b} /\ p \in Payloads /\ at[b] = Link(p)
        /\ b \notin Partials
    BY <1>4, <2>1, ReadsOne, Shapes DEF Names
  <2> HIDE DEF p
  <2>3. /\ FilesOf(Walked)' = FilesOf(Walked)
        /\ FilesOf(Walked \cap Partials)' = FilesOf(Walked \cap Partials)
        /\ FilesOf(Walked \cap Others)' = FilesOf(Walked \cap Others)
    BY <1>0, <2>2, Kinds DEF FilesOf
  <2>4. PaidBy(Walked \cap Blobs)' = PaidBy(Walked \cap Blobs) \cup {p}
    BY <1>0, <1>4, <2>2, Kinds DEF PaidBy
  <2>5. Bytes(paid)' = Bytes(paid) + charge
    <3>1. paid \in SUBSET Things /\ p \in Things
      BY <2>2 DEF TypeOK, Things
    <3>2. Bytes(paid \cup {p}) = IF p \in paid THEN Bytes(paid) ELSE Bytes(paid) + LengthOf[p]
      BY <3>1, BytesAdd
    <3>3. Bytes(paid) \in Nat
      BY <3>1, BytesType
    <3>4. Bytes(paid)' = Bytes(paid \cup {p})
      BY <2>1
    <3>5. QED
      BY <3>2, <3>3, <3>4
  <2>6. charge \in Nat /\ Bytes(FilesOf(Walked)) \in Nat /\ Bytes(paid) \in Nat
    BY <1>1, <2>2, BytesType DEF TypeOK, Things
  <2> HIDE DEF charge
  <2>7. shared' = Bytes(paid)' /\ total' = Bytes(FilesOf(Walked))' + Bytes(paid)'
    BY <2>1, <2>3, <2>5, <2>6 DEF Charged
  <2>8. seen' \cap Inodes = FilesOf(Walked)'
    BY <2>1, <2>2, <2>3 DEF Charged
  <2>9. paid' = PaidBy(Walked \cap Blobs)'
    BY <2>1, <2>4 DEF Charged
  <2>10. QED
    BY <2>1, <2>3, <2>7, <2>8, <2>9 DEF Charged
<1>5. ASSUME NEW e \in Entries, WalkCopy(e) PROVE Charged'
  <2> DEFINE x == at[e].ino
  <2>1. /\ phase = "snapshots" /\ Read(e) /\ IsFile(e)
        /\ UNCHANGED <<phase, paid, shared, partial, bookkeeping>>
        /\ seen' = seen \cup {x} /\ total' = total + Charge(x)
    BY <1>5 DEF WalkCopy
  <2>2. /\ seen' \cap Inodes = FilesOf(Walked)'
        /\ total' = Bytes(FilesOf(Walked))' + Bytes(paid)'
    BY <1>0, <2>1, ChargesFile
  <2>3. Walked' = Walked \cup {e} /\ e \notin Blobs \cup Others
    BY <1>5, <2>1, ReadsOne
  <2>4. /\ PaidBy(Walked \cap Blobs)' = PaidBy(Walked \cap Blobs)
        /\ FilesOf(Walked \cap Partials)' = FilesOf(Walked \cap Partials)
        /\ FilesOf(Walked \cap Others)' = FilesOf(Walked \cap Others)
    BY <1>0, <2>3 DEF FilesOf, PaidBy
  <2> HIDE DEF x
  <2>5. QED
    BY <2>1, <2>2, <2>4 DEF Charged
<1>6. ASSUME NEW e \in Entries, WalkPointer(e) PROVE Charged'
  <2>1. /\ phase = "snapshots" /\ Read(e) /\ IsLink(e) /\ UNCHANGED <<phase, charged>>
    BY <1>6 DEF WalkPointer
  <2>2. Walked' = Walked \cup {e} /\ e \notin Blobs \cup Others /\ ~IsFile(e) /\ e \in Names
    BY <1>6, <2>1, ReadsOne, Shapes
  <2>3. /\ PaidBy(Walked \cap Blobs)' = PaidBy(Walked \cap Blobs)
        /\ FilesOf(Walked \cap Partials)' = FilesOf(Walked \cap Partials)
        /\ FilesOf(Walked \cap Others)' = FilesOf(Walked \cap Others)
    BY <1>0, <2>2 DEF FilesOf, PaidBy
  <2>4. FilesOf(Walked)' = FilesOf(Walked)
    BY <1>0, <2>2, Shapes DEF FilesOf
  <2>5. UNCHANGED <<seen, paid, total, shared, partial, bookkeeping>>
    BY <2>1 DEF charged
  <2>6. QED
    BY <2>3, <2>4, <2>5 DEF Charged
<1>7. ASSUME NEW o \in Others, WalkOther(o) PROVE Charged'
  <2> DEFINE x == at[o].ino
  <2>1. /\ phase = "others" /\ Read(o) /\ IsFile(o) /\ UNCHANGED <<phase, paid, shared, partial>>
        /\ seen' = seen \cup {x} /\ total' = total + Charge(x)
        /\ bookkeeping' = bookkeeping + Charge(x)
    BY <1>7 DEF WalkOther
  <2>2. /\ seen' \cap Inodes = FilesOf(Walked)'
        /\ total' = Bytes(FilesOf(Walked))' + Bytes(paid)'
        /\ Charge(x) = IF x \in FilesOf(Walked) THEN 0 ELSE LengthOf[x]
    BY <1>0, <2>1, ChargesFile
  <2>3. /\ o \in Names /\ o \notin Walked /\ Walked' = Walked \cup {o} /\ o \notin Blobs
        /\ x \in Inodes /\ at[o] = File(x)
    BY <2>1, ReadsOne, Shapes
  <2> HIDE DEF x
  <2>4. /\ PaidBy(Walked \cap Blobs)' = PaidBy(Walked \cap Blobs)
        /\ FilesOf(Walked \cap Partials)' = FilesOf(Walked \cap Partials)
    BY <1>0, <2>3 DEF FilesOf, PaidBy
  <2>5. x \notin FilesOf(Walked)
    BY <1>7, <2>1, <2>3, OwnFiles DEF FilesOf, Walked
  <2>6. x \notin FilesOf(Walked \cap Others) /\ FilesOf(Walked \cap Others) \in SUBSET Things
    BY <1>1, <2>5 DEF FilesOf
  <2>7. FilesOf(Walked \cap Others)' = FilesOf(Walked \cap Others) \cup {x}
    BY <1>0, <1>7, <2>3, Kinds DEF FilesOf
  <2>8. Bytes(FilesOf(Walked \cap Others))' = Bytes(FilesOf(Walked \cap Others)) + LengthOf[x]
    BY <2>3, <2>6, <2>7, BytesAdd DEF Things
  <2>9. bookkeeping = Bytes(FilesOf(Walked \cap Others)) /\ bookkeeping' = bookkeeping + LengthOf[x]
    BY <2>1, <2>2, <2>5 DEF Charged
  <2>10. bookkeeping' = Bytes(FilesOf(Walked \cap Others))'
    BY <2>8, <2>9
  <2>11. QED
    BY <2>1, <2>2, <2>4, <2>10 DEF Charged
<1>8. ASSUME NEW n \in Names, WalkNothing(n) PROVE Charged'
  <2>1. Walked' = Walked \cup {n} /\ at[n] = Nothing /\ UNCHANGED charged
    BY <1>8, ReadsOne DEF WalkNothing
  <2>2. /\ FilesOf(Walked)' = FilesOf(Walked)
        /\ PaidBy(Walked \cap Blobs)' = PaidBy(Walked \cap Blobs)
        /\ FilesOf(Walked \cap Partials)' = FilesOf(Walked \cap Partials)
        /\ FilesOf(Walked \cap Others)' = FilesOf(Walked \cap Others)
    BY <1>0, <2>1, Kinds DEF FilesOf, PaidBy
  <2>3. UNCHANGED <<seen, paid, total, shared, partial, bookkeeping>>
    BY <2>1 DEF charged
  <2>4. QED
    BY <2>2, <2>3 DEF Charged
<1>9. CASE NextDirectory
  <2>1. UNCHANGED charged /\ UNCHANGED Walked
    BY <1>9 DEF NextDirectory, Walked, Unread
  <2>2. QED
    BY <1>2, <2>1
<1>10. ASSUME NEW b \in Blobs, PairPointed(b) \/ PairNone(b) \/ \E e \in Entries : PairCopy(b, e)
       PROVE  Charged'
  <2>1. UNCHANGED charged /\ phase = "pairing" /\ UNCHANGED phase
    BY <1>10 DEF PairPointed, PairNone, PairCopy, Turn
  <2>2. UNCHANGED Walked
    BY <2>1 DEF Walked, Unread
  <2>3. QED
    BY <1>2, <2>1, <2>2
<1>11. CASE WalkEnds
  <2>1. UNCHANGED charged /\ UNCHANGED Walked
    BY <1>11 DEF WalkEnds, Walked, Unread
  <2>2. QED
    BY <1>2, <2>1
<1>12. CASE UNCHANGED walkVars
  <2>1. UNCHANGED charged /\ UNCHANGED Walked
    BY <1>12 DEF walkVars, Walked, Unread
  <2>2. QED
    BY <1>2, <2>1
<1>13. QED
  BY <1>3, <1>4, <1>5, <1>6, <1>7, <1>8, <1>9, <1>10, <1>11, <1>12 DEF WalkNext

\* The walk keeps the types of what it holds.
LEMMA TypesKept == Layout /\ TypeOK /\ Findings /\ [WalkNext]_walkVars => TypeOK'
<1> SUFFICES ASSUME Layout, TypeOK, Findings, [WalkNext]_walkVars PROVE TypeOK'
  OBVIOUS
<1>1. /\ {total, shared, partial, bookkeeping, duplicated, orphan} \subseteq Int
      /\ seen \subseteq Inodes \cup Payloads /\ paid \subseteq Payloads /\ copies \subseteq Entries
  BY DEF TypeOK
<1>2. \A x \in Things : Charge(x) \in Int /\ LengthOf[x] \in Int
  BY DEF Charge, Things
<1>3. ASSUME NEW n \in Names, Read(n), UNCHANGED phase, phase \in {"blobs", "snapshots", "others"}
      PROVE  /\ phase' \in {"blobs", "snapshots", "others", "pairing", "done"}
             /\ todo' \subseteq CASE phase' = "blobs" -> Blobs
                                  [] phase' = "snapshots" -> Entries
                                  [] phase' = "others" -> Others
                                  [] OTHER -> records' \ Partials
             /\ phase' = "done" => todo' = {}
  BY <1>3, WalkedIs DEF Read
<1>4. ASSUME NEW b \in Blobs, WalkBlob(b) PROVE TypeOK'
  <2>1. /\ phase = "blobs" /\ Read(b) /\ IsFile(b)
        /\ UNCHANGED <<phase, paid, shared, bookkeeping, copies, duplicated, orphan>>
        /\ seen' = seen \cup {at[b].ino} /\ total' = total + Charge(at[b].ino)
        /\ partial' = IF b \in Partials THEN partial + Charge(at[b].ino) ELSE partial
    BY <1>4 DEF WalkBlob, paired
  <2>2. at[b].ino \in Things /\ at[b].ino \in Inodes /\ b \in Names
    BY <2>1, Shapes DEF Names, Things
  <2>3. total' \in Int /\ partial' \in Int
    BY <1>1, <1>2, <2>1, <2>2
  <2>4. QED
    BY <1>1, <1>3, <2>1, <2>2, <2>3 DEF TypeOK
<1>5. ASSUME NEW b \in Blobs, WalkStoreLink(b) PROVE TypeOK'
  <2> DEFINE charge == IF at[b].to \in paid THEN 0 ELSE LengthOf[at[b].to]
  <2>1. /\ phase = "blobs" /\ Read(b) /\ IsLink(b)
        /\ UNCHANGED <<phase, partial, bookkeeping, copies, duplicated, orphan>>
        /\ seen' = seen \cup {at[b].to} /\ paid' = paid \cup {at[b].to}
        /\ total' = total + charge /\ shared' = shared + charge
    BY <1>5 DEF WalkStoreLink, found, paired
  <2>2. at[b].to \in Payloads /\ b \in Names
    BY <2>1, Shapes DEF Names
  <2>3. charge \in Int
    BY <1>2, <2>2 DEF Things
  <2> HIDE DEF charge
  <2>4. total' \in Int /\ shared' \in Int
    BY <1>1, <2>1, <2>3
  <2>5. QED
    BY <1>1, <1>3, <2>1, <2>2, <2>4 DEF TypeOK
<1>6. ASSUME NEW e \in Entries, WalkCopy(e) PROVE TypeOK'
  <2>1. /\ phase = "snapshots" /\ Read(e) /\ IsFile(e)
        /\ UNCHANGED <<phase, paid, shared, partial, bookkeeping, duplicated, orphan>>
        /\ seen' = seen \cup {at[e].ino} /\ total' = total + Charge(at[e].ino)
        /\ copies' \subseteq copies \cup {e}
    BY <1>6 DEF WalkCopy, paired
  <2>2. at[e].ino \in Things /\ at[e].ino \in Inodes /\ e \in Names
    BY <2>1, Shapes DEF Names, Things
  <2>3. total' \in Int
    BY <1>1, <1>2, <2>1, <2>2
  <2>4. QED
    BY <1>1, <1>3, <2>1, <2>2, <2>3 DEF TypeOK
<1>7. ASSUME NEW e \in Entries, WalkPointer(e) PROVE TypeOK'
  <2>1. /\ phase = "snapshots" /\ Read(e) /\ e \in Names
        /\ UNCHANGED <<phase, seen, paid, total, shared, partial, bookkeeping, copies, duplicated, orphan>>
    BY <1>7 DEF WalkPointer, charged, paired, Names
  <2>2. QED
    BY <1>1, <1>3, <2>1 DEF TypeOK
<1>8. ASSUME NEW o \in Others, WalkOther(o) PROVE TypeOK'
  <2>1. /\ phase = "others" /\ Read(o) /\ IsFile(o)
        /\ UNCHANGED <<phase, paid, shared, partial, copies, duplicated, orphan>>
        /\ seen' = seen \cup {at[o].ino} /\ total' = total + Charge(at[o].ino)
        /\ bookkeeping' = bookkeeping + Charge(at[o].ino)
    BY <1>8 DEF WalkOther, found, paired
  <2>2. at[o].ino \in Things /\ at[o].ino \in Inodes /\ o \in Names
    BY <2>1, Shapes DEF Names, Things
  <2>3. total' \in Int /\ bookkeeping' \in Int
    BY <1>1, <1>2, <2>1, <2>2
  <2>4. QED
    BY <1>1, <1>3, <2>1, <2>2, <2>3 DEF TypeOK
<1>9. ASSUME NEW n \in Names, WalkNothing(n) PROVE TypeOK'
  <2>1. /\ phase \in {"blobs", "snapshots", "others"} /\ Read(n)
        /\ UNCHANGED <<phase, seen, paid, total, shared, partial, bookkeeping, copies, duplicated, orphan>>
    BY <1>9 DEF WalkNothing, charged, found, paired
  <2>2. QED
    BY <1>1, <1>3, <2>1 DEF TypeOK
<1>10. CASE NextDirectory
  <2>1. /\ UNCHANGED <<seen, paid, total, shared, partial, bookkeeping, records, copies, duplicated, orphan>>
    BY <1>10 DEF NextDirectory, charged, found, paired
  <2>2. \/ phase' = "snapshots" /\ todo' = Entries
        \/ phase' = "others" /\ todo' = Others
        \/ phase' = "pairing" /\ todo' = records \ Partials
    BY <1>10 DEF NextDirectory
  <2>3. QED
    BY <1>1, <2>1, <2>2 DEF TypeOK
<1>11. ASSUME NEW b \in Blobs, PairPointed(b) \/ PairNone(b) \/ \E e \in Entries : PairCopy(b, e)
       PROVE  TypeOK'
  <2>1. /\ phase = "pairing" /\ Read(b) /\ todo \subseteq records \ Partials
        /\ UNCHANGED <<phase, seen, paid, total, shared, partial, bookkeeping, records>>
        /\ copies' \subseteq copies
    BY <1>11, WalkedIs DEF PairPointed, PairNone, PairCopy, Turn, charged, found
  <2>2. b \in Names /\ IsFile(b)
    BY <2>1 DEF Read, Findings, Names
  <2>3. at[b].ino \in Things
    BY <2>2, Shapes DEF Things
  <2>4. /\ duplicated' = duplicated \/ duplicated' = duplicated + LengthOf[at[b].ino]
        /\ orphan' = orphan \/ orphan' = orphan + LengthOf[at[b].ino]
    BY <1>11 DEF PairPointed, PairNone, PairCopy, paired
  <2>5. duplicated' \in Int /\ orphan' \in Int
    BY <1>1, <1>2, <2>3, <2>4
  <2>6. todo' \subseteq records' \ Partials
    BY <2>1 DEF Read
  <2>7. QED
    BY <1>1, <2>1, <2>5, <2>6 DEF TypeOK
<1>12. CASE WalkEnds
  BY <1>12 DEF WalkEnds, TypeOK, charged, found, paired
<1>13. CASE UNCHANGED walkVars
  BY <1>13 DEF walkVars, TypeOK, charged, found, paired
<1>14. QED
  BY <1>4, <1>5, <1>6, <1>7, <1>8, <1>9, <1>10, <1>11, <1>12, <1>13 DEF WalkNext

\* What the walk has found stays what it has read.
LEMMA FoundKept == Layout /\ TypeOK /\ Charged /\ Findings /\ [WalkNext]_walkVars => Findings'
<1> SUFFICES ASSUME Layout, TypeOK, Charged, Findings, [WalkNext]_walkVars PROVE Findings'
  OBVIOUS
<1>0. UNCHANGED at
  BY LayoutKept
<1>1. ASSUME UNCHANGED Walked, UNCHANGED <<records, ids, targets>> PROVE Findings'
  BY <1>0, <1>1 DEF Findings, IsFile, IsLink, Resolved
<1>2. ASSUME NEW b \in Blobs, WalkBlob(b) PROVE Findings'
  <2>1. /\ phase = "blobs" /\ Read(b) /\ IsFile(b) /\ UNCHANGED <<phase, ids, targets>>
        /\ records' = IF FirstSighting(at[b].ino) THEN records \cup {b} ELSE records
    BY <1>2 DEF WalkBlob
  <2>2. /\ b \in Names /\ Walked' = Walked \cup {b} /\ b \notin Entries /\ b \notin Walked
        /\ at[b].ino \in Inodes /\ at[b] = File(at[b].ino)
    BY <2>1, ReadsOne, Shapes
  <2>3. at[b].ino \notin FilesOf(Walked)
    BY <1>2, <2>1, <2>2, OwnFiles, WalkedIs DEF FilesOf, Walked
  <2>4. FirstSighting(at[b].ino)
    BY <2>2, <2>3 DEF Charged, FirstSighting
  <2>5. records' = {c \in Walked' \cap Blobs : IsFile(c)'}
    BY <1>0, <1>2, <2>1, <2>2, <2>4 DEF Findings, IsFile
  <2>6. Walked' \cap Entries = Walked \cap Entries
    BY <2>2
  <2>7. \A e \in Entries : Resolved(e)' = Resolved(e) /\ at'[e] = at[e]
    BY <1>0 DEF Resolved, IsFile, IsLink
  <2>8. QED
    BY <2>1, <2>5, <2>6, <2>7 DEF Findings
<1>3. ASSUME NEW b \in Blobs, WalkStoreLink(b) PROVE Findings'
  <2>1. /\ phase = "blobs" /\ Read(b) /\ IsLink(b) /\ UNCHANGED <<phase, records, ids, targets>>
    BY <1>3 DEF WalkStoreLink, found
  <2>2. Walked' = Walked \cup {b} /\ b \notin Entries /\ ~IsFile(b)
    BY <1>3, <2>1, ReadsOne, Shapes
  <2>3. records' = {c \in Walked' \cap Blobs : IsFile(c)'}
    BY <1>0, <2>1, <2>2 DEF Findings, IsFile
  <2>4. Walked' \cap Entries = Walked \cap Entries
    BY <2>2
  <2>5. \A e \in Entries : Resolved(e)' = Resolved(e) /\ at'[e] = at[e]
    BY <1>0 DEF Resolved, IsFile, IsLink
  <2>6. QED
    BY <2>1, <2>3, <2>4, <2>5 DEF Findings
<1>4. ASSUME NEW e \in Entries, WalkCopy(e) \/ WalkPointer(e) PROVE Findings'
  <2>1. /\ phase = "snapshots" /\ Read(e) /\ UNCHANGED <<phase, records>>
        /\ \/ IsFile(e) /\ ids' = ids \cup {at[e].ino} /\ targets' = targets
           \/ IsLink(e) /\ ids' = ids \cup Resolved(e) /\ targets' = targets \cup {at[e].to}
    BY <1>4 DEF WalkCopy, WalkPointer
  <2>2. Walked' = Walked \cup {e} /\ e \notin Blobs /\ e \in Names
    BY <1>4, <2>1, ReadsOne
  <2>3. records' = {c \in Walked' \cap Blobs : IsFile(c)'}
    BY <1>0, <2>1, <2>2 DEF Findings, IsFile
  <2>4. \A d \in Entries : Resolved(d)' = Resolved(d) /\ at'[d] = at[d]
    BY <1>0 DEF Resolved, IsFile, IsLink
  <2>5. ids' = ids \cup Resolved(e)
    BY <2>1 DEF Resolved
  <2>6. ids' = UNION {Resolved(d)' : d \in Walked' \cap Entries}
    BY <1>4, <2>2, <2>4, <2>5 DEF Findings
  <2>7. targets' = {b \in Blobs : \E d \in Walked' \cap Entries : at'[d] = Link(b)}
    <3>1. CASE IsFile(e) /\ targets' = targets
      BY <1>4, <2>2, <2>4, <3>1, Shapes, Kinds DEF Findings
    <3>2. CASE IsLink(e) /\ targets' = targets \cup {at[e].to}
      BY <1>4, <2>2, <2>4, <3>2, Shapes, Kinds DEF Findings
    <3>3. QED
      BY <2>1, <3>1, <3>2
  <2>8. QED
    BY <2>3, <2>6, <2>7 DEF Findings
<1>5. ASSUME NEW n \in Names, WalkNothing(n) \/ (WalkOther(n) /\ n \in Others) PROVE Findings'
  <2>1. /\ phase \in {"blobs", "snapshots", "others"} /\ Read(n) /\ UNCHANGED <<phase, records, ids, targets>>
        /\ at[n] = Nothing \/ n \in Others
    BY <1>5 DEF WalkNothing, WalkOther, found
  <2>2. Walked' = Walked \cup {n}
    BY <2>1, ReadsOne
  <2>3. \A d \in Names : Resolved(d)' = Resolved(d) /\ at'[d] = at[d] /\ IsFile(d)' = IsFile(d)
    BY <1>0 DEF Resolved, IsFile, IsLink
  <2>4. CASE n \in Others
    <3>1. Walked' \cap Entries = Walked \cap Entries /\ Walked' \cap Blobs = Walked \cap Blobs
      BY <2>2, <2>4
    <3>2. QED
      BY <2>1, <2>3, <3>1 DEF Findings, Names
  <2>5. CASE at[n] = Nothing
    <3>1. ~IsFile(n) /\ ~IsLink(n) /\ Resolved(n) = {}
      BY <2>5, Kinds DEF IsFile, IsLink, Resolved
    <3>2. records' = {c \in Walked' \cap Blobs : IsFile(c)'}
      BY <2>1, <2>2, <2>3, <3>1 DEF Findings, Names
    <3>3. ids' = UNION {Resolved(d)' : d \in Walked' \cap Entries}
      BY <2>1, <2>2, <2>3, <3>1 DEF Findings, Names
    <3>4. targets' = {b \in Blobs : \E d \in Walked' \cap Entries : at'[d] = Link(b)}
      BY <2>1, <2>2, <2>3, <2>5, Kinds DEF Findings, Names
    <3>5. QED
      BY <3>2, <3>3, <3>4 DEF Findings
  <2>6. QED
    BY <2>1, <2>4, <2>5
<1>6. CASE NextDirectory \/ WalkEnds \/ UNCHANGED walkVars
  <2>1. UNCHANGED Walked
    BY <1>6 DEF NextDirectory, WalkEnds, walkVars, Walked, Unread
  <2>2. UNCHANGED <<records, ids, targets>>
    BY <1>6 DEF NextDirectory, WalkEnds, walkVars, found
  <2>3. QED
    BY <1>1, <2>1, <2>2
<1>7. ASSUME NEW b \in Blobs, PairPointed(b) \/ PairNone(b) \/ \E e \in Entries : PairCopy(b, e)
      PROVE  Findings'
  <2>1. UNCHANGED <<records, ids, targets>> /\ phase = "pairing" /\ UNCHANGED phase
    BY <1>7 DEF PairPointed, PairNone, PairCopy, Turn, found
  <2>2. UNCHANGED Walked
    BY <2>1 DEF Walked, Unread
  <2>3. QED
    BY <1>1, <2>1, <2>2
<1>8. ASSUME NEW o \in Others, WalkOther(o) PROVE Findings'
  BY <1>5, <1>8 DEF Names
<1>9. QED
  BY <1>2, <1>3, <1>4, <1>5, <1>6, <1>7, <1>8 DEF WalkNext

\* A copy is kept until it is taken for a blob, and only then let go.
LEMMA CopiesKept == Layout /\ TypeOK /\ Charged /\ Findings /\ SoleCopies /\ [WalkNext]_walkVars => SoleCopies'
<1> SUFFICES ASSUME Layout, TypeOK, Charged, Findings, SoleCopies, [WalkNext]_walkVars PROVE SoleCopies'
  OBVIOUS
<1>0. UNCHANGED at
  BY LayoutKept
<1>1. \A S : FilesOf(S) \in SUBSET Things
  BY DEF FilesOf, Things
<1>2. CopiedIn(Walked) \in SUBSET Things
  BY <1>1 DEF CopiedIn
<1>3. ASSUME UNCHANGED <<copies, duplicated>>, CopiedIn(Walked)' = CopiedIn(Walked) PROVE SoleCopies'
  <2>1. FilesOf(copies)' = FilesOf(copies)
    BY <1>0, <1>3 DEF FilesOf
  <2>2. QED
    BY <1>0, <1>3, <2>1 DEF SoleCopies
<1>4. ASSUME UNCHANGED <<copies, duplicated>>,
             NEW n \in Names, Walked' = Walked \cup {n}, n \notin Entries \/ ~IsFile(n)
      PROVE  SoleCopies'
  <2>1. FilesOf(Walked \cap Entries)' = FilesOf(Walked \cap Entries)
    BY <1>0, <1>4, Shapes DEF FilesOf
  <2>2. FilesOf(Blobs)' = FilesOf(Blobs)
    BY <1>0 DEF FilesOf
  <2>3. QED
    BY <1>3, <1>4, <2>1, <2>2 DEF CopiedIn
<1>5. ASSUME UNCHANGED <<copies, duplicated, Walked>> PROVE SoleCopies'
  <2>1. FilesOf(Walked \cap Entries)' = FilesOf(Walked \cap Entries)
    BY <1>0, <1>5 DEF FilesOf
  <2>2. FilesOf(Blobs)' = FilesOf(Blobs)
    BY <1>0 DEF FilesOf
  <2>3. QED
    BY <1>3, <1>5, <2>1, <2>2 DEF CopiedIn
<1>6. ASSUME NEW b \in Blobs, WalkBlob(b) \/ WalkStoreLink(b) PROVE SoleCopies'
  <2>1. phase = "blobs" /\ Read(b) /\ UNCHANGED <<phase, copies, duplicated>>
    BY <1>6 DEF WalkBlob, WalkStoreLink, found, paired
  <2>2. QED
    BY <1>4, <2>1, ReadsOne
<1>7. ASSUME NEW e \in Entries, WalkCopy(e) PROVE SoleCopies'
  <2> DEFINE x == at[e].ino
             C == CopiedIn(Walked)
  <2>1. /\ phase = "snapshots" /\ Read(e) /\ IsFile(e) /\ UNCHANGED <<phase, duplicated>>
        /\ copies' = IF FirstSighting(x) THEN copies \cup {e} ELSE copies
    BY <1>7 DEF WalkCopy, paired
  <2>2. /\ e \in Names /\ Walked' = Walked \cup {e} /\ x \in Inodes /\ at[e] = File(x)
    BY <2>1, ReadsOne, Shapes
  <2> HIDE DEF x
  <2>3. FirstSighting(x) <=> x \notin FilesOf(Walked)
    BY <2>2 DEF Charged, FirstSighting
  <2>4. FilesOf(Walked) = FilesOf(Blobs) \cup FilesOf(Walked \cap Entries)
    <3>1. Walked = Blobs \cup (Walked \cap Entries)
      BY <2>1, WalkedIs
    <3>2. QED
      BY <3>1, FilesAre
  <2>5. CopiedIn(Walked)' = IF x \in FilesOf(Blobs) THEN C ELSE C \cup {x}
    <3>1. FilesOf(Walked \cap Entries)' = FilesOf(Walked \cap Entries) \cup {x}
      BY <1>0, <2>2, Kinds DEF FilesOf
    <3>2. FilesOf(Blobs)' = FilesOf(Blobs)
      BY <1>0 DEF FilesOf
    <3>3. QED
      BY <3>1, <3>2 DEF CopiedIn
  <2>6. CASE ~FirstSighting(x)
    <3>1. CopiedIn(Walked)' = C
      BY <2>3, <2>4, <2>5, <2>6 DEF CopiedIn
    <3>2. QED
      BY <1>3, <2>1, <2>6, <3>1
  <2>7. CASE FirstSighting(x)
    <3>1. /\ CopiedIn(Walked)' = C \cup {x} /\ x \notin C /\ copies' = copies \cup {e}
      BY <2>1, <2>3, <2>4, <2>5, <2>7 DEF CopiedIn
    <3>2. \A f \in copies : at[f] # File(x)
      BY <3>1, Kinds DEF SoleCopies
    <3>3. FilesOf(copies)' = FilesOf(copies) \cup {x} /\ x \notin FilesOf(copies)
      BY <1>0, <2>2, <3>1, <3>2, Kinds DEF FilesOf
    <3>4. Bytes(FilesOf(copies))' = Bytes(FilesOf(copies)) + LengthOf[x]
      BY <1>1, <2>2, <3>3, BytesAdd DEF Things
    <3>5. Bytes(CopiedIn(Walked))' = Bytes(C) + LengthOf[x]
      BY <1>2, <2>2, <3>1, BytesAdd DEF Things
    <3>6. /\ Bytes(FilesOf(copies)) \in Nat /\ Bytes(C) \in Nat /\ LengthOf[x] \in Nat /\ duplicated \in Int
      BY <1>1, <1>2, <2>2, BytesType DEF Things, TypeOK
    <3>7. duplicated + Bytes(FilesOf(copies)) = Bytes(C) /\ duplicated' = duplicated
      BY <2>1 DEF SoleCopies
    <3>8. (duplicated + Bytes(FilesOf(copies)) = Bytes(CopiedIn(Walked)))'
      BY <3>4, <3>5, <3>6, <3>7
    <3>9. \A f \in copies' : \E y \in CopiedIn(Walked)' : at'[f] = File(y)
      BY <1>0, <2>2, <3>1 DEF SoleCopies
    <3>10. \A f, g \in copies' : f # g => at'[f] # at'[g]
      BY <1>0, <2>2, <3>1, <3>2 DEF SoleCopies
    <3>11. QED
      BY <3>8, <3>9, <3>10 DEF SoleCopies
  <2>8. QED
    BY <2>6, <2>7
<1>8. ASSUME NEW e \in Entries, WalkPointer(e) PROVE SoleCopies'
  <2>1. phase = "snapshots" /\ Read(e) /\ IsLink(e) /\ UNCHANGED <<phase, copies, duplicated>>
    BY <1>8 DEF WalkPointer, paired
  <2>2. e \in Names /\ ~IsFile(e) /\ Walked' = Walked \cup {e}
    BY <2>1, ReadsOne, Shapes
  <2>3. QED
    BY <1>4, <2>1, <2>2
<1>9. ASSUME NEW o \in Others, WalkOther(o) PROVE SoleCopies'
  <2>1. phase = "others" /\ Read(o) /\ UNCHANGED <<phase, copies, duplicated>>
    BY <1>9 DEF WalkOther, found, paired
  <2>2. QED
    BY <1>4, <2>1, ReadsOne
<1>10. ASSUME NEW n \in Names, WalkNothing(n) PROVE SoleCopies'
  <2>1. /\ phase \in {"blobs", "snapshots", "others"} /\ Read(n) /\ at[n] = Nothing
        /\ UNCHANGED <<phase, copies, duplicated>>
    BY <1>10 DEF WalkNothing, found, paired
  <2>2. ~IsFile(n)
    BY <2>1, Kinds DEF IsFile
  <2>3. QED
    BY <1>4, <2>1, <2>2, ReadsOne
<1>11. CASE NextDirectory \/ WalkEnds \/ UNCHANGED walkVars
  <2>1. UNCHANGED Walked
    BY <1>11 DEF NextDirectory, WalkEnds, walkVars, Walked, Unread
  <2>2. UNCHANGED <<copies, duplicated>>
    BY <1>11 DEF NextDirectory, WalkEnds, walkVars, found, paired
  <2>3. QED
    BY <1>5, <2>1, <2>2
<1>12. ASSUME NEW b \in Blobs, PairPointed(b) \/ PairNone(b) PROVE SoleCopies'
  <2>1. UNCHANGED <<copies, duplicated>> /\ phase = "pairing" /\ UNCHANGED phase
    BY <1>12 DEF PairPointed, PairNone, Turn, found, paired
  <2>2. UNCHANGED Walked
    BY <2>1 DEF Walked, Unread
  <2>3. QED
    BY <1>5, <2>1, <2>2
<1>13. ASSUME NEW b \in Blobs, NEW e \in Entries, PairCopy(b, e) PROVE SoleCopies'
  <2>1. /\ phase = "pairing" /\ UNCHANGED phase /\ e \in copies
        /\ LengthOf[at[e].ino] = LengthOf[at[b].ino]
        /\ duplicated' = duplicated + LengthOf[at[b].ino] /\ copies' = copies \ {e}
    BY <1>13 DEF PairCopy, Turn, CopiesLike
  <2>2. PICK x \in CopiedIn(Walked) : at[e] = File(x)
    BY <2>1 DEF SoleCopies
  <2>3. at[e].ino = x /\ x \in Things /\ x \in Inodes
    BY <2>2, Kinds DEF CopiedIn, FilesOf, Things
  <2>4. FilesOf(copies \ {e}) \cup {x} = FilesOf(copies) /\ x \notin FilesOf(copies \ {e})
    <3>1. \A f \in copies \ {e} : at[f] # File(x)
      BY <2>1, <2>2 DEF SoleCopies
    <3>2. QED
      BY <2>1, <2>2, <2>3, <3>1, Kinds DEF FilesOf
  <2>5. FilesOf(copies)' = FilesOf(copies \ {e})
    BY <1>0, <2>1 DEF FilesOf
  <2>6. /\ Bytes(FilesOf(copies)) = Bytes(FilesOf(copies \ {e})) + LengthOf[x]
        /\ LengthOf[x] \in Nat
    <3> DEFINE R == FilesOf(copies \ {e})
    <3>1. R \in SUBSET Things /\ R \cup {x} = FilesOf(copies) /\ x \notin R
      BY <1>1, <2>4
    <3> HIDE DEF R
    <3>2. Bytes(R \cup {x}) = Bytes(R) + LengthOf[x] /\ LengthOf[x] \in Nat
      BY <2>3, <3>1, BytesAdd
    <3>3. QED
      BY <3>1, <3>2 DEF R
  <2>7. /\ Bytes(FilesOf(copies \ {e})) \in Nat /\ duplicated \in Int
    BY <1>1, BytesType DEF TypeOK
  <2>8. CopiedIn(Walked)' = CopiedIn(Walked)
    <3>1. Walked' = Walked
      BY <2>1 DEF Walked, Unread
    <3>2. QED
      BY <1>0, <3>1 DEF CopiedIn, FilesOf
  <2>9. duplicated' + Bytes(FilesOf(copies))' = Bytes(CopiedIn(Walked))'
    <3>1. duplicated + Bytes(FilesOf(copies)) = Bytes(CopiedIn(Walked))
      BY DEF SoleCopies
    <3>2. Bytes(FilesOf(copies))' = Bytes(FilesOf(copies \ {e})) /\ Bytes(CopiedIn(Walked))' = Bytes(CopiedIn(Walked))
      BY <2>5, <2>8
    <3>3. duplicated' = duplicated + LengthOf[x]
      BY <2>1, <2>3
    <3>4. QED
      BY <2>6, <2>7, <3>1, <3>2, <3>3
  <2>10. \A f \in copies' : \E y \in CopiedIn(Walked)' : at'[f] = File(y)
    BY <1>0, <2>1, <2>8 DEF SoleCopies
  <2>11. \A f, g \in copies' : f # g => at'[f] # at'[g]
    BY <1>0, <2>1 DEF SoleCopies
  <2>12. QED
    BY <2>9, <2>10, <2>11 DEF SoleCopies
<1>14. QED
  BY <1>6, <1>7, <1>8, <1>9, <1>10, <1>11, <1>12, <1>13 DEF WalkNext

\* What PointedAt finds is what no entry leads to.
LEMMA PointedIs ==
  ASSUME Layout, TypeOK, Findings, phase \in {"pairing", "done"}, NEW b \in Blobs, IsFile(b)
  PROVE  PointedAt(b) <=> at[b].ino \in ids
<1>1. ASSUME b \in targets PROVE at[b].ino \in ids
  <2>1. PICK e \in Walked \cap Entries : at[e] = Link(b)
    BY <1>1 DEF Findings
  <2>2. Resolved(e) = {at[b].ino}
    BY <2>1, Kinds DEF Resolved, IsFile, IsLink
  <2>3. QED
    BY <2>1, <2>2 DEF Findings
<1>2. QED
  BY <1>1 DEF PointedAt

\* Pairing counts each blob that no entry leads to, once.
LEMMA PairedKept == Layout /\ TypeOK /\ Findings /\ Paired /\ [WalkNext]_walkVars => Paired'
<1> SUFFICES ASSUME Layout, TypeOK, Findings, Paired, [WalkNext]_walkVars PROVE Paired'
  OBVIOUS
<1>0. UNCHANGED at
  BY LayoutKept
<1>1. FilesOf(Dealt) \in SUBSET Things
  BY DEF FilesOf, Things
<1>2. ASSUME UNCHANGED <<duplicated, orphan>>, FilesOf(Dealt)' = FilesOf(Dealt) PROVE Paired'
  BY <1>2 DEF Paired
<1>3. ASSUME UNCHANGED <<duplicated, orphan, phase>>, phase \in {"blobs", "snapshots", "others"}
      PROVE  Paired'
  <2>1. Dealt = {} /\ Dealt' = {}
    BY <1>3 DEF Dealt
  <2>2. QED
    BY <1>2, <1>3, <2>1 DEF FilesOf
<1>4. CASE NextDirectory
  <2>1. UNCHANGED <<duplicated, orphan, records, at, ids>> /\ phase \in {"blobs", "snapshots", "others"}
    BY <1>0, <1>4 DEF NextDirectory, found, paired
  <2>2. Dealt = {}
    BY <2>1 DEF Dealt
  <2>3. CASE phase = "others"
    <3>1. todo' = records \ Partials /\ todo = {} /\ Walked = Names
      BY <1>4, <2>3, WalkedIs DEF NextDirectory, Names
    <3>2. Unpointed' \subseteq records \ Partials
      BY <2>1, <3>1 DEF Unpointed, Findings, IsFile, Names
    <3>3. Dealt' = {}
      BY <3>1, <3>2 DEF Dealt
    <3>4. QED
      BY <1>2, <2>1, <2>2, <3>3 DEF FilesOf
  <2>4. CASE phase # "others"
    <3>1. Dealt' = {}
      BY <1>4, <2>1, <2>4 DEF Dealt, NextDirectory
    <3>2. QED
      BY <1>2, <2>1, <2>2, <3>1 DEF FilesOf
  <2>5. QED
    BY <2>3, <2>4
<1>5. CASE WalkEnds \/ UNCHANGED walkVars
  <2>1. UNCHANGED <<duplicated, orphan, ids>>
    BY <1>5 DEF WalkEnds, walkVars, found, paired
  <2>2. Dealt' = Dealt
    BY <1>0, <1>5 DEF WalkEnds, walkVars, found, Dealt, Unpointed, IsFile
  <2>3. QED
    BY <1>0, <1>2, <2>1, <2>2 DEF FilesOf
<1>6. ASSUME NEW b \in Blobs, PairPointed(b) \/ PairNone(b) \/ \E e \in Entries : PairCopy(b, e)
      PROVE  Paired'
  <2> DEFINE x == at[b].ino
  <2>1. /\ phase = "pairing" /\ UNCHANGED <<phase, records, ids>> /\ b \in todo /\ todo' = todo \ {b}
        /\ \/ /\ at[b].ino \in ids \/ LengthOf[x] = 0
              /\ UNCHANGED <<duplicated, orphan>>
           \/ /\ at[b].ino \notin ids
              /\ \/ duplicated' = duplicated + LengthOf[x] /\ orphan' = orphan
                 \/ orphan' = orphan + LengthOf[x] /\ duplicated' = duplicated
    <3>1. phase = "pairing" /\ UNCHANGED <<phase, records, ids>> /\ b \in todo /\ todo' = todo \ {b}
      BY <1>6 DEF PairPointed, PairNone, PairCopy, Turn, Read, found
    <3>2. PointedAt(b) <=> at[b].ino \in ids
      BY <3>1, PointedIs, WalkedIs DEF Findings
    <3>3. QED
      BY <1>6, <3>1, <3>2 DEF PairPointed, PairNone, PairCopy, paired
  <2>2. b \in Names /\ b \in Blobs \ Partials /\ IsFile(b)
    BY <2>1, WalkedIs DEF Findings, Names
  <2>3. x \in Inodes /\ at[b] = File(x)
    BY <2>2, Shapes
  <2>4. CASE x \in ids
    <3>1. Dealt' = Dealt
      BY <1>0, <2>1, <2>4 DEF Dealt, Unpointed, IsFile
    <3>2. QED
      BY <1>0, <1>2, <2>1, <2>4, <3>1 DEF FilesOf
  <2>5. CASE x \notin ids
    <3>1. Dealt' = Dealt \cup {b}
      BY <1>0, <2>1, <2>2, <2>5 DEF Dealt, Unpointed, IsFile
    <3> HIDE DEF x
    <3>2. FilesOf(Dealt)' = FilesOf(Dealt) \cup {x}
      BY <1>0, <2>3, <3>1, Kinds DEF FilesOf
    <3>3. x \notin FilesOf(Dealt)
      <4>1. \A c \in Dealt : c \in Blobs /\ c # b /\ c \in Names
        BY <2>1 DEF Dealt, Unpointed, Names
      <4>2. \A c \in Dealt : at[c] # at[b]
        BY <2>2, <4>1, OwnFiles
      <4>3. QED
        BY <2>3, <4>2 DEF FilesOf
    <3>4. Bytes(FilesOf(Dealt))' = Bytes(FilesOf(Dealt)) + LengthOf[x] /\ LengthOf[x] \in Nat
      BY <1>1, <2>3, <3>2, <3>3, BytesAdd DEF Things
    <3>5. duplicated' + orphan' = duplicated + orphan + LengthOf[x]
      <4>1. duplicated \in Int /\ orphan \in Int
        BY DEF TypeOK
      <4>2. QED
        BY <2>1, <2>5, <3>4, <4>1 DEF x
    <3>6. QED
      BY <3>4, <3>5 DEF Paired
  <2>6. QED
    BY <2>4, <2>5
<1>7. ASSUME NEW n, WalkBlob(n) \/ WalkStoreLink(n) \/ WalkCopy(n) \/ WalkPointer(n)
                    \/ WalkOther(n) \/ WalkNothing(n)
      PROVE  Paired'
  <2>1. UNCHANGED <<duplicated, orphan, phase>> /\ phase \in {"blobs", "snapshots", "others"}
    BY <1>7 DEF WalkBlob, WalkStoreLink, WalkCopy, WalkPointer, WalkOther, WalkNothing, paired
  <2>2. QED
    BY <1>3, <2>1
<1>8. QED
  BY <1>4, <1>5, <1>6, <1>7 DEF WalkNext

\* The walk begins in the invariant.
LEMMA UsageInit == WalkInit => IInv
<1> SUFFICES ASSUME WalkInit PROVE IInv
  OBVIOUS
<1>1. Layout
  <2>1. PICK inBlobs \in [Blobs -> {Nothing} \cup Files \cup {Link(p) : p \in Payloads}],
             inSnapshots \in [Entries -> {Nothing} \cup Files \cup {Link(b) : b \in Blobs \ Partials}],
             elsewhere \in [Others -> {Nothing} \cup Files] :
               at = [n \in Names |-> IF n \in Blobs THEN inBlobs[n]
                                     ELSE IF n \in Entries THEN inSnapshots[n] ELSE elsewhere[n]]
    BY DEF WalkInit
  <2>2. \A b \in Blobs : at[b] \in {Nothing} \cup Files \cup Links(Payloads)
    BY <2>1 DEF Names, Links
  <2>3. \A e \in Entries : at[e] \in {Nothing} \cup Files \cup Links(Blobs \ Partials)
    BY <2>1 DEF Names, Links
  <2>4. \A o \in Others : at[o] \in {Nothing} \cup Files
    BY <2>1 DEF Names
  <2>5. \A b \in Partials : at[b] \in {Nothing} \cup Files
    <3>1. \A b \in Partials : ~IsLink(b) /\ b \in Blobs
      BY DEF WalkInit
    <3>2. QED
      BY <2>2, <3>1, Kinds DEF IsLink, Links
  <2>6. \A n, m \in Names : n # m /\ IsFile(n) /\ at[n] = at[m] =>
          {n, m} \cap Entries # {} /\ {n, m} \cap (Others \cup Partials) = {}
    BY DEF WalkInit
  <2>7. QED
    BY <2>1, <2>2, <2>3, <2>4, <2>5, <2>6 DEF Layout
<1>2. phase = "blobs" /\ todo = Blobs /\ Walked = {}
  BY DEF WalkInit, Walked, Unread, Names
<1>3. TypeOK
  BY <1>2 DEF WalkInit, TypeOK
<1>4. Bytes({}) = 0
  BY BytesType
<1>5. Charged
  <2>1. FilesOf(Walked) = {} /\ PaidBy(Walked \cap Blobs) = {} /\ FilesOf(Walked \cap Partials) = {}
        /\ FilesOf(Walked \cap Others) = {}
    BY <1>2 DEF FilesOf, PaidBy
  <2>2. seen = {} /\ paid = {} /\ total = 0 /\ shared = 0 /\ partial = 0 /\ bookkeeping = 0
    BY DEF WalkInit
  <2>3. Bytes(FilesOf(Walked)) = 0 /\ Bytes(paid) = 0 /\ Bytes(FilesOf(Walked \cap Partials)) = 0
        /\ Bytes(FilesOf(Walked \cap Others)) = 0
    BY <1>4, <2>1, <2>2
  <2>4. seen \cap Inodes = FilesOf(Walked) /\ paid = PaidBy(Walked \cap Blobs)
    BY <2>1, <2>2
  <2>5. total = Bytes(FilesOf(Walked)) + Bytes(paid)
    BY <2>2, <2>3
  <2>6. /\ shared = Bytes(paid) /\ partial = Bytes(FilesOf(Walked \cap Partials))
        /\ bookkeeping = Bytes(FilesOf(Walked \cap Others))
    BY <2>2, <2>3
  <2>7. QED
    BY <2>4, <2>5, <2>6 DEF Charged
<1>6. Findings
  BY <1>2 DEF WalkInit, Findings
<1>7. SoleCopies
  <2>1. FilesOf(copies) = {} /\ CopiedIn(Walked) = {} /\ copies = {} /\ duplicated = 0
    BY <1>2 DEF WalkInit, FilesOf, CopiedIn
  <2>2. QED
    BY <1>4, <2>1 DEF SoleCopies
<1>8. Paired
  <2>1. FilesOf(Dealt) = {} /\ duplicated = 0 /\ orphan = 0
    BY <1>2 DEF WalkInit, FilesOf, Dealt
  <2>2. QED
    BY <1>4, <2>1 DEF Paired
<1>9. QED
  BY <1>1, <1>3, <1>5, <1>6, <1>7, <1>8 DEF IInv

\* For any directories, lengths and order of reading: the walk has charged,
\* once, each file it has met, has found the blobs and what entries lead to,
\* and keeps a copy for each file that only entries are names of.
THEOREM UsageInvariant == WalkSpec => []IInv
<1>1. IInv /\ [WalkNext]_walkVars => IInv'
  BY LayoutKept, TypesKept, ChargedKept, FoundKept, CopiesKept, PairedKept DEF IInv
<1>2. QED
  BY <1>1, UsageInit, PTL DEF WalkSpec

\* For any directories: what is charged beside the store is each file that
\* has a name in the repo, once.
THEOREM TotalIsWhatDeletingFrees == WalkSpec => []DeletingFreesTotal
<1>1. IInv => DeletingFreesTotal
  <2> SUFFICES ASSUME IInv, phase = "done" PROVE total - shared = Bytes(FilesOf(Names))
    BY DEF DeletingFreesTotal, FilesOf
  <2>1. /\ Walked = Names
        /\ total = Bytes(FilesOf(Walked)) + Bytes(paid) /\ shared = Bytes(paid)
    BY WalkedIs DEF IInv, Charged
  <2>2. Bytes(FilesOf(Names)) \in Nat /\ Bytes(paid) \in Nat
    BY BytesType DEF FilesOf, Things, IInv, TypeOK
  <2>3. QED
    BY <2>1, <2>2
<1>2. QED
  BY <1>1, UsageInvariant, PTL
-----------------------------------------------------------------------------
(* The figures of du.                                                       *)

\* An entry leads to one file at most, and to none of a partial download or
\* of the rest.
LEMMA Leads ==
  ASSUME Layout, NEW e \in Entries
  PROVE  /\ Resolved(e) \in SUBSET Things
         /\ \A x, y \in Resolved(e) : x = y
         /\ \A n \in Others \cup Partials : IsFile(n) => at[n].ino \notin Resolved(e)
         /\ \A x \in Resolved(e) :
              \/ x \in FilesOf(Names)
              \/ x \in Payloads /\ \E b \in Blobs : at[b] = Link(x)
<1>0. e \in Names
  BY DEF Names
<1>1. CASE IsFile(e)
  <2>1. Resolved(e) = {at[e].ino} /\ at[e].ino \in Inodes /\ at[e] = File(at[e].ino)
    BY <1>0, <1>1, Shapes DEF Resolved
  <2>2. at[e].ino \in FilesOf(Names)
    BY <1>0, <2>1 DEF FilesOf
  <2>3. \A n \in Others \cup Partials : IsFile(n) => at[n].ino # at[e].ino
    <3> SUFFICES ASSUME NEW n \in Others \cup Partials, IsFile(n), at[n].ino = at[e].ino
                 PROVE  FALSE
      OBVIOUS
    <3>1. n \in Names /\ n # e
      BY DEF Names
    <3>2. at[n] = at[e]
      BY <2>1, <3>1, Shapes
    <3>3. QED
      BY <1>0, <3>1, <3>2, OwnFiles
  <2>4. QED
    BY <2>1, <2>2, <2>3 DEF Things
<1>2. CASE IsLink(e)
  <2> DEFINE b == at[e].to
  <2>1. b \in Blobs \ Partials /\ b \in Names /\ b \notin Payloads
    BY <1>0, <1>2, Shapes DEF Names
  <2>2. Resolved(e) = IF IsFile(b) THEN {at[b].ino} ELSE IF IsLink(b) THEN {at[b].to} ELSE {}
    BY <1>0, <1>2, <2>1, Shapes DEF Resolved
  <2> HIDE DEF b
  <2>3. CASE IsFile(b)
    <3>1. Resolved(e) = {at[b].ino} /\ at[b].ino \in Inodes /\ at[b] = File(at[b].ino)
      BY <2>1, <2>2, <2>3, Shapes
    <3>2. at[b].ino \in FilesOf(Names)
      BY <2>1, <3>1 DEF FilesOf
    <3>3. \A n \in Others \cup Partials : IsFile(n) => at[n].ino # at[b].ino
      <4> SUFFICES ASSUME NEW n \in Others \cup Partials, IsFile(n), at[n].ino = at[b].ino
                   PROVE  FALSE
        OBVIOUS
      <4>1. n \in Names /\ n # b
        BY <2>1 DEF Names
      <4>2. at[n] = at[b]
        BY <3>1, <4>1, Shapes
      <4>3. QED
        BY <2>1, <4>1, <4>2, OwnFiles
    <3>4. QED
      BY <3>1, <3>2, <3>3 DEF Things
  <2>4. CASE ~IsFile(b) /\ IsLink(b)
    <3>1. Resolved(e) = {at[b].to} /\ at[b].to \in Payloads /\ at[b] = Link(at[b].to)
      BY <2>1, <2>2, <2>4, Shapes
    <3>2. \A n \in Others \cup Partials : IsFile(n) => at[n].ino \in Inodes
      BY Shapes DEF Names
    <3>3. QED
      BY <2>1, <3>1, <3>2 DEF Things
  <2>5. CASE ~IsFile(b) /\ ~IsLink(b)
    BY <2>2, <2>5
  <2>6. QED
    BY <2>3, <2>4, <2>5
<1>3. CASE ~IsFile(e) /\ ~IsLink(e)
  BY <1>3 DEF Resolved
<1>4. QED
  BY <1>1, <1>2, <1>3

\* When the walk is over, the files are those that entries lead to, those of
\* the blobs that none leads to, the partial downloads, and the rest.
LEMMA Partition ==
  ASSUME IInv, phase = "done"
  PROVE  /\ ids = UNION {Resolved(e) : e \in Entries}
         /\ FilesOf(Names) \ ids = FilesOf(Dealt) \cup FilesOf(Partials) \cup FilesOf(Others)
         /\ FilesOf(Dealt) \cap FilesOf(Partials) = {}
         /\ (FilesOf(Dealt) \cup FilesOf(Partials)) \cap FilesOf(Others) = {}
         /\ Dealt = Unpointed
<1>1. Layout /\ Walked = Names /\ todo = {} /\ Names \cap Entries = Entries
  BY WalkedIs DEF IInv, TypeOK, Names
<1>2. ids = UNION {Resolved(e) : e \in Entries}
  BY <1>1 DEF IInv, Findings
<1>3. Dealt = Unpointed
  BY <1>1 DEF Dealt
<1>4. ASSUME NEW x \in FilesOf(Names), x \notin ids
      PROVE  x \in FilesOf(Dealt) \cup FilesOf(Partials) \cup FilesOf(Others)
  <2>1. PICK n \in Names : at[n] = File(x) /\ x \in Inodes
    BY DEF FilesOf
  <2>2. IsFile(n) /\ at[n].ino = x
    BY <2>1, Kinds DEF IsFile
  <2>3. n \notin Entries
    BY <1>2, <1>4, <2>2 DEF Resolved
  <2>4. n \in Unpointed \/ n \in Partials \/ n \in Others
    BY <1>4, <2>2, <2>3 DEF Names, Unpointed
  <2>5. QED
    BY <1>3, <2>1, <2>4 DEF FilesOf
<1>5. ASSUME NEW x \in FilesOf(Dealt) \cup FilesOf(Partials) \cup FilesOf(Others)
      PROVE  x \in FilesOf(Names) /\ x \notin ids
  <2>1. PICK n \in Unpointed \cup Partials \cup Others : at[n] = File(x) /\ x \in Inodes
    BY <1>3 DEF FilesOf
  <2>2. IsFile(n) /\ at[n].ino = x /\ n \in Names
    BY <2>1, Kinds DEF IsFile, Names, Unpointed
  <2>3. n \in Partials \cup Others => x \notin ids
    BY <1>1, <1>2, <2>2, Leads
  <2>4. n \in Unpointed => x \notin ids
    BY <2>2 DEF Unpointed
  <2>5. QED
    BY <2>1, <2>2, <2>3, <2>4 DEF FilesOf
<1>6. ASSUME NEW n \in Blobs \cup Others, NEW m \in Partials \cup Others, n # m,
             NEW x, at[n] = File(x), at[m] = File(x)
      PROVE  FALSE
  <2>1. n \in Names /\ m \in Names /\ IsFile(n)
    BY <1>6, Kinds DEF Names, IsFile
  <2>2. QED
    BY <1>1, <1>6, <2>1, OwnFiles
<1>7. FilesOf(Dealt) \cap FilesOf(Partials) = {}
  BY <1>3, <1>6 DEF FilesOf, Unpointed
<1>8. (FilesOf(Dealt) \cup FilesOf(Partials)) \cap FilesOf(Others) = {}
  BY <1>3, <1>6 DEF FilesOf, Unpointed
<1>9. QED
  BY <1>2, <1>3, <1>4, <1>5, <1>7, <1>8

\* What is neither listed nor a file of the rest.
LEMMA UnlistedBytes ==
  ASSUME IInv, phase = "done"
  PROVE  /\ duplicated + orphan + partial = Bytes(FilesOf(Dealt) \cup FilesOf(Partials))
         /\ partial \in Nat /\ bookkeeping = Bytes(FilesOf(Others))
<1>1. \A S : FilesOf(S) \in SUBSET Things
  BY DEF FilesOf, Things
<1>2. Walked \cap Partials = Partials /\ Walked \cap Others = Others
  BY WalkedIs DEF IInv, TypeOK, Names
<1>3. partial = Bytes(FilesOf(Partials)) /\ bookkeeping = Bytes(FilesOf(Others))
  BY <1>2 DEF IInv, Charged
<1>4. duplicated + orphan = Bytes(FilesOf(Dealt))
  BY DEF IInv, Paired
<1>5. FilesOf(Dealt) \cap FilesOf(Partials) = {}
  BY Partition
<1>6. Bytes(FilesOf(Dealt) \cup FilesOf(Partials)) = Bytes(FilesOf(Dealt)) + Bytes(FilesOf(Partials))
  BY <1>1, <1>5, BytesUnion
<1>7. Bytes(FilesOf(Dealt)) \in Nat /\ Bytes(FilesOf(Partials)) \in Nat
  BY <1>1, BytesType
<1>8. QED
  BY <1>3, <1>4, <1>6, <1>7

\* For any directories and lengths: each blob that no entry leads to is
\* counted as a duplicate, as an orphan or as partial, once, and no more is
\* called a duplicate than there are copies.
THEOREM EveryBlobIsForOneThing == WalkSpec => []EachForOneThing
<1>1. IInv => EachForOneThing
  <2> DEFINE Copied == {x \in Inodes : /\ \E e \in Entries : at[e] = File(x)
                                       /\ \A b \in Blobs : at[b] # File(x)}
             Alone == {c \in Blobs : IsFile(c) /\ \A e \in Entries : Resolved(e) # Resolved(c)}
  <2> SUFFICES ASSUME IInv, phase = "done"
               PROVE  /\ duplicated <= Bytes(Copied)
                      /\ duplicated + orphan + partial = Bytes({at[b].ino : b \in Alone})
    BY DEF EachForOneThing
  <2>1. Layout
    BY DEF IInv
  <2>2. duplicated <= Bytes(Copied)
    <3>1. Walked \cap Entries = Entries
      BY WalkedIs DEF IInv, TypeOK, Names
    <3>2. CopiedIn(Walked) = Copied
      BY <3>1 DEF CopiedIn, FilesOf
    <3>3. duplicated + Bytes(FilesOf(copies)) = Bytes(Copied)
      BY <3>2 DEF IInv, SoleCopies
    <3>4. Bytes(FilesOf(copies)) \in Nat /\ Bytes(Copied) \in Nat /\ duplicated \in Int
      BY BytesType DEF FilesOf, Things, IInv, TypeOK
    <3>5. QED
      BY <3>3, <3>4
  <2>3. {at[b].ino : b \in Alone} = FilesOf(Dealt) \cup FilesOf(Partials)
    <3>1. \A c \in Blobs : IsFile(c) =>
            /\ Resolved(c) = {at[c].ino} /\ at[c] = File(at[c].ino) /\ at[c].ino \in Inodes
      BY <2>1, Shapes DEF Resolved, Names
    <3>2. \A c \in Blobs : IsFile(c) =>
            ((\A e \in Entries : Resolved(e) # Resolved(c)) <=> at[c].ino \notin ids)
      <4> SUFFICES ASSUME NEW c \in Blobs, IsFile(c)
                   PROVE  (\A e \in Entries : Resolved(e) # Resolved(c)) <=> at[c].ino \notin ids
        OBVIOUS
      <4> DEFINE x == at[c].ino
      <4>1. Resolved(c) = {x}
        BY <3>1
      <4> HIDE DEF x
      <4>2. \A e \in Entries : x \in Resolved(e) => Resolved(e) = {x}
        BY <2>1, Leads
      <4>3. x \in ids <=> \E e \in Entries : x \in Resolved(e)
        BY Partition
      <4>4. QED
        BY <4>1, <4>2, <4>3 DEF x
    <3>3. \A c \in Partials : IsFile(c) => at[c].ino \notin ids
      BY <2>1, Leads, Partition
    <3>4. Alone = Dealt \cup {c \in Partials : IsFile(c)}
      BY <3>2, <3>3, Partition DEF Unpointed
    <3>5. \A S \in SUBSET Blobs : \A x : x \in FilesOf(S) <=> \E c \in S : IsFile(c) /\ at[c].ino = x
      BY <3>1, Kinds DEF FilesOf, IsFile
    <3>6. Dealt \in SUBSET Blobs /\ \A c \in Dealt : IsFile(c)
      BY Partition DEF Unpointed
    <3>7. \A x : x \in {at[b].ino : b \in Alone} <=> x \in FilesOf(Dealt) \cup FilesOf(Partials)
      <4> HIDE DEF Alone
      <4>1. QED
        BY <3>4, <3>5, <3>6
    <3>8. QED
      BY <3>7
  <2>4. QED
    BY <2>2, <2>3, UnlistedBytes
<1>2. QED
  BY <1>1, UsageInvariant, PTL

\* The listing, when no two entries share a file, is the sum of the files.
LEMMA ListedIs ==
  ASSUME Layout, \A e, f \in Entries : e # f => Resolved(e) \cap Resolved(f) = {}
  PROVE  Listed = Bytes(UNION {Resolved(e) : e \in Entries})
<1> DEFINE R == [e \in Entries |-> Resolved(e)]
           size == [e \in Entries |-> Bytes(Resolved(e))]
<1>1. R \in [Entries -> SUBSET Things]
  BY Leads
<1>2. IsFiniteSet(Things) /\ IsFiniteSet(Entries) /\ \A x \in Things : LengthOf[x] \in Int
  BY BytesType DEF Things
<1>3. \A e, f \in Entries : e # f => R[e] \cap R[f] = {}
  OBVIOUS
<1>4. size = [e \in Entries |-> SumOf(LengthOf, R[e])]
  BY DEF Bytes, SumOf
<1>5. UNION {R[e] : e \in Entries} = UNION {Resolved(e) : e \in Entries}
  OBVIOUS
<1>6. Listed = SumOf(size, Entries)
  BY DEF Listed, SumOf
<1>7. Bytes(UNION {Resolved(e) : e \in Entries}) = SumOf(LengthOf, UNION {Resolved(e) : e \in Entries})
  BY DEF Bytes, SumOf
<1> HIDE DEF R, size
<1>8. SumOf([e \in Entries |-> SumOf(LengthOf, R[e])], Entries) =
        SumOf(LengthOf, UNION {R[e] : e \in Entries})
  BY <1>1, <1>2, <1>3, SumOfSums
<1>9. QED
  BY <1>4, <1>5, <1>6, <1>7, <1>8

\* For any directories and lengths: the listing and the other figures of du
\* add up to the bytes on disk, unless entries share a file or a payload of
\* the store is not listed.
THEOREM FiguresAreComplete == WalkSpec => []FiguresAddUp
<1>1. IInv => FiguresAddUp
  <2> SUFFICES ASSUME IInv, phase = "done",
                      \A e, f \in Entries : e # f => Resolved(e) \cap Resolved(f) = {},
                      \A b \in Blobs : IsLink(b) => \E e \in Entries : Resolved(e) = {at[b].to}
               PROVE  Accounted = total
    BY DEF FiguresAddUp
  <2> DEFINE N == FilesOf(Names)
             D == FilesOf(Dealt) \cup FilesOf(Partials)
             O == FilesOf(Others)
  <2>1. /\ Layout /\ Walked = Names /\ Walked \cap Blobs = Blobs
    BY WalkedIs DEF IInv, TypeOK, Names
  <2>2. /\ N \ ids = D \cup O /\ D \cap O = {} /\ ids = UNION {Resolved(e) : e \in Entries}
    BY Partition
  <2>3. /\ N \in SUBSET Inodes /\ D \in SUBSET Things /\ O \in SUBSET Things
        /\ N \in SUBSET Things /\ paid \in SUBSET Payloads /\ paid \in SUBSET Things
        /\ ids \in SUBSET Things
    BY <2>1, <2>2, Leads DEF FilesOf, Things, IInv, TypeOK
  <2>4. paid = {p \in Payloads : \E b \in Blobs : at[b] = Link(p)}
    BY <2>1 DEF IInv, Charged, PaidBy
  <2>5. paid \subseteq ids
    <3> SUFFICES ASSUME NEW p \in paid PROVE p \in ids
      OBVIOUS
    <3>1. PICK b \in Blobs : at[b] = Link(p)
      BY <2>4
    <3>2. IsLink(b) /\ at[b].to = p
      BY <3>1, Kinds DEF IsLink
    <3>3. PICK e \in Entries : Resolved(e) = {p}
      BY <3>2
    <3>4. QED
      BY <2>2, <3>3
  <2>6. ids \subseteq N \cup paid
    BY <2>1, <2>2, <2>4, Leads
  <2> HIDE DEF N, D, O
  <2>7. Bytes(ids) = Bytes(N \cap ids) + Bytes(paid)
    <3>1. ids = (N \cap ids) \cup paid /\ (N \cap ids) \cap paid = {}
      BY <2>3, <2>5, <2>6
    <3>2. N \cap ids \in SUBSET Things
      BY <2>3
    <3>3. Bytes((N \cap ids) \cup paid) = Bytes(N \cap ids) + Bytes(paid)
      BY <2>3, <3>1, <3>2, BytesUnion
    <3>4. QED
      BY <3>1, <3>3
  <2>8. Bytes(N) = Bytes(N \cap ids) + Bytes(D \cup O)
    <3>1. N = (N \cap ids) \cup (D \cup O) /\ (N \cap ids) \cap (D \cup O) = {}
      BY <2>2
    <3>2. N \cap ids \in SUBSET Things /\ D \cup O \in SUBSET Things
      BY <2>3
    <3>3. Bytes((N \cap ids) \cup (D \cup O)) = Bytes(N \cap ids) + Bytes(D \cup O)
      BY <3>1, <3>2, BytesUnion
    <3>4. QED
      BY <3>1, <3>3
  <2>9. Bytes(D \cup O) = Bytes(D) + Bytes(O)
    BY <2>2, <2>3, BytesUnion
  <2>10. /\ Bytes(N \cap ids) \in Nat /\ Bytes(D) \in Nat /\ Bytes(O) \in Nat /\ Bytes(paid) \in Nat
    <3>1. N \cap ids \in SUBSET Things
      BY <2>3
    <3>2. QED
      BY <2>3, <3>1, BytesType
  <2>11. total = Bytes(N) + Bytes(paid)
    BY <2>1 DEF IInv, Charged, N
  <2>12. duplicated + orphan + partial = Bytes(D) /\ bookkeeping = Bytes(O)
    BY UnlistedBytes DEF D, O
  <2>13. Listed = Bytes(ids)
    BY <2>1, <2>2, ListedIs
  <2>14. duplicated \in Int /\ orphan \in Int /\ partial \in Int
    BY DEF IInv, TypeOK
  <2>15. QED
    BY <2>7, <2>8, <2>9, <2>10, <2>11, <2>12, <2>13, <2>14 DEF Accounted
<1>2. QED
  BY <1>1, UsageInvariant, PTL
-----------------------------------------------------------------------------
(* The audit (CacheAudit).  What is in the cache while downloads write to  *)
(* it is the one part of the invariant; what the report says of what it    *)
(* has found, the other.                                                   *)

HIDE UsageAssumption
USE AuditAssumption, CopyAssumption

\* The steps of a chunked download.
ChunkedAt ==
  {"clear part", "clear sidecar", "create", "save", "fetch", "link", "copy",
   "write ref", "tidy"}

\* A chunked download is of what the file is at the commit it began at; a
\* direct one has a commit, and later what the revision answered.
FetchOK ==
  \/ fetch = Idle
  \/ /\ fetch \in [at : ChunkedAt, file : Lfs, commit : Commits, digest : Digests]
     /\ fetch.digest = DigestOf[fetch.file][fetch.commit]
  \/ fetch \in [at : {"get"}, file : NoRanges, commit : Commits]
  \/ fetch \in [at : {"open", "write"}, file : NoRanges, commit : Commits, digest : Digests]

CacheTypes ==
  /\ upstream \in Commits
  /\ ref \in Commits \cup {NoCommit}
  /\ snap \in [Commits -> [RepoFiles -> Copies \cup {NoCopy}]]
  /\ part \in [Digests -> Nat \cup {Missing}]
  /\ side \in [Digests -> Nat \cup {Missing}]
  /\ incomplete \in [Digests -> Int]

Judgements ==
  [is : {"unjudged", "complete", "absent", "skipped", "ok", "mismatch"}]
    \cup [is : {"partial"}, progress : Int]

Reports ==
  [command : {"status", "verify", "list-files"},
   at : {"begun", "read ref", "list", "read blobs", "look", "hash", "stat", "sidecar", "failed"},
   commit : Commits \cup {NoCommit}, listed : Commits \cup {NoCommit},
   incomplete : [Digests -> Int], left : SUBSET RepoFiles]

ReportTypes ==
  /\ audit \in Reports
  /\ looked \in [RepoFiles -> Copies \cup {NoCopy}]
  /\ verdict \in [RepoFiles -> Judgements]

\* What can be at the path of a file: unless it is fetched directly, only what
\* it is at that commit, and in part only where pointers are copies.
Published(f, c, copy) ==
  f \in NoRanges \/ /\ copy.digest = DigestOf[f][c]
                    /\ copy.state \in CutOff => "copy" \in Pointers

\* What is at the paths; a download that writes there has made its file.
SnapshotsOK ==
  /\ \A c \in Commits : \A f \in RepoFiles :
       snap[c][f] # NoCopy => Published(f, c, snap[c][f])
  /\ fetch.at \in {"copy", "write"} => snap[fetch.commit][fetch.file] # NoCopy

\* A sidecar tells no more than its temp file has, and is gone before another
\* temp file is created; a download that fetches has its temp file.
SidecarsOK ==
  /\ \A d \in Digests :
       part[d] # Missing /\ side[d] # Missing => side[d] <= part[d]
  /\ fetch.at = "create" => side[fetch.digest] = Missing
  /\ fetch.at \in {"save", "fetch"} => part[fetch.digest] # Missing

\* Both are known.
Looking == {"read blobs", "look", "hash", "stat", "sidecar"}

\* A file that was looked at and waits for its verdict.
Waiting == {f \in RepoFiles \ audit.left : verdict[f] = Unjudged}

\* Nothing is judged before both the ref and the listing are read; at most one
\* file waits for its verdict, and it is in LFS.
AuditOK ==
  /\ audit.at \in {"begun", "read ref", "list", "read blobs"} => audit.left = RepoFiles
  /\ audit.at = "read ref" /\ audit.command = "list-files" => audit.listed \in Commits
  /\ audit.at \in Looking => audit.listed \in Commits
  /\ \A f \in audit.left : verdict[f] = Unjudged
  /\ audit.at = "look" => Waiting = {}
  /\ audit.at \in {"hash", "stat", "sidecar"} => \E f \in Lfs : Waiting \subseteq {f}

\* A file that is about to be hashed is there.
HashOK == audit.at = "hash" => \A f \in Waiting : Found(f) # NoCopy

-----------------------------------------------------------------------------
(* The steps.                                                               *)

\* A digest has a size, and a file at a commit a digest.
LEMMA Sizes ==
  /\ \A f \in RepoFiles, c \in Commits : DigestOf[f][c] \in Digests
  /\ \A d \in Digests : SizeOf[d] \in Nat /\ SizeOf[d] > 0
<1>1. \A f \in RepoFiles, c \in Commits : DigestOf[f][c] \in Digests
  BY DEF Digests
<1>2. \A d \in Digests : SizeOf[d] \in Nat \ {0}
  OBVIOUS
<1>3. QED
  BY <1>1, <1>2

\* Which steps touch the report, and which the cache.
LEMMA CacheStepsReportNothing ==
  Chunked \/ Direct \/ World => UNCHANGED report
BY DEF Chunked, ChunkedBegins, ClearsPart, ClearsSidecar, CreatesPart, SavesSidecar,
   FetchesMore, RenamesTemp, KeepsPointer, MakesPointer, CopiesBlob, WritesRef,
   TidiesSidecar, FetchIs, cache, Direct, DirectResolves, DirectGets, DirectOpens, DirectWrites,
   World, Interrupted, UpstreamMoves, HubBegins, HubFetches, HubPublishes, HubCopies,
   Rots, report

\* The commands only read.
LEMMA AuditWritesNothing == Audit => UNCHANGED <<upstream, cache, fetch>>
BY DEF Audit, ReadsRef, Lists, ListingFails, ReadsBlobs, HashFails, Reads, Looks, Says,
   Hashes, StatsPart, ReadsSidecar

-----------------------------------------------------------------------------
(* The cache.                                                               *)

\* What the cache holds, apart from what the report says of it.
CacheInv == FetchOK /\ CacheTypes /\ SnapshotsOK /\ SidecarsOK

\* What a download under way knows, by where it is.
LEMMA FetchKinds ==
  ASSUME FetchOK
  PROVE  /\ fetch.at \in ChunkedAt =>
              /\ fetch \in [at : ChunkedAt, file : Lfs, commit : Commits, digest : Digests]
              /\ fetch.digest = DigestOf[fetch.file][fetch.commit]
         /\ fetch.at = "get" =>
              fetch \in [at : {"get"}, file : NoRanges, commit : Commits]
         /\ fetch.at \in {"open", "write"} =>
              fetch \in [at : {"open", "write"}, file : NoRanges, commit : Commits,
                         digest : Digests]
<1>1. CASE fetch = Idle
  BY <1>1 DEF Idle, ChunkedAt
<1>2. CASE /\ fetch \in [at : ChunkedAt, file : Lfs, commit : Commits, digest : Digests]
           /\ fetch.digest = DigestOf[fetch.file][fetch.commit]
  <2>1. fetch.at \in ChunkedAt
    BY <1>2
  <2>2. fetch.at \notin {"get", "open", "write"}
    BY <2>1 DEF ChunkedAt
  <2>3. QED
    BY <1>2, <2>2
<1>3. CASE fetch \in [at : {"get"}, file : NoRanges, commit : Commits]
  <2>1. fetch.at = "get"
    BY <1>3
  <2>2. QED
    BY <1>3, <2>1 DEF ChunkedAt
<1>4. CASE fetch \in [at : {"open", "write"}, file : NoRanges, commit : Commits,
                      digest : Digests]
  <2>1. fetch.at \in {"open", "write"}
    BY <1>4
  <2>2. QED
    BY <1>4, <2>1 DEF ChunkedAt
<1>5. QED
  BY <1>1, <1>2, <1>3, <1>4 DEF FetchOK

\* A chunked download that goes on is the same one.
LEMMA FetchGoesOn ==
  ASSUME FetchOK, fetch.at \in ChunkedAt, NEW step \in ChunkedAt, Goes(step)
  PROVE  /\ FetchOK' /\ fetch'.at = step
         /\ fetch'.digest = fetch.digest /\ fetch'.file = fetch.file
        /\ fetch'.commit = fetch.commit
<1>1. /\ fetch \in [at : ChunkedAt, file : Lfs, commit : Commits, digest : Digests]
      /\ fetch.digest = DigestOf[fetch.file][fetch.commit]
  BY FetchKinds
<1>2. /\ fetch' \in [at : ChunkedAt, file : Lfs, commit : Commits, digest : Digests]
      /\ fetch'.digest = fetch.digest /\ fetch'.file = fetch.file
      /\ fetch'.commit = fetch.commit /\ fetch'.at = step
  BY <1>1 DEF Goes
<1>3. QED
  BY <1>1, <1>2 DEF FetchOK

\* A chunked download begins.
LEMMA ChunkedBeginsKeeps ==
  ASSUME CacheInv, NEW f \in Lfs, ChunkedBegins(f)
  PROVE  CacheInv'
<1> DEFINE d == DigestOf[f][upstream]
<1> USE DEF CacheInv
<1>1. d \in Digests /\ upstream \in Commits /\ f \in RepoFiles
  BY Sizes DEF CacheTypes
<1>2. PICK resumes \in {FALSE, Resumable(d)} :
        /\ fetch' = [at |-> IF resumes THEN "fetch" ELSE "clear part",
                     file |-> f, commit |-> upstream, digest |-> d]
        /\ part' = IF resumes THEN [part EXCEPT ![d] = side[d]] ELSE part
        /\ UNCHANGED <<upstream, ref, snap, side, incomplete>>
  BY DEF ChunkedBegins
<1>3. FetchOK' /\ fetch'.at \in {"fetch", "clear part"}
  <2>1. /\ fetch' \in [at : ChunkedAt, file : Lfs, commit : Commits, digest : Digests]
        /\ fetch'.digest = DigestOf[fetch'.file][fetch'.commit]
        /\ fetch'.at \in {"fetch", "clear part"}
    BY <1>1, <1>2 DEF ChunkedAt
  <2>2. QED
    BY <2>1 DEF FetchOK
<1>4. CacheTypes'
  BY <1>1, <1>2 DEF CacheTypes, Resumable
<1>5. SnapshotsOK'
  BY <1>2, <1>3 DEF SnapshotsOK
<1>6. \A e \in Digests : part'[e] = part[e] \/ part'[e] = side[e]
  BY <1>1, <1>2 DEF CacheTypes
<1>7. SidecarsOK'
  <2>1. ASSUME NEW e \in Digests, part'[e] # Missing, side'[e] # Missing
        PROVE  side'[e] <= part'[e]
    <3>1. side'[e] = side[e] /\ side[e] \in Nat
      BY <1>2, <2>1 DEF CacheTypes
    <3>2. QED
      BY <1>6, <2>1, <3>1 DEF SidecarsOK
  <2>2. fetch'.at = "fetch" => part'[fetch'.digest] # Missing
    <3>1. fetch'.at = "fetch" => resumes
      BY <1>2
    <3>2. resumes => part'[d] = side[d] /\ side[d] # Missing
      BY <1>1, <1>2 DEF CacheTypes, Resumable
    <3>3. fetch'.digest = d
      BY <1>2
    <3>4. QED
      BY <3>1, <3>2, <3>3
  <2>3. QED
    BY <1>3, <2>1, <2>2 DEF SidecarsOK
<1>8. QED
  BY <1>3, <1>4, <1>5, <1>7

\* A step that changes neither temp files nor sidecars, and begins no download
\* in parts.
LEMMA SidesStay ==
  ASSUME SidecarsOK, UNCHANGED <<part, side>>, fetch' = fetch \/ fetch'.at \notin {"create", "save", "fetch"}
  PROVE  SidecarsOK'
BY DEF SidecarsOK

\* A file that is written where it may be keeps what is said of the paths.
LEMMA WrittenKeeps ==
  ASSUME CacheInv, NEW c \in Commits, NEW f \in RepoFiles, NEW copy \in Copies,
         snap' = [snap EXCEPT ![c][f] = copy], Published(f, c, copy),
         fetch'.at \in {"copy", "write"} =>
           /\ fetch'.commit \in Commits /\ fetch'.file \in RepoFiles
           /\ \/ fetch'.commit = c /\ fetch'.file = f
              \/ snap[fetch'.commit][fetch'.file] # NoCopy
  PROVE  SnapshotsOK' /\ snap' \in [Commits -> [RepoFiles -> Copies \cup {NoCopy}]]
<1>1. snap' \in [Commits -> [RepoFiles -> Copies \cup {NoCopy}]]
  BY DEF CacheInv, CacheTypes
<1>2. \A b \in Commits : \A g \in RepoFiles :
        snap'[b][g] = IF b = c /\ g = f THEN copy ELSE snap[b][g]
  BY DEF CacheInv, CacheTypes
<1>3. copy # NoCopy
  OBVIOUS
<1>4. ASSUME NEW b \in Commits, NEW g \in RepoFiles, snap'[b][g] # NoCopy
      PROVE  Published(g, b, snap'[b][g])
  <2>1. CASE b = c /\ g = f
    BY <1>2, <2>1
  <2>2. CASE ~(b = c /\ g = f)
    <3>1. snap'[b][g] = snap[b][g]
      BY <1>2, <2>2
    <3>2. QED
      BY <1>4, <3>1 DEF CacheInv, SnapshotsOK
  <2>3. QED
    BY <2>1, <2>2
<1>5. fetch'.at \in {"copy", "write"} => snap'[fetch'.commit][fetch'.file] # NoCopy
  BY <1>2, <1>3
<1>6. SnapshotsOK'
  BY <1>4, <1>5 DEF SnapshotsOK, Published
<1>7. QED
  BY <1>1, <1>6

\* The copy at a path gets a state, and nothing else at any path changes.
Restated(c, f, s) ==
  snap[c][f] # NoCopy /\ snap' = [snap EXCEPT ![c][f].state = s]

\* A copy with another state is a copy of the same.
LEMMA StateOnly ==
  ASSUME CacheInv, NEW c \in Commits, NEW f \in RepoFiles, NEW s \in States,
         Restated(c, f, s)
  PROVE  \E copy \in Copies :
           /\ snap' = [snap EXCEPT ![c][f] = copy]
           /\ copy.state = s /\ copy.digest = snap[c][f].digest
<1>1. snap \in [Commits -> [RepoFiles -> Copies \cup {NoCopy}]]
  BY DEF CacheInv, CacheTypes
<1>2. snap[c][f] \in Copies
  BY <1>1 DEF Restated
<1> DEFINE copy == [snap[c][f] EXCEPT !.state = s]
<1>3. copy \in Copies /\ copy.state = s /\ copy.digest = snap[c][f].digest
  BY <1>2 DEF Copies
<1>4. snap' = [snap EXCEPT ![c][f] = copy]
  BY <1>1 DEF Restated
<1> HIDE DEF copy
<1>5. QED
  BY <1>3, <1>4

\* A chunked download goes on: it tells of no more than it has, and its link is
\* to what it was begun for.
LEMMA ChunkedGoesKeeps ==
  ASSUME CacheInv, \/ ClearsPart \/ ClearsSidecar \/ CreatesPart \/ SavesSidecar
                   \/ FetchesMore \/ RenamesTemp \/ KeepsPointer \/ CopiesBlob
                   \/ \E way \in Pointers : MakesPointer(way)
                   \/ WritesRef
  PROVE  CacheInv'
<1> USE DEF CacheInv
<1> DEFINE d == fetch.digest
<1>1. fetch.at \in ChunkedAt
  BY DEF ClearsPart, ClearsSidecar, CreatesPart, SavesSidecar, FetchesMore, RenamesTemp,
     KeepsPointer, MakesPointer, CopiesBlob, WritesRef, FetchIs, ChunkedAt
<1>2. /\ fetch \in [at : ChunkedAt, file : Lfs, commit : Commits, digest : Digests]
      /\ d = DigestOf[fetch.file][fetch.commit]
  BY <1>1, FetchKinds
<1>3. CASE ClearsPart
  <2>1. FetchOK' /\ fetch'.at = "clear sidecar"
    BY <1>1, <1>3, FetchGoesOn DEF ClearsPart, ChunkedAt
  <2>2. CacheTypes' /\ \A e \in Digests : part'[e] \in {part[e], Missing}
    BY <1>2, <1>3 DEF ClearsPart, FetchIs, CacheTypes
  <2>3. UNCHANGED <<snap, side>>
    BY <1>3 DEF ClearsPart
  <2>4. SnapshotsOK' /\ SidecarsOK'
    BY <2>1, <2>2, <2>3 DEF SnapshotsOK, SidecarsOK
  <2>5. QED
    BY <2>1, <2>2, <2>4
<1>4. CASE ClearsSidecar
  <2>1. FetchOK' /\ fetch'.at = "create" /\ fetch'.digest = d
    BY <1>1, <1>4, FetchGoesOn DEF ClearsSidecar, ChunkedAt
  <2>2. /\ CacheTypes' /\ side'[d] = Missing
        /\ \A e \in Digests : side'[e] \in {side[e], Missing}
    BY <1>2, <1>4 DEF ClearsSidecar, Cleared, FetchIs, CacheTypes
  <2>3. UNCHANGED <<snap, part>>
    BY <1>4 DEF ClearsSidecar
  <2>4. SnapshotsOK' /\ SidecarsOK'
    BY <2>1, <2>2, <2>3 DEF SnapshotsOK, SidecarsOK
  <2>5. QED
    BY <2>1, <2>2, <2>4
<1>5. CASE CreatesPart
  <2>1. FetchOK' /\ fetch'.at = "save" /\ fetch'.digest = d
    BY <1>1, <1>5, FetchGoesOn DEF CreatesPart, ChunkedAt
  <2>2. /\ CacheTypes' /\ part'[d] = 0
        /\ \A e \in Digests : part'[e] = part[e] \/ e = d
    BY <1>2, <1>5 DEF CreatesPart, FetchIs, CacheTypes
  <2>3. UNCHANGED <<snap, side>> /\ side[d] = Missing
    BY <1>5 DEF CreatesPart, FetchIs, SidecarsOK
  <2>4. SnapshotsOK'
    BY <2>1, <2>3 DEF SnapshotsOK
  <2>5. SidecarsOK'
    BY <2>1, <2>2, <2>3 DEF SidecarsOK, Missing
  <2>6. QED
    BY <2>1, <2>2, <2>4, <2>5
<1>6. CASE SavesSidecar
  <2>1. FetchOK' /\ fetch'.at = "fetch" /\ fetch'.digest = d
    BY <1>1, <1>6, FetchGoesOn DEF SavesSidecar, ChunkedAt
  <2>2. CacheTypes' /\ \A e \in Digests : side'[e] \in {side[e], part[e]}
    BY <1>2, <1>6 DEF SavesSidecar, FetchIs, CacheTypes
  <2>3. UNCHANGED <<snap, part>> /\ part[d] # Missing
    BY <1>6 DEF SavesSidecar, SidecarsOK
  <2>4. SnapshotsOK'
    BY <2>1, <2>3 DEF SnapshotsOK
  <2>5. SidecarsOK'
    <3>1. ASSUME NEW e \in Digests, part'[e] # Missing, side'[e] # Missing
          PROVE  side'[e] <= part'[e]
      <4>1. part'[e] = part[e] /\ part[e] \in Nat
        BY <2>3, <3>1 DEF CacheTypes
      <4>2. QED
        BY <2>2, <3>1, <4>1 DEF SidecarsOK
    <3>2. QED
      BY <2>1, <2>3, <3>1 DEF SidecarsOK
  <2>6. QED
    BY <2>1, <2>2, <2>4, <2>5
<1>7. CASE FetchesMore
  <2>1. part[d] \in Nat \/ part[d] = Missing
    BY <1>2 DEF CacheTypes
  <2>2. part' = [part EXCEPT ![d] = @ + 1]
    BY <1>7 DEF FetchesMore
  <2>3. \A e \in Digests : part'[e] = IF e = d THEN part[e] + 1 ELSE part[e]
    BY <2>2 DEF CacheTypes
  <2>4. part' \in [Digests -> Nat \cup {Missing}]
    <3>1. part[d] + 1 \in Nat
      BY <2>1 DEF Missing
    <3>2. QED
      BY <2>2, <3>1 DEF CacheTypes
  <2>5. UNCHANGED <<upstream, ref, snap, side, incomplete, fetch>> /\ fetch.at = "fetch"
    BY <1>7 DEF FetchesMore, FetchIs
  <2>6. CacheTypes' /\ FetchOK' /\ SnapshotsOK'
    BY <2>4, <2>5 DEF CacheTypes, FetchOK, SnapshotsOK
  <2>7. SidecarsOK'
    <3>1. part[d] # Missing /\ part[d] \in Nat
      BY <2>1, <2>5 DEF SidecarsOK
    <3>2. part'[d] = part[d] + 1 /\ part'[d] # Missing
      BY <1>2, <2>3, <3>1 DEF Missing
    <3>3. ASSUME NEW e \in Digests, part'[e] # Missing, side'[e] # Missing
          PROVE  side'[e] <= part'[e]
      <4>1. side'[e] = side[e] /\ side[e] \in Nat
        BY <2>5, <3>3 DEF CacheTypes
      <4>2. CASE e = d
        BY <3>1, <3>2, <3>3, <4>1, <4>2 DEF SidecarsOK
      <4>3. CASE e # d
        BY <2>3, <3>3, <4>1, <4>3 DEF SidecarsOK
      <4>4. QED
        BY <4>2, <4>3
    <3>4. QED
      BY <2>5, <3>2, <3>3 DEF SidecarsOK
  <2>8. QED
    BY <2>6, <2>7
<1>8. CASE RenamesTemp
  <2>1. FetchOK' /\ fetch'.at = "link"
    BY <1>1, <1>8, FetchGoesOn DEF RenamesTemp, ChunkedAt
  <2>2. CacheTypes' /\ \A e \in Digests : part'[e] \in {part[e], Missing}
    BY <1>2, <1>8 DEF RenamesTemp, FetchIs, CacheTypes
  <2>3. UNCHANGED <<snap, side>>
    BY <1>8 DEF RenamesTemp
  <2>4. SnapshotsOK' /\ SidecarsOK'
    BY <2>1, <2>2, <2>3 DEF SnapshotsOK, SidecarsOK
  <2>5. QED
    BY <2>1, <2>2, <2>4
<1>9. ASSUME NEW way \in Pointers, MakesPointer(way)
      PROVE  CacheInv'
  <2> DEFINE new == [digest |-> d, state |-> IF way = "copy" THEN "short" ELSE "whole"]
             step == IF way = "copy" THEN "copy" ELSE "write ref"
  <2>1. FetchOK' /\ fetch'.at = step /\ fetch'.file = fetch.file /\ fetch'.commit = fetch.commit
    <3>1. step \in ChunkedAt
      BY DEF ChunkedAt
    <3>2. Goes(step)
      BY <1>9 DEF MakesPointer
    <3> HIDE DEF step
    <3>3. QED
      BY <1>1, <3>1, <3>2, FetchGoesOn
  <2>2. new \in Copies /\ Published(fetch.file, fetch.commit, new)
    <3>1. new \in Copies
      BY <1>2 DEF Copies, States
    <3>2. new.digest = d /\ (way # "copy" => new.state = "whole")
      OBVIOUS
    <3>3. "whole" \notin CutOff
      BY DEF CutOff
    <3> HIDE DEF new
    <3>4. QED
      BY <1>2, <3>1, <3>2, <3>3 DEF Published
  <2>3. snap' = [snap EXCEPT ![fetch.commit][fetch.file] = new]
    BY <1>9 DEF MakesPointer
  <2>4. UNCHANGED <<upstream, ref, part, side, incomplete>>
    BY <1>9 DEF MakesPointer, FetchIs
  <2>5. fetch.commit \in Commits /\ fetch.file \in RepoFiles
    BY <1>2
  <2>6. SnapshotsOK' /\ snap' \in [Commits -> [RepoFiles -> Copies \cup {NoCopy}]]
    <3> HIDE DEF new
    <3>1. QED
      BY <2>1, <2>2, <2>3, <2>5, WrittenKeeps
  <2>7. CacheTypes'
    BY <2>4, <2>6 DEF CacheTypes
  <2>8. SidecarsOK'
    BY <2>1, <2>4, SidesStay
  <2>9. QED
    BY <2>1, <2>6, <2>7, <2>8
<1>10. CASE CopiesBlob
  <2> DEFINE new == [digest |-> d, state |-> "whole"]
  <2>1. FetchOK' /\ fetch'.at = "write ref"
    BY <1>1, <1>10, FetchGoesOn DEF CopiesBlob, ChunkedAt
  <2>2. new \in Copies /\ Published(fetch.file, fetch.commit, new)
    BY <1>2 DEF Copies, States, Published, CutOff
  <2>3. snap' = [snap EXCEPT ![fetch.commit][fetch.file] = new]
        /\ UNCHANGED <<upstream, ref, part, side, incomplete>>
    BY <1>10 DEF CopiesBlob, FetchIs
  <2>4. fetch.commit \in Commits /\ fetch.file \in RepoFiles
    BY <1>2
  <2>5. SnapshotsOK' /\ snap' \in [Commits -> [RepoFiles -> Copies \cup {NoCopy}]]
    <3> HIDE DEF new
    <3>1. QED
      BY <2>1, <2>2, <2>3, <2>4, WrittenKeeps
  <2>6. CacheTypes'
    BY <2>3, <2>5 DEF CacheTypes
  <2>7. SidecarsOK'
    BY <2>1, <2>3, SidesStay
  <2>8. QED
    BY <2>1, <2>5, <2>6, <2>7
<1>11. CASE KeepsPointer
  <2>1. FetchOK' /\ fetch'.at = "write ref"
    BY <1>1, <1>11, FetchGoesOn DEF KeepsPointer, ChunkedAt
  <2>2. UNCHANGED <<upstream, ref, snap, part, side, incomplete>>
    BY <1>11 DEF KeepsPointer, FetchIs, cache
  <2>3. CacheTypes' /\ SnapshotsOK'
    BY <2>1, <2>2 DEF CacheTypes, SnapshotsOK
  <2>4. SidecarsOK'
    BY <2>1, <2>2, SidesStay
  <2>5. QED
    BY <2>1, <2>3, <2>4
<1>12. CASE WritesRef
  <2>1. FetchOK' /\ fetch'.at = "tidy"
    BY <1>1, <1>12, FetchGoesOn DEF WritesRef, ChunkedAt
  <2>2. CacheTypes' /\ UNCHANGED <<snap, part, side>>
    BY <1>2, <1>12 DEF WritesRef, FetchIs, CacheTypes
  <2>3. QED
    BY <2>1, <2>2 DEF SnapshotsOK, SidecarsOK
<1>13. QED
  BY <1>3, <1>4, <1>5, <1>6, <1>7, <1>8, <1>9, <1>10, <1>11, <1>12

\* A download that ends leaves the sidecar, or takes it along.
LEMMA EndingKeeps ==
  ASSUME CacheInv, TidiesSidecar \/ Interrupted
  PROVE  CacheInv'
<1> USE DEF CacheInv
<1>1. FetchOK' /\ fetch'.at = "idle"
  BY DEF TidiesSidecar, Interrupted, FetchOK, Idle
<1>2. UNCHANGED <<upstream, ref, snap, part, incomplete>>
  BY DEF TidiesSidecar, Interrupted, FetchIs, cache
<1>3. /\ side' \in [Digests -> Nat \cup {Missing}]
      /\ \A e \in Digests : side'[e] \in {side[e], Missing}
  <2>1. CASE TidiesSidecar
    BY <2>1 DEF TidiesSidecar, CacheTypes
  <2>2. CASE Interrupted
    BY <2>2 DEF Interrupted, cache, CacheTypes
  <2>3. QED
    BY <2>1, <2>2
<1>4. CacheTypes' /\ SidecarsOK' /\ SnapshotsOK'
  BY <1>1, <1>2, <1>3 DEF CacheTypes, SidecarsOK, SnapshotsOK
<1>5. QED
  BY <1>1, <1>4

\* Direct downloads are of files that take no range requests.
LEMMA DirectKeeps ==
  ASSUME CacheInv, Direct
  PROVE  CacheInv'
<1> USE DEF CacheInv
<1>1. ASSUME NEW f \in NoRanges, DirectResolves(f)
      PROVE  CacheInv'
  <2> DEFINE c == IF ref = NoCommit THEN upstream ELSE ref
  <2>1. /\ c \in Commits /\ ref' = c
        /\ \/ fetch' = Idle
           \/ fetch' = [at |-> "get", file |-> f, commit |-> c]
        /\ UNCHANGED <<upstream, snap, part, side, incomplete>>
    BY <1>1 DEF DirectResolves, CacheTypes
  <2>2. FetchOK' /\ fetch'.at \in {"idle", "get"}
    BY <2>1 DEF FetchOK, Idle
  <2>3. CacheTypes' /\ SnapshotsOK'
    BY <2>1, <2>2 DEF CacheTypes, SnapshotsOK
  <2>4. SidecarsOK'
    BY <2>1, <2>2, SidesStay
  <2>5. QED
    BY <2>2, <2>3, <2>4
<1>2. CASE DirectGets
  <2>1. fetch \in [at : {"get"}, file : NoRanges, commit : Commits]
    BY <1>2, FetchKinds DEF DirectGets, FetchIs
  <2>2. UNCHANGED <<upstream, ref, snap, part, side, incomplete>>
    BY <1>2 DEF DirectGets, FetchIs, cache
  <2>3. FetchOK' /\ fetch'.at = "open"
    BY <1>2, <2>1, Sizes DEF DirectGets, FetchOK, CacheTypes
  <2>4. CacheTypes' /\ SnapshotsOK'
    BY <2>2, <2>3 DEF CacheTypes, SnapshotsOK
  <2>5. SidecarsOK'
    BY <2>2, <2>3, SidesStay
  <2>6. QED
    BY <2>3, <2>4, <2>5
<1>3. CASE DirectOpens
  <2> DEFINE new == [digest |-> fetch.digest, state |-> "short"]
  <2>1. fetch \in [at : {"open", "write"}, file : NoRanges, commit : Commits, digest : Digests]
    BY <1>3, FetchKinds DEF DirectOpens, FetchIs
  <2>2. new \in Copies
    BY <2>1 DEF Copies, States
  <2>3. snap' = [snap EXCEPT ![fetch.commit][fetch.file] = new] /\ Goes("write")
        /\ UNCHANGED <<upstream, ref, part, side, incomplete>>
    BY <1>3 DEF DirectOpens, FetchIs
  <2>4. /\ fetch' \in [at : {"open", "write"}, file : NoRanges, commit : Commits, digest : Digests]
        /\ fetch'.at = "write" /\ fetch'.commit = fetch.commit /\ fetch'.file = fetch.file
    BY <2>1, <2>3 DEF Goes
  <2>5. FetchOK'
    BY <2>4 DEF FetchOK
  <2>6. SnapshotsOK' /\ snap' \in [Commits -> [RepoFiles -> Copies \cup {NoCopy}]]
    <3>1. fetch.commit \in Commits /\ fetch.file \in RepoFiles /\ Published(fetch.file, fetch.commit, new)
      BY <2>1 DEF Published
    <3> HIDE DEF new
    <3>2. QED
      BY <2>2, <2>3, <2>4, <3>1, WrittenKeeps
  <2>7. CacheTypes'
    BY <2>3, <2>6 DEF CacheTypes
  <2>8. SidecarsOK'
    BY <2>3, <2>4, SidesStay
  <2>9. QED
    BY <2>5, <2>6, <2>7, <2>8
<1>4. CASE DirectWrites
  <2>1. fetch \in [at : {"open", "write"}, file : NoRanges, commit : Commits, digest : Digests]
        /\ fetch.at = "write"
    BY <1>4, FetchKinds DEF DirectWrites, FetchIs
  <2>2. /\ fetch.commit \in Commits /\ fetch.file \in RepoFiles
        /\ snap[fetch.commit][fetch.file] # NoCopy
    BY <2>1 DEF SnapshotsOK
  <2>3. /\ snap' = [snap EXCEPT ![fetch.commit][fetch.file].state = "whole"]
        /\ fetch' = Idle /\ UNCHANGED <<upstream, ref, part, side, incomplete>>
    BY <1>4 DEF DirectWrites, FetchIs
  <2>4. PICK copy \in Copies : snap' = [snap EXCEPT ![fetch.commit][fetch.file] = copy]
    <3> DEFINE new == [snap[fetch.commit][fetch.file] EXCEPT !.state = "whole"]
    <3>1. snap[fetch.commit][fetch.file] \in Copies
      <4>1. snap[fetch.commit] \in [RepoFiles -> Copies \cup {NoCopy}]
        BY <2>2 DEF CacheTypes
      <4>2. QED
        BY <2>2, <4>1
    <3>2. new \in Copies
      BY <3>1 DEF Copies, States
    <3>3. snap' = [snap EXCEPT ![fetch.commit][fetch.file] = new]
      BY <2>2, <2>3 DEF CacheTypes
    <3> HIDE DEF new
    <3>4. QED
      BY <3>2, <3>3
  <2>5. FetchOK' /\ fetch'.at = "idle"
    BY <2>3 DEF FetchOK, Idle
  <2>6. SnapshotsOK' /\ snap' \in [Commits -> [RepoFiles -> Copies \cup {NoCopy}]]
    <3>1. Published(fetch.file, fetch.commit, copy)
      BY <2>1 DEF Published
    <3>2. QED
      BY <2>2, <2>4, <2>5, <3>1, WrittenKeeps
  <2>7. CacheTypes'
    BY <2>3, <2>6 DEF CacheTypes
  <2>8. SidecarsOK'
    BY <2>3, <2>5, SidesStay
  <2>9. QED
    BY <2>5, <2>6, <2>7, <2>8
<1>5. QED
  BY <1>1, <1>2, <1>3, <1>4 DEF Direct

\* The rest: interruptions, hf-hub's downloads, decay, and the revision moving
\* on.
LEMMA WorldKeeps ==
  ASSUME CacheInv, World
  PROVE  CacheInv'
<1> USE DEF CacheInv
<1>1. CASE Interrupted
  BY <1>1, EndingKeeps
<1>2. ASSUME UNCHANGED <<ref, snap, part, side, fetch>>, upstream' \in Commits,
             incomplete' \in [Digests -> Int]
      PROVE  CacheInv'
  BY <1>2 DEF FetchOK, CacheTypes, SnapshotsOK, SidecarsOK
<1>3. CASE UpstreamMoves
  BY <1>2, <1>3 DEF UpstreamMoves, cache, CacheTypes
<1>4. CASE \E d \in Digests : HubBegins(d) \/ HubFetches(d)
  <2>1. incomplete' \in [Digests -> Int]
    BY <1>4 DEF HubBegins, HubFetches, CacheTypes
  <2>2. QED
    BY <1>2, <1>4, <2>1 DEF HubBegins, HubFetches, CacheTypes
<1>5. ASSUME NEW c \in Commits, NEW f \in RepoFiles, NEW copy \in Copies, Published(f, c, copy),
             snap' = [snap EXCEPT ![c][f] = copy], ref' \in Commits \cup {NoCommit},
             incomplete' \in [Digests -> Int], UNCHANGED <<upstream, part, side, fetch>>
      PROVE  CacheInv'
  <2>1. fetch'.at \in {"copy", "write"} =>
          /\ fetch'.commit \in Commits /\ fetch'.file \in RepoFiles
          /\ snap[fetch'.commit][fetch'.file] # NoCopy
    BY <1>5, FetchKinds DEF SnapshotsOK, ChunkedAt
  <2>2. SnapshotsOK' /\ snap' \in [Commits -> [RepoFiles -> Copies \cup {NoCopy}]]
    BY <1>5, <2>1, WrittenKeeps
  <2>3. CacheTypes' /\ FetchOK' /\ SidecarsOK'
    BY <1>5, <2>2 DEF CacheTypes, FetchOK, SidecarsOK
  <2>4. QED
    BY <2>2, <2>3
<1>6. ASSUME NEW f \in RepoFiles, NEW way \in Pointers, HubPublishes(f, way)
      PROVE  CacheInv'
  <2> DEFINE d == DigestOf[f][upstream]
             new == [digest |-> d, state |-> IF way = "copy" THEN "copying" ELSE "whole"]
  <2>1. d \in Digests /\ upstream \in Commits
    BY Sizes DEF CacheTypes
  <2>2. new \in Copies /\ Published(f, upstream, new)
    <3>1. new \in Copies
      BY <2>1 DEF Copies, States
    <3>2. new.digest = d /\ (way # "copy" => new.state = "whole")
      OBVIOUS
    <3>3. "whole" \notin CutOff
      BY DEF CutOff
    <3> HIDE DEF new
    <3>4. QED
      BY <3>1, <3>2, <3>3 DEF Published
  <2>3. /\ snap' = [snap EXCEPT ![upstream][f] = new] /\ ref' \in {ref, upstream}
        /\ incomplete' = [incomplete EXCEPT ![d] = Missing]
        /\ UNCHANGED <<upstream, part, side, fetch>>
    BY <1>6 DEF HubPublishes
  <2>4. ref' \in Commits \cup {NoCommit} /\ incomplete' \in [Digests -> Int]
    BY <2>1, <2>3 DEF CacheTypes, Missing
  <2> HIDE DEF new, d
  <2>5. QED
    BY <1>5, <2>1, <2>2, <2>3, <2>4
<1>7. ASSUME NEW c \in Commits, NEW f \in RepoFiles, HubCopies(c, f) \/ Rots(c, f)
      PROVE  CacheInv'
  <2>1. PICK s \in {"whole", "rotten"} :
          /\ snap[c][f] # NoCopy /\ snap' = [snap EXCEPT ![c][f].state = s]
          /\ ref' \in {ref, c} /\ UNCHANGED <<upstream, part, side, incomplete, fetch>>
    BY <1>7 DEF HubCopies, Rots
  <2>2. PICK copy \in Copies : /\ snap' = [snap EXCEPT ![c][f] = copy]
                               /\ copy.state = s /\ copy.digest = snap[c][f].digest
    <3>1. CacheInv /\ s \in States
      BY DEF States
    <3>2. Restated(c, f, s)
      BY <2>1 DEF Restated
    <3> HIDE DEF CacheInv
    <3>3. QED
      BY <3>1, <3>2, StateOnly
  <2>3. Published(f, c, copy)
    BY <2>1, <2>2 DEF SnapshotsOK, Published, CutOff
  <2>4. ref' \in Commits \cup {NoCommit} /\ incomplete' \in [Digests -> Int]
    BY <2>1 DEF CacheTypes
  <2>5. QED
    BY <1>5, <2>1, <2>2, <2>3, <2>4
<1>8. QED
  BY <1>1, <1>3, <1>4, <1>6, <1>7 DEF World

\* Every step keeps the cache's part of the invariant.
LEMMA CacheKept ==
  ASSUME CacheInv, [Next]_vars
  PROVE  CacheInv'
<1>1. CASE Chunked
  BY <1>1, ChunkedBeginsKeeps, ChunkedGoesKeeps, EndingKeeps DEF Chunked
<1>2. CASE Direct
  BY <1>2, DirectKeeps
<1>3. CASE World
  BY <1>3, WorldKeeps
<1>4. CASE Audit \/ UNCHANGED vars
  <2>1. UNCHANGED <<upstream, ref, snap, part, side, incomplete, fetch>>
    BY <1>4, AuditWritesNothing DEF vars, cache
  <2>2. QED
    BY <2>1 DEF CacheInv, FetchOK, CacheTypes, SnapshotsOK, SidecarsOK
<1>5. QED
  BY <1>1, <1>2, <1>3, <1>4 DEF Next
-----------------------------------------------------------------------------
(* The report.                                                              *)

\* What the report says, apart from what the cache holds.
ReportInv == ReportTypes /\ AuditOK /\ HashOK /\ VerdictsHoldAtOneCommit

\* What a verdict on f has to fit.
Fits(f, v, copy) ==
  audit.listed # NoCommit /\ audit.listed = audit.commit =>
    /\ v.is = "complete" /\ f \in Sized =>
         ~(copy # NoCopy /\ copy.digest = ListedDigest(f) /\ copy.state \in CutOff)
    /\ v.is = "mismatch" => Differs(f, copy)
    /\ v.is = "ok" => copy.state = "whole"

\* A verdict that fits what was looked of the file keeps the report.
LEMMA SaysKeeps ==
  ASSUME ReportInv, NEW f \in RepoFiles, audit.at \in Looking,
         audit.at = "look" \/ Current(f),
         NEW v \in Judgements, v # Unjudged, Says(f, v),
         NEW copy \in Copies \cup {NoCopy},
         looked' = [looked EXCEPT ![f] = copy], Fits(f, v, copy)
  PROVE  ReportInv'
<1> USE DEF ReportInv
<1>1. /\ audit' = [audit EXCEPT !.at = "look", !.left = @ \ {f}]
      /\ verdict' = [verdict EXCEPT ![f] = v]
  BY DEF Says
<1>2. /\ audit' \in Reports /\ audit'.at = "look" /\ audit'.left = audit.left \ {f}
      /\ audit'.commit = audit.commit /\ audit'.listed = audit.listed
  BY <1>1 DEF ReportTypes, Reports
<1>3. /\ verdict' \in [RepoFiles -> Judgements] /\ looked' \in [RepoFiles -> Copies \cup {NoCopy}]
      /\ \A g \in RepoFiles : verdict'[g] = IF g = f THEN v ELSE verdict[g]
      /\ \A g \in RepoFiles : looked'[g] = IF g = f THEN copy ELSE looked[g]
  BY <1>1 DEF ReportTypes
<1>4. ReportTypes'
  BY <1>2, <1>3 DEF ReportTypes
<1>5. AuditOK'
  <2>1. audit.left \subseteq RepoFiles
    BY DEF ReportTypes, Reports
  <2>2. audit.listed \in Commits
    BY DEF AuditOK
  <2>3. \A g \in audit'.left : verdict'[g] = Unjudged
    BY <1>2, <1>3, <2>1 DEF AuditOK
  <2>4. Waiting' = {}
    <3>1. SUFFICES ASSUME NEW g \in RepoFiles \ audit'.left, verdict'[g] = Unjudged
                   PROVE  FALSE
      BY DEF Waiting
    <3>2. g # f /\ g \in Waiting
      BY <1>2, <1>3, <3>1 DEF Waiting
    <3>3. audit.at # "look" /\ f \in Waiting
      BY <3>2 DEF AuditOK, Current, Waiting
    <3>4. audit.at \in {"hash", "stat", "sidecar"}
      BY <3>2, <3>3 DEF AuditOK, Looking, Waiting
    <3>5. QED
      BY <3>2, <3>3, <3>4 DEF AuditOK
  <2>5. QED
    BY <1>2, <2>2, <2>3, <2>4 DEF AuditOK
<1>6. VerdictsHoldAtOneCommit'
  <2>1. SUFFICES ASSUME audit'.listed # NoCommit, audit'.listed = audit'.commit, NEW g \in RepoFiles
                 PROVE  /\ verdict'[g].is = "complete" /\ g \in Sized =>
                             ~(/\ looked'[g] # NoCopy
                               /\ looked'[g].digest = DigestOf[g][audit'.listed]
                               /\ looked'[g].state \in CutOff)
                        /\ verdict'[g].is = "mismatch" => Differs(g, looked[g])'
                        /\ verdict'[g].is = "ok" => looked'[g].state = "whole"
    BY DEF VerdictsHoldAtOneCommit, ListedDigest
  <2>2. CASE g = f
    BY <1>2, <1>3, <2>1, <2>2 DEF Fits, ListedDigest, Differs
  <2>3. CASE g # f
    BY <1>2, <1>3, <2>1, <2>3 DEF VerdictsHoldAtOneCommit, ListedDigest, Differs
  <2>4. QED
    BY <2>2, <2>3
<1>7. HashOK'
  BY <1>2 DEF HashOK
<1>8. QED
  BY <1>4, <1>5, <1>6, <1>7

\* A step that judges nothing keeps the report, as long as nothing was judged
\* or what is compared stays the same.
LEMMA ReadsKeep ==
  ASSUME CacheInv, ReportInv, ReadsRef \/ Lists \/ ListingFails \/ ReadsBlobs \/ HashFails
  PROVE  ReportInv'
<1> USE DEF ReportInv
<1>1. looked' = looked /\ verdict' = verdict
  BY DEF ReadsRef, Lists, ListingFails, ReadsBlobs, HashFails, Reads
<1>2. CASE ReadsRef \/ Lists \/ ListingFails
  <2>1. /\ audit.at \in {"begun", "read ref", "list"} /\ audit.left = RepoFiles
        /\ \A f \in RepoFiles : verdict[f] = Unjudged
    BY <1>2 DEF ReadsRef, Lists, ListingFails, Reads, First, Last, AuditOK
  <2>2. /\ audit' \in Reports /\ audit'.left = audit.left /\ audit'.command = audit.command
    <3>1. NextRead \in {"read ref", "list", "read blobs", "look"}
      BY DEF NextRead, Last, AfterListing
    <3>2. upstream \in Commits /\ ref \in Commits \cup {NoCommit}
      BY DEF CacheInv, CacheTypes
    <3>3. audit \in Reports
      BY DEF ReportTypes
    <3>4. CASE ReadsRef
      BY <3>1, <3>2, <3>3, <3>4 DEF ReadsRef, Reports
    <3>5. CASE Lists
      BY <3>1, <3>2, <3>3, <3>5 DEF Lists, Reports
    <3>6. CASE ListingFails
      BY <3>3, <3>6 DEF ListingFails, Reports
    <3>7. QED
      BY <1>2, <3>4, <3>5, <3>6
  <2>3. /\ audit'.at = "read ref" /\ audit'.command = "list-files" => audit'.listed \in Commits
        /\ audit'.at \in Looking => audit'.listed \in Commits
    <3>1. audit \in Reports /\ upstream \in Commits
      BY DEF ReportTypes, CacheInv, CacheTypes
    <3>2. CASE Lists
      <4>1. audit'.listed = upstream
        BY <3>1, <3>2 DEF Lists, Reports
      <4>2. QED
        BY <3>1, <4>1
    <3>3. CASE ListingFails
      <4>1. audit'.at = "failed"
        BY <3>1, <3>3 DEF ListingFails, Reports
      <4>2. QED
        BY <4>1 DEF Looking
    <3>4. CASE ReadsRef
      <4>1. audit'.at = NextRead /\ audit'.listed = audit.listed
        BY <3>1, <3>4 DEF ReadsRef, Reports
      <4>2. CASE audit.command = "list-files"
        <5>1. audit.at = "read ref"
          BY <3>4, <4>2 DEF ReadsRef, Reads, First, Last
        <5>2. QED
          BY <4>1, <4>2, <5>1 DEF AuditOK
      <4>3. CASE audit.command # "list-files"
        <5>1. audit.at = "begun" /\ NextRead = "list"
          BY <3>4, <4>3 DEF ReadsRef, Reads, First, Last, NextRead
        <5>2. QED
          BY <4>1, <5>1 DEF Looking
      <4>4. QED
        BY <4>2, <4>3
    <3>5. QED
      BY <1>2, <3>2, <3>3, <3>4
  <2>4. ReportTypes' /\ AuditOK' /\ HashOK'
    <3>1. Waiting' = {}
      BY <2>1, <2>2 DEF Waiting
    <3>2. audit'.at \in {"hash", "stat", "sidecar"} => FALSE
      BY <1>2 DEF ReadsRef, Lists, ListingFails, NextRead, Last, AfterListing, ReportTypes,
         Reports
    <3>3. ReportTypes' /\ \A f \in audit'.left : verdict'[f] = Unjudged
      BY <1>1, <2>1, <2>2 DEF ReportTypes
    <3>4. QED
      BY <2>1, <2>2, <2>3, <3>1, <3>2, <3>3 DEF AuditOK, HashOK
  <2>5. VerdictsHoldAtOneCommit'
    <3>1. \A f \in RepoFiles : verdict'[f] = Unjudged
      BY <1>1, <2>1
    <3>2. Unjudged.is = "unjudged"
      BY DEF Unjudged
    <3>3. \A f \in RepoFiles : verdict'[f].is \notin {"complete", "mismatch", "ok"}
      BY <3>1, <3>2
    <3>4. QED
      BY <3>3 DEF VerdictsHoldAtOneCommit
  <2>6. QED
    BY <2>4, <2>5
<1>3. CASE ReadsBlobs \/ HashFails
  <2>1. /\ audit' \in Reports /\ audit'.left = audit.left /\ audit'.at \in {"look", "failed"}
        /\ audit'.commit = audit.commit /\ audit'.listed = audit.listed
        /\ audit.at \in Looking
        /\ audit'.at = "look" => audit.at = "read blobs"
    BY <1>3 DEF ReadsBlobs, HashFails, Reports, ReportTypes, Looking, CacheInv, CacheTypes
  <2>2. ReportTypes' /\ AuditOK' /\ HashOK'
    <3>1. audit'.at = "look" => Waiting' = {}
      BY <1>1, <2>1 DEF AuditOK, Waiting
    <3>2. QED
      BY <1>1, <2>1, <3>1 DEF ReportTypes, AuditOK, HashOK, Looking
  <2>3. VerdictsHoldAtOneCommit'
    BY <1>1, <2>1 DEF VerdictsHoldAtOneCommit, ListedDigest, Differs
  <2>4. QED
    BY <2>2, <2>3
<1>4. QED
  BY <1>2, <1>3

\* What is found at the path of a file, at the commit the ref had.
LEMMA FoundIs ==
  ASSUME CacheInv, ReportInv, NEW f \in RepoFiles
  PROVE  /\ Found(f) \in Copies \cup {NoCopy}
         /\ Found(f) # NoCopy =>
              audit.commit \in Commits /\ Published(f, audit.commit, Found(f))
<1>1. audit.commit \in Commits \cup {NoCommit}
  BY DEF ReportInv, ReportTypes, Reports
<1>2. audit.commit \in Commits => snap[audit.commit] \in [RepoFiles -> Copies \cup {NoCopy}]
  BY DEF CacheInv, CacheTypes
<1>3. CASE audit.commit = NoCommit
  BY <1>3 DEF Found
<1>4. CASE audit.commit \in Commits
  <2>1. Found(f) = snap[audit.commit][f]
    BY <1>4 DEF Found
  <2>2. snap[audit.commit][f] # NoCopy => Published(f, audit.commit, snap[audit.commit][f])
    BY <1>4 DEF CacheInv, SnapshotsOK
  <2>3. QED
    BY <1>2, <1>4, <2>1, <2>2
<1>5. QED
  BY <1>1, <1>3, <1>4

\* A copy that was cut off is shorter than the listing of its commit says.
LEMMA ShortIsSeen ==
  ASSUME NEW f \in Sized, audit.listed \in Commits, NEW copy,
         copy.digest = ListedDigest(f), copy.state \in CutOff
  PROVE  ByLength(f, copy).is = "partial"
<1>1. f \in RepoFiles /\ ListedDigest(f) \in Digests
  BY Sizes DEF ListedDigest
<1>2. CopyLength(copy) < SizeOf[ListedDigest(f)]
  BY <1>1, Sizes DEF CopyLength
<1>3. QED
  BY <1>2 DEF ByLength, ShortOfListing

\* A verdict by length.
LEMMA ByLengthType ==
  ASSUME NEW f \in RepoFiles, NEW copy \in Copies
  PROVE  ByLength(f, copy) \in Judgements /\ ByLength(f, copy).is \in {"partial", "complete"}
<1>1. CopyLength(copy) \in Int
  <2>1. copy.digest \in Digests
    BY DEF Copies
  <2>2. QED
    BY <2>1, Sizes DEF CopyLength
<1>2. QED
  BY <1>1 DEF ByLength, Judgements

\* The first look at a file: it is judged, or will be hashed or looked for
\* among partial downloads.
LEMMA LooksKeeps ==
  ASSUME CacheInv, ReportInv, NEW f \in RepoFiles, Looks(f)
  PROVE  ReportInv'
<1> DEFINE copy == Found(f)
<1>1. /\ audit.at \in Looking /\ audit.at = "look" /\ f \in audit.left
      /\ audit.listed \in Commits /\ looked' = [looked EXCEPT ![f] = copy]
      /\ copy \in Copies \cup {NoCopy}
  BY FoundIs DEF Looks, Looking, ReportInv, AuditOK
<1>2. ASSUME NEW v \in Judgements, v # Unjudged, Says(f, v), Fits(f, v, copy)
      PROVE  ReportInv'
  <2> HIDE DEF copy
  <2>1. QED
    BY <1>1, <1>2, SaysKeeps
<1>3. CASE Says(f, [is |-> "skipped"]) \/ Says(f, Absent)
  BY <1>2, <1>3 DEF Judgements, Unjudged, Absent, Fits
<1>4. CASE Found(f) # NoCopy /\ Says(f, ByLength(f, Found(f)))
  <2> DEFINE v == ByLength(f, copy)
  <2>1. v \in Judgements /\ v.is \in {"partial", "complete"}
    BY <1>1, <1>4, ByLengthType
  <2>2. v # Unjudged
    BY <2>1 DEF Unjudged
  <2>3. f \in Sized /\ copy.digest = ListedDigest(f) /\ copy.state \in CutOff => v.is = "partial"
    BY <1>1, ShortIsSeen
  <2>4. Fits(f, v, copy)
    <3> HIDE DEF v, copy
    <3>1. QED
      BY <2>1, <2>3 DEF Fits
  <2>5. QED
    <3>1. Says(f, v)
      BY <1>4
    <3> HIDE DEF v, copy
    <3>2. QED
      BY <1>2, <2>1, <2>2, <2>4, <3>1
<1>5. CASE /\ f \in Lfs
           /\ audit.command = "verify" => copy # NoCopy
           /\ audit' = [audit EXCEPT
                !.at = IF audit.command = "verify" THEN "hash" ELSE "stat",
                !.left = @ \ {f}]
           /\ UNCHANGED <<upstream, cache, fetch, verdict>>
  <2>1. /\ audit' \in Reports /\ audit'.left = audit.left \ {f} /\ audit'.at \in {"hash", "stat"}
        /\ audit'.commit = audit.commit /\ audit'.listed = audit.listed
        /\ audit'.at = "hash" => copy # NoCopy
    BY <1>5 DEF ReportInv, ReportTypes, Reports
  <2>2. /\ looked' \in [RepoFiles -> Copies \cup {NoCopy}] /\ verdict' = verdict
        /\ \A g \in RepoFiles \ {f} : looked'[g] = looked[g]
    BY <1>1, <1>5 DEF ReportInv, ReportTypes
  <2>3. ReportTypes'
    BY <2>1, <2>2 DEF ReportInv, ReportTypes
  <2>4. AuditOK' /\ HashOK'
    <3>1. Waiting' = {f}
      BY <1>1, <2>1, <2>2 DEF ReportInv, AuditOK, Waiting
    <3>2. Found(f)' = Found(f)
      BY <1>5, <2>1 DEF Found, cache
    <3>3. audit'.listed \in Commits /\ \A g \in audit'.left : verdict'[g] = Unjudged
      BY <1>1, <2>1, <2>2 DEF ReportInv, AuditOK
    <3>4. audit'.at \in {"hash", "stat", "sidecar"}
      BY <2>1
    <3>5. AuditOK'
      BY <1>5, <3>1, <3>3, <3>4 DEF AuditOK
    <3>6. HashOK'
      BY <2>1, <3>1, <3>2 DEF HashOK
    <3>7. QED
      BY <3>5, <3>6
  <2>5. verdict[f] = Unjudged
    BY <1>1 DEF ReportInv, AuditOK
  <2>6. VerdictsHoldAtOneCommit'
    <3>1. verdict'[f].is = "unjudged"
      BY <2>2, <2>5 DEF Unjudged
    <3>2. \A g \in RepoFiles : DigestOf[g][audit'.listed] = DigestOf[g][audit.listed]
      BY <2>1
    <3>3. QED
      BY <2>1, <2>2, <3>1 DEF ReportInv, VerdictsHoldAtOneCommit, ListedDigest, Differs
  <2>7. QED
    BY <2>3, <2>4, <2>6 DEF ReportInv
<1>6. QED
  BY <1>3, <1>4, <1>5 DEF Looks

\* A file in LFS that differs from the listing of its commit was damaged.
LEMMA HashesKeeps ==
  ASSUME CacheInv, ReportInv, NEW f \in RepoFiles, Hashes(f)
  PROVE  ReportInv'
<1> DEFINE copy == Found(f)
           v == IF copy = [digest |-> ListedDigest(f), state |-> "whole"]
                  THEN [is |-> "ok"] ELSE [is |-> "mismatch"]
<1>1. /\ audit.at \in Looking /\ audit.at = "hash" /\ Current(f)
      /\ looked' = [looked EXCEPT ![f] = copy] /\ Says(f, v)
  BY DEF Hashes, Looking
<1>2. f \in Waiting
  BY <1>1 DEF Current, Waiting
<1>3. f \in Lfs /\ copy # NoCopy
  BY <1>1, <1>2 DEF ReportInv, AuditOK, HashOK
<1>4. copy \in Copies /\ audit.commit \in Commits /\ Published(f, audit.commit, copy)
  BY <1>3, FoundIs
<1>5. v \in Judgements /\ v # Unjudged
  BY DEF Judgements, Unjudged
<1> HIDE DEF copy
<1>6. copy = [digest |-> copy.digest, state |-> copy.state] /\ copy.state \in States
  BY <1>4 DEF Copies
<1>7. Fits(f, v, copy)
  <2>1. SUFFICES ASSUME audit.listed = audit.commit
                 PROVE  /\ v.is # "complete"
                        /\ v.is = "mismatch" => Differs(f, copy)
                        /\ v.is = "ok" => copy.state = "whole"
    BY DEF Fits
  <2>2. CASE copy.state = "whole" /\ copy.digest = ListedDigest(f)
    BY <1>6, <2>2
  <2>3. CASE copy.state = "rotten" \/ copy.state \in CutOff \/ copy.digest # ListedDigest(f)
    <3>1. v = [is |-> "mismatch"]
      BY <2>3 DEF CutOff
    <3>2. Differs(f, copy)
      BY <1>4, <2>1, <2>3 DEF Differs, Published, ListedDigest
    <3>3. QED
      BY <3>1, <3>2
  <2>4. QED
    BY <1>6, <2>2, <2>3 DEF States, CutOff
<1> HIDE DEF v
<1>8. QED
  BY <1>1, <1>4, <1>5, <1>7, SaysKeeps

\* The verdicts on a partial download.
LEMMA ProgressKeeps ==
  ASSUME CacheInv, ReportInv, NEW f \in RepoFiles, StatsPart(f) \/ ReadsSidecar(f)
  PROVE  ReportInv'
<1> USE DEF ReportInv
<1>1. /\ audit.at \in {"stat", "sidecar"} /\ Current(f) /\ looked' = looked
      /\ audit.listed \in Commits
  BY DEF StatsPart, ReadsSidecar, AuditOK, Looking
<1>2. SizeOf[ListedDigest(f)] \in Int /\ side[ListedDigest(f)] \in Int
      /\ audit.incomplete[ListedDigest(f)] \in Int
  <2>1. ListedDigest(f) \in Digests
    BY <1>1, Sizes DEF ListedDigest
  <2>2. side[ListedDigest(f)] \in Int
    BY <2>1 DEF CacheInv, CacheTypes, Missing
  <2>3. audit.incomplete \in [Digests -> Int]
    BY DEF ReportTypes, Reports
  <2>4. QED
    BY <2>1, <2>2, <2>3, Sizes
<1>3. ASSUME NEW v \in Judgements, Says(f, v), v.is \in {"partial", "absent"}
      PROVE  ReportInv'
  <2>1. looked' = [looked EXCEPT ![f] = looked[f]] /\ looked[f] \in Copies \cup {NoCopy}
    BY <1>1 DEF ReportTypes
  <2>2. v # Unjudged /\ Fits(f, v, looked[f])
    BY <1>3 DEF Unjudged, Fits
  <2>3. audit.at \in Looking
    BY <1>1 DEF Looking
  <2>4. QED
    BY <1>1, <1>3, <2>1, <2>2, <2>3, SaysKeeps
<1>4. CASE ReadsSidecar(f)
  <2> DEFINE n == IF side[ListedDigest(f)] # Missing THEN side[ListedDigest(f)] ELSE SizeOf[ListedDigest(f)]
             v == [is |-> "partial", progress |-> n]
  <2>1. n \in Int
    BY <1>2
  <2> HIDE DEF n
  <2>2. v \in Judgements /\ v.is = "partial"
    BY <2>1 DEF Judgements
  <2>3. Says(f, v)
    BY <1>4 DEF ReadsSidecar, n
  <2> HIDE DEF v
  <2>4. QED
    BY <1>3, <2>2, <2>3
<1>5. CASE StatsPart(f) /\ part[ListedDigest(f)] = Missing
  <2> DEFINE n == audit.incomplete[ListedDigest(f)]
             v == IF n # Missing THEN [is |-> "partial", progress |-> n] ELSE Absent
  <2>1. v \in Judgements /\ v.is \in {"partial", "absent"}
    BY <1>2 DEF Judgements, Absent
  <2>2. Says(f, v)
    BY <1>5 DEF StatsPart
  <2> HIDE DEF v
  <2>3. QED
    BY <1>3, <2>1, <2>2
<1>6. CASE StatsPart(f) /\ part[ListedDigest(f)] # Missing
  <2>1. /\ audit' = [audit EXCEPT !.at = "sidecar"] /\ audit.at = "stat"
        /\ verdict' = verdict
    BY <1>6 DEF StatsPart
  <2>2. /\ audit' \in Reports /\ audit'.at = "sidecar" /\ audit'.left = audit.left
        /\ audit'.listed = audit.listed /\ audit'.commit = audit.commit
    BY <2>1 DEF ReportTypes, Reports
  <2>3. Waiting' = Waiting
    BY <2>1, <2>2 DEF Waiting
  <2>4. ReportTypes' /\ AuditOK' /\ HashOK'
    BY <1>1, <2>1, <2>2, <2>3 DEF ReportTypes, AuditOK, HashOK
  <2>5. VerdictsHoldAtOneCommit'
    BY <1>1, <2>1, <2>2 DEF VerdictsHoldAtOneCommit, ListedDigest, Differs
  <2>6. QED
    BY <2>4, <2>5
<1>7. QED
  BY <1>4, <1>5, <1>6

\* No step takes a copy away.
LEMMA CopiesStay ==
  ASSUME CacheInv, Chunked \/ Direct \/ World,
         NEW c \in Commits, NEW f \in RepoFiles, snap[c][f] # NoCopy
  PROVE  snap'[c][f] # NoCopy
<1> USE DEF CacheInv
<1>1. snap \in [Commits -> [RepoFiles -> Copies \cup {NoCopy}]]
  BY DEF CacheTypes
<1>2. ASSUME NEW b, NEW g, NEW new \in Copies, snap' = [snap EXCEPT ![b][g] = new]
      PROVE  snap'[c][f] # NoCopy
  BY <1>1, <1>2
<1>3. CASE snap' = snap
  BY <1>3
<1>4. CASE (\E way \in Pointers : MakesPointer(way)) \/ CopiesBlob \/ DirectOpens
  <2>1. fetch.digest \in Digests
    BY <1>4, FetchKinds DEF MakesPointer, CopiesBlob, DirectOpens, FetchIs, ChunkedAt
  <2>2. \E s \in States : snap' = [snap EXCEPT ![fetch.commit][fetch.file] =
                                     [digest |-> fetch.digest, state |-> s]]
    BY <1>4 DEF MakesPointer, CopiesBlob, DirectOpens, States
  <2>3. \A s \in States : [digest |-> fetch.digest, state |-> s] \in Copies
    BY <2>1 DEF Copies
  <2>4. QED
    BY <1>2, <2>2, <2>3
<1>5. ASSUME NEW b \in Commits, NEW g \in RepoFiles, NEW s \in States, snap[b][g] # NoCopy,
             snap' = [snap EXCEPT ![b][g].state = s]
      PROVE  snap'[c][f] # NoCopy
  <2>1. snap[b][g] \in Copies
    BY <1>1, <1>5
  <2>2. [snap[b][g] EXCEPT !.state = s] \in Copies
    BY <2>1 DEF Copies
  <2>3. snap' = [snap EXCEPT ![b][g] = [snap[b][g] EXCEPT !.state = s]]
    BY <1>1, <1>5
  <2>4. QED
    BY <1>2, <2>2, <2>3
<1>6. CASE DirectWrites
  <2>1. /\ fetch.commit \in Commits /\ fetch.file \in RepoFiles
        /\ snap[fetch.commit][fetch.file] # NoCopy
    BY <1>6, FetchKinds DEF DirectWrites, FetchIs, SnapshotsOK
  <2>2. QED
    BY <1>5, <1>6, <2>1 DEF DirectWrites, States
<1>7. CASE \E b \in Commits, g \in RepoFiles : HubCopies(b, g) \/ Rots(b, g)
  BY <1>5, <1>7 DEF HubCopies, Rots, States
<1>8. ASSUME NEW g \in RepoFiles, NEW way \in Pointers, HubPublishes(g, way)
      PROVE  snap'[c][f] # NoCopy
  <2>1. \E s \in States : snap' = [snap EXCEPT ![upstream][g] =
                                     [digest |-> DigestOf[g][upstream], state |-> s]]
    BY <1>8 DEF HubPublishes, States
  <2>2. \A s \in States : [digest |-> DigestOf[g][upstream], state |-> s] \in Copies
    BY Sizes DEF CacheTypes, Copies
  <2>3. QED
    BY <1>2, <2>1, <2>2
<1>9. QED
  <2>1. CASE Chunked
    BY <1>3, <1>4, <2>1 DEF Chunked, ChunkedBegins, ClearsPart, ClearsSidecar, CreatesPart,
       SavesSidecar, FetchesMore, RenamesTemp, KeepsPointer, WritesRef, TidiesSidecar, cache
  <2>2. CASE Direct
    BY <1>3, <1>4, <1>6, <2>2 DEF Direct, DirectResolves, DirectGets, cache
  <2>3. CASE World
    BY <1>3, <1>7, <1>8, <2>3 DEF World, Interrupted, UpstreamMoves, HubBegins, HubFetches,
       cache
  <2>4. QED
    BY <2>1, <2>2, <2>3

\* Every step keeps the report's part of the invariant: while the cache changes
\* the report stays, and the other way round.
LEMMA ReportKept ==
  ASSUME CacheInv, ReportInv, [Next]_vars
  PROVE  ReportInv'
<1>1. CASE Chunked \/ Direct \/ World
  <2>1. audit' = audit /\ looked' = looked /\ verdict' = verdict
    BY <1>1, CacheStepsReportNothing DEF report
  <2>2. ReportTypes' /\ AuditOK' /\ VerdictsHoldAtOneCommit'
    BY <2>1 DEF ReportInv, ReportTypes, AuditOK, Waiting, VerdictsHoldAtOneCommit, ListedDigest,
       Differs
  <2>3. HashOK'
    <3>1. SUFFICES ASSUME audit.at = "hash", NEW f \in Waiting PROVE Found(f)' # NoCopy
      BY <2>1 DEF HashOK, Waiting
    <3>2. Found(f) # NoCopy
      BY <3>1 DEF ReportInv, HashOK
    <3>3. audit.commit \in Commits /\ f \in RepoFiles /\ snap[audit.commit][f] # NoCopy
      BY <3>2 DEF Found, ReportInv, ReportTypes, Reports, Waiting
    <3>4. snap'[audit.commit][f] # NoCopy
      BY <1>1, <3>3, CopiesStay
    <3>5. QED
      BY <2>1, <3>3, <3>4 DEF Found
  <2>4. QED
    BY <2>2, <2>3 DEF ReportInv
<1>2. CASE Audit
  BY <1>2, ReadsKeep, LooksKeeps, HashesKeeps, ProgressKeeps DEF Audit
<1>3. CASE UNCHANGED vars
  BY <1>3 DEF vars, cache, report, ReportInv, ReportTypes, AuditOK, HashOK, Waiting, Found,
     VerdictsHoldAtOneCommit, ListedDigest, Differs
<1>4. QED
  BY <1>1, <1>2, <1>3 DEF Next
-----------------------------------------------------------------------------
(* The theorems.                                                            *)

\* The invariant holds at first.
LEMMA InitKeeps ==
  ASSUME Init
  PROVE  CacheInv /\ ReportInv
<1>1. CacheTypes /\ FetchOK
  BY DEF Init, CacheTypes, FetchOK, Missing
<1>2. SnapshotsOK /\ SidecarsOK
  BY DEF Init, SnapshotsOK, SidecarsOK, Idle
<1>3. audit \in Reports /\ audit.at = "begun" /\ audit.left = RepoFiles
      /\ audit.listed = NoCommit
  BY <1>1 DEF Init, Reports, CacheTypes
<1>4. ReportTypes
  <2>1. Unjudged \in Judgements
    BY DEF Unjudged, Judgements
  <2>2. QED
    BY <1>3, <2>1 DEF Init, ReportTypes
<1>5. AuditOK /\ HashOK
  BY <1>3 DEF Init, AuditOK, HashOK, Looking
<1>6. VerdictsHoldAtOneCommit
  BY <1>3 DEF VerdictsHoldAtOneCommit
<1>7. QED
  BY <1>1, <1>2, <1>4, <1>5, <1>6 DEF CacheInv, ReportInv

\* For any files, listings, commits and lengths of contents: the cache is as
\* downloads leave it, and what is said of a file fits what was found of it.
THEOREM AuditInvariant == Spec => [](CacheInv /\ ReportInv)
<1>1. CacheInv /\ ReportInv /\ [Next]_vars => (CacheInv /\ ReportInv)'
  BY CacheKept, ReportKept
<1>2. QED
  BY <1>1, InitKeeps, PTL DEF Spec

\* For any of them: verdicts hold at the one commit the ref and the listing are
\* of.
THEOREM VerdictsAreOfOneCommit == Spec => []VerdictsHoldAtOneCommit
<1>1. ReportInv => VerdictsHoldAtOneCommit
  BY DEF ReportInv
<1>2. QED
  BY <1>1, AuditInvariant, PTL

\* What a step from "sidecar" says is what the sidecar has.
LEMMA SidecarSaid ==
  ASSUME CacheInv, ReportInv, [Next]_vars, NEW f \in RepoFiles,
         audit.at = "sidecar", verdict'[f] # verdict[f], side[ListedDigest(f)] # Missing
  PROVE  \/ verdict'[f].progress <= part[ListedDigest(f)]
         \/ part[ListedDigest(f)] = Missing
<1>1. PICK g \in RepoFiles : ReadsSidecar(g)
  <2>1. ~(Chunked \/ Direct \/ World \/ UNCHANGED vars)
    BY CacheStepsReportNothing DEF vars, report
  <2>2. Audit
    BY <2>1 DEF Next
  <2>3. ~(ReadsRef \/ Lists \/ ListingFails \/ ReadsBlobs \/ HashFails)
    BY DEF ReadsRef, Lists, ListingFails, ReadsBlobs, HashFails, Reads
  <2>4. \A g \in RepoFiles : ~(Looks(g) \/ Hashes(g) \/ StatsPart(g))
    BY DEF Looks, Hashes, StatsPart
  <2>5. QED
    BY <2>2, <2>3, <2>4 DEF Audit
<1>2. verdict \in [RepoFiles -> Judgements]
  BY DEF ReportInv, ReportTypes
<1>3. g = f
  BY <1>1, <1>2 DEF ReadsSidecar, Says
<1>4. verdict'[f].progress = side[ListedDigest(f)]
  BY <1>1, <1>2, <1>3 DEF ReadsSidecar, Says
<1>5. ListedDigest(f) \in Digests
  BY Sizes DEF ListedDigest, ReportInv, AuditOK, Looking
<1>6. QED
  BY <1>4, <1>5 DEF CacheInv, SidecarsOK

\* For any of them: the progress that a sidecar gives was no more than the temp
\* file then had.
THEOREM ProgressIsTrue == Spec => ProgressWasTrue
<1>1. CacheInv /\ ReportInv /\ [Next]_vars =>
        \A f \in RepoFiles :
          audit.at = "sidecar" /\ verdict'[f] # verdict[f] /\ side[ListedDigest(f)] # Missing =>
            \/ verdict'[f].progress <= had
            \/ verdict'[f].progress <= part[ListedDigest(f)]
            \/ part[ListedDigest(f)] = Missing
  BY SidecarSaid
<1>2. CacheInv /\ ReportInv /\ [Next]_vars =>
        [\A f \in RepoFiles :
          audit.at = "sidecar" /\ verdict'[f] # verdict[f] /\ side[ListedDigest(f)] # Missing =>
            \/ verdict'[f].progress <= had
            \/ verdict'[f].progress <= part[ListedDigest(f)]
            \/ part[ListedDigest(f)] = Missing]_vars
  BY <1>1
<1>3. QED
  BY <1>2, AuditInvariant, PTL DEF Spec, ProgressWasTrue
=============================================================================
