--------------------------- MODULE HeaderCacheProofs ---------------------------
(***************************************************************************)
(* Proofs about HeaderCache: its types and what pruning leaves, wherever   *)
(* branches go and, when a branch never goes back to contents it had       *)
(* before, that every header shown is of its time.                         *)
(*                                                                         *)
(* The first invariant says of an entry, wherever it is (on disk or held   *)
(* by an inspection), what is left true of it by every later change        *)
(* upstream: its header was the file's since it was stamped, and one that  *)
(* is not the header of its own etag is of contents that came after that   *)
(* etag's.  The second says where entries are, and that an inspection      *)
(* that runs alone has nothing superseded behind it.                       *)
(***************************************************************************)
EXTENDS HeaderCache, TLAPS

\* What a revision has it has been seen to have until now, and nothing later.
RemoteOK ==
  \A r \in Revisions :
    /\ lastSeen[r][upstream[r]] = now
    /\ \A v \in Versions : lastSeen[r][v] <= now

\* `v' was read after the probe that named `tag' at revision r.
Follows(r, tag, v) ==
  v # tag => upstream[r] # tag /\ lastSeen[r][v] >= lastSeen[r][tag]

Honest(e) ==
  /\ lastSeen[e.rev][e.info] >= e.since
  /\ lastSeen[e.rev][e.etag] >= 0
  /\ Follows(e.rev, e.etag, e.info)

DiskOK == \A path \in Versions : entry[path] \notin Unusable => Honest(entry[path])

\* What an inspection knows.
Knows(i) ==
  /\ pc[i] # "idle" => revision[i] \in Revisions
  /\ began[i] <= now
  /\ pc[i] \in {"loading", "fetching", "saving", "pruning", "removing"} =>
       etag[i] \in Versions /\ lastSeen[revision[i]][etag[i]] >= began[i]
  /\ pc[i] \in {"idle", "scanning", "probing", "loading"} => info[i] = NoVersion
  /\ pc[i] \in {"idle", "probing", "loading", "fetching"} => draft[i] = NoEntry
  /\ pc[i] = "fetching" /\ info[i] # NoVersion =>
       /\ lastSeen[revision[i]][info[i]] >= began[i]
       /\ Follows(revision[i], etag[i], info[i])
  /\ draft[i] # NoEntry => Honest(draft[i])
  /\ pc[i] = "scanning" /\ draft[i] # NoEntry => draft[i].rev = revision[i]

HInv == TypeOK /\ RemoteOK /\ DiskOK /\ \A i \in Inspectors : Knows(i)

\* An inspection has a revision, and an etag once it has probed.
Working == {"loading", "fetching", "saving", "pruning", "removing"}

Placed ==
  \A i \in Inspectors :
    /\ pc[i] # "idle" => revision[i] \in Revisions
    /\ pc[i] \in Working => etag[i] \in Versions

Basis == TypeOK /\ Placed

\* Step i touches only what inspection i knows.
Apart(i) ==
  \A j \in Inspectors \ {i} :
    /\ pc'[j] = pc[j] /\ revision'[j] = revision[j] /\ began'[j] = began[j]
    /\ etag'[j] = etag[j] /\ info'[j] = info[j] /\ draft'[j] = draft[j]
-----------------------------------------------------------------------------
\* An entry is a record with these fields.
LEMMA EntryFields ==
  ASSUME NEW e \in Entries
  PROVE  /\ e.rev \in Revisions /\ e.etag \in Versions /\ e.info \in Versions
         /\ e.at \in Time /\ e.since \in Time
BY DEF Entries

\* What each variable holds of an inspection and of a path.
LEMMA DraftType ==
  ASSUME TypeOK, NEW i \in Inspectors
  PROVE  /\ draft[i] \in Entries \cup {NoEntry}
         /\ \A path \in Versions : entry[path] \in Entries \cup Unusable
         /\ left[i] \subseteq Versions /\ pc[i] \in Phases /\ began[i] \in Time
         /\ revision[i] \in Revisions \cup {NoRevision}
         /\ etag[i] \in Versions \cup {NoVersion} /\ info[i] \in Versions \cup {NoVersion}
         /\ now \in Time /\ alone[i] \in BOOLEAN
BY DEF TypeOK

\* Nothing the world does makes an honest entry dishonest.
LEMMA TickKeepsHonest ==
  ASSUME TypeOK, RemoteOK, Tick
  PROVE  /\ \A r \in Revisions, v \in Versions :
              /\ lastSeen'[r][v] >= lastSeen[r][v]
              /\ \A tag \in Versions : Follows(r, tag, v) => Follows(r, tag, v)'
         /\ RemoteOK'
<1>1. now \in Nat /\ now' = now + 1 /\ upstream' = upstream
  BY HeaderAssumption DEF TypeOK, Time, Tick
<1>2. \A r \in Revisions : upstream[r] \in Versions
  BY DEF TypeOK
<1>3. \A r \in Revisions, v \in Versions :
        lastSeen'[r][v] = IF v = upstream[r] THEN now + 1 ELSE lastSeen[r][v]
  BY <1>2 DEF Tick, TypeOK
<1>4. \A r \in Revisions : lastSeen[r][upstream[r]] = now
  BY DEF RemoteOK
<1>5. \A r \in Revisions, v \in Versions : lastSeen[r][v] \in Int
  BY HeaderAssumption DEF TypeOK, Time
<1>6. RemoteOK'
  <2>1. \A r \in Revisions, v \in Versions : lastSeen[r][v] <= now
    BY DEF RemoteOK
  <2> QED
    BY <1>1, <1>2, <1>3, <1>5, <2>1 DEF RemoteOK
<1>7. ASSUME NEW r \in Revisions, NEW v \in Versions
      PROVE  lastSeen'[r][v] >= lastSeen[r][v]
  BY <1>1, <1>3, <1>4, <1>5, <1>7
<1>8. ASSUME NEW r \in Revisions, NEW v \in Versions, NEW tag \in Versions,
             Follows(r, tag, v)
      PROVE  Follows(r, tag, v)'
  <2>1. v # tag => upstream'[r] # tag /\ lastSeen'[r][tag] = lastSeen[r][tag]
    BY <1>1, <1>3, <1>8 DEF Follows
  <2>2. lastSeen'[r][v] >= lastSeen[r][v]
    BY <1>7
  <2>3. lastSeen[r][v] \in Int /\ lastSeen[r][tag] \in Int /\ lastSeen'[r][v] \in Int
    BY <1>1, <1>3, <1>5
  <2> QED
    BY <1>8, <2>1, <2>2, <2>3 DEF Follows
<1> QED
  BY <1>6, <1>7, <1>8

\* Contents move on, never to those that were there before: what was honest
\* stays so.
LEMMA MoveKeepsHonest ==
  ASSUME ~EtagsRecur, TypeOK, RemoteOK, NEW b \in Revisions, NEW new \in Versions,
         UpstreamMoves(b, new)
  PROVE  /\ \A r \in Revisions, v \in Versions :
              /\ lastSeen'[r][v] >= lastSeen[r][v]
              /\ \A tag \in Versions :
                   lastSeen[r][tag] >= 0 /\ Follows(r, tag, v) => Follows(r, tag, v)'
         /\ RemoteOK'
<1>1. now \in Nat /\ now' = now /\ lastSeen[b][new] = -1 /\ new # upstream[b]
  BY HeaderAssumption DEF TypeOK, Time, UpstreamMoves
<1>2. \A r \in Revisions, v \in Versions :
        lastSeen'[r][v] = IF r = b /\ v = new THEN now ELSE lastSeen[r][v]
  BY DEF UpstreamMoves, TypeOK
<1>3. \A r \in Revisions : upstream'[r] = IF r = b THEN new ELSE upstream[r]
  BY DEF UpstreamMoves, TypeOK
<1>4. \A r \in Revisions, v \in Versions : lastSeen[r][v] \in Int
  BY HeaderAssumption DEF TypeOK, Time
<1>5. RemoteOK'
  <2>1. \A r \in Revisions : upstream'[r] \in Versions
    BY <1>3 DEF TypeOK
  <2>2. \A r \in Revisions, v \in Versions : lastSeen'[r][v] <= now
    BY <1>1, <1>2, <1>4 DEF RemoteOK
  <2>3. \A r \in Revisions : lastSeen'[r][upstream'[r]] = now
    BY <1>1, <1>2, <1>3 DEF RemoteOK, TypeOK
  <2> QED
    BY <1>1, <2>2, <2>3 DEF RemoteOK
<1>6. ASSUME NEW r \in Revisions, NEW v \in Versions
      PROVE  lastSeen'[r][v] >= lastSeen[r][v]
  BY <1>1, <1>2, <1>4, <1>6
<1>7. ASSUME NEW r \in Revisions, NEW v \in Versions, NEW tag \in Versions,
             lastSeen[r][tag] >= 0, Follows(r, tag, v)
      PROVE  Follows(r, tag, v)'
  <2>1. ~(r = b /\ tag = new)
    BY <1>1, <1>7
  <2>2. v # tag => upstream'[r] # tag
    BY <1>3, <1>7, <2>1 DEF Follows
  <2>3. lastSeen'[r][tag] = lastSeen[r][tag]
    BY <1>2, <2>1
  <2>4. lastSeen'[r][v] >= lastSeen[r][v]
    BY <1>6
  <2>5. lastSeen[r][v] \in Int /\ lastSeen[r][tag] \in Int /\ lastSeen'[r][v] \in Int
    BY <1>1, <1>2, <1>4
  <2> QED
    BY <1>7, <2>2, <2>3, <2>4, <2>5 DEF Follows
<1> QED
  BY <1>5, <1>6, <1>7
-----------------------------------------------------------------------------
(* Types.                                                                   *)

\* An inspection ends, however it does.
LEMMA EndType ==
  ASSUME TypeOK, NEW i \in Inspectors, End(i)
  PROVE  /\ pc' \in [Inspectors -> Phases]
         /\ revision' \in [Inspectors -> Revisions \cup {NoRevision}]
         /\ began' \in [Inspectors -> Time]
         /\ left' \in [Inspectors -> SUBSET Versions]
         /\ etag' \in [Inspectors -> Versions \cup {NoVersion}]
         /\ info' \in [Inspectors -> Versions \cup {NoVersion}]
         /\ draft' \in [Inspectors -> Entries \cup {NoEntry}]
         /\ alone' \in [Inspectors -> BOOLEAN]
<1>1. 0 \in Time /\ "idle" \in Phases
  BY HeaderAssumption DEF Time, Phases
<1> QED
  BY <1>1 DEF TypeOK, End, Goto

\* One begins.
LEMMA StartType ==
  ASSUME TypeOK, NEW i \in Inspectors, NEW r \in Revisions, Start(i, r)
  PROVE  TypeOK'
BY DEF TypeOK, Start, Goto, remote, Phases

\* An inspection that is not idle has a revision; what upstream has there.
LEMMA Asked ==
  ASSUME Basis, NEW i \in Inspectors, pc[i] # "idle"
  PROVE  revision[i] \in Revisions /\ upstream[revision[i]] \in Versions
BY DEF Basis, Placed, TypeOK

\* Its reads of the directory and of the Hub.
LEMMA LookupType ==
  ASSUME Basis, NEW i \in Inspectors,
         \/ \E path \in Versions : Scan(i, path)
         \/ NothingRecent(i) \/ Probe(i) \/ LoadMiss(i) \/ FetchRange(i)
  PROVE  TypeOK'
<1> USE DEF Basis
<1>1. CASE \E path \in Versions : Scan(i, path)
  <2>1. PICK path \in Versions : Scan(i, path)
    BY <1>1
  <2>2. entry[path] \notin Unusable => entry[path] \in Entries
    BY DraftType
  <2>3. draft' \in [Inspectors -> Entries \cup {NoEntry}]
    BY <2>1, <2>2 DEF Scan, TypeOK
  <2>4. left' \in [Inspectors -> SUBSET Versions]
    BY <2>1 DEF Scan, TypeOK
  <2> QED
    BY <2>1, <2>3, <2>4 DEF Scan, TypeOK, remote, request
<1>2. CASE NothingRecent(i) \/ LoadMiss(i)
  BY <1>2 DEF NothingRecent, LoadMiss, TypeOK, Goto, Phases, remote, request
<1>3. CASE Probe(i)
  <2>1. upstream[revision[i]] \in Versions
    BY <1>3, Asked DEF Probe
  <2> QED
    BY <1>3, <2>1 DEF Probe, TypeOK, Goto, Phases, remote, request
<1>4. CASE FetchRange(i)
  <2>1. upstream[revision[i]] \in Versions
    BY <1>4, Asked DEF FetchRange
  <2> QED
    BY <1>4, <2>1 DEF FetchRange, TypeOK, remote, request
<1> QED
  BY <1>1, <1>2, <1>3, <1>4

\* A hit, and a header parsed.
LEMMA AnsweringType ==
  ASSUME Basis, NEW i \in Inspectors, LoadHit(i) \/ Parsed(i)
  PROVE  TypeOK'
<1> USE DEF Basis
<1>1. revision[i] \in Revisions /\ etag[i] \in Versions
  BY Asked DEF LoadHit, Parsed, Placed, Working
<1>2. now \in Time /\ began[i] \in Time
  BY DraftType
<1>3. CASE LoadHit(i)
  <2>1. entry[etag[i]] \in Entries
    BY <1>1, <1>3, DraftType DEF LoadHit, Compatible
  <2>2. [entry[etag[i]] EXCEPT !.at = now, !.since = began[i]] \in Entries
    BY <1>2, <2>1 DEF Entries
  <2>3. draft' \in [Inspectors -> Entries \cup {NoEntry}]
    BY <1>3, <2>2 DEF LoadHit, TypeOK
  <2> QED
    BY <1>3, <2>3 DEF LoadHit, TypeOK, Goto, Phases, remote, request
<1>4. CASE Parsed(i)
  <2>1. info[i] \in Versions
    BY <1>4, DraftType DEF Parsed
  <2>2. [rev |-> revision[i], etag |-> etag[i], info |-> info[i],
         at |-> now, since |-> began[i]] \in Entries
    BY <1>1, <1>2, <2>1 DEF Entries
  <2>3. draft' \in [Inspectors -> Entries \cup {NoEntry}]
    BY <1>4, <2>2 DEF Parsed, TypeOK
  <2> QED
    BY <1>4, <2>3 DEF Parsed, TypeOK, Goto, Phases, remote, request
<1> QED
  BY <1>3, <1>4

\* It leaves, or is killed.
LEMMA LeavingType ==
  ASSUME TypeOK, NEW i \in Inspectors,
         \/ ServeRecent(i) \/ RequestFails(i) \/ PruneFails(i) \/ PruneEnds(i)
         \/ Killed(i)
  PROVE  TypeOK'
<1>1. End(i) /\ UNCHANGED <<remote, now, entry>>
  BY DEF ServeRecent, RequestFails, PruneFails, PruneEnds, Killed
<1> QED
  BY <1>1, EndType DEF TypeOK, remote

\* The save, whatever reaches the path.
LEMMA SaveType ==
  ASSUME Basis, NEW i \in Inspectors, NEW bytes, NEW renamed \in BOOLEAN,
         Save(i, bytes, renamed)
  PROVE  TypeOK' /\ bytes \in Entries \cup Unusable
<1> USE DEF Basis
<1>1. etag[i] \in Versions
  BY DEF Placed, Working, Save
<1>2. bytes \in Entries \cup Unusable
  BY <1>1, DraftType DEF Save, Unusable
<1>3. entry' \in [Versions -> Entries \cup Unusable]
  BY <1>2 DEF Save, TypeOK
<1>4. UNCHANGED <<upstream, lastSeen, now>>
  BY DEF Save, remote
<1>5. CASE End(i)
  BY <1>2, <1>3, <1>4, <1>5, EndType DEF TypeOK
<1>6. CASE ~End(i)
  <2>1. /\ Goto(i, "pruning")
        /\ left' = [left EXCEPT ![i] = Versions]
        /\ draft' = [draft EXCEPT ![i] = NoEntry]
        /\ UNCHANGED <<request, etag, info, alone>>
    BY <1>6 DEF Save
  <2>2. left' \in [Inspectors -> SUBSET Versions]
    BY <2>1 DEF TypeOK
  <2>3. pc' \in [Inspectors -> Phases]
    BY <2>1 DEF TypeOK, Goto, Phases
  <2>4. draft' \in [Inspectors -> Entries \cup {NoEntry}]
    BY <2>1 DEF TypeOK
  <2> QED
    BY <1>2, <1>3, <1>4, <2>1, <2>2, <2>3, <2>4 DEF TypeOK, request
<1> QED
  BY <1>2, <1>5, <1>6

\* The removal of entries of other etags.
LEMMA PruneType ==
  ASSUME Basis, NEW i \in Inspectors,
         \/ \E path \in Versions : PruneKeeps(i, path) \/ PruneFinds(i, path)
         \/ PruneRemoves(i)
  PROVE  TypeOK'
<1> USE DEF Basis
<1>1. CASE \E path \in Versions : PruneKeeps(i, path)
  BY <1>1 DEF PruneKeeps, TypeOK, remote, request
<1>2. CASE \E path \in Versions : PruneFinds(i, path)
  <2>1. PICK path \in Versions : PruneFinds(i, path)
    BY <1>2
  <2>2. entry[path] \in Entries
    BY <2>1, DraftType DEF PruneFinds, Superseded
  <2>3. draft' \in [Inspectors -> Entries \cup {NoEntry}]
    BY <2>1, <2>2 DEF PruneFinds, TypeOK
  <2>4. left' \in [Inspectors -> SUBSET Versions]
    BY <2>1 DEF PruneFinds, TypeOK
  <2> QED
    BY <2>1, <2>3, <2>4 DEF PruneFinds, TypeOK, Goto, Phases, remote, request
<1>3. CASE PruneRemoves(i)
  BY <1>3 DEF PruneRemoves, TypeOK, Goto, Phases, Unusable, remote, request
<1> QED
  BY <1>1, <1>2, <1>3

\* Time passes, contents move.
LEMMA WorldType ==
  ASSUME TypeOK,
         \/ Tick
         \/ \E r \in Revisions, v \in Versions : UpstreamMoves(r, v)
  PROVE  TypeOK'
<1>1. CASE Tick
  <2>1. now' \in Time
    BY <1>1, HeaderAssumption DEF Tick, TypeOK, Time
  <2>2. lastSeen' \in [Revisions -> [Versions -> {-1} \cup Time]]
    BY <1>1, <2>1 DEF Tick, TypeOK
  <2> QED
    BY <1>1, <2>1, <2>2 DEF Tick, TypeOK, request
<1>2. CASE \E r \in Revisions, v \in Versions : UpstreamMoves(r, v)
  <2>1. PICK r \in Revisions, v \in Versions : UpstreamMoves(r, v)
    BY <1>2
  <2>2. lastSeen' \in [Revisions -> [Versions -> {-1} \cup Time]]
    BY <2>1 DEF UpstreamMoves, TypeOK
  <2>3. upstream' \in [Revisions -> Versions]
    BY <2>1 DEF UpstreamMoves, TypeOK
  <2> QED
    BY <2>1, <2>2, <2>3 DEF UpstreamMoves, TypeOK, request
<1> QED
  BY <1>1, <1>2
-----------------------------------------------------------------------------
(* What inspections know.                                                   *)

\* What inspections know includes where they are.
LEMMA Grounded == HInv => Basis
BY DEF HInv, Knows, Basis, Placed, Working

\* A step of inspection i leaves the invariant if it leaves the files honest
\* and what i knows true.
LEMMA InspectorKeeps ==
  ASSUME HInv, NEW i \in Inspectors, UNCHANGED <<upstream, lastSeen, now>>, Apart(i),
         TypeOK', DiskOK', Knows(i)'
  PROVE  HInv'
<1>1. RemoteOK'
  BY DEF HInv, RemoteOK
<1>2. ASSUME NEW j \in Inspectors \ {i}
      PROVE  Knows(j)'
  BY DEF HInv, Knows, Apart, Honest, Follows
<1> QED
  BY <1>1, <1>2 DEF HInv

\* Entries that stay as they are stay honest.
LEMMA SameFiles ==
  ASSUME HInv, UNCHANGED <<upstream, lastSeen, entry>>
  PROVE  DiskOK'
BY DEF HInv, DiskOK, Honest, Follows

\* An inspection that ends knows nothing.
LEMMA EndKeeps ==
  ASSUME HInv, NEW i \in Inspectors, End(i), UNCHANGED <<upstream, lastSeen, now>>,
         TypeOK', DiskOK'
  PROVE  HInv'
<1>1. /\ pc'[i] = "idle" /\ draft'[i] = NoEntry /\ info'[i] = NoVersion /\ began'[i] = 0
      /\ now' = now /\ now \in Nat
  BY HeaderAssumption DEF End, Goto, HInv, TypeOK, Time
<1>2. Knows(i)'
  BY <1>1 DEF Knows
<1>3. Apart(i)
  BY DEF Apart, End, Goto, HInv, TypeOK
<1> QED
  BY <1>2, <1>3, InspectorKeeps

\* Leaving keeps the invariant.
LEMMA LeavingKeeps ==
  ASSUME HInv, NEW i \in Inspectors,
         \/ ServeRecent(i) \/ RequestFails(i) \/ PruneFails(i) \/ PruneEnds(i)
         \/ Killed(i)
  PROVE  HInv'
<1>1. End(i) /\ UNCHANGED <<upstream, lastSeen, now, entry>>
  BY DEF ServeRecent, RequestFails, PruneFails, PruneEnds, Killed, remote
<1>2. TypeOK'
  BY LeavingType DEF HInv
<1> QED
  BY <1>1, <1>2, SameFiles, EndKeeps

\* So does beginning.
LEMMA StartKeeps ==
  ASSUME HInv, NEW i \in Inspectors, NEW r \in Revisions, Start(i, r)
  PROVE  HInv'
<1>1. UNCHANGED <<upstream, lastSeen, now, entry, etag, info, draft>>
  BY DEF Start, remote
<1>2. TypeOK' /\ DiskOK'
  BY <1>1, StartType, SameFiles DEF HInv
<1>3. Apart(i)
  BY DEF Apart, Start, Goto, HInv, TypeOK
<1>4. /\ pc'[i] = "scanning" /\ revision'[i] = r /\ began'[i] = now /\ now \in Nat
      /\ draft[i] = NoEntry /\ info[i] = NoVersion
  <2>1. draft[i] = NoEntry /\ info[i] = NoVersion
    BY DEF Start, HInv, Knows
  <2> QED
    BY <2>1, HeaderAssumption DEF Start, Goto, HInv, TypeOK, Time
<1>5. Knows(i)'
  BY <1>1, <1>4 DEF Knows
<1> QED
  BY <1>1, <1>2, <1>3, <1>5, InspectorKeeps

\* So does reading an entry of the directory.
LEMMA ScanKeeps ==
  ASSUME HInv, NEW i \in Inspectors, NEW path \in Versions, Scan(i, path)
  PROVE  HInv'
<1>1. UNCHANGED <<upstream, lastSeen, now, entry, pc, revision, began, etag, info>>
  BY DEF Scan, remote, request
<1>2. TypeOK' /\ DiskOK'
  BY <1>1, Grounded, LookupType, SameFiles
<1>3. Apart(i)
  BY <1>1 DEF Apart, Scan, HInv, TypeOK
<1>4. \/ draft'[i] = draft[i]
      \/ draft'[i] = entry[path] /\ entry[path] \notin Unusable
         /\ entry[path].rev = revision[i]
  BY DEF Scan, Compatible, HInv, TypeOK
<1>5. pc[i] = "scanning" /\ Knows(i)
  BY DEF Scan, HInv
<1>6. draft'[i] # NoEntry => Honest(draft'[i]) /\ draft'[i].rev = revision[i]
  BY <1>4, <1>5 DEF HInv, DiskOK, Knows
<1>7. draft'[i] # NoEntry => Honest(draft[i])'
  BY <1>1, <1>6 DEF Honest, Follows
<1>8. Knows(i)'
  BY <1>1, <1>5, <1>6, <1>7 DEF Knows
<1> QED
  BY <1>1, <1>2, <1>3, <1>8, InspectorKeeps

\* So do the other reads.
LEMMA LookupKeeps ==
  ASSUME HInv, NEW i \in Inspectors,
         NothingRecent(i) \/ Probe(i) \/ LoadMiss(i) \/ FetchRange(i)
  PROVE  HInv'
<1>1. UNCHANGED <<upstream, lastSeen, now, entry, revision, began, draft>>
  BY DEF NothingRecent, Probe, LoadMiss, FetchRange, remote, request
<1>2. TypeOK' /\ DiskOK'
  BY <1>1, Grounded, LookupType, SameFiles
<1>3. Apart(i)
  BY <1>1 DEF Apart, NothingRecent, Probe, LoadMiss, FetchRange, Goto, HInv, TypeOK
<1>4. /\ Knows(i) /\ pc[i] # "idle" /\ revision[i] \in Revisions
      /\ lastSeen[revision[i]][upstream[revision[i]]] = now
      /\ now \in Nat /\ began[i] \in Nat /\ began[i] <= now
      /\ \A v \in Versions : lastSeen[revision[i]][v] <= now
  BY Grounded, Asked, DraftType, HeaderAssumption
     DEF HInv, RemoteOK, Knows, NothingRecent, Probe, LoadMiss, FetchRange, Time
<1>5. draft'[i] # NoEntry => Honest(draft[i])'
  BY <1>1, <1>4 DEF Knows, Honest, Follows
<1>6. Knows(i)'
  <2>1. CASE NothingRecent(i)
    <3>1. /\ pc[i] = "scanning" /\ pc'[i] = "probing" /\ draft[i] = NoEntry
          /\ etag' = etag /\ info' = info
      BY <2>1 DEF NothingRecent, Goto, HInv, TypeOK
    <3> QED
      BY <1>1, <1>4, <1>5, <3>1 DEF Knows
  <2>2. CASE Probe(i)
    <3>1. pc'[i] = "loading" /\ etag'[i] = upstream[revision[i]] /\ info' = info
      BY <2>2 DEF Probe, Goto, HInv, TypeOK
    <3>2. upstream[revision[i]] \in Versions /\ pc[i] = "probing"
      BY <2>2, Grounded, Asked DEF Probe
    <3>3. draft'[i] = NoEntry /\ info'[i] = NoVersion
      BY <1>1, <1>4, <3>1, <3>2 DEF Knows
    <3>4. lastSeen'[revision'[i]][etag'[i]] >= began'[i]
      BY <1>1, <1>4, <3>1
    <3> QED
      BY <1>1, <1>4, <3>1, <3>2, <3>3, <3>4 DEF Knows
  <2>3. CASE LoadMiss(i)
    <3>1. pc[i] = "loading" /\ pc'[i] = "fetching" /\ etag' = etag /\ info' = info
      BY <2>3 DEF LoadMiss, Goto, HInv, TypeOK
    <3> QED
      BY <1>1, <1>4, <1>5, <3>1 DEF Knows
  <2>4. CASE FetchRange(i)
    <3>1. /\ pc[i] = "fetching" /\ pc' = pc /\ etag' = etag
          /\ info'[i] = upstream[revision[i]]
      BY <2>4 DEF FetchRange, HInv, TypeOK
    <3>2. etag[i] \in Versions
      BY <1>4, <3>1 DEF Knows
    <3>3. Follows(revision[i], etag[i], info[i])'
      BY <1>1, <1>4, <3>1, <3>2 DEF Follows
    <3> QED
      BY <1>1, <1>4, <1>5, <3>1, <3>3 DEF Knows
  <2> QED
    BY <2>1, <2>2, <2>3, <2>4
<1> QED
  BY <1>1, <1>2, <1>3, <1>6, InspectorKeeps

\* What is confirmed under an etag seen since the inspection began, or parsed
\* after it, was the file's since then.
LEMMA HitIsHonest ==
  ASSUME HInv, NEW i \in Inspectors, LoadHit(i)
  PROVE  /\ entry[etag[i]] \in Entries
         /\ lastSeen[revision[i]][entry[etag[i]].info] >= began[i]
         /\ Honest([entry[etag[i]] EXCEPT !.at = now, !.since = began[i]])
<1> DEFINE e == entry[etag[i]]
           fresh == [e EXCEPT !.at = now, !.since = began[i]]
<1>1. pc[i] = "loading" /\ e \notin Unusable /\ e.rev = revision[i] /\ e.etag = etag[i]
  BY DEF LoadHit, Compatible
<1>2. /\ revision[i] \in Revisions /\ etag[i] \in Versions
      /\ lastSeen[revision[i]][etag[i]] >= began[i]
  BY <1>1, Grounded, Asked DEF HInv, Knows
<1>3. e \in Entries
  BY <1>1, <1>2, DraftType DEF HInv
<1>4. Honest(e)
  BY <1>1, <1>2 DEF HInv, DiskOK
<1>5. e.info \in Versions
  BY <1>3, EntryFields
<1>6. /\ lastSeen[revision[i]][e.info] \in Int /\ lastSeen[revision[i]][etag[i]] \in Int
      /\ began[i] \in Int
  BY <1>2, <1>5, HeaderAssumption DEF HInv, TypeOK, Time
<1>7. lastSeen[revision[i]][e.info] >= began[i]
  BY <1>1, <1>2, <1>4, <1>6 DEF Honest, Follows
<1>8. /\ fresh.rev = e.rev /\ fresh.etag = e.etag /\ fresh.info = e.info
      /\ fresh.since = began[i]
  BY <1>3 DEF Entries
<1>9. Honest(fresh)
  BY <1>1, <1>4, <1>7, <1>8 DEF Honest
<1> QED
  BY <1>3, <1>7, <1>9

\* A header that was parsed was the file's after its inspection began.
LEMMA ParsedIsHonest ==
  ASSUME HInv, NEW i \in Inspectors, Parsed(i)
  PROVE  /\ lastSeen[revision[i]][info[i]] >= began[i]
         /\ Honest([rev |-> revision[i], etag |-> etag[i], info |-> info[i],
                    at |-> now, since |-> began[i]])
<1>1. /\ revision[i] \in Revisions /\ etag[i] \in Versions
      /\ lastSeen[revision[i]][etag[i]] >= began[i]
      /\ lastSeen[revision[i]][info[i]] >= began[i]
      /\ Follows(revision[i], etag[i], info[i])
  BY Grounded, Asked DEF Parsed, HInv, Knows
<1>2. lastSeen[revision[i]][etag[i]] \in Int /\ began[i] \in Nat
  BY <1>1, HeaderAssumption DEF HInv, TypeOK, Time
<1>3. lastSeen[revision[i]][etag[i]] >= 0
  BY <1>1, <1>2
<1> QED
  BY <1>1, <1>3 DEF Honest

\* So does coming to a header.
LEMMA AnsweringKeeps ==
  ASSUME HInv, NEW i \in Inspectors, LoadHit(i) \/ Parsed(i)
  PROVE  HInv'
<1>1. UNCHANGED <<upstream, lastSeen, now, entry, revision, began, etag, info>>
  BY DEF LoadHit, Parsed, remote, request
<1>2. TypeOK' /\ DiskOK'
  BY <1>1, Grounded, AnsweringType, SameFiles
<1>3. Apart(i)
  BY <1>1 DEF Apart, LoadHit, Parsed, Goto, HInv, TypeOK
<1>4. pc[i] \in {"loading", "fetching"} /\ pc'[i] = "saving"
  BY DEF LoadHit, Parsed, Goto, HInv, TypeOK
<1>5. Honest(draft'[i])
  <2>1. CASE LoadHit(i)
    BY <2>1, HitIsHonest DEF LoadHit, HInv, TypeOK
  <2>2. CASE Parsed(i)
    BY <2>2, ParsedIsHonest DEF Parsed, HInv, TypeOK
  <2> QED
    BY <2>1, <2>2
<1>6. Honest(draft[i])'
  BY <1>1, <1>5 DEF Honest, Follows
<1>7. Knows(i)'
  BY <1>1, <1>4, <1>6 DEF HInv, Knows
<1> QED
  BY <1>1, <1>2, <1>3, <1>7, InspectorKeeps

\* Whatever lands at a path is honest or unusable.
LEMMA SaveKeeps ==
  ASSUME HInv, NEW i \in Inspectors, NEW bytes, NEW renamed \in BOOLEAN,
         Save(i, bytes, renamed)
  PROVE  HInv'
<1>1. UNCHANGED <<upstream, lastSeen, now>> /\ pc[i] = "saving" /\ Knows(i)
  BY DEF Save, remote, HInv
<1>2. TypeOK'
  BY Grounded, SaveType
<1>3. etag[i] \in Versions /\ revision[i] \in Revisions
  BY <1>1 DEF Knows
<1>4. bytes \notin Unusable => Honest(bytes)
  BY <1>1, <1>3 DEF Save, Unusable, HInv, DiskOK, Knows
<1>5. DiskOK'
  <2>1. ASSUME NEW path \in Versions, entry'[path] \notin Unusable
        PROVE  Honest(entry'[path])
    <3>1. entry'[path] = IF path = etag[i] THEN bytes ELSE entry[path]
      BY DEF Save, HInv, TypeOK
    <3> QED
      BY <1>4, <2>1, <3>1 DEF HInv, DiskOK
  <2>2. ASSUME NEW path \in Versions, entry'[path] \notin Unusable
        PROVE  Honest(entry[path])'
    BY <1>1, <2>1, <2>2 DEF Honest, Follows
  <2> QED
    BY <2>2 DEF DiskOK, Unusable
<1>6. CASE End(i)
  BY <1>1, <1>2, <1>5, <1>6, EndKeeps
<1>7. CASE ~End(i)
  <2>1. /\ pc'[i] = "pruning" /\ draft'[i] = NoEntry
        /\ UNCHANGED <<revision, began, etag, info>>
    BY <1>7 DEF Save, Goto, request, HInv, TypeOK
  <2>2. Apart(i)
    BY <1>7, <2>1 DEF Apart, Save, Goto, HInv, TypeOK
  <2>3. Knows(i)'
    BY <1>1, <2>1 DEF Knows
  <2> QED
    BY <1>1, <1>2, <1>5, <2>2, <2>3, InspectorKeeps
<1> QED
  BY <1>6, <1>7

\* So does the removal of entries: what is gone is unusable.
LEMMA PruneKeepsInv ==
  ASSUME HInv, NEW i \in Inspectors,
         \/ \E path \in Versions : PruneKeeps(i, path) \/ PruneFinds(i, path)
         \/ PruneRemoves(i)
  PROVE  HInv'
<1>1. /\ UNCHANGED <<upstream, lastSeen, now, revision, began, etag, info>>
      /\ pc[i] \in {"pruning", "removing"} /\ pc'[i] \in {"pruning", "removing"}
  BY DEF PruneKeeps, PruneFinds, PruneRemoves, remote, request, Goto, HInv, TypeOK
<1>2. TypeOK'
  BY Grounded, PruneType
<1>3. DiskOK'
  <2>1. \A path \in Versions : entry'[path] \in {entry[path], NoEntry}
    BY DEF PruneKeeps, PruneFinds, PruneRemoves, HInv, TypeOK
  <2> QED
    BY <1>1, <2>1 DEF HInv, DiskOK, Unusable, Honest, Follows
<1>4. Apart(i)
  BY <1>1 DEF Apart, PruneKeeps, PruneFinds, PruneRemoves, Goto, HInv, TypeOK
<1>5. draft'[i] # NoEntry => Honest(draft'[i])
  <2>1. CASE \E path \in Versions : PruneKeeps(i, path)
    BY <2>1 DEF PruneKeeps, HInv, Knows
  <2>2. CASE \E path \in Versions : PruneFinds(i, path)
    <3>1. PICK path \in Versions : PruneFinds(i, path)
      BY <2>2
    <3>2. draft'[i] = entry[path] /\ entry[path] \notin Unusable
      BY <3>1 DEF PruneFinds, Superseded, HInv, TypeOK
    <3> QED
      BY <3>2 DEF HInv, DiskOK
  <2>3. CASE PruneRemoves(i)
    BY <2>3 DEF PruneRemoves, HInv, TypeOK
  <2> QED
    BY <2>1, <2>2, <2>3
<1>6. draft'[i] # NoEntry => Honest(draft[i])'
  BY <1>1, <1>5 DEF Honest, Follows
<1>7. Knows(i)'
  BY <1>1, <1>6 DEF HInv, Knows
<1> QED
  BY <1>1, <1>2, <1>3, <1>4, <1>7, InspectorKeeps

\* The world moves on: what was honest stays so.
LEMMA WorldKeeps ==
  ASSUME ~EtagsRecur, HInv,
         \/ Tick
         \/ \E r \in Revisions, v \in Versions : UpstreamMoves(r, v)
  PROVE  HInv'
<1>1. /\ \A r \in Revisions, v \in Versions :
           /\ lastSeen'[r][v] >= lastSeen[r][v]
           /\ \A tag \in Versions :
                lastSeen[r][tag] >= 0 /\ Follows(r, tag, v) => Follows(r, tag, v)'
      /\ RemoteOK'
  BY TickKeepsHonest, MoveKeepsHonest DEF HInv
<1>2. UNCHANGED <<entry, pc, revision, began, etag, info, draft>> /\ now' >= now
  BY HeaderAssumption DEF Tick, UpstreamMoves, request, HInv, TypeOK, Time
<1>3. TypeOK'
  BY WorldType DEF HInv
<1>4. \A r \in Revisions, v \in Versions : lastSeen[r][v] \in Int /\ lastSeen'[r][v] \in Int
  BY <1>3, HeaderAssumption DEF HInv, TypeOK, Time
<1>5. now \in Nat /\ now' \in Nat /\ \A i \in Inspectors : began[i] \in Nat
  BY <1>3, HeaderAssumption DEF HInv, TypeOK, Time
<1>6. DiskOK'
  <2>1. ASSUME NEW path \in Versions, entry[path] \notin Unusable
        PROVE  Honest(entry[path])'
    <3>1. entry[path] \in Entries
      BY <2>1 DEF HInv, TypeOK
    <3>2. Honest(entry[path])
      BY <2>1 DEF HInv, DiskOK
    <3>4. entry' = entry
      BY <1>2
    <3>5. lastSeen'[entry[path].rev][entry[path].info] >= entry[path].since
          /\ lastSeen'[entry[path].rev][entry[path].etag] >= 0
          /\ Follows(entry[path].rev, entry[path].etag, entry[path].info)'
      BY <1>1, <1>4, <3>1, <3>2, <3>4, EntryFields, HeaderAssumption DEF Honest, Time, Follows
    <3> QED
      BY <3>4, <3>5 DEF Honest
  <2> QED
    BY <1>2, <2>1 DEF DiskOK
<1>7. ASSUME NEW i \in Inspectors
      PROVE  Knows(i)'
  <2>1. /\ Knows(i)
        /\ pc[i] # "idle" => revision[i] \in Revisions
        /\ info[i] \in Versions \cup {NoVersion}
    BY DraftType DEF HInv, Knows
  <2>2. began'[i] <= now'
    BY <1>2, <1>5, <2>1 DEF Knows
  <2>3. pc[i] \in {"loading", "fetching", "saving", "pruning", "removing"} =>
          etag[i] \in Versions /\ lastSeen'[revision[i]][etag[i]] >= began[i]
    BY <1>1, <1>4, <1>5, <2>1 DEF Knows
  <2>4. pc[i] = "fetching" /\ info[i] # NoVersion =>
          /\ lastSeen'[revision[i]][info[i]] >= began[i]
          /\ Follows(revision[i], etag[i], info[i])'
    <3>1. SUFFICES ASSUME pc[i] = "fetching", info[i] # NoVersion
                   PROVE  /\ lastSeen'[revision[i]][info[i]] >= began[i]
                          /\ Follows(revision[i], etag[i], info[i])'
      OBVIOUS
    <3>2. /\ revision[i] \in Revisions /\ info[i] \in Versions /\ etag[i] \in Versions
          /\ lastSeen[revision[i]][info[i]] >= began[i]
          /\ lastSeen[revision[i]][etag[i]] >= began[i]
          /\ Follows(revision[i], etag[i], info[i])
      BY <2>1, <3>1 DEF Knows
    <3>3. lastSeen[revision[i]][etag[i]] >= 0
      BY <1>4, <1>5, <3>2
    <3>4. Follows(revision[i], etag[i], info[i])'
      BY <1>1, <1>2, <3>2, <3>3 DEF Follows
    <3> QED
      BY <1>1, <1>4, <1>5, <3>2, <3>4
  <2>5. draft[i] # NoEntry => Honest(draft[i])'
    <3>1. SUFFICES ASSUME draft[i] # NoEntry
                   PROVE  Honest(draft[i])'
      OBVIOUS
    <3>2. draft[i] \in Entries /\ Honest(draft[i])
      BY <2>1, <3>1, DraftType DEF HInv, Knows
    <3>3. lastSeen'[draft[i].rev][draft[i].info] >= draft[i].since
          /\ lastSeen'[draft[i].rev][draft[i].etag] >= 0
          /\ Follows(draft[i].rev, draft[i].etag, draft[i].info)'
      BY <1>1, <1>2, <1>4, <3>2, EntryFields, HeaderAssumption DEF Honest, Time, Follows
    <3> QED
      BY <1>2, <3>3 DEF Honest
  <2> QED
    BY <1>2, <2>1, <2>2, <2>3, <2>4, <2>5 DEF Knows
<1> QED
  BY <1>1, <1>3, <1>6, <1>7 DEF HInv
-----------------------------------------------------------------------------
(* Honesty, for branches that never go back.                                *)

\* The invariant holds at first.
LEMMA InitHonest ==
  ASSUME Init
  PROVE  HInv
<1>1. 0 \in Time /\ "idle" \in Phases
  BY HeaderAssumption DEF Time, Phases
<1>2. TypeOK
  BY <1>1 DEF Init, TypeOK, Unusable
<1>3. RemoteOK
  BY DEF Init, RemoteOK
<1>4. DiskOK
  BY DEF Init, DiskOK, Unusable
<1>5. ASSUME NEW i \in Inspectors
      PROVE  Knows(i)
  BY DEF Init, Knows
<1> QED
  BY <1>2, <1>3, <1>4, <1>5 DEF HInv

\* Every step of an inspection keeps it.
LEMMA StepKeeps ==
  ASSUME HInv, NEW i \in Inspectors, Step(i) \/ Killed(i)
  PROVE  HInv'
<1>1. CASE \E path \in Versions : Scan(i, path)
  BY <1>1, ScanKeeps
<1>2. CASE NothingRecent(i) \/ Probe(i) \/ LoadMiss(i) \/ FetchRange(i)
  BY <1>2, LookupKeeps
<1>3. CASE LoadHit(i) \/ Parsed(i)
  BY <1>3, AnsweringKeeps
<1>4. CASE \E bytes \in {draft[i], Torn} \cup {entry[v] : v \in Versions}, renamed \in BOOLEAN :
             Save(i, bytes, renamed)
  BY <1>4, SaveKeeps
<1>5. CASE \/ \E path \in Versions : PruneKeeps(i, path) \/ PruneFinds(i, path)
           \/ PruneRemoves(i)
  BY <1>5, PruneKeepsInv
<1>6. CASE \/ ServeRecent(i) \/ RequestFails(i) \/ PruneFails(i) \/ PruneEnds(i)
           \/ Killed(i)
  BY <1>6, LeavingKeeps
<1> QED
  BY <1>1, <1>2, <1>3, <1>4, <1>5, <1>6 DEF Step

\* Every step does, when no branch goes back.
LEMMA NextKeeps ==
  ASSUME ~EtagsRecur, HInv, [Next]_vars
  PROVE  HInv'
<1>1. CASE \E i \in Inspectors : Step(i) \/ Killed(i)
  BY <1>1, StepKeeps
<1>2. CASE \E i \in Inspectors, r \in Revisions : Start(i, r)
  BY <1>2, StartKeeps
<1>3. CASE Tick \/ \E r \in Revisions, v \in Versions : UpstreamMoves(r, v)
  BY <1>3, WorldKeeps
<1>4. CASE UNCHANGED vars
  <2>1. /\ UNCHANGED <<upstream, lastSeen, now, entry, pc, revision, began>>
        /\ UNCHANGED <<left, etag, info, draft, alone>>
    BY <1>4 DEF vars, remote, request
  <2>2. TypeOK'
    BY <2>1 DEF HInv, TypeOK
  <2>3. RemoteOK' /\ DiskOK'
    BY <2>1, SameFiles DEF HInv, RemoteOK
  <2>4. ASSUME NEW i \in Inspectors
        PROVE  Knows(i)'
    BY <2>1 DEF HInv, Knows, Honest, Follows
  <2> QED
    BY <2>2, <2>3, <2>4 DEF HInv
<1> QED
  BY <1>1, <1>2, <1>3, <1>4 DEF Next

\* When no branch goes back to contents it had, what is known of entries and
\* headers stays true.
THEOREM HeaderInvariant == ~EtagsRecur => (Spec => []HInv)
<1> SUFFICES ASSUME ~EtagsRecur PROVE Spec => []HInv
  OBVIOUS
<1>1. Init => HInv
  BY InitHonest
<1>2. HInv /\ [Next]_vars => HInv'
  BY NextKeeps
<1> QED
  BY <1>1, <1>2, PTL DEF Spec

\* A header shown was the file's since its inspection began, or since the one
\* that stamped the entry did, if no branch goes back to earlier contents.
THEOREM HeaderOfItsTime == ~EtagsRecur => (Spec => HeaderIsOfItsTime)
<1>1. ASSUME HInv, NEW i \in Inspectors, ServeRecent(i)
      PROVE  lastSeen[revision[i]][draft[i].info] >= draft[i].since
  BY <1>1 DEF ServeRecent, HInv, Knows, Honest
<1>2. HInv => \A i \in Inspectors :
        LET seen == lastSeen[revision[i]]
            e == entry[etag[i]] IN
        /\ ServeRecent(i) => seen[draft[i].info] >= draft[i].since
        /\ LoadHit(i) => seen[e.info] >= began[i]
        /\ Parsed(i) => seen[info[i]] >= began[i]
  BY <1>1, HitIsHonest, ParsedIsHonest
<1> QED
  BY <1>2, HeaderInvariant, PTL DEF HeaderIsOfItsTime
-----------------------------------------------------------------------------
(* Where inspections are, and what pruning leaves, whether or not branches  *)
(* go back to contents they had.                                            *)

\* What a lookup or an ending does to the inspection that does it.
Leaves(i) ==
  ServeRecent(i) \/ RequestFails(i) \/ PruneFails(i) \/ PruneEnds(i) \/ Killed(i)

\* A step of inspection i leaves what the others hold alone.
LEMMA StepsApart ==
  ASSUME TypeOK, NEW i \in Inspectors, Step(i) \/ Killed(i),
         NEW j \in Inspectors \ {i}
  PROVE  /\ pc'[j] = pc[j] /\ revision'[j] = revision[j] /\ etag'[j] = etag[j]
         /\ draft'[j] = draft[j] /\ left'[j] = left[j] /\ alone'[j] = alone[j]
<1>1. CASE Leaves(i)
  BY <1>1 DEF Leaves, ServeRecent, RequestFails, PruneFails, PruneEnds, Killed, End, Goto, TypeOK
<1>2. CASE \E path \in Versions : Scan(i, path)
  BY <1>2 DEF Scan, request, TypeOK
<1>3. CASE NothingRecent(i) \/ Probe(i) \/ LoadMiss(i) \/ FetchRange(i)
  BY <1>3 DEF NothingRecent, Probe, LoadMiss, FetchRange, Goto, request, TypeOK
<1>4. CASE LoadHit(i) \/ Parsed(i)
  BY <1>4 DEF LoadHit, Parsed, Goto, request, TypeOK
<1>5. CASE \E bytes \in {draft[i], Torn} \cup {entry[v] : v \in Versions}, renamed \in BOOLEAN :
             Save(i, bytes, renamed)
  BY <1>5 DEF Save, End, Goto, request, TypeOK
<1>6. CASE \/ \E path \in Versions : PruneKeeps(i, path) \/ PruneFinds(i, path)
           \/ PruneRemoves(i)
  BY <1>6 DEF PruneKeeps, PruneFinds, PruneRemoves, Goto, request, TypeOK
<1> QED
  BY <1>1, <1>2, <1>3, <1>4, <1>5, <1>6 DEF Step, Leaves

\* What a step of inspection i does to where i is.
LEMMA StepsOn ==
  ASSUME Basis, NEW i \in Inspectors, Step(i) \/ Killed(i)
  PROVE  /\ pc[i] # "idle" /\ TypeOK'
         /\ \/ pc'[i] = "idle"
            \/ /\ revision'[i] = revision[i] /\ alone'[i] = alone[i]
               /\ pc'[i] \in Working => etag'[i] \in Versions
<1> USE DEF Basis
<1>1. CASE Leaves(i)
  <2>1. TypeOK'
    BY <1>1, LeavingType DEF Leaves
  <2>2. pc'[i] = "idle"
    BY <1>1 DEF Leaves, ServeRecent, RequestFails, PruneFails, PruneEnds, Killed, End, Goto, TypeOK
  <2>3. pc[i] # "idle"
    BY <1>1 DEF Leaves, ServeRecent, RequestFails, PruneFails, PruneEnds, Killed
  <2> QED
    BY <2>1, <2>2, <2>3
<1>2. CASE \E path \in Versions : Scan(i, path)
  <2>1. TypeOK'
    BY <1>2, LookupType
  <2> QED
    BY <1>2, <2>1 DEF Scan, request, TypeOK, Working
<1>3. CASE NothingRecent(i) \/ Probe(i) \/ LoadMiss(i) \/ FetchRange(i)
  <2>1. TypeOK'
    BY <1>3, LookupType
  <2>2. CASE Probe(i)
    <3>1. upstream[revision[i]] \in Versions
      BY <2>2, Asked DEF Probe
    <3> QED
      BY <2>1, <2>2, <3>1 DEF Probe, Goto, request, TypeOK, Working
  <2> QED
    BY <1>3, <2>1, <2>2
       DEF NothingRecent, LoadMiss, FetchRange, Goto, request, TypeOK, Placed, Working
<1>4. CASE LoadHit(i) \/ Parsed(i)
  <2>1. TypeOK'
    BY <1>4, AnsweringType
  <2> QED
    BY <1>4, <2>1 DEF LoadHit, Parsed, Goto, request, TypeOK, Placed, Working
<1>5. ASSUME NEW bytes, NEW renamed \in BOOLEAN, Save(i, bytes, renamed)
      PROVE  /\ pc[i] # "idle" /\ TypeOK'
             /\ \/ pc'[i] = "idle"
                \/ /\ revision'[i] = revision[i] /\ alone'[i] = alone[i]
                   /\ pc'[i] \in Working => etag'[i] \in Versions
  <2>1. TypeOK'
    BY <1>5, SaveType
  <2> QED
    BY <1>5, <2>1 DEF Save, End, Goto, request, TypeOK, Placed, Working
<1>6. CASE \/ \E path \in Versions : PruneKeeps(i, path) \/ PruneFinds(i, path)
           \/ PruneRemoves(i)
  <2>1. TypeOK'
    BY <1>6, PruneType
  <2> QED
    BY <1>6, <2>1 DEF PruneKeeps, PruneFinds, PruneRemoves, Goto, request, TypeOK, Placed, Working
<1> QED
  BY <1>1, <1>2, <1>3, <1>4, <1>5, <1>6 DEF Step, Leaves

\* The world leaves inspections and entries alone.
LEMMA WorldApart ==
  ASSUME TypeOK, Tick \/ \E r \in Revisions, v \in Versions : UpstreamMoves(r, v)
  PROVE  TypeOK' /\ UNCHANGED <<entry, pc, revision, left, etag, draft, alone>>
BY WorldType DEF Tick, UpstreamMoves, request

\* Where inspections are depends on these variables only.
LEMMA SameBasis ==
  ASSUME Basis, TypeOK', UNCHANGED <<pc, revision, etag>>
  PROVE  Basis'
BY DEF Basis, Placed

\* Every step keeps types and places.
LEMMA BasisKept == Basis /\ [Next]_vars => Basis'
<1> SUFFICES ASSUME Basis, [Next]_vars PROVE Basis'
  OBVIOUS
<1>1. ASSUME NEW i \in Inspectors, Step(i) \/ Killed(i)
      PROVE  Basis'
  <2>1. \A j \in Inspectors \ {i} :
          pc'[j] = pc[j] /\ revision'[j] = revision[j] /\ etag'[j] = etag[j]
    BY <1>1, StepsApart DEF Basis
  <2>2. /\ pc[i] # "idle" /\ TypeOK'
        /\ \/ pc'[i] = "idle"
           \/ revision'[i] = revision[i] /\ (pc'[i] \in Working => etag'[i] \in Versions)
    BY <1>1, StepsOn
  <2> QED
    BY <2>1, <2>2 DEF Basis, Placed, Working
<1>2. ASSUME NEW i \in Inspectors, NEW r \in Revisions, Start(i, r)
      PROVE  Basis'
  <2>1. TypeOK'
    BY <1>2, StartType DEF Basis
  <2> QED
    BY <1>2, <2>1 DEF Start, Goto, Basis, Placed, Working, TypeOK
<1>3. CASE Tick \/ \E r \in Revisions, v \in Versions : UpstreamMoves(r, v)
  BY <1>3, WorldApart, SameBasis DEF Basis
<1>4. CASE UNCHANGED vars
  BY <1>4 DEF vars, remote, request, Basis, Placed, TypeOK
<1> QED
  BY <1>1, <1>2, <1>3, <1>4 DEF Next

\* An entry is at the path of its own etag, and so is one about to be saved.
OwnPaths ==
  /\ \A path \in Versions : entry[path] \notin Unusable => entry[path].etag = path
  /\ \A i \in Inspectors :
       pc[i] = "saving" /\ draft[i] # NoEntry => draft[i].etag = etag[i]

\* While an inspection runs alone, no other does.
AloneIs ==
  \A i \in Inspectors : alone[i] => \A j \in Inspectors \ {i} : pc[j] = "idle"

\* What an inspection that runs alone has pruned stays so, but for the entry
\* that it is about to remove.
Swept(i) ==
  alone[i] /\ pc[i] \in {"pruning", "removing"} =>
    \A path \in Versions \ left[i] :
      Superseded(entry[path], i) => pc[i] = "removing" /\ draft[i].etag = path

PInv == Basis /\ OwnPaths /\ AloneIs /\ \A i \in Inspectors : Swept(i)

\* An inspection that runs alone stays alone until it ends or another begins.
LEMMA AloneKept == Basis /\ AloneIs /\ [Next]_vars => AloneIs'
<1> SUFFICES ASSUME Basis, AloneIs, [Next]_vars PROVE AloneIs'
  OBVIOUS
<1>1. ASSUME NEW i \in Inspectors, Step(i) \/ Killed(i)
      PROVE  AloneIs'
  <2>1. \A j \in Inspectors \ {i} : pc'[j] = pc[j] /\ alone'[j] = alone[j]
    BY <1>1, StepsApart DEF Basis
  <2>2. pc[i] # "idle" /\ (pc'[i] = "idle" \/ alone'[i] = alone[i])
    BY <1>1, StepsOn
  <2>3. \A j \in Inspectors \ {i} : ~alone[j]
    BY <2>2 DEF AloneIs
  <2>4. pc'[i] = "idle" => ~alone'[i] \/ alone'[i] = alone[i]
    <3>1. Step(i) \/ Killed(i)
      BY <1>1
    <3> QED
      BY <3>1 DEF Step, Killed, ServeRecent, RequestFails, PruneFails, PruneEnds, End, Goto,
         Scan, NothingRecent, Probe, LoadHit, LoadMiss, FetchRange, Parsed, Save, PruneKeeps,
         PruneFinds, PruneRemoves, Basis, TypeOK
  <2> QED
    BY <2>1, <2>2, <2>3, <2>4 DEF AloneIs
<1>2. ASSUME NEW i \in Inspectors, NEW r \in Revisions, Start(i, r)
      PROVE  AloneIs'
  BY <1>2 DEF Start, Goto, AloneIs, Basis, TypeOK
<1>3. CASE Tick \/ \E r \in Revisions, v \in Versions : UpstreamMoves(r, v)
  BY <1>3, WorldApart DEF AloneIs, Basis
<1>4. CASE UNCHANGED vars
  BY <1>4 DEF vars, AloneIs
<1> QED
  BY <1>1, <1>2, <1>3, <1>4 DEF Next

\* No step puts an entry at another etag's path.
LEMMA OwnPathsKept == Basis /\ OwnPaths /\ [Next]_vars => OwnPaths'
<1> SUFFICES ASSUME Basis, OwnPaths, [Next]_vars PROVE OwnPaths'
  OBVIOUS
<1> USE DEF Basis
<1>1. ASSUME NEW i \in Inspectors, Step(i) \/ Killed(i)
      PROVE  OwnPaths'
  <2>1. \A j \in Inspectors \ {i} :
          pc'[j] = pc[j] /\ etag'[j] = etag[j] /\ draft'[j] = draft[j]
    BY <1>1, StepsApart
  <2>2. CASE \/ Leaves(i) \/ NothingRecent(i) \/ Probe(i) \/ LoadMiss(i) \/ FetchRange(i)
             \/ \E path \in Versions : Scan(i, path)
             \/ \E path \in Versions : PruneKeeps(i, path) \/ PruneFinds(i, path)
    <3>1. entry' = entry /\ pc'[i] # "saving"
      BY <2>2 DEF Leaves, ServeRecent, RequestFails, PruneFails, PruneEnds, Killed, End, Goto,
         NothingRecent, Probe, LoadMiss, FetchRange, Scan, PruneKeeps, PruneFinds, TypeOK
    <3> QED
      BY <2>1, <3>1 DEF OwnPaths
  <2>3. CASE LoadHit(i)
    <3>1. entry[etag[i]] \in Entries /\ entry[etag[i]].etag = etag[i]
      BY <2>3, DraftType DEF LoadHit, Compatible, Placed, Working
    <3>2. draft'[i] = [entry[etag[i]] EXCEPT !.at = now, !.since = began[i]]
      BY <2>3 DEF LoadHit, TypeOK
    <3>3. draft'[i].etag = etag[i]
      BY <3>1, <3>2 DEF Entries
    <3>4. entry' = entry /\ etag' = etag
      BY <2>3 DEF LoadHit
    <3> QED
      BY <2>1, <3>3, <3>4 DEF OwnPaths
  <2>4. CASE Parsed(i)
    <3>1. draft'[i].etag = etag[i]
      BY <2>4 DEF Parsed, TypeOK
    <3>2. entry' = entry /\ etag' = etag
      BY <2>4 DEF Parsed
    <3> QED
      BY <2>1, <3>1, <3>2 DEF OwnPaths
  <2>5. ASSUME NEW bytes, NEW renamed \in BOOLEAN, Save(i, bytes, renamed)
        PROVE  OwnPaths'
    <3>1. etag[i] \in Versions /\ pc[i] = "saving" /\ pc'[i] # "saving"
      BY <2>5 DEF Save, End, Goto, Placed, Working, TypeOK
    <3>2. bytes \notin Unusable => bytes.etag = etag[i]
      BY <2>5, <3>1 DEF Save, OwnPaths, Unusable
    <3>3. \A path \in Versions : entry'[path] = IF path = etag[i] THEN bytes ELSE entry[path]
      BY <2>5 DEF Save, TypeOK
    <3> QED
      BY <2>1, <3>1, <3>2, <3>3 DEF OwnPaths
  <2>6. CASE PruneRemoves(i)
    <3>1. pc'[i] # "saving" /\ \A path \in Versions : entry'[path] \in {entry[path], NoEntry}
      BY <2>6 DEF PruneRemoves, Goto, TypeOK
    <3> QED
      BY <2>1, <3>1 DEF OwnPaths, Unusable
  <2> QED
    BY <1>1, <2>2, <2>3, <2>4, <2>5, <2>6 DEF Step, Leaves
<1>2. ASSUME NEW i \in Inspectors, NEW r \in Revisions, Start(i, r)
      PROVE  OwnPaths'
  BY <1>2 DEF Start, Goto, OwnPaths, TypeOK
<1>3. CASE Tick \/ \E r \in Revisions, v \in Versions : UpstreamMoves(r, v)
  BY <1>3, WorldApart DEF OwnPaths
<1>4. CASE UNCHANGED vars
  BY <1>4 DEF vars, OwnPaths
<1> QED
  BY <1>1, <1>2, <1>3, <1>4 DEF Next

\* Pruning alone, an inspection leaves nothing superseded behind it, and
\* nothing it has not read comes up.
LEMMA SweptKept ==
  ASSUME Basis, OwnPaths, AloneIs, NEW i \in Inspectors, Swept(i), [Next]_vars
  PROVE  Swept(i)'
<1> USE DEF Basis
<1>1. ASSUME NEW j \in Inspectors \ {i}, Step(j) \/ Killed(j)
      PROVE  Swept(i)'
  <2>1. alone'[i] = alone[i] /\ pc[j] # "idle"
    BY <1>1, StepsApart, StepsOn
  <2> QED
    BY <2>1 DEF AloneIs, Swept
<1>2. CASE \/ Leaves(i) \/ NothingRecent(i) \/ Probe(i) \/ LoadMiss(i) \/ FetchRange(i)
           \/ LoadHit(i) \/ Parsed(i) \/ \E path \in Versions : Scan(i, path)
  <2>1. pc'[i] \notin {"pruning", "removing"}
    BY <1>2 DEF Leaves, ServeRecent, RequestFails, PruneFails, PruneEnds, Killed, End, Goto,
       NothingRecent, Probe, LoadMiss, FetchRange, LoadHit, Parsed, Scan, TypeOK
  <2> QED
    BY <2>1 DEF Swept
<1>3. ASSUME NEW bytes, NEW renamed \in BOOLEAN, Save(i, bytes, renamed)
      PROVE  Swept(i)'
  <2>1. pc'[i] = "idle" \/ left'[i] = Versions
    BY <1>3 DEF Save, End, Goto, TypeOK
  <2> QED
    BY <2>1 DEF Swept
<1>4. ASSUME NEW found \in Versions, PruneKeeps(i, found)
      PROVE  Swept(i)'
  <2>1. /\ UNCHANGED <<entry, pc, revision, etag, draft, alone>> /\ pc[i] = "pruning"
        /\ left'[i] = left[i] \ {found} /\ ~Superseded(entry[found], i)
    BY <1>4 DEF PruneKeeps, request, TypeOK
  <2> QED
    BY <2>1 DEF Swept, Superseded
<1>5. ASSUME NEW found \in Versions, PruneFinds(i, found)
      PROVE  Swept(i)'
  <2>1. /\ UNCHANGED <<entry, revision, etag, alone>>
        /\ pc[i] = "pruning" /\ pc'[i] = "removing"
        /\ left'[i] = left[i] \ {found} /\ draft'[i] = entry[found]
        /\ Superseded(entry[found], i)
    BY <1>5 DEF PruneFinds, Goto, request, TypeOK
  <2>2. draft'[i].etag = found
    BY <2>1 DEF OwnPaths, Superseded
  <2> QED
    BY <2>1, <2>2 DEF Swept, Superseded
<1>6. CASE PruneRemoves(i)
  <2>1. /\ UNCHANGED <<revision, left, etag, alone>>
        /\ pc[i] = "removing" /\ pc'[i] = "pruning"
        /\ \A path \in Versions :
             entry'[path] = IF path = draft[i].etag THEN NoEntry ELSE entry[path]
    BY <1>6 DEF PruneRemoves, Goto, request, TypeOK
  <2>2. left[i] \subseteq Versions
    BY DEF TypeOK
  <2> QED
    BY <2>1 DEF Swept, Superseded, Unusable
<1>7. ASSUME NEW j \in Inspectors, NEW r \in Revisions, Start(j, r)
      PROVE  Swept(i)'
  <2>1. alone'[i] => j = i
    BY <1>7 DEF Start, TypeOK
  <2>2. j = i => pc'[i] = "scanning"
    BY <1>7 DEF Start, Goto, TypeOK
  <2> QED
    BY <2>1, <2>2 DEF Swept
<1>8. CASE Tick \/ \E r \in Revisions, v \in Versions : UpstreamMoves(r, v)
  BY <1>8, WorldApart DEF Swept, Superseded
<1>9. CASE UNCHANGED vars
  BY <1>9 DEF vars, request, Swept, Superseded
<1>10. ASSUME Step(i) \/ Killed(i)
       PROVE  Swept(i)'
  BY <1>2, <1>3, <1>4, <1>5, <1>6, <1>10 DEF Step, Leaves
<1> QED
  BY <1>1, <1>7, <1>8, <1>9, <1>10 DEF Next

\* At first there are no entries.
LEMMA InitPlaced == Init => PInv
<1> SUFFICES ASSUME Init PROVE PInv
  OBVIOUS
<1>1. Basis
  BY InitHonest, Grounded
<1> QED
  BY <1>1 DEF Init, PInv, OwnPaths, AloneIs, Swept, Unusable

\* Wherever branches go, entries are at their own paths and what was pruned by
\* an inspection alone stays so.
THEOREM PruningInvariant == Spec => []PInv
<1>1. PInv /\ [Next]_vars => PInv'
  BY BasisKept, OwnPathsKept, AloneKept, SweptKept DEF PInv
<1> QED
  BY <1>1, InitPlaced, PTL DEF Spec

\* The variables keep their types.
THEOREM HeaderTypeOK == Spec => []TypeOK
<1>1. PInv => TypeOK
  BY DEF PInv, Basis
<1> QED
  BY <1>1, PruningInvariant, PTL

\* For any number of processes, revisions and versions, and wherever branches
\* go: an inspection that fetched a header and ran alone leaves no entry of
\* another etag for its revision.
THEOREM NoneIsLeftBehind == Spec => LeavesNoneBehind
<1>1. ASSUME PInv, NEW i \in Inspectors, PruneEnds(i), alone[i],
             NEW path \in Versions, entry[path] \notin Unusable, entry[path].rev = revision[i]
      PROVE  entry[path].etag = etag[i]
  <2>1. pc[i] = "pruning" /\ left[i] = {} /\ Swept(i)
    BY <1>1 DEF PInv, PruneEnds
  <2> QED
    BY <1>1, <2>1 DEF Swept, Superseded
<1>2. PInv => \A i \in Inspectors :
        PruneEnds(i) /\ Fetched(i) /\ alone[i] =>
          \A path \in Versions :
            entry[path] \notin Unusable /\ entry[path].rev = revision[i]
              => entry[path].etag = etag[i]
  BY <1>1
<1> QED
  BY <1>2, PruningInvariant, PTL DEF LeavesNoneBehind
=============================================================================
