------------------------------ MODULE HeaderCache ------------------------------
(***************************************************************************)
(* `inspect --cache-headers' (inspect_remote_with_cache in src/bin/main.rs *)
(* over src/header_cache.rs): several processes inspect one file at one of *)
(* several revisions, share the header entries on entry, and the file       *)
(* changes upstream.  An entry's path is made of the file's name and its   *)
(* etag, so here paths are etags, and an etag stands for its contents.     *)
(* The reader that fetches a header is RangeReader: what it reads is of    *)
(* the one version its first response named.                               *)
(***************************************************************************)
EXTENDS Integers

CONSTANTS
  Versions, NoVersion,
  SizeOf,        \* the length of each version
  Revisions,     \* what --revision may name
  NoRevision,
  Movable,       \* the revisions that are branches
  Inspectors,    \* processes
  Window,        \* TRUST_WINDOW
  MaxTime,       \* bound on the clock
  EtagsRecur,    \* whether a branch may go back to contents it had before
  NoEntry,
  Torn           \* a blend of two writes, that does not parse

ASSUME HeaderAssumption ==
  /\ NoVersion \notin Versions /\ NoRevision \notin Revisions
  /\ Movable \subseteq Revisions
  /\ Window \in Nat /\ MaxTime \in Nat
  /\ EtagsRecur \in BOOLEAN

VARIABLES
  upstream,   \* the file's contents at each revision
  lastSeen,   \* history: when a version was last a revision's, -1 if never
  now,
  entry,      \* the entry at each path
  pc,         \* where each inspection is
  revision, began,   \* what it inspects, and since when
  left,       \* paths find_recent or prune_superseded has yet to read
  etag,       \* what its probe named
  info,       \* the version of the header it has parsed
  draft,      \* the newest entry it found, or the one it saves
  alone       \* history: no other inspection ran since this one began

remote == <<upstream, lastSeen>>
request == <<revision, began>>
vars == <<remote, now, entry, pc, request, left, etag, info, draft, alone>>

Time == 0 .. MaxTime

\* `since' is history: when the inspection that stamped the entry began.
Entries == [rev : Revisions, etag : Versions, info : Versions, at : Time, since : Time]
Unusable == {NoEntry, Torn}

Phases == {"idle", "scanning", "probing", "loading", "fetching",
           "saving", "pruning", "removing"}

Init ==
  /\ upstream \in [Revisions -> Versions]
  /\ lastSeen = [r \in Revisions |-> [v \in Versions |-> IF v = upstream[r] THEN 0 ELSE -1]]
  /\ now = 0
  /\ entry = [v \in Versions |-> NoEntry]
  /\ pc = [i \in Inspectors |-> "idle"]
  /\ revision = [i \in Inspectors |-> NoRevision]
  /\ began = [i \in Inspectors |-> 0]
  /\ left = [i \in Inspectors |-> {}]
  /\ etag = [i \in Inspectors |-> NoVersion]
  /\ info = [i \in Inspectors |-> NoVersion]
  /\ draft = [i \in Inspectors |-> NoEntry]
  /\ alone = [i \in Inspectors |-> FALSE]

Goto(i, phase) == pc' = [pc EXCEPT ![i] = phase]

\* The process is done: what it knew goes with it.
End(i) ==
  /\ Goto(i, "idle")
  /\ revision' = [revision EXCEPT ![i] = NoRevision]
  /\ began' = [began EXCEPT ![i] = 0]
  /\ alone' = [alone EXCEPT ![i] = FALSE]
  /\ left' = [left EXCEPT ![i] = {}]
  /\ etag' = [etag EXCEPT ![i] = NoVersion]
  /\ info' = [info EXCEPT ![i] = NoVersion]
  /\ draft' = [draft EXCEPT ![i] = NoEntry]
-----------------------------------------------------------------------------
(* Lookup.                                                                  *)

Start(i, r) ==
  /\ pc[i] = "idle"
  /\ Goto(i, "scanning")
  /\ revision' = [revision EXCEPT ![i] = r]
  /\ began' = [began EXCEPT ![i] = now]
  /\ left' = [left EXCEPT ![i] = Versions]
  /\ alone' = [j \in Inspectors |-> j = i /\ \A k \in Inspectors \ {i} : pc[k] = "idle"]
  /\ UNCHANGED <<remote, now, entry, etag, info, draft>>

\* is_compatible_with, without the revision.
CompatibleAtAnyRevision(e, r, tag) == e \notin Unusable /\ e.etag = tag

Compatible(e, r, tag) == e \notin Unusable /\ e.rev = r /\ e.etag = tag

Recent(e) == now - e.at < Window

\* One file of find_recent's directory stream.
Scan(i, path) ==
  LET e == entry[path] IN
  /\ pc[i] = "scanning"
  /\ path \in left[i]
  /\ left' = [left EXCEPT ![i] = @ \ {path}]
  /\ draft' =
       IF /\ e \notin Unusable
          /\ Recent(e)
          /\ Compatible(e, revision[i], e.etag)
          /\ draft[i] = NoEntry \/ e.at > draft[i].at
       THEN [draft EXCEPT ![i] = e] ELSE draft
  /\ UNCHANGED <<remote, now, entry, pc, request, etag, info, alone>>

\* An entry inside the trust window: no request is made at all.
ServeRecent(i) ==
  /\ pc[i] = "scanning" /\ left[i] = {} /\ draft[i] # NoEntry
  /\ End(i)
  /\ UNCHANGED <<remote, now, entry>>

NothingRecent(i) ==
  /\ pc[i] = "scanning" /\ left[i] = {} /\ draft[i] = NoEntry
  /\ Goto(i, "probing")
  /\ UNCHANGED <<remote, now, entry, request, left, etag, info, draft, alone>>

Probe(i) ==
  /\ pc[i] = "probing"
  /\ etag' = [etag EXCEPT ![i] = upstream[revision[i]]]
  /\ Goto(i, "loading")
  /\ UNCHANGED <<remote, now, entry, request, left, info, draft, alone>>

\* HeaderCacheEntry::load: the entry is confirmed, and will be saved afresh.
LoadHit(i) ==
  LET e == entry[etag[i]] IN
  /\ pc[i] = "loading"
  /\ Compatible(e, revision[i], etag[i])
  /\ draft' = [draft EXCEPT ![i] = [e EXCEPT !.at = now, !.since = began[i]]]
  /\ Goto(i, "saving")
  /\ UNCHANGED <<remote, now, entry, request, left, etag, info, alone>>

LoadMiss(i) ==
  /\ pc[i] = "loading"
  /\ ~Compatible(entry[etag[i]], revision[i], etag[i])
  /\ Goto(i, "fetching")
  /\ UNCHANGED <<remote, now, entry, request, left, etag, info, draft, alone>>

\* A range response: of the probed size, and of the first response's etag.
FetchRange(i) ==
  /\ pc[i] = "fetching"
  /\ SizeOf[upstream[revision[i]]] = SizeOf[etag[i]]
  /\ info[i] \in {NoVersion, upstream[revision[i]]}
  /\ info' = [info EXCEPT ![i] = upstream[revision[i]]]
  /\ UNCHANGED <<remote, now, entry, pc, request, left, etag, draft, alone>>

\* The header is parsed: HeaderCacheEntry::new, under the probe's etag.
Parsed(i) ==
  LET e == [rev |-> revision[i], etag |-> etag[i], info |-> info[i],
            at |-> now, since |-> began[i]] IN
  /\ pc[i] = "fetching" /\ info[i] # NoVersion
  /\ draft' = [draft EXCEPT ![i] = e]
  /\ Goto(i, "saving")
  /\ UNCHANGED <<remote, now, entry, request, left, etag, info, alone>>

\* A request of the probe or of the reader fails, or the parse does.
RequestFails(i) ==
  /\ pc[i] \in {"probing", "fetching"}
  /\ End(i)
  /\ UNCHANGED <<remote, now, entry>>
-----------------------------------------------------------------------------
(* save_atomic and prune_superseded.                                        *)

\* Whether the inspection parsed the header itself: only then it prunes.
Fetched(i) == info[i] # NoVersion

\* save_atomic: through one temporary file per path, which every process that
\* saves there truncates, writes and renames.  Where two do, the bytes that
\* land may be either's or a blend of both, and the rename of the one that
\* comes second fails.  A header that was fetched supersedes others; one that
\* was confirmed has nothing to prune.
Save(i, bytes, renamed) ==
  LET path == etag[i] IN
  /\ pc[i] = "saving"
  /\ bytes \in {draft[i], entry[path], Torn}
  /\ alone[i] => bytes = IF renamed THEN draft[i] ELSE entry[path]
  /\ entry' = [entry EXCEPT ![path] = bytes]
  /\ IF renamed /\ Fetched(i)
     THEN /\ Goto(i, "pruning")
          /\ left' = [left EXCEPT ![i] = Versions]
          /\ draft' = [draft EXCEPT ![i] = NoEntry]
          /\ UNCHANGED <<request, etag, info, alone>>
     ELSE End(i)
  /\ UNCHANGED <<remote, now>>

\* The comparison of etags turned around.
SupersededByItself(e, i) == e \notin Unusable /\ e.rev = revision[i] /\ e.etag = etag[i]

Superseded(e, i) == e \notin Unusable /\ e.rev = revision[i] /\ e.etag # etag[i]

\* One file of prune_superseded's directory stream: left alone, or ...
PruneKeeps(i, path) ==
  /\ pc[i] = "pruning" /\ path \in left[i]
  /\ ~Superseded(entry[path], i)
  /\ left' = [left EXCEPT ![i] = @ \ {path}]
  /\ UNCHANGED <<remote, now, entry, pc, request, etag, info, draft, alone>>

\* ... found superseded; the removal is another call.
PruneFinds(i, path) ==
  /\ pc[i] = "pruning" /\ path \in left[i]
  /\ Superseded(entry[path], i)
  /\ left' = [left EXCEPT ![i] = @ \ {path}]
  /\ draft' = [draft EXCEPT ![i] = entry[path]]
  /\ Goto(i, "removing")
  /\ UNCHANGED <<remote, now, entry, request, etag, info, alone>>

PruneRemoves(i) ==
  LET path == draft[i].etag IN
  /\ pc[i] = "removing"
  /\ entry[path] # NoEntry
  /\ entry' = [entry EXCEPT ![path] = NoEntry]
  /\ draft' = [draft EXCEPT ![i] = NoEntry]
  /\ Goto(i, "pruning")
  /\ UNCHANGED <<remote, now, request, left, etag, info, alone>>

\* The entry is gone already: the error ends the pruning.
PruneFails(i) ==
  /\ pc[i] = "removing"
  /\ entry[draft[i].etag] = NoEntry
  /\ End(i)
  /\ UNCHANGED <<remote, now, entry>>

PruneEnds(i) ==
  /\ pc[i] = "pruning" /\ left[i] = {}
  /\ End(i)
  /\ UNCHANGED <<remote, now, entry>>
-----------------------------------------------------------------------------
(* The world.                                                               *)

\* The process is killed.
Killed(i) ==
  /\ pc[i] # "idle"
  /\ End(i)
  /\ UNCHANGED <<remote, now, entry>>

UpstreamMoves(r, v) ==
  /\ r \in Movable
  /\ v # upstream[r]
  /\ EtagsRecur \/ lastSeen[r][v] = -1
  /\ upstream' = [upstream EXCEPT ![r] = v]
  /\ lastSeen' = [lastSeen EXCEPT ![r][v] = now]
  /\ UNCHANGED <<now, entry, pc, request, left, etag, info, draft, alone>>

Tick ==
  /\ now < MaxTime
  /\ now' = now + 1
  /\ lastSeen' = [r \in Revisions |-> [lastSeen[r] EXCEPT ![upstream[r]] = now + 1]]
  /\ UNCHANGED <<upstream, entry, pc, request, left, etag, info, draft, alone>>

Step(i) ==
  \/ \E path \in Versions : Scan(i, path)
  \/ ServeRecent(i) \/ NothingRecent(i)
  \/ Probe(i) \/ LoadHit(i) \/ LoadMiss(i)
  \/ FetchRange(i) \/ Parsed(i) \/ RequestFails(i)
  \/ \E bytes \in {draft[i], Torn} \cup {entry[v] : v \in Versions}, renamed \in BOOLEAN :
       Save(i, bytes, renamed)
  \/ \E path \in Versions : PruneKeeps(i, path) \/ PruneFinds(i, path)
  \/ PruneRemoves(i) \/ PruneFails(i) \/ PruneEnds(i)

Next ==
  \/ \E i \in Inspectors : Step(i) \/ Killed(i)
  \/ \E i \in Inspectors, r \in Revisions : Start(i, r)
  \/ \E r \in Revisions, v \in Versions : UpstreamMoves(r, v)
  \/ Tick

Spec == Init /\ [][Next]_vars
-----------------------------------------------------------------------------
TypeOK ==
  /\ upstream \in [Revisions -> Versions]
  /\ lastSeen \in [Revisions -> [Versions -> {-1} \cup Time]]
  /\ now \in Time
  /\ entry \in [Versions -> Entries \cup Unusable]
  /\ pc \in [Inspectors -> Phases]
  /\ revision \in [Inspectors -> Revisions \cup {NoRevision}]
  /\ began \in [Inspectors -> Time]
  /\ left \in [Inspectors -> SUBSET Versions]
  /\ etag \in [Inspectors -> Versions \cup {NoVersion}]
  /\ info \in [Inspectors -> Versions \cup {NoVersion}]
  /\ draft \in [Inspectors -> Entries \cup {NoEntry}]
  /\ alone \in [Inspectors -> BOOLEAN]

\* A header that is shown was the file's, at the revision asked for, at some
\* moment since the inspection began, or, served on trust, since the
\* inspection that stamped the entry began; whoever else saved, replaced,
\* tore or pruned entries meanwhile.
HeaderIsOfItsTime ==
  [][\A i \in Inspectors :
       LET seen == lastSeen[revision[i]]
           e == entry[etag[i]] IN
       /\ ServeRecent(i) => seen[draft[i].info] >= draft[i].since
       /\ LoadHit(i) => seen[e.info] >= began[i]
       /\ Parsed(i) => seen[info[i]] >= began[i]]_vars

\* What an inspection saves supersedes: run alone it leaves no entry of
\* another etag for its revision.
LeavesNoneBehind ==
  [][\A i \in Inspectors :
       PruneEnds(i) /\ Fetched(i) /\ alone[i] =>
         \A path \in Versions :
           entry[path] \notin Unusable /\ entry[path].rev = revision[i]
             => entry[path].etag = etag[i]]_vars
=============================================================================
