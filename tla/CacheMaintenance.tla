--------------------------- MODULE CacheMaintenance ---------------------------
(***************************************************************************)
(* The commands that remove things from the cache (src/bin/main.rs):       *)
(* `cache gc', `cache delete' and `cache clean-partial'.  Each looks at the *)
(* cache, shows what it would remove, asks, and then removes repo after     *)
(* repo or file after file, while downloads go on, repos are moved behind   *)
(* links, and the other commands run.                                       *)
(***************************************************************************)
EXTENDS Integers, FiniteSets, FiniteSetsExt

CONSTANTS
  Repos, Rank,      \* the repo IDs, and their order
  None,             \* an option that was not given
  MaxBytes,         \* bound on what a repo holds
  MaxNow,           \* bound on the clock
  Window,           \* FRESH_PARTIAL_WINDOW_SECS
  Ages, Budgets,    \* the values of --older-than and --max-size
  Stored            \* the size of the shared blob store

ASSUME MaintenanceAssumption ==
  /\ IsFiniteSet(Repos)
  /\ Rank \in [Repos -> Nat] /\ \A r, s \in Repos : r # s => Rank[r] # Rank[s]
  /\ {MaxBytes, MaxNow, Window, Stored} \subseteq Nat
  /\ Ages \subseteq Nat /\ Budgets \subseteq Nat
  /\ None \notin Int

Unknown == -1   \* no modification time; sorts before every other

VARIABLES
  entry,          \* a repo's cache entry: nothing, its directory or a link
  bytes,          \* what it holds, beside links into the shared store
  modified,       \* the newest time among its snapshot files
  partial,        \* its partial download, and when that was last written
  running,        \* whether a download is writing that
  behind,         \* what a link leads to
  now,
  gc, delete, clean,   \* the commands
  since,          \* history: the downloads that wrote since gc or clean looked
  disturbed       \* history: whether anything else changed since gc or delete did

repos == <<entry, bytes, modified, partial, running, behind>>
commands == <<gc, delete, clean>>
vars == <<repos, now, commands, since, disturbed>>

NoPartial == [kind |-> "none", written |-> 0]
Idle == [at |-> "idle"]

Total(S) == MapThenSumSet(LAMBDA r : bytes[r], S)
Cached == {r \in Repos : entry[r] # "none"}

Init ==
  /\ entry \in [Repos -> {"none", "dir", "link"}]
  /\ bytes \in [Repos -> 0 .. MaxBytes]
  /\ \A r \in Repos : bytes[r] > 0 <=> r \in Cached
  /\ modified \in [Repos -> {Unknown, 0}]
  /\ partial = [r \in Repos |-> NoPartial]
  /\ running = [r \in Repos |-> FALSE]
  /\ behind \in [Repos -> {"repo", "other"}]
  /\ \A r \in Repos : entry[r] # "link" => behind[r] = "repo"
  /\ now = 0
  /\ gc = Idle /\ delete = Idle /\ clean = Idle
  /\ since = [gc |-> {}, clean |-> {}]
  /\ disturbed = [gc |-> FALSE, delete |-> FALSE]
-----------------------------------------------------------------------------
(* What gc plans.                                                           *)

\* Seeded bug: the store is left out.
SizeWithoutStore == Total(Cached)

\* cache_bytes_on_disk: the store once, and own_bytes of every repo.
SizeBefore == Stored + Total(Cached)

\* A partial written within the window.
FreshPartial(r) == partial[r].kind # "none" /\ now - partial[r].written < Window

Eligible(except) ==
  {r \in Cached : r \notin except /\ entry[r] # "link" /\ ~FreshPartial(r)}

\* select_age_evictions: an unknown age is not old.
Aged(r, older) == older # None /\ modified[r] # Unknown /\ now - modified[r] >= older

\* Seeded bug: the newest first.
After(r, s) ==
  \/ modified[r] > modified[s]
  \/ modified[r] = modified[s] /\ Rank[r] < Rank[s]

\* By modification time, then by repo ID.
Before(r, s) ==
  \/ modified[r] < modified[s]
  \/ modified[r] = modified[s] /\ Rank[r] < Rank[s]

\* The budget's share: the oldest of S, each while what stays without those
\* before it is still more than max.
StillOver(r, S, max, aged) ==
  SizeBefore - Total(aged) - Total({s \in S : Before(s, r)}) > max

Plan(older, max, except) ==
  LET eligible == Eligible(except)
      aged == {r \in eligible : Aged(r, older)}
      rest == eligible \ aged
      evict == aged \cup IF max = None THEN {}
                         ELSE {r \in rest : StillOver(r, rest, max, aged)}
  IN [at |-> IF evict = {} THEN "done" ELSE "removing",
      max |-> max, left |-> evict, sizes |-> [r \in Repos |-> IF r \in evict THEN bytes[r] ELSE 0],
      before |-> Total(Repos), planned |-> now, freed |-> 0, failed |-> FALSE,
      shortfall |-> max # None /\ SizeBefore - Total(evict) > max]

\* run_cache_gc up to the prompt; there is nothing to ask of an empty plan.
GcPlans(older, max, except) ==
  /\ gc = Idle /\ (older # None \/ max # None)
  /\ gc' = Plan(older, max, except)
  /\ since' = [since EXCEPT !.gc = {}]
  /\ disturbed' = [disturbed EXCEPT !.gc = FALSE]
  /\ UNCHANGED <<repos, now, delete, clean>>
-----------------------------------------------------------------------------
(* delete_repo_dir.                                                         *)

Disturbs(command) == [c \in DOMAIN disturbed |-> disturbed[c] \/ c # command]

\* All of the directory goes, with the partial download in it, or, when that
\* fails half way, some.
DirRemoved(r) ==
  /\ entry' = [entry EXCEPT ![r] = "none"]
  /\ bytes' = [bytes EXCEPT ![r] = 0]
  /\ partial' = [partial EXCEPT ![r] = NoPartial]
  /\ running' = [running EXCEPT ![r] = FALSE]
  /\ UNCHANGED <<modified, behind>>

DirRemovedInPart(r) ==
  /\ bytes' \in {[bytes EXCEPT ![r] = b] : b \in 1 .. bytes[r]}
  /\ UNCHANGED <<entry, modified, partial, running, behind>>

\* What a removed link led to is out of the cache.
LinkRemoved(r) ==
  /\ entry' = [entry EXCEPT ![r] = "none"]
  /\ partial' = [partial EXCEPT ![r] = NoPartial]
  /\ running' = [running EXCEPT ![r] = FALSE]
  /\ UNCHANGED <<bytes, modified, behind>>

\* Seeded bug: remove_dir_all is called on whatever the entry is.
Followed(r, with_target) == TRUE

\* checked_link_target accepts what the link leads to.
FollowsLink(r, with_target) == with_target /\ behind[r] = "repo"

\* What a deletion does, and whether it is an error.
Deletes(r, with_target) ==
  IF entry[r] = "dir" \/ (entry[r] = "link" /\ FollowsLink(r, with_target))
  THEN DirRemoved(r)
  ELSE entry[r] = "link" /\ ~with_target /\ LinkRemoved(r)

DeleteFails(r, with_target) ==
  \/ entry[r] = "none" /\ UNCHANGED repos
  \/ entry[r] = "dir" /\ DirRemovedInPart(r)
  \/ /\ entry[r] = "link" /\ with_target
     /\ IF behind[r] = "repo" THEN DirRemovedInPart(r) ELSE UNCHANGED repos

\* gc removes the next repo of the plan, and goes on after a failure.
GcDeletes(r) ==
  /\ gc.at = "removing" /\ r \in gc.left
  /\ \/ /\ Deletes(r, FALSE)
        /\ gc' = [gc EXCEPT !.left = @ \ {r}, !.freed = @ + gc.sizes[r]]
     \/ /\ DeleteFails(r, FALSE)
        /\ gc' = [gc EXCEPT !.left = @ \ {r}, !.failed = TRUE]
  /\ disturbed' = Disturbs("gc")
  /\ UNCHANGED <<now, delete, clean, since>>

GcEnds ==
  /\ gc.at = "removing" /\ gc.left = {}
  /\ gc' = [gc EXCEPT !.at = "done"]
  /\ UNCHANGED <<repos, now, delete, clean, since, disturbed>>

\* --dry-run, the user says no, or the command is killed; or it is over.
GcStops ==
  /\ gc # Idle
  /\ gc' = Idle
  /\ UNCHANGED <<repos, now, delete, clean, since, disturbed>>
-----------------------------------------------------------------------------
(* delete.                                                                  *)

\* resolve_delete_targets: one bad argument and nothing is deleted.
Resolved(args, with_target) ==
  \A r \in args : r \in Cached /\ (entry[r] = "link" /\ with_target => behind[r] = "repo")

\* Seeded bug: the bytes that stay behind a link are counted.
FreesAll(r, with_target) == bytes[r]

\* A link alone frees nothing.
Frees(r, with_target) == IF entry[r] = "link" /\ ~with_target THEN 0 ELSE bytes[r]

\* The bytes behind a link, with --with-target, are asked about whatever --yes
\* says; nothing else is under --yes.
DeleteResolves(args, with_target) ==
  /\ delete = Idle /\ args # {} /\ Resolved(args, with_target)
  /\ delete' = [at |-> "removing", with_target |-> with_target, left |-> args,
                frees |-> [r \in args |-> Frees(r, with_target)],
                before |-> Total(Repos), freed |-> 0, failed |-> FALSE]
  /\ disturbed' = [disturbed EXCEPT !.delete = FALSE]
  /\ UNCHANGED <<repos, now, gc, clean, since>>

DeleteDeletes(r) ==
  /\ delete.at = "removing" /\ r \in delete.left
  /\ \/ /\ Deletes(r, delete.with_target)
        /\ delete' = [delete EXCEPT !.left = @ \ {r}, !.freed = @ + delete.frees[r]]
     \/ /\ DeleteFails(r, delete.with_target)
        /\ delete' = [delete EXCEPT !.left = @ \ {r}, !.failed = TRUE]
  /\ disturbed' = Disturbs("delete")
  /\ UNCHANGED <<now, gc, clean, since>>

DeleteEnds ==
  /\ delete.at = "removing" /\ delete.left = {}
  /\ delete' = [delete EXCEPT !.at = "done"]
  /\ UNCHANGED <<repos, now, gc, clean, since, disturbed>>

DeleteStops ==
  /\ delete # Idle
  /\ delete' = Idle
  /\ UNCHANGED <<repos, now, gc, clean, since, disturbed>>
-----------------------------------------------------------------------------
(* clean-partial.                                                           *)

\* Seeded bug: no lock is asked for.
NobodyAsks(r) == FALSE

\* is_in_use: the download lock is held; a chunked download takes none.
InUse(r) == partial[r].kind = "incomplete" /\ running[r]

CleanFinds ==
  LET found == {r \in Cached : partial[r].kind # "none" /\ ~InUse(r)}
  IN /\ clean = Idle /\ found # {}
     /\ clean' = [at |-> "removing", left |-> found,
                  kinds |-> [r \in found |-> partial[r].kind]]
     /\ since' = [since EXCEPT !.clean = {}]
     /\ UNCHANGED <<repos, now, gc, delete, disturbed>>

\* A file that is gone ends the command; its sidecar may be gone.
CleanRemoves(r) ==
  /\ clean.at # "idle" /\ r \in clean.left
  /\ IF r \in Cached /\ partial[r].kind = clean.kinds[r]
     THEN /\ partial' = [partial EXCEPT ![r] = NoPartial]
          /\ running' = [running EXCEPT ![r] = FALSE]
          /\ clean' = IF clean.left = {r} THEN Idle ELSE [clean EXCEPT !.left = @ \ {r}]
     ELSE clean' = Idle /\ UNCHANGED <<partial, running>>
  /\ UNCHANGED <<entry, bytes, modified, behind, now, gc, delete, since, disturbed>>

CleanStops ==
  /\ clean # Idle
  /\ clean' = Idle
  /\ UNCHANGED <<repos, now, gc, delete, since, disturbed>>
-----------------------------------------------------------------------------
(* Everything else that happens to the cache.                               *)

Wrote(r) == since' = [c \in DOMAIN since |-> since[c] \cup {r}]

\* A download begins, or resumes what one left; into a repo behind a link too.
DownloadWrites(r, kind) ==
  /\ partial[r].kind \in {"none", kind}
  /\ r \in Cached \/ bytes[r] = 0
  /\ entry' = [entry EXCEPT ![r] = IF @ = "none" THEN "dir" ELSE @]
  /\ partial' = [partial EXCEPT ![r] = [kind |-> kind, written |-> now]]
  /\ running' = [running EXCEPT ![r] = TRUE]
  /\ Wrote(r)
  /\ UNCHANGED <<bytes, modified, behind, now, commands, disturbed>>

DownloadFinishes(r) ==
  /\ running[r] /\ bytes[r] < MaxBytes
  /\ bytes' = [bytes EXCEPT ![r] = @ + 1]
  /\ modified' = [modified EXCEPT ![r] = now]
  /\ partial' = [partial EXCEPT ![r] = NoPartial]
  /\ running' = [running EXCEPT ![r] = FALSE]
  /\ disturbed' = Disturbs("none")
  /\ UNCHANGED <<entry, behind, now, commands, since>>

DownloadStops(r) ==
  /\ running[r]
  /\ running' = [running EXCEPT ![r] = FALSE]
  /\ UNCHANGED <<entry, bytes, modified, partial, behind, now, commands, since, disturbed>>

\* The user moves a repo elsewhere and leaves a link.
Moved(r) ==
  /\ entry[r] = "dir" /\ ~running[r]
  /\ entry' = [entry EXCEPT ![r] = "link"]
  /\ disturbed' = Disturbs("none")
  /\ UNCHANGED <<bytes, modified, partial, running, behind, now, commands, since>>

\* Another process deletes it.
RemovedElsewhere(r) ==
  /\ entry[r] = "dir"
  /\ DirRemoved(r)
  /\ disturbed' = Disturbs("none")
  /\ UNCHANGED <<now, commands, since>>

Tick ==
  /\ now < MaxNow
  /\ now' = now + 1
  /\ UNCHANGED <<repos, commands, since, disturbed>>

Gc ==
  \/ \E older \in Ages \cup {None}, max \in Budgets \cup {None}, except \in SUBSET Repos :
       GcPlans(older, max, except)
  \/ \E r \in Repos : GcDeletes(r)
  \/ GcEnds \/ GcStops

Delete ==
  \/ \E args \in SUBSET Repos, with_target \in BOOLEAN : DeleteResolves(args, with_target)
  \/ \E r \in Repos : DeleteDeletes(r)
  \/ DeleteEnds \/ DeleteStops

Clean == CleanFinds \/ CleanStops \/ \E r \in Repos : CleanRemoves(r)

Others ==
  \/ \E r \in Repos, kind \in {"chunked", "incomplete"} : DownloadWrites(r, kind)
  \/ \E r \in Repos : DownloadFinishes(r) \/ DownloadStops(r)
  \/ \E r \in Repos : Moved(r) \/ RemovedElsewhere(r)
  \/ Tick

Next == Gc \/ Delete \/ Clean \/ Others
Spec == Init /\ [][Next]_vars
-----------------------------------------------------------------------------
\* gc that met no failure, and nobody else's changes, has brought the cache
\* within its budget or said that it cannot; and it has freed what it says.
BudgetMetOrSaid ==
  gc.at = "done" /\ ~gc.failed /\ ~disturbed.gc =>
    /\ gc.max # None => gc.shortfall \/ Stored + Total(Cached) <= gc.max
    /\ gc.freed = gc.before - Total(Repos)

\* The same of delete: the bytes that a removed link led to are not freed.
DeleteFreesWhatItSays ==
  delete.at = "done" /\ ~delete.failed /\ ~disturbed.delete =>
    delete.freed = delete.before - Total(Repos)

\* The budget takes nothing in place of something older, and stops as soon as
\* it is met: the last it takes is needed.
NoneInPlaceOfAnOlder ==
  [][gc = Idle /\ gc' # Idle =>
       \A older \in Ages \cup {None}, max \in Budgets \cup {None}, except \in SUBSET Repos :
       GcPlans(older, max, except) =>
         LET evict == gc'.left
             budgeted == {r \in evict : ~Aged(r, older)}
         IN \A r \in budgeted :
              /\ \A s \in Eligible(except) \ evict : modified[r] <= modified[s]
              /\ (\E s \in budgeted : Before(r, s)) \/ SizeBefore - Total(evict \ {r}) > max]_vars

\* gc and clean-partial remove no download's files from under it, unless it
\* has not written for a while, wrote after the command looked, or, for
\* clean-partial, holds no lock.
RunningDownloadsSpared ==
  [][\A r \in Repos : running[r] /\ ~running'[r] =>
       /\ GcDeletes(r) => r \in since.gc \/ gc.planned - partial[r].written >= Window
       /\ CleanRemoves(r) => r \in since.clean \/ partial[r].kind = "chunked"]_vars

\* Bytes behind a link go only in a delete that was told --with-target.
BehindLinksKept ==
  [][\A r \in Repos : entry[r] = "link" /\ bytes'[r] < bytes[r] =>
       delete # Idle /\ delete.with_target /\ r \in delete.left]_vars
=============================================================================
