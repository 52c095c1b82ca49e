----------------------------- MODULE CommandProofs -----------------------------
(***************************************************************************)
(* Proofs about the commands that change the cache and those that read     *)
(* many headers: CacheMaintenance, for any repositories, sizes, budgets    *)
(* and clocks, and Inspection, for any listings, headers, configurations   *)
(* and number of permits.  The two share no state; the module has one      *)
(* specification of each.                                                  *)
(***************************************************************************)
EXTENDS CacheMaintenance, Inspection, FiniteSums

\* What a repository has of a download.
Partials == [kind : {"none", "chunked", "incomplete"}, written : Nat]

\* What the cache holds of each repository.
RepoTypes ==
  /\ entry \in [Repos -> {"none", "dir", "link"}]
  /\ bytes \in [Repos -> Nat]
  /\ modified \in [Repos -> Int]
  /\ partial \in [Repos -> Partials]
  /\ running \in [Repos -> BOOLEAN]
  /\ behind \in [Repos -> {"repo", "other"}]
  /\ now \in Nat

\* A gc that is under way or over.
GcRuns ==
  [at : {"removing", "done"}, max : Budgets \cup {None}, left : SUBSET Repos,
   sizes : [Repos -> Nat], before : Int, planned : Nat, freed : Int,
   failed : BOOLEAN, shortfall : BOOLEAN]

\* A delete that is under way or over.
Deletions(frees) ==
  [at : {"removing", "done"}, with_target : BOOLEAN, left : SUBSET Repos,
   frees : {frees}, before : Int, freed : Int, failed : BOOLEAN]

\* A clean-partial that is under way.
Cleanings(kinds) == [at : {"removing"}, left : SUBSET Repos, kinds : {kinds}]

\* What the commands hold.
CommandTypes ==
  /\ gc \in GcRuns \cup {Idle}
  /\ \/ delete = Idle
     \/ /\ delete \in Deletions(delete.frees)
        /\ \A r \in delete.left : delete.frees[r] \in Nat
  /\ clean = Idle \/ clean \in Cleanings(clean.kinds)
  /\ since \in [gc : SUBSET Repos, clean : SUBSET Repos]
  /\ disturbed \in [gc : BOOLEAN, delete : BOOLEAN]

\* What every variable holds.
TypeOK == RepoTypes /\ CommandTypes

\* A download that runs has a partial file.
RunningHavePartials == \A r \in Repos : running[r] => partial[r].kind # "none"

\* What gc has not got to yet is as it was when it looked.
GcAccounts ==
  gc # Idle /\ ~gc.failed /\ ~disturbed.gc =>
    /\ \A r \in gc.left : entry[r] = "dir" /\ gc.sizes[r] = bytes[r]
    /\ gc.freed = gc.before - Total(Repos)
    /\ gc.max = None \/ gc.shortfall
         \/ SizeBefore - SumOf(gc.sizes, gc.left) <= gc.max

\* What gc has yet to remove is no download that runs, unless it last wrote
\* too long ago or has written since gc looked.
GcSparesFresh ==
  gc # Idle => \A r \in gc.left :
    running[r] => r \in since.gc \/ gc.planned - partial[r].written >= Window

\* What delete has not got to yet is as it was when it asked.
DeleteAccounts ==
  delete # Idle /\ ~delete.failed /\ ~disturbed.delete =>
    /\ \A r \in delete.left :
         /\ entry[r] # "none"
         /\ delete.frees[r] = Frees(r, delete.with_target)
    /\ delete.freed = delete.before - Total(Repos)

\* What clean-partial has yet to remove is no download that holds a lock,
\* unless it began after clean-partial looked.
CleanSparesLocked ==
  clean # Idle => \A r \in clean.left :
    running[r] => r \in since.clean \/ partial[r].kind = "chunked"

\* A command that is over has got to everything.
EndsEmpty ==
  /\ gc.at = "done" => gc.left = {}
  /\ delete.at = "done" => delete.left = {}

\* The inductive invariant.
IInv ==
  /\ TypeOK /\ RunningHavePartials /\ GcAccounts /\ GcSparesFresh
  /\ DeleteAccounts /\ CleanSparesLocked /\ EndsEmpty

USE MaintenanceAssumption

-----------------------------------------------------------------------------
\* The bytes of the cache are a sum, before a step and after it.
LEMMA TotalIsSum ==
  /\ \A S : Total(S) = SumOf(bytes, S)
  /\ Total(Repos)' = SumOf(bytes', Repos)
  /\ Total(Cached)' = SumOf(bytes', Cached')
<1>1. \A S : Total(S) = SumOf(bytes, S)
  BY DEF Total, SumOf
<1>2. Total(Repos)' = SumOf(bytes', Repos)
  BY DEF Total, SumOf, MapThenSumSet, MapThenFoldSet
<1>3. Total(Cached)' = SumOf(bytes', Cached')
  BY DEF Total, SumOf, MapThenSumSet, MapThenFoldSet
<1>4. QED
  BY <1>1, <1>2, <1>3

\* The cache begins within its types.
LEMMA InitTypes == Init => TypeOK
<1> SUFFICES ASSUME Init PROVE TypeOK
  OBVIOUS
<1>1. RepoTypes
  <2>1. partial \in [Repos -> Partials]
    BY DEF Init, NoPartial, Partials
  <2>2. /\ entry \in [Repos -> {"none", "dir", "link"}]
        /\ bytes \in [Repos -> Nat]
        /\ modified \in [Repos -> Int]
        /\ behind \in [Repos -> {"repo", "other"}]
        /\ now \in Nat
    BY DEF Init, Unknown
  <2>3. running \in [Repos -> BOOLEAN]
    BY DEF Init
  <2>4. QED
    BY <2>1, <2>2, <2>3 DEF RepoTypes
<1>2. CommandTypes
  <2>1. since \in [gc : SUBSET Repos, clean : SUBSET Repos]
    BY DEF Init
  <2>2. disturbed \in [gc : BOOLEAN, delete : BOOLEAN]
    BY DEF Init
  <2>3. QED
    BY <2>1, <2>2 DEF Init, CommandTypes
<1>3. QED
  BY <1>1, <1>2 DEF TypeOK

\* A deletion, whether it fails or not, touches one repository, and takes no
\* partial file without ending its download.
LEMMA DeletionTouchesOne ==
  ASSUME RepoTypes, NEW r \in Repos, NEW w,
         Deletes(r, w) \/ DeleteFails(r, w)
  PROVE  /\ entry' \in [Repos -> {"none", "dir", "link"}]
         /\ bytes' \in [Repos -> Nat]
         /\ partial' \in [Repos -> Partials]
         /\ running' \in [Repos -> BOOLEAN]
         /\ UNCHANGED <<modified, behind>>
         /\ \A q \in Repos : q # r => entry'[q] = entry[q] /\ bytes'[q] = bytes[q]
         /\ \A q \in Repos : running'[q] => running[q] /\ partial'[q] = partial[q]
<1>1. CASE DirRemoved(r)
  BY <1>1 DEF DirRemoved, RepoTypes, NoPartial, Partials
<1>2. CASE LinkRemoved(r)
  BY <1>2 DEF LinkRemoved, RepoTypes, NoPartial, Partials
<1>3. CASE DirRemovedInPart(r)
  <2>1. PICK b \in 1 .. bytes[r] : bytes' = [bytes EXCEPT ![r] = b]
    BY <1>3 DEF DirRemovedInPart
  <2>2. b \in Nat
    BY DEF RepoTypes
  <2>3. QED
    BY <1>3, <2>1, <2>2 DEF DirRemovedInPart, RepoTypes
<1>4. CASE UNCHANGED repos
  BY <1>4 DEF repos, RepoTypes
<1>5. QED
  BY <1>1, <1>2, <1>3, <1>4 DEF Deletes, DeleteFails

\* A removal of clean-partial's takes one partial file, if any, and nothing else.
LEMMA CleaningTouchesOne ==
  ASSUME RepoTypes, NEW r \in Repos, CleanRemoves(r)
  PROVE  /\ partial' \in [Repos -> Partials]
         /\ running' \in [Repos -> BOOLEAN]
         /\ UNCHANGED <<entry, bytes, modified, behind, now, gc, delete, since, disturbed>>
         /\ \A q \in Repos : running'[q] => running[q] /\ partial'[q] = partial[q]
<1>1. CASE UNCHANGED <<partial, running>>
  BY <1>1 DEF CleanRemoves, RepoTypes
<1>2. CASE /\ partial' = [partial EXCEPT ![r] = NoPartial]
           /\ running' = [running EXCEPT ![r] = FALSE]
  BY <1>2 DEF CleanRemoves, RepoTypes, NoPartial, Partials
<1>3. QED
  BY <1>1, <1>2 DEF CleanRemoves

\* The steps of a command that leave the repositories alone.
LEMMA QuietSteps ==
  ASSUME GcEnds \/ GcStops \/ DeleteEnds \/ DeleteStops \/ CleanFinds \/ CleanStops
         \/ (\E older \in Ages \cup {None}, max \in Budgets \cup {None}, except \in SUBSET Repos :
               GcPlans(older, max, except))
         \/ (\E args \in SUBSET Repos, with_target \in BOOLEAN : DeleteResolves(args, with_target))
  PROVE  UNCHANGED <<repos, now>>
<1>1. CASE \E older \in Ages \cup {None}, max \in Budgets \cup {None}, except \in SUBSET Repos :
             GcPlans(older, max, except)
  BY <1>1 DEF GcPlans
<1>2. CASE \E args \in SUBSET Repos, with_target \in BOOLEAN : DeleteResolves(args, with_target)
  BY <1>2 DEF DeleteResolves
<1>3. CASE CleanFinds
  BY <1>3 DEF CleanFinds
<1>4. QED
  BY <1>1, <1>2, <1>3 DEF GcEnds, GcStops, DeleteEnds, DeleteStops, CleanStops

\* Every step keeps the types of what the cache holds.
LEMMA RepoTypesKept == TypeOK /\ [Next]_vars => RepoTypes'
<1> SUFFICES ASSUME TypeOK, [Next]_vars PROVE RepoTypes'
  OBVIOUS
<1> USE DEF TypeOK
<1>1. ASSUME UNCHANGED <<repos, now>> PROVE RepoTypes'
  BY <1>1 DEF RepoTypes, repos
<1>2. ASSUME NEW r \in Repos, GcDeletes(r) PROVE RepoTypes'
  <2>1. Deletes(r, FALSE) \/ DeleteFails(r, FALSE)
    BY <1>2 DEF GcDeletes
  <2>2. QED
    BY <1>2, <2>1, DeletionTouchesOne DEF RepoTypes, GcDeletes
<1>3. ASSUME NEW r \in Repos, DeleteDeletes(r) PROVE RepoTypes'
  <2>1. Deletes(r, delete.with_target) \/ DeleteFails(r, delete.with_target)
    BY <1>3 DEF DeleteDeletes
  <2>2. QED
    BY <1>3, <2>1, DeletionTouchesOne DEF RepoTypes, DeleteDeletes
<1>4. ASSUME NEW r \in Repos, CleanRemoves(r) PROVE RepoTypes'
  BY <1>4, CleaningTouchesOne DEF RepoTypes
<1>5. ASSUME NEW r \in Repos, NEW kind \in {"chunked", "incomplete"}, DownloadWrites(r, kind)
      PROVE  RepoTypes'
  BY <1>5 DEF DownloadWrites, RepoTypes, Partials
<1>6. ASSUME NEW r \in Repos, DownloadFinishes(r) PROVE RepoTypes'
  BY <1>6 DEF DownloadFinishes, RepoTypes, NoPartial, Partials
<1>7. ASSUME NEW r \in Repos, DownloadStops(r) PROVE RepoTypes'
  BY <1>7 DEF DownloadStops, RepoTypes
<1>8. ASSUME NEW r \in Repos, Moved(r) PROVE RepoTypes'
  BY <1>8 DEF Moved, RepoTypes
<1>9. ASSUME NEW r \in Repos, RemovedElsewhere(r) PROVE RepoTypes'
  BY <1>9 DEF RemovedElsewhere, DirRemoved, RepoTypes, NoPartial, Partials
<1>10. CASE Tick
  BY <1>10 DEF Tick, RepoTypes, repos
<1>11. CASE UNCHANGED vars
  BY <1>1, <1>11 DEF vars
<1>12. CASE Gc
  BY <1>1, <1>2, <1>12, QuietSteps DEF Gc
<1>13. CASE Delete
  BY <1>1, <1>3, <1>13, QuietSteps DEF Delete
<1>14. CASE Clean
  BY <1>1, <1>4, <1>14, QuietSteps DEF Clean
<1>15. CASE Others
  BY <1>5, <1>6, <1>7, <1>8, <1>9, <1>10, <1>15 DEF Others
<1>16. QED
  BY <1>11, <1>12, <1>13, <1>14, <1>15 DEF Next

\* What a plan of gc is.
LEMMA PlanType ==
  ASSUME RepoTypes, NEW older \in Ages \cup {None}, NEW max \in Budgets \cup {None},
         NEW except
  PROVE  Plan(older, max, except) \in GcRuns
<1> DEFINE eligible == Eligible(except)
           aged == {r \in eligible : Aged(r, older)}
           rest == eligible \ aged
           evict == aged \cup IF max = None THEN {}
                              ELSE {r \in rest : StillOver(r, rest, max, aged)}
<1>1. evict \in SUBSET Repos
  BY DEF Eligible, Cached
<1>2. [r \in Repos |-> IF r \in evict THEN bytes[r] ELSE 0] \in [Repos -> Nat]
  BY DEF RepoTypes
<1>3. Total(Repos) \in Int
  BY TotalIsSum, SumType DEF RepoTypes
<1>4. (max # None /\ SizeBefore - Total(evict) > max) \in BOOLEAN
  OBVIOUS
<1> DEFINE sizes == [r \in Repos |-> IF r \in evict THEN bytes[r] ELSE 0]
           short == max # None /\ SizeBefore - Total(evict) > max
           before == Total(Repos)
           at == IF evict = {} THEN "done" ELSE "removing"
<1>5. Plan(older, max, except) =
        [at |-> at, max |-> max, left |-> evict, sizes |-> sizes, before |-> before,
         planned |-> now, freed |-> 0, failed |-> FALSE, shortfall |-> short]
  BY DEF Plan
<1>6. at \in {"removing", "done"} /\ now \in Nat
  BY DEF RepoTypes
<1> HIDE DEF evict, sizes, short, before, at
<1>7. QED
  BY <1>1, <1>2, <1>3, <1>4, <1>5, <1>6 DEF GcRuns, sizes, short, before

\* Every step keeps the type of a gc.
LEMMA GcTypeKept == TypeOK /\ [Next]_vars => gc' \in GcRuns \cup {Idle}
<1> SUFFICES ASSUME TypeOK, [Next]_vars PROVE gc' \in GcRuns \cup {Idle}
  OBVIOUS
<1>0. RepoTypes /\ gc \in GcRuns \cup {Idle}
  BY DEF TypeOK, CommandTypes
<1>1. CASE gc' = gc
  BY <1>0, <1>1
<1>2. ASSUME NEW older \in Ages \cup {None}, NEW max \in Budgets \cup {None},
             NEW except \in SUBSET Repos, GcPlans(older, max, except)
      PROVE  gc' \in GcRuns
  BY <1>0, <1>2, PlanType DEF GcPlans
<1>3. ASSUME NEW r \in Repos, GcDeletes(r) PROVE gc' \in GcRuns
  <2>1. gc \in GcRuns /\ gc.sizes[r] \in Nat
    BY <1>0, <1>3 DEF GcDeletes, GcRuns, Idle
  <2>2. \/ gc' = [gc EXCEPT !.left = @ \ {r}, !.freed = @ + gc.sizes[r]]
        \/ gc' = [gc EXCEPT !.left = @ \ {r}, !.failed = TRUE]
    BY <1>3 DEF GcDeletes
  <2>3. gc.left \ {r} \in SUBSET Repos /\ gc.freed + gc.sizes[r] \in Int
    BY <2>1 DEF GcRuns
  <2>4. CASE gc' = [gc EXCEPT !.left = @ \ {r}, !.freed = @ + gc.sizes[r]]
    BY <2>1, <2>3, <2>4 DEF GcRuns
  <2>5. CASE gc' = [gc EXCEPT !.left = @ \ {r}, !.failed = TRUE]
    BY <2>1, <2>3, <2>5 DEF GcRuns
  <2>6. QED
    BY <2>2, <2>4, <2>5
<1>4. CASE GcEnds
  <2>1. gc \in GcRuns
    BY <1>0, <1>4 DEF GcEnds, Idle
  <2>2. QED
    BY <1>4, <2>1 DEF GcEnds, GcRuns
<1>5. CASE GcStops
  BY <1>5 DEF GcStops
<1>6. CASE Gc
  BY <1>2, <1>3, <1>4, <1>5, <1>6 DEF Gc
<1>7. CASE Delete
  BY <1>1, <1>7 DEF Delete, DeleteResolves, DeleteDeletes, DeleteEnds, DeleteStops
<1>8. CASE Clean
  BY <1>1, <1>8 DEF Clean, CleanFinds, CleanRemoves, CleanStops
<1>9. CASE Others
  BY <1>1, <1>9 DEF Others, DownloadWrites, DownloadFinishes, DownloadStops, Moved,
     RemovedElsewhere, Tick, commands
<1>10. CASE UNCHANGED vars
  BY <1>1, <1>10 DEF vars, commands
<1>11. QED
  BY <1>6, <1>7, <1>8, <1>9, <1>10 DEF Next

\* What delete holds.
DeleteType ==
  \/ delete = Idle
  \/ /\ delete \in Deletions(delete.frees)
     /\ \A r \in delete.left : delete.frees[r] \in Nat

\* Every step keeps the type of a delete.
LEMMA DeleteTypeKept == TypeOK /\ [Next]_vars => DeleteType'
<1> SUFFICES ASSUME TypeOK, [Next]_vars PROVE DeleteType'
  OBVIOUS
<1>0. RepoTypes /\ DeleteType
  BY DEF TypeOK, CommandTypes, DeleteType
<1>1. CASE delete' = delete
  BY <1>0, <1>1 DEF DeleteType
<1>2. ASSUME NEW args \in SUBSET Repos, NEW with_target \in BOOLEAN,
             DeleteResolves(args, with_target)
      PROVE  DeleteType'
  <2> DEFINE frees == [r \in args |-> Frees(r, with_target)]
             before == Total(Repos)
  <2>1. \A r \in args : frees[r] \in Nat
    BY <1>0 DEF Frees, RepoTypes
  <2>2. before \in Int
    BY <1>0, TotalIsSum, SumType DEF RepoTypes
  <2>3. delete' = [at |-> "removing", with_target |-> with_target, left |-> args,
                   frees |-> frees, before |-> before, freed |-> 0, failed |-> FALSE]
    BY <1>2 DEF DeleteResolves
  <2> HIDE DEF frees, before
  <2>4. QED
    BY <2>1, <2>2, <2>3 DEF DeleteType, Deletions
<1>3. ASSUME NEW r \in Repos, DeleteDeletes(r) PROVE DeleteType'
  <2>1. delete \in Deletions(delete.frees) /\ delete.frees[r] \in Nat
        /\ \A q \in delete.left : delete.frees[q] \in Nat
    BY <1>0, <1>3 DEF DeleteDeletes, DeleteType, Idle
  <2>2. \/ delete' = [delete EXCEPT !.left = @ \ {r}, !.freed = @ + delete.frees[r]]
        \/ delete' = [delete EXCEPT !.left = @ \ {r}, !.failed = TRUE]
    BY <1>3 DEF DeleteDeletes
  <2>3. delete.left \ {r} \in SUBSET Repos /\ delete.freed + delete.frees[r] \in Int
    BY <2>1 DEF Deletions
  <2>4. delete' \in Deletions(delete.frees) /\ delete'.frees = delete.frees
        /\ delete'.left = delete.left \ {r}
    <3>1. CASE delete' = [delete EXCEPT !.left = @ \ {r}, !.freed = @ + delete.frees[r]]
      BY <2>1, <2>3, <3>1 DEF Deletions
    <3>2. CASE delete' = [delete EXCEPT !.left = @ \ {r}, !.failed = TRUE]
      BY <2>1, <2>3, <3>2 DEF Deletions
    <3>3. QED
      BY <2>2, <3>1, <3>2
  <2>5. QED
    BY <2>1, <2>4 DEF DeleteType
<1>4. CASE DeleteEnds
  <2>1. delete \in Deletions(delete.frees)
    BY <1>0, <1>4 DEF DeleteEnds, DeleteType, Idle
  <2>2. QED
    BY <1>0, <1>4, <2>1 DEF DeleteEnds, Deletions, DeleteType
<1>5. CASE DeleteStops
  BY <1>5 DEF DeleteStops, DeleteType
<1>6. CASE Delete
  BY <1>2, <1>3, <1>4, <1>5, <1>6 DEF Delete
<1>7. CASE Gc
  BY <1>1, <1>7 DEF Gc, GcPlans, GcDeletes, GcEnds, GcStops
<1>8. CASE Clean
  BY <1>1, <1>8 DEF Clean, CleanFinds, CleanRemoves, CleanStops
<1>9. CASE Others
  BY <1>1, <1>9 DEF Others, DownloadWrites, DownloadFinishes, DownloadStops, Moved,
     RemovedElsewhere, Tick, commands
<1>10. CASE UNCHANGED vars
  BY <1>1, <1>10 DEF vars, commands
<1>11. QED
  BY <1>6, <1>7, <1>8, <1>9, <1>10 DEF Next

\* What clean-partial holds.
CleanType == clean = Idle \/ clean \in Cleanings(clean.kinds)

\* Every step keeps the type of a clean-partial.
LEMMA CleanTypeKept == TypeOK /\ [Next]_vars => CleanType'
<1> SUFFICES ASSUME TypeOK, [Next]_vars PROVE CleanType'
  OBVIOUS
<1>0. CleanType
  BY DEF TypeOK, CommandTypes, CleanType
<1>1. CASE clean' = clean
  BY <1>0, <1>1 DEF CleanType
<1>2. CASE CleanFinds
  <2> DEFINE found == {r \in Cached : partial[r].kind # "none" /\ ~InUse(r)}
             kinds == [r \in found |-> partial[r].kind]
  <2>1. clean' = [at |-> "removing", left |-> found, kinds |-> kinds]
    BY <1>2 DEF CleanFinds
  <2>2. found \in SUBSET Repos
    BY DEF Cached
  <2> HIDE DEF found, kinds
  <2>3. QED
    BY <2>1, <2>2 DEF CleanType, Cleanings
<1>3. ASSUME NEW r \in Repos, CleanRemoves(r) PROVE CleanType'
  <2>1. CASE clean' = Idle
    BY <2>1 DEF CleanType
  <2>2. CASE clean' = [clean EXCEPT !.left = @ \ {r}]
    <3>1. clean \in Cleanings(clean.kinds)
      BY <1>0, <1>3 DEF CleanRemoves, CleanType, Idle
    <3>2. QED
      BY <2>2, <3>1 DEF Cleanings, CleanType
  <2>3. QED
    BY <1>3, <2>1, <2>2 DEF CleanRemoves
<1>4. CASE CleanStops
  BY <1>4 DEF CleanStops, CleanType
<1>5. CASE Clean
  BY <1>2, <1>3, <1>4, <1>5 DEF Clean
<1>6. CASE Gc
  BY <1>1, <1>6 DEF Gc, GcPlans, GcDeletes, GcEnds, GcStops
<1>7. CASE Delete
  BY <1>1, <1>7 DEF Delete, DeleteResolves, DeleteDeletes, DeleteEnds, DeleteStops
<1>8. CASE Others
  BY <1>1, <1>8 DEF Others, DownloadWrites, DownloadFinishes, DownloadStops, Moved,
     RemovedElsewhere, Tick, commands
<1>9. CASE UNCHANGED vars
  BY <1>1, <1>9 DEF vars, commands
<1>10. QED
  BY <1>5, <1>6, <1>7, <1>8, <1>9 DEF Next

\* What is remembered of who wrote and whom a change disturbed.
HistoryTypes ==
  /\ since \in [gc : SUBSET Repos, clean : SUBSET Repos]
  /\ disturbed \in [gc : BOOLEAN, delete : BOOLEAN]

\* A download that writes is remembered as one of the repositories.
LEMMA WroteType ==
  ASSUME HistoryTypes, NEW r \in Repos, Wrote(r)
  PROVE  /\ since' \in [gc : SUBSET Repos, clean : SUBSET Repos]
         /\ since'.gc = since.gc \cup {r} /\ since'.clean = since.clean \cup {r}
BY DEF HistoryTypes, Wrote

\* A change disturbs the commands that did not make it.
LEMMA DisturbsType ==
  ASSUME HistoryTypes, NEW c, disturbed' = Disturbs(c)
  PROVE  /\ disturbed' \in [gc : BOOLEAN, delete : BOOLEAN]
         /\ disturbed'.gc <=> disturbed.gc \/ c # "gc"
         /\ disturbed'.delete <=> disturbed.delete \/ c # "delete"
<1>1. disturbed' = [d \in {"gc", "delete"} |-> disturbed[d] \/ d # c]
  BY Zenon DEF HistoryTypes, Disturbs
<1>2. QED
  BY <1>1 DEF HistoryTypes

\* Every step keeps the types of what is remembered.
LEMMA HistoryTypesKept == TypeOK /\ [Next]_vars => HistoryTypes'
<1> SUFFICES ASSUME TypeOK, [Next]_vars PROVE HistoryTypes'
  OBVIOUS
<1>0. HistoryTypes
  BY DEF TypeOK, CommandTypes, HistoryTypes
<1>1. ASSUME UNCHANGED since, UNCHANGED disturbed PROVE HistoryTypes'
  BY <1>0, <1>1 DEF HistoryTypes
<1>2. ASSUME UNCHANGED since, NEW c, disturbed' = Disturbs(c) PROVE HistoryTypes'
  BY <1>0, <1>2, DisturbsType DEF HistoryTypes
<1>3. CASE Gc
  BY <1>0, <1>1, <1>2, <1>3 DEF Gc, GcPlans, GcDeletes, GcEnds, GcStops, HistoryTypes
<1>4. CASE Delete
  BY <1>0, <1>1, <1>2, <1>4 DEF Delete, DeleteResolves, DeleteDeletes, DeleteEnds, DeleteStops,
     HistoryTypes
<1>5. CASE Clean
  BY <1>0, <1>1, <1>2, <1>5 DEF Clean, CleanFinds, CleanRemoves, CleanStops, HistoryTypes
<1>6. CASE Others
  <2>1. ASSUME NEW r \in Repos, NEW kind \in {"chunked", "incomplete"}, DownloadWrites(r, kind)
        PROVE  HistoryTypes'
    BY <1>0, <2>1, WroteType DEF DownloadWrites, HistoryTypes
  <2>2. QED
    BY <1>1, <1>2, <1>6, <2>1 DEF Others, DownloadFinishes, DownloadStops, Moved,
       RemovedElsewhere, Tick
<1>7. CASE UNCHANGED vars
  BY <1>1, <1>7 DEF vars
<1>8. QED
  BY <1>3, <1>4, <1>5, <1>6, <1>7 DEF Next

\* Every step keeps the types.
LEMMA TypesKept == TypeOK /\ [Next]_vars => TypeOK'
BY RepoTypesKept, GcTypeKept, DeleteTypeKept, CleanTypeKept, HistoryTypesKept
   DEF TypeOK, CommandTypes, DeleteType, CleanType, HistoryTypes

-----------------------------------------------------------------------------
(* The downloads that run.                                                  *)

\* Only a download that writes makes one run, and every other step leaves
\* those that still run their partial files.
LEMMA OnlyWritingRuns ==
  ASSUME TypeOK, [Next]_vars, NEW q \in Repos, running'[q]
  PROVE  \/ running[q] /\ partial'[q] = partial[q]
         \/ \E kind \in {"chunked", "incomplete"} : DownloadWrites(q, kind)
<1> USE DEF TypeOK
<1>1. CASE UNCHANGED <<repos, now>>
  BY <1>1 DEF repos
<1>2. ASSUME NEW r \in Repos, GcDeletes(r)
      PROVE  running[q] /\ partial'[q] = partial[q]
  <2>1. Deletes(r, FALSE) \/ DeleteFails(r, FALSE)
    BY <1>2 DEF GcDeletes
  <2>2. QED
    BY <2>1, DeletionTouchesOne
<1>3. ASSUME NEW r \in Repos, DeleteDeletes(r)
      PROVE  running[q] /\ partial'[q] = partial[q]
  <2>1. Deletes(r, delete.with_target) \/ DeleteFails(r, delete.with_target)
    BY <1>3 DEF DeleteDeletes
  <2>2. QED
    BY <2>1, DeletionTouchesOne
<1>4. ASSUME NEW r \in Repos, CleanRemoves(r)
      PROVE  running[q] /\ partial'[q] = partial[q]
  BY <1>4, CleaningTouchesOne
<1>5. ASSUME NEW r \in Repos, NEW kind \in {"chunked", "incomplete"}, DownloadWrites(r, kind),
             r # q
      PROVE  running[q] /\ partial'[q] = partial[q]
  BY <1>5 DEF DownloadWrites, RepoTypes
<1>6. ASSUME NEW r \in Repos, DownloadFinishes(r)
      PROVE  running[q] /\ partial'[q] = partial[q]
  BY <1>6 DEF DownloadFinishes, RepoTypes
<1>7. ASSUME NEW r \in Repos, DownloadStops(r)
      PROVE  running[q] /\ partial'[q] = partial[q]
  BY <1>7 DEF DownloadStops, RepoTypes
<1>8. ASSUME NEW r \in Repos, Moved(r)
      PROVE  running[q] /\ partial'[q] = partial[q]
  BY <1>8 DEF Moved, RepoTypes
<1>9. ASSUME NEW r \in Repos, RemovedElsewhere(r)
      PROVE  running[q] /\ partial'[q] = partial[q]
  BY <1>9 DEF RemovedElsewhere, DirRemoved, RepoTypes
<1>10. CASE Tick
  BY <1>10 DEF Tick, repos
<1>11. CASE UNCHANGED vars
  BY <1>1, <1>11 DEF vars
<1>12. CASE Gc
  BY <1>1, <1>2, <1>12, QuietSteps DEF Gc
<1>13. CASE Delete
  BY <1>1, <1>3, <1>13, QuietSteps DEF Delete
<1>14. CASE Clean
  BY <1>1, <1>4, <1>14, QuietSteps DEF Clean
<1>15. CASE Others
  BY <1>5, <1>6, <1>7, <1>8, <1>9, <1>10, <1>15 DEF Others
<1>16. QED
  BY <1>11, <1>12, <1>13, <1>14, <1>15 DEF Next

\* A download that writes is remembered by the commands under way.
LEMMA WritingIsSeen ==
  ASSUME TypeOK, NEW q \in Repos, NEW kind \in {"chunked", "incomplete"}, DownloadWrites(q, kind)
  PROVE  q \in since'.gc /\ q \in since'.clean /\ partial'[q].kind = kind
<1>1. since'.gc = since.gc \cup {q} /\ since'.clean = since.clean \cup {q}
  BY WroteType DEF DownloadWrites, TypeOK, CommandTypes, HistoryTypes
<1>2. QED
  BY <1>1 DEF DownloadWrites, TypeOK, RepoTypes

\* A download that runs keeps its partial file.
LEMMA PartialsKept == TypeOK /\ RunningHavePartials /\ [Next]_vars => RunningHavePartials'
<1> SUFFICES ASSUME TypeOK, RunningHavePartials, [Next]_vars, NEW q \in Repos, running'[q]
             PROVE  partial'[q].kind # "none"
  BY DEF RunningHavePartials
<1>1. QED
  BY OnlyWritingRuns, WritingIsSeen DEF RunningHavePartials

\* A gc under way was planned in this step, or goes on with what it had.
LEMMA GcGoesOn ==
  ASSUME TypeOK, [Next]_vars, gc' # Idle
  PROVE  \/ \E older \in Ages \cup {None}, max \in Budgets \cup {None}, except \in SUBSET Repos :
              GcPlans(older, max, except)
         \/ /\ gc # Idle /\ gc'.left \subseteq gc.left /\ gc'.planned = gc.planned
            /\ since.gc \subseteq since'.gc
<1>0. HistoryTypes /\ gc \in GcRuns \cup {Idle}
  BY DEF TypeOK, CommandTypes, HistoryTypes
<1>1. ASSUME gc' = gc, UNCHANGED since \/ since'.gc = since.gc \/ \E r \in Repos : Wrote(r)
      PROVE  /\ gc # Idle /\ gc'.left \subseteq gc.left /\ gc'.planned = gc.planned
             /\ since.gc \subseteq since'.gc
  BY <1>0, <1>1, WroteType
<1>2. ASSUME NEW r \in Repos, GcDeletes(r)
      PROVE  /\ gc # Idle /\ gc'.left \subseteq gc.left /\ gc'.planned = gc.planned
             /\ since.gc \subseteq since'.gc
  BY <1>0, <1>2 DEF GcDeletes, GcRuns, Idle
<1>3. CASE Gc
  BY <1>0, <1>2, <1>3 DEF Gc, GcEnds, GcStops, GcRuns, Idle
<1>4. CASE Delete
  BY <1>1, <1>4 DEF Delete, DeleteResolves, DeleteDeletes, DeleteEnds, DeleteStops
<1>5. CASE Clean
  <2>1. UNCHANGED since \/ since' = [since EXCEPT !.clean = {}]
    BY <1>5 DEF Clean, CleanFinds, CleanRemoves, CleanStops
  <2>2. gc' = gc
    BY <1>5 DEF Clean, CleanFinds, CleanRemoves, CleanStops
  <2>3. UNCHANGED since \/ since'.gc = since.gc
    BY <1>0, <2>1 DEF HistoryTypes
  <2>4. QED
    BY <1>1, <2>2, <2>3
<1>6. CASE Others
  BY <1>1, <1>6 DEF Others, DownloadWrites, DownloadFinishes, DownloadStops, Moved,
     RemovedElsewhere, Tick, commands
<1>7. CASE UNCHANGED vars
  BY <1>1, <1>7 DEF vars, commands
<1>8. QED
  BY <1>3, <1>4, <1>5, <1>6, <1>7 DEF Next

\* The same of a clean-partial.
LEMMA CleanGoesOn ==
  ASSUME TypeOK, [Next]_vars, clean' # Idle
  PROVE  \/ CleanFinds
         \/ /\ clean # Idle /\ clean'.left \subseteq clean.left
            /\ since.clean \subseteq since'.clean
<1>0. HistoryTypes /\ (clean = Idle \/ clean \in Cleanings(clean.kinds))
  BY DEF TypeOK, CommandTypes, HistoryTypes
<1>1. ASSUME clean' = clean, UNCHANGED since \/ since'.clean = since.clean \/ \E r \in Repos : Wrote(r)
      PROVE  /\ clean # Idle /\ clean'.left \subseteq clean.left
             /\ since.clean \subseteq since'.clean
  BY <1>0, <1>1, WroteType
<1>2. ASSUME NEW r \in Repos, CleanRemoves(r)
      PROVE  /\ clean # Idle /\ clean'.left \subseteq clean.left
             /\ since.clean \subseteq since'.clean
  BY <1>0, <1>2 DEF CleanRemoves, Cleanings, Idle
<1>3. CASE Clean
  BY <1>2, <1>3 DEF Clean, CleanStops
<1>4. CASE Delete
  BY <1>1, <1>4 DEF Delete, DeleteResolves, DeleteDeletes, DeleteEnds, DeleteStops
<1>5. CASE Gc
  <2>1. UNCHANGED since \/ since' = [since EXCEPT !.gc = {}]
    BY <1>5 DEF Gc, GcPlans, GcDeletes, GcEnds, GcStops
  <2>2. clean' = clean
    BY <1>5 DEF Gc, GcPlans, GcDeletes, GcEnds, GcStops
  <2>3. UNCHANGED since \/ since'.clean = since.clean
    BY <1>0, <2>1 DEF HistoryTypes
  <2>4. QED
    BY <1>1, <2>2, <2>3
<1>6. CASE Others
  BY <1>1, <1>6 DEF Others, DownloadWrites, DownloadFinishes, DownloadStops, Moved,
     RemovedElsewhere, Tick, commands
<1>7. CASE UNCHANGED vars
  BY <1>1, <1>7 DEF vars, commands
<1>8. QED
  BY <1>3, <1>4, <1>5, <1>6, <1>7 DEF Next

\* gc goes on sparing the downloads that run.
LEMMA GcSparesKept ==
  TypeOK /\ RunningHavePartials /\ GcSparesFresh /\ [Next]_vars => GcSparesFresh'
<1> SUFFICES ASSUME TypeOK, RunningHavePartials, GcSparesFresh, [Next]_vars,
                    gc' # Idle, NEW r \in gc'.left, running'[r]
             PROVE  r \in since'.gc \/ gc'.planned - partial'[r].written >= Window
  BY DEF GcSparesFresh
<1>1. r \in Repos
  <2>1. gc' \in GcRuns
    BY GcTypeKept
  <2>2. QED
    BY <2>1 DEF GcRuns
<1>2. CASE \E older \in Ages \cup {None}, max \in Budgets \cup {None}, except \in SUBSET Repos :
             GcPlans(older, max, except)
  <2>1. PICK older \in Ages \cup {None}, max \in Budgets \cup {None}, except \in SUBSET Repos :
          GcPlans(older, max, except)
    BY <1>2
  <2>2. UNCHANGED repos /\ gc' = Plan(older, max, except)
    BY <2>1 DEF GcPlans
  <2>3. r \in Eligible(except) /\ gc'.planned = now
    BY <2>2 DEF Plan
  <2>4. ~FreshPartial(r) /\ partial[r].kind # "none" /\ partial'[r] = partial[r]
    BY <1>1, <2>2, <2>3 DEF Eligible, RunningHavePartials, repos
  <2>5. now - partial[r].written >= Window
    BY <1>1, <2>4 DEF FreshPartial, TypeOK, RepoTypes, Partials
  <2>6. QED
    BY <2>3, <2>4, <2>5
<1>3. CASE /\ gc # Idle /\ gc'.left \subseteq gc.left /\ gc'.planned = gc.planned
           /\ since.gc \subseteq since'.gc
  BY <1>1, <1>3, OnlyWritingRuns, WritingIsSeen DEF GcSparesFresh
<1>4. QED
  BY <1>2, <1>3, GcGoesOn

\* clean-partial goes on sparing the downloads that hold a lock.
LEMMA CleanSparesKept ==
  TypeOK /\ RunningHavePartials /\ CleanSparesLocked /\ [Next]_vars => CleanSparesLocked'
<1> SUFFICES ASSUME TypeOK, RunningHavePartials, CleanSparesLocked, [Next]_vars,
                    clean' # Idle, NEW r \in clean'.left, running'[r]
             PROVE  r \in since'.clean \/ partial'[r].kind = "chunked"
  BY DEF CleanSparesLocked
<1>1. r \in Repos
  <2>1. clean' \in Cleanings(clean'.kinds)
    BY CleanTypeKept DEF CleanType
  <2>2. QED
    BY <2>1 DEF Cleanings
<1>2. CASE CleanFinds
  <2>1. UNCHANGED repos /\ ~InUse(r) /\ r \in Repos
    BY <1>1, <1>2 DEF CleanFinds
  <2>2. partial[r].kind # "incomplete" /\ partial[r].kind # "none" /\ partial' = partial
    BY <2>1 DEF InUse, RunningHavePartials, repos
  <2>3. partial[r].kind \in {"none", "chunked", "incomplete"}
    BY <1>1 DEF TypeOK, RepoTypes, Partials
  <2>4. QED
    BY <2>2, <2>3
<1>3. CASE /\ clean # Idle /\ clean'.left \subseteq clean.left
           /\ since.clean \subseteq since'.clean
  BY <1>1, <1>3, OnlyWritingRuns, WritingIsSeen DEF CleanSparesLocked
<1>4. QED
  BY <1>2, <1>3, CleanGoesOn

-----------------------------------------------------------------------------
(* The accounts.                                                            *)

\* What a repository no longer holds, the cache no longer does.
LEMMA SumWithout ==
  ASSUME NEW F \in [Repos -> Nat], NEW G \in [Repos -> Nat], NEW r \in Repos,
         \A q \in Repos : q # r => G[q] = F[q], G[r] = 0,
         NEW S \in SUBSET Repos
  PROVE  /\ r \in S => SumOf(G, S) = SumOf(F, S) - F[r]
         /\ SumOf(G, S \ {r}) = SumOf(G, S)
<1>0. IsFiniteSet(S) /\ IsFiniteSet(S \ {r})
  BY FS_Subset
<1>1. SumOf(G, S \ {r}) = SumOf(F, S \ {r})
  BY <1>0, SumSame
<1>2. SumOf(G, S \ {r}) \in Nat
  BY <1>0, SumNat
<1>3. CASE r \in S
  <2>1. SumOf(F, S) = F[r] + SumOf(F, S \ {r})
    BY <1>0, <1>3, SumRemove
  <2>2. SumOf(G, S) = G[r] + SumOf(G, S \ {r})
    BY <1>0, <1>3, SumRemove
  <2>3. F[r] \in Nat
    OBVIOUS
  <2>4. QED
    BY <1>1, <1>2, <1>3, <2>1, <2>2, <2>3
<1>4. CASE r \notin S
  <2>1. S \ {r} = S
    BY <1>4
  <2>2. QED
    BY <1>1, <1>4, <2>1
<1>5. QED
  BY <1>3, <1>4

\* A deletion that succeeds frees what it was expected to.
LEMMA DeletionFrees ==
  ASSUME TypeOK, NEW r \in Repos, NEW w \in BOOLEAN, entry[r] # "none", Deletes(r, w)
  PROVE  /\ Total(Repos)' = Total(Repos) - Frees(r, w)
         /\ entry[r] = "dir" => Total(Cached)' = Total(Cached) - bytes[r]
<1>0. /\ bytes \in [Repos -> Nat] /\ bytes' \in [Repos -> Nat]
      /\ \A q \in Repos : q # r => bytes'[q] = bytes[q] /\ entry'[q] = entry[q]
      /\ entry \in [Repos -> {"none", "dir", "link"}]
  BY DeletionTouchesOne DEF TypeOK, RepoTypes
<1>1. CASE entry[r] = "dir" \/ (entry[r] = "link" /\ FollowsLink(r, w))
  <2>1. bytes'[r] = 0 /\ entry'[r] = "none"
    BY <1>0, <1>1 DEF Deletes, DirRemoved, TypeOK, RepoTypes
  <2>2. Frees(r, w) = bytes[r]
    BY <1>1 DEF Frees, FollowsLink
  <2>3. SumOf(bytes', Repos) = SumOf(bytes, Repos) - bytes[r]
    <3>1. /\ bytes \in [Repos -> Nat] /\ bytes' \in [Repos -> Nat]
          /\ \A q \in Repos : q # r => bytes'[q] = bytes[q]
          /\ bytes'[r] = 0
      BY <1>0, <2>1
    <3>2. SumOf(bytes', Repos) = SumOf(bytes, Repos) - bytes[r]
          /\ SumOf(bytes', Repos \ {r}) = SumOf(bytes', Repos)
      BY <3>1, SumWithout
    <3>3. QED
      BY <3>2
  <2>4. ASSUME entry[r] = "dir"
        PROVE  SumOf(bytes', Cached') = SumOf(bytes, Cached) - bytes[r]
    <3>1. Cached \in SUBSET Repos /\ r \in Cached
      BY <2>4 DEF Cached
    <3>2. Cached' = Cached \ {r}
      BY <1>0, <2>1 DEF Cached
    <3>3. SumOf(bytes', Cached) = SumOf(bytes, Cached) - bytes[r]
          /\ SumOf(bytes', Cached \ {r}) = SumOf(bytes', Cached)
      BY <1>0, <2>1, <3>1, SumWithout
    <3>4. QED
      BY <3>2, <3>3
  <2>5. Total(Repos) = SumOf(bytes, Repos) /\ Total(Cached) = SumOf(bytes, Cached)
    BY TotalIsSum
  <2>6. Total(Repos)' = SumOf(bytes', Repos) /\ Total(Cached)' = SumOf(bytes', Cached')
    BY TotalIsSum
  <2>7. QED
    BY <2>2, <2>3, <2>4, <2>5, <2>6
<1>2. CASE ~(entry[r] = "dir" \/ (entry[r] = "link" /\ FollowsLink(r, w)))
  <2>1. entry[r] = "link" /\ bytes' = bytes /\ Frees(r, w) = 0
    BY <1>2 DEF Deletes, LinkRemoved, Frees
  <2>2. SumOf(bytes, Repos) \in Int
    BY <1>0, SumType
  <2>3. QED
    BY <1>2, <2>1, <2>2, TotalIsSum
<1>3. QED
  BY <1>1, <1>2

\* A download that begins adds nothing to what is cached.
LEMMA WritingAddsNothing ==
  ASSUME TypeOK, NEW r \in Repos, NEW kind, DownloadWrites(r, kind)
  PROVE  /\ Total(Repos)' = Total(Repos) /\ Total(Cached)' = Total(Cached)
         /\ \A q \in Repos : entry[q] # "none" => entry'[q] = entry[q]
<1>1. /\ bytes \in [Repos -> Nat] /\ bytes' = bytes
      /\ entry \in [Repos -> {"none", "dir", "link"}]
      /\ entry' = [entry EXCEPT ![r] = IF @ = "none" THEN "dir" ELSE @]
  BY DEF TypeOK, RepoTypes, DownloadWrites
<1>2. \A q \in Repos : entry[q] # "none" => entry'[q] = entry[q]
  BY <1>1
<1>3. Cached' = Cached \cup {r}
  BY <1>1 DEF Cached
<1>4. SumOf(bytes, Cached \cup {r}) = SumOf(bytes, Cached)
  <2>1. CASE r \in Cached
    <3>1. Cached \cup {r} = Cached
      BY <2>1
    <3>2. QED
      BY <3>1
  <2>2. CASE r \notin Cached
    <3>1. Cached \in SUBSET Repos /\ bytes[r] = 0
      BY <2>2 DEF Cached, DownloadWrites
    <3>2. IsFiniteSet(Cached) /\ SumOf(bytes, Cached) \in Int
      BY <1>1, <3>1, FS_Subset, SumType
    <3>3. SumOf(bytes, Cached \cup {r}) = bytes[r] + SumOf(bytes, Cached)
      BY <1>1, <2>2, <3>1, <3>2, SumAdd
    <3>4. QED
      BY <3>1, <3>2, <3>3
  <2>3. QED
    BY <2>1, <2>2
<1>5. QED
  BY <1>1, <1>2, <1>3, <1>4, TotalIsSum

\* What counts of the cache stays as it is.
SameSizes ==
  /\ Total(Repos)' = Total(Repos) /\ Total(Cached)' = Total(Cached)
  /\ bytes' = bytes
  /\ \A q \in Repos : entry[q] # "none" => entry'[q] = entry[q]

\* A step that leaves entries and bytes alone leaves the sums.
LEMMA EntriesAndBytes == UNCHANGED <<entry, bytes>> => SameSizes
<1> SUFFICES ASSUME UNCHANGED <<entry, bytes>> PROVE SameSizes
  OBVIOUS
<1>1. Cached' = Cached
  BY DEF Cached
<1>2. QED
  BY <1>1, TotalIsSum DEF SameSizes

\* Every step disturbs gc, is gc's own, or leaves what counts as it is.
LEMMA GcUndisturbed ==
  ASSUME TypeOK, [Next]_vars, ~disturbed'.gc, gc' # Idle
  PROVE  \/ \E older \in Ages \cup {None}, max \in Budgets \cup {None}, except \in SUBSET Repos :
              GcPlans(older, max, except)
         \/ \E r \in Repos : GcDeletes(r) /\ ~disturbed.gc
         \/ GcEnds /\ SameSizes /\ ~disturbed.gc
         \/ gc' = gc /\ SameSizes /\ ~disturbed.gc
<1>0. HistoryTypes
  BY DEF TypeOK, CommandTypes, HistoryTypes
<1>1. CASE Gc
  <2>1. ASSUME NEW r \in Repos, GcDeletes(r) PROVE ~disturbed.gc
    BY <1>0, <2>1, DisturbsType DEF GcDeletes
  <2>2. CASE GcEnds
    BY <2>2, EntriesAndBytes DEF GcEnds, repos
  <2>3. QED
    BY <1>1, <2>1, <2>2 DEF Gc, GcStops
<1>2. CASE Delete
  <2>1. ASSUME NEW r \in Repos, DeleteDeletes(r) PROVE FALSE
    BY <1>0, <2>1, DisturbsType DEF DeleteDeletes
  <2>2. CASE UNCHANGED <<repos, gc>> /\ (UNCHANGED disturbed \/ disturbed' = [disturbed EXCEPT !.delete = FALSE])
    BY <1>0, <2>2, EntriesAndBytes DEF repos, HistoryTypes
  <2>3. QED
    BY <1>2, <2>1, <2>2 DEF Delete, DeleteResolves, DeleteEnds, DeleteStops
<1>3. CASE Clean
  <2>1. UNCHANGED <<entry, bytes, gc, disturbed>>
    BY <1>3 DEF Clean, CleanFinds, CleanStops, CleanRemoves, repos
  <2>2. QED
    BY <2>1, EntriesAndBytes
<1>4. CASE Others
  <2>1. ASSUME NEW r \in Repos, NEW kind \in {"chunked", "incomplete"}, DownloadWrites(r, kind)
        PROVE  gc' = gc /\ SameSizes /\ ~disturbed.gc
    BY <2>1, WritingAddsNothing DEF DownloadWrites, SameSizes, commands
  <2>2. ASSUME disturbed' = Disturbs("none") PROVE FALSE
    BY <1>0, <2>2, DisturbsType
  <2>3. ASSUME NEW r \in Repos, DownloadStops(r)
        PROVE  gc' = gc /\ SameSizes /\ ~disturbed.gc
    BY <2>3, EntriesAndBytes DEF DownloadStops, commands
  <2>4. CASE Tick
    BY <2>4, EntriesAndBytes DEF Tick, commands, repos
  <2>5. QED
    BY <1>4, <2>1, <2>2, <2>3, <2>4 DEF Others, DownloadFinishes, Moved, RemovedElsewhere
<1>5. CASE UNCHANGED vars
  BY <1>5, EntriesAndBytes DEF vars, repos, commands
<1>6. QED
  BY <1>1, <1>2, <1>3, <1>4, <1>5 DEF Next

\* A budget that was given is a number.
LEMMA BudgetType ==
  ASSUME NEW max \in Budgets \cup {None} PROVE max # None => max \in Int
BY MaintenanceAssumption

\* A gc's bytes and its budget, as they are once it has planned.
LEMMA PlanAccounts ==
  ASSUME TypeOK, NEW older \in Ages \cup {None}, NEW max \in Budgets \cup {None},
         NEW except \in SUBSET Repos, GcPlans(older, max, except)
  PROVE  GcAccounts'
<1> DEFINE evict == gc'.left
<1>1. /\ evict \subseteq Eligible(except)
      /\ gc'.sizes = [r \in Repos |-> IF r \in evict THEN bytes[r] ELSE 0]
      /\ gc'.max = max /\ gc'.freed = 0 /\ gc'.before = Total(Repos)
      /\ gc'.shortfall <=> max # None /\ SizeBefore - Total(evict) > max
      /\ UNCHANGED repos
  BY DEF GcPlans, Plan
<1>2. evict \subseteq Repos
  BY <1>1 DEF Eligible, Cached
<1>3. SameSizes
  BY <1>1, EntriesAndBytes DEF repos
<1>4. \A r \in evict : entry'[r] = "dir" /\ gc'.sizes[r] = bytes'[r]
  <2>1. \A r \in evict : entry[r] \in {"dir", "link"} /\ entry[r] # "link"
    BY <1>1, <1>2 DEF Eligible, Cached, TypeOK, RepoTypes
  <2>2. QED
    BY <1>1, <1>2, <2>1 DEF repos
<1>5. SumOf(gc'.sizes, evict) = Total(evict)
  <2>1. IsFiniteSet(evict)
    BY <1>2, FS_Subset
  <2>2. \A r \in evict : gc'.sizes[r] = bytes[r]
    BY <1>1, <1>2
  <2>3. SumOf(gc'.sizes, evict) = SumOf(bytes, evict)
    BY <2>1, <2>2, SumSame
  <2>4. QED
    BY <2>3, TotalIsSum
<1>6. Total(Repos) \in Int /\ Total(Cached) \in Int /\ Total(evict) \in Int
  <2>1. IsFiniteSet(evict) /\ IsFiniteSet(Cached)
    BY <1>2, FS_Subset DEF Cached
  <2>2. SumOf(bytes, Repos) \in Int /\ SumOf(bytes, Cached) \in Int /\ SumOf(bytes, evict) \in Int
    BY <1>2, <2>1, SumType DEF TypeOK, RepoTypes, Cached
  <2>3. QED
    BY <2>2, TotalIsSum
<1>7. gc'.freed = gc'.before - Total(Repos)'
  BY <1>1, <1>3, <1>6 DEF SameSizes
<1>8. gc'.max = None \/ gc'.shortfall \/ SizeBefore' - SumOf(gc'.sizes, gc'.left) <= gc'.max
  <2>1. SizeBefore' = SizeBefore /\ SizeBefore \in Int
    BY <1>3, <1>6 DEF SameSizes, SizeBefore
  <2>2. max # None => max \in Int
    BY BudgetType
  <2> HIDE DEF evict
  <2>3. QED
    BY <1>1, <1>5, <1>6, <2>1, <2>2 DEF evict
<1>9. QED
  BY <1>4, <1>7, <1>8 DEF GcAccounts

\* A deletion of gc's keeps its accounts.
LEMMA GcDeletionAccounts ==
  ASSUME TypeOK, GcAccounts, NEW r \in Repos, GcDeletes(r), ~disturbed.gc
  PROVE  GcAccounts'
<1> SUFFICES ASSUME ~gc'.failed PROVE GcAccounts'
  BY DEF GcAccounts
<1>0. gc \in GcRuns /\ gc # Idle /\ r \in gc.left /\ gc.left \in SUBSET Repos
  BY DEF TypeOK, CommandTypes, GcDeletes, GcRuns, Idle
<1>1. /\ gc' = [gc EXCEPT !.left = @ \ {r}, !.freed = @ + gc.sizes[r]]
      /\ Deletes(r, FALSE)
  BY <1>0 DEF GcDeletes, GcRuns
<1>2. /\ gc'.left = gc.left \ {r} /\ gc'.freed = gc.freed + gc.sizes[r] /\ gc'.max = gc.max
      /\ gc'.sizes = gc.sizes /\ gc'.before = gc.before /\ gc'.shortfall = gc.shortfall
      /\ gc'.failed = gc.failed
  BY <1>0, <1>1 DEF GcRuns
<1>3. /\ \A q \in gc.left : entry[q] = "dir" /\ gc.sizes[q] = bytes[q]
      /\ gc.freed = gc.before - Total(Repos)
      /\ gc.max = None \/ gc.shortfall
           \/ SizeBefore - SumOf(gc.sizes, gc.left) <= gc.max
  BY <1>0, <1>2 DEF GcAccounts
<1>4. /\ Total(Repos)' = Total(Repos) - bytes[r]
      /\ Total(Cached)' = Total(Cached) - bytes[r]
  <2>1. entry[r] = "dir" /\ Frees(r, FALSE) = bytes[r]
    BY <1>0, <1>3 DEF Frees
  <2>2. entry[r] # "none" /\ FALSE \in BOOLEAN
    BY <2>1
  <2>3. QED
    BY <1>1, <2>1, <2>2, DeletionFrees
<1>5. \A q \in gc'.left : entry'[q] = "dir" /\ gc'.sizes[q] = bytes'[q]
  <2>1. \A q \in Repos : q # r => entry'[q] = entry[q] /\ bytes'[q] = bytes[q]
    BY <1>1, DeletionTouchesOne DEF TypeOK
  <2>2. QED
    BY <1>0, <1>2, <1>3, <2>1
<1>6. /\ Total(Repos) \in Int /\ Total(Cached) \in Int /\ bytes[r] \in Int
      /\ gc.sizes[r] = bytes[r] /\ gc.before \in Int
  <2>1. IsFiniteSet(Cached)
    BY FS_Subset DEF Cached
  <2>2. SumOf(bytes, Repos) \in Int /\ SumOf(bytes, Cached) \in Int
    BY <2>1, SumType DEF TypeOK, RepoTypes, Cached
  <2>3. QED
    BY <1>0, <1>3, <2>2, TotalIsSum DEF TypeOK, RepoTypes, GcRuns
<1>7. gc'.freed = gc'.before - Total(Repos)'
  BY <1>2, <1>3, <1>4, <1>6
<1>8. SumOf(gc'.sizes, gc'.left) = SumOf(gc.sizes, gc.left) - bytes[r]
      /\ SumOf(gc.sizes, gc.left) \in Int
  <2>1. IsFiniteSet(gc.left) /\ \A q \in gc.left : gc.sizes[q] \in Int
    BY <1>0, FS_Subset DEF GcRuns
  <2>2. SumOf(gc.sizes, gc.left) = gc.sizes[r] + SumOf(gc.sizes, gc.left \ {r})
    BY <1>0, <2>1, SumRemove
  <2>3. IsFiniteSet(gc.left \ {r})
    BY <2>1, FS_RemoveElement
  <2>4. SumOf(gc.sizes, gc.left \ {r}) \in Int
    BY <2>1, <2>3, SumType
  <2>5. QED
    BY <1>2, <1>6, <2>2, <2>4
<1>9. gc'.max = None \/ gc'.shortfall \/ SizeBefore' - SumOf(gc'.sizes, gc'.left) <= gc'.max
  <2>1. SizeBefore' = SizeBefore - bytes[r] /\ SizeBefore \in Int
    BY <1>4, <1>6 DEF SizeBefore
  <2>2. SizeBefore' - SumOf(gc'.sizes, gc'.left) = SizeBefore - SumOf(gc.sizes, gc.left)
    <3>1. bytes[r] \in Int
      BY <1>6
    <3>2. QED
      BY <1>8, <2>1, <3>1
  <2>3. QED
    BY <1>2, <1>3, <2>2
<1>10. QED
  BY <1>5, <1>7, <1>9 DEF GcAccounts

\* Every step that leaves gc undisturbed keeps its accounts.
LEMMA GcAccountsKept == TypeOK /\ GcAccounts /\ [Next]_vars => GcAccounts'
<1> SUFFICES ASSUME TypeOK, GcAccounts, [Next]_vars, ~disturbed'.gc, gc' # Idle
             PROVE  GcAccounts'
  BY DEF GcAccounts
<1>0. gc \in GcRuns \cup {Idle}
  BY DEF TypeOK, CommandTypes
<1>1. ASSUME SameSizes, ~disturbed.gc, gc # Idle, gc'.left = gc.left, gc'.sizes = gc.sizes,
             gc'.freed = gc.freed, gc'.before = gc.before, gc'.max = gc.max,
             gc'.shortfall = gc.shortfall, gc'.failed = gc.failed
      PROVE  GcAccounts'
  <2> SUFFICES ASSUME ~gc.failed PROVE GcAccounts'
    BY <1>1 DEF GcAccounts
  <2>1. /\ \A q \in gc.left : entry[q] = "dir" /\ gc.sizes[q] = bytes[q]
        /\ gc.freed = gc.before - Total(Repos)
        /\ gc.max = None \/ gc.shortfall
             \/ SizeBefore - SumOf(gc.sizes, gc.left) <= gc.max
    BY <1>1 DEF GcAccounts
  <2>2. gc.left \subseteq Repos
    BY <1>0, <1>1 DEF GcRuns
  <2>3. \A q \in gc'.left : entry'[q] = "dir" /\ gc'.sizes[q] = bytes'[q]
    BY <1>1, <2>1, <2>2 DEF SameSizes
  <2>4. SizeBefore' = SizeBefore /\ Total(Repos)' = Total(Repos)
    BY <1>1 DEF SameSizes, SizeBefore
  <2>5. QED
    BY <1>1, <2>1, <2>3, <2>4 DEF GcAccounts
<1>2. CASE GcEnds /\ SameSizes /\ ~disturbed.gc
  <2>1. gc \in GcRuns /\ gc # Idle
    BY <1>0, <1>2 DEF GcEnds, Idle
  <2>2. /\ gc'.left = gc.left /\ gc'.sizes = gc.sizes /\ gc'.freed = gc.freed
        /\ gc'.before = gc.before /\ gc'.max = gc.max /\ gc'.shortfall = gc.shortfall
        /\ gc'.failed = gc.failed
    BY <1>2, <2>1 DEF GcEnds, GcRuns
  <2>3. QED
    BY <1>1, <1>2, <2>1, <2>2
<1>3. CASE gc' = gc /\ SameSizes /\ ~disturbed.gc
  BY <1>1, <1>3
<1>4. QED
  BY <1>2, <1>3, GcUndisturbed, PlanAccounts, GcDeletionAccounts

\* Every step disturbs a delete, is its own, or leaves what counts as it is.
LEMMA DeleteUndisturbed ==
  ASSUME TypeOK, [Next]_vars, ~disturbed'.delete, delete' # Idle
  PROVE  \/ \E args \in SUBSET Repos, with_target \in BOOLEAN : DeleteResolves(args, with_target)
         \/ \E r \in Repos : DeleteDeletes(r) /\ ~disturbed.delete
         \/ DeleteEnds /\ UNCHANGED repos /\ ~disturbed.delete
         \/ /\ delete' = delete /\ SameSizes /\ ~disturbed.delete
            /\ \A q \in Repos : entry[q] # "none" => entry'[q] = entry[q]
<1>0. HistoryTypes
  BY DEF TypeOK, CommandTypes, HistoryTypes
<1>1. CASE Delete
  <2>1. ASSUME NEW r \in Repos, DeleteDeletes(r) PROVE ~disturbed.delete
    BY <1>0, <2>1, DisturbsType DEF DeleteDeletes
  <2>2. QED
    BY <1>1, <2>1 DEF Delete, DeleteEnds, DeleteStops
<1>2. CASE Gc
  <2>1. ASSUME NEW r \in Repos, GcDeletes(r) PROVE FALSE
    BY <1>0, <2>1, DisturbsType DEF GcDeletes
  <2>2. CASE UNCHANGED <<repos, delete>> /\ (UNCHANGED disturbed \/ disturbed' = [disturbed EXCEPT !.gc = FALSE])
    BY <1>0, <2>2, EntriesAndBytes DEF repos, HistoryTypes
  <2>3. QED
    BY <1>2, <2>1, <2>2 DEF Gc, GcPlans, GcEnds, GcStops
<1>3. CASE Clean
  <2>1. UNCHANGED <<entry, bytes, delete, disturbed>>
    BY <1>3 DEF Clean, CleanFinds, CleanStops, CleanRemoves, repos
  <2>2. QED
    BY <2>1, EntriesAndBytes
<1>4. CASE Others
  <2>1. ASSUME NEW r \in Repos, NEW kind \in {"chunked", "incomplete"}, DownloadWrites(r, kind)
        PROVE  /\ delete' = delete /\ SameSizes /\ ~disturbed.delete
               /\ \A q \in Repos : entry[q] # "none" => entry'[q] = entry[q]
    BY <2>1, WritingAddsNothing DEF DownloadWrites, SameSizes, commands
  <2>2. ASSUME disturbed' = Disturbs("none") PROVE FALSE
    BY <1>0, <2>2, DisturbsType
  <2>3. ASSUME NEW r \in Repos, DownloadStops(r)
        PROVE  delete' = delete /\ SameSizes /\ ~disturbed.delete /\ UNCHANGED entry
    BY <2>3, EntriesAndBytes DEF DownloadStops, commands
  <2>4. CASE Tick
    BY <2>4, EntriesAndBytes DEF Tick, commands, repos
  <2>5. QED
    BY <1>4, <2>1, <2>2, <2>3, <2>4 DEF Others, DownloadFinishes, Moved, RemovedElsewhere
<1>5. CASE UNCHANGED vars
  BY <1>5, EntriesAndBytes DEF vars, repos, commands
<1>6. QED
  BY <1>1, <1>2, <1>3, <1>4, <1>5 DEF Next

\* The bytes of the cache are a number.
LEMMA TotalType == TypeOK => Total(Repos) \in Int
BY TotalIsSum, SumType DEF TypeOK, RepoTypes

\* Every step that leaves delete undisturbed keeps its accounts.
LEMMA DeleteAccountsKept == TypeOK /\ DeleteAccounts /\ [Next]_vars => DeleteAccounts'
<1> SUFFICES ASSUME TypeOK, DeleteAccounts, [Next]_vars,
                    ~disturbed'.delete, delete' # Idle, ~delete'.failed
             PROVE  DeleteAccounts'
  BY DEF DeleteAccounts
<1>0. DeleteType
  BY DEF TypeOK, CommandTypes, DeleteType
<1>1. ASSUME NEW args \in SUBSET Repos, NEW with_target \in BOOLEAN, DeleteResolves(args, with_target)
      PROVE  DeleteAccounts'
  <2>1. /\ delete'.left = args /\ delete'.with_target = with_target /\ delete'.freed = 0
        /\ delete'.before = Total(Repos)
        /\ delete'.frees = [r \in args |-> Frees(r, with_target)]
        /\ UNCHANGED <<entry, bytes>>
    BY <1>1 DEF DeleteResolves, repos
  <2>2. \A r \in args : entry[r] # "none"
    BY <1>1 DEF DeleteResolves, Resolved, Cached
  <2>3. \A r \in args : Frees(r, with_target)' = Frees(r, with_target)
    BY <2>1 DEF Frees
  <2>4. delete'.freed = delete'.before - Total(Repos)'
    BY <2>1, TotalType, EntriesAndBytes DEF SameSizes
  <2>5. \A r \in delete'.left : entry'[r] # "none" /\ delete'.frees[r] = Frees(r, delete.with_target)'
    BY <2>1, <2>2, <2>3 DEF Frees
  <2>6. QED
    BY <2>4, <2>5 DEF DeleteAccounts
<1>2. ASSUME NEW r \in Repos, DeleteDeletes(r), ~disturbed.delete
      PROVE  DeleteAccounts'
  <2>1. /\ delete \in Deletions(delete.frees) /\ delete # Idle /\ r \in delete.left
        /\ delete.with_target \in BOOLEAN /\ delete.left \in SUBSET Repos /\ delete.before \in Int
    BY <1>0, <1>2 DEF DeleteType, Deletions, DeleteDeletes, Idle
  <2>2. /\ delete' = [delete EXCEPT !.left = @ \ {r}, !.freed = @ + delete.frees[r]]
        /\ Deletes(r, delete.with_target)
    BY <1>2, <2>1 DEF DeleteDeletes, Deletions
  <2>3. /\ delete'.left = delete.left \ {r} /\ delete'.freed = delete.freed + delete.frees[r]
        /\ delete'.with_target = delete.with_target /\ delete'.frees = delete.frees
        /\ delete'.before = delete.before /\ delete'.failed = delete.failed
    BY <2>1, <2>2 DEF Deletions
  <2>4. /\ \A q \in delete.left : /\ entry[q] # "none"
                                  /\ delete.frees[q] = Frees(q, delete.with_target)
        /\ delete.freed = delete.before - Total(Repos)
    BY <1>2, <2>1, <2>3 DEF DeleteAccounts
  <2>5. Total(Repos)' = Total(Repos) - delete.frees[r]
    BY <2>1, <2>2, <2>4, DeletionFrees
  <2>6. delete'.freed = delete'.before - Total(Repos)'
    <3>1. Total(Repos) \in Int /\ delete.frees[r] \in Int
      BY <2>1, <2>4, TotalType DEF Frees, TypeOK, RepoTypes
    <3>2. QED
      BY <2>1, <2>3, <2>4, <2>5, <3>1
  <2>7. \A q \in Repos : q # r => entry'[q] = entry[q] /\ bytes'[q] = bytes[q]
    BY <2>2, DeletionTouchesOne DEF TypeOK
  <2>8. \A q \in delete'.left : entry'[q] # "none" /\ delete'.frees[q] = Frees(q, delete.with_target)'
    BY <2>1, <2>3, <2>4, <2>7 DEF Frees
  <2>9. QED
    BY <2>6, <2>8 DEF DeleteAccounts
<1>3. ASSUME SameSizes, ~disturbed.delete, delete # Idle, ~delete.failed,
             delete'.left = delete.left, delete'.frees = delete.frees,
             delete'.freed = delete.freed, delete'.before = delete.before,
             delete'.with_target = delete.with_target
      PROVE  DeleteAccounts'
  <2>1. /\ \A q \in delete.left : /\ entry[q] # "none"
                                  /\ delete.frees[q] = Frees(q, delete.with_target)
        /\ delete.freed = delete.before - Total(Repos)
    BY <1>3 DEF DeleteAccounts
  <2>2. delete.left \subseteq Repos
    BY <1>0, <1>3 DEF DeleteType, Deletions
  <2>3. \A q \in delete'.left : entry'[q] # "none" /\ delete'.frees[q] = Frees(q, delete.with_target)'
    BY <1>3, <2>1, <2>2 DEF SameSizes, Frees
  <2>4. QED
    BY <1>3, <2>1, <2>3 DEF SameSizes, DeleteAccounts
<1>4. CASE DeleteEnds /\ UNCHANGED repos /\ ~disturbed.delete
  <2>1. delete \in Deletions(delete.frees) /\ delete # Idle
    BY <1>0, <1>4 DEF DeleteEnds, DeleteType, Idle
  <2>2. SameSizes
    BY <1>4, EntriesAndBytes DEF repos
  <2>3. /\ delete'.left = delete.left /\ delete'.frees = delete.frees
        /\ delete'.freed = delete.freed /\ delete'.before = delete.before
        /\ delete'.with_target = delete.with_target /\ delete'.failed = delete.failed
    BY <1>4, <2>1 DEF DeleteEnds, Deletions
  <2>4. QED
    BY <1>3, <1>4, <2>1, <2>2, <2>3
<1>5. CASE delete' = delete /\ SameSizes /\ ~disturbed.delete
  BY <1>3, <1>5
<1>6. QED
  BY <1>1, <1>2, <1>4, <1>5, DeleteUndisturbed

\* A command ends when it has got to everything.
LEMMA EndsEmptyKept == TypeOK /\ EndsEmpty /\ [Next]_vars => EndsEmpty'
<1> SUFFICES ASSUME TypeOK, EndsEmpty, [Next]_vars PROVE EndsEmpty'
  OBVIOUS
<1>0. gc \in GcRuns \cup {Idle} /\ DeleteType
  BY DEF TypeOK, CommandTypes, DeleteType
<1>1. CASE Gc
  <2>1. UNCHANGED delete
    BY <1>1 DEF Gc, GcPlans, GcDeletes, GcEnds, GcStops
  <2>2. ASSUME NEW older \in Ages \cup {None}, NEW max \in Budgets \cup {None},
               NEW except \in SUBSET Repos, GcPlans(older, max, except)
        PROVE  gc'.at = "done" => gc'.left = {}
    BY <2>2 DEF GcPlans, Plan
  <2>3. ASSUME NEW r \in Repos, GcDeletes(r)
        PROVE  gc'.at = "removing"
    <3>1. gc \in GcRuns /\ gc.at = "removing"
      BY <1>0, <2>3 DEF GcDeletes, Idle
    <3>2. CASE gc' = [gc EXCEPT !.left = @ \ {r}, !.freed = @ + gc.sizes[r]]
      BY <3>1, <3>2 DEF GcRuns
    <3>3. CASE gc' = [gc EXCEPT !.left = @ \ {r}, !.failed = TRUE]
      BY <3>1, <3>3 DEF GcRuns
    <3>4. QED
      BY <2>3, <3>2, <3>3 DEF GcDeletes
  <2>4. GcEnds => gc'.left = {}
    <3>1. GcEnds => gc \in GcRuns /\ gc.left = {} /\ gc' = [gc EXCEPT !.at = "done"]
      BY <1>0 DEF GcEnds, Idle
    <3>2. QED
      BY <3>1 DEF GcRuns
  <2>5. GcStops => gc'.at = "idle"
    BY DEF GcStops, Idle
  <2>6. gc'.at = "done" => gc'.left = {}
    BY <1>1, <2>2, <2>3, <2>4, <2>5 DEF Gc
  <2>7. QED
    BY <2>1, <2>6 DEF EndsEmpty
<1>2. CASE Delete
  <2>1. UNCHANGED gc
    BY <1>2 DEF Delete, DeleteResolves, DeleteDeletes, DeleteEnds, DeleteStops
  <2>2. ASSUME NEW args \in SUBSET Repos, NEW with_target \in BOOLEAN,
               DeleteResolves(args, with_target)
        PROVE  delete'.at = "removing"
    BY <2>2 DEF DeleteResolves
  <2>3. ASSUME NEW r \in Repos, DeleteDeletes(r)
        PROVE  delete'.at = "removing"
    <3>1. delete \in Deletions(delete.frees) /\ delete.at = "removing"
      BY <1>0, <2>3 DEF DeleteDeletes, DeleteType, Idle
    <3>2. CASE delete' = [delete EXCEPT !.left = @ \ {r}, !.freed = @ + delete.frees[r]]
      BY <3>1, <3>2 DEF Deletions
    <3>3. CASE delete' = [delete EXCEPT !.left = @ \ {r}, !.failed = TRUE]
      BY <3>1, <3>3 DEF Deletions
    <3>4. QED
      BY <2>3, <3>2, <3>3 DEF DeleteDeletes
  <2>4. DeleteEnds => delete'.left = {}
    <3>1. DeleteEnds => /\ delete \in Deletions(delete.frees) /\ delete.left = {}
                        /\ delete' = [delete EXCEPT !.at = "done"]
      BY <1>0 DEF DeleteEnds, DeleteType, Idle
    <3>2. QED
      BY <3>1 DEF Deletions
  <2>5. DeleteStops => delete'.at = "idle"
    BY DEF DeleteStops, Idle
  <2>6. delete'.at = "done" => delete'.left = {}
    BY <1>2, <2>2, <2>3, <2>4, <2>5 DEF Delete
  <2>7. QED
    BY <2>1, <2>6 DEF EndsEmpty
<1>3. CASE Clean
  BY <1>3 DEF Clean, CleanFinds, CleanRemoves, CleanStops, EndsEmpty
<1>4. CASE Others
  BY <1>4 DEF Others, DownloadWrites, DownloadFinishes, DownloadStops, Moved,
     RemovedElsewhere, Tick, commands, EndsEmpty
<1>5. CASE UNCHANGED vars
  BY <1>5 DEF vars, commands, EndsEmpty
<1>6. QED
  BY <1>1, <1>2, <1>3, <1>4, <1>5 DEF Next

\* The cache begins in the invariant.
LEMMA InitInv == Init => IInv
<1> SUFFICES ASSUME Init PROVE IInv
  OBVIOUS
<1>1. RunningHavePartials /\ gc = Idle /\ delete = Idle /\ clean = Idle
  BY DEF Init, RunningHavePartials
<1>2. QED
  BY <1>1, InitTypes DEF IInv, GcAccounts, GcSparesFresh, DeleteAccounts,
     CleanSparesLocked, EndsEmpty, Idle

\* Every step keeps the invariant.
LEMMA NextInv == IInv /\ [Next]_vars => IInv'
BY TypesKept, PartialsKept, GcAccountsKept, GcSparesKept, DeleteAccountsKept,
   CleanSparesKept, EndsEmptyKept DEF IInv

\* For any repositories, budgets and clocks, and any interleaving of the
\* commands with downloads: each command's accounts agree with the cache as
\* long as nobody else changes it, and no command has a live download to remove.
THEOREM MaintenanceInvariant == Spec => []IInv
BY InitInv, NextInv, PTL DEF Spec

\* For any repositories and any interleaving: a gc that met no failure, and
\* nobody else's changes, ends with the cache within the budget or says that
\* it cannot, and has freed the bytes it says.
THEOREM BudgetIsMetOrSaid == Spec => []BudgetMetOrSaid
<1>1. IInv => BudgetMetOrSaid
  <2> SUFFICES ASSUME IInv, gc.at = "done", ~gc.failed, ~disturbed.gc
               PROVE  /\ gc.max # None => gc.shortfall \/ Stored + Total(Cached) <= gc.max
                      /\ gc.freed = gc.before - Total(Repos)
    BY DEF BudgetMetOrSaid
  <2>1. gc # Idle /\ gc.left = {}
    BY DEF IInv, EndsEmpty, Idle
  <2>2. /\ gc.freed = gc.before - Total(Repos)
        /\ gc.max = None \/ gc.shortfall
             \/ SizeBefore - SumOf(gc.sizes, gc.left) <= gc.max
    BY <2>1 DEF IInv, GcAccounts
  <2>3. SumOf(gc.sizes, gc.left) = 0
    BY <2>1, SumEmpty
  <2>4. SizeBefore \in Int
    <3>1. IsFiniteSet(Cached)
      BY FS_Subset DEF Cached
    <3>2. SumOf(bytes, Cached) \in Int
      BY <3>1, SumType DEF IInv, TypeOK, RepoTypes, Cached
    <3>3. QED
      BY <3>2, TotalIsSum DEF SizeBefore
  <2>5. QED
    BY <2>2, <2>3, <2>4 DEF SizeBefore
<1>2. QED
  BY <1>1, MaintenanceInvariant, PTL

\* The same of delete: it frees what it asked about, whatever of it is a link.
THEOREM DeletionFreesWhatItSays == Spec => []DeleteFreesWhatItSays
<1>1. IInv => DeleteFreesWhatItSays
  BY DEF IInv, DeleteAccounts, DeleteFreesWhatItSays, Idle
<1>2. QED
  BY <1>1, MaintenanceInvariant, PTL

\* Neither gc nor clean-partial takes the partial file of a download that runs,
\* unless it wrote too long ago or after the command looked, or holds no lock.
THEOREM DownloadsAreSpared == Spec => RunningDownloadsSpared
<1>1. IInv /\ [Next]_vars =>
        [\A r \in Repos : running[r] /\ ~running'[r] =>
           /\ GcDeletes(r) => r \in since.gc \/ gc.planned - partial[r].written >= Window
           /\ CleanRemoves(r) => r \in since.clean \/ partial[r].kind = "chunked"]_vars
  <2> SUFFICES ASSUME IInv, NEW r \in Repos, running[r]
               PROVE  /\ GcDeletes(r) => r \in since.gc \/ gc.planned - partial[r].written >= Window
                      /\ CleanRemoves(r) => r \in since.clean \/ partial[r].kind = "chunked"
    OBVIOUS
  <2>1. ASSUME GcDeletes(r) PROVE r \in since.gc \/ gc.planned - partial[r].written >= Window
    BY <2>1 DEF IInv, GcSparesFresh, GcDeletes, Idle
  <2>2. ASSUME CleanRemoves(r) PROVE r \in since.clean \/ partial[r].kind = "chunked"
    BY <2>2 DEF IInv, CleanSparesLocked, CleanRemoves, Idle
  <2>3. QED
    BY <2>1, <2>2
<1>2. QED
  BY <1>1, MaintenanceInvariant, PTL DEF Spec, RunningDownloadsSpared

-----------------------------------------------------------------------------
\* A deletion that is not told to follow links leaves the bytes behind one.
LEMMA LinkDeletionKeepsBytes ==
  ASSUME RepoTypes, NEW r \in Repos, NEW w \in BOOLEAN, entry[r] = "link",
         Deletes(r, w) \/ DeleteFails(r, w), bytes'[r] # bytes[r]
  PROVE  w
<1>1. ~w => LinkRemoved(r) \/ UNCHANGED repos
  BY DEF Deletes, DeleteFails, FollowsLink
<1>2. LinkRemoved(r) \/ UNCHANGED repos => bytes' = bytes
  BY DEF LinkRemoved, repos
<1>3. QED
  BY <1>1, <1>2

\* For any interleaving, bytes that a link leads to go in a delete that was
\* told --with-target, and in nothing else.
THEOREM LinkedBytesAreKept == Spec => BehindLinksKept
<1>1. IInv /\ [Next]_vars =>
        [\A r \in Repos : entry[r] = "link" /\ bytes'[r] < bytes[r] =>
           delete # Idle /\ delete.with_target /\ r \in delete.left]_vars
  <2> SUFFICES ASSUME IInv, [Next]_vars, NEW r \in Repos,
                      entry[r] = "link", bytes'[r] < bytes[r]
               PROVE  delete # Idle /\ delete.with_target /\ r \in delete.left
    OBVIOUS
  <2>0. RepoTypes /\ bytes[r] \in Nat /\ bytes'[r] # bytes[r]
    <3>1. RepoTypes
      BY DEF IInv, TypeOK
    <3>2. bytes[r] \in Nat /\ bytes'[r] \in Nat
      BY <3>1, RepoTypesKept DEF IInv, RepoTypes
    <3>3. QED
      BY <3>1, <3>2
  <2>1. ASSUME NEW q \in Repos, GcDeletes(q) PROVE FALSE
    <3>1. Deletes(q, FALSE) \/ DeleteFails(q, FALSE)
      BY <2>1 DEF GcDeletes
    <3>2. q = r
      BY <2>0, <3>1, DeletionTouchesOne
    <3>3. QED
      BY <2>0, <3>1, <3>2, LinkDeletionKeepsBytes
  <2>2. ASSUME NEW q \in Repos, DeleteDeletes(q)
        PROVE  delete # Idle /\ delete.with_target /\ r \in delete.left
    <3>1. Deletes(q, delete.with_target) \/ DeleteFails(q, delete.with_target)
      BY <2>2 DEF DeleteDeletes
    <3>2. q = r
      BY <2>0, <3>1, DeletionTouchesOne
    <3>3. delete # Idle /\ delete.with_target \in BOOLEAN /\ r \in delete.left
      BY <2>2, <3>2 DEF IInv, TypeOK, CommandTypes, DeleteDeletes, Deletions, Idle
    <3>4. QED
      BY <2>0, <3>1, <3>2, <3>3, LinkDeletionKeepsBytes
  <2>3. ASSUME bytes' = bytes PROVE FALSE
    BY <2>0, <2>3
  <2>4. CASE Gc
    <3>1. CASE UNCHANGED <<repos, now>>
      BY <2>3, <3>1 DEF repos
    <3>2. QED
      BY <2>1, <2>4, <3>1, QuietSteps DEF Gc
  <2>5. CASE Delete
    <3>1. CASE UNCHANGED <<repos, now>>
      BY <2>3, <3>1 DEF repos
    <3>2. QED
      BY <2>2, <2>5, <3>1, QuietSteps DEF Delete
  <2>6. CASE Clean
    <3>1. bytes' = bytes
      BY <2>6 DEF Clean, CleanFinds, CleanStops, CleanRemoves, repos
    <3>2. QED
      BY <2>3, <3>1
  <2>7. CASE Others
    <3>1. ASSUME NEW q \in Repos, DownloadFinishes(q) PROVE FALSE
      <4>1. bytes'[r] = IF q = r THEN bytes[r] + 1 ELSE bytes[r]
        BY <2>0, <3>1 DEF DownloadFinishes, RepoTypes
      <4>2. QED
        BY <2>0, <4>1
    <3>2. ASSUME NEW q \in Repos, RemovedElsewhere(q) PROVE FALSE
      <4>1. q # r /\ bytes' = [bytes EXCEPT ![q] = 0]
        BY <3>2 DEF RemovedElsewhere, DirRemoved
      <4>2. QED
        BY <2>0, <4>1 DEF RepoTypes
    <3>3. (\E q \in Repos, kind \in {"chunked", "incomplete"} : DownloadWrites(q, kind))
            \/ (\E q \in Repos : DownloadStops(q) \/ Moved(q)) \/ Tick => bytes' = bytes
      BY DEF DownloadWrites, DownloadStops, Moved, Tick, repos
    <3>4. QED
      BY <2>3, <2>7, <3>1, <3>2, <3>3 DEF Others
  <2>8. CASE UNCHANGED vars
    BY <2>3, <2>8 DEF vars, repos
  <2>9. QED
    BY <2>4, <2>5, <2>6, <2>7, <2>8 DEF Next
<1>2. QED
  BY <1>1, MaintenanceInvariant, PTL DEF Spec, BehindLinksKept
-----------------------------------------------------------------------------
(* The budget's share of a plan.                                            *)

\* Before orders the repositories: by time and then by rank, of which no two
\* repositories have the same.
LEMMA BeforeOrders ==
  ASSUME RepoTypes, NEW r \in Repos, NEW s \in Repos
  PROVE  /\ r # s => Before(r, s) \/ Before(s, r)
         /\ \A q \in Repos : Before(q, r) /\ Before(r, s) => Before(q, s)
         /\ ~Before(r, r)
         /\ modified[r] < modified[s] => Before(r, s)
<1>1. \A q \in Repos : modified[q] \in Int /\ Rank[q] \in Nat
  BY DEF RepoTypes
<1>2. QED
  BY <1>1 DEF Before

\* If a repository is evicted for the budget, so is every earlier one.
LEMMA EarlierGoFirst ==
  ASSUME RepoTypes, NEW S \in SUBSET Repos, NEW aged \in SUBSET Repos,
         NEW max \in Int, NEW r \in S, NEW s \in S,
         Before(s, r), StillOver(r, S, max, aged)
  PROVE  StillOver(s, S, max, aged)
<1> DEFINE P(x) == {q \in S : Before(q, x)}
<1>1. P(s) \subseteq P(r) /\ P(r) \in SUBSET Repos
  BY BeforeOrders
<1>2. IsFiniteSet(P(r)) /\ IsFiniteSet(P(s)) /\ IsFiniteSet(aged) /\ IsFiniteSet(Cached)
  BY <1>1, FS_Subset DEF Cached
<1>3. \A q \in Repos : bytes[q] \in Nat
  BY DEF RepoTypes
<1> HIDE DEF P
<1>4. SumOf(bytes, P(s)) <= SumOf(bytes, P(r))
  BY <1>1, <1>2, <1>3, SumSubset
<1>5. SumOf(bytes, P(s)) \in Int /\ SumOf(bytes, P(r)) \in Int
  BY <1>1, <1>2, <1>3, SumType
<1>6. SumOf(bytes, aged) \in Int /\ SumOf(bytes, Cached) \in Int
  BY <1>2, <1>3, SumType DEF Cached
<1>7. SizeBefore - SumOf(bytes, aged) - SumOf(bytes, P(r)) > max
  BY TotalIsSum DEF StillOver, P
<1>8. SizeBefore \in Int
  BY <1>6, TotalIsSum DEF SizeBefore
<1>9. SizeBefore - SumOf(bytes, aged) - SumOf(bytes, P(s)) > max
  BY <1>4, <1>5, <1>6, <1>7, <1>8
<1>10. QED
  BY <1>9, TotalIsSum DEF StillOver, P

\* Without the last repository that a budget takes, the cache would stay over.
LEMMA LastIsNeeded ==
  ASSUME RepoTypes, NEW S \in SUBSET Repos, NEW aged \in SUBSET Repos, S \cap aged = {},
         NEW max \in Int, NEW budgeted \in SUBSET S, NEW r \in budgeted,
         StillOver(r, S, max, aged), \A s \in budgeted : ~Before(r, s)
  PROVE  SizeBefore - Total((aged \cup budgeted) \ {r}) > max
<1> DEFINE P == {q \in S : Before(q, r)}
           B == budgeted \ {r}
<1>1. B \subseteq P /\ P \in SUBSET Repos
  BY BeforeOrders
<1>2. /\ IsFiniteSet(P) /\ IsFiniteSet(B) /\ IsFiniteSet(aged) /\ IsFiniteSet(Cached)
  BY <1>1, FS_Subset DEF Cached
<1>3. \A q \in Repos : bytes[q] \in Nat
  BY DEF RepoTypes
<1>4. (aged \cup budgeted) \ {r} = aged \cup B /\ aged \cap B = {}
  OBVIOUS
<1>5. SizeBefore - SumOf(bytes, aged) - SumOf(bytes, P) > max
  BY TotalIsSum DEF StillOver
<1> HIDE DEF P, B
<1>6. SumOf(bytes, B) <= SumOf(bytes, P)
  BY <1>1, <1>2, <1>3, SumSubset
<1>7. /\ SumOf(bytes, B) \in Int /\ SumOf(bytes, P) \in Int
      /\ SumOf(bytes, aged) \in Int /\ SumOf(bytes, Cached) \in Int
  BY <1>1, <1>2, <1>3, SumType DEF Cached
<1>8. SumOf(bytes, aged \cup B) = SumOf(bytes, aged) + SumOf(bytes, B)
  <2>1. \A x \in aged \cup B : bytes[x] \in Int
    BY <1>1, <1>3
  <2>2. QED
    BY <1>2, <1>4, <2>1, SumUnion
<1>9. SizeBefore \in Int
  BY <1>7, TotalIsSum DEF SizeBefore
<1>10. SizeBefore - SumOf(bytes, aged \cup B) > max
  BY <1>5, <1>6, <1>7, <1>8, <1>9
<1>11. QED
  BY <1>4, <1>10, TotalIsSum

\* For any sizes, times and budget, what gc plans beside the aged repositories
\* is the oldest, and stops as soon as the budget is met.
THEOREM OldestGoFirst == Spec => NoneInPlaceOfAnOlder
<1> DEFINE OlderFirst(older, max, except) ==
             LET evict == gc'.left
                 budgeted == {r \in evict : ~Aged(r, older)}
             IN \A r \in budgeted :
                  /\ \A s \in Eligible(except) \ evict : modified[r] <= modified[s]
                  /\ (\E s \in budgeted : Before(r, s)) \/ SizeBefore - Total(evict \ {r}) > max
<1>1. ASSUME IInv, NEW older \in Ages \cup {None}, NEW max \in Budgets \cup {None},
             NEW except \in SUBSET Repos, GcPlans(older, max, except)
      PROVE  OlderFirst(older, max, except)
  <2> DEFINE eligible == Eligible(except)
             aged == {r \in eligible : Aged(r, older)}
             rest == eligible \ aged
             share == {r \in rest : StillOver(r, rest, max, aged)}
             evict == gc'.left
             budgeted == {r \in evict : ~Aged(r, older)}
  <2>1. RepoTypes
    BY <1>1 DEF IInv, TypeOK
  <2>2. evict = aged \cup IF max = None THEN {} ELSE share
    BY <1>1 DEF GcPlans, Plan
  <2>3. eligible \in SUBSET Repos
    BY DEF Eligible, Cached
  <2>4. CASE max = None
    BY <2>2, <2>4
  <2>5. CASE max # None
    <3>1. max \in Int /\ budgeted = share /\ evict = aged \cup share
      BY <2>2, <2>5
    <3>2. ASSUME NEW r \in share, NEW s \in eligible \ evict PROVE modified[r] <= modified[s]
      <4>1. s \in rest /\ ~StillOver(s, rest, max, aged) /\ r \in rest /\ rest \in SUBSET Repos
            /\ aged \in SUBSET Repos /\ StillOver(r, rest, max, aged)
        BY <2>3, <3>1, <3>2
      <4> HIDE DEF rest, aged
      <4>2. ~Before(s, r)
        BY <2>1, <3>1, <4>1, EarlierGoFirst
      <4>3. modified[r] \in Int /\ modified[s] \in Int
        BY <2>1, <4>1 DEF RepoTypes
      <4>4. QED
        BY <4>2, <4>3 DEF Before
    <3>3. ASSUME NEW r \in share, \A s \in share : ~Before(r, s)
          PROVE  SizeBefore - Total((aged \cup share) \ {r}) > max
      <4>1. /\ rest \in SUBSET Repos /\ aged \in SUBSET Repos /\ rest \cap aged = {}
            /\ share \in SUBSET rest /\ StillOver(r, rest, max, aged)
        BY <2>3, <3>3
      <4> HIDE DEF rest, aged, share
      <4>2. QED
        BY <2>1, <3>1, <3>3, <4>1, LastIsNeeded
    <3> HIDE DEF share, aged, rest, budgeted
    <3>4. budgeted = {r \in evict : ~Aged(r, older)}
      BY DEF budgeted
    <3>5. QED
      BY <3>1, <3>2, <3>3, <3>4
  <2>6. QED
    BY <2>4, <2>5
<1> HIDE DEF OlderFirst
<1>2. IInv => [gc = Idle /\ gc' # Idle =>
                 \A older \in Ages \cup {None}, max \in Budgets \cup {None}, except \in SUBSET Repos :
                   GcPlans(older, max, except) => OlderFirst(older, max, except)]_vars
  BY <1>1
<1> USE DEF OlderFirst
<1>3. QED
  BY <1>2, MaintenanceInvariant, PTL DEF Spec, NoneInPlaceOfAnOlder
-----------------------------------------------------------------------------
(* Inspection.                                                             *)

HIDE MaintenanceAssumption

Places == {"waiting", "admitted", "cleared", "running", "returning", "ended", "joined"}
Outcomes == {"pending", "ok", "unchecked", "skipped", "err", "panic"}

\* The stages of each command.
StageOK ==
  /\ asked \in Diffs \cup Inspects \cup Searches
  /\ stage \in {"config", "list A", "shards of A", "list B", "shards of B", "search",
                "siblings", "verdicts", "answered", "hinted", "failed"}
  /\ stage = "config" => IsInspect /\ asked.context # Nothing
  /\ stage \in {"list A", "shards of A"} => IsDiff \/ IsInspect
  /\ stage \in {"list B", "shards of B"} => IsDiff
  /\ stage \in {"search", "siblings", "verdicts"} => IsQuants

\* What the fan-out under way was given.
WorkOK ==
  /\ IsList(items)
  /\ stage = "shards of A" => items = asked.a
  /\ stage = "shards of B" => items = asked.b
  /\ stage = "siblings" => items = asked.found
  /\ stage = "verdicts" => items = Doubtful(rows)

\* Every task that was joined and is kept is in the list once.
JoinedOK ==
  /\ joined \in Seq(Items)
  /\ \A j, k \in DOMAIN joined : joined[j] = joined[k] => j = k
  /\ \A i \in Items :
       (\E k \in DOMAIN joined : joined[k] = i) <=> task[i] = "joined" /\ Keeps(i)

TasksOK ==
  /\ task \in [Items -> Places] /\ out \in [Items -> Outcomes]
  /\ \A i \in Items :
       out[i] = "pending" <=> task[i] \in Places \ {"ended", "joined"}
  /\ \A i \in Items : task[i] = "returning" => FailFast
  /\ ~FansOut => AllJoined

\* A flag that is up has a cause; a cause that was joined has raised it.
ErrorsOK ==
  /\ failed \in BOOLEAN
  /\ error = Nothing \/ error \in Items
  /\ error # Nothing => failed
  /\ failed => FailFast /\ \E i \in Items : Failure(out[i])
  /\ \A i \in Items :
       /\ out[i] = "skipped" => failed
       /\ out[i] = "unchecked" => stage = "siblings"
       /\ FailFast /\ task[i] = "joined" /\ Failure(out[i]) => error # Nothing

\* The tensors of a repository, by name.
SideOf(shards) == [n \in NamesIn(shards) |-> LastTensor(shards, n)]

\* What earlier fan-outs have left.
KeptOK ==
  /\ stage \in {"list B", "shards of B"} => side = SideOf(asked.a)
  /\ stage = "verdicts" => rows \in Seq([gguf : BOOLEAN, size : Nat, layers : Seq(Nat)])
  /\ IsInspect =>
       \/ kv = NoEstimate
       \/ /\ asked.context # Nothing /\ asked.config # Nothing
          /\ kv = KvCacheBytes(asked.config, asked.context, asked.elem)

InspectionInv ==
  /\ StageOK /\ WorkOK /\ TasksOK /\ KeptOK
  /\ FansOut => JoinedOK /\ ErrorsOK
  /\ DiffIsOfTheContents
  /\ VerdictsAreTheRows
  /\ FitIsOfTheModel
-----------------------------------------------------------------------------
(* Orders.                                                                  *)

\* The first n numbers are n.
LEMMA FirstNumbers ==
  ASSUME NEW n \in Nat PROVE IsFiniteSet(1 .. n) /\ Cardinality(1 .. n) = n
BY FS_Interval

\* R puts any two elements of S in an order.
IsStrictOrder(S, R) ==
  /\ \A x \in S : <<x, x>> \notin R
  /\ \A x, y, z \in S : <<x, y>> \in R /\ <<y, z>> \in R => <<x, z>> \in R
  /\ \A x, y \in S : x = y \/ <<x, y>> \in R \/ <<y, x>> \in R

\* Those before s.
Lower(S, R, s) == {r \in S : <<r, s>> \in R}

\* An element that is before another has fewer before it.
LEMMA LowerGrows ==
  ASSUME NEW S, IsFiniteSet(S), NEW R, IsStrictOrder(S, R),
         NEW x \in S, NEW y \in S, <<x, y>> \in R
  PROVE  Cardinality(Lower(S, R, x)) < Cardinality(Lower(S, R, y))
<1>1. /\ Lower(S, R, x) \in SUBSET Lower(S, R, y)
      /\ x \in Lower(S, R, y) /\ x \notin Lower(S, R, x)
      /\ Lower(S, R, y) \in SUBSET S
  BY DEF Lower, IsStrictOrder
<1>2. IsFiniteSet(Lower(S, R, y))
  BY <1>1, FS_Subset
<1>3. /\ IsFiniteSet(Lower(S, R, x))
      /\ Cardinality(Lower(S, R, x)) <= Cardinality(Lower(S, R, y))
      /\ Cardinality(Lower(S, R, x)) # Cardinality(Lower(S, R, y))
  BY <1>1, <1>2, FS_Subset
<1>4. Cardinality(Lower(S, R, x)) \in Nat /\ Cardinality(Lower(S, R, y)) \in Nat
  BY <1>2, <1>3, FS_CardinalityType
<1> QED
  BY <1>3, <1>4

\* Every place up to the size of a set is that of one element.
LEMMA EveryPlaceTaken ==
  ASSUME NEW S, IsFiniteSet(S), NEW R, IsStrictOrder(S, R),
         NEW k \in 1 .. Cardinality(S)
  PROVE  \E s \in S : Cardinality(Lower(S, R, s)) = k - 1
<1> DEFINE n == Cardinality(S)
           place == [s \in S |-> Cardinality(Lower(S, R, s)) + 1]
<1>1. n \in Nat
  BY FS_CardinalityType
<1>8. \A s \in S : Cardinality(Lower(S, R, s)) \in Nat
  <2>1. TAKE s \in S
  <2>2. Lower(S, R, s) \in SUBSET S
    BY DEF Lower
  <2>3. IsFiniteSet(Lower(S, R, s))
    BY <2>2, FS_Subset
  <2> QED
    BY <2>3, FS_CardinalityType
<1>2. \A s \in S : place[s] \in 1 .. n
  <2>1. TAKE s \in S
  <2>2. Lower(S, R, s) \in SUBSET (S \ {s})
    BY DEF Lower, IsStrictOrder
  <2>3. IsFiniteSet(S \ {s}) /\ Cardinality(S \ {s}) = n - 1
    BY FS_RemoveElement
  <2>4. IsFiniteSet(Lower(S, R, s)) /\ Cardinality(Lower(S, R, s)) <= n - 1
    BY <2>2, <2>3, FS_Subset
  <2> QED
    BY <1>1, <1>8, <2>4
<1>3. \A x, y \in S : place[x] = place[y] => x = y
  <2>1. SUFFICES ASSUME NEW x \in S, NEW y \in S, <<x, y>> \in R
                 PROVE  place[x] # place[y]
    BY DEF IsStrictOrder
  <2>2. Cardinality(Lower(S, R, x)) < Cardinality(Lower(S, R, y))
    BY <2>1, LowerGrows
  <2>3. place[x] < place[y] /\ place[x] \in Nat
    BY <1>8, <2>2
  <2> QED
    BY <2>3
<1>4. place \in Injection(S, 1 .. n)
  <2>1. place \in [S -> 1 .. n]
    BY <1>2
  <2> QED
    BY <1>3, <2>1 DEF Injection, IsInjective
<1>5. IsFiniteSet(1 .. n) /\ Cardinality(1 .. n) = n
  BY <1>1, FirstNumbers
<1>6. place \in Surjection(S, 1 .. n)
  BY <1>4, <1>5, FS_Injection
<1>7. PICK s \in S : place[s] = k
  BY <1>6 DEF Surjection
<1> QED
  BY <1>7, <1>8

\* Ordered lists each element of a finite set once, and in order.
LEMMA OrderedIs ==
  ASSUME NEW S, IsFiniteSet(S), NEW R, IsStrictOrder(S, R)
  PROVE  /\ Cardinality(S) \in Nat
         /\ Ordered(S, R) \in [1 .. Cardinality(S) -> S]
         /\ \A s \in S : \E k \in 1 .. Cardinality(S) : Ordered(S, R)[k] = s
         /\ \A j, k \in 1 .. Cardinality(S) :
              Ordered(S, R)[j] = Ordered(S, R)[k] => j = k
         /\ \A j, k \in 1 .. Cardinality(S) :
              j < k => <<Ordered(S, R)[j], Ordered(S, R)[k]>> \in R
<1> DEFINE n == Cardinality(S)
           o == Ordered(S, R)
           count(s) == Cardinality(Lower(S, R, s))
<1>1. n \in Nat
  BY FS_CardinalityType
<1>2. o = [k \in 1 .. n |-> CHOOSE s \in S : count(s) = k - 1]
  BY DEF Ordered, Lower
<1>3. \A k \in 1 .. n : o[k] \in S /\ count(o[k]) = k - 1
  <2>1. TAKE k \in 1 .. n
  <2>2. \E s \in S : count(s) = k - 1
    BY EveryPlaceTaken
  <2>3. o[k] = CHOOSE s \in S : count(s) = k - 1
    BY <1>2
  <2> HIDE DEF count, o
  <2> QED
    BY <2>2, <2>3
<1>4. o \in [1 .. n -> S]
  BY <1>2, <1>3
<1>5. \A j, k \in 1 .. n : o[j] = o[k] => j = k
  <2>1. SUFFICES ASSUME NEW j \in 1 .. n, NEW k \in 1 .. n, o[j] = o[k]
                 PROVE  j = k
    OBVIOUS
  <2>2. count(o[j]) = j - 1 /\ count(o[k]) = k - 1
    BY <1>3
  <2>3. j - 1 = k - 1
    BY <2>1, <2>2
  <2> QED
    BY <1>1, <2>3
<1>6. o \in Injection(1 .. n, S)
  BY <1>4, <1>5 DEF Injection, IsInjective
<1>7. IsFiniteSet(1 .. n) /\ Cardinality(1 .. n) = n
  BY <1>1, FirstNumbers
<1>8. o \in Surjection(1 .. n, S)
  BY <1>6, <1>7, FS_Injection
<1>9. \A s \in S : \E k \in 1 .. n : o[k] = s
  BY <1>8 DEF Surjection
<1>10. \A j, k \in 1 .. n : j < k => <<o[j], o[k]>> \in R
  <2>1. SUFFICES ASSUME NEW j \in 1 .. n, NEW k \in 1 .. n, j < k,
                        <<o[j], o[k]>> \notin R
                 PROVE  FALSE
    OBVIOUS
  <2>2. o[j] \in S /\ o[k] \in S /\ o[j] # o[k]
    BY <1>1, <1>3, <1>5, <2>1
  <2>3. <<o[k], o[j]>> \in R
    BY <2>1, <2>2 DEF IsStrictOrder
  <2>4. count(o[k]) < count(o[j])
    BY <2>2, <2>3, LowerGrows
  <2>5. count(o[j]) = j - 1 /\ count(o[k]) = k - 1
    BY <1>3
  <2>6. k - 1 < j - 1
    BY <2>4, <2>5
  <2> QED
    BY <1>1, <2>1, <2>6
<1> QED
  BY <1>1, <1>4, <1>5, <1>9, <1>10

\* Numbers in ascending order.
LEMMA AscendingIs ==
  ASSUME NEW S, IsFiniteSet(S), S \subseteq Int
  PROVE  /\ Cardinality(S) \in Nat
         /\ Ascending(S) \in [1 .. Cardinality(S) -> S]
         /\ \A s \in S : \E k \in 1 .. Cardinality(S) : Ascending(S)[k] = s
         /\ \A j, k \in 1 .. Cardinality(S) :
              Ascending(S)[j] = Ascending(S)[k] => j = k
<1> DEFINE R == {p \in S \X S : p[1] < p[2]}
<1>1. \A x, y \in S : <<x, y>> \in R <=> x < y
  OBVIOUS
<1>2. \A x \in S : x \in Int
  OBVIOUS
<1> HIDE DEF R
<1>3. IsStrictOrder(S, R)
  BY <1>1, <1>2 DEF IsStrictOrder
<1>4. Ascending(S) = Ordered(S, R)
  BY DEF Ascending, R
<1> QED
  BY <1>3, <1>4, OrderedIs

\* t is s, its elements moved by p so that their keys ascend.
Arranges(p, n, s, keys, t) ==
  /\ p \in [1 .. n -> 1 .. n]
  /\ \A k \in 1 .. n : t[k] = s[p[k]]
  /\ \A x \in 1 .. n : \E k \in 1 .. n : p[k] = x
  /\ \A j, k \in 1 .. n : p[j] = p[k] => j = k
  /\ \A j, k \in 1 .. n : j < k => keys[p[j]] <= keys[p[k]]

\* A sequence that is sorted by keys has the same elements, each as often.
LEMMA SortedByIs ==
  ASSUME NEW E, NEW s \in Seq(E), NEW keys \in [DOMAIN s -> Nat],
         NEW t, t = SortedBy(s, keys), NEW n, n = Len(s)
  PROVE  /\ t \in Seq(E) /\ Len(t) = n
         /\ \E p : Arranges(p, n, s, keys, t)
<1> DEFINE D == 1 .. n
           R == {p \in D \X D : \/ keys[p[1]] < keys[p[2]]
                                \/ keys[p[1]] = keys[p[2]] /\ p[1] < p[2]}
<1>1. /\ DOMAIN s = D /\ n \in Nat /\ \A k \in D : k \in Int /\ s[k] \in E
      /\ \A k \in D : keys[k] \in Nat
  OBVIOUS
<1>2. \A x, y \in D : <<x, y>> \in R
                        <=> \/ keys[x] < keys[y]
                            \/ keys[x] = keys[y] /\ x < y
  OBVIOUS
<1>3. t = [k \in D |-> s[Ordered(D, R)[k]]]
  BY <1>1 DEF SortedBy
<1>4. IsFiniteSet(D) /\ Cardinality(D) = n
  BY <1>1, FirstNumbers
<1> HIDE DEF D, R
<1>5. IsStrictOrder(D, R)
  <2>1. \A x \in D : <<x, x>> \notin R
    BY <1>1, <1>2
  <2>2. ASSUME NEW x \in D, NEW y \in D, NEW z \in D, <<x, y>> \in R, <<y, z>> \in R
        PROVE  <<x, z>> \in R
    <3>1. /\ x \in Int /\ y \in Int /\ z \in Int
          /\ keys[x] \in Nat /\ keys[y] \in Nat /\ keys[z] \in Nat
      BY <1>1
    <3>2. /\ keys[x] < keys[y] \/ (keys[x] = keys[y] /\ x < y)
          /\ keys[y] < keys[z] \/ (keys[y] = keys[z] /\ y < z)
      BY <1>2, <2>2
    <3>3. keys[x] < keys[z] \/ (keys[x] = keys[z] /\ x < z)
      BY <3>1, <3>2
    <3> QED
      BY <1>2, <3>3
  <2>3. ASSUME NEW x \in D, NEW y \in D
        PROVE  x = y \/ <<x, y>> \in R \/ <<y, x>> \in R
    <3>1. x \in Int /\ y \in Int /\ keys[x] \in Nat /\ keys[y] \in Nat
      BY <1>1
    <3> QED
      BY <1>2, <3>1
  <2> QED
    BY <2>1, <2>2, <2>3 DEF IsStrictOrder
<1>6. PICK p : p = Ordered(D, R)
  OBVIOUS
<1>7. /\ p \in [1 .. n -> D]
      /\ \A x \in D : \E k \in 1 .. n : p[k] = x
      /\ \A j, k \in 1 .. n : p[j] = p[k] => j = k
      /\ \A j, k \in 1 .. n : j < k => <<p[j], p[k]>> \in R
  BY <1>4, <1>5, <1>6, OrderedIs
<1>8. t = [k \in 1 .. n |-> s[p[k]]]
  BY <1>3, <1>6 DEF D
<1>9. \A k \in 1 .. n : s[p[k]] \in E
  BY <1>1, <1>7
<1>10. t \in Seq(E) /\ Len(t) = n
  BY <1>1, <1>8, <1>9
<1>11. \A j, k \in 1 .. n : j < k => keys[p[j]] <= keys[p[k]]
  <2>1. SUFFICES ASSUME NEW j \in 1 .. n, NEW k \in 1 .. n, j < k
                 PROVE  keys[p[j]] <= keys[p[k]]
    OBVIOUS
  <2>2. <<p[j], p[k]>> \in R /\ p[j] \in D /\ p[k] \in D
    BY <1>7, <2>1
  <2>3. keys[p[j]] \in Nat /\ keys[p[k]] \in Nat
    BY <1>1, <2>2
  <2>4. keys[p[j]] < keys[p[k]] \/ keys[p[j]] = keys[p[k]]
    BY <1>2, <2>2
  <2> QED
    BY <2>3, <2>4
<1>12. Arranges(p, n, s, keys, t)
  BY <1>7, <1>8, <1>11 DEF D, Arranges
<1> QED
  BY <1>10, <1>12

\* What is taken of a sequence is in it.
LEMMA TakenAtIs ==
  ASSUME NEW E, NEW s \in Seq(E), NEW at \in SUBSET DOMAIN s
  PROVE  /\ TakenAt(s, at) \in Seq(E)
         /\ \A k \in DOMAIN TakenAt(s, at) :
              \E j \in at : TakenAt(s, at)[k] = s[j]
<1> DEFINE n == Cardinality(at)
           taken == TakenAt(s, at)
<1>1. DOMAIN s = 1 .. Len(s) /\ Len(s) \in Nat /\ \A k \in DOMAIN s : s[k] \in E
  OBVIOUS
<1>2. IsFiniteSet(at)
  <2>1. IsFiniteSet(1 .. Len(s)) /\ at \in SUBSET (1 .. Len(s))
    BY <1>1, FS_Interval
  <2> QED
    BY <2>1, FS_Subset
<1>3. at \subseteq Int
  BY <1>1
<1>4. n \in Nat /\ Ascending(at) \in [1 .. n -> at]
  BY <1>2, <1>3, AscendingIs
<1>5. taken = [k \in 1 .. n |-> s[Ascending(at)[k]]]
  BY <1>4 DEF TakenAt
<1>6. \A k \in 1 .. n : Ascending(at)[k] \in at
  BY <1>4
<1> HIDE DEF n, taken
<1>7. \A k \in 1 .. n : taken[k] = s[Ascending(at)[k]] /\ taken[k] \in E
  BY <1>1, <1>5, <1>6
<1>8. taken \in Seq(E) /\ DOMAIN taken = 1 .. n
  BY <1>4, <1>5, <1>7
<1> QED
  BY <1>6, <1>7, <1>8 DEF taken

-----------------------------------------------------------------------------
(* The least and the greatest of some numbers.                              *)

\* This stands for induction over the natural numbers in what follows.
LEMMA LeastNatural ==
  ASSUME NEW T, T \subseteq Nat, T # {}
  PROVE  \E m \in T : \A y \in T : m <= y
<1>1. PICK m \in T : \A y \in Nat : <<y, m>> \in OpToRel(<, Nat) => y \notin T
  BY NatLessThanWellFounded, WFMin
<1>2. \A y \in T : ~(y < m)
  BY <1>1 DEF OpToRel
<1> QED
  BY <1>2

\* A nonempty set of bounded numbers has a greatest.
LEMMA GreatestNatural ==
  ASSUME NEW n \in Nat, NEW T, T \subseteq 0 .. n, T # {}
  PROVE  /\ Max(T) \in T
         /\ \A y \in T : y <= Max(T)
<1> DEFINE U == {n - y : y \in T}
<1>1. \A y \in T : y \in Int /\ n - y \in Nat /\ n - y \in U
  OBVIOUS
<1>2. U \subseteq Nat /\ U # {}
  BY <1>1
<1>3. PICK m \in U : \A u \in U : m <= u
  <2> HIDE DEF U
  <2> QED
    BY <1>2, LeastNatural
<1>4. PICK x \in T : m = n - x
  BY <1>3
<1>5. \A y \in T : x >= y
  <2>1. TAKE y \in T
  <2>2. n - x <= n - y
    BY <1>1, <1>3, <1>4
  <2> QED
    BY <1>1, <2>2
<1>6. Max(T) \in T /\ \A y \in T : Max(T) >= y
  BY <1>5 DEF Max
<1>7. \A y \in T : Max(T) \in Int /\ y \in Int
  BY <1>1, <1>6
<1> QED
  BY <1>6, <1>7

-----------------------------------------------------------------------------
(* A sequence of sequences, flattened.                                      *)

\* The recursive function that FlattenSeq takes the last value of.
IsFlattening(ss, n, f) ==
  f = [i \in 1 .. n |-> IF i = 1 THEN ss[i] ELSE f[i - 1] \o ss[i]]

\* There is such a function for any number of sequences.
LEMMA FlatteningExists ==
  ASSUME NEW ss, NEW n \in Nat
  PROVE  \E f : IsFlattening(ss, n, f)
<1> DEFINE T == {m \in Nat : ~\E f : IsFlattening(ss, m, f)}
<1>1. SUFFICES ASSUME T # {} PROVE FALSE
  OBVIOUS
<1>2. PICK m \in T : \A y \in T : m <= y
  <2>1. T \subseteq Nat
    OBVIOUS
  <2> HIDE DEF T
  <2> QED
    BY <1>1, <2>1, LeastNatural
<1>3. m # 0
  <2>1. [i \in 1 .. 0 |-> i] = [i \in 1 .. 0 |->
            IF i = 1 THEN ss[i] ELSE [j \in 1 .. 0 |-> j][i - 1] \o ss[i]]
    OBVIOUS
  <2> QED
    BY <1>2, <2>1 DEF IsFlattening
<1>4. m - 1 \in Nat /\ m - 1 \notin T
  BY <1>2, <1>3
<1>5. PICK g : IsFlattening(ss, m - 1, g)
  BY <1>4
<1> DEFINE f == [i \in 1 .. m |->
                   IF i = 1 THEN ss[i] ELSE g[i - 1] \o ss[i]]
<1>6. \A i \in 1 .. m - 1 : f[i] = g[i]
  <2>1. TAKE i \in 1 .. m - 1
  <2>2. i \in 1 .. m /\ m \in Nat
    BY <1>2
  <2>3. g[i] = IF i = 1 THEN ss[i] ELSE g[i - 1] \o ss[i]
    BY <1>5 DEF IsFlattening
  <2> QED
    BY <2>2, <2>3
<1>7. \A i \in 1 .. m : i # 1 => i - 1 \in 1 .. m - 1
  BY <1>4
<1>8. f = [i \in 1 .. m |-> IF i = 1 THEN ss[i] ELSE f[i - 1] \o ss[i]]
  BY <1>6, <1>7
<1> HIDE DEF f
<1> QED
  BY <1>2, <1>8 DEF IsFlattening

\* What the flattening of the first i sequences is.
FlatUpTo(ss) == CHOOSE f : IsFlattening(ss, Len(ss), f)

\* It has the flattening at the last one, and grows by one sequence at a time.
LEMMA FlatUpToIs ==
  ASSUME NEW ss, Len(ss) \in Nat, Len(ss) # 0
  PROVE  /\ FlattenSeq(ss) = FlatUpTo(ss)[Len(ss)]
         /\ FlatUpTo(ss)[1] = ss[1]
         /\ \A i \in 2 .. Len(ss) : FlatUpTo(ss)[i] = FlatUpTo(ss)[i - 1] \o ss[i]
<1>1. FlattenSeq(ss) = FlatUpTo(ss)[Len(ss)]
  BY DEF FlattenSeq, FlatUpTo, IsFlattening
<1>2. IsFlattening(ss, Len(ss), FlatUpTo(ss))
  BY FlatteningExists DEF FlatUpTo
<1>3. \A i \in 1 .. Len(ss) :
        FlatUpTo(ss)[i] = IF i = 1 THEN ss[i] ELSE FlatUpTo(ss)[i - 1] \o ss[i]
  BY <1>2 DEF IsFlattening
<1>4. 1 \in 1 .. Len(ss) /\ \A i \in 2 .. Len(ss) : i \in 1 .. Len(ss) /\ i # 1
  OBVIOUS
<1>5. FlatUpTo(ss)[1] = ss[1]
  BY <1>3, <1>4
<1>6. \A i \in 2 .. Len(ss) : FlatUpTo(ss)[i] = FlatUpTo(ss)[i - 1] \o ss[i]
  BY <1>3, <1>4
<1> QED
  BY <1>1, <1>5, <1>6

\* It is a sequence of their elements.
LEMMA FlatType ==
  ASSUME NEW S, NEW ss \in Seq(Seq(S))
  PROVE  /\ \A i \in 1 .. Len(ss) : FlatUpTo(ss)[i] \in Seq(S)
         /\ FlattenSeq(ss) \in Seq(S)
<1> DEFINE n == Len(ss)
           T == {i \in 1 .. n : FlatUpTo(ss)[i] \notin Seq(S)}
<1>1. n \in Nat /\ \A i \in 1 .. n : ss[i] \in Seq(S)
  OBVIOUS
<1>2. CASE n = 0
  <2>1. FlattenSeq(ss) = ss /\ ss = <<>>
    BY <1>2 DEF FlattenSeq
  <2> QED
    BY <1>2, <2>1
<1>3. CASE n # 0
  <2>1. /\ FlatUpTo(ss)[1] = ss[1]
        /\ \A i \in 2 .. n : FlatUpTo(ss)[i] = FlatUpTo(ss)[i - 1] \o ss[i]
        /\ FlattenSeq(ss) = FlatUpTo(ss)[n]
    BY <1>1, <1>3, FlatUpToIs
  <2>2. ASSUME T # {} PROVE FALSE
    <3>1. T \subseteq Nat
      BY <1>1
    <3>2. PICK i \in T : \A y \in T : i <= y
      <4> HIDE DEF T
      <4> QED
        BY <2>2, <3>1, LeastNatural
    <3>3. i # 1
      BY <1>1, <1>3, <2>1, <3>2
    <3>4. i \in 2 .. n /\ i - 1 \in 1 .. n /\ i - 1 \notin T
      BY <1>1, <3>2, <3>3
    <3>5. FlatUpTo(ss)[i - 1] \in Seq(S) /\ ss[i] \in Seq(S)
      BY <1>1, <3>4
    <3>6. FlatUpTo(ss)[i] = FlatUpTo(ss)[i - 1] \o ss[i]
      BY <2>1, <3>4
    <3>7. FlatUpTo(ss)[i] \in Seq(S)
      BY <3>5, <3>6
    <3> QED
      BY <3>2, <3>7
  <2>3. \A i \in 1 .. n : FlatUpTo(ss)[i] \in Seq(S)
    BY <2>2
  <2> HIDE DEF n
  <2>4. n \in 1 .. n
    BY <1>1, <1>3
  <2> QED
    BY <2>1, <2>3, <2>4 DEF n
<1> QED
  BY <1>2, <1>3

-----------------------------------------------------------------------------
(* Sums of sequences, and division.                                         *)

\* A sum of the model is a sum over its positions.
LEMMA SumIs == ASSUME NEW f PROVE Sum(f) = SumOf(f, DOMAIN f)
BY DEF Sum, SumOf

\* A sum of naturals is one.
LEMMA SumNatural ==
  ASSUME NEW f, IsFiniteSet(DOMAIN f), \A k \in DOMAIN f : f[k] \in Nat
  PROVE  Sum(f) \in Nat
BY SumIs, SumNat

\* A sequence has finitely many positions.
LEMMA FiniteDomain ==
  ASSUME NEW E, NEW s \in Seq(E)
  PROVE  /\ IsFiniteSet(DOMAIN s) /\ DOMAIN s = 1 .. Len(s) /\ Len(s) \in Nat
         /\ \A k \in DOMAIN s : s[k] \in E
<1>1. DOMAIN s = 1 .. Len(s) /\ Len(s) \in Nat /\ \A k \in DOMAIN s : s[k] \in E
  OBVIOUS
<1> QED
  BY <1>1, FirstNumbers

\* A product grows with its factor.
LEMMA ProductGrows ==
  ASSUME NEW a \in Nat, NEW b \in Nat, NEW u \in Nat, a <= b
  PROVE  a * u <= b * u
<1>1. PICK d \in Nat : b = a + d
  <2>1. b - a \in Nat /\ b = a + (b - a)
    OBVIOUS
  <2> QED
    BY <2>1
<1>2. b * u = a * u + d * u
  BY <1>1
<1>3. a * u \in Nat /\ d * u \in Nat
  OBVIOUS
<1> QED
  BY <1>2, <1>3

\* What a quotient lies between.
LEMMA QuotientIs ==
  ASSUME NEW a \in Nat, NEW b \in Nat \ {0}
  PROVE  /\ a \div b \in Nat
         /\ (a \div b) * b <= a
         /\ a < (a \div b) * b + b
<1> DEFINE q == a \div b
<1>1. q \in Int /\ b * q <= a /\ a < b * q + b
  OBVIOUS
<1>2. q \in Nat
  <2>1. SUFFICES ASSUME q < 0 PROVE FALSE
    BY <1>1
  <2>2. q + 1 <= 0 /\ -(q + 1) \in Nat
    BY <1>1, <2>1
  <2>3. b * (-(q + 1)) \in Nat
    BY <2>2
  <2>4. b * (-(q + 1)) = -(b * q + b)
    BY <1>1
  <2> QED
    BY <1>1, <2>3, <2>4
<1>3. b * q = q * b
  BY <1>1
<1> QED
  BY <1>1, <1>2, <1>3

\* When it is zero.
LEMMA QuotientIsZero ==
  ASSUME NEW a \in Nat, NEW b \in Nat \ {0}
  PROVE  a \div b = 0 <=> a < b
<1> DEFINE q == a \div b
<1>1. q \in Nat /\ q * b <= a /\ a < q * b + b
  BY QuotientIs
<1> HIDE DEF q
<1>2. q = 0 => q * b = 0
  OBVIOUS
<1>3. ASSUME q # 0 PROVE b <= a
  <2>1. 1 * b <= q * b
    BY <1>1, <1>3, ProductGrows
  <2>2. 1 * b = b /\ q * b \in Nat
    BY <1>1
  <2> QED
    BY <1>1, <2>1, <2>2
<1>4. q = 0 <=> a < b
  BY <1>1, <1>2, <1>3
<1> QED
  BY <1>4 DEF q

\* Sums along a bijection are alike.
LEMMA SumMoved ==
  ASSUME NEW S, IsFiniteSet(S), NEW b, \A x, y \in S : b[x] = b[y] => x = y,
         NEW F, NEW G, \A x \in S : F[x] = G[b[x]] /\ G[b[x]] \in Int
  PROVE  SumOf(F, S) = SumOf(G, {b[x] : x \in S})
<1> DEFINE Image(u) == {b[x] : x \in u}
           T == {u \in SUBSET S : SumOf(F, u) # SumOf(G, Image(u))}
<1>1. SUFFICES ASSUME T # {} PROVE FALSE
  OBVIOUS
<1>2. PICK m \in T : \A u \in T : u \subseteq m => u = m
  <2>1. T \subseteq SUBSET S
    OBVIOUS
  <2> HIDE DEF T
  <2> QED
    BY <1>1, <2>1, MinimalSubset
<1>3. m # {}
  BY <1>2, SumEmpty
<1>4. PICK x \in m : TRUE
  BY <1>3
<1>5. m \subseteq S /\ m \ {x} \in SUBSET S /\ m \ {x} \notin T
  BY <1>2, <1>4
<1>6. SumOf(F, m \ {x}) = SumOf(G, Image(m \ {x}))
  BY <1>5
<1>7. Image(m \ {x}) = Image(m) \ {b[x]}
  BY <1>4, <1>5
<1>8. IsFiniteSet(m) /\ IsFiniteSet(Image(m))
  <2>1. IsFiniteSet(m)
    BY <1>5, FS_Subset
  <2>2. [y \in m |-> b[y]] \in Surjection(m, Image(m))
    BY DEF Surjection
  <2> QED
    BY <2>1, <2>2, FS_Surjection
<1>9. \A y \in m : F[y] \in Int /\ F[y] = G[b[y]]
  BY <1>5
<1>10. \A z \in Image(m) : G[z] \in Int
  BY <1>9
<1>11. SumOf(F, m) = F[x] + SumOf(F, m \ {x})
  BY <1>8, <1>9, SumRemove
<1>12. SumOf(G, Image(m)) = G[b[x]] + SumOf(G, Image(m) \ {b[x]})
  <2>1. b[x] \in Image(m)
    OBVIOUS
  <2> HIDE DEF Image
  <2> QED
    BY <1>8, <1>10, <2>1, SumRemove
<1> QED
  BY <1>2, <1>6, <1>7, <1>9, <1>11, <1>12

\* The sum of n numbers, one after the other.
LEMMA SumsAre ==
  ASSUME NEW n \in Nat, NEW F, NEW W, W[0] = 0,
         \A i \in 1 .. n : F[i] \in Nat /\ W[i] = W[i - 1] + F[i]
  PROVE  SumOf(F, 1 .. n) = W[n]
<1> DEFINE T == {i \in 0 .. n : SumOf(F, 1 .. i) # W[i]}
<1>1. SUFFICES ASSUME T # {} PROVE FALSE
  BY DEF T
<1>2. PICK i \in T : \A y \in T : i <= y
  <2>1. T \subseteq Nat
    OBVIOUS
  <2> HIDE DEF T
  <2> QED
    BY <1>1, <2>1, LeastNatural
<1>3. i \in Nat /\ i <= n /\ SumOf(F, 1 .. i) # W[i]
  BY <1>2
<1>4. CASE i = 0
  <2>1. 1 .. i = {}
    BY <1>4
  <2>2. SumOf(F, 1 .. i) = 0
    BY <2>1, SumEmpty
  <2> QED
    BY <1>3, <1>4, <2>2
<1>5. CASE i # 0
  <2>1. i - 1 \in 0 .. n /\ i - 1 \notin T /\ i \in 1 .. n
    BY <1>2, <1>3, <1>5
  <2>2. SumOf(F, 1 .. i - 1) = W[i - 1] /\ W[i] = W[i - 1] + F[i] /\ F[i] \in Nat
    BY <2>1
  <2>3. /\ IsFiniteSet(1 .. i) /\ i \in 1 .. i /\ (1 .. i) \ {i} = 1 .. i - 1
        /\ \A k \in 1 .. i : F[k] \in Int
    BY <1>3, <2>1, FirstNumbers
  <2> DEFINE U == 1 .. i
  <2>4. IsFiniteSet(U) /\ i \in U /\ \A k \in U : F[k] \in Int
    BY <2>3
  <2> HIDE DEF U, T
  <2>5. SumOf(F, U) = F[i] + SumOf(F, U \ {i})
    BY <2>4, SumRemove
  <2>6. W[i - 1] \in Int
    <3>1. IsFiniteSet(1 .. i - 1) /\ \A k \in 1 .. i - 1 : F[k] \in Int
      BY <1>3, <2>1, FirstNumbers
    <3>2. SumOf(F, 1 .. i - 1) \in Int
      BY <3>1, SumType
    <3> QED
      BY <2>2, <3>2
  <2> QED
    <3>1. SumOf(F, 1 .. i) = F[i] + SumOf(F, 1 .. i - 1)
      BY <2>3, <2>5 DEF U
    <3>2. SumOf(F, 1 .. i) = F[i] + W[i - 1]
      BY <2>2, <3>1
    <3> QED
      BY <1>3, <2>2, <2>6, <3>2
<1> QED
  BY <1>4, <1>5

\* A sum of n numbers is that of the same numbers at later places.
LEMMA SumShifted ==
  ASSUME NEW F, NEW G, NEW m \in Nat, NEW n \in Nat,
         \A k \in 1 .. n : F[k] = G[m + k] /\ G[m + k] \in Int
  PROVE  SumOf(F, 1 .. n) = SumOf(G, m + 1 .. m + n)
<1> DEFINE b == [k \in 1 .. n |-> m + k]
           N == 1 .. n
<1>1. {b[k] : k \in N} = m + 1 .. m + n
  <2>1. \A x \in m + 1 .. m + n : x - m \in 1 .. n /\ x = m + (x - m)
    OBVIOUS
  <2>2. \A k \in 1 .. n : m + k \in m + 1 .. m + n
    OBVIOUS
  <2> QED
    BY <2>1, <2>2
<1>2. \A k \in N : b[k] = m + k
  OBVIOUS
<1>3. /\ IsFiniteSet(N) /\ \A x, y \in N : b[x] = b[y] => x = y
      /\ \A k \in N : F[k] = G[b[k]] /\ G[b[k]] \in Int
  BY <1>2, FirstNumbers
<1> HIDE DEF b, N
<1>4. SumOf(F, N) = SumOf(G, {b[k] : k \in N})
  BY <1>3, SumMoved
<1> QED
  BY <1>1, <1>4 DEF N

\* What the elements of a sequence weigh together.
WeighedBy(g, s) == SumOf([k \in DOMAIN s |-> g[s[k]]], DOMAIN s)

\* What elements weigh is a natural number.
LEMMA WeighedType ==
  ASSUME NEW E, NEW g \in [E -> Nat], NEW s \in Seq(E)
  PROVE  WeighedBy(g, s) \in Nat
<1>1. /\ IsFiniteSet(DOMAIN s) /\ \A k \in DOMAIN s : s[k] \in E
  BY FiniteDomain
<1>2. \A k \in DOMAIN s : [j \in DOMAIN s |-> g[s[j]]][k] \in Nat
  BY <1>1
<1> QED
  BY <1>1, <1>2, SumNat DEF WeighedBy

\* Two sequences weigh, one after the other, what they weigh apart.
LEMMA WeighedConcat ==
  \A E, g, s, t : g \in [E -> Nat] /\ s \in Seq(E) /\ t \in Seq(E)
    => WeighedBy(g, s \o t) = WeighedBy(g, s) + WeighedBy(g, t)
<1>0. SUFFICES ASSUME NEW E, NEW g, NEW s, NEW t,
                      g \in [E -> Nat], s \in Seq(E), t \in Seq(E)
               PROVE  WeighedBy(g, s \o t) = WeighedBy(g, s) + WeighedBy(g, t)
  OBVIOUS
<1> DEFINE m == Len(s)
           n == Len(t)
           S == 1 .. m
           T == m + 1 .. m + n
           F == [k \in DOMAIN (s \o t) |-> g[(s \o t)[k]]]
           Fs == [k \in DOMAIN s |-> g[s[k]]]
           Ft == [k \in DOMAIN t |-> g[t[k]]]
<1>1. /\ m \in Nat /\ n \in Nat /\ DOMAIN s = S /\ DOMAIN t = 1 .. n
      /\ DOMAIN (s \o t) = 1 .. m + n /\ s \o t \in Seq(E)
      /\ \A k \in S : (s \o t)[k] = s[k] /\ s[k] \in E
      /\ \A k \in 1 .. n : (s \o t)[m + k] = t[k] /\ t[k] \in E
  BY <1>0
<1>2. S \cup T = 1 .. m + n /\ S \cap T = {}
  BY <1>1
<1>3. IsFiniteSet(S) /\ IsFiniteSet(T) /\ IsFiniteSet(1 .. n)
  <2>1. IsFiniteSet(S) /\ IsFiniteSet(1 .. n) /\ IsFiniteSet(1 .. m + n)
    BY <1>1, FirstNumbers
  <2>2. T \in SUBSET (1 .. m + n)
    BY <1>2
  <2> QED
    BY <2>1, <2>2, FS_Subset
<1>4. \A k \in S \cup T : F[k] \in Int
  <2>1. \A k \in DOMAIN (s \o t) : (s \o t)[k] \in E
    BY <1>0, <1>1, FiniteDomain
  <2> QED
    BY <1>0, <1>1, <1>2, <2>1
<1>5. SumOf(F, S \cup T) = SumOf(F, S) + SumOf(F, T)
  <2> HIDE DEF F, S, T
  <2> QED
    BY <1>2, <1>3, <1>4, SumUnion
<1>6. SumOf(F, S) = SumOf(Fs, S)
  <2>1. \A k \in S : F[k] = Fs[k]
    BY <1>1, <1>2
  <2> HIDE DEF F, Fs, S
  <2> QED
    BY <1>3, <2>1, SumSame
<1>7. SumOf(Ft, 1 .. n) = SumOf(F, T)
  <2>1. \A k \in 1 .. n : Ft[k] = F[m + k] /\ F[m + k] \in Int
    <3>1. TAKE k \in 1 .. n
    <3>2. m + k \in T
      BY <1>1
    <3>3. F[m + k] = g[t[k]] /\ Ft[k] = g[t[k]]
      BY <1>1, <1>2, <3>2
    <3> QED
      BY <1>0, <1>1, <1>4, <3>2, <3>3
  <2> HIDE DEF F, Ft, m, n
  <2>2. m \in Nat /\ n \in Nat
    BY <1>1
  <2>3. SumOf(Ft, 1 .. n) = SumOf(F, m + 1 .. m + n)
    BY <2>1, <2>2, SumShifted
  <2> QED
    BY <2>3 DEF T
<1> HIDE DEF F, Fs, Ft, S, T
<1>8. WeighedBy(g, s \o t) = SumOf(F, S \cup T)
  BY <1>1, <1>2 DEF WeighedBy, F
<1>9. WeighedBy(g, s) = SumOf(Fs, S) /\ WeighedBy(g, t) = SumOf(Ft, 1 .. n)
  BY <1>1 DEF WeighedBy, Fs, Ft
<1> QED
  BY <1>5, <1>6, <1>7, <1>8, <1>9

\* A flattened sequence weighs what its parts weigh.
LEMMA WeighedFlat ==
  \A E, g, ss : g \in [E -> Nat] /\ ss \in Seq(Seq(E))
    => WeighedBy(g, FlattenSeq(ss))
         = SumOf([k \in 1 .. Len(ss) |-> WeighedBy(g, ss[k])], 1 .. Len(ss))
<1>0. SUFFICES ASSUME NEW E, NEW g, NEW ss, g \in [E -> Nat], ss \in Seq(Seq(E))
               PROVE  WeighedBy(g, FlattenSeq(ss))
                        = SumOf([k \in 1 .. Len(ss) |-> WeighedBy(g, ss[k])], 1 .. Len(ss))
  OBVIOUS
<1> DEFINE n == Len(ss)
           F == [k \in 1 .. n |-> WeighedBy(g, ss[k])]
           T == {i \in 1 .. n : WeighedBy(g, FlatUpTo(ss)[i]) # SumOf(F, 1 .. i)}
<1>1. n \in Nat /\ \A i \in 1 .. n : ss[i] \in Seq(E)
  BY <1>0
<1>2. \A i \in 1 .. n : F[i] = WeighedBy(g, ss[i]) /\ F[i] \in Nat
  BY <1>0, <1>1, WeighedType
<1>3. CASE n = 0
  <2>1. FlattenSeq(ss) = ss /\ DOMAIN ss = {} /\ 1 .. n = {}
    BY <1>3 DEF FlattenSeq
  <2> HIDE DEF F
  <2> QED
    BY <2>1, SumEmpty DEF WeighedBy
<1>4. CASE n # 0
  <2>1. /\ FlatUpTo(ss)[1] = ss[1]
        /\ \A i \in 2 .. n : FlatUpTo(ss)[i] = FlatUpTo(ss)[i - 1] \o ss[i]
        /\ FlattenSeq(ss) = FlatUpTo(ss)[n]
        /\ \A i \in 1 .. n : FlatUpTo(ss)[i] \in Seq(E)
    BY <1>1, <1>4, <1>0, FlatUpToIs, FlatType
  <2> DEFINE W == [i \in 0 .. n |-> IF i = 0 THEN 0 ELSE WeighedBy(g, FlatUpTo(ss)[i])]
  <2>2. W[0] = 0 /\ \A i \in 1 .. n : W[i] = WeighedBy(g, FlatUpTo(ss)[i])
    BY <1>1
  <2> HIDE DEF F, W
  <2>3. ASSUME NEW i \in 1 .. n
        PROVE  F[i] \in Nat /\ W[i] = W[i - 1] + F[i]
    <3>1. F[i] = WeighedBy(g, ss[i]) /\ F[i] \in Nat /\ W[i] = WeighedBy(g, FlatUpTo(ss)[i])
      BY <1>2, <2>2
    <3>2. CASE i = 1
      <4>1. W[i] = F[i] /\ W[i - 1] = 0
        BY <2>1, <2>2, <3>1, <3>2
      <4> QED
        BY <3>1, <4>1
    <3>3. CASE i # 1
      <4>1. i \in 2 .. n /\ i - 1 \in 1 .. n
        BY <1>1, <3>3
      <4>2. FlatUpTo(ss)[i] = FlatUpTo(ss)[i - 1] \o ss[i]
        BY <2>1, <4>1
      <4>3. FlatUpTo(ss)[i - 1] \in Seq(E) /\ ss[i] \in Seq(E)
        BY <1>1, <2>1, <4>1
      <4>4. WeighedBy(g, FlatUpTo(ss)[i - 1] \o ss[i])
              = WeighedBy(g, FlatUpTo(ss)[i - 1]) + WeighedBy(g, ss[i])
        BY <1>0, <4>3, WeighedConcat
      <4>5. W[i - 1] = WeighedBy(g, FlatUpTo(ss)[i - 1])
        BY <2>2, <4>1
      <4> QED
        BY <3>1, <4>2, <4>4, <4>5
    <3> QED
      BY <3>2, <3>3
  <2>4. SumOf(F, 1 .. n) = W[n]
    <3>1. n \in Nat /\ W[0] = 0
      BY <1>1, <2>2
    <3> QED
      BY <2>3, <3>1, SumsAre
  <2>5. n \in 1 .. n
    BY <1>1, <1>4
  <2> QED
    BY <2>1, <2>2, <2>4, <2>5 DEF F
<1> QED
  BY <1>3, <1>4

(* The fan-out.                                                             *)

\* No result is in more than one kind of stage.
LEMMA StageKinds ==
  /\ FansOut => stage \notin {"answered", "list A", "list B", "config", "search",
                              "hinted", "failed"}
  /\ stage \in {"answered", "list A", "list B", "config", "search", "hinted", "failed"}
       => ~FansOut
BY DEF FansOut, FailFast

\* A task that goes on, or ends, and is not joined yet.
LEMMA QuietTask ==
  ASSUME InspectionInv, FansOut, NEW i \in Items, NEW p \in Places, NEW o \in Outcomes,
         UNCHANGED <<stage, items, joined, error>>,
         task[i] \notin {"ended", "joined"}, p # "joined",
         task' = [task EXCEPT ![i] = p], out' = [out EXCEPT ![i] = o],
         o = "pending" <=> p \in Places \ {"ended", "joined"},
         failed' \in BOOLEAN, failed => failed',
         failed' => failed \/ (FailFast /\ Failure(o)),
         p = "returning" => FailFast,
         o = "skipped" => failed, o = "unchecked" => stage = "siblings"
  PROVE  TasksOK' /\ JoinedOK' /\ ErrorsOK'
<1> USE DEF Failure
<1>1. /\ TasksOK /\ JoinedOK /\ ErrorsOK
  BY DEF InspectionInv
<1>2. Items' = Items /\ FansOut' /\ (FailFast' <=> FailFast)
  BY DEF Items, FansOut, FailFast
<1>3. /\ task' \in [Items -> Places] /\ out' \in [Items -> Outcomes]
      /\ \A j \in Items : j # i => task'[j] = task[j] /\ out'[j] = out[j]
      /\ task'[i] = p /\ out'[i] = o
  BY <1>1 DEF TasksOK
<1>4. TasksOK'
  BY <1>1, <1>2, <1>3 DEF TasksOK
<1>5. \A j \in Items : Keeps(j)' /\ task'[j] = "joined" <=> Keeps(j) /\ task[j] = "joined"
  <2>1. TAKE j \in Items
  <2>2. CASE j = i
    BY <1>1, <1>3, <2>2 DEF Places
  <2>3. CASE j # i
    BY <1>3, <2>3 DEF Keeps, HasHeader
  <2> QED
    BY <2>2, <2>3
<1>6. JoinedOK'
  BY <1>1, <1>2, <1>5 DEF JoinedOK
<1>7. failed' => FailFast /\ \E j \in Items : out'[j] \in {"err", "panic"}
  <2>1. CASE failed
    <3>1. PICK j \in Items : out[j] \in {"err", "panic"}
      BY <1>1, <2>1 DEF ErrorsOK
    <3>2. j # i
      BY <1>1, <3>1 DEF TasksOK, Places
    <3> QED
      BY <1>1, <1>3, <2>1, <3>1, <3>2 DEF ErrorsOK
  <2>2. CASE ~failed
    BY <1>3, <2>2
  <2> QED
    BY <2>1, <2>2
<1>8. \A j \in Items :
        /\ out'[j] = "skipped" => failed'
        /\ out'[j] = "unchecked" => stage = "siblings"
        /\ FailFast /\ task'[j] = "joined" /\ out'[j] \in {"err", "panic"} => error # Nothing
  <2>1. TAKE j \in Items
  <2>2. CASE j = i
    BY <1>3, <2>2
  <2>3. CASE j # i
    BY <1>1, <1>3, <2>3 DEF ErrorsOK
  <2> QED
    BY <2>2, <2>3
<1>9. ErrorsOK'
  BY <1>1, <1>2, <1>7, <1>8 DEF ErrorsOK
<1> QED
  BY <1>4, <1>6, <1>9

\* A task that is joined.
LEMMA JoinTask ==
  ASSUME InspectionInv, FansOut, NEW i \in Items, Join(i)
  PROVE  TasksOK' /\ JoinedOK' /\ ErrorsOK'
<1> USE DEF Failure
<1>1. /\ TasksOK /\ JoinedOK /\ ErrorsOK
  BY DEF InspectionInv
<1>2. Items' = Items /\ FansOut' /\ (FailFast' <=> FailFast)
  BY DEF Items, FansOut, FailFast, Join
<1>3. /\ task' \in [Items -> Places] /\ out' = out
      /\ \A j \in Items : j # i => task'[j] = task[j]
      /\ task[i] = "ended" /\ task'[i] = "joined"
  BY <1>1 DEF TasksOK, Join, Places
<1>4. TasksOK'
  BY <1>1, <1>2, <1>3 DEF TasksOK
<1>5. \A j \in Items : Keeps(j)' <=> Keeps(j)
  BY <1>3 DEF Keeps, HasHeader, Join
<1>6. JoinedOK'
  <2>1. CASE ~Keeps(i)
    <3>1. joined' = joined
      BY <2>1 DEF Join
    <3> QED
      BY <1>1, <1>2, <1>3, <1>5, <2>1, <3>1 DEF JoinedOK
  <2>2. CASE Keeps(i)
    <3>1. joined' = Append(joined, i) /\ joined \in Seq(Items)
      BY <1>1, <2>2 DEF Join, JoinedOK
    <3>2. /\ joined' \in Seq(Items) /\ Len(joined') = Len(joined) + 1
          /\ DOMAIN joined = 1 .. Len(joined) /\ DOMAIN joined' = 1 .. Len(joined) + 1
          /\ Len(joined) \in Nat
          /\ \A k \in 1 .. Len(joined) : joined'[k] = joined[k]
          /\ joined'[Len(joined) + 1] = i
      BY <3>1
    <3>3. \A k \in DOMAIN joined : joined[k] # i
      BY <1>1, <1>3 DEF JoinedOK
    <3>4. \A j, k \in DOMAIN joined' : joined'[j] = joined'[k] => j = k
      <4>1. \A j, k \in 1 .. Len(joined) : joined[j] = joined[k] => j = k
        BY <1>1, <3>2 DEF JoinedOK
      <4> QED
        BY <3>2, <3>3, <4>1
    <3>5. \A j \in Items :
            (\E k \in DOMAIN joined' : joined'[k] = j) <=> task'[j] = "joined" /\ Keeps(j)
      <4>1. TAKE j \in Items
      <4>2. CASE j = i
        <5>1. \E k \in DOMAIN joined' : joined'[k] = j
          BY <3>2, <4>2
        <5> QED
          BY <1>3, <2>2, <4>2, <5>1
      <4>3. CASE j # i
        <5>1. (\E k \in DOMAIN joined' : joined'[k] = j)
                <=> (\E k \in DOMAIN joined : joined[k] = j)
          BY <3>2, <4>3
        <5> QED
          BY <1>1, <1>3, <4>3, <5>1 DEF JoinedOK
      <4> QED
        BY <4>2, <4>3
    <3> QED
      BY <1>2, <1>5, <3>2, <3>4, <3>5 DEF JoinedOK
  <2> QED
    BY <2>1, <2>2
<1>7. /\ failed' \in BOOLEAN
      /\ failed => failed'
      /\ failed' => failed \/ (FailFast /\ Failure(out[i]))
  BY <1>1 DEF Join, Raises, ErrorsOK
<1>8. /\ error' = IF FailFast /\ out[i] \in {"err", "panic"} /\ error = Nothing THEN i ELSE error
  BY DEF Join
<1>9. i # Nothing
  <2>1. items \in Seq(Range(items))
    BY DEF InspectionInv, WorkOK, IsList
  <2>2. Items = 1 .. Len(items) /\ Len(items) \in Nat
    BY <2>1 DEF Items
  <2> QED
    BY <2>2, InputsAssumption
<1>10. error' # Nothing => failed'
  BY <1>1, <1>7, <1>8 DEF ErrorsOK, Join, Raises
<1>11. error # Nothing => error' # Nothing
  BY <1>8
<1>12. \A j \in Items :
         FailFast /\ task'[j] = "joined" /\ out[j] \in {"err", "panic"} => error' # Nothing
  <2>1. TAKE j \in Items
  <2>2. CASE j = i
    BY <1>8, <1>9, <2>2
  <2>3. CASE j # i
    BY <1>1, <1>3, <1>11, <2>3 DEF ErrorsOK
  <2> QED
    BY <2>2, <2>3
<1>13. error' = Nothing \/ error' \in Items
  BY <1>1, <1>8 DEF ErrorsOK
<1>14. failed' => FailFast /\ \E j \in Items : out[j] \in {"err", "panic"}
  BY <1>1, <1>7 DEF ErrorsOK
<1>15. ErrorsOK'
  BY <1>1, <1>2, <1>3, <1>7, <1>10, <1>12, <1>13, <1>14 DEF ErrorsOK, Join
<1> QED
  BY <1>4, <1>6, <1>15

\* The empty sequence is one of anything.
LEMMA EmptyIsSeq == /\ \A S : <<>> \in Seq(S)
                    /\ DOMAIN <<>> = {}
<1>1. \A S : <<>> \in Seq(S)
  OBVIOUS
<1>2. DOMAIN <<>> = {}
  OBVIOUS
<1> QED
  BY <1>1, <1>2

\* What a fan-out that is begun has done so far.
LEMMA FanOutBegins ==
  ASSUME NEW s, NEW work, FanOut(s, work), IsList(work),
         s \in {"shards of A", "shards of B", "siblings", "verdicts"}
  PROVE  /\ IsList(items)'
         /\ TasksOK' /\ JoinedOK' /\ ErrorsOK'
<1>1. /\ stage' = s /\ items' = work /\ Items' = DOMAIN work /\ FansOut'
  BY DEF FanOut, Items, FansOut, FailFast
<1>2. /\ task' = [i \in DOMAIN work |-> "waiting"] /\ out' = [i \in DOMAIN work |-> "pending"]
      /\ failed' = FALSE /\ joined' = <<>> /\ error' = Nothing
  BY DEF FanOut
<1>3. TasksOK'
  BY <1>1, <1>2 DEF TasksOK, Places, Outcomes
<1>4. JoinedOK'
  <2>1. joined' = <<>>
    BY <1>2
  <2> QED
    BY <1>1, <1>2, <2>1, EmptyIsSeq DEF JoinedOK
<1>5. ErrorsOK'
  BY <1>1, <1>2 DEF ErrorsOK, Failure
<1>6. IsList(items)'
  BY <1>1 DEF IsList
<1> QED
  BY <1>3, <1>4, <1>5, <1>6

\* A step of a task keeps the invariant.
LEMMA TaskKeeps ==
  ASSUME InspectionInv, FansOut, NEW i \in Items, Task(i)
  PROVE  InspectionInv'
<1>1. /\ TasksOK /\ JoinedOK /\ ErrorsOK /\ StageOK /\ WorkOK /\ KeptOK
  BY DEF InspectionInv
<1>2. UNCHANGED <<asked, stage, items, side, rows, kv, answer>>
  BY DEF Task, Acquire, Skip, PassFlag, Start, Succeed, SucceedUnchecked, Fail,
         StoreFailure, FailAlone, Panic, Join, Ends
<1>3. TasksOK' /\ JoinedOK' /\ ErrorsOK'
  <2> USE DEF Places, Outcomes
  <2>1. /\ task[i] \in Places /\ out[i] \in Outcomes /\ failed \in BOOLEAN
        /\ out[i] = "pending" <=> task[i] \in Places \ {"ended", "joined"}
        /\ out[i] = "skipped" => failed
        /\ out = [out EXCEPT ![i] = out[i]]
    BY <1>1 DEF TasksOK, ErrorsOK
  <2>2. CASE Acquire(i)
    <3>1. out' = [out EXCEPT ![i] = "pending"] /\ task' = [task EXCEPT ![i] = "admitted"]
      BY <2>1, <2>2 DEF Acquire
    <3> QED
      BY <2>1, <2>2, <3>1, QuietTask DEF Acquire
  <2>3. CASE Start(i)
    <3>1. out' = [out EXCEPT ![i] = "pending"] /\ task' = [task EXCEPT ![i] = "running"]
      BY <2>1, <2>3 DEF Start
    <3> QED
      BY <2>1, <2>3, <3>1, QuietTask DEF Start
  <2>4. CASE Fail(i)
    <3>1. out' = [out EXCEPT ![i] = "pending"] /\ task' = [task EXCEPT ![i] = "returning"]
      BY <2>1, <2>4 DEF Fail
    <3> QED
      BY <2>1, <2>4, <3>1, QuietTask DEF Fail
  <2>5. CASE Skip(i)
    BY <2>1, <2>5, QuietTask DEF Skip, Ends
  <2>6. CASE Succeed(i)
    BY <2>1, <2>6, QuietTask DEF Succeed, Ends
  <2>7. CASE SucceedUnchecked(i)
    BY <2>1, <2>7, QuietTask DEF SucceedUnchecked, Ends
  <2>8. CASE StoreFailure(i)
    <3>1. FailFast
      BY <1>1, <2>8 DEF TasksOK, StoreFailure
    <3> QED
      BY <2>1, <2>8, <3>1, QuietTask DEF StoreFailure, Ends, Failure
  <2>9. CASE FailAlone(i)
    BY <2>1, <2>9, QuietTask DEF FailAlone, Ends
  <2>10. CASE Panic(i)
    BY <2>1, <2>10, QuietTask DEF Panic, Ends
  <2>11. CASE Join(i)
    BY <2>11, JoinTask
  <2>12. CASE PassFlag(i)
    <3>1. out' = [out EXCEPT ![i] = "pending"] /\ task' = [task EXCEPT ![i] = "cleared"]
      BY <2>1, <2>12 DEF PassFlag
    <3> QED
      BY <2>1, <2>12, <3>1, QuietTask DEF PassFlag
  <2> QED
    BY <2>2, <2>3, <2>4, <2>5, <2>6, <2>7, <2>8, <2>9, <2>10, <2>11, <2>12 DEF Task
<1>4. StageOK' /\ WorkOK' /\ KeptOK'
  <2>1. StageOK'
    BY <1>1, <1>2 DEF StageOK, IsDiff, IsInspect, IsQuants
  <2>2. Doubtful(rows)' = Doubtful(rows)
    BY <1>2 DEF Doubtful, InDoubt, Ceiling, Ordered
  <2>3. WorkOK'
    BY <1>1, <1>2, <2>2 DEF WorkOK, IsList
  <2>4. KeptOK'
    BY <1>1, <1>2 DEF KeptOK, IsInspect
  <2> QED
    BY <2>1, <2>3, <2>4
<1>5. stage' # "answered"
  BY <1>2, StageKinds
<1>6. DiffIsOfTheContents' /\ VerdictsAreTheRows' /\ FitIsOfTheModel'
  BY <1>5 DEF DiffIsOfTheContents, VerdictsAreTheRows, FitIsOfTheModel
<1> QED
  BY <1>3, <1>4, <1>6 DEF InspectionInv

-----------------------------------------------------------------------------
(* What a fan-out of shards that failed nowhere has read.                   *)

\* It is all of them, each once.
LEMMA NothingLeftOut ==
  ASSUME InspectionInv, FailFast, MayReturn, error = Nothing
  PROVE  /\ Len(joined) \in Nat /\ joined \in [1 .. Len(joined) -> Items]
         /\ \A i \in Items : \E k \in 1 .. Len(joined) : joined[k] = i
         /\ \A j, k \in 1 .. Len(joined) : joined[j] = joined[k] => j = k
<1>1. TasksOK /\ JoinedOK /\ ErrorsOK
  BY DEF InspectionInv, FansOut
<1>2. \A i \in Items : task[i] = "joined"
  BY DEF MayReturn, AllJoined
<1>3. \A i \in Items : out[i] \notin {"err", "panic"}
  BY <1>1, <1>2 DEF ErrorsOK, Failure
<1>4. ~failed
  BY <1>1, <1>3 DEF ErrorsOK, Failure
<1>5. \A i \in Items : out[i] = "ok"
  <2>1. TAKE i \in Items
  <2>2. out[i] \in {"pending", "ok", "unchecked", "skipped"}
    BY <1>1, <1>3 DEF TasksOK, Outcomes
  <2>3. out[i] # "pending"
    BY <1>1, <1>2 DEF TasksOK
  <2>4. out[i] # "skipped" /\ out[i] # "unchecked"
    BY <1>1, <1>4 DEF ErrorsOK, FailFast
  <2> QED
    BY <2>2, <2>3, <2>4
<1>6. \A i \in Items : Keeps(i)
  BY <1>5 DEF Keeps, FailFast
<1>7. \A i \in Items : \E k \in DOMAIN joined : joined[k] = i
  BY <1>1, <1>2, <1>6 DEF JoinedOK
<1>8. /\ joined \in Seq(Items) /\ DOMAIN joined = 1 .. Len(joined)
      /\ Len(joined) \in Nat /\ joined \in [1 .. Len(joined) -> Items]
  BY <1>1 DEF JoinedOK
<1> QED
  BY <1>1, <1>7, <1>8 DEF JoinedOK

\* Sorted by name it is the shards as listed, in another order.
LEMMA SortedAgain ==
  ASSUME InspectionInv, FailFast, MayReturn, error = Nothing, NamedApart(items)
  PROVE  LET n == Len(items)
             shards == InNameOrder(Kept)
         IN  /\ n \in Nat /\ Items = 1 .. n /\ Len(joined) = n
             /\ shards \in Seq(Range(items)) /\ Len(shards) = n
             /\ \E q \in [1 .. n -> 1 .. n] :
                  /\ \A k \in 1 .. n : shards[k] = items[q[k]]
                  /\ \A x \in 1 .. n : \E k \in 1 .. n : q[k] = x
                  /\ \A j, k \in 1 .. n : q[j] = q[k] => j = k
                  /\ \A j, k \in 1 .. n : j < k => items[q[j]].name < items[q[k]].name
<1> DEFINE n == Len(items)
           m == Len(joined)
           E == Range(items)
           keys == [k \in DOMAIN Kept |-> Kept[k].name]
           shards == InNameOrder(Kept)
<1>1. /\ m \in Nat /\ joined \in [1 .. m -> Items]
      /\ \A i \in Items : \E k \in 1 .. m : joined[k] = i
      /\ \A j, k \in 1 .. m : joined[j] = joined[k] => j = k
  BY NothingLeftOut
<1>2. /\ items \in Seq(E) /\ n \in Nat /\ Items = 1 .. n /\ DOMAIN items = 1 .. n
      /\ \A i \in Items : items[i] \in E
      /\ \A i \in Items : items[i].name \in Nat
      /\ \A i, j \in Items : items[i].name = items[j].name => i = j
  BY DEF NamedApart, IsList, Items, Range
<1>3. m = n
  <2>1. joined \in Bijection(1 .. m, 1 .. n)
    BY <1>1, <1>2 DEF Bijection, Injection, Surjection, IsInjective
  <2>2. IsFiniteSet(1 .. m) /\ Cardinality(1 .. m) = m
    BY <1>1, FirstNumbers
  <2>3. Cardinality(1 .. n) = n
    BY <1>2, FirstNumbers
  <2>4. Cardinality(1 .. n) = Cardinality(1 .. m)
    BY <2>1, <2>2, FS_Bijection DEF ExistsBijection
  <2> QED
    BY <2>2, <2>3, <2>4
<1>4. Kept = [k \in 1 .. n |-> items[joined[k]]]
  BY <1>1, <1>3 DEF Kept
<1>5. Kept \in Seq(E) /\ Len(Kept) = n /\ DOMAIN Kept = 1 .. n
  <2>1. \A k \in 1 .. n : items[joined[k]] \in E
    BY <1>1, <1>2, <1>3
  <2> HIDE DEF E, n
  <2> QED
    BY <1>2, <1>4, <2>1
<1>6. keys \in [DOMAIN Kept -> Nat]
  BY <1>1, <1>2, <1>3, <1>4, <1>5
<1>7. shards = SortedBy(Kept, keys)
  BY DEF InNameOrder
<1> HIDE DEF keys, E, n, shards
<1>8. /\ shards \in Seq(E) /\ Len(shards) = n
      /\ \E p : Arranges(p, n, Kept, keys, shards)
  BY <1>5, <1>6, <1>7, SortedByIs
<1>9. PICK p \in [1 .. n -> 1 .. n] :
        /\ \A k \in 1 .. n : shards[k] = Kept[p[k]]
        /\ \A x \in 1 .. n : \E k \in 1 .. n : p[k] = x
        /\ \A j, k \in 1 .. n : p[j] = p[k] => j = k
        /\ \A j, k \in 1 .. n : j < k => keys[p[j]] <= keys[p[k]]
  BY <1>8 DEF Arranges
<1> DEFINE q == [k \in 1 .. n |-> joined[p[k]]]
<1>10. /\ q \in [1 .. n -> 1 .. n]
       /\ \A k \in 1 .. n : p[k] \in 1 .. n /\ q[k] = joined[p[k]] /\ q[k] \in Items
  BY <1>1, <1>2, <1>3, <1>9
<1> HIDE DEF q
<1>11. \A k \in 1 .. n : shards[k] = items[q[k]]
  BY <1>4, <1>9, <1>10
<1>12. \A x \in 1 .. n : \E k \in 1 .. n : q[k] = x
  <2>1. TAKE x \in 1 .. n
  <2>2. PICK j \in 1 .. n : joined[j] = x
    BY <1>1, <1>2, <1>3
  <2>3. PICK k \in 1 .. n : p[k] = j
    BY <1>9
  <2> QED
    BY <1>10, <2>2, <2>3
<1>13. \A j, k \in 1 .. n : q[j] = q[k] => j = k
  <2>1. SUFFICES ASSUME NEW j \in 1 .. n, NEW k \in 1 .. n, q[j] = q[k] PROVE j = k
    OBVIOUS
  <2>2. p[j] \in 1 .. m /\ p[k] \in 1 .. m /\ joined[p[j]] = joined[p[k]]
    BY <1>3, <1>10, <2>1
  <2>3. p[j] = p[k]
    BY <1>1, <2>2
  <2> QED
    BY <1>9, <2>3
<1>14. \A j, k \in 1 .. n : j < k => items[q[j]].name < items[q[k]].name
  <2>1. SUFFICES ASSUME NEW j \in 1 .. n, NEW k \in 1 .. n, j < k
                 PROVE  items[q[j]].name < items[q[k]].name
    OBVIOUS
  <2>2. keys[p[j]] <= keys[p[k]]
    BY <1>9, <2>1
  <2>3. keys[p[j]] = items[q[j]].name /\ keys[p[k]] = items[q[k]].name
    BY <1>4, <1>5, <1>10 DEF keys
  <2>4. q[j] # q[k]
    BY <1>2, <1>13, <2>1
  <2>5. items[q[j]].name # items[q[k]].name
    BY <1>2, <1>10, <2>4
  <2>6. items[q[j]].name \in Nat /\ items[q[k]].name \in Nat
    BY <1>2, <1>10
  <2> QED
    BY <2>2, <2>3, <2>5, <2>6
<1> QED
  BY <1>2, <1>3, <1>8, <1>10, <1>11, <1>12, <1>13, <1>14 DEF n, E, shards
-----------------------------------------------------------------------------
(* diff.                                                                    *)

\* The tensor in the shard that is the last by name is that of LastTensor.
LEMMA LastIs ==
  ASSUME NEW shards, NamedApart(shards), NEW n, NEW i \in DOMAIN shards,
         n \in DOMAIN shards[i].tensors,
         \A h \in DOMAIN shards : n \in DOMAIN shards[h].tensors
                                    => shards[h].name <= shards[i].name
  PROVE  LastTensor(shards, n) = shards[i].tensors[n]
<1> DEFINE holders == {k \in DOMAIN shards : n \in DOMAIN shards[k].tensors}
           last == CHOOSE k \in holders : \A h \in holders : shards[h].name <= shards[k].name
<1>1. i \in holders /\ \A h \in holders : shards[h].name <= shards[i].name
  OBVIOUS
<1>2. last \in holders /\ \A h \in holders : shards[h].name <= shards[last].name
  BY <1>1
<1>3. /\ shards[i].name \in Nat /\ shards[last].name \in Nat
      /\ shards[i].name <= shards[last].name /\ shards[last].name <= shards[i].name
  BY <1>1, <1>2 DEF NamedApart
<1>4. shards[i].name = shards[last].name
  BY <1>3
<1>5. last = i
  BY <1>1, <1>2, <1>4 DEF NamedApart
<1> QED
  BY <1>5 DEF LastTensor

\* A side of a diff is the tensors of the repository.
LEMMA CollectedIs ==
  ASSUME InspectionInv, FailFast, MayReturn, error = Nothing, NamedApart(items)
  PROVE  Collected = SideOf(items)
<1> DEFINE n == Len(items)
           shards == InNameOrder(Kept)
           Holders(x) == {k \in DOMAIN shards : x \in DOMAIN shards[k].tensors}
           latest(x) == Max(Holders(x))
<1>1. /\ n \in Nat /\ Items = 1 .. n /\ DOMAIN items = 1 .. n
      /\ shards \in Seq(Range(items)) /\ Len(shards) = n
  BY SortedAgain DEF Items
<1>2. PICK q \in [1 .. n -> 1 .. n] :
        /\ \A k \in 1 .. n : shards[k] = items[q[k]]
        /\ \A x \in 1 .. n : \E k \in 1 .. n : q[k] = x
        /\ \A j, k \in 1 .. n : j < k => items[q[j]].name < items[q[k]].name
  BY SortedAgain
<1>3. DOMAIN shards = 1 .. n
  BY <1>1
<1>4. Collected = [x \in NamesIn(shards) |-> shards[latest(x)].tensors[x]]
  BY DEF Collected
<1> HIDE DEF shards, n
<1>5. NamesIn(shards) = NamesIn(items)
  <2>1. ASSUME NEW x PROVE x \in NamesIn(shards) <=> x \in NamesIn(items)
    <3>1. x \in NamesIn(shards) <=> \E k \in 1 .. n : x \in DOMAIN shards[k].tensors
      BY <1>3 DEF NamesIn
    <3>2. x \in NamesIn(items) <=> \E k \in 1 .. n : x \in DOMAIN items[k].tensors
      BY <1>1 DEF NamesIn
    <3>3. \A k \in 1 .. n : q[k] \in 1 .. n /\ shards[k] = items[q[k]]
      BY <1>2
    <3>4. ASSUME x \in NamesIn(items) PROVE x \in NamesIn(shards)
      <4>1. PICK h \in 1 .. n : x \in DOMAIN items[h].tensors
        BY <3>2, <3>4
      <4>2. PICK k \in 1 .. n : q[k] = h
        BY <1>2
      <4> QED
        BY <3>1, <3>3, <4>1, <4>2
    <3> QED
      BY <3>1, <3>2, <3>3, <3>4
  <2> QED
    BY <2>1
<1>6. ASSUME NEW x \in NamesIn(items)
      PROVE  shards[latest(x)].tensors[x] = LastTensor(items, x)
  <2>1. Holders(x) \subseteq 0 .. n /\ Holders(x) # {}
    <3>1. \A k \in 1 .. n : k \in 0 .. n
      BY <1>1
    <3>2. \E k \in 1 .. n : x \in DOMAIN shards[k].tensors
      BY <1>3, <1>5, <1>6 DEF NamesIn
    <3> QED
      BY <1>3, <3>1, <3>2
  <2>2. latest(x) \in Holders(x) /\ \A k \in Holders(x) : k <= latest(x)
    <3> HIDE DEF Holders
    <3> QED
      BY <1>1, <2>1, GreatestNatural
  <2>3. PICK m \in 1 .. n : m = latest(x)
    BY <1>3, <2>2
  <2>4. /\ x \in DOMAIN shards[m].tensors
        /\ \A k \in 1 .. n : x \in DOMAIN shards[k].tensors => k <= m
    BY <1>3, <2>2, <2>3
  <2>5. q[m] \in DOMAIN items /\ x \in DOMAIN items[q[m]].tensors
    BY <1>1, <1>2, <2>4
  <2>6. ASSUME NEW h \in DOMAIN items, x \in DOMAIN items[h].tensors
        PROVE  items[h].name <= items[q[m]].name
    <3>1. PICK k \in 1 .. n : q[k] = h
      BY <1>1, <1>2
    <3>2. k <= m
      BY <1>2, <2>4, <2>6, <3>1
    <3>3. CASE k = m
      <4>1. items[h].name \in Nat
        BY DEF NamedApart
      <4> QED
        BY <3>1, <3>3, <4>1
    <3>4. CASE k < m
      <4>1. items[h].name < items[q[m]].name
        BY <1>2, <3>1, <3>4
      <4>2. items[h].name \in Nat /\ items[q[m]].name \in Nat
        BY <2>5 DEF NamedApart
      <4> QED
        BY <4>1, <4>2
    <3> QED
      BY <1>1, <3>2, <3>3, <3>4
  <2>7. LastTensor(items, x) = items[q[m]].tensors[x]
    BY <2>5, <2>6, LastIs
  <2> QED
    BY <1>2, <2>3, <2>7
<1> HIDE DEF latest
<1> QED
  BY <1>4, <1>5, <1>6 DEF SideOf

\* A listing has finitely many tensors.
LEMMA NamesFinite ==
  ASSUME NEW shards, NamedApart(shards),
         \A k \in DOMAIN shards : IsFiniteSet(DOMAIN shards[k].tensors)
  PROVE  IsFiniteSet(NamesIn(shards))
<1> DEFINE T == {DOMAIN shards[k].tensors : k \in DOMAIN shards}
           f == [k \in DOMAIN shards |-> DOMAIN shards[k].tensors]
<1>1. IsFiniteSet(DOMAIN shards)
  <2>1. DOMAIN shards = 1 .. Len(shards) /\ Len(shards) \in Nat
    BY DEF NamedApart, IsList
  <2> QED
    BY <2>1, FS_Interval
<1>2. f \in Surjection(DOMAIN shards, T)
  BY DEF Surjection
<1>3. IsFiniteSet(T)
  BY <1>1, <1>2, FS_Surjection
<1>4. \A S \in T : IsFiniteSet(S)
  OBVIOUS
<1>5. IsFiniteSet(UNION T)
  BY <1>3, <1>4, FS_UNION
<1> QED
  BY <1>5 DEF NamesIn

\* What a comparison of two finite sets of tensors comes to.
LEMMA ComparedIs ==
  ASSUME NEW a, NEW b, IsFiniteSet(DOMAIN a), IsFiniteSet(DOMAIN b)
  PROVE  LET inA == Wanted(DOMAIN a)
             inB == Wanted(DOMAIN b)
             same == {n \in inA \cap inB : a[n] = b[n]}
             c == Compared(a, b)
         IN  /\ c.onlyA = inA \ inB
             /\ c.onlyB = inB \ inA
             /\ c.matching = same
             /\ c.differ = (inA \cap inB) \ same
             /\ c.totalA = Cardinality(inA)
             /\ c.totalB = Cardinality(inB)
<1> DEFINE inA == Wanted(DOMAIN a)
           inB == Wanted(DOMAIN b)
           same == {n \in inA \cap inB : a[n] = b[n]}
           names == {n \in DOMAIN a \cup DOMAIN b :
                       asked.filter = NoFilter \/ n \in asked.filter}
           onlyA == {n \in names : n \notin DOMAIN b}
           onlyB == {n \in names : n \notin DOMAIN a}
           differ == {n \in names \ (onlyA \cup onlyB) : a[n] # b[n]}
           matching == names \ (onlyA \cup onlyB \cup differ)
           Of(S, only) ==
             IF asked.filter = NoFilter THEN Cardinality(S)
             ELSE Cardinality(only) + Cardinality(differ) + Cardinality(matching)
<1>1. Compared(a, b) =
        [onlyA |-> onlyA, onlyB |-> onlyB, differ |-> differ, matching |-> matching,
         totalA |-> Of(DOMAIN a, onlyA), totalB |-> Of(DOMAIN b, onlyB)]
  BY DEF Compared
<1>2. \A n : /\ n \in inA <=> n \in DOMAIN a /\ (asked.filter = NoFilter \/ n \in asked.filter)
             /\ n \in inB <=> n \in DOMAIN b /\ (asked.filter = NoFilter \/ n \in asked.filter)
  BY DEF Wanted
<1> HIDE DEF inA, inB
<1>3. onlyA = inA \ inB /\ onlyB = inB \ inA
  BY <1>2
<1>4. matching = same /\ differ = (inA \cap inB) \ same
  BY <1>2
<1>5. \A n : n \in names <=> n \in inA \/ n \in inB
  BY <1>2
<1>7. ASSUME NEW S, NEW only, IsFiniteSet(S),
             only \cup differ \cup matching = S, only \cap (differ \cup matching) = {}
      PROVE  Cardinality(only) + Cardinality(differ) + Cardinality(matching) = Cardinality(S)
  <2>1. differ \cap matching = {}
    OBVIOUS
  <2> HIDE DEF differ, matching
  <2>2. IsFiniteSet(only) /\ IsFiniteSet(differ) /\ IsFiniteSet(matching)
    <3>1. only \in SUBSET S /\ differ \in SUBSET S /\ matching \in SUBSET S
      BY <1>7
    <3> QED
      BY <1>7, <3>1, FS_Subset
  <2>3. /\ IsFiniteSet(differ \cup matching)
        /\ Cardinality(differ \cup matching)
             = Cardinality(differ) + Cardinality(matching) - Cardinality({})
    BY <2>1, <2>2, FS_Union
  <2>4. Cardinality(only \cup (differ \cup matching))
          = Cardinality(only) + Cardinality(differ \cup matching) - Cardinality({})
    BY <1>7, <2>2, <2>3, FS_Union
  <2>5. only \cup (differ \cup matching) = S
    BY <1>7
  <2>6. /\ Cardinality({}) = 0 /\ Cardinality(only) \in Nat
        /\ Cardinality(differ) \in Nat /\ Cardinality(matching) \in Nat
    BY <2>2, FS_EmptySet, FS_CardinalityType
  <2>7. Cardinality(differ \cup matching) = Cardinality(differ) + Cardinality(matching)
    BY <2>3, <2>6
  <2>8. Cardinality(S) = Cardinality(only) + Cardinality(differ \cup matching) - Cardinality({})
    BY <2>4, <2>5
  <2> QED
    BY <2>6, <2>7, <2>8
<1>8. Of(DOMAIN a, onlyA) = Cardinality(inA)
  <2>1. CASE asked.filter = NoFilter
    <3>1. inA = DOMAIN a
      BY <1>2, <2>1
    <3> QED
      BY <2>1, <3>1
  <2>2. CASE asked.filter # NoFilter
    <3>1. inA \in SUBSET DOMAIN a
      BY <1>2
    <3>2. IsFiniteSet(inA)
      BY <3>1, FS_Subset
    <3>3. onlyA \cup differ \cup matching = inA /\ onlyA \cap (differ \cup matching) = {}
      BY <1>3, <1>4
    <3>4. Cardinality(onlyA) + Cardinality(differ) + Cardinality(matching) = Cardinality(inA)
      BY <1>7, <3>2, <3>3
    <3> QED
      BY <2>2, <3>4
  <2> QED
    BY <2>1, <2>2
<1>9. Of(DOMAIN b, onlyB) = Cardinality(inB)
  <2>1. CASE asked.filter = NoFilter
    <3>1. inB = DOMAIN b
      BY <1>2, <2>1
    <3> QED
      BY <2>1, <3>1
  <2>2. CASE asked.filter # NoFilter
    <3>1. inB \in SUBSET DOMAIN b
      BY <1>2
    <3>2. IsFiniteSet(inB)
      BY <3>1, FS_Subset
    <3>3. onlyB \cup differ \cup matching = inB /\ onlyB \cap (differ \cup matching) = {}
      BY <1>3, <1>4
    <3>4. Cardinality(onlyB) + Cardinality(differ) + Cardinality(matching) = Cardinality(inB)
      BY <1>7, <3>2, <3>3
    <3> QED
      BY <2>2, <3>4
  <2> QED
    BY <2>1, <2>2
<1> HIDE DEF onlyA, onlyB, differ, matching, Of, same
<1>10. /\ Compared(a, b).onlyA = onlyA /\ Compared(a, b).onlyB = onlyB
       /\ Compared(a, b).differ = differ /\ Compared(a, b).matching = matching
       /\ Compared(a, b).totalA = Of(DOMAIN a, onlyA)
       /\ Compared(a, b).totalB = Of(DOMAIN b, onlyB)
  BY <1>1
<1> QED
  BY <1>3, <1>4, <1>8, <1>9, <1>10 DEF same, inA, inB

\* The answer of a diff, and the side that is kept until then.
LEMMA DiffKeeps ==
  ASSUME InspectionInv, SideCollected
  PROVE  /\ DiffIsOfTheContents'
         /\ stage = "shards of A" => side' = SideOf(asked.a)
<1>1. IsDiff /\ FailFast /\ MayReturn /\ error = Nothing /\ asked' = asked
  BY DEF SideCollected, FailFast
<1>2. asked \in Diffs /\ asked' \in Diffs
  BY <1>1 DEF IsDiff
<1>3. /\ NamedApart(asked.a) /\ NamedApart(asked.b)
      /\ \A k \in DOMAIN asked.a : IsFiniteSet(DOMAIN asked.a[k].tensors)
      /\ \A k \in DOMAIN asked.b : IsFiniteSet(DOMAIN asked.b[k].tensors)
  BY <1>2, DiffsAssumption
<1>4. /\ stage = "shards of A" => items = asked.a
      /\ stage = "shards of B" => items = asked.b /\ side = SideOf(asked.a)
  BY DEF InspectionInv, WorkOK, KeptOK
<1>5. Collected = SideOf(items)
  BY <1>1, <1>3, <1>4, CollectedIs DEF FailFast
<1>6. CASE stage = "shards of A"
  <2>1. side' = SideOf(asked.a) /\ stage' # "answered"
    BY <1>4, <1>5, <1>6 DEF SideCollected
  <2> QED
    BY <2>1 DEF DiffIsOfTheContents
<1>7. CASE stage = "shards of B"
  <2>1. SUFFICES ASSUME stage' = "answered" PROVE DiffIsOfTheContents'
    BY <1>7 DEF DiffIsOfTheContents
  <2> DEFINE a == SideOf(asked.a)
             b == SideOf(asked.b)
             c == Compared(a, b)
  <2>2. answer' = c
    BY <1>4, <1>5, <1>7, <2>1 DEF SideCollected, Diff, Answers
  <2>3. /\ DOMAIN a = NamesIn(asked.a) /\ DOMAIN b = NamesIn(asked.b)
        /\ \A n \in NamesIn(asked.a) : a[n] = LastTensor(asked.a, n)
        /\ \A n \in NamesIn(asked.b) : b[n] = LastTensor(asked.b, n)
    BY DEF SideOf
  <2>4. IsFiniteSet(DOMAIN a) /\ IsFiniteSet(DOMAIN b)
    BY <1>3, <2>3, NamesFinite
  <2> HIDE DEF a, b
  <2> DEFINE inA == Wanted(NamesIn(asked.a))
             inB == Wanted(NamesIn(asked.b))
             same == {n \in inA \cap inB : LastTensor(asked.a, n) = LastTensor(asked.b, n)}
  <2>5. same = {n \in inA \cap inB : a[n] = b[n]}
    <3>1. \A n \in inA \cap inB : n \in NamesIn(asked.a) /\ n \in NamesIn(asked.b)
      BY DEF Wanted
    <3> QED
      BY <2>3, <3>1
  <2>6. /\ c.onlyA = inA \ inB
        /\ c.onlyB = inB \ inA
        /\ c.matching = same
        /\ c.differ = (inA \cap inB) \ same
        /\ c.totalA = Cardinality(inA)
        /\ c.totalB = Cardinality(inB)
    BY <2>3, <2>4, <2>5, ComparedIs
  <2>7. /\ Wanted(NamesIn(asked.a))' = inA /\ Wanted(NamesIn(asked.b))' = inB
        /\ \A n : LastTensor(asked.a, n)' = LastTensor(asked.a, n)
        /\ \A n : LastTensor(asked.b, n)' = LastTensor(asked.b, n)
    BY <1>1 DEF Wanted, NamesIn, LastTensor
  <2> HIDE DEF c, inA, inB
  <2> QED
    BY <2>2, <2>6, <2>7 DEF DiffIsOfTheContents
<1> QED
  BY <1>6, <1>7 DEF SideCollected

-----------------------------------------------------------------------------
(* quants: the rows.                                                        *)

\* A file of a repository, and a row.
RowType == [gguf : BOOLEAN, size : Nat, layers : Seq(Nat)]

\* What a repository gives are rows.
LEMMA RowsOfType ==
  ASSUME NEW repo, repo.files \in Seq(RowType)
  PROVE  RowsOf(repo) \in Seq(RowType)
<1> DEFINE files == repo.files
           at == {k \in DOMAIN files : files[k].gguf}
           sizes == [k \in DOMAIN files |-> files[k].size]
           ggufs == TakenAt(files, at)
           total == SumOver(files, LAMBDA f : f.size)
           whole == [gguf |-> FALSE, size |-> total, layers |-> <<>>]
<1>1. /\ IsFiniteSet(DOMAIN files)
      /\ \A k \in DOMAIN files : files[k] \in RowType
  BY FiniteDomain
<1>2. ggufs \in Seq(RowType)
  BY TakenAtIs
<1>3. total \in Nat
  <2>1. total = Sum(sizes)
    BY DEF SumOver
  <2>2. \A k \in DOMAIN files : sizes[k] \in Nat
    BY <1>1 DEF RowType
  <2>3. DOMAIN sizes = DOMAIN files
    OBVIOUS
  <2> HIDE DEF sizes, total
  <2> QED
    BY <1>1, <2>1, <2>2, <2>3, SumNatural
<1>4. whole \in RowType
  <2>1. <<>> \in Seq(Nat)
    BY EmptyIsSeq
  <2> HIDE DEF total
  <2> QED
    BY <1>3, <2>1 DEF RowType
<1>5. RowsOf(repo) = CASE ggufs # <<>> -> ggufs
                       [] ggufs = <<>> /\ total > 0 -> <<whole>>
                       [] OTHER -> <<>>
  BY DEF RowsOf
<1> HIDE DEF whole, total, ggufs
<1>6. <<whole>> \in Seq(RowType)
  BY <1>4
<1>7. CASE ggufs # <<>>
  BY <1>2, <1>5, <1>7
<1>8. CASE ggufs = <<>> /\ total > 0
  BY <1>5, <1>6, <1>8
<1>9. CASE ggufs = <<>> /\ ~(total > 0)
  BY <1>5, <1>9, EmptyIsSeq
<1> QED
  BY <1>7, <1>8, <1>9

\* What was joined of the repositories that were found.
LEMMA QuantRowsType ==
  ASSUME InspectionInv, stage = "siblings"
  PROVE  QuantRows \in Seq(RowType)
<1> DEFINE E == Range(items)
           ids == [k \in DOMAIN Kept |-> Kept[k].id]
           siblings == SortedBy(Kept, ids)
           parts == [k \in DOMAIN siblings |-> RowsOf(siblings[k])]
           all == FlattenSeq(parts)
           sizes == [k \in DOMAIN all |-> all[k].size]
<1>1. asked \in Searches /\ items = asked.found /\ JoinedOK
  BY DEF InspectionInv, StageOK, WorkOK, IsQuants, FansOut
<1>2. /\ items \in Seq(E)
      /\ \A repo \in E : repo.id \in Nat /\ repo.files \in Seq(RowType)
  BY <1>1, SearchesAssumption DEF IsList, RowType
<1>3. /\ DOMAIN joined = 1 .. Len(joined) /\ Len(joined) \in Nat
      /\ \A k \in DOMAIN joined : joined[k] \in Items
  BY <1>1, FiniteDomain DEF JoinedOK
<1>4. Kept \in Seq(E)
  <2>1. Kept = [k \in 1 .. Len(joined) |-> items[joined[k]]]
    BY <1>3 DEF Kept
  <2>2. \A k \in 1 .. Len(joined) : items[joined[k]] \in E
    BY <1>3 DEF Items, Range
  <2> HIDE DEF E
  <2> QED
    BY <1>3, <2>1, <2>2
<1> HIDE DEF E
<1>5. ids \in [DOMAIN Kept -> Nat]
  <2>1. \A k \in DOMAIN Kept : Kept[k] \in E
    BY <1>4, FiniteDomain
  <2> QED
    BY <1>2, <2>1
<1>6. siblings \in Seq(E)
  <2> HIDE DEF ids
  <2> QED
    BY <1>4, <1>5, SortedByIs
<1> HIDE DEF siblings
<1>7. parts \in Seq(Seq(RowType))
  <2>1. /\ DOMAIN siblings = 1 .. Len(siblings) /\ Len(siblings) \in Nat
        /\ \A k \in DOMAIN siblings : siblings[k] \in E
    BY <1>6, FiniteDomain
  <2>2. \A k \in DOMAIN siblings : RowsOf(siblings[k]) \in Seq(RowType)
    BY <1>2, <2>1, RowsOfType
  <2> QED
    BY <2>1, <2>2
<1>8. all \in Seq(RowType)
  <2> HIDE DEF parts
  <2> QED
    BY <1>7, FlatType
<1>9. QuantRows = SortedBy(all, sizes)
  BY DEF QuantRows, siblings
<1> HIDE DEF all
<1>10. sizes \in [DOMAIN all -> Nat]
  <2>1. \A k \in DOMAIN all : all[k] \in RowType
    BY <1>8, FiniteDomain
  <2> QED
    BY <2>1 DEF RowType
<1> HIDE DEF sizes
<1> QED
  BY <1>8, <1>9, <1>10, SortedByIs

\* The rows in doubt are listed once each, with their places.
LEMMA DoubtfulIs ==
  ASSUME NEW table \in Seq(RowType)
  PROVE  /\ IsList(Doubtful(table))
         /\ \A i \in DOMAIN Doubtful(table) :
              LET w == Doubtful(table)[i]
              IN  /\ w.index \in DOMAIN table /\ w.row = table[w.index]
                  /\ InDoubt(w.row)
         /\ \A i, j \in DOMAIN Doubtful(table) :
              Doubtful(table)[i].index = Doubtful(table)[j].index => i = j
         /\ \A k \in DOMAIN table : InDoubt(table[k]) =>
              \E i \in DOMAIN Doubtful(table) : Doubtful(table)[i].index = k
<1> DEFINE S == {k \in DOMAIN table : InDoubt(table[k])}
           n == Cardinality(S)
           at == Ascending(S)
           w == [k \in DOMAIN at |-> [index |-> at[k], row |-> table[at[k]]]]
<1>1. Doubtful(table) = w
  BY DEF Doubtful
<1>2. IsFiniteSet(S) /\ S \subseteq Int
  <2>1. /\ IsFiniteSet(DOMAIN table) /\ S \in SUBSET DOMAIN table
        /\ DOMAIN table = 1 .. Len(table) /\ Len(table) \in Nat
    BY FiniteDomain
  <2> QED
    BY <2>1, FS_Subset
<1>3. \A k : k \in S <=> k \in DOMAIN table /\ InDoubt(table[k])
  OBVIOUS
<1> HIDE DEF S
<1>4. /\ n \in Nat /\ at \in [1 .. n -> S]
      /\ \A s \in S : \E k \in 1 .. n : at[k] = s
      /\ \A j, k \in 1 .. n : at[j] = at[k] => j = k
  BY <1>2, AscendingIs
<1> HIDE DEF at, n
<1>5. DOMAIN at = 1 .. n /\ \A k \in 1 .. n : at[k] \in S
  BY <1>4
<1>6. /\ DOMAIN w = 1 .. n
      /\ \A k \in 1 .. n : w[k].index = at[k] /\ w[k].row = table[at[k]]
  BY <1>5
<1>7. w \in Seq(Range(w))
  <2>1. \A k \in 1 .. n : w[k] \in Range(w)
    BY <1>5 DEF Range
  <2>2. w = [k \in 1 .. n |-> w[k]]
    BY <1>5
  <2> HIDE DEF w
  <2> QED
    BY <1>4, <2>1, <2>2
<1> HIDE DEF w
<1>8. IsList(Doubtful(table))
  BY <1>1, <1>7 DEF IsList
<1>9. \A i \in 1 .. n : /\ w[i].index \in DOMAIN table /\ w[i].row = table[w[i].index]
                        /\ InDoubt(w[i].row)
  BY <1>3, <1>5, <1>6
<1>10. \A i, j \in 1 .. n : w[i].index = w[j].index => i = j
  BY <1>4, <1>6
<1>11. \A k \in DOMAIN table : InDoubt(table[k]) => \E i \in 1 .. n : w[i].index = k
  BY <1>3, <1>4, <1>6
<1> QED
  BY <1>1, <1>6, <1>8, <1>9, <1>10, <1>11

-----------------------------------------------------------------------------
(* quants: the verdicts.                                                    *)

\* The least number of layers of weight p that make up for what is short.
LEMMA LayersToMoveIs ==
  ASSUME NEW short \in Nat \ {0}, NEW p \in Nat \ {0}
  PROVE  /\ LayersToMove(short, p) \in Nat
         /\ \A m \in Nat : short <= m * p <=> LayersToMove(short, p) <= m
<1> DEFINE d == (short + p - 1) \div p
<1>1. short + p - 1 \in Nat
  OBVIOUS
<1>2. d \in Nat /\ d * p <= short + p - 1 /\ short + p - 1 < d * p + p
  BY <1>1, QuotientIs
<1>3. LayersToMove(short, p) = d
  BY DEF LayersToMove, CeilDiv
<1> HIDE DEF d
<1>4. d * p \in Nat /\ short <= d * p /\ d * p < short + p
  BY <1>2
<1>5. ASSUME NEW m \in Nat, d <= m PROVE short <= m * p
  <2>1. d * p <= m * p /\ m * p \in Nat
    BY <1>2, <1>5, ProductGrows
  <2> QED
    BY <1>4, <2>1
<1>6. ASSUME NEW m \in Nat, m < d PROVE ~(short <= m * p)
  <2>1. (m + 1) * p <= d * p
    BY <1>2, <1>6, ProductGrows
  <2>2. (m + 1) * p = m * p + p /\ m * p \in Nat
    OBVIOUS
  <2> QED
    BY <1>4, <2>1, <2>2
<1>7. \A m \in Nat : short <= m * p <=> d <= m
  BY <1>2, <1>5, <1>6
<1> QED
  BY <1>2, <1>3, <1>7

\* The least of a set of numbers is the one no other is below.
LEMMA LeastOne ==
  ASSUME NEW S, NEW x \in S, \A y \in S : y \in Nat /\ x <= y
  PROVE  Min(S) = x
<1>1. \E z \in S : \A y \in S : z <= y
  OBVIOUS
<1>2. Min(S) \in S /\ \A y \in S : Min(S) <= y
  BY <1>1 DEF Min
<1>3. Min(S) \in Nat /\ x \in Nat /\ Min(S) <= x /\ x <= Min(S)
  BY <1>2
<1> QED
  BY <1>3

\* The ceiling of a budget is a natural number.
LEMMA CeilingType ==
  ASSUME asked \in Searches PROVE Ceiling \in Nat
<1>1. asked.budget \in Nat /\ asked.reserve \in Nat
  BY SearchesAssumption
<1> QED
  BY <1>1 DEF Ceiling

\* What a header says of a row in doubt is the right verdict on it.
LEMMA HeaderVerdict ==
  ASSUME asked \in Searches, NEW row \in RowType, InDoubt(row)
  PROVE  FromHeader(row) = RightVerdict(row)
<1> DEFINE c == Len(row.layers)
           total == Sum(row.layers)
           p == total \div c
           short == row.size - Ceiling
           w == LayersToMove(short, p)
           enough == EnoughLayers(row)
<1>1. /\ row.size \in Nat /\ row.layers \in Seq(Nat) /\ row.gguf
      /\ Ceiling \in Nat /\ row.size > Ceiling
  BY CeilingType DEF RowType, InDoubt
<1>2. c \in Nat /\ total \in Nat
  <2>1. /\ IsFiniteSet(DOMAIN row.layers) /\ c \in Nat
        /\ \A k \in DOMAIN row.layers : row.layers[k] \in Nat
    BY <1>1, FiniteDomain
  <2> QED
    BY <2>1, SumNatural
<1>3. short \in Nat \ {0}
  BY <1>1
<1> HIDE DEF c, total
<1>4. ~(row.size <= Ceiling)
  BY <1>1
<1>5. c < 2 \/ p = 0 => RightVerdict(row) = [is |-> "no experts"]
  BY <1>1, <1>4 DEF RightVerdict, c, total
<1>6. NoExperts(row) <=> c < 2 \/ total < c
  BY DEF NoExperts, c, total
<1>7. CASE c < 2
  BY <1>7, <1>5, <1>6 DEF FromHeader
<1>8. CASE ~(c < 2) /\ total < c
  <2>1. c \in Nat \ {0}
    BY <1>2, <1>8
  <2>2. p = 0
    BY <1>2, <1>8, <2>1, QuotientIsZero
  <2> QED
    BY <1>8, <1>5, <1>6, <2>2 DEF FromHeader
<1>9. CASE ~(c < 2) /\ ~(total < c)
  <2>1. c \in Nat \ {0}
    BY <1>2, <1>9
  <2>2. p \in Nat \ {0}
    BY <1>2, <1>9, <2>1, QuotientIs, QuotientIsZero
  <2> HIDE DEF p, short
  <2>3. /\ w \in Nat /\ \A m \in Nat : short <= m * p <=> w <= m
    BY <1>3, <2>2, LayersToMoveIs
  <2> HIDE DEF w
  <2>4. \A m \in Nat : row.size - m * p <= Ceiling <=> w <= m
    <3>1. TAKE m \in Nat
    <3>2. m * p \in Nat
      BY <2>2
    <3>3. row.size - m * p <= Ceiling <=> short <= m * p
      BY <1>1, <3>2 DEF short
    <3> QED
      BY <2>3, <3>3
  <2>5. enough = {m \in 0 .. c : w <= m}
    <3>1. enough = {m \in 0 .. c : row.size - m * p <= Ceiling}
      BY DEF EnoughLayers, p, c, total
    <3>2. \A m \in 0 .. c : m \in Nat
      BY <1>2
    <3> QED
      BY <2>4, <3>1, <3>2
  <2> HIDE DEF enough
  <2>6. ~NoExperts(row)
    BY <1>9, <1>6
  <2>7. FromHeader(row) =
          LET n == IF w < c THEN w ELSE c
          IN  IF row.size - n * p > Ceiling THEN [is |-> "does not fit"]
              ELSE [is |-> "offload", layers |-> n, resident |-> row.size - n * p]
    BY <2>6 DEF FromHeader, OffloadPlan, w, p, c, total, short
  <2>8. RightVerdict(row) =
          IF enough = {} THEN [is |-> "does not fit"]
          ELSE [is |-> "offload", layers |-> Min(enough),
                resident |-> row.size - Min(enough) * p]
    <3>1. ~(row.size <= Ceiling) /\ ~(c < 2) /\ p # 0
      BY <1>1, <1>9, <2>2
    <3> QED
      BY <1>1, <3>1 DEF RightVerdict, p, c, total, enough
  <2>9. CASE w <= c
    <3>1. w \in enough /\ \A m \in enough : m \in Nat /\ w <= m
      BY <1>2, <2>3, <2>5, <2>9
    <3>2. Min(enough) = w
      BY <3>1, LeastOne
    <3>3. row.size - w * p <= Ceiling
      BY <2>3, <2>4
    <3>4. (IF w < c THEN w ELSE c) = w
      BY <1>2, <2>3, <2>9
    <3>5. ~(row.size - w * p > Ceiling)
      <4>1. w * p \in Nat
        BY <2>2, <2>3
      <4> QED
        BY <1>1, <3>3, <4>1
    <3> QED
      BY <2>7, <2>8, <3>1, <3>2, <3>4, <3>5
  <2>10. CASE ~(w <= c)
    <3>1. enough = {}
      <4>1. \A m \in 0 .. c : ~(w <= m)
        BY <1>2, <2>3, <2>10
      <4> QED
        BY <2>5, <4>1
    <3>2. (IF w < c THEN w ELSE c) = c
      BY <1>2, <2>3, <2>10
    <3>3. row.size - c * p > Ceiling
      <4>1. c * p \in Nat
        BY <1>2, <2>2
      <4>2. ~(row.size - c * p <= Ceiling)
        BY <1>2, <2>4, <2>10
      <4> QED
        BY <1>1, <4>1, <4>2
    <3> QED
      BY <2>7, <2>8, <3>1, <3>2, <3>3
  <2> QED
    BY <2>9, <2>10
<1> QED
  BY <1>7, <1>8, <1>9

\* The verdicts are those of the rows.
LEMMA VerdictsKeep ==
  ASSUME InspectionInv, VerdictsGiven
  PROVE  VerdictsAreTheRows'
<1>1. /\ TasksOK /\ ErrorsOK /\ AllJoined
      /\ asked \in Searches /\ items = Doubtful(rows) /\ rows \in Seq(RowType)
      /\ stage = "verdicts"
  BY DEF InspectionInv, StageOK, WorkOK, KeptOK, IsQuants, FansOut, VerdictsGiven, MayReturn,
         RowType
<1>2. /\ UNCHANGED <<asked, items, task, out, rows>>
      /\ answer' = [k \in DOMAIN rows |-> Verdict(k)]
  BY DEF VerdictsGiven, Answers, fanOut
<1>3. ~FailFast
  BY <1>1 DEF FailFast
<1>4. \A i \in Items : out[i] \in {"ok", "err", "panic"}
  <2>1. TAKE i \in Items
  <2>2. out[i] \in Outcomes /\ out[i] # "pending"
    BY <1>1 DEF TasksOK, AllJoined
  <2>3. out[i] # "skipped" /\ out[i] # "unchecked"
    BY <1>1, <1>3 DEF ErrorsOK
  <2> QED
    BY <2>2, <2>3 DEF Outcomes
<1>5. ASSUME NEW k \in DOMAIN rows
      PROVE  \/ Verdict(k) = RightVerdict(rows[k])
             \/ \E i \in Items :
                  /\ items[i].index = k
                  /\ \/ out[i] = "err" /\ Verdict(k) = [is |-> "plan unavailable"]
                     \/ out[i] = "panic" /\ Verdict(k) = [is |-> "did not run"]
  <2>1. rows[k] \in RowType
    BY <1>1, FiniteDomain
  <2>2. CASE ~InDoubt(rows[k])
    <3>1. ItemOf(k) = {}
      <4>1. \A i \in Items : InDoubt(items[i].row) /\ items[i].row = rows[items[i].index]
        BY <1>1, DoubtfulIs DEF Items
      <4> QED
        BY <2>2, <4>1 DEF ItemOf
    <3>2. Ceiling \in Nat /\ rows[k].size \in Nat
      BY <1>1, <2>1, CeilingType DEF RowType
    <3>3. rows[k].size <= Ceiling \/ ~rows[k].gguf
      BY <2>2, <3>2 DEF InDoubt
    <3> QED
      BY <3>1, <3>3 DEF Verdict, Trivial, RightVerdict
  <2>3. CASE InDoubt(rows[k])
    <3>1. PICK i \in Items : items[i].index = k
      BY <1>1, <2>3, DoubtfulIs DEF Items
    <3>2. items[i].row = rows[k]
      BY <1>1, <3>1, DoubtfulIs DEF Items
    <3>3. \A j \in Items : items[j].index = k => j = i
      BY <1>1, <3>1, DoubtfulIs DEF Items
    <3>4. ItemOf(k) = {i}
      BY <3>1, <3>3 DEF ItemOf
    <3>5. Verdict(k) = Slot(i)
      BY <3>4 DEF Verdict
    <3>6. CASE out[i] = "ok"
      <4>1. Slot(i) = FromHeader(rows[k])
        BY <3>2, <3>6 DEF Slot
      <4> QED
        BY <1>1, <2>1, <2>3, <3>5, <4>1, HeaderVerdict
    <3>7. CASE out[i] = "err"
      BY <3>1, <3>5, <3>7 DEF Slot
    <3>8. CASE out[i] = "panic"
      BY <3>1, <3>5, <3>8 DEF Slot
    <3> QED
      BY <1>4, <3>6, <3>7, <3>8
  <2> QED
    BY <2>2, <2>3
<1>6. /\ DOMAIN answer' = DOMAIN rows
      /\ \A k \in DOMAIN rows : answer'[k] = Verdict(k)
  BY <1>2
<1>7. \A k \in DOMAIN rows : RightVerdict(rows[k])' = RightVerdict(rows[k])
  BY <1>2 DEF RightVerdict, EnoughLayers, Ceiling
<1>8. Items' = Items
  BY <1>2 DEF Items
<1> QED
  BY <1>2, <1>5, <1>6, <1>7, <1>8 DEF VerdictsAreTheRows

-----------------------------------------------------------------------------
(* inspect: the weights.                                                    *)

\* A tensor whose offsets give it a length.
IsTensor(t) == t.bytes \in Nat

\* What such a tensor weighs is a natural number.
LEMMA BytesNatural ==
  ASSUME NEW t, IsTensor(t) PROVE BytesOf(t) \in Nat
BY DEF IsTensor, BytesOf

\* The weight of a model adds up what its tensors weigh.
LEMMA WeightsAre ==
  ASSUME NEW T, NEW s \in Seq(T), NEW g, \A t \in T : g[t] = BytesOf(t)
  PROVE  Weights(s) = WeighedBy(g, s)
<1>1. \A k \in DOMAIN s : s[k] \in T
  BY FiniteDomain
<1>2. [k \in DOMAIN s |-> BytesOf(s[k])] = [k \in DOMAIN s |-> g[s[k]]]
  BY <1>1
<1>3. Weights(s) = Sum([k \in DOMAIN s |-> BytesOf(s[k])])
  BY DEF Weights, SumOver
<1> QED
  BY <1>2, <1>3, SumIs DEF WeighedBy

\* A sequence of some things is one of more.
LEMMA SeqWidens ==
  ASSUME NEW R, NEW T, R \subseteq T, NEW s, s \in Seq(R) PROVE s \in Seq(T)
OBVIOUS

\* A permutation of the first n numbers.
Permutes(q, n) ==
  /\ n \in Nat
  /\ \A k \in 1 .. n : q[k] \in 1 .. n
  /\ \A x \in 1 .. n : \E k \in 1 .. n : q[k] = x
  /\ \A j, k \in 1 .. n : q[j] = q[k] => j = k

\* A sum does not depend on the order of what is added up.
LEMMA SumPermuted ==
  ASSUME NEW n, NEW q, NEW F, NEW G, Permutes(q, n),
         \A k \in 1 .. n : F[k] = G[q[k]] /\ G[k] \in Nat
  PROVE  SumOf(F, 1 .. n) = SumOf(G, 1 .. n)
<1> DEFINE N == 1 .. n
<1>1. IsFiniteSet(N) /\ \A x, y \in N : q[x] = q[y] => x = y
  BY FirstNumbers DEF Permutes
<1>2. {q[k] : k \in N} = N
  BY DEF Permutes
<1>3. \A k \in N : F[k] = G[q[k]] /\ G[q[k]] \in Int
  BY DEF Permutes
<1> HIDE DEF N
<1>4. SumOf(F, N) = SumOf(G, {q[k] : k \in N})
  BY <1>1, <1>3, SumMoved
<1> QED
  BY <1>2, <1>4 DEF N

\* The same n elements in another order: the k-th is the q[k]-th of the others.
Reordered(shards, given, n, q) ==
  /\ given \in Seq(Range(given)) /\ shards \in Seq(Range(given))
  /\ Permutes(q, n) /\ Len(given) = n /\ Len(shards) = n
  /\ \A k \in 1 .. n : shards[k] = given[q[k]]

\* The headers of shards are lists of tensors.
Readable(shards) ==
  \A k \in DOMAIN shards :
    IsList(shards[k].header) /\ \A t \in Range(shards[k].header) : IsTensor(t)

\* What some shards weigh does not depend on their order.
LEMMA WeightsAreAlike ==
  ASSUME NEW given, NEW shards, NEW n, NEW q, Reordered(shards, given, n, q),
         Readable(given)
  PROVE  /\ Weights(Flat(shards)) = Weights(Flat(given))
         /\ Weights(Flat(given)) \in Nat
<1> DEFINE T == UNION {Range(given[k].header) : k \in 1 .. n}
           g == [t \in T |-> BytesOf(t)]
           hs == [k \in DOMAIN shards |-> shards[k].header]
           hg == [k \in DOMAIN given |-> given[k].header]
           F == [k \in 1 .. Len(hs) |-> WeighedBy(g, hs[k])]
           G == [k \in 1 .. Len(hg) |-> WeighedBy(g, hg[k])]
<1>1. /\ DOMAIN shards = 1 .. n /\ DOMAIN given = 1 .. n /\ n \in Nat
      /\ \A k \in 1 .. n : q[k] \in 1 .. n /\ shards[k] = given[q[k]]
  <2>1. n \in Nat /\ \A k \in 1 .. n : q[k] \in 1 .. n /\ shards[k] = given[q[k]]
    BY DEF Reordered, Permutes
  <2>2. DOMAIN shards = 1 .. n /\ DOMAIN given = 1 .. n
    BY DEF Reordered, Permutes
  <2> QED
    BY <2>1, <2>2
<1>2. \A k \in 1 .. n : given[k].header \in Seq(T)
  <2>1. TAKE k \in 1 .. n
  <2>2. Range(given[k].header) \subseteq T
    OBVIOUS
  <2>3. given[k].header \in Seq(Range(given[k].header))
    BY <1>1 DEF IsList, Readable
  <2> HIDE DEF T
  <2> QED
    BY <2>2, <2>3, SeqWidens
<1>3. g \in [T -> Nat] /\ \A t \in T : g[t] = BytesOf(t)
  <2>1. \A t \in T : BytesOf(t) \in Nat
    BY <1>1, BytesNatural DEF Readable
  <2> HIDE DEF T
  <2> QED
    BY <2>1
<1> HIDE DEF T, g
<1>4. hg \in Seq(Seq(T)) /\ Len(hg) = n /\ \A k \in 1 .. n : hg[k] = given[k].header
  BY <1>1, <1>2
<1>5. /\ hs \in Seq(Seq(T)) /\ Len(hs) = n
      /\ \A k \in 1 .. n : hs[k] = given[q[k]].header
  <2>1. \A k \in 1 .. n : shards[k].header \in Seq(T) /\ shards[k].header = given[q[k]].header
    BY <1>1, <1>2
  <2>2. hs = [k \in 1 .. n |-> shards[k].header]
    BY <1>1
  <2>3. \A k \in 1 .. n : hs[k] = given[q[k]].header
    BY <2>1, <2>2
  <2>4. [k \in 1 .. n |-> shards[k].header] \in Seq(Seq(T))
    <3>1. n \in Nat /\ \A k \in 1 .. n : shards[k].header \in Seq(T)
      BY <1>1, <2>1
    <3> QED
      BY <3>1
  <2>5. Len([k \in 1 .. n |-> shards[k].header]) = n
    BY <1>1
  <2> QED
    BY <2>2, <2>3, <2>4, <2>5
<1>6. Flat(shards) = FlattenSeq(hs) /\ Flat(given) = FlattenSeq(hg)
  BY DEF Flat
<1> HIDE DEF hs, hg
<1>7. FlattenSeq(hs) \in Seq(T) /\ FlattenSeq(hg) \in Seq(T)
  BY <1>4, <1>5, FlatType
<1>8. /\ Weights(Flat(shards)) = WeighedBy(g, FlattenSeq(hs))
      /\ Weights(Flat(given)) = WeighedBy(g, FlattenSeq(hg))
  <2>1. \A s \in Seq(T) : Weights(s) = WeighedBy(g, s)
    <3>1. \A t \in T : g[t] = BytesOf(t)
      BY <1>3
    <3>2. TAKE s \in Seq(T)
    <3> QED
      BY <3>1, WeightsAre
  <2> QED
    BY <1>6, <1>7, <2>1
<1>9. /\ WeighedBy(g, FlattenSeq(hs)) = SumOf(F, 1 .. n)
      /\ WeighedBy(g, FlattenSeq(hg)) = SumOf(G, 1 .. n)
  <2>1. /\ g \in [T -> Nat] /\ hs \in Seq(Seq(T)) /\ hg \in Seq(Seq(T))
        /\ Len(hs) = n /\ Len(hg) = n
    BY <1>3, <1>4, <1>5
  <2>2. g \in [T -> Nat] /\ hs \in Seq(Seq(T))
    BY <2>1
  <2>3. WeighedBy(g, FlattenSeq(hs)) = SumOf(F, 1 .. Len(hs))
    BY <2>2, WeighedFlat
  <2>4. g \in [T -> Nat] /\ hg \in Seq(Seq(T))
    BY <2>1
  <2>5. WeighedBy(g, FlattenSeq(hg)) = SumOf(G, 1 .. Len(hg))
    BY <2>4, WeighedFlat
  <2> QED
    BY <2>1, <2>3, <2>5
<1>10. \A k \in 1 .. n : F[k] = G[q[k]] /\ G[k] \in Nat
  <2>1. \A k \in 1 .. n : hs[k] = hg[q[k]] /\ hg[k] \in Seq(T)
    BY <1>1, <1>2, <1>4, <1>5
  <2>2. \A k \in 1 .. n : WeighedBy(g, hg[k]) \in Nat
    BY <1>3, <2>1, WeighedType
  <2> QED
    BY <1>1, <1>4, <1>5, <2>1, <2>2
<1> HIDE DEF F, G
<1>11. SumOf(F, 1 .. n) = SumOf(G, 1 .. n)
  <2>1. Permutes(q, n)
    BY DEF Reordered
  <2> QED
    BY <1>10, <2>1, SumPermuted
<1>12. SumOf(G, 1 .. n) \in Nat
  <2>1. IsFiniteSet(1 .. n) /\ \A k \in 1 .. n : G[k] \in Nat
    BY <1>1, <1>10, FirstNumbers
  <2> QED
    BY <2>1, SumNat
<1> QED
  BY <1>8, <1>9, <1>11, <1>12

-----------------------------------------------------------------------------
(* Counting, and sums of few values.                                        *)

\* Equal values add up to a product.
LEMMA SumConst ==
  ASSUME NEW F, NEW S, IsFiniteSet(S), NEW c \in Nat, \A x \in S : F[x] = c
  PROVE  SumOf(F, S) = Cardinality(S) * c
<1> DEFINE T == {u \in SUBSET S : SumOf(F, u) # Cardinality(u) * c}
<1>1. SUFFICES ASSUME T # {} PROVE FALSE
  OBVIOUS
<1>2. PICK m \in T : \A u \in T : u \subseteq m => u = m
  <2>1. T \subseteq SUBSET S
    OBVIOUS
  <2> HIDE DEF T
  <2> QED
    BY <1>1, <2>1, MinimalSubset
<1>3. m # {}
  <2>1. SumOf(F, {}) = 0 /\ Cardinality({}) = 0
    BY SumEmpty, FS_EmptySet
  <2>2. 0 * c = 0
    OBVIOUS
  <2> QED
    BY <1>2, <2>1, <2>2
<1>4. PICK x \in m : TRUE
  BY <1>3
<1>5. m \subseteq S /\ m \ {x} \in SUBSET S /\ m \ {x} \notin T
  BY <1>2, <1>4
<1>6. IsFiniteSet(m) /\ IsFiniteSet(m \ {x})
  BY <1>5, FS_Subset
<1>7. SumOf(F, m) = F[x] + SumOf(F, m \ {x})
  <2>1. \A y \in m : F[y] \in Int
    BY <1>5
  <2> QED
    BY <1>6, <2>1, SumRemove
<1>8. /\ Cardinality(m \ {x}) \in Nat /\ Cardinality(m) \in Nat
      /\ Cardinality(m \ {x}) = Cardinality(m) - 1
  BY <1>6, FS_CardinalityType, FS_RemoveElement
<1>9. SumOf(F, m \ {x}) = Cardinality(m \ {x}) * c
  BY <1>5
<1>10. Cardinality(m) * c = Cardinality(m \ {x}) * c + c
  <2>1. \A j, k \in Nat : j = k - 1 => k * c = j * c + c
    OBVIOUS
  <2> QED
    BY <1>8, <2>1
<1>11. F[x] = c /\ Cardinality(m \ {x}) * c \in Nat
  BY <1>5, <1>8
<1> QED
  BY <1>2, <1>7, <1>9, <1>10, <1>11

\* A sum of numbers that are u on one part, w on another, and else 0.
LEMMA SumOfTwo ==
  ASSUME NEW N, IsFiniteSet(N), NEW A, NEW R, A \subseteq N, R \subseteq N, A \cap R = {},
         NEW u \in Nat, NEW w \in Nat, NEW F,
         \A l \in A : F[l] = u, \A l \in R : F[l] = w,
         \A l \in N : l \notin A /\ l \notin R => F[l] = 0
  PROVE  SumOf(F, N) = Cardinality(A) * u + Cardinality(R) * w
<1> DEFINE Z == N \ (A \cup R)
<1>1. IsFiniteSet(A) /\ IsFiniteSet(R) /\ IsFiniteSet(Z) /\ IsFiniteSet(A \cup R)
  <2>1. A \in SUBSET N /\ R \in SUBSET N /\ Z \in SUBSET N /\ A \cup R \in SUBSET N
    OBVIOUS
  <2> QED
    BY <2>1, FS_Subset
<1>2. \A l \in N : F[l] \in Int
  OBVIOUS
<1>3. (A \cup R) \cup Z = N /\ (A \cup R) \cap Z = {}
  OBVIOUS
<1>4. \A l \in Z : F[l] = 0
  OBVIOUS
<1> HIDE DEF Z
<1>5. SumOf(F, N) = SumOf(F, A \cup R) + SumOf(F, Z)
  <2> DEFINE B == A \cup R
  <2>1. IsFiniteSet(B) /\ B \cup Z = N /\ B \cap Z = {} /\ \A l \in B \cup Z : F[l] \in Int
    BY <1>1, <1>2, <1>3
  <2> HIDE DEF B
  <2>2. SumOf(F, B \cup Z) = SumOf(F, B) + SumOf(F, Z)
    BY <1>1, <2>1, SumUnion
  <2> QED
    BY <2>1, <2>2 DEF B
<1>6. SumOf(F, A \cup R) = SumOf(F, A) + SumOf(F, R)
  <2>1. \A l \in A \cup R : F[l] \in Int
    BY <1>2
  <2> QED
    BY <1>1, <2>1, SumUnion
<1>7. SumOf(F, A) = Cardinality(A) * u /\ SumOf(F, R) = Cardinality(R) * w
  BY <1>1, SumConst
<1>8. SumOf(F, Z) = 0
  <2>1. SumOf(F, Z) = Cardinality(Z) * 0 /\ Cardinality(Z) \in Nat
    BY <1>1, <1>4, SumConst, FS_CardinalityType
  <2> QED
    BY <2>1
<1>9. Cardinality(A) * u \in Nat /\ Cardinality(R) * w \in Nat
  <2>1. Cardinality(A) \in Nat /\ Cardinality(R) \in Nat
    BY <1>1, FS_CardinalityType
  <2> QED
    BY <2>1
<1> QED
  BY <1>5, <1>6, <1>7, <1>8, <1>9

\* As many as a one-to-one function counts.
LEMMA CountedBy ==
  ASSUME NEW n \in Nat, NEW S, NEW b, \A j \in 1 .. n : b[j] \in S,
         \A x \in S : \E j \in 1 .. n : b[j] = x,
         \A j, k \in 1 .. n : b[j] = b[k] => j = k
  PROVE  IsFiniteSet(S) /\ Cardinality(S) = n
<1> DEFINE f == [j \in 1 .. n |-> b[j]]
<1>1. f \in Bijection(1 .. n, S)
  <2>1. f \in [1 .. n -> S] /\ \A j \in 1 .. n : f[j] = b[j]
    OBVIOUS
  <2> HIDE DEF f
  <2> QED
    BY <2>1 DEF Bijection, Injection, Surjection, IsInjective
<1>2. IsFiniteSet(1 .. n) /\ Cardinality(1 .. n) = n
  BY FirstNumbers
<1> HIDE DEF f
<1> QED
  BY <1>1, <1>2, FS_Bijection DEF ExistsBijection

\* The first n steps of p from a.
AreSteps(S, a, p, n) ==
  /\ \A l \in S : \E j \in 1 .. n : l = a + j * p
  /\ \A j \in 1 .. n : a + j * p \in S

\* There are n of them.
LEMMA CountSteps ==
  ASSUME NEW a \in Int, NEW p \in Nat \ {0}, NEW n \in Nat, NEW S, AreSteps(S, a, p, n)
  PROVE  IsFiniteSet(S) /\ Cardinality(S) = n
<1> DEFINE b == [j \in 1 .. n |-> a + j * p]
<1>1. \A j \in 1 .. n : b[j] = a + j * p
  OBVIOUS
<1> HIDE DEF b
<1>2. \A j, k \in 1 .. n : b[j] = b[k] => j = k
  <2>1. ASSUME NEW j \in 1 .. n, NEW k \in 1 .. n, j < k PROVE j * p < k * p
    <3>1. j + 1 \in Nat /\ k \in Nat /\ j + 1 <= k
      BY <2>1
    <3>2. (j + 1) * p <= k * p
      BY <3>1, ProductGrows
    <3>3. (j + 1) * p = j * p + p /\ j * p \in Nat /\ k * p \in Nat
      BY <3>1
    <3> QED
      BY <3>2, <3>3
  <2>2. TAKE j, k \in 1 .. n
  <2>3. HAVE b[j] = b[k]
  <2>4. j * p \in Int /\ k * p \in Int /\ a + j * p = a + k * p
    BY <1>1, <2>3
  <2>5. j * p = k * p
    BY <2>4
  <2>6. ~(j < k) /\ ~(k < j)
    BY <2>1, <2>4, <2>5
  <2> QED
    BY <2>6
<1>3. \A j \in 1 .. n : b[j] \in S
  BY <1>1 DEF AreSteps
<1>4. \A x \in S : \E j \in 1 .. n : b[j] = x
  BY <1>1 DEF AreSteps
<1> QED
  BY <1>2, <1>3, <1>4, CountedBy

\* Two sets that are alike but for a shift by one.
LEMMA ShiftedCount ==
  ASSUME NEW n \in Nat, NEW S, NEW T, S \subseteq 1 .. n, T \subseteq 0 .. n - 1,
         \A k \in 1 .. n : k \in S <=> k - 1 \in T
  PROVE  Cardinality(T) = Cardinality(S)
<1> DEFINE f == [k \in S |-> k - 1]
<1>1. f \in Bijection(S, T)
  <2>1. \A k \in S : k \in 1 .. n /\ k - 1 \in T /\ f[k] = k - 1
    OBVIOUS
  <2>2. \A l \in T : l + 1 \in 1 .. n /\ l = (l + 1) - 1
    OBVIOUS
  <2>3. \A l \in T : l + 1 \in S /\ f[l + 1] = l
    BY <2>1, <2>2
  <2>4. f \in [S -> T]
    BY <2>1
  <2>5. \A j, k \in S : f[j] = f[k] => j = k
    BY <2>1
  <2> HIDE DEF f
  <2> QED
    BY <2>3, <2>4, <2>5 DEF Bijection, Injection, Surjection, IsInjective
<1>2. IsFiniteSet(S)
  <2>1. IsFiniteSet(1 .. n) /\ S \in SUBSET (1 .. n)
    BY FirstNumbers
  <2> QED
    BY <2>1, FS_Subset
<1> HIDE DEF f
<1> QED
  BY <1>1, <1>2, FS_Bijection DEF ExistsBijection

\* What is left of n elements.
LEMMA RestCount ==
  ASSUME NEW N, IsFiniteSet(N), NEW A, A \subseteq N
  PROVE  Cardinality(N \ A) = Cardinality(N) - Cardinality(A)
<1>1. A \in SUBSET N /\ N \ A \in SUBSET N
  OBVIOUS
<1>2. IsFiniteSet(A) /\ IsFiniteSet(N \ A)
  BY <1>1, FS_Subset
<1>3. A \cup (N \ A) = N /\ A \cap (N \ A) = {}
  OBVIOUS
<1>4. Cardinality(A \cup (N \ A)) = Cardinality(A) + Cardinality(N \ A) - Cardinality({})
  BY <1>2, <1>3, FS_Union
<1>5. /\ Cardinality(A) \in Nat /\ Cardinality(N \ A) \in Nat /\ Cardinality(N) \in Nat
      /\ Cardinality({}) = 0
  BY <1>2, FS_CardinalityType, FS_EmptySet
<1>6. Cardinality(N) = Cardinality(A) + Cardinality(N \ A) - Cardinality({})
  BY <1>3, <1>4
<1> QED
  BY <1>5, <1>6

\* How many steps of p there are up to n.
LEMMA QuotientAtLeast ==
  ASSUME NEW n \in Nat, NEW p \in Nat \ {0}, NEW j \in Nat
  PROVE  j * p <= n <=> j <= n \div p
<1> DEFINE q == n \div p
<1>1. q \in Nat /\ q * p <= n /\ n < q * p + p
  BY QuotientIs
<1> HIDE DEF q
<1>2. j * p \in Nat /\ q * p \in Nat /\ (q + 1) * p = q * p + p
  BY <1>1
<1>3. CASE j <= q
  <2>1. j * p <= q * p
    BY <1>1, <1>3, ProductGrows
  <2>2. j * p <= n
    BY <1>1, <1>2, <2>1
  <2> QED
    BY <1>3, <2>2 DEF q
<1>4. CASE ~(j <= q)
  <2>1. (q + 1) * p <= j * p
    <3>1. q + 1 \in Nat /\ q + 1 <= j
      BY <1>1, <1>4
    <3> QED
      BY <3>1, ProductGrows
  <2>2. ~(j * p <= n)
    BY <1>1, <1>2, <2>1
  <2> QED
    BY <1>4, <2>2 DEF q
<1> QED
  BY <1>3, <1>4

\* Nothing is left over from the multiples of p alone.
LEMMA NothingOver ==
  ASSUME NEW a \in Nat, NEW p \in Nat \ {0}
  PROVE  a % p = 0 <=> \E j \in Nat : a = j * p
<1> DEFINE q == a \div p
<1>1. q \in Nat /\ q * p <= a /\ a < q * p + p
  BY QuotientIs
<1>2. a % p = a - q * p
  OBVIOUS
<1> HIDE DEF q
<1>3. q * p \in Nat
  BY <1>1
<1>4. a % p = 0 => a = q * p
  BY <1>2, <1>3
<1>5. ASSUME NEW j \in Nat, a = j * p PROVE a % p = 0
  <2>1. j <= q
    <3>1. j * p <= a
      BY <1>5
    <3> QED
      BY <3>1, QuotientAtLeast DEF q
  <2>2. j * p <= q * p
    BY <1>1, <2>1, ProductGrows
  <2>3. a = q * p
    BY <1>1, <1>3, <1>5, <2>2
  <2> QED
    BY <1>2, <1>3, <2>3
<1> QED
  BY <1>1, <1>4, <1>5

-----------------------------------------------------------------------------
(* inspect: the KV cache.                                                   *)

\* The layers of a model, from 0.
Layers(cfg) == 0 .. cfg.num_hidden_layers - 1

\* What the layers that a way of naming them counts are.
AttentionLayers(cfg) == {l \in Layers(cfg) : IsAttention(cfg, l)}
RecurrentLayers(cfg) == {l \in Layers(cfg) : ~IsAttention(cfg, l) /\ IsRecurrent(cfg, l)}

\* The fields of a consistent config that has an estimate.
Estimable(cfg) ==
  /\ WellTyped(cfg) /\ Consistent(cfg) /\ Computable(cfg) /\ cfg.num_hidden_layers # 0
  /\ KvHeads(cfg) # 0 /\ HeadDim(cfg) # 0

\* What such a config says of its layers, heads and dimension.
LEMMA EstimableType ==
  ASSUME NEW cfg, Estimable(cfg)
  PROVE  /\ cfg.num_hidden_layers \in Nat \ {0} /\ "num_hidden_layers" \in DOMAIN cfg
         /\ KvHeads(cfg) \in Nat /\ HeadDim(cfg) \in Nat
<1>1. \A f \in {"num_hidden_layers", "num_attention_heads", "num_key_value_heads",
                "head_dim", "hidden_size"} : f \in DOMAIN cfg => cfg[f] \in Nat
  BY DEF Estimable, WellTyped, Has
<1>2. {"num_hidden_layers", "num_attention_heads"} \subseteq DOMAIN cfg
  BY DEF Estimable, Computable, Has
<1>3. cfg.num_hidden_layers \in Nat \ {0} /\ cfg.num_attention_heads \in Nat
  BY <1>1, <1>2 DEF Estimable
<1>4. KvHeads(cfg) \in Nat
  BY <1>1, <1>3 DEF KvHeads, Field
<1>5. HeadDim(cfg) \in Nat
  <2>1. CASE "head_dim" \in DOMAIN cfg
    BY <1>1, <2>1 DEF HeadDim, Has
  <2>2. CASE "head_dim" \notin DOMAIN cfg
    <3>1. "hidden_size" \in DOMAIN cfg /\ cfg.num_attention_heads > 0
      BY <2>2 DEF Estimable, Computable, Has
    <3>2. cfg.hidden_size \in Nat /\ cfg.num_attention_heads \in Nat \ {0}
      BY <1>1, <1>3, <3>1
    <3>3. HeadDim(cfg) = cfg.hidden_size \div cfg.num_attention_heads
      BY <2>2 DEF HeadDim, Has
    <3> QED
      BY <3>2, <3>3, QuotientIs
  <2> QED
    BY <2>1, <2>2
<1> QED
  BY <1>2, <1>3, <1>4, <1>5

\* The state of a recurrent layer is a number of bytes.
LEMMA StateType ==
  ASSUME NEW cfg, WellTyped(cfg), NEW elem \in Nat
  PROVE  RecurrentState(cfg, elem) \in Nat
<1>1. \A f \in {"mamba_n_heads", "mamba_d_head", "mamba_d_state", "mamba_d_conv",
                "mamba_n_groups"} : f \in DOMAIN cfg => cfg[f] \in Nat
  BY DEF WellTyped, Has
<1>2. CASE Has(cfg, {"mamba_n_heads", "mamba_d_head", "mamba_d_state", "mamba_d_conv"})
  <2> DEFINE h == cfg.mamba_n_heads
             d == cfg.mamba_d_head
             s == cfg.mamba_d_state
             c == cfg.mamba_d_conv
             g == Field(cfg, "mamba_n_groups", 1)
  <2>1. h \in Nat /\ d \in Nat /\ s \in Nat /\ c \in Nat
    BY <1>1, <1>2 DEF Has
  <2>2. g \in Nat
    BY <1>1 DEF Field
  <2>3. RecurrentState(cfg, elem) = (h * d * s + (h * d + 2 * g * s) * c) * elem
    BY <1>2 DEF RecurrentState
  <2> HIDE DEF h, d, s, c, g
  <2>4. h * d \in Nat /\ 2 * g * s \in Nat
    BY <2>1, <2>2
  <2>5. h * d * s \in Nat /\ (h * d + 2 * g * s) * c \in Nat
    BY <2>1, <2>4
  <2>6. (h * d * s + (h * d + 2 * g * s) * c) * elem \in Nat
    BY <2>5
  <2> QED
    BY <2>3, <2>6
<1>3. CASE ~Has(cfg, {"mamba_n_heads", "mamba_d_head", "mamba_d_state", "mamba_d_conv"})
  BY <1>3 DEF RecurrentState
<1> QED
  BY <1>2, <1>3

\* How many layers are the last of a period.
LEMMA LastOfPeriods ==
  ASSUME NEW n \in Nat, NEW p \in Nat \ {0}, NEW S,
         \A l \in 0 .. n - 1 : l \in S <=> (l + 1) % p = 0, S \subseteq 0 .. n - 1
  PROVE  IsFiniteSet(S) /\ Cardinality(S) = n \div p
<1> DEFINE d == n \div p
<1>1. d \in Nat /\ \A j \in Nat : j * p <= n <=> j <= d
  BY QuotientIs, QuotientAtLeast
<1> HIDE DEF d
<1>2. \A l \in S : \E j \in 1 .. d : l = -1 + j * p
  <2>1. TAKE l \in S
  <2>2. l \in 0 .. n - 1 /\ l + 1 \in Nat /\ (l + 1) % p = 0
    OBVIOUS
  <2>3. PICK j \in Nat : l + 1 = j * p
    BY <2>2, NothingOver
  <2>4. j # 0
    <3>1. 0 * p = 0
      OBVIOUS
    <3> QED
      BY <2>2, <2>3, <3>1
  <2>5. j * p <= n
    BY <2>2, <2>3
  <2>6. j \in 1 .. d /\ l = -1 + j * p
    BY <1>1, <2>2, <2>3, <2>4, <2>5
  <2> QED
    BY <2>6
<1>3. \A j \in 1 .. d : -1 + j * p \in S
  <2>1. TAKE j \in 1 .. d
  <2>2. j \in Nat /\ j * p <= n /\ j * p \in Nat
    BY <1>1
  <2>3. 1 <= j * p
    <3>1. 1 * p <= j * p
      BY <2>2, ProductGrows
    <3> QED
      BY <2>2, <3>1
  <2>4. (-1 + j * p) + 1 = j * p /\ -1 + j * p \in 0 .. n - 1
    BY <2>2, <2>3
  <2>5. (j * p) % p = 0
    BY <2>2, NothingOver
  <2> QED
    BY <2>4, <2>5
<1>4. IsFiniteSet(S) /\ Cardinality(S) = d
  <2>1. AreSteps(S, -1, p, d)
    BY <1>2, <1>3 DEF AreSteps
  <2> QED
    BY <1>1, <2>1, CountSteps
<1> QED
  BY <1>4 DEF d

\* How many layers are at an offset, or whole periods after it.
LEMMA FromTheOffset ==
  ASSUME NEW n \in Nat, NEW p \in Nat \ {0}, NEW o \in Nat, o < n, NEW S,
         \A l \in 0 .. n - 1 : l \in S <=> l >= o /\ (l - o) % p = 0, S \subseteq 0 .. n - 1
  PROVE  IsFiniteSet(S) /\ Cardinality(S) = AttentionFrom(n, o, p)
<1> DEFINE m == n - o - 1
           d == m \div p
<1>1. m \in Nat
  OBVIOUS
<1>2. d \in Nat /\ \A j \in Nat : j * p <= m <=> j <= d
  BY <1>1, QuotientIs, QuotientAtLeast
<1>3. AttentionFrom(n, o, p) = d + 1
  BY DEF AttentionFrom
<1> HIDE DEF d
<1>4. \A l \in S : \E j \in 1 .. d + 1 : l = (o - p) + j * p
  <2>1. TAKE l \in S
  <2>2. l \in 0 .. n - 1 /\ l - o \in Nat /\ (l - o) % p = 0
    OBVIOUS
  <2>3. PICK i \in Nat : l - o = i * p
    BY <2>2, NothingOver
  <2>4. i * p <= m
    BY <2>2, <2>3
  <2>5. (i + 1) * p = i * p + p /\ i * p \in Nat
    OBVIOUS
  <2>6. i + 1 \in 1 .. d + 1 /\ l = (o - p) + (i + 1) * p
    BY <1>2, <2>2, <2>3, <2>4, <2>5
  <2> QED
    BY <2>6
<1>5. \A j \in 1 .. d + 1 : (o - p) + j * p \in S
  <2>1. TAKE j \in 1 .. d + 1
  <2>2. j - 1 \in Nat /\ j - 1 <= d
    BY <1>2
  <2>3. (j - 1) * p <= m /\ (j - 1) * p \in Nat /\ (j - 1) * p = j * p - p /\ j * p \in Int
    BY <1>2, <2>2
  <2>4. (o - p) + j * p = o + (j - 1) * p
    BY <2>3
  <2>5. o + (j - 1) * p \in 0 .. n - 1 /\ (o + (j - 1) * p) - o = (j - 1) * p
    BY <1>1, <2>3
  <2>6. ((j - 1) * p) % p = 0
    BY <2>2, <2>3, NothingOver
  <2>7. o + (j - 1) * p >= o
    BY <2>3
  <2> QED
    BY <2>4, <2>5, <2>6, <2>7
<1>6. d + 1 \in Nat /\ o - p \in Int
  BY <1>2
<1>7. IsFiniteSet(S) /\ Cardinality(S) = d + 1
  <2> DEFINE a == o - p
             e == d + 1
  <2>1. a \in Int /\ e \in Nat /\ AreSteps(S, a, p, e)
    BY <1>4, <1>5, <1>6 DEF AreSteps
  <2> HIDE DEF a, e
  <2>2. IsFiniteSet(S) /\ Cardinality(S) = e
    BY <2>1, CountSteps
  <2> QED
    BY <2>2 DEF e
<1> QED
  BY <1>3, <1>7

\* The layers that a list, or a text, gives as many entries as.
AreListed(S, list, kinds, n) ==
  /\ DOMAIN list = 1 .. n /\ S \subseteq 0 .. n - 1
  /\ \A l \in 0 .. n - 1 : l \in S <=> list[l + 1] \in kinds

\* A count over a list of the layers is one over the layers.
LEMMA ListedCount ==
  ASSUME NEW n \in Nat, NEW list, NEW kinds, NEW S, AreListed(S, list, kinds, n)
  PROVE  Cardinality(S) = CountOf(list, kinds)
<1> DEFINE T == {k \in DOMAIN list : list[k] \in kinds}
<1>0. /\ DOMAIN list = 1 .. n /\ S \subseteq 0 .. n - 1
      /\ \A l \in 0 .. n - 1 : l \in S <=> list[l + 1] \in kinds
  BY DEF AreListed
<1>1. T \subseteq 1 .. n
  BY <1>0
<1>2. \A k \in 1 .. n : k \in T <=> k - 1 \in S
  <2>1. TAKE k \in 1 .. n
  <2>2. k - 1 \in 0 .. n - 1 /\ (k - 1) + 1 = k
    OBVIOUS
  <2>3. k - 1 \in S <=> list[k] \in kinds
    BY <1>0, <2>2
  <2> QED
    BY <1>0, <2>3
<1>3. CountOf(list, kinds) = Cardinality(T)
  BY DEF CountOf
<1> HIDE DEF T
<1> QED
  BY <1>0, <1>1, <1>2, <1>3, ShiftedCount

\* Where the layers that are not attention are recurrent, they are the rest.
LEMMA SomeAreRecurrent ==
  ASSUME NEW cfg, Estimable(cfg), NEW a \in Nat, SomeOf(cfg, a) # {},
         Cardinality(AttentionLayers(cfg)) = a,
         \A l \in Layers(cfg) : IsRecurrent(cfg, l) <=> ~IsAttention(cfg, l)
  PROVE  /\ SomeOf(cfg, a) = {Split(a, Cardinality(RecurrentLayers(cfg)))}
<1> DEFINE n == cfg.num_hidden_layers
<1>1. n \in Nat
  BY EstimableType
<1>2. SomeOf(cfg, a) = {Split(a, n - a)}
  BY DEF SomeOf
<1>3. RecurrentLayers(cfg) = Layers(cfg) \ AttentionLayers(cfg)
  BY DEF RecurrentLayers, AttentionLayers
<1>4. IsFiniteSet(Layers(cfg)) /\ Cardinality(Layers(cfg)) = n
  <2>1. 0 \in Int /\ n - 1 \in Int
    BY <1>1
  <2>2. /\ IsFiniteSet(0 .. n - 1)
        /\ Cardinality(0 .. n - 1) = IF 0 > n - 1 THEN 0 ELSE (n - 1) - 0 + 1
    BY <2>1, FS_Interval
  <2> QED
    BY <1>1, <2>2 DEF Layers
<1>5. AttentionLayers(cfg) \subseteq Layers(cfg)
  BY DEF AttentionLayers
<1>6. Cardinality(RecurrentLayers(cfg)) = n - a
  BY <1>3, <1>4, <1>5, RestCount
<1> QED
  BY <1>2, <1>6

\* The split of a hybrid counts its layers, in each of the five ways.
LEMMA SplitCounts ==
  ASSUME NEW cfg, Estimable(cfg), Hybrid(cfg) # {}
  PROVE  Hybrid(cfg) = {Split(Cardinality(AttentionLayers(cfg)),
                              Cardinality(RecurrentLayers(cfg)))}
<1> DEFINE n == cfg.num_hidden_layers
           A == AttentionLayers(cfg)
           R == RecurrentLayers(cfg)
<1>1. n \in Nat /\ "num_hidden_layers" \in DOMAIN cfg
  BY EstimableType
<1>2. A \subseteq 0 .. n - 1 /\ R \subseteq 0 .. n - 1
  BY DEF AttentionLayers, RecurrentLayers, Layers
<1>3. \A l \in 0 .. n - 1 : /\ l \in A <=> IsAttention(cfg, l)
                            /\ l \in R <=> ~IsAttention(cfg, l) /\ IsRecurrent(cfg, l)
  BY DEF AttentionLayers, RecurrentLayers, Layers
<1>4. Consistent(cfg) /\ WellTyped(cfg)
  BY DEF Estimable
<1>5. CASE ByTypes(cfg) # {}
  <2> DEFINE list == cfg.layer_types
  <2>1. /\ "layer_types" \in DOMAIN cfg
        /\ ByTypes(cfg) = {Split(CountOf(list, AttentionKinds), CountOf(list, RecurrentKinds))}
    BY <1>5 DEF ByTypes, Has
  <2>2. DOMAIN list = 1 .. n
    BY <1>1, <1>4, <2>1 DEF Consistent, WellTyped, Has
  <2>3. \A l \in 0 .. n - 1 : /\ l \in A <=> list[l + 1] \in AttentionKinds
                              /\ l \in R <=> list[l + 1] \in RecurrentKinds
    <3>1. \A l \in 0 .. n - 1 : /\ IsAttention(cfg, l) <=> list[l + 1] \in AttentionKinds
                                /\ IsRecurrent(cfg, l) <=> list[l + 1] \in RecurrentKinds
      BY <1>5 DEF IsAttention, IsRecurrent
    <3>2. AttentionKinds \cap RecurrentKinds = {}
      BY DEF AttentionKinds, RecurrentKinds
    <3> QED
      BY <1>3, <3>1, <3>2
  <2> HIDE DEF list, n, A, R
  <2>4. Cardinality(A) = CountOf(list, AttentionKinds)
    <3>1. AreListed(A, list, AttentionKinds, n)
      BY <1>2, <2>2, <2>3 DEF AreListed
    <3> QED
      BY <1>1, <3>1, ListedCount
  <2>5. Cardinality(R) = CountOf(list, RecurrentKinds)
    <3>1. AreListed(R, list, RecurrentKinds, n)
      BY <1>2, <2>2, <2>3 DEF AreListed
    <3> QED
      BY <1>1, <3>1, ListedCount
  <2>6. Hybrid(cfg) = ByTypes(cfg)
    BY <1>5 DEF Hybrid, FirstOf
  <2> QED
    BY <2>1, <2>4, <2>5, <2>6 DEF A, R
<1>6. CASE ByTypes(cfg) = {} /\ ByPattern(cfg) # {}
  <2> DEFINE list == cfg.hybrid_override_pattern
  <2>1. /\ "hybrid_override_pattern" \in DOMAIN cfg
        /\ ByPattern(cfg) = {Split(CountOf(list, {"*"}), CountOf(list, {"M"}))}
    <3>1. CountOf(<<>>, {"M"}) = 0
      <4>1. {k \in DOMAIN <<>> : <<>>[k] \in {"M"}} = {}
        BY EmptyIsSeq
      <4> QED
        BY <4>1, FS_EmptySet DEF CountOf
    <3> QED
      BY <1>6, <3>1 DEF ByPattern, Field
  <2>2. DOMAIN list = 1 .. n
    BY <1>1, <1>4, <2>1 DEF Consistent, WellTyped, Has
  <2>3. \A l \in 0 .. n - 1 : /\ l \in A <=> list[l + 1] \in {"*"}
                              /\ l \in R <=> list[l + 1] \in {"M"}
    <3>1. \A l \in 0 .. n - 1 : /\ IsAttention(cfg, l) <=> list[l + 1] = "*"
                                /\ IsRecurrent(cfg, l) <=> list[l + 1] = "M"
      BY <1>6 DEF IsAttention, IsRecurrent
    <3> QED
      BY <1>3, <3>1
  <2> HIDE DEF list, n, A, R
  <2>4. Cardinality(A) = CountOf(list, {"*"})
    <3>1. AreListed(A, list, {"*"}, n)
      BY <1>2, <2>2, <2>3 DEF AreListed
    <3> QED
      BY <1>1, <3>1, ListedCount
  <2>5. Cardinality(R) = CountOf(list, {"M"})
    <3>1. AreListed(R, list, {"M"}, n)
      BY <1>2, <2>2, <2>3 DEF AreListed
    <3> QED
      BY <1>1, <3>1, ListedCount
  <2>6. Hybrid(cfg) = ByPattern(cfg)
    BY <1>6 DEF Hybrid, FirstOf
  <2> QED
    BY <2>1, <2>4, <2>5, <2>6 DEF A, R
<1>7. ASSUME ByTypes(cfg) = {}, ByPattern(cfg) = {}, NEW a \in Nat, SomeOf(cfg, a) # {},
             Hybrid(cfg) = SomeOf(cfg, a), Cardinality(A) = a
      PROVE  Hybrid(cfg) = {Split(Cardinality(A), Cardinality(R))}
  <2>1. \A l \in Layers(cfg) : IsRecurrent(cfg, l) <=> ~IsAttention(cfg, l)
    BY <1>7 DEF IsRecurrent
  <2> QED
    BY <1>7, <2>1, SomeAreRecurrent
<1>8. CASE ByTypes(cfg) = {} /\ ByPattern(cfg) = {} /\ ByIndices(cfg) # {}
  <2> DEFINE at == cfg.attn_layer_indices
             a == Len(at)
  <2>1. "attn_layer_indices" \in DOMAIN cfg /\ ByIndices(cfg) = SomeOf(cfg, a)
    BY <1>8 DEF ByIndices, Has
  <2>2. /\ a \in Nat /\ DOMAIN at = 1 .. a
        /\ \A j \in DOMAIN at : at[j] \in 0 .. n - 1
        /\ \A j, k \in DOMAIN at : at[j] = at[k] => j = k
    BY <1>1, <1>4, <2>1 DEF Consistent, WellTyped, Has
  <2>3. \A l \in 0 .. n - 1 : l \in A <=> \E k \in DOMAIN at : at[k] = l
    BY <1>3, <1>8 DEF IsAttention
  <2> HIDE DEF at, n, A, R, a
  <2>4. Cardinality(A) = a
    <3>1. \A j \in 1 .. a : at[j] \in A
      BY <2>2, <2>3
    <3>2. \A l \in A : \E j \in 1 .. a : at[j] = l
      BY <1>2, <2>2, <2>3
    <3>3. \A j, k \in 1 .. a : at[j] = at[k] => j = k
      BY <2>2
    <3> QED
      BY <2>2, <3>1, <3>2, <3>3, CountedBy
  <2>5. Hybrid(cfg) = SomeOf(cfg, a)
    BY <1>8, <2>1 DEF Hybrid, FirstOf
  <2>6. SomeOf(cfg, a) # {}
    BY <1>8, <2>1
  <2> QED
    BY <1>7, <1>8, <2>2, <2>4, <2>5, <2>6 DEF A, R
<1>9. CASE /\ ByTypes(cfg) = {} /\ ByPattern(cfg) = {} /\ ByIndices(cfg) = {}
           /\ ByInterval(cfg) # {}
  <2> DEFINE p == cfg.full_attention_interval
             a == n \div p
  <2>1. /\ "full_attention_interval" \in DOMAIN cfg /\ p >= 2
        /\ ByInterval(cfg) = SomeOf(cfg, a)
    BY <1>9 DEF ByInterval, Has
  <2>2. p \in Nat
    BY <1>4, <2>1 DEF Consistent, WellTyped, Has
  <2>3. \A l \in 0 .. n - 1 : l \in A <=> (l + 1) % p = 0
    BY <1>3, <1>9 DEF IsAttention
  <2> HIDE DEF p, n, A, R
  <2>4. p \in Nat \ {0}
    BY <2>1, <2>2
  <2>5. Cardinality(A) = a
    BY <1>1, <1>2, <2>3, <2>4, LastOfPeriods
  <2>6. a \in Nat
    BY <1>1, <2>4, QuotientIs
  <2> HIDE DEF a
  <2>7. Hybrid(cfg) = SomeOf(cfg, a)
    BY <1>9, <2>1 DEF Hybrid, FirstOf
  <2>8. SomeOf(cfg, a) # {}
    BY <1>9, <2>1
  <2> QED
    BY <1>7, <1>9, <2>5, <2>6, <2>7, <2>8 DEF A, R
<1>10. CASE /\ ByTypes(cfg) = {} /\ ByPattern(cfg) = {} /\ ByIndices(cfg) = {}
            /\ ByInterval(cfg) = {}
  <2>1. Hybrid(cfg) = ByOffset(cfg) /\ ByOffset(cfg) # {}
    BY <1>10 DEF Hybrid, FirstOf
  <2> DEFINE p == cfg.attn_layer_period
             o == cfg.attn_layer_offset
             a == AttentionFrom(n, o, p)
  <2>2. /\ {"attn_layer_offset", "attn_layer_period"} \subseteq DOMAIN cfg
        /\ p >= 1 /\ o < n /\ ByOffset(cfg) = SomeOf(cfg, a)
    BY <2>1 DEF ByOffset, Has
  <2>3. p \in Nat /\ o \in Nat
    BY <1>4, <2>2 DEF Consistent, WellTyped, Has
  <2>4. \A l \in 0 .. n - 1 : l \in A <=> l >= o /\ (l - o) % p = 0
    BY <1>3, <1>10, <2>1 DEF IsAttention
  <2> HIDE DEF p, o, n, A, R
  <2>5. p \in Nat \ {0} /\ o < n
    BY <2>2, <2>3
  <2>6. Cardinality(A) = a
    BY <1>1, <1>2, <2>3, <2>4, <2>5, FromTheOffset
  <2>7. a \in Nat
    <3>1. n - o - 1 \in Nat
      BY <1>1, <2>3, <2>5
    <3>2. (n - o - 1) \div p \in Nat
      BY <2>5, <3>1, QuotientIs
    <3> QED
      BY <3>2 DEF AttentionFrom
  <2> HIDE DEF a
  <2>8. SomeOf(cfg, a) # {} /\ Hybrid(cfg) = SomeOf(cfg, a)
    BY <2>1, <2>2
  <2> QED
    BY <1>7, <1>10, <2>6, <2>7, <2>8 DEF A, R
<1> QED
  BY <1>5, <1>6, <1>8, <1>9, <1>10

\* The sum over the layers, where their kinds alone tell what they keep.
LEMMA ByKind ==
  ASSUME NEW cfg, Estimable(cfg), NEW ctx \in Nat, NEW elem \in Nat,
         Hybrid(cfg) # {}
  PROVE  BytesOfLayers(cfg, ctx, elem)
           = Cardinality(AttentionLayers(cfg)) * (PerToken(cfg, elem) * ctx)
               + Cardinality(RecurrentLayers(cfg)) * RecurrentState(cfg, elem)
<1> DEFINE N == Layers(cfg)
           A == AttentionLayers(cfg)
           R == RecurrentLayers(cfg)
           u == PerToken(cfg, elem) * ctx
           w == RecurrentState(cfg, elem)
           F == [l \in N |-> LayerBytes(cfg, ctx, elem, l)]
<1>1. u \in Nat /\ w \in Nat
  <2>1. KvHeads(cfg) \in Nat /\ HeadDim(cfg) \in Nat
    BY EstimableType
  <2>2. PerToken(cfg, elem) \in Nat
    BY <2>1 DEF PerToken
  <2>3. w \in Nat
    BY StateType DEF Estimable
  <2> QED
    BY <2>2, <2>3
<1>2. BytesOfLayers(cfg, ctx, elem) = SumOf(F, N)
  BY DEF BytesOfLayers, SumOf, Layers
<1>3. IsFiniteSet(N)
  <2>1. cfg.num_hidden_layers \in Nat
    BY EstimableType
  <2>2. 0 \in Int /\ cfg.num_hidden_layers - 1 \in Int
    BY <2>1
  <2> QED
    BY <2>2, FS_Interval DEF Layers
<1>4. A \subseteq N /\ R \subseteq N /\ A \cap R = {}
  BY DEF AttentionLayers, RecurrentLayers
<1>5. \A l \in N : /\ l \in A <=> IsAttention(cfg, l)
                   /\ l \in R <=> ~IsAttention(cfg, l) /\ IsRecurrent(cfg, l)
  BY DEF AttentionLayers, RecurrentLayers
<1>6. \A l \in N : F[l] = IF IsAttention(cfg, l) THEN u
                          ELSE IF IsRecurrent(cfg, l) THEN w ELSE 0
  <2>1. \A l \in N : Reach(cfg, ctx, l) = ctx
    BY DEF Reach
  <2> QED
    BY <2>1 DEF LayerBytes
<1> HIDE DEF N, A, R, u, w, F
<1>7. /\ \A l \in A : F[l] = u
      /\ \A l \in R : F[l] = w
      /\ \A l \in N : l \notin A /\ l \notin R => F[l] = 0
  BY <1>4, <1>5, <1>6
<1>8. SumOf(F, N) = Cardinality(A) * u + Cardinality(R) * w
  BY <1>1, <1>3, <1>4, <1>7, SumOfTwo
<1> QED
  BY <1>2, <1>8 DEF A, R, u, w

\* The window and how often a layer is global are numbers.
LEMMA WindowType ==
  ASSUME NEW cfg, Estimable(cfg)
  PROVE  SlidingWindow(cfg) \in Nat /\ Period(cfg) \in Nat
<1> DEFINE v == SlidingWindow(cfg)
           p == Period(cfg)
<1>1. \A f \in {"sliding_window", "sliding_window_pattern"} :
        f \in DOMAIN cfg => cfg[f] \in Nat
  BY DEF Estimable, WellTyped, Has
<1>2. v \in Nat
  BY <1>1 DEF SlidingWindow, Field
<1>3. CASE Field(cfg, "sliding_window_pattern", 0) >= 2
  <2>1. "sliding_window_pattern" \in DOMAIN cfg
    BY <1>3 DEF Field
  <2>2. p = cfg.sliding_window_pattern
    BY <1>3 DEF Period
  <2> QED
    BY <1>1, <1>2, <2>1, <2>2
<1>4. CASE ~(Field(cfg, "sliding_window_pattern", 0) >= 2)
  <2>1. p = 2 \/ p = 0
    BY <1>4 DEF Period
  <2> HIDE DEF p
  <2>2. p \in Nat
    BY <2>1
  <2> QED
    BY <1>2, <2>2 DEF p
<1> QED
  BY <1>3, <1>4

\* So are the tokens that are kept.
LEMMA TokensType ==
  ASSUME NEW cfg, Estimable(cfg), NEW ctx \in Nat
  PROVE  TokensKept(cfg, ctx) \in Nat
<1> DEFINE n == cfg.num_hidden_layers
           g == GlobalLayers(cfg)
<1>1. n \in Nat /\ SlidingWindow(cfg) \in Nat /\ Period(cfg) \in Nat
  BY EstimableType, WindowType
<1>2. g \in Nat /\ g <= n
  <2>1. CASE Period(cfg) = 0
    BY <1>1, <2>1 DEF GlobalLayers
  <2>2. CASE Period(cfg) # 0
    <3>1. g = n \div Period(cfg) /\ Period(cfg) \in Nat \ {0}
      BY <1>1, <2>2 DEF GlobalLayers
    <3>2. g \in Nat /\ g * Period(cfg) <= n
      BY <1>1, <3>1, QuotientIs
    <3>3. 1 * g <= Period(cfg) * g
      BY <1>1, <3>1, <3>2, ProductGrows
    <3> QED
      BY <1>1, <3>1, <3>2, <3>3
  <2> QED
    BY <2>1, <2>2
<1>3. TokensKept(cfg, ctx) = IF Binds(cfg, ctx)
                               THEN (n - g) * SlidingWindow(cfg) + g * ctx ELSE n * ctx
  BY DEF TokensKept
<1> HIDE DEF n, g
<1>4. n - g \in Nat
  BY <1>1, <1>2
<1>5. (n - g) * SlidingWindow(cfg) \in Nat /\ g * ctx \in Nat /\ n * ctx \in Nat
  BY <1>1, <1>2, <1>4
<1> QED
  BY <1>3, <1>5

\* The sum over the layers of a plain transformer, all of which attend.
LEMMA ByReach ==
  ASSUME NEW cfg, Estimable(cfg), NEW ctx \in Nat, NEW elem \in Nat,
         Hybrid(cfg) = {}
  PROVE  BytesOfLayers(cfg, ctx, elem) = PerToken(cfg, elem) * TokensKept(cfg, ctx)
<1> DEFINE n == cfg.num_hidden_layers
           N == Layers(cfg)
           t == PerToken(cfg, elem)
           v == SlidingWindow(cfg)
           p == Period(cfg)
           F == [l \in N |-> LayerBytes(cfg, ctx, elem, l)]
<1>1. t \in Nat /\ n \in Nat
  <2>1. KvHeads(cfg) \in Nat /\ HeadDim(cfg) \in Nat /\ n \in Nat
    BY EstimableType
  <2> QED
    BY <2>1 DEF PerToken
<1>2. v \in Nat /\ p \in Nat
  BY WindowType
<1>3. BytesOfLayers(cfg, ctx, elem) = SumOf(F, N)
  BY DEF BytesOfLayers, SumOf, Layers
<1>4. IsFiniteSet(N) /\ Cardinality(N) = n /\ N = 0 .. n - 1
  <2>1. 0 \in Int /\ n - 1 \in Int
    BY <1>1
  <2>2. /\ IsFiniteSet(0 .. n - 1)
        /\ Cardinality(0 .. n - 1) = IF 0 > n - 1 THEN 0 ELSE (n - 1) - 0 + 1
    BY <2>1, FS_Interval
  <2> QED
    BY <1>1, <2>2 DEF Layers
<1>5. \A l \in N : F[l] = t * Reach(cfg, ctx, l)
  <2>1. \A l \in N : IsAttention(cfg, l)
    <3>1. /\ ByTypes(cfg) = {} /\ ByPattern(cfg) = {} /\ ByIndices(cfg) = {}
          /\ ByInterval(cfg) = {} /\ ByOffset(cfg) = {}
      BY DEF Hybrid, FirstOf
    <3> QED
      BY <3>1 DEF IsAttention
  <2> QED
    BY <2>1 DEF LayerBytes
<1> DEFINE G == {l \in N : p # 0 /\ (l + 1) % p = 0}
           g == GlobalLayers(cfg)
<1>6. g \in Nat /\ Cardinality(G) = g /\ G \subseteq N
  <2>1. G \subseteq N
    OBVIOUS
  <2>2. CASE p = 0
    <3>1. G = {} /\ g = 0
      BY <2>2 DEF GlobalLayers
    <3> QED
      BY <3>1, FS_EmptySet
  <2>3. CASE p # 0
    <3>1. g = n \div p /\ p \in Nat \ {0}
      BY <1>2, <2>3 DEF GlobalLayers
    <3>2. G \subseteq 0 .. n - 1 /\ \A l \in 0 .. n - 1 : l \in G <=> (l + 1) % p = 0
      BY <1>4, <2>3
    <3> HIDE DEF G, n, p, g
    <3>3. Cardinality(G) = n \div p
      BY <1>1, <3>1, <3>2, LastOfPeriods
    <3>4. n \div p \in Nat
      BY <1>1, <3>1, QuotientIs
    <3> QED
      BY <2>1, <3>1, <3>3, <3>4
  <2> QED
    BY <2>2, <2>3
<1>7. CASE ~Binds(cfg, ctx)
  <2>1. \A l \in N : F[l] = t * ctx
    BY <1>5, <1>7 DEF Reach
  <2>2. TokensKept(cfg, ctx) = n * ctx
    BY <1>7 DEF TokensKept
  <2> HIDE DEF N, F, n, t
  <2>3. t * ctx \in Nat
    BY <1>1
  <2>4. SumOf(F, N) = Cardinality(N) * (t * ctx)
    <3> DEFINE c == t * ctx
    <3>1. IsFiniteSet(N) /\ c \in Nat /\ \A l \in N : F[l] = c
      BY <1>4, <2>1, <2>3
    <3> HIDE DEF c
    <3>2. SumOf(F, N) = Cardinality(N) * c
      BY <3>1, SumConst
    <3> QED
      BY <3>2 DEF c
  <2>5. n * (t * ctx) = t * (n * ctx)
    BY <1>1
  <2> QED
    BY <1>3, <1>4, <2>2, <2>4, <2>5 DEF t
<1>8. CASE Binds(cfg, ctx)
  <2> DEFINE R == N \ G
  <2>1. \A l \in G : F[l] = t * ctx
    BY <1>5 DEF Reach
  <2>2. \A l \in R : F[l] = t * v
    BY <1>5, <1>8 DEF Reach
  <2>3. TokensKept(cfg, ctx) = (n - g) * v + g * ctx
    BY <1>8 DEF TokensKept
  <2> HIDE DEF N, G, F, n, t, v, g
  <2>4. Cardinality(R) = n - g
    BY <1>4, <1>6, RestCount
  <2>5. R \subseteq N /\ G \cap R = {} /\ \A l \in N : l \in G \/ l \in R
    BY <1>6
  <2>6. t * ctx \in Nat /\ t * v \in Nat
    BY <1>1, <1>2
  <2> HIDE DEF R
  <2>7. SumOf(F, N) = Cardinality(G) * (t * ctx) + Cardinality(R) * (t * v)
    <3> DEFINE c == t * ctx
               d == t * v
    <3>1. IsFiniteSet(N) /\ G \subseteq N /\ R \subseteq N /\ G \cap R = {}
      BY <1>4, <1>6, <2>5
    <3>2. /\ c \in Nat /\ d \in Nat
          /\ \A l \in G : F[l] = c
          /\ \A l \in R : F[l] = d
          /\ \A l \in N : l \notin G /\ l \notin R => F[l] = 0
      BY <2>1, <2>2, <2>5, <2>6
    <3> HIDE DEF c, d
    <3>3. SumOf(F, N) = Cardinality(G) * c + Cardinality(R) * d
      BY <3>1, <3>2, SumOfTwo
    <3> QED
      BY <3>3 DEF c, d
  <2>8. g * (t * ctx) + (n - g) * (t * v) = t * ((n - g) * v + g * ctx)
    BY <1>1, <1>2, <1>6
  <2> QED
    BY <1>3, <1>6, <2>3, <2>4, <2>7, <2>8 DEF t
<1> QED
  BY <1>7, <1>8

\* The estimate of a cache, where there is one, is what its layers keep.
LEMMA CacheIs ==
  ASSUME NEW cfg, WellTyped(cfg), Consistent(cfg), NEW ctx \in Nat, NEW elem \in Nat,
         KvCacheBytes(cfg, ctx, elem) # NoEstimate
  PROVE  /\ KvCacheBytes(cfg, ctx, elem) = BytesOfLayers(cfg, ctx, elem)
         /\ KvCacheBytes(cfg, ctx, elem) \in Nat
<1> DEFINE t == PerToken(cfg, elem)
<1>1. Estimable(cfg)
  BY DEF KvCacheBytes, Estimable
<1>2. t \in Nat /\ cfg.num_hidden_layers \in Nat
  <2>1. KvHeads(cfg) \in Nat /\ HeadDim(cfg) \in Nat /\ cfg.num_hidden_layers \in Nat
    BY <1>1, EstimableType
  <2> QED
    BY <2>1 DEF PerToken
<1>3. CASE Hybrid(cfg) = {}
  <2>1. KvCacheBytes(cfg, ctx, elem) = t * TokensKept(cfg, ctx)
    BY <1>1, <1>3 DEF KvCacheBytes, Estimable
  <2>2. BytesOfLayers(cfg, ctx, elem) = t * TokensKept(cfg, ctx)
    BY <1>1, <1>3, ByReach
  <2>3. TokensKept(cfg, ctx) \in Nat
    BY <1>1, TokensType
  <2> HIDE DEF t
  <2> QED
    BY <1>2, <2>1, <2>2, <2>3
<1>4. CASE Hybrid(cfg) # {}
  <2> DEFINE a == Cardinality(AttentionLayers(cfg))
             r == Cardinality(RecurrentLayers(cfg))
             w == RecurrentState(cfg, elem)
             split == CHOOSE h \in Hybrid(cfg) : TRUE
  <2>1. split = Split(a, r)
    BY <1>1, <1>4, SplitCounts
  <2>2. KvCacheBytes(cfg, ctx, elem) = t * split.attention * ctx + w * split.recurrent
    BY <1>1, <1>4 DEF KvCacheBytes, Estimable
  <2>3. split.attention = a /\ split.recurrent = r
    <3> HIDE DEF a, r, split
    <3> QED
      BY <2>1 DEF Split
  <2>4. BytesOfLayers(cfg, ctx, elem) = a * (t * ctx) + r * w
    BY <1>1, <1>4, ByKind
  <2>5. a \in Nat /\ r \in Nat
    <3>1. IsFiniteSet(Layers(cfg))
      <4>1. 0 \in Int /\ cfg.num_hidden_layers - 1 \in Int
        BY <1>2
      <4> QED
        BY <4>1, FS_Interval DEF Layers
    <3>2. /\ AttentionLayers(cfg) \in SUBSET Layers(cfg)
          /\ RecurrentLayers(cfg) \in SUBSET Layers(cfg)
      BY DEF AttentionLayers, RecurrentLayers
    <3>3. IsFiniteSet(AttentionLayers(cfg)) /\ IsFiniteSet(RecurrentLayers(cfg))
      BY <3>1, <3>2, FS_Subset
    <3> QED
      BY <3>3, FS_CardinalityType
  <2>6. w \in Nat
    BY StateType
  <2> HIDE DEF t, a, r, w, split
  <2>7. t * a * ctx + w * r = a * (t * ctx) + r * w
    BY <1>2, <2>5, <2>6
  <2>8. a * (t * ctx) \in Nat /\ r * w \in Nat
    <3>1. t * ctx \in Nat
      BY <1>2
    <3> QED
      BY <2>5, <2>6, <3>1
  <2> QED
    BY <2>2, <2>3, <2>4, <2>7, <2>8
<1> QED
  BY <1>3, <1>4

\* The verdict on the GPU is of all shards, and of the cache of all layers.
LEMMA FitKeeps ==
  ASSUME InspectionInv, Inspected
  PROVE  FitIsOfTheModel'
<1> DEFINE all == Flat(InNameOrder(Kept))
           weights == Weights(Flat(asked.a))
           caches == IF kv = NoEstimate THEN 0
                     ELSE BytesOfLayers(asked.config, asked.context, asked.elem)
           need == weights + caches
<1>1. /\ asked \in Inspects /\ FailFast /\ MayReturn /\ error = Nothing /\ items = asked.a
      /\ asked' = asked /\ kv' = kv
  BY DEF Inspected, IsInspect, FailFast, InspectionInv, WorkOK
<1>2. /\ NamedApart(items) /\ Readable(items)
      /\ asked.context # Nothing => asked.context \in Nat /\ asked.elem \in Nat
      /\ asked.config # Nothing => WellTyped(asked.config)
  BY <1>1, InspectsAssumption DEF Readable, IsTensor
<1>3. Weights(all) = weights /\ weights \in Nat
  <2> DEFINE n == Len(items)
             shards == InNameOrder(Kept)
  <2>1. PICK q \in [1 .. n -> 1 .. n] :
          /\ \A k \in 1 .. n : shards[k] = items[q[k]]
          /\ \A x \in 1 .. n : \E k \in 1 .. n : q[k] = x
          /\ \A j, k \in 1 .. n : q[j] = q[k] => j = k
    BY <1>1, <1>2, SortedAgain
  <2>2. n \in Nat /\ shards \in Seq(Range(items)) /\ Len(shards) = n
    BY <1>1, <1>2, SortedAgain
  <2>3. items \in Seq(Range(items))
    BY <1>2 DEF NamedApart, IsList
  <2> HIDE DEF shards
  <2>4. Permutes(q, n)
    BY <2>1, <2>2 DEF Permutes
  <2>5. Reordered(shards, items, n, q)
    BY <2>1, <2>2, <2>3, <2>4 DEF Reordered
  <2>6. Weights(Flat(shards)) = Weights(Flat(items)) /\ Weights(Flat(items)) \in Nat
    BY <1>2, <2>5, WeightsAreAlike
  <2> QED
    BY <1>1, <2>6 DEF shards
<1>4. kv # NoEstimate /\ Consistent(asked.config) => kv = caches /\ kv \in Nat
  <2>1. SUFFICES ASSUME kv # NoEstimate, Consistent(asked.config)
                 PROVE  kv = caches /\ kv \in Nat
    OBVIOUS
  <2>2. /\ asked.context # Nothing /\ asked.config # Nothing
        /\ kv = KvCacheBytes(asked.config, asked.context, asked.elem)
    BY <1>1, <2>1 DEF InspectionInv, KeptOK, IsInspect
  <2>3. asked.context \in Nat /\ asked.elem \in Nat /\ WellTyped(asked.config)
    BY <1>2, <2>2
  <2>4. /\ KvCacheBytes(asked.config, asked.context, asked.elem)
             = BytesOfLayers(asked.config, asked.context, asked.elem)
        /\ KvCacheBytes(asked.config, asked.context, asked.elem) \in Nat
    BY <2>1, <2>2, <2>3, CacheIs
  <2> QED
    BY <2>1, <2>2, <2>4
<1>5. SUFFICES ASSUME stage' = "answered", asked.gpu, kv # NoEstimate => Consistent(asked.config)
               PROVE  \/ NoDevice \in Devices /\ answer'.gpu = [is |-> "no device"]
                      \/ \E d \in Devices \ {NoDevice} :
                           answer'.gpu = IF d >= need
                                           THEN [is |-> "fits", by |-> d - need]
                                           ELSE [is |-> "short", by |-> need - d]
  <2>1. Weights(Flat(asked.a))' = weights
    BY <1>1 DEF weights
  <2>2. SumOver(Flat(asked.a), BytesOf)' = weights
    BY <2>1 DEF Weights
  <2>3. (IF kv = NoEstimate THEN 0
         ELSE BytesOfLayers(asked.config, asked.context, asked.elem))' = caches
    BY <1>1 DEF caches
  <2> QED
    BY <1>1, <2>2, <2>3 DEF FitIsOfTheModel
<1>6. need \in Nat /\ need = IF kv = NoEstimate THEN weights ELSE weights + kv
  <2>1. CASE kv = NoEstimate
    BY <1>3, <2>1
  <2>2. CASE kv # NoEstimate
    BY <1>3, <1>4, <1>5, <2>2
  <2> QED
    BY <2>1, <2>2
<1> HIDE DEF all, weights, caches
<1>7. ASSUME NEW d \in Devices
      PROVE  FitOn(d, Weights(all)) =
               IF d = NoDevice THEN [is |-> "no device"]
               ELSE IF d >= need THEN [is |-> "fits", by |-> d - need]
               ELSE [is |-> "short", by |-> need - d]
  <2> HIDE DEF need
  <2>1. FitOn(d, Weights(all)) =
          CASE d = NoDevice -> [is |-> "no device"]
            [] d # NoDevice /\ d >= need -> [is |-> "fits", by |-> d - need]
            [] OTHER -> [is |-> "short", by |-> need - d]
    BY <1>3, <1>6 DEF FitOn
  <2>2. CASE d = NoDevice
    BY <2>1, <2>2
  <2>3. CASE d # NoDevice /\ d >= need
    BY <2>1, <2>3
  <2>4. CASE d # NoDevice /\ ~(d >= need)
    BY <2>1, <2>4
  <2> QED
    BY <2>2, <2>3, <2>4
<1>8. PICK d \in Devices : answer'.gpu = FitOn(d, Weights(all))
  <2>1. \E fit \in {FitOn(d, Weights(all)) : d \in Devices} :
          answer' = [report |-> ReportOf(Limited(Matching(all))),
                     total |-> Len(all), gpu |-> fit]
    BY <1>5 DEF Inspected, Answers, all
  <2> QED
    BY <2>1
<1>9. CASE d = NoDevice
  BY <1>7, <1>8, <1>9
<1>10. CASE d # NoDevice
  BY <1>7, <1>8, <1>10
<1> QED
  BY <1>9, <1>10

-----------------------------------------------------------------------------
(* The commands.                                                            *)

\* A command that has not fanned out yet has nothing under way.
LEMMA BeginsWell == InspectionInit => InspectionInv
<1> SUFFICES ASSUME InspectionInit PROVE InspectionInv
  OBVIOUS
<1>1. /\ asked \in Diffs \cup Inspects \cup Searches
      /\ items = <<>> /\ task = <<>> /\ out = <<>> /\ kv = NoEstimate
  BY DEF InspectionInit
<1>2. /\ IsQuants => stage = "search"
      /\ IsDiff => stage = "list A"
      /\ IsInspect => stage = IF asked.context = Nothing THEN "list A" ELSE "config"
  <2>1. /\ ~(IsQuants /\ IsDiff) /\ ~(IsQuants /\ IsInspect) /\ ~(IsDiff /\ IsInspect)
        /\ IsQuants \/ IsDiff \/ IsInspect
    BY <1>1, InputsAssumption DEF IsQuants, IsDiff, IsInspect
  <2>2. stage = CASE IsQuants -> "search"
                  [] IsDiff -> "list A"
                  [] IsInspect -> IF asked.context = Nothing THEN "list A" ELSE "config"
    BY DEF InspectionInit
  <2>3. IsQuants => stage = "search"
    BY <2>1, <2>2
  <2>4. IsDiff => stage = "list A"
    BY <2>1, <2>2
  <2>5. IsInspect => stage = IF asked.context = Nothing THEN "list A" ELSE "config"
    BY <2>1, <2>2
  <2> QED
    BY <2>3, <2>4, <2>5
<1>3. /\ stage \in {"search", "list A", "config"} /\ ~FansOut
      /\ IsQuants \/ IsDiff \/ IsInspect
  <2>1. IsQuants \/ IsDiff \/ IsInspect
    BY <1>1 DEF IsQuants, IsDiff, IsInspect
  <2>2. stage \in {"search", "list A", "config"}
    BY <1>2, <2>1
  <2> QED
    BY <2>1, <2>2 DEF FansOut, FailFast
<1>4. StageOK
  <2>1. CASE IsQuants
    BY <1>1, <1>2, <2>1 DEF StageOK
  <2>2. CASE IsDiff
    BY <1>1, <1>2, <2>2 DEF StageOK
  <2>3. CASE IsInspect
    BY <1>1, <1>2, <2>3 DEF StageOK
  <2> QED
    BY <1>3, <2>1, <2>2, <2>3
<1>5. WorkOK
  <2>1. IsList(items)
    BY <1>1, EmptyIsSeq DEF IsList
  <2> QED
    BY <1>3, <2>1 DEF WorkOK
<1>6. TasksOK
  <2>1. Items = {}
    BY <1>1, EmptyIsSeq DEF Items
  <2>2. task \in [Items -> Places] /\ out \in [Items -> Outcomes]
    BY <1>1, <2>1
  <2> QED
    BY <2>1, <2>2 DEF TasksOK, AllJoined
<1>7. KeptOK
  BY <1>1, <1>3 DEF KeptOK
<1>8. DiffIsOfTheContents /\ VerdictsAreTheRows /\ FitIsOfTheModel
  BY <1>3 DEF DiffIsOfTheContents, VerdictsAreTheRows, FitIsOfTheModel
<1> QED
  BY <1>3, <1>4, <1>5, <1>6, <1>7, <1>8 DEF InspectionInv

\* What a step to another stage need not answer for, while it answers nothing.
LEMMA NoAnswerYet ==
  ASSUME stage' # "answered"
  PROVE  DiffIsOfTheContents' /\ VerdictsAreTheRows' /\ FitIsOfTheModel'
BY DEF DiffIsOfTheContents, VerdictsAreTheRows, FitIsOfTheModel

\* A step that leaves the fan-out as it was.
LEMMA StillJoined ==
  ASSUME InspectionInv, AllJoined, UNCHANGED <<fanOut>>, ~FansOut'
  PROVE  TasksOK' /\ IsList(items)' /\ (FansOut => JoinedOK /\ ErrorsOK)'
<1>1. UNCHANGED <<items, task, out>> /\ Items' = Items
  BY DEF fanOut, Items
<1>2. TasksOK /\ IsList(items)
  BY DEF InspectionInv, WorkOK
<1>3. TasksOK'
  <2>1. \A i \in Items : task[i] # "returning"
    BY DEF AllJoined
  <2> QED
    BY <1>1, <1>2, <2>1 DEF TasksOK, AllJoined
<1>4. IsList(items)'
  BY <1>1, <1>2 DEF IsList
<1> QED
  BY <1>3, <1>4

\* No task is left where no fan-out is under way or it may return.
LEMMA IdleIsJoined ==
  ASSUME InspectionInv, ~FansOut \/ MayReturn PROVE AllJoined
BY DEF InspectionInv, TasksOK, MayReturn

\* The cache is estimated from a config and a context that there are.
LEMMA EstimateKeeps ==
  ASSUME InspectionInv, EstimatesCache PROVE InspectionInv'
<1>1. /\ stage = "config" /\ stage' = "list A" /\ asked' = asked /\ UNCHANGED fanOut
      /\ asked \in Inspects /\ asked.context # Nothing /\ StageOK
  BY DEF EstimatesCache, InspectionInv, StageOK, IsInspect
<1>2. AllJoined /\ ~FansOut'
  BY <1>1, IdleIsJoined DEF FansOut, FailFast
<1>3. TasksOK' /\ IsList(items)' /\ (FansOut => JoinedOK /\ ErrorsOK)'
  BY <1>1, <1>2, StillJoined
<1>4. StageOK'
  BY <1>1 DEF StageOK, IsDiff, IsInspect, IsQuants
<1>5. WorkOK'
  BY <1>1, <1>3 DEF WorkOK
<1>6. KeptOK'
  <2>1. \/ kv' = NoEstimate
        \/ /\ asked.config # Nothing
           /\ kv' = KvCacheBytes(asked.config, asked.context, asked.elem)
    BY DEF EstimatesCache
  <2>2. \/ kv' = NoEstimate
        \/ /\ asked'.context # Nothing /\ asked'.config # Nothing
           /\ kv' = KvCacheBytes(asked'.config, asked'.context, asked'.elem)
    BY <1>1, <2>1
  <2>3. stage' \notin {"list B", "shards of B", "verdicts"}
    BY <1>1
  <2> QED
    BY <2>2, <2>3 DEF KeptOK
<1>7. stage' # "answered"
  BY <1>1
<1> QED
  BY <1>3, <1>4, <1>5, <1>6, <1>7, NoAnswerYet DEF InspectionInv

\* A listing, or a search, that answers begins a fan-out over what it names.
LEMMA FanOutKeeps ==
  ASSUME InspectionInv, Lists \/ SearchAnswers PROVE InspectionInv'
<1>1. StageOK /\ KeptOK /\ UNCHANGED <<asked, side, rows, kv>>
  BY DEF InspectionInv, Lists, SearchAnswers
<1>2. asked \in Diffs \cup Inspects => IsList(asked.a)
  BY DiffsAssumption, InspectsAssumption DEF NamedApart
<1>3. asked \in Diffs => IsList(asked.b)
  BY DiffsAssumption DEF NamedApart
<1>4. asked \in Searches => IsList(asked.found)
  BY SearchesAssumption
<1>5. ASSUME NEW s, NEW work, FanOut(s, work), IsList(work),
             \/ s = "shards of A" /\ stage = "list A" /\ work = asked.a
             \/ s = "shards of B" /\ stage = "list B" /\ work = asked.b
             \/ s = "siblings" /\ stage = "search" /\ work = asked.found
      PROVE  InspectionInv'
  <2>1. IsList(items)' /\ TasksOK' /\ JoinedOK' /\ ErrorsOK'
    BY <1>5, FanOutBegins
  <2>2. stage' = s /\ items' = work
    BY <1>5 DEF FanOut
  <2>3. StageOK'
    BY <1>1, <1>5, <2>2 DEF StageOK, IsDiff, IsInspect, IsQuants
  <2>4. WorkOK'
    BY <1>1, <1>5, <2>1, <2>2 DEF WorkOK
  <2>5. KeptOK'
    <3>1. /\ stage' \in {"list B", "shards of B"} => stage \in {"list B", "shards of B"}
          /\ stage' # "verdicts"
      BY <1>5, <2>2
    <3>2. IsInspect' <=> IsInspect
      BY <1>1 DEF IsInspect
    <3> QED
      BY <1>1, <3>1, <3>2 DEF KeptOK
  <2>6. stage' # "answered"
    BY <1>5, <2>2
  <2> QED
    BY <2>1, <2>3, <2>4, <2>5, <2>6, NoAnswerYet DEF InspectionInv
<1>6. CASE stage = "list A" /\ FanOut("shards of A", asked.a)
  <2>1. IsList(asked.a)
    BY <1>1, <1>2, <1>6 DEF StageOK, IsDiff, IsInspect
  <2> QED
    BY <1>5, <1>6, <2>1
<1>7. CASE stage = "list B" /\ FanOut("shards of B", asked.b)
  <2>1. IsList(asked.b)
    BY <1>1, <1>3, <1>7 DEF StageOK, IsDiff
  <2> QED
    BY <1>5, <1>7, <2>1
<1>8. CASE stage = "search" /\ FanOut("siblings", asked.found)
  <2>1. IsList(asked.found)
    BY <1>1, <1>4, <1>8 DEF StageOK, IsQuants
  <2> QED
    BY <1>5, <1>8, <2>1
<1> QED
  BY <1>6, <1>7, <1>8 DEF Lists, SearchAnswers

\* The side of a listing, as long as the command is the same.
LEMMA SideStays ==
  ASSUME asked' = asked
  PROVE  /\ SideOf(asked.a)' = SideOf(asked.a)
         /\ NamesIn(asked.a)' = NamesIn(asked.a) /\ NamesIn(asked.b)' = NamesIn(asked.b)
         /\ \A n : LastTensor(asked.a, n)' = LastTensor(asked.a, n)
         /\ \A n : LastTensor(asked.b, n)' = LastTensor(asked.b, n)
<1>1. NamesIn(asked.a)' = NamesIn(asked.a) /\ NamesIn(asked.b)' = NamesIn(asked.b)
  BY DEF NamesIn
<1>2. /\ \A n : LastTensor(asked.a, n)' = LastTensor(asked.a, n)
      /\ \A n : LastTensor(asked.b, n)' = LastTensor(asked.b, n)
  BY DEF LastTensor
<1>3. SideOf(asked.a)' = SideOf(asked.a)
  BY <1>1, <1>2 DEF SideOf
<1> QED
  BY <1>1, <1>2, <1>3

\* A command that goes on from a stage in which nothing is under way any more.
LEMMA GoesOn ==
  ASSUME InspectionInv, ~FansOut \/ MayReturn, UNCHANGED <<asked, fanOut, rows, kv>>,
         stage' \in {"failed", "hinted", "answered", "list B"},
         stage' = "list B" => IsDiff /\ side' = SideOf(asked.a),
         DiffIsOfTheContents', VerdictsAreTheRows', FitIsOfTheModel'
  PROVE  InspectionInv'
<1>1. AllJoined /\ ~FansOut' /\ StageOK /\ KeptOK
  BY IdleIsJoined DEF InspectionInv, FansOut, FailFast
<1>2. TasksOK' /\ IsList(items)' /\ (FansOut => JoinedOK /\ ErrorsOK)'
  BY <1>1, StillJoined
<1>3. StageOK'
  BY <1>1 DEF StageOK, IsDiff, IsInspect, IsQuants
<1>4. WorkOK'
  BY <1>2 DEF WorkOK
<1>5. KeptOK'
  <2>1. stage' \notin {"shards of B", "verdicts"}
    OBVIOUS
  <2>2. stage' = "list B" => side' = SideOf(asked.a)'
    BY SideStays
  <2>3. IsInspect' <=> IsInspect
    BY DEF IsInspect
  <2> QED
    BY <1>1, <2>1, <2>2, <2>3 DEF KeptOK
<1> QED
  BY <1>2, <1>3, <1>4, <1>5 DEF InspectionInv

\* A request, or a side, that failed.
LEMMA FailureKeeps ==
  ASSUME InspectionInv, RequestFails \/ SideFails PROVE InspectionInv'
<1>1. /\ ~FansOut \/ MayReturn
      /\ UNCHANGED <<asked, fanOut, rows, kv>> /\ stage' = "failed"
  BY DEF RequestFails, SideFails, FansOut, FailFast
<1>2. stage' # "answered"
  BY <1>1
<1> QED
  BY <1>1, <1>2, NoAnswerYet, GoesOn

\* A side whose tensors were collected.
LEMMA SideKeeps ==
  ASSUME InspectionInv, SideCollected PROVE InspectionInv'
<1>1. /\ IsDiff /\ MayReturn /\ UNCHANGED <<asked, fanOut, rows, kv>>
      /\ stage \in {"shards of A", "shards of B"}
  BY DEF SideCollected
<1>2. /\ DiffIsOfTheContents'
      /\ stage = "shards of A" => side' = SideOf(asked.a)
  BY DiffKeeps
<1>3. /\ stage' \in {"hinted", "answered", "list B"}
      /\ stage' = "list B" => stage = "shards of A"
  BY DEF SideCollected, Diff, Answers
<1>4. VerdictsAreTheRows' /\ FitIsOfTheModel'
  <2>1. ~IsQuants' /\ ~IsInspect'
    BY <1>1, InputsAssumption DEF IsDiff, IsQuants, IsInspect
  <2> QED
    BY <2>1 DEF VerdictsAreTheRows, FitIsOfTheModel
<1> QED
  BY <1>1, <1>2, <1>3, <1>4, GoesOn

\* The report of an inspection.
LEMMA ReportKeeps ==
  ASSUME InspectionInv, Inspected PROVE InspectionInv'
<1>1. /\ IsInspect /\ MayReturn /\ UNCHANGED <<asked, fanOut, rows, kv>>
      /\ stage' \in {"hinted", "answered"}
  BY DEF Inspected, Answers
<1>2. FitIsOfTheModel'
  BY FitKeeps
<1>3. DiffIsOfTheContents' /\ VerdictsAreTheRows'
  <2>1. ~IsQuants' /\ ~IsDiff'
    BY <1>1, InputsAssumption DEF IsDiff, IsQuants, IsInspect
  <2> QED
    BY <2>1 DEF VerdictsAreTheRows, DiffIsOfTheContents
<1> QED
  BY <1>1, <1>2, <1>3, GoesOn

\* The rows of the siblings, and a fan-out over those in doubt.
LEMMA SiblingsKeep ==
  ASSUME InspectionInv, SiblingsGathered PROVE InspectionInv'
<1>1. /\ stage = "siblings" /\ AllJoined /\ rows' = QuantRows
      /\ UNCHANGED <<asked, side, kv>> /\ StageOK /\ KeptOK
  BY DEF SiblingsGathered, MayReturn, InspectionInv
<1>2. QuantRows \in Seq(RowType) /\ IsQuants
  BY <1>1, QuantRowsType DEF StageOK
<1> DEFINE table == QuantRows
<1> HIDE DEF table
<1>3. CASE QuantRows = <<>>
  <2>1. stage' = "hinted" /\ UNCHANGED fanOut
    BY <1>3 DEF SiblingsGathered
  <2>2. ~FansOut'
    BY <2>1 DEF FansOut, FailFast
  <2>3. TasksOK' /\ IsList(items)' /\ (FansOut => JoinedOK /\ ErrorsOK)'
    BY <1>1, <2>1, <2>2, StillJoined
  <2>4. StageOK'
    BY <1>1, <2>1 DEF StageOK
  <2>5. WorkOK'
    BY <2>1, <2>3 DEF WorkOK
  <2>6. KeptOK'
    BY <1>1, <2>1 DEF KeptOK, IsInspect
  <2>7. stage' # "answered"
    BY <2>1
  <2> QED
    BY <2>3, <2>4, <2>5, <2>6, <2>7, NoAnswerYet DEF InspectionInv
<1>4. CASE QuantRows # <<>>
  <2>1. FanOut("verdicts", Doubtful(QuantRows))
    BY <1>4 DEF SiblingsGathered
  <2>2. IsList(Doubtful(QuantRows))
    BY <1>2, DoubtfulIs
  <2>3. IsList(items)' /\ TasksOK' /\ JoinedOK' /\ ErrorsOK'
    BY <2>1, <2>2, FanOutBegins
  <2>4. stage' = "verdicts" /\ items' = Doubtful(QuantRows)
    BY <2>1 DEF FanOut
  <2>5. StageOK'
    BY <1>1, <1>2, <2>4 DEF StageOK, IsQuants
  <2>6. Doubtful(rows)' = Doubtful(QuantRows)
    BY <1>1 DEF Doubtful, InDoubt, Ceiling
  <2>7. WorkOK'
    BY <2>3, <2>4, <2>6 DEF WorkOK
  <2>8. KeptOK'
    <3>1. rows' \in Seq([gguf : BOOLEAN, size : Nat, layers : Seq(Nat)])
      BY <1>1, <1>2 DEF RowType
    <3>2. ~IsInspect'
      BY <1>1, <1>2, InputsAssumption DEF IsQuants, IsInspect
    <3>3. stage' \notin {"list B", "shards of B"}
      BY <2>4
    <3> QED
      BY <3>1, <3>2, <3>3 DEF KeptOK
  <2>9. stage' # "answered"
    BY <2>4
  <2> QED
    BY <2>3, <2>5, <2>7, <2>8, <2>9, NoAnswerYet DEF InspectionInv
<1> QED
  BY <1>3, <1>4

\* The verdicts of quants.
LEMMA VerdictKeeps ==
  ASSUME InspectionInv, VerdictsGiven PROVE InspectionInv'
<1>1. /\ stage = "verdicts" /\ MayReturn /\ UNCHANGED <<asked, fanOut, rows, kv>>
      /\ stage' = "answered" /\ IsQuants
  BY DEF VerdictsGiven, Answers, InspectionInv, StageOK
<1>2. VerdictsAreTheRows'
  BY VerdictsKeep
<1>3. DiffIsOfTheContents' /\ FitIsOfTheModel'
  <2>1. ~IsDiff' /\ ~IsInspect'
    BY <1>1, InputsAssumption DEF IsDiff, IsQuants, IsInspect
  <2> QED
    BY <2>1 DEF DiffIsOfTheContents, FitIsOfTheModel
<1> QED
  BY <1>1, <1>2, <1>3, GoesOn

\* A step that changes nothing of the commands.
LEMMA NothingKeeps ==
  ASSUME InspectionInv, UNCHANGED inspectionVars PROVE InspectionInv'
<1>1. UNCHANGED <<asked, stage, items, task, out, failed, joined, error, side, rows, kv, answer>>
  BY DEF inspectionVars, fanOut
<1>2. StageOK' /\ TasksOK' /\ (FansOut => JoinedOK /\ ErrorsOK)'
  <2>1. StageOK'
    BY <1>1 DEF InspectionInv, StageOK, IsDiff, IsInspect, IsQuants
  <2>2. TasksOK' /\ (FansOut' <=> FansOut)
    BY <1>1 DEF InspectionInv, TasksOK, FansOut, FailFast, AllJoined, Items
  <2>3. JoinedOK => JoinedOK'
    BY <1>1 DEF JoinedOK, Items, Keeps, HasHeader
  <2>4. ErrorsOK => ErrorsOK'
    BY <1>1 DEF ErrorsOK, FailFast, Failure, Items
  <2> QED
    BY <2>1, <2>2, <2>3, <2>4 DEF InspectionInv
<1>3. WorkOK' /\ KeptOK'
  <2>1. Doubtful(rows)' = Doubtful(rows)
    BY <1>1 DEF Doubtful, InDoubt, Ceiling
  <2>2. WorkOK'
    BY <1>1, <2>1 DEF InspectionInv, WorkOK, IsList
  <2>3. KeptOK'
    <3>1. SideOf(asked.a)' = SideOf(asked.a)
      BY <1>1, SideStays
    <3> QED
      BY <1>1, <3>1 DEF InspectionInv, KeptOK, IsInspect
  <2> QED
    BY <2>2, <2>3
<1>4. DiffIsOfTheContents'
  <2>1. /\ Wanted(NamesIn(asked.a))' = Wanted(NamesIn(asked.a))
        /\ Wanted(NamesIn(asked.b))' = Wanted(NamesIn(asked.b))
        /\ \A n : LastTensor(asked.a, n)' = LastTensor(asked.a, n)
        /\ \A n : LastTensor(asked.b, n)' = LastTensor(asked.b, n)
    BY <1>1, SideStays DEF Wanted
  <2> QED
    BY <1>1, <2>1 DEF InspectionInv, DiffIsOfTheContents, IsDiff
<1>5. VerdictsAreTheRows'
  <2>1. \A k : RightVerdict(rows[k])' = RightVerdict(rows[k])
    BY <1>1 DEF RightVerdict, EnoughLayers, Ceiling
  <2>2. Items' = Items /\ (IsQuants' <=> IsQuants)
    BY <1>1 DEF Items, IsQuants
  <2>3. SUFFICES ASSUME IsQuants', stage' = "answered" PROVE VerdictsAreTheRows'
    BY DEF VerdictsAreTheRows
  <2>4. /\ DOMAIN answer = DOMAIN rows
        /\ \A k \in DOMAIN rows :
             \/ answer[k] = RightVerdict(rows[k])
             \/ \E i \in Items :
                  /\ items[i].index = k
                  /\ \/ out[i] = "err" /\ answer[k] = [is |-> "plan unavailable"]
                     \/ out[i] = "panic" /\ answer[k] = [is |-> "did not run"]
    BY <1>1, <2>2, <2>3 DEF InspectionInv, VerdictsAreTheRows
  <2>5. answer' = answer /\ rows' = rows /\ items' = items /\ out' = out
    BY <1>1
  <2>6. /\ DOMAIN answer' = DOMAIN rows'
        /\ \A k \in DOMAIN rows' :
             \/ answer'[k] = RightVerdict(rows[k])'
             \/ \E i \in Items' :
                  /\ items'[i].index = k
                  /\ \/ out'[i] = "err" /\ answer'[k] = [is |-> "plan unavailable"]
                     \/ out'[i] = "panic" /\ answer'[k] = [is |-> "did not run"]
    BY <2>1, <2>2, <2>4, <2>5
  <2> QED
    BY <2>6 DEF VerdictsAreTheRows
<1>6. FitIsOfTheModel'
  <2>1. SumOver(Flat(asked.a), BytesOf)' = SumOver(Flat(asked.a), BytesOf)
    BY <1>1
  <2>2. BytesOfLayers(asked.config, asked.context, asked.elem)'
          = BytesOfLayers(asked.config, asked.context, asked.elem)
    BY <1>1
  <2> QED
    BY <1>1, <2>1, <2>2 DEF InspectionInv, FitIsOfTheModel, IsInspect
<1> QED
  BY <1>2, <1>3, <1>4, <1>5, <1>6 DEF InspectionInv

\* Every step of the commands keeps the invariant.
LEMMA InspectionStep == InspectionInv /\ [InspectionNext]_inspectionVars => InspectionInv'
<1> SUFFICES ASSUME InspectionInv, [InspectionNext]_inspectionVars PROVE InspectionInv'
  OBVIOUS
<1>1. CASE EstimatesCache
  BY <1>1, EstimateKeeps
<1>2. CASE Lists \/ SearchAnswers
  BY <1>2, FanOutKeeps
<1>3. CASE RequestFails \/ SideFails
  BY <1>3, FailureKeeps
<1>4. ASSUME FansOut, NEW i \in Items, Task(i) PROVE InspectionInv'
  BY <1>4, TaskKeeps
<1>5. CASE SideCollected
  BY <1>5, SideKeeps
<1>6. CASE Inspected
  BY <1>6, ReportKeeps
<1>7. CASE SiblingsGathered
  BY <1>7, SiblingsKeep
<1>8. CASE VerdictsGiven
  BY <1>8, VerdictKeeps
<1>9. CASE UNCHANGED inspectionVars
  BY <1>9, NothingKeeps
<1> QED
  BY <1>1, <1>2, <1>3, <1>4, <1>5, <1>6, <1>7, <1>8, <1>9 DEF InspectionNext

\* Every state of diff, inspect and quants --fits satisfies the invariant.
THEOREM InspectionInvariant == InspectionSpec => []InspectionInv
<1>1. InspectionInit => InspectionInv
  BY BeginsWell
<1>2. InspectionInv /\ [InspectionNext]_inspectionVars => InspectionInv'
  BY InspectionStep
<1> QED
  BY <1>1, <1>2, PTL DEF InspectionSpec

\* A diff that answers gives the answer of all the shards of both
\* repositories, in whatever order they were read (run_diff and
\* inspect_shards).
THEOREM DiffAnswersOfTheContents == InspectionSpec => []DiffIsOfTheContents
<1>1. InspectionInv => DiffIsOfTheContents
  BY DEF InspectionInv
<1> QED
  BY <1>1, InspectionInvariant, PTL

\* Row by row, quants --fits gives the right verdict, with the fewest layers
\* moved, or says that the row's header failed
\* (compute_fit_verdicts_concurrent and compute_offload_plan).
THEOREM FitsGivesTheRowsVerdicts == InspectionSpec => []VerdictsAreTheRows
<1>1. InspectionInv => VerdictsAreTheRows
  BY DEF InspectionInv
<1> QED
  BY <1>1, InspectionInvariant, PTL

\* The verdict of inspect on the GPU is of the whole model, and of a cache
\* that is the sum of what each layer keeps (print_gpu_check, sum_tensor_bytes
\* and kv_cache_bytes).
THEOREM FitIsOfTheWholeModel == InspectionSpec => []FitIsOfTheModel
<1>1. InspectionInv => FitIsOfTheModel
  BY DEF InspectionInv
<1> QED
  BY <1>1, InspectionInvariant, PTL

\* Once an error is joined no further shard passes the test of the flag, and
\* no fan-out is left while a task of it still reads (fan_out_fail_fast,
\* fan_out_bounded).
THEOREM FanOutFailsFast == InspectionSpec => FailsFastAndQuiet
<1> DEFINE Quiet == IF stage' = stage
                      THEN error # Nothing =>
                             \A i \in Items :
                               task[i] = "admitted"
                                 => task'[i] \notin {"cleared", "running"}
                      ELSE Holding = {}
<1>1. InspectionInv /\ [InspectionNext]_inspectionVars => [Quiet]_inspectionVars
  <2> SUFFICES ASSUME InspectionInv, InspectionNext PROVE Quiet
    OBVIOUS
  <2>1. ASSUME FansOut, NEW i \in Items, Task(i) PROVE Quiet
    <3>1. /\ error # Nothing => failed /\ FailFast
          /\ task \in [Items -> Places] /\ stage' = stage
      BY <2>1 DEF InspectionInv, ErrorsOK, TasksOK, Task, Acquire, Skip, PassFlag, Start,
                  Succeed, SucceedUnchecked, Fail, StoreFailure, FailAlone, Panic, Join, Ends
    <3>2. ASSUME error # Nothing, NEW j \in Items, task[j] = "admitted"
          PROVE  task'[j] \notin {"cleared", "running"}
      <4>1. CASE Start(i)
        <5>1. i # j /\ task' = [task EXCEPT ![i] = "running"]
          BY <3>1, <3>2, <4>1 DEF Start
        <5> QED
          BY <3>1, <3>2, <5>1
      <4>2. ~PassFlag(i)
        BY <3>1, <3>2 DEF PassFlag
      <4>3. CASE ~Start(i)
        <5>1. \E p \in Places \ {"cleared", "running"} : task' = [task EXCEPT ![i] = p]
          BY <2>1, <4>2, <4>3 DEF Places, Task, Acquire, Skip, Succeed, SucceedUnchecked,
                                  Fail, StoreFailure, FailAlone, Panic, Join, Ends
        <5> QED
          BY <3>1, <3>2, <5>1
      <4> QED
        BY <4>1, <4>3
    <3> QED
      BY <3>1, <3>2
  <2>2. ASSUME stage' # stage, ~FansOut \/ MayReturn PROVE Quiet
    <3>1. AllJoined
      BY <2>2, IdleIsJoined
    <3>2. Holding = {}
      BY <3>1 DEF AllJoined, Holding
    <3> QED
      BY <2>2, <3>2
  <2>3. CASE EstimatesCache \/ Lists \/ SearchAnswers \/ RequestFails
    <3>1. stage' # stage /\ ~FansOut
      BY <2>3 DEF EstimatesCache, Lists, SearchAnswers, RequestFails, FanOut, FansOut, FailFast
    <3> QED
      BY <2>2, <3>1
  <2>4. CASE SideFails \/ SideCollected \/ Inspected \/ SiblingsGathered \/ VerdictsGiven
    <3>1. MayReturn
      BY <2>4 DEF SideFails, SideCollected, Inspected, SiblingsGathered, VerdictsGiven
    <3>2. stage' # stage
      <4>1. CASE SideFails
        BY <4>1 DEF SideFails, FailFast
      <4>2. CASE SideCollected
        BY <4>2 DEF SideCollected, Diff, Answers
      <4>3. CASE Inspected
        BY <4>3 DEF Inspected, Answers
      <4>4. CASE SiblingsGathered
        BY <4>4 DEF SiblingsGathered, FanOut
      <4>5. CASE VerdictsGiven
        BY <4>5 DEF VerdictsGiven, Answers
      <4> QED
        BY <2>4, <4>1, <4>2, <4>3, <4>4, <4>5
    <3> QED
      BY <2>2, <3>1, <3>2
  <2> QED
    BY <2>1, <2>3, <2>4 DEF InspectionNext
<1> QED
  BY <1>1, InspectionInvariant, PTL DEF InspectionSpec, FailsFastAndQuiet
=============================================================================
