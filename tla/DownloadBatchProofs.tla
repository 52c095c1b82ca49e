------------------------- MODULE DownloadBatchProofs -------------------------
(***************************************************************************)
(* Proofs about DownloadBatch, for any number of files, any concurrency    *)
(* and whatever the environment does: permits are conserved, an answer     *)
(* accounts for every file, a deadline is never passed off as a failure.   *)
(***************************************************************************)
EXTENDS DownloadBatch, FiniteSetTheorems, TLAPS

\* The files that have a task are the first `spawned'; the loop is past its
\* head for one more only while there is one.
InSpawnOrder ==
  /\ \A f \in Files : phase[f] = "queued" <=> f > spawned
  /\ pc = "acquire" => spawned < total

\* What the results say of the cache and of the deadline.
ResultsAreTrue ==
  \A f \in Files :
    /\ phase[f] = "linking" \/ result[f] = "ok" => f \in disk
    /\ result[f] = "timedOut" => deadline = "passed"

\* What has been collected, as long as the batch has not given up.
CollectionIsExact ==
  /\ map \cap failures = {}
  /\ map \subseteq disk
  /\ \A f \in map \cup failures :
       phase[f] = "joined" /\ result[f] # "timedOut"
  /\ pc \notin {"timeout", "error"} =>
       \A f \in Files : phase[f] = "joined" => f \in map \cup failures

BatchInv ==
  /\ TypeOK
  /\ PermitsConserved
  /\ InSpawnOrder
  /\ ResultsAreTrue
  /\ CollectionIsExact
  /\ AnswerIsWhole
  /\ DeadlineIsNeverPartial
-----------------------------------------------------------------------------
(* The two kinds of step a task takes.                                      *)

\* Its end: the result it hands over is true of the cache and of the clock.
TaskEnds(f) ==
  \E r \in Results \ {"none"} :
    /\ EndTask(f, r)
    /\ disk \subseteq disk' /\ disk' \subseteq disk \cup {f}
    /\ r = "ok" => f \in disk'
    /\ r = "timedOut" => deadline = "passed"

\* A step on the way there: it keeps its permit.
TaskMoves(f) ==
  \E p \in WorkPhases :
    /\ phase' = [phase EXCEPT ![f] = p]
    /\ disk \subseteq disk' /\ disk' \subseteq disk \cup {f}
    /\ p = "linking" => f \in disk'
    /\ UNCHANGED <<permits, result>>

TaskStep(f) ==
  /\ phase[f] \in WorkPhases
  /\ TaskEnds(f) \/ TaskMoves(f)
  /\ UNCHANGED <<chosen, batch, deadline>>

LEMMA TaskIsTaskStep ==
  ASSUME NEW f \in Files, TypeOK, ResultsAreTrue, Task(f)
  PROVE  TaskStep(f)
<1>1. CASE FetchCached(f)
  BY <1>1 DEF FetchCached, TaskStep, TaskEnds, Results, WorkPhases
<1>2. CASE FetchFresh(f)
  <2>1. CASE EndTask(f, "ok")
    BY <1>2, <2>1 DEF FetchFresh, TaskStep, TaskEnds, Results, WorkPhases
  <2>2. CASE phase' = [phase EXCEPT ![f] = "linking"] /\ UNCHANGED <<permits, result>>
    BY <1>2, <2>2 DEF FetchFresh, TaskStep, TaskMoves, WorkPhases
  <2> QED BY <1>2, <2>1, <2>2 DEF FetchFresh
<1>3. CASE FetchFails(f)
  BY <1>3 DEF FetchFails, MayBePublished, TaskStep, TaskEnds, Results, WorkPhases
<1>4. CASE FallBack(f)
  BY <1>4 DEF FallBack, TaskStep, TaskMoves, WorkPhases
<1>5. CASE DirectFails(f)
  BY <1>5 DEF DirectFails, MayBePublished, TaskStep, TaskEnds, Results, WorkPhases
<1>6. CASE DirectStalls(f)
  BY <1>6 DEF DirectStalls, TaskStep, TaskMoves, WorkPhases
<1>7. CASE DeadlineEndsFetch(f)
  BY <1>7 DEF DeadlineEndsFetch, MayBePublished, TaskStep, TaskEnds, Results,
              WorkPhases
<1>8. CASE Link(f)
  BY <1>8 DEF Link, ResultsAreTrue, TaskStep, TaskEnds, Results, WorkPhases
<1>9. CASE Panic(f)
  BY <1>9 DEF Panic, TaskStep, TaskEnds, Results, WorkPhases
<1>10. CASE Abort(f)
  BY <1>10 DEF Abort, MayBePublished, TaskStep, TaskEnds, Results, WorkPhases
<1> QED BY <1>1, <1>2, <1>3, <1>4, <1>5, <1>6, <1>7, <1>8, <1>9, <1>10 DEF Task
-----------------------------------------------------------------------------
(* Counting the permits.                                                    *)

LEMMA WorkingIsFinite ==
  ASSUME TypeOK
  PROVE  IsFiniteSet(Working) /\ Cardinality(Working) \in Nat
<1>1. IsFiniteSet(Files)
  BY FS_Interval, BatchAssumption DEF TypeOK, Files
<1>2. Working \in SUBSET Files
  BY DEF Working
<1> QED BY <1>1, <1>2, FS_Subset, FS_CardinalityType

LEMMA LimitIsPositive == TypeOK => total \in Nat /\ limit \in Nat \ {0}
BY BatchAssumption DEF TypeOK

\* A task that ends leaves the working set and gives its permit back.
LEMMA EndingConserves ==
  ASSUME NEW f \in Files, NEW r, TypeOK, PermitsConserved,
         phase[f] \in WorkPhases, EndTask(f, r), UNCHANGED <<chosen>>
  PROVE  PermitsConserved' /\ permits' \in 0 .. limit
<1>1. Working' = Working \ {f}
  BY DEF TypeOK, EndTask, Working, WorkPhases, Files, chosen
<1>2. f \in Working
  BY DEF Working
<1>3. /\ IsFiniteSet(Working') /\ Cardinality(Working') = Cardinality(Working) - 1
      /\ Cardinality(Working) \in Nat
  BY <1>1, <1>2, WorkingIsFinite, FS_RemoveElement
<1>4. Cardinality(Working') \in Nat
  BY <1>3, FS_CardinalityType
<1>5. permits \in Nat /\ permits' = permits + 1 /\ limit \in Nat
  BY LimitIsPositive DEF TypeOK, EndTask
<1>6. permits' + Cardinality(Working') = limit /\ limit' = limit
  BY <1>3, <1>5 DEF PermitsConserved, chosen
<1> QED BY <1>4, <1>5, <1>6 DEF PermitsConserved

\* A file that gets a task joins the working set and takes a permit.
LEMMA SpawningConserves ==
  ASSUME TypeOK, PermitsConserved, InSpawnOrder, Spawn
  PROVE  PermitsConserved' /\ permits' \in 0 .. limit
<1> DEFINE f == spawned + 1
<1>1. f \in Files /\ phase[f] = "queued"
  BY LimitIsPositive DEF TypeOK, InSpawnOrder, Spawn, Files
<1>2. Working' = Working \cup {f}
  BY <1>1 DEF TypeOK, Spawn, Working, WorkPhases, Files, chosen
<1>3. f \notin Working
  BY <1>1 DEF Working, WorkPhases
<1>4. /\ IsFiniteSet(Working') /\ Cardinality(Working') = Cardinality(Working) + 1
      /\ Cardinality(Working) \in Nat
  BY <1>2, <1>3, WorkingIsFinite, FS_AddElement
<1>5. /\ permits \in Nat /\ permits > 0 /\ permits' = permits - 1
      /\ limit \in Nat /\ limit' = limit
  BY LimitIsPositive DEF TypeOK, Spawn, chosen
<1> QED BY <1>4, <1>5 DEF PermitsConserved

\* No other step changes which files are being worked on.
LEMMA SameWorkConserves ==
  ASSUME PermitsConserved, Working' = Working, UNCHANGED <<permits, limit>>
  PROVE  PermitsConserved'
BY DEF PermitsConserved
-----------------------------------------------------------------------------
(* The invariant, one kind of step at a time.                               *)

LEMMA BatchInit == Init => BatchInv
<1> SUFFICES ASSUME Init PROVE BatchInv
  OBVIOUS
<1>1. total \in Nat /\ limit \in Nat \ {0}
  BY BatchAssumption DEF Init
<1>2. TypeOK
  BY <1>1, BatchAssumption DEF Init, TypeOK, Phases, Results
<1>3. Working = {}
  BY DEF Init, Working, WorkPhases
<1>4. PermitsConserved
  BY <1>1, <1>3, FS_EmptySet DEF Init, PermitsConserved
<1>5. InSpawnOrder
  BY <1>1 DEF Init, InSpawnOrder, Files
<1>6. ResultsAreTrue /\ CollectionIsExact
  BY DEF Init, ResultsAreTrue, CollectionIsExact
<1>7. AnswerIsWhole /\ DeadlineIsNeverPartial
  BY DEF Init, AnswerIsWhole, DeadlineIsNeverPartial
<1> QED BY <1>2, <1>4, <1>5, <1>6, <1>7 DEF BatchInv

LEMMA TaskKeepsTypes ==
  ASSUME BatchInv, NEW f \in Files, TaskStep(f)
  PROVE  TypeOK' /\ PermitsConserved'
<1>1. CASE TaskEnds(f)
  <2>1. PICK r \in Results : EndTask(f, r) /\ disk' \subseteq disk \cup {f}
    BY <1>1 DEF TaskEnds
  <2>2. PermitsConserved' /\ permits' \in 0 .. limit
    BY <2>1, EndingConserves DEF BatchInv, TaskStep
  <2> QED BY <2>1, <2>2
       DEF BatchInv, TypeOK, TaskStep, EndTask, Phases, Files, chosen, batch
<1>2. CASE TaskMoves(f)
  <2>1. PICK p \in WorkPhases : /\ phase' = [phase EXCEPT ![f] = p]
                                /\ disk' \subseteq disk \cup {f}
                                /\ UNCHANGED <<permits, result>>
    BY <1>2 DEF TaskMoves
  <2>2. TypeOK'
    BY <2>1 DEF BatchInv, TypeOK, TaskStep, Phases, Files, chosen, batch
  <2>3. Working' = Working
    BY <2>1 DEF BatchInv, TypeOK, TaskStep, Working, Files, chosen
  <2> QED BY <2>1, <2>2, <2>3, SameWorkConserves DEF BatchInv, TaskStep, chosen
<1> QED BY <1>1, <1>2 DEF TaskStep

\* What a task's step does to the file it works on and to the others.
LEMMA TaskEffect ==
  ASSUME BatchInv, NEW f \in Files, TaskStep(f)
  PROVE  /\ Files' = Files /\ phase[f] \in WorkPhases
         /\ disk \subseteq disk' /\ disk' \subseteq disk \cup {f}
         /\ phase'[f] \in WorkPhases \cup {"returned"}
         /\ phase'[f] = "linking" \/ result'[f] = "ok" => f \in disk'
         /\ result'[f] = "timedOut" => deadline = "passed"
         /\ \A g \in Files \ {f} : phase'[g] = phase[g] /\ result'[g] = result[g]
<1>1. CASE TaskEnds(f)
  BY <1>1 DEF BatchInv, TypeOK, TaskStep, TaskEnds, EndTask, Files, chosen
<1>2. CASE TaskMoves(f)
  BY <1>2 DEF BatchInv, TypeOK, ResultsAreTrue, TaskStep, TaskMoves, Files, chosen
<1> QED BY <1>1, <1>2 DEF TaskStep

LEMMA TaskKeepsRest ==
  ASSUME BatchInv, NEW f \in Files, TaskStep(f)
  PROVE  /\ InSpawnOrder' /\ ResultsAreTrue' /\ CollectionIsExact'
         /\ AnswerIsWhole' /\ DeadlineIsNeverPartial'
<1>1. /\ Files' = Files /\ phase[f] \in WorkPhases
      /\ disk \subseteq disk' /\ disk' \subseteq disk \cup {f}
      /\ phase'[f] \in WorkPhases \cup {"returned"}
      /\ phase'[f] = "linking" \/ result'[f] = "ok" => f \in disk'
      /\ result'[f] = "timedOut" => deadline = "passed"
      /\ \A g \in Files \ {f} : phase'[g] = phase[g] /\ result'[g] = result[g]
  BY TaskEffect
<1>2. UNCHANGED <<total, limit, pc, spawned, map, failures, deadline>>
  BY DEF TaskStep, chosen, batch
<1>3. InSpawnOrder'
  BY <1>1, <1>2 DEF BatchInv, InSpawnOrder, WorkPhases
<1>4. ResultsAreTrue'
  BY <1>1, <1>2 DEF BatchInv, ResultsAreTrue
<1>5. f \notin map \cup failures
  BY <1>1 DEF BatchInv, CollectionIsExact, WorkPhases
<1>6. CollectionIsExact'
  <2>1. map' \cap failures' = {} /\ map' \subseteq disk'
    BY <1>1, <1>2 DEF BatchInv, CollectionIsExact
  <2>2. \A g \in (map \cup failures)' :
          phase'[g] = "joined" /\ result'[g] # "timedOut"
    BY <1>1, <1>2, <1>5 DEF BatchInv, TypeOK, CollectionIsExact
  <2>3. pc' \notin {"timeout", "error"} =>
          \A g \in Files' : phase'[g] = "joined" => g \in (map \cup failures)'
    BY <1>1, <1>2 DEF BatchInv, CollectionIsExact, WorkPhases
  <2> QED BY <2>1, <2>2, <2>3 DEF CollectionIsExact
<1>7. AnswerIsWhole'
  BY <1>1, <1>2 DEF BatchInv, TypeOK, AnswerIsWhole
<1>8. pc \notin {"ok", "partial"}
  BY <1>5 DEF BatchInv, AnswerIsWhole
<1>9. DeadlineIsNeverPartial'
  BY <1>2, <1>8 DEF DeadlineIsNeverPartial
<1> QED BY <1>3, <1>4, <1>6, <1>7, <1>9

LEMMA SpawnKeeps == BatchInv /\ Spawn => BatchInv'
<1> SUFFICES ASSUME BatchInv, Spawn PROVE BatchInv'
  OBVIOUS
<1>1. total \in Nat /\ limit \in Nat \ {0}
  BY LimitIsPositive DEF BatchInv
<1>2. spawned + 1 \in Files /\ phase[spawned + 1] = "queued" /\ Files' = Files
  BY <1>1 DEF BatchInv, TypeOK, InSpawnOrder, Spawn, Files, chosen
<1>3. PermitsConserved' /\ permits' \in 0 .. limit
  BY SpawningConserves DEF BatchInv
<1>4. TypeOK'
  BY <1>1, <1>2, <1>3
     DEF BatchInv, TypeOK, Spawn, Phases, WorkPhases, Files, chosen
<1>5. InSpawnOrder'
  BY <1>1, <1>2 DEF BatchInv, TypeOK, InSpawnOrder, Spawn, Files, chosen
<1>6. ResultsAreTrue'
  BY <1>2 DEF BatchInv, TypeOK, ResultsAreTrue, Spawn
<1>7. CollectionIsExact'
  BY <1>2 DEF BatchInv, TypeOK, CollectionIsExact, Spawn
<1>8. AnswerIsWhole' /\ DeadlineIsNeverPartial'
  BY DEF AnswerIsWhole, DeadlineIsNeverPartial, Spawn
<1> QED BY <1>3, <1>4, <1>5, <1>6, <1>7, <1>8 DEF BatchInv

\* Taking a returned result out of the JoinSet.
LEMMA JoinKeeps ==
  ASSUME BatchInv, NEW f \in Files, Join(f), pc' \in {"collect", "timeout", "error"},
         map' \subseteq Files, failures' \subseteq Files
  PROVE  /\ TypeOK' /\ PermitsConserved' /\ InSpawnOrder' /\ ResultsAreTrue'
         /\ AnswerIsWhole' /\ DeadlineIsNeverPartial'
         /\ Files' = Files /\ phase[f] = "returned" /\ phase'[f] = "joined"
         /\ \A g \in Files \ {f} : phase'[g] = phase[g]
         /\ f \notin map \cup failures
<1>1. /\ Files' = Files /\ phase[f] = "returned" /\ phase'[f] = "joined"
      /\ \A g \in Files \ {f} : phase'[g] = phase[g]
      /\ phase' \in [Files -> Phases]
  BY DEF BatchInv, TypeOK, Join, Phases, Files, chosen
<1>2. TypeOK'
  BY <1>1 DEF BatchInv, TypeOK, Join, Answers, chosen
<1>3. Working' = Working
  BY <1>1 DEF Working, WorkPhases
<1>4. PermitsConserved'
  BY <1>3, SameWorkConserves DEF BatchInv, Join, chosen
<1>5. InSpawnOrder'
  BY <1>1 DEF BatchInv, InSpawnOrder, Join, chosen
<1>6. ResultsAreTrue'
  BY <1>1 DEF BatchInv, ResultsAreTrue, Join
<1>7. AnswerIsWhole' /\ DeadlineIsNeverPartial'
  BY DEF AnswerIsWhole, DeadlineIsNeverPartial
<1>8. f \notin map \cup failures
  BY <1>1 DEF BatchInv, CollectionIsExact
<1> QED BY <1>1, <1>2, <1>4, <1>5, <1>6, <1>7, <1>8

LEMMA CollectKeeps ==
  ASSUME BatchInv, NEW f \in Files, Collect(f)
  PROVE  BatchInv'
<1>1. Join(f) /\ pc = "collect" /\ pc' = "collect" /\ deadline # "passed"
  BY DEF Collect, Join
<1>2. /\ map' \subseteq Files /\ failures' \subseteq Files
      /\ (map \cup failures)' = map \cup failures \cup {f}
  BY DEF BatchInv, TypeOK, Collect
<1>3. /\ TypeOK' /\ PermitsConserved' /\ InSpawnOrder' /\ ResultsAreTrue'
      /\ AnswerIsWhole' /\ DeadlineIsNeverPartial'
      /\ Files' = Files /\ phase[f] = "returned" /\ phase'[f] = "joined"
      /\ \A g \in Files \ {f} : phase'[g] = phase[g]
      /\ f \notin map \cup failures
  BY <1>1, <1>2, JoinKeeps
<1>4. UNCHANGED <<result, disk>> /\ result[f] # "timedOut"
  BY <1>1 DEF Join, BatchInv, ResultsAreTrue
<1>5. map' \cap failures' = {} /\ map' \subseteq disk'
  BY <1>3, <1>4 DEF BatchInv, ResultsAreTrue, CollectionIsExact, Collect
<1>6. \A g \in (map \cup failures)' : phase'[g] = "joined" /\ result'[g] # "timedOut"
  BY <1>2, <1>3, <1>4 DEF BatchInv, TypeOK, CollectionIsExact
<1>7. \A g \in Files' : phase'[g] = "joined" => g \in (map \cup failures)'
  BY <1>1, <1>2, <1>3 DEF BatchInv, CollectionIsExact
<1>8. CollectionIsExact'
  BY <1>5, <1>6, <1>7 DEF CollectionIsExact
<1> QED BY <1>3, <1>8 DEF BatchInv

LEMMA GivingUpKeeps ==
  ASSUME BatchInv, NEW f \in Files, CollectGivesUp(f)
  PROVE  BatchInv'
<1>1. Join(f) /\ pc' \in {"timeout", "error"} /\ UNCHANGED <<map, failures>>
  BY DEF CollectGivesUp
<1>2. /\ TypeOK' /\ PermitsConserved' /\ InSpawnOrder' /\ ResultsAreTrue'
      /\ AnswerIsWhole' /\ DeadlineIsNeverPartial'
      /\ Files' = Files /\ phase'[f] = "joined"
      /\ \A g \in Files \ {f} : phase'[g] = phase[g]
  BY <1>1, JoinKeeps DEF BatchInv, TypeOK
<1>3. CollectionIsExact'
  BY <1>1, <1>2 DEF BatchInv, TypeOK, CollectionIsExact, Join
<1> QED BY <1>2, <1>3 DEF BatchInv

\* The steps of the loop that move nothing but the loop.
LoopOnly ==
  UNCHANGED <<chosen, deadline, spawned, permits, phase, result, disk, map, failures>>

LEMMA LoopOnlyKeeps ==
  ASSUME BatchInv, LoopOnly,
         pc' \in {"stalled", "loop", "acquire", "collect"} \cup Answers,
         pc' = "acquire" => spawned < total,
         CollectionIsExact', AnswerIsWhole', DeadlineIsNeverPartial'
  PROVE  BatchInv'
<1>1. TypeOK'
  BY DEF BatchInv, TypeOK, LoopOnly, Files, chosen
<1>2. Working' = Working /\ Files' = Files
  BY DEF LoopOnly, Working, Files, chosen
<1>3. PermitsConserved'
  BY <1>2, SameWorkConserves DEF BatchInv, LoopOnly, chosen
<1>4. InSpawnOrder' /\ ResultsAreTrue'
  BY <1>2 DEF BatchInv, InSpawnOrder, ResultsAreTrue, LoopOnly, chosen
<1> QED BY <1>1, <1>3, <1>4 DEF BatchInv

LEMMA LoopStepKeeps == BatchInv /\ (Prepare \/ CheckDeadline \/ Validate) => BatchInv'
<1> SUFFICES ASSUME BatchInv, Prepare \/ CheckDeadline \/ Validate
             PROVE  BatchInv'
  OBVIOUS
<1>1. LoopOnly
  BY DEF Prepare, ResolveFromCache, BeginLoop, ListingFails, ListingStalls,
         CheckDeadline, Validate, LoopOnly
<1>2. Files' = Files /\ total \in Nat
  BY <1>1, LimitIsPositive DEF LoopOnly, Files, chosen, BatchInv
<1>3. pc \notin {"timeout", "error"}
  BY DEF Prepare, ResolveFromCache, BeginLoop, ListingFails, ListingStalls,
         CheckDeadline, Validate, AllJoined
<1>4. CollectionIsExact'
  BY <1>1, <1>2, <1>3 DEF BatchInv, CollectionIsExact, LoopOnly
<1>5. CASE Prepare
  <2>1. pc' \in {"cached", "loop", "error", "stalled"} /\ (pc' = "cached" => disk = Files)
    BY <1>5 DEF Prepare, ResolveFromCache, BeginLoop, ListingFails, ListingStalls
  <2>2. AnswerIsWhole' /\ DeadlineIsNeverPartial'
    BY <1>1, <1>2, <2>1 DEF AnswerIsWhole, DeadlineIsNeverPartial, LoopOnly
  <2> QED BY <1>1, <1>4, <2>1, <2>2, LoopOnlyKeeps DEF Answers
<1>6. CASE CheckDeadline
  <2>1. /\ pc' \in {"collect", "timeout", "acquire"}
        /\ pc' = "acquire" => spawned < total
    BY <1>2, <1>6 DEF CheckDeadline, BatchInv, TypeOK
  <2>2. AnswerIsWhole' /\ DeadlineIsNeverPartial'
    BY <2>1 DEF AnswerIsWhole, DeadlineIsNeverPartial
  <2> QED BY <1>1, <1>4, <2>1, <2>2, LoopOnlyKeeps DEF Answers
<1>7. CASE Validate
  <2>1. /\ map \cup failures = Files /\ map \cap failures = {} /\ map \subseteq disk
        /\ \A f \in Files : result[f] # "timedOut"
    BY <1>7 DEF Validate, AllJoined, BatchInv, TypeOK, CollectionIsExact
  <2>2. pc' = IF failures # {} THEN "partial"
              ELSE IF map = {} THEN "noFiles" ELSE "ok"
    BY <1>7 DEF Validate
  <2>3. Files = {} => total = 0
    BY <1>2 DEF Files
  <2>4. AnswerIsWhole'
    BY <1>1, <1>2, <2>1, <2>2, <2>3 DEF AnswerIsWhole, LoopOnly, chosen
  <2>5. DeadlineIsNeverPartial'
    BY <1>1, <1>2, <2>1 DEF DeadlineIsNeverPartial, LoopOnly
  <2> QED BY <1>1, <1>4, <2>2, <2>4, <2>5, LoopOnlyKeeps DEF Answers
<1> QED BY <1>5, <1>6, <1>7

LEMMA DeadlineKeeps == BatchInv /\ DeadlinePasses => BatchInv'
<1> SUFFICES ASSUME BatchInv, DeadlinePasses PROVE BatchInv'
  OBVIOUS
<1>1. UNCHANGED <<total, limit, pc, spawned, permits, phase, result, disk, map,
                  failures>> /\ Files' = Files
  BY DEF DeadlinePasses, chosen, batch, Files
<1>2. TypeOK'
  BY <1>1 DEF BatchInv, TypeOK, DeadlinePasses
<1>3. PermitsConserved'
  BY <1>1, SameWorkConserves DEF BatchInv, Working
<1>4. InSpawnOrder' /\ ResultsAreTrue' /\ CollectionIsExact'
  BY <1>1 DEF BatchInv, InSpawnOrder, ResultsAreTrue, CollectionIsExact,
              DeadlinePasses
<1>5. AnswerIsWhole' /\ DeadlineIsNeverPartial'
  BY <1>1 DEF BatchInv, AnswerIsWhole, DeadlineIsNeverPartial
<1> QED BY <1>2, <1>3, <1>4, <1>5 DEF BatchInv

LEMMA BatchStep == BatchInv /\ [Next]_vars => BatchInv'
<1> SUFFICES ASSUME BatchInv, [Next]_vars PROVE BatchInv'
  OBVIOUS
<1>1. CASE Batch
  <2>1. CASE Spawn
    BY <2>1, SpawnKeeps
  <2>2. CASE CollectAny
    BY <2>2, CollectKeeps, GivingUpKeeps DEF CollectAny
  <2>3. CASE Prepare \/ CheckDeadline \/ Validate
    BY <2>3, LoopStepKeeps
  <2> QED BY <1>1, <2>1, <2>2, <2>3 DEF Batch, Loop
<1>2. ASSUME NEW f \in Files, Task(f) PROVE BatchInv'
  <2>1. TaskStep(f)
    BY <1>2, TaskIsTaskStep DEF BatchInv
  <2> QED BY <2>1, TaskKeepsTypes, TaskKeepsRest DEF BatchInv
<1>3. CASE DeadlinePasses
  BY <1>3, DeadlineKeeps
<1>4. CASE UNCHANGED vars
  <2>1. Working' = Working /\ Files' = Files
    BY <1>4 DEF vars, chosen, Working, Files
  <2> QED BY <1>4, <2>1
       DEF vars, chosen, batch, BatchInv, TypeOK, PermitsConserved,
           InSpawnOrder, ResultsAreTrue, CollectionIsExact, AnswerIsWhole,
           DeadlineIsNeverPartial
<1> QED BY <1>1, <1>2, <1>3, <1>4 DEF Next

LEMMA BatchInvariant == Spec => []BatchInv
BY BatchInit, BatchStep, PTL DEF Spec

\* Every variable keeps its type.
THEOREM BatchTypeCorrect == Spec => []TypeOK
BY BatchInvariant, PTL DEF BatchInv

\* Every permit is either free or held by exactly one task at work, whichever
\* way the tasks end: never more than `concurrency' files at once.
THEOREM PermitsAreConserved == Spec => []PermitsConserved
BY BatchInvariant, PTL DEF BatchInv

\* What download_all_files_map answers accounts for every selected file.
THEOREM AnswersAreWhole == Spec => []AnswerIsWhole
BY BatchInvariant, PTL DEF BatchInv

\* No file the deadline cut short is reported by a success or a partial
\* download.
THEOREM DeadlinesAreNeverPartial == Spec => []DeadlineIsNeverPartial
BY BatchInvariant, PTL DEF BatchInv
=============================================================================
