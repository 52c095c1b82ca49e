------------------------------ MODULE Inspection ------------------------------
(***************************************************************************)
(* The commands that read many headers at once.                            *)
(*                                                                         *)
(* `diff' reads every shard of one repository and then of another          *)
(* (inspect_shards over fan_out_fail_fast, src/inspect.rs) and compares    *)
(* the two sets of tensors (run_diff, src/bin/main.rs).                    *)
(*                                                                         *)
(* `quants --fits' looks at every sibling repository of a model            *)
(* (discover_quant_siblings, src/discover.rs), makes a row of every        *)
(* artifact, and reads the headers of those in doubt (fan_out_bounded) to  *)
(* say whether each fits a budget (compute_fit_verdicts_concurrent).       *)
(*                                                                         *)
(* `inspect' of a sharded repository reads every shard as `diff' does and  *)
(* reports the tensors of all of them, as a tree (AsTree), by dtype or     *)
(* one by one, and whether the model fits a GPU (run_inspect_repo and      *)
(* run_inspect_repo_aggregated, src/bin/main.rs; KvCache).                 *)
(*                                                                         *)
(* In each, one task is spawned per item on a multi-threaded runtime,      *)
(* a semaphore admits a few at a time, and the results are joined in the   *)
(* order in which the tasks end.                                           *)
(***************************************************************************)
EXTENDS Tensors, KvCache

CONSTANTS
  Diffs,    \* inputs of diff: [a, b : shards as listed, filter, json]
  Searches, \* inputs of quants: [found : repositories, budget, reserve]
  Inspects, \* inputs of inspect: [a : shards as listed, filter, limit, report
            \*   (a table has a limit), gpu, context, elem, config]
  Devices,  \* bytes that may be free on the GPU, NoDevice if there is none
  NoDevice, \* the GPU could not be queried
  AsTree(_), \* what --tree prints of tensors: TreeReport of TensorTree
  Permits,  \* permits of the semaphore: 4 for shards, 8 for repositories
  NoFilter, \* a diff with no --filter
  Nothing   \* no error yet, no answer yet

ASSUME PermitsAssumption == Permits \in Nat \ {0}

\* A shard is [name : Nat, tensors : a function from names to layouts], or
\* for inspect [name : Nat, header : the tensors in the file's order].
\* A repository is [id : Nat, backlink, files]; a file [gguf : BOOLEAN,
\* size : Nat, layers : Seq(Nat)], `layers' what each layer's experts weigh:
\* <<>> also where distinct_layer_indices cannot tell the layers apart, as
\* when names vary at several places or differ in their segments.

Backlinks == {"here", "elsewhere", "none"}

IsList(s) == s \in Seq(Range(s))

\* The files of one listing have different names.
NamedApart(shards) ==
  /\ IsList(shards)
  /\ \A k \in DOMAIN shards : shards[k].name \in Nat
  /\ \A j, k \in DOMAIN shards : shards[j].name = shards[k].name => j = k

ASSUME InputsAssumption ==
  /\ Diffs \cap Inspects = {} /\ (Diffs \cup Inspects) \cap Searches = {}
  /\ Nothing \notin Nat /\ NoEstimate \notin Nat
  /\ Devices \subseteq Nat \cup {NoDevice}

ASSUME DiffsAssumption ==
  \A d \in Diffs : \A shards \in {d.a, d.b} :
    /\ NamedApart(shards)
    /\ \A k \in DOMAIN shards : IsFiniteSet(DOMAIN shards[k].tensors)

ASSUME InspectsAssumption ==
  \A q \in Inspects :
    /\ NamedApart(q.a)
    /\ \A k \in DOMAIN q.a :
         /\ IsList(q.a[k].header)
         /\ \A t \in Range(q.a[k].header) :
              t.shape \in Seq(Nat) /\ t.bytes \in Nat
    /\ q.gpu \in BOOLEAN
    /\ q.context # Nothing => q.context \in Nat /\ q.elem \in Nat
    /\ q.config # Nothing => WellTyped(q.config)

ASSUME SearchesAssumption ==
  \A q \in Searches :
    /\ {q.budget, q.reserve} \subseteq Nat
    /\ IsList(q.found)
    /\ \A repo \in Range(q.found) :
         /\ repo.id \in Nat
         /\ repo.files \in Seq([gguf : BOOLEAN, size : Nat, layers : Seq(Nat)])

VARIABLES
  asked,  \* the command line
  stage,  \* how far the command is
  items,  \* what the fan-out under way was given
  task,   \* where the task of each item is
  out,    \* what its run came to
  failed, \* the flag the tasks of fan_out_fail_fast share
  joined, \* items whose result was kept, in the order they were joined
  error,  \* first_error
  side,   \* the tensors of A, by name, once collected
  rows,   \* the rows of quants
  kv,     \* the bytes of the KV cache, once estimated
  answer  \* what the command printed

fanOut == <<items, task, out, failed, joined, error>>
inspectionVars == <<asked, stage, fanOut, side, rows, kv, answer>>

IsDiff == asked \in Diffs
IsInspect == asked \in Inspects
IsQuants == asked \in Searches
FailFast == stage \in {"shards of A", "shards of B"}
FansOut == FailFast \/ stage \in {"siblings", "verdicts"}

Items == DOMAIN items
Holding ==
  {i \in Items : task[i] \in {"admitted", "cleared", "running", "returning"}}
-----------------------------------------------------------------------------
\* Spawning the tasks awaits nothing, and a task may ask for its permit at
\* any later time: all are spawned in one step.
FanOut(s, work) ==
  /\ stage' = s
  /\ items' = work
  /\ task' = [i \in DOMAIN work |-> "waiting"]
  /\ out' = [i \in DOMAIN work |-> "pending"]
  /\ failed' = FALSE
  /\ joined' = <<>>
  /\ error' = Nothing

Answers(a) ==
  /\ stage' = "answered"
  /\ answer' = a

InspectionInit ==
  /\ asked \in Diffs \cup Inspects \cup Searches
  /\ stage = CASE IsQuants -> "search"
               [] IsDiff -> "list A"
               [] IsInspect ->
                    IF asked.context = Nothing THEN "list A" ELSE "config"
  /\ items = <<>> /\ task = <<>> /\ out = <<>> /\ joined = <<>>
  /\ failed = FALSE
  /\ error = Nothing
  /\ side = <<>>
  /\ rows = <<>>
  /\ kv = NoEstimate
  /\ answer = Nothing

\* compute_kv_inputs: the config may be missing, or fail to be read.
EstimatesCache ==
  /\ stage = "config"
  /\ stage' = "list A"
  /\ kv' \in {NoEstimate} \cup
       IF asked.config = Nothing THEN {}
       ELSE {KvCacheBytes(asked.config, asked.context, asked.elem)}
  /\ UNCHANGED <<asked, fanOut, side, rows, answer>>

\* list_repo_files_with_metadata; only .safetensors files are kept.
Lists ==
  /\ \/ stage = "list A" /\ FanOut("shards of A", asked.a)
     \/ stage = "list B" /\ FanOut("shards of B", asked.b)
  /\ UNCHANGED <<asked, side, rows, kv, answer>>

\* search_models, and the repositories whose name says they are siblings.
SearchAnswers ==
  /\ stage = "search"
  /\ FanOut("siblings", asked.found)
  /\ UNCHANGED <<asked, side, rows, kv, answer>>

RequestFails ==
  /\ stage \in {"list A", "list B", "search"}
  /\ stage' = "failed"
  /\ UNCHANGED <<asked, fanOut, side, rows, kv, answer>>
-----------------------------------------------------------------------------
(* One task: acquire_owned, for a shard the test of `failed', and the run.  *)

Acquire(i) ==
  /\ task[i] = "waiting"
  /\ Cardinality(Holding) < Permits
  /\ task' = [task EXCEPT ![i] = "admitted"]
  /\ UNCHANGED <<asked, stage, items, out, failed, joined, error, side, rows,
                 kv, answer>>

\* A .gguf file, whose header may name the model the repository quantizes.
HasHeader(repo) == \E k \in DOMAIN repo.files : repo.files[k].gguf

Ends(i, o) ==
  /\ task' = [task EXCEPT ![i] = "ended"]
  /\ out' = [out EXCEPT ![i] = o]
  /\ UNCHANGED <<asked, stage, items, joined, error, side, rows, kv, answer>>

Skip(i) ==
  /\ task[i] = "admitted"
  /\ failed
  /\ Ends(i, "skipped")
  /\ UNCHANGED failed

\* A shard's task finds the flag clear; it is set, if it is, behind its back.
PassFlag(i) ==
  /\ FailFast
  /\ task[i] = "admitted"
  /\ ~failed
  /\ task' = [task EXCEPT ![i] = "cleared"]
  /\ UNCHANGED <<asked, stage, items, out, failed, joined, error, side, rows,
                 kv, answer>>

Start(i) ==
  /\ task[i] = IF FailFast THEN "cleared" ELSE "admitted"
  /\ task' = [task EXCEPT ![i] = "running"]
  /\ UNCHANGED <<asked, stage, items, out, failed, joined, error, side, rows,
                 kv, answer>>

Succeed(i) ==
  /\ task[i] = "running"
  /\ Ends(i, "ok")
  /\ UNCHANGED failed

\* A repository could be listed, and the header that may name its source
\* could not be read: CheckFailed.
SucceedUnchecked(i) ==
  /\ stage = "siblings"
  /\ task[i] = "running"
  /\ HasHeader(items[i])
  /\ Ends(i, "unchecked")
  /\ UNCHANGED failed

\* A shard's run has failed; the flag is stored in the next step, and a task
\* that was admitted can still find it clear in between.
Fail(i) ==
  /\ task[i] = "running"
  /\ FailFast
  /\ task' = [task EXCEPT ![i] = "returning"]
  /\ UNCHANGED <<asked, stage, items, out, failed, joined, error, side, rows,
                 kv, answer>>

StoreFailure(i) ==
  /\ task[i] = "returning"
  /\ Ends(i, "err")
  /\ failed' = TRUE

\* A repository could not be listed, or the header of a row not be read.
FailAlone(i) ==
  /\ task[i] = "running"
  /\ ~FailFast
  /\ Ends(i, "err")
  /\ UNCHANGED failed

\* A panic unwinds past the store: the permit is released and the flag is
\* left to the joiner.
Panic(i) ==
  /\ task[i] = "running"
  /\ Ends(i, "panic")
  /\ UNCHANGED failed
-----------------------------------------------------------------------------
(* The joiner.                                                              *)

Failure(o) == o \in {"err", "panic"}

\* The flag, once item i is joined.
Raises(i) == failed \/ (FailFast /\ Failure(out[i]))

\* build_quant_candidate: a header that names another model drops the
\* repository; one that could not be read does not.
Keeps(i) ==
  \/ /\ out[i] = "ok"
     /\ stage = "siblings" /\ HasHeader(items[i])
          => items[i].backlink # "elsewhere"
  \/ out[i] = "unchecked"

Join(i) ==
  /\ task[i] = "ended"
  /\ task' = [task EXCEPT ![i] = "joined"]
  /\ joined' = IF Keeps(i) THEN Append(joined, i) ELSE joined
  /\ failed' = Raises(i)
  /\ error' = IF FailFast /\ Failure(out[i]) /\ error = Nothing
                THEN i ELSE error
  /\ UNCHANGED <<asked, stage, items, out, side, rows, kv, answer>>

AllJoined == \A i \in Items : task[i] = "joined"

Task(i) ==
  \/ Acquire(i) \/ Skip(i) \/ PassFlag(i) \/ Start(i)
  \/ Succeed(i) \/ SucceedUnchecked(i)
  \/ Fail(i) \/ StoreFailure(i) \/ FailAlone(i) \/ Panic(i)
  \/ Join(i)
-----------------------------------------------------------------------------
(* diff: the tensors of a side, and the comparison.                         *)

Kept == [k \in DOMAIN joined |-> items[joined[k]]]

\* Seeded bug: the shards are left in the order they were joined in.
InJoinOrder(shards) == shards

InNameOrder(shards) ==
  SortedBy(shards, [k \in DOMAIN shards |-> shards[k].name])

NamesIn(shards) == UNION {DOMAIN shards[k].tensors : k \in DOMAIN shards}

\* collect_repo_tensors: a later shard's tensor replaces an earlier one's.
Collected ==
  LET shards == InNameOrder(Kept)
      Latest(n) == Max({k \in DOMAIN shards : n \in DOMAIN shards[k].tensors})
  IN  [n \in NamesIn(shards) |-> shards[Latest(n)].tensors[n]]

Compared(a, b) ==
  LET names == {n \in DOMAIN a \cup DOMAIN b :
                  asked.filter = NoFilter \/ n \in asked.filter}
      onlyA == {n \in names : n \notin DOMAIN b}
      onlyB == {n \in names : n \notin DOMAIN a}
      differ == {n \in names \ (onlyA \cup onlyB) : a[n] # b[n]}
      matching == names \ (onlyA \cup onlyB \cup differ)
      Total(side_, only) ==
        IF asked.filter = NoFilter THEN Cardinality(DOMAIN side_)
        ELSE Cardinality(only) + Cardinality(differ) + Cardinality(matching)
  IN  [onlyA |-> onlyA, onlyB |-> onlyB, differ |-> differ,
       matching |-> matching,
       totalA |-> Total(a, onlyA), totalB |-> Total(b, onlyB)]

\* Without --json a side with no tensors ends in a hint.
Diff(a, b) ==
  IF ~asked.json /\ (DOMAIN a = {} \/ DOMAIN b = {})
    THEN stage' = "hinted" /\ UNCHANGED answer
    ELSE Answers(Compared(a, b))

\* Seeded bug: the first error ends the fan-out, whatever still runs.
MayReturnAtOnce == AllJoined \/ error # Nothing

MayReturn == AllJoined

SideFails ==
  /\ FailFast
  /\ MayReturn
  /\ error # Nothing
  /\ stage' = "failed"
  /\ UNCHANGED <<asked, fanOut, side, rows, kv, answer>>

SideCollected ==
  /\ IsDiff
  /\ MayReturn
  /\ error = Nothing
  /\ \/ /\ stage = "shards of A"
        /\ side' = Collected
        /\ stage' = "list B"
        /\ UNCHANGED answer
     \/ /\ stage = "shards of B"
        /\ Diff(side, Collected)
        /\ UNCHANGED side
  /\ UNCHANGED <<asked, fanOut, rows, kv>>
-----------------------------------------------------------------------------
(* inspect: the tensors of all shards, the report on them, and the GPU.     *)

\* The tensors of shards, one shard after the other.
Flat(shards) == FlattenSeq([k \in DOMAIN shards |-> shards[k].header])

Matching(tensors) ==
  IF asked.filter = NoFilter THEN tensors
  ELSE SelectSeq(tensors, LAMBDA t : t.name \in asked.filter)

Limited(tensors) ==
  IF asked.limit = Nothing \/ Len(tensors) <= asked.limit THEN tensors
  ELSE SubSeq(tensors, 1, asked.limit)

\* compute_dtype_groups.
DtypeGroups(tensors) ==
  [d \in {tensors[k].dtype : k \in DOMAIN tensors} |->
     LET ofIt == SelectSeq(tensors, LAMBDA t : t.dtype = d)
     IN  [tensors |-> Len(ofIt), params |-> SumOver(ofIt, Elements),
          bytes |-> SumOver(ofIt, BytesOf)]]

\* The figure in a footer is of what is shown.
ReportOf(tensors) ==
  CASE asked.report = "tree" -> AsTree(tensors)
    [] asked.report = "dtypes" ->
         [groups |-> DtypeGroups(tensors), shown |-> Len(tensors)]
    [] asked.report = "table" -> [table |-> tensors, shown |-> Len(tensors)]

\* sum_tensor_bytes, before filter and limit.
Weights(all) == SumOver(all, BytesOf)

\* print_gpu_check and gpu_check_json; the cache counts where estimated.
FitOn(device, weights) ==
  LET need == IF kv = NoEstimate THEN weights ELSE weights + kv
  IN  CASE device = NoDevice -> [is |-> "no device"]
        [] device # NoDevice /\ device >= need ->
             [is |-> "fits", by |-> device - need]
        [] OTHER -> [is |-> "short", by |-> need - device]

Inspected ==
  /\ IsInspect
  /\ stage = "shards of A"
  /\ MayReturn
  /\ error = Nothing
  /\ LET all == Flat(InNameOrder(Kept))
     IN  IF Kept = <<>>
           THEN stage' = "hinted" /\ UNCHANGED answer
           ELSE \E fit \in IF asked.gpu
                            THEN {FitOn(d, Weights(all)) : d \in Devices}
                            ELSE {Nothing} :
                  Answers([report |-> ReportOf(Limited(Matching(all))),
                           total |-> Len(all), gpu |-> fit])
  /\ UNCHANGED <<asked, fanOut, side, rows, kv>>
-----------------------------------------------------------------------------
(* quants: the rows, and the verdict on each.                               *)

\* build_quant_rows, for one repository: a row per .gguf file, or one for
\* all its .safetensors bytes when it has none.
RowsOf(repo) ==
  LET ggufs == TakenAt(repo.files,
                       {k \in DOMAIN repo.files : repo.files[k].gguf})
      total == SumOver(repo.files, LAMBDA f : f.size)
  IN  CASE ggufs # <<>> -> ggufs
        [] ggufs = <<>> /\ total > 0 ->
             << [gguf |-> FALSE, size |-> total, layers |-> <<>>] >>
        [] OTHER -> <<>>

QuantRows ==
  LET siblings == SortedBy(Kept, [k \in DOMAIN Kept |-> Kept[k].id])
      all == FlattenSeq([k \in DOMAIN siblings |-> RowsOf(siblings[k])])
  IN  SortedBy(all, [k \in DOMAIN all |-> all[k].size])

Ceiling == IF asked.reserve < asked.budget
             THEN asked.budget - asked.reserve ELSE 0

\* trivial_fit_verdict decides without a header.
InDoubt(row) == row.size > Ceiling /\ row.gguf

Trivial(row) ==
  IF row.size <= Ceiling THEN [is |-> "full GPU"] ELSE [is |-> "no mechanism"]

CeilDiv(a, b) == (a + b - 1) \div b

LayersToMove(short, perLayer) == CeilDiv(short, perLayer)

\* compute_offload_plan, over the average weight of a layer's experts.
OffloadPlan(row) ==
  LET count == Len(row.layers)
      perLayer == Sum(row.layers) \div count
      wanted == LayersToMove(row.size - Ceiling, perLayer)
      n == IF wanted < count THEN wanted ELSE count
  IN  IF row.size - n * perLayer > Ceiling
        THEN [is |-> "does not fit"]
        ELSE [is |-> "offload", layers |-> n,
              resident |-> row.size - n * perLayer]

\* distinct_layer_indices finds no layers where only one has experts or the
\* names do not tell which place numbers them (no layers, here); and a layer
\* that weighs nothing on average gives no plan.
NoExperts(row) ==
  \/ Len(row.layers) < 2
  \/ Sum(row.layers) < Len(row.layers)

\* plan_from_header.
FromHeader(row) ==
  IF NoExperts(row) THEN [is |-> "no experts"] ELSE OffloadPlan(row)

\* needs_inspection: the rows that are in doubt, with their indices.
Doubtful(table) ==
  LET at == Ascending({k \in DOMAIN table : InDoubt(table[k])})
  IN  [k \in DOMAIN at |-> [index |-> at[k], row |-> table[at[k]]]]

SiblingsGathered ==
  /\ stage = "siblings"
  /\ MayReturn
  /\ rows' = QuantRows
  /\ IF QuantRows = <<>>
       THEN stage' = "hinted" /\ UNCHANGED <<fanOut, answer>>
       ELSE FanOut("verdicts", Doubtful(QuantRows)) /\ UNCHANGED answer
  /\ UNCHANGED <<asked, side, kv>>

\* What the task of doubtful row i put into its slot.
Slot(i) ==
  CASE out[i] = "ok"  -> FromHeader(items[i].row)
    [] out[i] = "err" -> [is |-> "plan unavailable"]
    [] OTHER          -> [is |-> "did not run"]

\* Seeded bug: a verdict goes to the place it has among the doubtful rows.
ItemOfPlace(k) == IF k \in Items THEN {k} ELSE {}

\* The task that judged row k, if one did.
ItemOf(k) == {i \in Items : items[i].index = k}

Verdict(k) ==
  IF ItemOf(k) = {} THEN Trivial(rows[k])
  ELSE Slot(CHOOSE i \in ItemOf(k) : TRUE)

VerdictsGiven ==
  /\ stage = "verdicts"
  /\ MayReturn
  /\ Answers([k \in DOMAIN rows |-> Verdict(k)])
  /\ UNCHANGED <<asked, fanOut, side, rows, kv>>
-----------------------------------------------------------------------------
InspectionNext ==
  \/ EstimatesCache \/ Lists \/ SearchAnswers \/ RequestFails
  \/ FansOut /\ \E i \in Items : Task(i)
  \/ SideFails \/ SideCollected \/ Inspected
  \/ SiblingsGathered \/ VerdictsGiven

InspectionSpec == InspectionInit /\ [][InspectionNext]_inspectionVars
-----------------------------------------------------------------------------
\* What a fan-out of shards does about errors: once one is joined, by a
\* failed read or a panic, no further shard passes the test of the flag (one
\* that had passed it may yet begin to read), and no fan-out is left while
\* a task still reads: its request would outlive the runtime.
FailsFastAndQuiet ==
  [][IF stage' = stage
       THEN error # Nothing =>
              \A i \in Items :
                task[i] = "admitted" => task'[i] \notin {"cleared", "running"}
       ELSE Holding = {}]_inspectionVars

\* The tensor of that name in the shard that comes last by name.
LastTensor(shards, n) ==
  LET holders == {k \in DOMAIN shards : n \in DOMAIN shards[k].tensors}
      last == CHOOSE k \in holders :
                \A h \in holders : shards[h].name <= shards[k].name
  IN  shards[last].tensors[n]

Wanted(names) ==
  IF asked.filter = NoFilter THEN names ELSE names \cap asked.filter

\* A diff that gives an answer gives the one of all the shards of both
\* repositories, in whatever order they were read: every tensor is in one
\* of the four lists, the right one, and the totals are those of the lists.
DiffIsOfTheContents ==
  IsDiff /\ stage = "answered" =>
    LET inA == Wanted(NamesIn(asked.a))
        inB == Wanted(NamesIn(asked.b))
        same == {n \in inA \cap inB :
                   LastTensor(asked.a, n) = LastTensor(asked.b, n)}
    IN  /\ answer.onlyA = inA \ inB
        /\ answer.onlyB = inB \ inA
        /\ answer.matching = same
        /\ answer.differ = (inA \cap inB) \ same
        /\ answer.totalA = Cardinality(inA)
        /\ answer.totalB = Cardinality(inB)

\* A verdict on the GPU is of the whole model, whatever is shown of it, and
\* of a cache that is the sum of what each layer keeps, where the config
\* allows an estimate and does not contradict itself about its layers.
FitIsOfTheModel ==
  /\ IsInspect /\ stage = "answered" /\ asked.gpu
  /\ kv # NoEstimate => Consistent(asked.config)
  =>
    LET weights == SumOver(Flat(asked.a), BytesOf)
        caches == IF kv = NoEstimate THEN 0
                  ELSE BytesOfLayers(asked.config, asked.context, asked.elem)
        need == weights + caches
    IN  \/ NoDevice \in Devices /\ answer.gpu = [is |-> "no device"]
        \/ \E d \in Devices \ {NoDevice} :
             answer.gpu = IF d >= need THEN [is |-> "fits", by |-> d - need]
                                       ELSE [is |-> "short", by |-> need - d]

\* The layers that, moved out of the first ones, leave a row under the
\* ceiling when every layer weighs what the average one does.
EnoughLayers(row) ==
  {n \in 0 .. Len(row.layers) :
     row.size - n * (Sum(row.layers) \div Len(row.layers))
       <= Ceiling}

\* What --fits should say of a row whose header was read.
RightVerdict(row) ==
  LET perLayer == Sum(row.layers) \div Len(row.layers)
      n == Min(EnoughLayers(row))
  IN  IF row.size <= Ceiling THEN [is |-> "full GPU"]
      ELSE IF ~row.gguf THEN [is |-> "no mechanism"]
      ELSE IF Len(row.layers) < 2 \/ perLayer = 0 THEN [is |-> "no experts"]
      ELSE IF EnoughLayers(row) = {} THEN [is |-> "does not fit"]
      ELSE [is |-> "offload", layers |-> n, resident |-> row.size - n * perLayer]

\* Row by row, whatever the order the headers came in, --fits gives the
\* verdict that is right for that row, with the least number of layers
\* moved; only a row whose own header failed, or whose own task panicked,
\* gets another, which says so.
VerdictsAreTheRows ==
  IsQuants /\ stage = "answered" =>
    /\ DOMAIN answer = DOMAIN rows
    /\ \A k \in DOMAIN rows :
         \/ answer[k] = RightVerdict(rows[k])
         \/ \E i \in Items :
              /\ items[i].index = k
              /\ \/ out[i] = "err" /\ answer[k] = [is |-> "plan unavailable"]
                 \/ out[i] = "panic" /\ answer[k] = [is |-> "did not run"]
=============================================================================
