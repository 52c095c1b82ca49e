# A TLA+ model of hf-fetch-model

hf-fetch-model downloads files of Hugging Face repositories into the standard
`hf-hub` cache, with several connections per file, several files at a time, and
resumption of what an earlier run left behind; around that core it inspects,
deduplicates and cleans the cache, and reads file headers remotely. This
directory models the download core and the parts around it that race with it or
with the Hub, checks the models with TLC on small instances and proves the
properties of all of them, but liveness and one property of trees, with TLAPS.
Paths below are relative to the
repository's root.

1. [The system](#the-system)
2. [The modules](#the-modules)
3. [The runs](#the-runs)
4. [Fairness](#fairness)
5. [The proofs](#the-proofs)
6. [What the code does not keep](#what-the-code-does-not-keep)
7. [Modelling decisions](#modelling-decisions)
8. [What is not modelled](#what-is-not-modelled)
9. [The plan](#the-plan)

## The system

A cache directory holds, per repository, `blobs/<etag>` (contents),
`snapshots/<commit>/<filename>` (pointers, links to blobs) and
`refs/<revision>` (the commit a revision named last). Everything below reads or
writes these three; there is no other shared state between processes.

| component | state it keeps | operations | what is hard about it | what makes it correct | module |
|---|---|---|---|---|---|
| chunked download (`src/chunked.rs`, `src/chunked_state.rs`, `src/atomic_write.rs`, `src/retry.rs`) | `blobs/<etag>.chunked.part`, its `.state` sidecar and `.state.tmp`; per-chunk `completed` under an async mutex | probe, prepare or resume, one task per chunk, checkpoints, retries, rename, pointer, ref, clean-up | one task per chunk and one file for all; a crash between any two steps; write-behind file I/O; resumption with other settings | a published blob is whole; a sidecar never claims a byte that is not there; blob, pointer and ref appear in this order; every session ends | `ChunkedDownload` |
| batch and dispatch (`src/download.rs`) | semaphore, `JoinSet`, deadline, file map, failure list | list, look at the cache, spawn, download, link (`finish_fetch`), collect, validate | tasks, loop and clock interleave; five ways for a task to end; two layers of timeouts | permits are conserved; the answer accounts for each file; the batch ends | `DownloadBatch` |
| direct and hf-hub downloads (`src/chunked.rs`, `src/download.rs`) | the snapshot file | 416 fallback, `resolve_commit_hash`, checksum | the snapshot file is written in place; a bad checksum leaves the file | whoever looks at a truncated file can tell | `CacheAudit`, `Dedupe` |
| cache inspection (`src/cache.rs`, `src/checksum.rs`) | none (reads the cache) | `repo_status`, `verify_cache`, disk usage, partials, duplicates | it reads file by file while downloads write and the revision moves; one file has several names | what it reports was so; bytes are charged once | `CacheAudit`, `DiskUsage` |
| deduplication (`src/cache/dedupe.rs`) | temporary link names | plan, apply, link one pointer | time passes between plan, comparison and rename | a pointer never goes missing nor loses its contents; nothing is left behind | `Dedupe` |
| range reader (`src/http_range.rs`) | window, tail, budgets, position | `read`, `seek`, fetch | window growth against budgets; the file changing upstream | it reads what a local file would give, within its budgets | `RangeReader`, `FileReader` |
| header cache (`src/header_cache.rs`, `src/bin/main.rs`) | one JSON file per etag | look up, load, save, prune | several processes, several etags, a clock | a header shown was the file's in the time it is shown for | `HeaderCache` |
| cache maintenance (`src/bin/main.rs`) | none | clean-partial, delete, gc | it decides, prompts, then acts | nothing in use is removed; what is promised to be freed is | `CacheMaintenance` |
| inspection of many files (`src/inspect.rs`, `src/discover.rs`, `src/bin/main.rs`) | a semaphore, a flag, a `JoinSet` | fan out, join, diff, reports, rows and verdicts | results in any order; errors that must stop the rest; siblings merged into ranges | the answer does not depend on the order; a report stands for the tensors it is of | `Inspection`, `Tensors`, `TensorTree`, `InspectionReports` |
| GPU estimates (`src/gpu_check.rs`) | none | size the weights and the KV cache, compare with the GPU | layers of several kinds, counted by rounding divisions | the estimate is the sum over the layers | `KvCache`, `Inspection` |
| peek (`src/peek.rs`) | a buffer, the reader's two budgets | show all, the first or the last lines or bytes of a remote file | the end, the count and the cap can fall on one byte; a backward scan fetches bytes again | what is shown is what was asked for, or the note says it is not; the budgets suffice; the scan ends | `Peek`, `RangeReader` |
| discovery, planning, parsers (`src/discover.rs`, `src/plan.rs`, ...) | none | parse, list, compute | arithmetic at boundaries | they agree with their definitions | none |

How they interact: the command line or a library caller starts a batch; the
batch looks at the cache, then spawns one task per file; each task dispatches
to a chunked download, an hf-hub download or a direct GET, and links its
pointer; all of them end in the cache, which the inspection, deduplication and
maintenance commands, usually other processes, read and change with no lock but
the ones hf-hub takes.

## The modules

**`ChunkLayout`** is the arithmetic of `download_chunked` (lines 448-461):
which bytes chunk `i` of `c` has. `ChunkLength` is what
`ChunkProgress::is_complete` compares with.

**`PublishedFile`** is the abstract specification of one cached file: a blob
appears whole, a pointer only to a blob that is there, a ref only to a commit
whose pointer is there. Only these three steps exist.

**`ChunkedDownload`** is the download of one file over any number of sessions.

| state | in the code |
|---|---|
| `part`, `side`, `tmp`, `blob`, `pointer`, `ref` | the files on disk, per version (etag) |
| `upstream` | what the revision names on the server |
| `pc`, `ver`, `conns` | where `download_chunked` is, what the probe said, the layout |
| `mem` | the `completed` counters of `shared_state` |
| `st`, `att`, `served` | where each chunk's task is, the retries it used, whose bytes its response carries |
| `cur`, `last`, `land`, `werr` | `current_completed`, `last_checkpoint`, what of it has reached the file, a write error nobody was told of |
| `fin`, `snap`, `at` | the save under way: final or not, its contents, the name the open file has now |

A partial file is a function from offsets to the version whose byte is there,
or `Hole`: the properties can tell a byte of another version, or one that
`set_len` only allocated, from the right one. A session goes through `Begin`,
`Resume` or `WipePart`/`WipeSide`/`CreatePart`/`SaveFresh`, the chunk tasks,
`JoinDone` or `JoinFailed`, and `FinalizeRename`/`FinalizeLink`/`FinalizeRef`/
`RemoveSidecar`; each is what the code does between two awaits. A chunk's task
requests the rest of its chunk, opens the partial and seeks in it (which the
fault `writeError` lets fail, for good: `OpenFails`), receives pieces of any
size, checkpoints when `SIDECAR_CHECKPOINT_BYTES` have come since the last one,
and retries. A save is
three steps (open with truncation, write, rename), because every task of a
session saves through the same `.tmp` path with no lock held.

**`DownloadBatch`** is `download_all_files_map`: the listing, the cache lookup,
the spawn loop with its deadline check and its permit (`CheckDeadline`,
`Spawn`), one task per file, and `collect_results` with
`validate_download_results` (`Collect`, `CollectGivesUp`, `Validate`). A task
fetches (a cached file, a fresh one, an error, a fallback to a direct GET),
links its pointer, and gives its permit back in the step in which it ends.
`disk` is the set of files that `resolve_cached_file` finds, whole or not: a
checksum is verified after the file is in place, a direct GET writes in place.
The deadline passes at any moment.

**`RangeReader`** is the reader that header parsers hold (`RangeReader::read`
and `seek` over `HttpRangeFetcher`). `window` and `tail` are the two cached
extents, each with the version its bytes are of and whether the response named
that version; `limits` are the two budgets the reader was opened with
(`Opened` is `open_with_limits`), `requests` and `bytesFetched` what of them is
spent;
`responseEtag` is the first etag an answer had. A read is one action: it takes
`&mut self`, so nothing comes between its steps but the file's change upstream,
which is an action of its own. **`FileReader`** is what it implements: a local
file. A read gives bytes from the position and moves past them, gives none only
at the end, and moves nothing when it fails.

**`Peek`** is `peek` over that reader: `validate_resolved`, then `stream_cat`
and `stream_tail_bytes` (`ReadToEnd`), `stream_head` with `bounded_copy`
(`HeadReads`, `HeadCapped`), or the doubling scan of `stream_tail_lines`
(`TailReads`, `TailWidens`, `TailShows`), one call of the reader to a step. The
module extends `RangeReader` and opens the reader with the figures of
`transport_limits` (`TransportLimits`) as its `limits`, so that a budget that
runs out is `RangeReader`'s own refusal. The names are therefore distinct:
`PeekSpec` is the specification of a peek, `Spec` that of a reader under any
calls. A byte is its position: `content` has the
positions of what was buffered, and `breaks` those of the newlines, so a byte
lost, doubled or out of place shows. The size of the buffers that
`read_to_end` chooses is the standard library's, and free. The file does not
change during a peek: what the reader does then is in `range_reads`. A
compressed file is left out.

**`HeaderCache`** is `inspect_remote_with_cache` with `find_recent`, `load`,
`save_atomic` and `prune_superseded`, run by several processes on one file.
`entry` has the files of the cache by etag (two etags are two paths); each
inspection reads the directory one path at a time (`Scan`), may answer from an
entry that is recent (`ServeRecent`), else probes, loads (`LoadHit`,
`LoadMiss`), fetches ranges and parses, saves, and prunes, one path at a time.
A process may be killed at any step. A save is one step whose outcome is any
that two processes saving through one temporary file can produce, a blend
included. `lastSeen`
remembers when a version was last the revision's, `alone` whether an inspection
had the cache to itself; properties read them, guards do not.

**`Dedupe`** has a directory as a function from names to files (`ino`) and
from files to contents (`data`): hard links are names with one file. It begins
in every arrangement that downloads and earlier runs leave. Each process plans
(`PlanDedupe`), removes leftovers, and takes its candidates one by one:
`Choose`, `CompareEqual` or `CompareDiffers` per blob, then `link_over` in its
steps (`CheckIdentity`, `StageLink`, `RenameLink`, `TidyLink`). The same
`link_over` is what a download's `finish_fetch` reaches through `LinkFresh`.
Meanwhile hf-hub removes and recreates a pointer as a copy, a chunked download
publishes a blob and its pointer, and clean-partial removes what made
`download_in_progress` true.

**`CacheMaintenance`** has repositories as cache entries (nothing, a directory,
a link to a directory elsewhere) with their bytes and age, the partial download
of each, and the three commands, each as the record of what it decided
(`GcPlans`, `DeleteResolves`, `CleanFinds`) and has yet to do. Between the two
a user sits at a prompt: downloads begin, write and end, other processes
remove, and a repository may be moved behind a link. `delete_repo_dir` can
fail, also in part.

**`DiskUsage`** is `walk_repo_files`, from which `du`, `status` and `dedupe`
take their figures: `blobs/`, `snapshots/` and the rest, one entry per step,
with `physical_id` against charging a file twice, and then `pair_duplicates`,
one blob per step. The layout does not change: the order of directory entries
is what varies, and the layout is any.

**`CacheAudit`** is `status`, `verify` and `list-files --show-cached`: the local
ref, the Hub's listing (in either order), then one file at a time (`Looks`,
`Hashes`, `StatsPart` and `ReadsSidecar` for a download in progress), while a
chunked download, a direct one or a foreign one writes, is interrupted, and the
revision moves. The downloads are as coarse as an onlooker can tell apart;
`ChunkedDownload` has the whole of the chunked one. Any file, in LFS or not,
may be one whose server refuses ranges (`NoRanges`): it can then also come by
`download_direct`, in place. A pointer is a link, whole at once, or on Windows
a copy, cut off until its bytes are written (`Pointers`, `MakesPointer`,
`CopiesBlob`; hf-hub's, `HubPublishes` and `HubCopies`).

**`Inspection`** is the fan-out over many headers (`fan_out_fail_fast` for
shards, `fan_out_bounded` for repositories) and the three commands made of it:
`diff` reads the shards of one repository and then of another and compares the
tensors; `inspect` of a sharded repository may first estimate the KV cache,
reads the shards, and reports on the tensors that match, with a verdict on the
GPU if asked; `quants --fits` looks at sibling repositories, makes rows, and
reads the headers of the rows in doubt. A task waits for a permit, tests the
flag (`Skip`, `PassFlag`), begins to read in a step of its own (`Start`), and
ends well, with an error or by a panic; tasks are joined in any order of those
that have ended. What a row's experts weigh per layer is an input, as the code
gets it from the names in a header: it is empty where `distinct_layer_indices`
cannot say which part of the names numbers the layers (names that vary in
several places, or differ in their number of segments), and both give the
verdict of a model without experts (`NoExperts`). The names are distinct from those of the
other commands (`InspectionSpec`, `InspectionNext`), so that one module can
have the proofs of both.

**`Tensors`** is what a tensor weighs, and the sums and stable sorts that the
commands make of sequences, written so that they can be proved about: a sort is
given by how many elements come before each (`Ordered`). A tensor weighs what
its `data_offsets` span, whatever its dtype and shape are; the code checks
neither against the other, and nothing here needs it but the ranges of a tree
(`HeadersAssumption`, below).

**`KvCache`** has `kv_cache_bytes` over configs that are records of the fields
present, and `BytesOfLayers`, the sum of what each layer keeps by the config's
own words. `WellTyped` is what the fields hold; `Consistent`, that a config
does not contradict itself about its layers, which the code does not test.

**`TensorTree`** has the operators of `inspect --tree`: a trie of name segments
(`Trie`, `Below`), the tree with its chains merged (`ToTree`), and the ranges
(`TryCollapse`). A segment is its rank in text order, with the number it reads
as, so that text order and number order differ as they do in the code.
`Expand` is what a reader takes a tree to say, and `Honest` that its figures
are of that. These operators recurse over names, which keeps them from the
prover. `Inspection` therefore has the tree as a parameter, `AsTree`;
**`InspectionReports`** extends both and states what a report stands for, and
`MCInspection` gives `AsTree` the tree of `TensorTree`. What is proved of
`Inspection` holds whatever a tree prints.

Each `MC` module gives its component's constants their values.
The theorems are in `ChunkedDownloadProofs`, `DownloadBatchProofs`,
`RangeReadProofs` (the reader and peek), `HeaderCacheProofs`, `DedupeProofs`,
`CommandProofs` (`CacheMaintenance` and `Inspection`) and
`CacheInspectionProofs`; **`FiniteSums`** has the lemmas about sums and finite
sets that three of them share. `CacheInspectionProofs` and `CommandProofs`
extend two models each, which share no state; their names are therefore
distinct (`WalkSpec` is the specification of `DiskUsage`, `Spec` that of
`CacheAudit`).

The definitions whose comment begins with "Seeded bug" are not part of any
specification: each is a variant of the definition that follows it, and breaks
the property it is there for.

## The runs

| run | what it varies | what it shows |
|---|---|---|
| `chunked_sessions` | 2 versions of 3 and 2 bytes, the revision moves between sessions, 1 or 2 connections, a checkpoint per byte, 1 retry, saves that fail | types, honest sidecars, whole blobs, no progress lost within a session, the refinement of `PublishedFile` |
| `chunked_ends` | 2 bytes, refused and lost writes | every session ends |
| `batch_answers` | 0 to 3 files, 1 or 2 permits, any subset cached, stalls, panics, a deadline | types, permits, whole answers, no deadline disguised as a failure, every batch with a listing ends |
| `range_reads` | 3 versions of 6, 6 and 5 bytes, buffers of 0 to 2, any seek, answers with and without etag, every budget | one version is cached, the position is covered, the tail is paid once, growth costs no read, the refinement of `FileReader` |
| `header_entries` | 2 processes, 2 revisions (one cannot move), 2 versions, a clock, kills | a header is of its time, an inspection run alone leaves no superseded entry |
| `dedupe_links` | 1 blob, 2 pointers, 3 files in every arrangement, 2 processes, one download, kills | no stray link, no pointer lost or spoiled, no bytes freed that are not |
| `maintenance` | 2 repositories, ages, sizes and partials, one command at a time | the budget is met or said not to be, figures are what is freed, the oldest go first, running downloads and bytes behind links are spared |
| `disk_usage` | 3 blob names, 3 entries, 1 other file on 4 files and a shared payload, in every arrangement | what deleting frees, that the figures add up, that each byte is for one thing |
| `cache_audit` | 1 LFS file of two contents, 1 small file, 2 commits, the three commands, all three downloads, links and copies | verdicts hold at one commit, progress was true |
| `inspection` | diffs of 0 to 3 shards (listed out of order, a tensor twice), 151 inspections with trees, dtypes or tables, 152 configs at three context lengths and without one, searches of 0 to 4 repositories, 2 permits, errors and panics | diff and report are those of the contents, the fit that of the whole model, each verdict its row's, no shard passes the flag after a failure or outlives the answer |
| `peeks` | files of 0, 3, 8 and 17 bytes with up to 3 newlines anywhere, a cap of 3, 8 or 18, all, or the first or last 1, 2 or 10 lines or bytes, requests that fail | what is shown without a note is what was asked for, with it as much as the cap allows; the budgets suffice but in one case (below); every peek ends |
| `chunked_write_error` | a write that fails after it was taken | a comment that the code does not keep (below) |

Bounds, and why they are enough:

- *Bytes.* Three bytes over two connections give chunks of one and two: an
  uneven division, a chunk that ends in one piece and one that takes several,
  and a checkpoint inside a chunk. A partial of one connection met with two
  (and the reverse) is a session whose layout differs from the sidecar's.
- *`SidecarCheckpointBytes`* is 1: every byte checkpoints, so two tasks save at
  once.
- *`MaxRetries`* is 1: one attempt after a failed one is where a stale offset
  would show. No property counts further, and the proofs hold for any number.
- *`OneAtATime`* (a constraint) keeps `chunked_sessions` to states in which the
  other version has no partial file: the paths of two etags differ, and the
  session that meets its own version's leftovers is in the run.
- *Sessions* are unbounded: the state space is finite without a limit on them.
- *Files and permits.* Three files with one permit make the loop wait twice;
  with two permits two tasks run while the loop waits. `Limits` and the cached
  subset are chosen in the initial state.
- *Range reads.* Six bytes with a tail of two and a window that grows from one
  to three leave room for growth before the tail, into it and at the end; four
  requests and seven bytes run out in the middle of each.
- *Peeks.* The scan begins at one byte and doubles, so its windows are 1, 2, 4,
  8, 16: a cap of 8 is met by doubling, 3 lies between two windows, and 18 is
  just above one, so that the file of 17 needs a last window of its own. The
  files are empty, below, at and above the caps, and three newlines have each
  count of lines reached, missed by one, and reached at the very edge of a
  window. The floors of the budgets are low enough (4 bytes, 2 requests) that
  the cap decides them, as it does in the code above 16 MiB.
- *Header entries.* A window of one tick and two ticks of time have entries
  that are recent and entries that are not. Two versions and two processes are
  symmetric.
- *Dedupe* (`SmallRuns`): a second name of the copy or a second process at
  work, but not both; one download under way (`AtOnce`); one link left by a
  kill. Three files are a blob, a copy and what a download makes.
- *Maintenance* (`OneOfEach`): one command, one partial download and one link
  at a time. Two repositories are enough for one to be evicted in place of the
  other; ages and sizes take two values each, and the shared store has a byte.
- *Audit* (`OneOfEach`): one chunked download, a foreign one only where
  `status` looks, one damaged copy and only where `verify` looks. A direct
  download of the file in LFS begins where no chunked one has left anything:
  the two share no path but the pointer's. The small file, whose contents do
  not change, is in one snapshot at a time.
- *Trees.* Every stack of one to five layers of two kinds has every pair of
  edges up to the limit (`MaxEdgeOutliers`, 3 as in the code); eleven layers
  have a segment 10 that is before 2 in text order, and edges that are full or
  one too long; stacks of experts nest a range, whole or in part, in a range.
- *Configs* have up to five layers, so every offset, period, interval and
  window falls before, on and after an end; contexts are below, at and above
  the windows. The devices are free for all, some and none of them.
- *Faults* of the downloads are named in `FaultKinds` and switched on per run;
  a run lists the ones its question is about.

A `VIEW` drops what no later step can depend on: the contents of a file nobody
can reach, a history variable whose command is over.

`CHECK_DEADLOCK FALSE` is set where the system may stop: after every version
has been published, after a batch, a peek or a command has answered, or where all the
time there is has passed. `range_reads` and `header_entries` check for
deadlocks.

## Fairness

`ChunkedDownload!Fairness` is weak fairness of the session's own steps and of
each chunk's task: tokio polls every task that can run, and a request or a
write that was issued ends in one way or another. The last part is what
`timeout_per_file` (300 s by default) gives: `dispatch_download` drops a
session that waits longer, which is `Interrupt`. Interruptions themselves,
faults and new sessions are under no fairness.

`DownloadBatch!Fairness` is weak fairness of the loop, of each file's task and
of the clock. A task in phase `fetching` ends because `timeout_per_file` ends
it; a task in phase `stuck`, a direct GET whose peer went silent, has no step
of its own and is ended by the deadline alone; a stalled listing has no step at
all. `BatchEnds` therefore says nothing of a peer's goodwill, and it is checked
with a deadline: without `timeout_total` a silent peer can hold the 416
fallback for ever, since `download_direct` runs outside `timeout_per_file`.

`PeekSpec` has weak fairness of its next step: one blocking thread runs a peek
from beginning to end, and each request it waits for has a timeout.

The other modules state no liveness. Their processes do a bounded number of
steps, each a local file operation or a request with its own timeout; what can
go wrong is what they leave and what they say, and they may be killed anywhere.

## The proofs

All hold for every value of the constants that the `ASSUME`s of the modules
allow: any size, any set of connection counts not above it, any number of
retries, files, permits.

- **`ChunkedDownloadProofs`**: the chunks cover the file (`ChunksCover`) and are
  disjoint (`ChunksDisjoint`). Both rest on `c * (t \div c) <= t`.
- **`TypeCorrect`** (types) from `TypeInv`, which adds what types need to be
  inductive: the memory never runs ahead of what a task has received
  (`MemBelowCur`), and tasks exist only while the session runs them
  (`TasksInRun`).
- **`CompletedIsMonotonic`**: a step of the same invariant never lowers a
  `completed` counter within a session.
- **`SidecarIsHonest`**, assuming `NoDataLoss` (no write of file data is
  refused or lost). The property itself says nothing while tasks run, so the
  invariant follows the bytes: what has landed is not a hole and what is
  claimed has been received (`Frontier`); a save under way, and whatever is in
  `.tmp`, claims no more than memory does (`SavesBelow`, `FilesHonest`); no
  sidecar exists when an empty partial is created (`NoSidecarAtCreate`), which
  is what the order of the two removals is for; and no write has failed
  (`NoWriteErrors`). It needs no assumption about torn or blended saves: an
  unreadable sidecar is no sidecar.
- **`BlobsAreIntact`** and **`DownloadImplementsPublishedFile`**, assuming
  besides `NoForeignBytes` (the revision does not move while a session runs,
  and a response that ends without an error carries the whole range). The
  invariant adds that the session's version is the one upstream
  (`SessionIsCurrent`, `ServedIsVersion`), that partial files hold bytes of
  their own etag only (`PartialMatchesEtag`), that a finished task has its
  whole chunk in the file (`DoneIsComplete`), and that blob, pointer and ref
  follow one another (`InOrder`). With `ChunksCover`, all chunks complete
  means the file is. The refinement then maps `FinalizeRename`, `FinalizeLink`
  and `FinalizeRef` to the three steps of `PublishedFile`, and every other
  step to a stutter.
- **`DownloadBatchProofs`**: `PermitsAreConserved`, `AnswersAreWhole`,
  `DeadlinesAreNeverPartial` and the types, with no assumption on the faults.
  The ten ways a task steps are first reduced to two (`TaskEnds`,
  `TaskMoves`); the invariant `BatchInv` adds that files are spawned in order
  (a permit is taken for a file that holds none), that results are true of the
  cache and of the clock (`ResultsAreTrue`), and that what has been collected
  is what has been joined (`CollectionIsExact`).

- **`RangeReadProofs`**: the types, `ReaderOneFile`, `ReaderAlwaysCovered`,
  `ReaderTailPaidOnce`, `ReaderGrowthNeverOverruns`, and
  `ReaderRefinesFile`, the refinement of `FileReader`. The invariant `IInv` is
  the types, `OneFile`, `AlwaysCovered` and `TailShape` (a tail that is there
  reaches from `TailStart` to the end of the file): that a fetched window stops
  before the tail, and that tail and window together cover what growth asks
  for, follows from where the tail is. Each action is reduced to what it
  fetches (`FetchKeepsIInv`) and what it serves (`ServeStep`); the refinement
  reads off the same two lemmas.
- **`RangeReadProofs`** on `Peek`: `PeekShowsWhatWasAsked` and
  `PeekBudgetsSuffice`, for any file, cap, count and arrangement of newlines,
  with requests that fail anywhere. The invariant `PeekInv` adds to the
  reader's what is known while a peek reads: the buffer holds consecutive
  positions, from where it began up to the reader's (`Reading`), and the budget
  spent is paid for. Forward (`ForwardSpent`), every byte from the start to the
  window's end was fetched once, and once the windows have grown to a chunk
  each request brings one. Backward (`BackwardSpent`), the tail is fetched
  first, a scan that reaches beyond it fetches one window, and the scans so far
  add up to no more than twice the last (`ScansSpent`). The widest scan alone
  comes on top, which is the exception of `BudgetsSuffice`. For what is shown,
  the newlines of a buffer of consecutive positions are counted as a set of
  positions: a head is kept up to the least position that has the count before
  it (`HeadShape`), and a tail begins behind the newline that has the count
  after it, which `LastLinesShape` and `LineStartUnique` show to be the line
  start that the definition asks for. `LimitsAssumption` is what the sizes in
  the two files must satisfy for this: a chunk, a read-ahead and a tail fit
  twice into the least budget, a scan begins no longer than the tail, windows
  can grow to a chunk, and the slack of requests pays for the first chunk in
  windows of any extent. The code's 64 KiB, 4 KiB, 1 MiB, 32 MiB and 32 requests
  do, with room. The limits saturate in the code, at 2^64 bytes and 2^32
  requests; a file of that length is not considered.
- **`HeaderCacheProofs`**: `HeaderTypeOK`, `NoneIsLeftBehind` and
  `HeaderOfItsTime`, for any number of processes, versions and revisions. The
  first two hold wherever branches go. Their invariant `PInv` says that an
  entry is at the path of its own etag, as is one about to be saved
  (`OwnPaths`), that while an inspection is said to be alone no other is under
  way (`AloneIs`), and that such an inspection, pruning, has nothing superseded
  among the paths it has read, but for the entry it is about to remove
  (`Swept`): an entry read and kept stays what it was, since nobody else saves,
  and one found is removed from the path it was found at, since that is its
  etag's. `HInv`, for `HeaderOfItsTime`, says what of the remote and of the
  disk is always true (`RemoteOK`: `lastSeen` is what was seen; `DiskOK`: every
  readable entry is `Honest`: its header was the file's since it was stamped,
  and if it is not the header of the etag it is labelled with, that etag is no
  longer its revision's) and what each process knows at each of its phases
  (`Knows`). It assumes `~EtagsRecur`: a branch does not go back to contents it
  had before. If it does, an entry whose body was read after the etag was
  probed can be labelled with an etag that becomes true again, and the entry is
  then served for contents it does not have (below).
- **`DedupeProofs`**: the types, `NoLinksAreLeft`, `FreesAreTrue` and
  `GoodPointersAreKept`, all three properties of `Dedupe`, for any number of
  processes, blobs and pointers. `NoStrayLinks` is inductive over the types. A
  copy that is said to free its bytes has one name since it was chosen
  (`FreesOK`): links are made of blobs and new files are nobody's, so none gets
  that file as a second name (`NoNewNames`). For the pointers, the invariant
  says what each name may hold (`BlobsOK`, `PointersOK`, `TempsOK`), that the
  file hf-hub writes has one name (`WritingOK`), and that a pointer once found
  equal to its blob is no better than it while the blob is rotten (`NotBetter`,
  `LinkOK`): a link that is renamed over it then takes nothing away, but for a
  blob published since it was staged. The theorem assumes `ContentsDiffer`: no
  two blobs hold the same contents, so that the blob found equal is the
  pointer's own. Where a repository has one file under two blob names (a git
  hash and a SHA-256), it says nothing.
- **`CommandProofs`** on `CacheMaintenance`: all its five properties, for
  any finite set of repositories with any sizes and times, any budgets and
  ages, and any interleaving of the three commands with downloads and with
  deletions by others. What makes them inductive is that a command acts on what
  it saw before it asked: as long as nobody disturbed it, what it has not got
  to is as it was then, and what it has freed is what the cache has lost
  (`GcAccounts`, `DeleteAccounts`); the sizes still planned are what separates
  the cache from its budget, so that a plan carried out meets it. And what it
  has yet to remove is no running download, unless that is too old or wrote
  since (`GcSparesFresh`), holds no lock or began since (`CleanSparesLocked`).
  `OldestGoFirst` is about the plan itself: a repository is planned when what
  goes before it leaves the cache over its budget, and what goes before is an
  initial part of an order of the repositories (`Before`), so that the last of
  them is the one the budget still needed.
- **`CommandProofs`** on `Inspection`: `DiffAnswersOfTheContents`,
  `FitsGivesTheRowsVerdicts`, `FitIsOfTheWholeModel` and `FanOutFailsFast`, for
  any listings, headers, configs, budgets, number of permits and order in which
  tasks end. `InspectionInv` says of a fan-out what it was given (`WorkOK`),
  that a task has a result exactly when it has ended and none is left where the
  command has moved on (`TasksOK`), that the results kept are those of the
  tasks joined that deserve it, each once (`JoinedOK`), and that the flag and
  the first error have a cause and no joined cause is without them
  (`ErrorsOK`). So when a side ends without an error, what was kept is a
  permutation of what was listed (`NothingLeftOut`). That the order does not
  matter is then about sequences: sorted by name it still is one
  (`SortedAgain`), in which the tensor of a name that comes last is that of the
  shard that is last by name (`LastIs`); the weights of a concatenation add up
  (`WeighedConcat`) and a permutation keeps a sum (`SumPermuted`). What was
  collected before is remembered by `KeptOK`. The rows in doubt have distinct
  indices, so each verdict has one task (`ItemOf`), and the layers to move, a
  rounded-up division, are the least that suffice. For the cache, a config that
  can be estimated has its layers counted as a set, field by field: those of an
  offset and a period, and those of an interval, are arithmetic progressions
  (`CountSteps`), those of a list are counted by the list (`ListedCount`); the
  sum over the layers is then that of two constant parts (`SumConst`).
  `FitIsOfTheModel` asks for `Consistent`: of a config whose lists are longer
  or shorter than its stack, or name a layer twice, it says nothing, as there
  is no layer to count the rest for.
- **`CacheInspectionProofs`** on `DiskUsage`: its three properties, for any
  directories, lengths and order of reading. `IInv` follows the walk: what is
  charged is each file met, once (`Charged`); what the entries lead to is known
  (`Findings`); a copy is kept for each file that only entries name, until a
  blob is paired with it, and the bytes of the copies kept and of the
  duplicates found add up to those of all copies met (`SoleCopies`); duplicates
  and orphans are the blobs dealt with that no entry leads to (`Paired`).
  `FiguresAreComplete` then splits the files of the directory into those listed
  and those not: with no file under two entries the listing is a sum of sums
  over disjoint sets.
- **`CacheInspectionProofs`** on `CacheAudit`: its two properties, for any
  files, listings, commits and contents, any set of files without ranges, and
  pointers that are links, copies or either. Of the cache the invariant says
  that what is at the path of a file that takes ranges is what the file was at
  that commit, and is cut off only where pointers can be copies
  (`SnapshotsOK`, `Published`), since it arrives from a finished blob; and that a
  sidecar tells no more than its temp file has and is gone before another temp
  file is created (`SidecarsOK`). Of the report it says that nothing is judged
  before ref and listing are both read, and that one file at a time waits for
  its verdict, which is in LFS (`AuditOK`) and, if about to be hashed, is there
  (`HashOK`). A copy that was hashed was seen when it was looked at, and its
  digest there is that of the listing's commit, so a mismatch is damage, a copy
  in the making, or the direct download's (`Differs`).
- **`FiniteSums`**: what a sum over a finite set is (`SumStep`), that it grows
  and shrinks with the set and with one term (`SumAdd`, `SumRemove`,
  `SumSubset`), and that it is additive over disjoint sets (`SumUnion`,
  `SumOfSums`). They are proved of `MapThenSumSet`, as the models use it. Each
  would be an induction over the set, which the library states with an operator
  as parameter and no prover here can instantiate; a set of counterexamples
  with a minimal member (`MinimalSubset`, from the strict subsets of a finite
  set being well-founded) does the same.

The assumptions are not decoration: `chunked_write_error` switches on a fault
that `NoDataLoss` excludes, and the property fails; with `upstreamMove`, which
`NoForeignBytes` excludes, `BlobIntact` does.

What the `ASSUME`s ask for is little: `MaintenanceAssumption` that the
repositories are finitely many, each with a rank of its own (the order in which
ties are broken), and that sizes and times are naturals; `UsageAssumption` that
the directories are finite and have no path in common, and that a payload of
the shared store is no file of the repository; `AuditAssumption` that the
listing has sizes of all files in LFS, that commits are numbered, and that
contents have a length, which is not zero (an empty file has no cut-off copy);
`DiffsAssumption`, `InspectsAssumption` and `SearchesAssumption` that the files
of a listing have different names, that shapes, lengths, sizes and the
numbers of a config are naturals; `InputsAssumption` that the three commands can be told
apart, and `PermitsAssumption` that there is a permit. `HeadersAssumption`, that
within a model tensors alike in dtype and shape have one length, is asked for
by `ReportStandsForTensors` alone: `try_collapse_range` takes it for granted
when it multiplies the totals of one instance (`src/bin/main.rs:9167`), and
nothing tests it, so a header whose offsets contradict its shapes can give a
range wrong totals. TLC evaluates them in the runs.

Only model-checked: `SessionEnds`, `BatchEnds` and `PeekEnds` (liveness is
beyond the prover); `ReportStandsForTensors` (a tree recurses over names with
`RECURSIVE` operators, which the prover does not take, and what it computes
would be shown by induction over data); and the violation.

## What the code does not keep

- **`chunked_write_error`**. tokio's `write_all` returns when the bytes are
  with the blocking pool. The checkpoint that follows counts them; if the write
  then fails, the task reports an error, but the sidecar already claims the
  bytes, and the next session resumes past the hole (`src/chunked.rs:915`
  against `src/chunked_state.rs:42`).

Met while modelling, not runs of their own:

- `verify_cache_with_progress` reads the commit of the local ref
  (`src/cache.rs:2222`) and then lists the revision as it is now (line 2225).
  After the revision moved, the intact file of the old commit is compared with
  the digest of the new contents and reported as `SHA256 MISMATCH`, which
  `docs/cli-reference.md:639` calls corruption. `VerdictsHoldAtOneCommit` is
  therefore stated for one commit.
- `transport_limits` gives a peek twice `--max` (from 16 MiB on) as "headroom
  for" the doubling scan (`src/peek.rs:620`), but windows that double up to
  just below the widest one, and that one, add up to almost three times as
  much: a `--tail N --max 17MiB` whose scan reaches the cap, or the start of a
  file just below it, fails with an exhausted budget. This is the exception in
  `BudgetsSuffice`, which `peeks` meets with a cap of 18. The theorem says that
  it is the only one: no scan fails of which three fit in the budget, so none
  with the default `--max` of 10 MiB.
- `bounded_copy` tests the cap before it reads on (`src/peek.rs:493`): a file
  exactly `--max` long with fewer lines than `--head` asks for is shown whole
  under a note that it was cut, against `src/peek.rs:133`.
- `last_n_lines` counts newlines (`src/peek.rs:445`): a last line that has none
  comes on top of the count, so `--tail 1` of `a\nb` prints both lines.
  `LastTerminatedLines` follows the code.
- Two chunk tasks save through one `.state.tmp`. One truncates the file the
  other is about to rename, or writes to it after the rename; an interruption
  there leaves a sidecar that does not parse, against
  `src/chunked_state.rs:160-163`. The cost is a download from the start; the
  proof of `SidecarIsHonest` shows that it is not a hole.
- Chunk requests name the revision and their answers' etags are not compared:
  after a move during a session (the fault `upstreamMove`), the old etag's
  partial gets the new contents' bytes (`src/chunked.rs:845` against
  `src/chunked_state.rs:68-70`).
- The "hard wall-clock cap on the whole batch" of `docs/configuration.md:33`
  does not cover the listing and metadata requests (`src/download.rs:207`; the
  fault `listingStalls`), and the 416 fallback runs under no timeout of its own.
- `finish_fetch` is kept outside the deadline so that the comparison does not
  turn "a finished download into a timeout" (`src/download.rs:869-871`);
  `collect_results` checks the deadline again (line 969), and does.
- A blob published between the staging of a link and its rename does not reach
  the link: the pointer then has the old blob's file, which nothing else names
  (`Outdated` in `GoodPointersKept`; `src/cache/dedupe.rs`, `link_over`).
- clean-partial looks, prompts, and removes without looking again; a partial
  that has gone meanwhile ends the command with an error.
- An entry of the header cache is labelled with the etag of the probe although
  its body is read later (`src/bin/main.rs:9718`); see `EtagsRecur`.
- `download_direct` resolves the commit and then fetches what the revision
  names (`src/chunked.rs:1061` and 1075): between the two a move puts the new
  contents under the old commit, by way of an in-place write that, interrupted,
  leaves a short file which a listing without a size counts as complete. The
  fallback is taken for files in LFS too: `verify` then finds a mismatch in a
  file that is intact, but of another commit.
- Between the creation of a temp file at its full length and the first sidecar
  (`src/chunked.rs:719-733`) `status` reports the full length as progress
  (`src/cache.rs:1067`). A file that moves from temp name to pointer between
  `status`'s two looks is reported missing.
- A panicking shard leaves the flag to the joiner: shards that have their
  permit by then may still start, until the panic is joined. A shard that
  found the flag clear may begin to read after the error was joined, on another
  thread; it is waited for.
- Segments such as `00` and `01` parse as numbers: they collapse to `[0..1]`
  and lose their padding (`src/bin/main.rs:9101`). The segments of `TensorTree`
  have no padding.
- Weights are summed over the shards, so a tensor that is in two of them counts
  twice (`src/bin/main.rs:10478`), where the tree has it once; so does the
  model.
- A config whose `layer_types` mix sliding and full attention, without a
  `sliding_window_pattern`, is given a uniform window
  (`src/gpu_check.rs:517`): its full layers are counted at the window's length.
  A hybrid whose interval is longer than its stack has no attention layer, and
  is counted as all attention (`src/gpu_check.rs:351`). `IsAttention` and
  `Reach` follow the code in both.
- `DownloadPlan::fully_cached` is "Whether all files are already cached"
  (`src/plan.rs:66`) but tests `download_bytes == 0`: files of no or unknown
  size that are missing do not count, and `download_with_plan`
  (`src/lib.rs:770`) then answers with a snapshot directory without them.
- An offload plan divides by the *average* weight of a layer's experts
  (`src/bin/main.rs:2886`), and an unknown size counts as 0 and fits.

## Modelling decisions

- *Write-behind* (`Receive`, `Land`). A `tokio::fs::File` starts a blocking
  write and returns; the next write, flush or drop meets its outcome. A
  blocking write survives the future that started it, so a dropped session and
  an ended task are taken where no write is outstanding (`Quiet`), except under
  the fault `lostWrite`, a process that dies.
- *One step or several.* `File::create` with `set_len`, and the first save,
  are one step each: a crash inside leaves what a crash before or after leaves
  (an unreadable or missing sidecar, a partial without one). The write of a ref
  is one step: `read_ref` reads an empty ref as none. A rename is atomic.
- *`initial_offset`* of a chunk is never above its `completed`, so their
  maximum, which the code takes, is `completed`.
- *Early return.* A session whose pointer exists changes nothing, and is no
  step.
- *Sizes.* `ParametersAssumption` has no more connections than bytes; below
  that the code's `(i + 1) * 0 - 1` underflows, listed among the hazards.
- *The server* honours ranges, as the probe requires of it: a chunk gets a
  prefix of the range it asked for, clamped to the contents there are.
- *The batch* stops its tasks asynchronously (`Abort`): after the answer a task
  may still finish, or publish its file, before it is dropped. A panic stands
  for any library that panics inside a task.
- *One lock-free reader.* `RangeReader::read` is one step, since nobody else
  can call it; what it may see change is the remote file.
- *Directories* are read one entry per step where a process can change them
  meanwhile, in any order, as `read_dir` gives them; in `CacheMaintenance` a
  listing is one step, since what the user is shown is what matters.
- *Renaming a link onto another name of the same file* does nothing on Unix
  (`RenameDoesNothing`), which is why `link_over` tidies.
- *The order of evictions* within a gc plan is left out: the plan is a set, and
  `StillOver` says for each repository whether the running total reaches it.
  Partial bytes are not counted, as in the code.
- *Blobs* in `DiskUsage` are distinct files, as nothing makes them one.
- *In `CacheAudit`* an excluded file and a missing one are both "absent"; files
  are looked at in any order, of which the code's is one; a session that
  resumes has the bytes its sidecar has, and one whose connections are not the
  sidecar's starts afresh, which any session may here.
- *Fan-outs* join in any order in which tasks may end, which includes orders a
  scheduler will not produce; a repository's files weigh what its listing says;
  a model split over several GGUF files is judged file by file, as the code
  does. Listing and headers are read at different moments: the contents are
  taken as fixed.

## What is not modelled

A 200 answer that carries the whole file; two sessions, or two processes, on
one partial file; retry delays; the remaining-files count of progress events;
the single-file entry point; the checksum after publication other than as a
file that is in the cache and failed. Of `src/bin/main.rs`, by far the longest
file, the greater part parses arguments and lays out tables: it decides
nothing that a property could be about, and the map leaves it out; the same of
`src/config.rs`, `src/progress.rs`, `src/error.rs` and `src/format.rs`. The
parsers of `src/inspect.rs`, and the thresholds of
`src/plan.rs`, are functions without state; unit tests reach them better than
enumeration does. Of `peek`, the decoding of gzip and the resolution of the
flags are left out. Of `inspect`, `--group-by`, the cached walk, which
is sequential, and the summary from the shard index alone are left out. In
`PROJECT.json` each component has its status, and each hazard that no property
covers a note.

## The plan

Done: `ChunkedDownload` with `PublishedFile`, `DownloadBatch`, `RangeReader`
with `FileReader`, `HeaderCache`, `Dedupe`, `CacheMaintenance`, `DiskUsage`,
`CacheAudit`, `Peek` over `RangeReader`, `Inspection` with `Tensors` and
`KvCache` (checked and proved); `TensorTree` (checked).

Worth adding, in this order:

1. Two sessions on one `.chunked.part` (two processes, or two files of one
   repository with the same etag), for which `ChunkedDownload`'s session
   variables become functions of a session.
2. `GoodPointersKept` where two blobs hold the same contents, with a second
   blob in `dedupe_links`.
3. The layout at the width of `u64`, and the retry delay at its overflow,
   against reference definitions.
4. The single-file entry point in `DownloadBatch`.
