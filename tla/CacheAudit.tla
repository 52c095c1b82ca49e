------------------------------ MODULE CacheAudit ------------------------------
(***************************************************************************)
(* The commands that tell what of a repository is cached, while downloads  *)
(* write to it and the repository moves on: `status' (repo_status and      *)
(* run_status), `cache verify' (verify_cache_with_progress and             *)
(* run_cache_verify) and `list-files --show-cached' (run_list_files).      *)
(* They look at the snapshot that the local ref names and compare it with  *)
(* the listing of the revision as it now is on the Hub, one file at a      *)
(* time.                                                                   *)
(*                                                                         *)
(* The downloads are as coarse as an onlooker can tell apart: the chunked  *)
(* download with its temp file and sidecar (src/chunked.rs; ChunkedDownload*)
(* has the whole of it), the direct one (download_direct), and hf-hub's.   *)
(***************************************************************************)
EXTENDS Integers, FiniteSets

CONSTANTS
  RepoFiles, \* the files of the repository
  Lfs,       \* those of them in LFS: the listing has their digest
  Sized,     \* those whose size the listing has
  NoRanges,  \* those whose server refuses requests for a range
  Pointers,  \* how a snapshot's file can be made from its blob: "link", "copy"
  Commits,   \* commits of the revision, oldest first: 1 .. n
  DigestOf,  \* what the file is at a commit
  SizeOf,    \* how long a content is
  NoCommit,  \* the ref is missing
  NoCopy     \* nothing is at that path

Digests == {DigestOf[f][c] : f \in RepoFiles, c \in Commits}
Missing == -1

ASSUME AuditAssumption ==
  /\ Lfs \subseteq RepoFiles /\ Sized \subseteq RepoFiles /\ Lfs \subseteq Sized
  /\ NoRanges \subseteq RepoFiles
  /\ Pointers \subseteq {"link", "copy"}
  /\ Commits # {} /\ Commits \subseteq Nat
  /\ DigestOf \in [RepoFiles -> [Commits -> Digests]]
  /\ SizeOf \in [Digests -> Nat \ {0}]
  /\ NoCommit \notin Commits

\* What is at a path of a snapshot; "copying" is what hf-hub is still writing.
States == {"whole", "short", "copying", "rotten"}
CutOff == {"short", "copying"}
Copies == [digest : Digests, state : States]

ASSUME CopyAssumption == NoCopy \notin Copies

CopyLength(copy) ==
  IF copy.state \in CutOff THEN SizeOf[copy.digest] - 1 ELSE SizeOf[copy.digest]

VARIABLES
  upstream,   \* the commit the revision names on the Hub
  ref,        \* the commit refs/<revision> names
  snap,       \* snapshots/<commit>/<filename>
  part,       \* bytes of blobs/<digest>.chunked.part that the session counts
  side,       \* the sum of its sidecar's `completed'
  incomplete, \* bytes in blobs/<digest>.incomplete
  fetch,      \* the download under way
  audit,      \* the command under way
  looked,     \* what it found at each path
  had,        \* bytes fetched into the temp file when it found that
  verdict     \* what it says of each file

cache == <<ref, snap, part, side, incomplete>>
report == <<audit, looked, had, verdict>>
vars == <<upstream, cache, fetch, report>>

Idle == [at |-> "idle"]
Unjudged == [is |-> "unjudged"]

Init ==
  /\ upstream \in Commits
  /\ ref = NoCommit
  /\ snap = [c \in Commits |-> [f \in RepoFiles |-> NoCopy]]
  /\ part = [d \in Digests |-> Missing]
  /\ side = [d \in Digests |-> Missing]
  /\ incomplete = [d \in Digests |-> Missing]
  /\ fetch = Idle
  /\ \E command \in {"status", "verify", "list-files"} :
       audit = [command |-> command, at |-> "begun", commit |-> NoCommit,
                listed |-> NoCommit, incomplete |-> incomplete, left |-> RepoFiles]
  /\ looked = [f \in RepoFiles |-> NoCopy]
  /\ had = Missing
  /\ verdict = [f \in RepoFiles |-> Unjudged]
-----------------------------------------------------------------------------
(* The chunked download.                                                    *)

FetchIs(step) == fetch.at = step /\ UNCHANGED <<upstream, report>>
Goes(step) == fetch' = [fetch EXCEPT !.at = step]

\* prepare_or_resume_temp_file resumes from a temp file with a sidecar, unless
\* its layout is that of another number of connections (is_compatible_with).
Resumable(d) == part[d] # Missing /\ side[d] # Missing

ChunkedBegins(f) ==
  LET d == DigestOf[f][upstream]
  IN  /\ fetch = Idle
      /\ snap[upstream][f] = NoCopy
      /\ \E resumes \in {FALSE, Resumable(d)} :
           /\ fetch' = [at |-> IF resumes THEN "fetch" ELSE "clear part",
                        file |-> f, commit |-> upstream, digest |-> d]
           /\ part' = IF resumes THEN [part EXCEPT ![d] = side[d]] ELSE part
      /\ UNCHANGED <<upstream, ref, snap, side, incomplete, report>>

ClearsPart ==
  /\ FetchIs("clear part")
  /\ part' = [part EXCEPT ![fetch.digest] = Missing]
  /\ Goes("clear sidecar")
  /\ UNCHANGED <<ref, snap, side, incomplete>>

\* Seeded bug: the sidecar is left to the first save to replace.
Remaining(d) == side[d]

Cleared(d) == Missing

ClearsSidecar ==
  /\ FetchIs("clear sidecar")
  /\ side' = [side EXCEPT ![fetch.digest] = Cleared(fetch.digest)]
  /\ Goes("create")
  /\ UNCHANGED <<ref, snap, part, incomplete>>

\* The temp file is created at its full length, with nothing fetched yet.
CreatesPart ==
  /\ FetchIs("create")
  /\ part' = [part EXCEPT ![fetch.digest] = 0]
  /\ Goes("save")
  /\ UNCHANGED <<ref, snap, side, incomplete>>

SavesSidecar ==
  /\ fetch.at \in {"save", "fetch"} /\ FetchIs(fetch.at)
  /\ side' = [side EXCEPT ![fetch.digest] = part[fetch.digest]]
  /\ Goes("fetch")
  /\ UNCHANGED <<ref, snap, part, incomplete>>

Unfinished(d) == part[d] < SizeOf[d]

FetchesMore ==
  /\ FetchIs("fetch")
  /\ Unfinished(fetch.digest)
  /\ part' = [part EXCEPT ![fetch.digest] = @ + 1]
  /\ UNCHANGED <<ref, snap, side, incomplete, fetch>>

\* finalize_chunked_download: blob, pointer, ref; then the sidecar goes.
RenamesTemp ==
  /\ FetchIs("fetch")
  /\ ~Unfinished(fetch.digest)
  /\ part' = [part EXCEPT ![fetch.digest] = Missing]
  /\ Goes("link")
  /\ UNCHANGED <<ref, snap, side, incomplete>>

\* symlink_or_copy leaves what is there by now; a link is whole at once, a
\* copy once its bytes are written.
KeepsPointer ==
  /\ FetchIs("link")
  /\ snap[fetch.commit][fetch.file] # NoCopy
  /\ Goes("write ref")
  /\ UNCHANGED cache

MakesPointer(way) ==
  /\ FetchIs("link")
  /\ snap[fetch.commit][fetch.file] = NoCopy
  /\ snap' = [snap EXCEPT ![fetch.commit][fetch.file] =
                [digest |-> fetch.digest,
                 state |-> IF way = "copy" THEN "short" ELSE "whole"]]
  /\ Goes(IF way = "copy" THEN "copy" ELSE "write ref")
  /\ UNCHANGED <<ref, part, side, incomplete>>

CopiesBlob ==
  /\ FetchIs("copy")
  /\ snap' = [snap EXCEPT ![fetch.commit][fetch.file] =
                [digest |-> fetch.digest, state |-> "whole"]]
  /\ Goes("write ref")
  /\ UNCHANGED <<ref, part, side, incomplete>>

WritesRef ==
  /\ FetchIs("write ref")
  /\ ref' = fetch.commit
  /\ Goes("tidy")
  /\ UNCHANGED <<snap, part, side, incomplete>>

TidiesSidecar ==
  /\ FetchIs("tidy")
  /\ side' = [side EXCEPT ![fetch.digest] = Missing]
  /\ fetch' = Idle
  /\ UNCHANGED <<ref, snap, part, incomplete>>

Chunked ==
  \/ \E f \in Lfs : ChunkedBegins(f)
  \/ ClearsPart \/ ClearsSidecar \/ CreatesPart \/ SavesSidecar
  \/ FetchesMore \/ RenamesTemp
  \/ KeepsPointer \/ CopiesBlob \/ \E way \in Pointers : MakesPointer(way)
  \/ WritesRef \/ TidiesSidecar
-----------------------------------------------------------------------------
(* The direct download, the fallback for a file that takes no range         *)
(* requests (416 Range Not Satisfiable), in LFS or not.                     *)

\* resolve_commit_hash: the local ref, or the Hub's commit, which becomes
\* the ref.  A file that is there already ends it.
DirectResolves(f) ==
  LET c == IF ref = NoCommit THEN upstream ELSE ref
  IN  /\ fetch = Idle
      /\ ref' = c
      /\ fetch' = IF snap[c][f] # NoCopy THEN Idle
                  ELSE [at |-> "get", file |-> f, commit |-> c]
      /\ UNCHANGED <<upstream, snap, part, side, incomplete, report>>

\* The GET names the revision: its body is the file as it is there by now.
DirectGets ==
  /\ FetchIs("get")
  /\ fetch' = [at |-> "open", file |-> fetch.file, commit |-> fetch.commit,
               digest |-> DigestOf[fetch.file][upstream]]
  /\ UNCHANGED cache

\* tokio::fs::write, in place: the file is there before its bytes are.
DirectOpens ==
  /\ FetchIs("open")
  /\ snap' = [snap EXCEPT ![fetch.commit][fetch.file] =
                [digest |-> fetch.digest, state |-> "short"]]
  /\ Goes("write")
  /\ UNCHANGED <<ref, part, side, incomplete>>

DirectWrites ==
  /\ FetchIs("write")
  /\ snap' = [snap EXCEPT ![fetch.commit][fetch.file].state = "whole"]
  /\ fetch' = Idle
  /\ UNCHANGED <<ref, part, side, incomplete>>

\* The download fails or is killed, wherever it is; the disk is full.
Interrupted ==
  /\ fetch # Idle
  /\ fetch' = Idle
  /\ UNCHANGED <<upstream, cache, report>>

Direct ==
  \/ \E f \in NoRanges : DirectResolves(f)
  \/ DirectGets \/ DirectOpens \/ DirectWrites
-----------------------------------------------------------------------------
(* The world outside.                                                       *)

\* hf-hub and huggingface_hub append to an .incomplete file, and publish: the
\* ref is written once the pointer is made, at once as a link or as a copy.
HubBegins(d) ==
  /\ incomplete[d] = Missing
  /\ incomplete' = [incomplete EXCEPT ![d] = 0]
  /\ UNCHANGED <<upstream, ref, snap, part, side, fetch, report>>

HubFetches(d) ==
  /\ incomplete[d] \in 0 .. SizeOf[d] - 1
  /\ incomplete' = [incomplete EXCEPT ![d] = @ + 1]
  /\ UNCHANGED <<upstream, ref, snap, part, side, fetch, report>>

HubPublishes(f, way) ==
  LET d == DigestOf[f][upstream]
  IN  /\ incomplete[d] = SizeOf[d]
      /\ incomplete' = [incomplete EXCEPT ![d] = Missing]
      /\ snap' = [snap EXCEPT ![upstream][f] =
                    [digest |-> d, state |-> IF way = "copy" THEN "copying" ELSE "whole"]]
      /\ ref' = IF way = "copy" THEN ref ELSE upstream
      /\ UNCHANGED <<upstream, part, side, fetch, report>>

HubCopies(c, f) ==
  /\ snap[c][f] # NoCopy
  /\ snap[c][f].state = "copying"
  /\ snap' = [snap EXCEPT ![c][f].state = "whole"]
  /\ ref' = c
  /\ UNCHANGED <<upstream, part, side, incomplete, fetch, report>>

UpstreamMoves ==
  /\ upstream + 1 \in Commits
  /\ upstream' = upstream + 1
  /\ UNCHANGED <<cache, fetch, report>>

Rots(c, f) ==
  /\ snap[c][f] # NoCopy
  /\ snap[c][f].state = "whole"
  /\ snap' = [snap EXCEPT ![c][f].state = "rotten"]
  /\ UNCHANGED <<upstream, ref, part, side, incomplete, fetch, report>>

World ==
  \/ Interrupted \/ UpstreamMoves
  \/ \E d \in Digests : HubBegins(d) \/ HubFetches(d)
  \/ \E f \in RepoFiles, way \in Pointers : HubPublishes(f, way)
  \/ \E c \in Commits, f \in RepoFiles : HubCopies(c, f) \/ Rots(c, f)
-----------------------------------------------------------------------------
(* The audit.                                                               *)

\* list-files asks the Hub first, the others read the ref first.
First == IF audit.command = "list-files" THEN "list" ELSE "read ref"
Last == IF audit.command = "list-files" THEN "read ref" ELSE "list"
AfterListing == IF audit.command = "status" THEN "read blobs" ELSE "look"

Reads(step) ==
  /\ \/ audit.at = "begun" /\ First = step
     \/ audit.at = Last /\ Last = step
  /\ UNCHANGED <<upstream, cache, fetch, looked, had, verdict>>

NextRead == IF audit.at = "begun" THEN Last ELSE AfterListing

ReadsRef ==
  /\ Reads("read ref")
  /\ audit' = [audit EXCEPT !.at = NextRead, !.commit = ref]

Lists ==
  /\ Reads("list")
  /\ audit' = [audit EXCEPT !.at = NextRead, !.listed = upstream]

ListingFails ==
  /\ Reads("list")
  /\ audit' = [audit EXCEPT !.at = "failed"]

\* incomplete_sizes, once for all the files.
ReadsBlobs ==
  /\ audit.at = "read blobs"
  /\ audit' = [audit EXCEPT !.at = "look", !.incomplete = incomplete]
  /\ UNCHANGED <<upstream, cache, fetch, looked, had, verdict>>

Says(f, v) ==
  /\ verdict' = [verdict EXCEPT ![f] = v]
  /\ audit' = [audit EXCEPT !.at = "look", !.left = @ \ {f}]
  /\ UNCHANGED <<upstream, cache, fetch>>

ListedDigest(f) == DigestOf[f][audit.listed]

\* Seeded bug: a file that is there is complete.
NeverShort(f, copy) == FALSE

ShortOfListing(f, copy) == f \in Sized /\ CopyLength(copy) < SizeOf[ListedDigest(f)]

ByLength(f, copy) ==
  IF ShortOfListing(f, copy)
    THEN [is |-> "partial", progress |-> CopyLength(copy)]
    ELSE [is |-> "complete"]

\* "missing", or "excluded" where a preset leaves the file out.
Absent == [is |-> "absent"]

Found(f) == IF audit.commit = NoCommit THEN NoCopy ELSE snap[audit.commit][f]

\* What is known of a file once its path was looked at.
Looks(f) ==
  /\ audit.at = "look" /\ f \in audit.left
  /\ looked' = [looked EXCEPT ![f] = Found(f)]
  /\ UNCHANGED had
  /\ CASE audit.command = "verify" /\ f \notin Lfs -> Says(f, [is |-> "skipped"])
       [] audit.command # "verify" /\ Found(f) # NoCopy ->
            Says(f, ByLength(f, Found(f)))
       [] audit.command = "list-files" \/ f \notin Lfs ->
            Says(f, Absent)
       [] audit.command = "verify" /\ Found(f) = NoCopy -> Says(f, Absent)
       [] OTHER ->
            /\ audit' = [audit EXCEPT
                 !.at = IF audit.command = "verify" THEN "hash" ELSE "stat",
                 !.left = @ \ {f}]
            /\ UNCHANGED <<upstream, cache, fetch, verdict>>

\* The file being looked at: all before it are judged.
Current(f) == f \notin audit.left /\ verdict[f] = Unjudged

\* verify_sha256.
Hashes(f) ==
  /\ audit.at = "hash" /\ Current(f)
  /\ looked' = [looked EXCEPT ![f] = Found(f)]
  /\ Says(f, IF Found(f) = [digest |-> ListedDigest(f), state |-> "whole"]
               THEN [is |-> "ok"] ELSE [is |-> "mismatch"])
  /\ UNCHANGED had

\* An unreadable file ends the whole verification.
HashFails ==
  /\ audit.at = "hash"
  /\ audit' = [audit EXCEPT !.at = "failed"]
  /\ UNCHANGED <<upstream, cache, fetch, looked, had, verdict>>

\* partial_chunk_size: the temp file first, then its sidecar.
StatsPart(f) ==
  /\ audit.at = "stat" /\ Current(f)
  /\ had' = part[ListedDigest(f)]
  /\ IF part[ListedDigest(f)] # Missing
       THEN /\ audit' = [audit EXCEPT !.at = "sidecar"]
            /\ UNCHANGED <<upstream, cache, fetch, verdict>>
       ELSE Says(f, IF audit.incomplete[ListedDigest(f)] # Missing
                      THEN [is |-> "partial",
                            progress |-> audit.incomplete[ListedDigest(f)]]
                      ELSE Absent)
  /\ UNCHANGED looked

\* Without a sidecar the temp file's length counts, and that is the file's.
ReadsSidecar(f) ==
  /\ audit.at = "sidecar" /\ Current(f)
  /\ Says(f, [is |-> "partial",
              progress |-> IF side[ListedDigest(f)] # Missing
                             THEN side[ListedDigest(f)] ELSE SizeOf[ListedDigest(f)]])
  /\ UNCHANGED <<looked, had>>

Audit ==
  \/ ReadsRef \/ Lists \/ ListingFails \/ ReadsBlobs \/ HashFails
  \/ \E f \in RepoFiles : Looks(f) \/ Hashes(f) \/ StatsPart(f) \/ ReadsSidecar(f)

Next == Chunked \/ Direct \/ World \/ Audit

Spec == Init /\ [][Next]_vars
-----------------------------------------------------------------------------
\* What makes a digest differ from that of the listing.
Differs(f, copy) ==
  \/ copy.state = "rotten"
  \/ copy.state \in CutOff /\ (f \in NoRanges \/ "copy" \in Pointers)
  \/ f \in NoRanges /\ copy.digest # ListedDigest(f)

\* While the revision stays where the ref has it, the verdicts are about the
\* copies: a complete file is no cut-off one of that commit, and a digest
\* differs only where a copy was damaged, was cut off where pointers are
\* copies, or came by a direct download, which may have it cut off or of
\* another commit (repo_status, cache verify).
VerdictsHoldAtOneCommit ==
  audit.listed # NoCommit /\ audit.listed = audit.commit =>
    \A f \in RepoFiles :
      /\ verdict[f].is = "complete" /\ f \in Sized =>
           ~(looked[f] # NoCopy /\ looked[f].digest = ListedDigest(f)
               /\ looked[f].state \in CutOff)
      /\ verdict[f].is = "mismatch" => Differs(f, looked[f])
      /\ verdict[f].is = "ok" => looked[f].state = "whole"

\* The progress of a chunked download is never overstated: the bytes told
\* were in the temp file when it was looked at or are there now, unless it is
\* no more, although the two are read one by one (partial_chunk_size).
\* Without a sidecar the whole length is told: see the README.
ProgressWasTrue ==
  [][\A f \in RepoFiles :
       audit.at = "sidecar" /\ verdict'[f] # verdict[f]
         /\ side[ListedDigest(f)] # Missing =>
       \/ verdict'[f].progress <= had
       \/ verdict'[f].progress <= part[ListedDigest(f)]
       \/ part[ListedDigest(f)] = Missing]_vars
=============================================================================
