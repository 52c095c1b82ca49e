------------------------------ MODULE RangeReader ------------------------------
(***************************************************************************)
(* RangeReader over HttpRangeFetcher (src/http_range.rs): a file on the    *)
(* Hub read through range requests, with a window of read-ahead that grows *)
(* while the reads are sequential, a cached tail, and two budgets.  The    *)
(* contents may change upstream between any two requests.                  *)
(***************************************************************************)
EXTENDS Integers

CONSTANTS
  Versions, NoVersion,
  SizeOf,         \* the length of each version
  TailPrefetch,   \* TAIL_PREFETCH_BYTES
  ReadAhead,      \* READAHEAD_BYTES
  MaxReadAhead,   \* MAX_READAHEAD_BYTES
  Limits,         \* the pairs of budgets readers are opened with
  EtagOptional,   \* whether a response may come without an ETag
  Buffers,        \* bound: lengths of the buffers reads are made into
  Deltas,         \* bound: offsets seeks are made with
  MaxOffset       \* u64::MAX

ASSUME ReaderAssumption ==
  /\ NoVersion \notin Versions
  /\ SizeOf \in [Versions -> Nat]
  /\ {TailPrefetch, ReadAhead, MaxReadAhead} \subseteq Nat \ {0}
  /\ Limits \subseteq [requests : Nat, transfer : Nat]
  /\ EtagOptional \in BOOLEAN
  /\ Buffers \subseteq Nat
  /\ Deltas \subseteq Int
  /\ MaxOffset \in Nat
  /\ \A v \in Versions : SizeOf[v] <= MaxOffset

VARIABLES
  current,        \* what the file is upstream
  total,          \* the fetcher's total_size, from the probe
  limits,         \* max_requests and max_transfer_bytes
  pos,            \* the read position
  window, tail,   \* the two cached extents
  requests, bytesFetched,
  responseEtag,   \* first etag a range response named
  lastError,      \* whether a FetchError is kept for the caller
  answer          \* what the last call returned

spent == <<requests, bytesFetched>>
cache == <<window, tail>>
vars == <<current, total, limits, pos, cache, spent, responseEtag, lastError, answer>>

Nothing == [kind |-> "nothing"]
Sought == [kind |-> "sought"]
TransportError == [kind |-> "transport"]
Refused(buf) == [kind |-> "refused", buf |-> buf]
Inconsistent == [kind |-> "inconsistent"]
SeekError == [kind |-> "badSeek"]

\* Bytes from .. from + len - 1 of one version.  `tagged': the response that
\* brought them named the version in its ETag.
Extent(from, len, of, tagged) ==
  [from |-> from, len |-> len, of |-> of, tagged |-> tagged]
NoExtent == Extent(0, 0, NoVersion, FALSE)
Absent(x) == x.len = 0

Bytes(x, n) ==
  [kind |-> "bytes", from |-> pos, len |-> n, of |-> x.of, tagged |-> x.tagged]

Lesser(a, b) == IF a <= b THEN a ELSE b
Greater(a, b) == IF a >= b THEN a ELSE b
Minus(a, b) == IF a >= b THEN a - b ELSE 0     \* saturating_sub

\* open_with_limits: the probe has resolved the size; no byte is read yet.
Opened ==
  /\ current \in Versions
  /\ total = SizeOf[current]
  /\ pos = 0
  /\ window = NoExtent /\ tail = NoExtent
  /\ requests = 0 /\ bytesFetched = 0
  /\ responseEtag = NoVersion
  /\ lastError = FALSE
  /\ answer = Nothing

Init == Opened /\ limits \in Limits
-----------------------------------------------------------------------------
(* What a read fetches.                                                     *)

\* Contains, off by one.
ContainsItsEnd(x, p) == x.len > 0 /\ x.from <= p /\ p <= x.from + x.len

Contains(x, p) == x.from <= p /\ p < x.from + x.len

Hit == Contains(window, pos) \/ Contains(tail, pos)

Continues == ~Absent(window) /\ window.from + window.len = pos

\* GrownWindow without the clamp on what is left of the budget.
GrownPastBudget ==
  IF Continues THEN Lesser(2 * window.len, MaxReadAhead) ELSE 0

GrownWindow ==
  IF Continues
  THEN Lesser(Lesser(2 * window.len, MaxReadAhead), Minus(limits.transfer, bytesFetched))
  ELSE 0

TailStart == Minus(total, TailPrefetch)

\* The tail fetched by the first read, wherever it is.
FetchesTailAnyway == Absent(tail)

FetchesTail == Absent(tail) /\ pos >= TailStart

\* WindowEnd computed without minding the tail that is already there.
WindowEndIntoTail(want) == Lesser(pos + want - 1, total - 1)

\* The last byte a window of `want' bytes at pos fetches.
WindowEnd(want) ==
  LET end == Lesser(pos + want - 1, total - 1) IN
  IF ~Absent(tail) /\ pos < tail.from THEN Lesser(end, tail.from - 1) ELSE end

PlainWindow(buf) == Greater(buf, ReadAhead)

FetchStart == IF FetchesTail THEN TailStart ELSE pos
FetchEnd(buf) ==
  IF FetchesTail THEN total - 1 ELSE WindowEnd(Greater(PlainWindow(buf), GrownWindow))
FetchLength(buf) == FetchEnd(buf) - FetchStart + 1

Misses(buf) == buf > 0 /\ pos < total /\ ~Hit

\* A request too many.
AffordableOneMore(buf) ==
  /\ requests <= limits.requests
  /\ bytesFetched + FetchLength(buf) <= limits.transfer

\* checked_fetch's two checks.
Affordable(buf) ==
  /\ requests < limits.requests
  /\ bytesFetched + FetchLength(buf) <= limits.transfer
-----------------------------------------------------------------------------
(* Read.                                                                    *)

\* The bytes at pos out of the window w or else the tail t.
Serve(w, t, buf) ==
  LET x == IF Contains(w, pos) THEN w ELSE t
      n == Lesser(buf, x.from + x.len - pos) IN
  IF Contains(x, pos)
  THEN /\ answer' = Bytes(x, n)
       /\ pos' = pos + n
  ELSE /\ answer' = Inconsistent
       /\ UNCHANGED pos

\* An empty buffer, or the end of the file.
ReadNothing(buf) ==
  /\ buf = 0 \/ pos >= total
  /\ answer' = Nothing
  /\ UNCHANGED <<current, total, limits, pos, cache, spent, responseEtag, lastError>>

ReadCached(buf) ==
  /\ buf > 0 /\ pos < total /\ Hit
  /\ Serve(window, tail, buf)
  /\ UNCHANGED <<current, total, limits, cache, spent, responseEtag, lastError>>

\* A budget is used up.
ReadRefused(buf) ==
  /\ Misses(buf) /\ ~Affordable(buf)
  /\ answer' = Refused(buf)
  /\ UNCHANGED <<current, total, limits, pos, cache, spent, responseEtag, lastError>>

\* check_response_etag without the comparison.
AnyEtagAccepted(etag) == TRUE

\* check_response_etag accepts a response that names `etag'.
EtagAccepted(etag) == etag = NoVersion \/ responseEtag \in {NoVersion, etag}

\* The etag the response for the current contents comes with.
EtagsSent == {current} \cup (IF EtagOptional THEN {NoVersion} ELSE {})

\* A 206 for exactly the range, of the size the probe saw, with all its bytes.
ReadFetched(buf, etag) ==
  /\ Misses(buf) /\ Affordable(buf)
  /\ SizeOf[current] = total
  /\ EtagAccepted(etag)
  /\ LET x == Extent(FetchStart, FetchLength(buf), current, etag # NoVersion)
         w == IF FetchesTail THEN window ELSE x
         t == IF FetchesTail THEN x ELSE tail IN
     /\ window' = w /\ tail' = t
     /\ Serve(w, t, buf)
  /\ requests' = requests + 1
  /\ bytesFetched' = bytesFetched + FetchLength(buf)
  /\ responseEtag' = IF responseEtag = NoVersion THEN etag ELSE responseEtag
  /\ UNCHANGED <<current, total, limits, lastError>>

\* The request fails: no answer, another status, another range or size, a
\* body too long or too short, an etag that is not the first one.
ReadFails(buf) ==
  /\ Misses(buf) /\ Affordable(buf)
  /\ requests' = requests + 1
  /\ lastError' = TRUE
  /\ answer' = TransportError
  /\ UNCHANGED <<current, total, limits, pos, cache, bytesFetched, responseEtag>>

Read(buf) ==
  \/ ReadNothing(buf)
  \/ ReadCached(buf)
  \/ ReadRefused(buf)
  \/ \E etag \in EtagsSent : ReadFetched(buf, etag)
  \/ ReadFails(buf)
-----------------------------------------------------------------------------
(* Seek, take_last_error, and the world.                                    *)

\* SeekFrom::Start takes an unsigned offset, End and Current signed ones.
SeekTargets ==
  {d \in Deltas : d >= 0} \cup {total + d : d \in Deltas} \cup {pos + d : d \in Deltas}

Seek(target) ==
  /\ target \in 0 .. MaxOffset
  /\ pos' = target
  /\ answer' = Sought
  /\ UNCHANGED <<current, total, limits, cache, spent, responseEtag, lastError>>

SeekRejected(target) ==
  /\ target \notin 0 .. MaxOffset
  /\ answer' = SeekError
  /\ UNCHANGED <<current, total, limits, pos, cache, spent, responseEtag, lastError>>

TakeLastError ==
  /\ lastError
  /\ lastError' = FALSE
  /\ UNCHANGED <<current, total, limits, pos, cache, spent, responseEtag, answer>>

UpstreamMoves ==
  /\ current' \in Versions \ {current}
  /\ UNCHANGED <<total, limits, pos, cache, spent, responseEtag, lastError, answer>>

Next ==
  \/ \E buf \in Buffers : Read(buf)
  \/ \E target \in SeekTargets : Seek(target) \/ SeekRejected(target)
  \/ TakeLastError
  \/ UpstreamMoves

Spec == Init /\ [][Next]_vars
-----------------------------------------------------------------------------
Extents ==
  [from : Nat, len : Nat, of : Versions \cup {NoVersion}, tagged : BOOLEAN]

TypeOK ==
  /\ current \in Versions
  /\ total \in 0 .. MaxOffset
  /\ limits \in [requests : Nat, transfer : Nat]
  /\ pos \in 0 .. MaxOffset
  /\ requests \in 0 .. limits.requests
  /\ bytesFetched \in 0 .. limits.transfer
  /\ responseEtag \in Versions \cup {NoVersion}
  /\ lastError \in BOOLEAN
  /\ {window, tail} \subseteq Extents

\* The cached extents are bytes of the file, and those whose version is known
\* are of the version the reader settled on: a file that changes upstream
\* between two requests never shows its caller a blend of both.
OneFile ==
  \A x \in {window, tail} : ~Absent(x) =>
    /\ x.of \in Versions
    /\ x.from + x.len <= total
    /\ x.tagged => x.of = responseEtag

\* After a fetch the position is covered: read never answers with the
\* "internal range cache inconsistency" its author reserved for a bug.
AlwaysCovered == answer # Inconsistent

\* The tail is paid for once: a window fetched after it does not overlap it.
TailPaidOnce ==
  [][window' # window /\ ~Absent(tail)
       => ~\E p \in window'.from .. window'.from + window'.len - 1 : Contains(tail, p)]_vars

\* Growth never makes a read fail that a window of the caller's size would
\* have let through: a read is refused only if that window overruns too.
GrowthNeverOverruns ==
  [][\A buf \in Buffers : ReadRefused(buf) =>
       \/ requests >= limits.requests
       \/ FetchesTail
       \/ bytesFetched + (WindowEnd(PlainWindow(buf)) - pos + 1) > limits.transfer]_vars

\* A parser cannot tell the reader from a local file: see FileReader.
File == INSTANCE FileReader WITH
  pinned <- responseEtag,
  answer <- IF answer.kind \in {"transport", "refused", "inconsistent", "badSeek"}
            THEN [kind |-> "failed"] ELSE answer

ReadsLikeAFile == File!Spec
=============================================================================
