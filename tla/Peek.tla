---------------------------------- MODULE Peek ----------------------------------
(***************************************************************************)
(* peek (src/peek.rs): the first or last lines or bytes of a remote file,  *)
(* or all of it, read through a RangeReader (src/http_range.rs) whose two  *)
(* budgets are sized to the cap on what may be shown.  One action is one   *)
(* call of the reader, or a decision between two.                          *)
(***************************************************************************)
EXTENDS RangeReader, Sequences, FiniteSetsExt

CONSTANTS
  ReadChunk,       \* READ_CHUNK
  TailScanChunk,   \* TAIL_SCAN_CHUNK
  TransferFloor,   \* MAX_TRANSFER_BUDGET
  RequestFloor,    \* MAX_RANGE_REQUESTS
  RequestSlack,    \* the requests added to one per READ_CHUNK
  Caps, Counts,    \* bound: values of --max, and counts asked for
  MaxBreaks        \* bound: newlines in a file

ASSUME PeekAssumption ==
  /\ {ReadChunk, TailScanChunk} \subseteq Nat \ {0}
  /\ Caps \cup {TransferFloor, RequestFloor, RequestSlack} \subseteq Nat
  /\ Buffers \cup Counts \subseteq Nat \ {0}

\* The sizes the two files choose: READ_CHUNK and TAIL_PREFETCH_BYTES are 64 KiB,
\* TAIL_SCAN_CHUNK and READAHEAD_BYTES 4 KiB, MAX_READAHEAD_BYTES 1 MiB,
\* MAX_TRANSFER_BUDGET 32 MiB, and the slack 32 requests.
ASSUME LimitsAssumption ==
  /\ TailScanChunk <= TailPrefetch
  /\ ReadChunk <= MaxReadAhead
  /\ \A n \in {ReadChunk, ReadAhead, TailPrefetch} : 2 * n <= TransferFloor
  /\ \A n \in {ReadAhead, TailPrefetch} : ReadChunk <= (RequestSlack - 2) * n

VARIABLES
  breaks,     \* where the file has a newline
  mode,       \* what is asked for
  max,        \* PeekOptions::max_bytes, --max
  scan,       \* the length of the suffix a tail of lines looks at
  content,    \* the buffer, as the file positions its bytes came from
  phase

reader == vars
options == <<breaks, mode, max>>
peekVars == <<reader, options, scan, content, phase>>

\* Seeded bug: the scan's windows before the last are not paid for.
OnePassLimit(cap) == Greater(cap, TransferFloor)

\* transport_limits.
TransferLimit(cap) == Greater(2 * cap, TransferFloor)
RequestLimit(cap) == Greater(cap \div ReadChunk + RequestSlack, RequestFloor)
TransportLimits(cap) ==
  [requests |-> RequestLimit(cap), transfer |-> TransferLimit(cap)]

Cat == [kind |-> "cat"]
Modes ==
  {Cat} \cup [kind : {"head", "tail"}, unit : {"lines", "bytes"}, count : Counts]

InLines(kind) == mode.kind = kind /\ mode.unit = "lines"

\* open_with_limits: the probe knows the size.
PeekInit ==
  /\ max \in Caps
  /\ Opened
  /\ limits = TransportLimits(max)
  /\ breaks \in {b \in SUBSET (0 .. total - 1) : Cardinality(b) <= MaxBreaks}
  /\ mode \in Modes
  /\ breaks = {} \/ InLines("head") \/ InLines("tail")   \* bound: else not looked at
  /\ scan = 0
  /\ content = <<>>
  /\ phase = "open"

\* What a call of the reader gave.
Got == [i \in 1 .. answer'.len |-> answer'.from + i - 1]
Failed == answer'.kind \in {"transport", "refused", "inconsistent"}
Ended == answer'.kind = "nothing"
Delivered == answer'.kind = "bytes"

BreaksIn(c) == Cardinality({i \in DOMAIN c : c[i] \in breaks})
-----------------------------------------------------------------------------
(* validate_resolved.                                                       *)

Rejected ==
  \/ mode.kind = "tail" /\ mode.unit = "bytes" /\ mode.count > max
  \/ mode = Cat /\ total > max

Reject ==
  /\ phase = "open" /\ Rejected
  /\ phase' = "rejected"
  /\ UNCHANGED <<reader, options, scan, content>>

Begin ==
  /\ phase = "open" /\ ~Rejected
  /\ phase' = "reading"
  /\ UNCHANGED <<options, content>>

BeginForward ==
  /\ Begin
  /\ mode.kind # "tail"
  /\ UNCHANGED <<reader, scan>>

\* stream_tail_bytes's seek, clamped to the start.
BeginTailBytes ==
  /\ Begin
  /\ mode.kind = "tail" /\ mode.unit = "bytes"
  /\ Seek(Minus(total, mode.count))
  /\ UNCHANGED scan

\* The scan's window, at most the file and the cap.
Windowed(n) == Lesser(Lesser(n, total), max)

BeginTailLines ==
  /\ Begin
  /\ InLines("tail")
  /\ scan' = Windowed(TailScanChunk)
  /\ Seek(total - scan')
-----------------------------------------------------------------------------
(* stream_cat and stream_tail_bytes: read_to_end.                           *)

ToEnd == mode = Cat \/ (mode.kind = "tail" /\ mode.unit = "bytes")

ReadToEnd(buf) ==
  /\ phase = "reading" /\ ToEnd
  /\ Read(buf)
  /\ content' = IF Delivered THEN content \o Got ELSE content
  /\ phase' = IF Failed THEN "failed" ELSE IF Ended THEN "shown" ELSE phase
  /\ UNCHANGED <<options, scan>>
-----------------------------------------------------------------------------
(* stream_head: bounded_copy.                                               *)

Measure(c) == IF mode.unit = "bytes" THEN Len(c) ELSE BreaksIn(c)

\* The part of a piece up to where the count is reached.
Kept(piece) ==
  SubSeq(piece, 1,
    Max({k \in 0 .. Len(piece) :
      \A j \in 0 .. k - 1 : Measure(content \o SubSeq(piece, 1, j)) < mode.count}))

HeadCapped ==
  /\ phase = "reading" /\ mode.kind = "head"
  /\ Len(content) >= max
  /\ phase' = "noted"
  /\ UNCHANGED <<reader, options, scan, content>>

HeadReads ==
  /\ phase = "reading" /\ mode.kind = "head"
  /\ Len(content) < max
  /\ Read(Lesser(max - Len(content), ReadChunk))
  /\ content' = IF Delivered THEN content \o Kept(Got) ELSE content
  /\ phase' = IF Failed THEN "failed"
              ELSE IF Ended \/ Measure(content') >= mode.count THEN "shown" ELSE phase
  /\ UNCHANGED <<options, scan>>
-----------------------------------------------------------------------------
(* stream_tail_lines: longer and longer suffixes.                           *)

\* read_exact: what is still missing of the window.
TailReads ==
  /\ phase = "reading" /\ InLines("tail")
  /\ Len(content) < scan
  /\ Read(scan - Len(content))
  /\ content' = IF Delivered THEN content \o Got ELSE content
  /\ phase' = IF Failed THEN "failed" ELSE phase
  /\ UNCHANGED <<options, scan>>

\* Seeded bug: enough newlines are enough, wherever the window begins.
ConfidentAtCount == BreaksIn(content) >= mode.count \/ scan = total

\* The window holds the newline before the first line asked for, or the file.
Confident == BreaksIn(content) > mode.count \/ scan = total

\* Seeded bug: the cap is hit only when it is passed.
PastCap == scan > max

HitCap == scan >= max

WindowRead == phase = "reading" /\ InLines("tail") /\ Len(content) = scan

\* last_n_lines: from behind the newline before the last count of them.
LastLines ==
  LET newlines == {i \in DOMAIN content : content[i] \in breaks}
      cut == {i \in newlines :
                Cardinality({j \in newlines : j > i}) = mode.count} IN
  IF cut = {} THEN content ELSE SubSeq(content, Max(cut) + 1, Len(content))

TailShows ==
  /\ WindowRead
  /\ Confident \/ HitCap
  /\ content' = LastLines
  /\ phase' = IF Confident THEN "shown" ELSE "noted"
  /\ UNCHANGED <<reader, options, scan>>

TailWidens ==
  /\ WindowRead
  /\ ~Confident /\ ~HitCap
  /\ scan' = Windowed(2 * scan)
  /\ Seek(total - scan')
  /\ content' = <<>>
  /\ UNCHANGED <<options, phase>>
-----------------------------------------------------------------------------
PeekNext ==
  \/ Reject \/ BeginForward \/ BeginTailBytes \/ BeginTailLines
  \/ \E buf \in Buffers : ReadToEnd(buf)
  \/ HeadCapped \/ HeadReads
  \/ TailReads \/ TailShows \/ TailWidens

\* A blocking thread runs peek to its end; every request has a timeout.
PeekSpec == PeekInit /\ [][PeekNext]_peekVars /\ WF_peekVars(PeekNext)
-----------------------------------------------------------------------------
Positions(from, to) == [i \in 1 .. to - from + 1 |-> from + i - 1]
First(n) == Positions(0, Lesser(n, total) - 1)
Last(n) == Positions(total - Lesser(n, total), total - 1)

\* A line begins at the start or behind a newline, and ends with its newline.
LineStarts == {0} \cup {b + 1 : b \in breaks}
FirstLines(n) ==
  IF Cardinality(breaks) < n THEN First(total)
  ELSE First(1 + Min({b \in breaks : Cardinality({a \in breaks : a <= b}) = n}))
LastTerminatedLines(n) ==
  Positions(
    CHOOSE s \in LineStarts :
      Cardinality({b \in breaks : b >= s}) = Lesser(n, Cardinality(breaks)),
    total - 1)

Asked ==
  CASE mode = Cat -> First(total)
    [] mode.kind = "head" /\ mode.unit = "bytes" -> First(mode.count)
    [] InLines("head") -> FirstLines(mode.count)
    [] mode.kind = "tail" /\ mode.unit = "bytes" -> Last(mode.count)
    [] InLines("tail") -> LastTerminatedLines(mode.count)

\* What is printed without a note is what was asked for, from its first to its
\* last byte: no part of a line is spliced in or cut off.  With the note it is
\* as much as the cap allows.  Either way the cap is kept.
ShowsWhatWasAsked ==
  /\ phase = "shown" => content = Asked
  /\ phase = "noted" =>
       content = IF mode.kind = "head" THEN First(max) ELSE Last(max)
  /\ phase \in {"shown", "noted"} => Len(content) <= max

\* The budgets are sized to the cap: no peek is refused by the reader for what
\* it has transferred or requested, save that the last, widest window of a tail
\* of lines may come on top of shorter ones that add up to twice as much again,
\* and only where three such windows exceed the budget.
BudgetsSuffice ==
  phase = "failed" /\ answer.kind = "refused" =>
    InLines("tail") /\ scan = Windowed(max) /\ 3 * scan > limits.transfer

\* Every peek ends: the scan of a tail's window stops growing at the cap or at
\* the file's start, and either one ends it.
PeekEnds == <>(phase \in {"shown", "noted", "rejected", "failed"})
=============================================================================
