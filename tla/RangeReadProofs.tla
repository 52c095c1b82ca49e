--------------------------- MODULE RangeReadProofs ---------------------------
(***************************************************************************)
(* Proofs about RangeReader and Peek, for every file, buffer, budget, cap  *)
(* and count, and wherever the newlines are.                               *)
(*                                                                         *)
(* Of the reader: its invariants, its two action properties, and that it   *)
(* implements FileReader.  Every step that fetches installs one new extent,*)
(* which FetchCovers shows to lie in the file and to hold the position;    *)
(* every step that serves does what ServeStep says.                        *)
(*                                                                         *)
(* Of peek: that what it shows is what was asked for, and that its budgets *)
(* suffice.  PeekInv says where the buffer came from (its positions follow *)
(* one another up to the reader's) and what the budgets have paid for it.  *)
(***************************************************************************)
EXTENDS Peek, FiniteSums

\* A cached tail is the end of the file.
TailShape == ~Absent(tail) => tail.from = TailStart /\ tail.from + tail.len = total

IInv == TypeOK /\ OneFile /\ TailShape /\ AlwaysCovered

\* Serving from two extents one of which holds the position returns at least
\* one byte and no more than were asked for, from where the position is.
LEMMA ServeStep ==
  ASSUME NEW w \in Extents, NEW t \in Extents, NEW buf \in Nat \ {0}, pos \in Nat,
         Contains(w, pos) \/ Contains(t, pos),
         Serve(w, t, buf)
  PROVE  \E x \in {w, t} : \E n \in 1 .. buf :
           /\ Contains(x, pos)
           /\ pos + n <= x.from + x.len
           /\ answer' = Bytes(x, n)
           /\ pos' = pos + n
<1> DEFINE x == IF Contains(w, pos) THEN w ELSE t
           n == Lesser(buf, x.from + x.len - pos)
<1>1. x \in {w, t} /\ x \in Extents /\ Contains(x, pos)
  OBVIOUS
<1>2. x.from \in Nat /\ x.len \in Nat
  BY <1>1 DEF Extents
<1>3. pos < x.from + x.len
  BY <1>1 DEF Contains
<1>4. n \in 1 .. buf /\ pos + n <= x.from + x.len
  BY <1>2, <1>3 DEF Lesser
<1>5. answer' = Bytes(x, n) /\ pos' = pos + n
  BY <1>1 DEF Serve
<1> QED
  BY <1>1, <1>4, <1>5

\* What a miss fetches lies in the file and holds the position.
LEMMA FetchCovers ==
  ASSUME TypeOK, TailShape, NEW buf \in Nat, Misses(buf)
  PROVE  /\ FetchStart \in Nat /\ FetchStart <= pos
         /\ FetchEnd(buf) \in Nat /\ pos <= FetchEnd(buf) /\ FetchEnd(buf) < total
         /\ FetchLength(buf) \in Nat \ {0}
<1>1. buf \in Nat /\ buf > 0 /\ pos \in Nat /\ total \in Nat /\ pos < total
  BY ReaderAssumption DEF TypeOK, Misses
<1>2. TailStart \in Nat
  BY <1>1, ReaderAssumption DEF TailStart, Minus
<1>3. tail.from \in Nat /\ tail.len \in Nat /\ window.len \in Nat
  BY DEF TypeOK, Extents
<1>4. CASE FetchesTail
  <2>1. FetchStart = TailStart /\ FetchEnd(buf) = total - 1
    BY <1>4 DEF FetchStart, FetchEnd
  <2>2. TailStart <= pos
    BY <1>1, <1>2, <1>4 DEF FetchesTail
  <2> QED
    BY <1>1, <1>2, <2>1, <2>2 DEF FetchLength
<1>5. CASE ~FetchesTail
  <2> DEFINE want == Greater(PlainWindow(buf), GrownWindow)
  <2>1. PlainWindow(buf) \in Nat \ {0}
    BY <1>1, ReaderAssumption DEF PlainWindow, Greater
  <2>2. GrownWindow \in Nat
    BY <1>3, ReaderAssumption DEF GrownWindow, Lesser, Minus, TypeOK
  <2>3. want \in Nat \ {0}
    BY <2>1, <2>2 DEF Greater
  <2>4. FetchStart = pos /\ FetchEnd(buf) = WindowEnd(want)
    BY <1>5 DEF FetchStart, FetchEnd
  <2> HIDE DEF want
  <2>5. WindowEnd(want) \in pos .. total - 1
    BY <1>1, <1>3, <2>3 DEF WindowEnd, Lesser
  <2> QED
    BY <1>1, <2>4, <2>5 DEF FetchLength
<1> QED
  BY <1>4, <1>5

\* The extent a fetch installs, and what it leaves.
LEMMA FetchStep ==
  ASSUME IInv, NEW buf \in Nat, NEW etag \in EtagsSent, ReadFetched(buf, etag)
  PROVE  LET x == Extent(FetchStart, FetchLength(buf), current, etag # NoVersion) IN
         /\ x \in Extents /\ ~Absent(x) /\ Contains(x, pos)
         /\ x.of = current /\ x.tagged = (etag # NoVersion)
         /\ x.from = FetchStart /\ x.len = FetchLength(buf)
         /\ x.from + x.len <= total
         /\ \/ FetchesTail /\ tail' = x /\ window' = window
            \/ ~FetchesTail /\ window' = x /\ tail' = tail
         /\ \E n \in 1 .. buf : /\ pos + n <= x.from + x.len
                                /\ answer' = Bytes(x, n)
                                /\ pos' = pos + n
<1> DEFINE x == Extent(FetchStart, FetchLength(buf), current, etag # NoVersion)
           w == IF FetchesTail THEN window ELSE x
           t == IF FetchesTail THEN x ELSE tail
<1>1. Misses(buf) /\ TypeOK /\ TailShape
  BY DEF ReadFetched, IInv
<1>2. /\ FetchStart \in Nat /\ FetchStart <= pos
      /\ FetchEnd(buf) \in Nat /\ pos <= FetchEnd(buf) /\ FetchEnd(buf) < total
      /\ FetchLength(buf) \in Nat \ {0}
  BY <1>1, FetchCovers
<1>3. FetchStart + FetchLength(buf) = FetchEnd(buf) + 1
  BY <1>2 DEF FetchLength
<1>4. pos \in Nat /\ total \in Nat /\ current \in Versions
  BY <1>1 DEF TypeOK
<1>5. /\ x \in Extents /\ x.from = FetchStart /\ x.len = FetchLength(buf)
      /\ x.of = current /\ x.tagged = (etag # NoVersion)
  BY <1>2, <1>4 DEF Extent, Extents
<1>6. ~Absent(x) /\ Contains(x, pos) /\ x.from + x.len <= total
  BY <1>2, <1>3, <1>4, <1>5 DEF Absent, Contains
<1>7. window' = w /\ tail' = t /\ Serve(w, t, buf)
  BY DEF ReadFetched
<1>8. w \in Extents /\ t \in Extents
  BY <1>1, <1>5 DEF TypeOK
<1>9. buf \in Nat \ {0}
  BY <1>1, ReaderAssumption DEF Misses
<1>10. ~Contains(window, pos) /\ ~Contains(tail, pos)
  BY <1>1 DEF Misses, Hit
<1>11. \E n \in 1 .. buf : /\ pos + n <= x.from + x.len
                           /\ answer' = Bytes(x, n)
                           /\ pos' = pos + n
  <2>1. (Contains(w, pos) => w = x) /\ (Contains(t, pos) => t = x)
    BY <1>10
  <2>2. Contains(w, pos) \/ Contains(t, pos)
    BY <1>6
  <2> HIDE DEF w, t, x
  <2>3. PICK y \in {w, t} : \E n \in 1 .. buf :
           /\ Contains(y, pos)
           /\ pos + n <= y.from + y.len
           /\ answer' = Bytes(y, n)
           /\ pos' = pos + n
    BY <1>4, <1>7, <1>8, <1>9, <2>2, ServeStep
  <2>4. y = x
    BY <2>1, <2>3
  <2> QED
    BY <2>3, <2>4
<1> HIDE DEF x
<1>12. \/ FetchesTail /\ tail' = x /\ window' = window
       \/ ~FetchesTail /\ window' = x /\ tail' = tail
  BY <1>7
<1> QED
  BY <1>5, <1>6, <1>11, <1>12 DEF x
-----------------------------------------------------------------------------
\* Steps that leave what the reader has cached and spent alone.
LEMMA QuietStep ==
  ASSUME IInv, UNCHANGED <<total, limits, cache, spent, responseEtag>>,
         current' \in Versions, pos' \in 0 .. MaxOffset, lastError' \in BOOLEAN,
         answer' # Inconsistent
  PROVE  IInv'
BY DEF IInv, TypeOK, OneFile, TailShape, AlwaysCovered, TailStart, Minus, Absent,
       cache, spent

\* No answer made of bytes is the one that reports an inconsistency.
LEMMA BytesAreConsistent ==
  ASSUME NEW x, NEW n
  PROVE  Bytes(x, n) # Inconsistent
BY DEF Bytes, Inconsistent

\* A reader that has just been opened has nothing cached.
LEMMA OpenedIInv ==
  ASSUME Opened, limits \in [requests : Nat, transfer : Nat]
  PROVE  IInv
<1>1. total \in 0 .. MaxOffset /\ current \in Versions
  BY ReaderAssumption DEF Opened
<1>2. NoExtent \in Extents /\ Absent(NoExtent)
  BY DEF NoExtent, Extent, Extents, Absent
<1>3. TypeOK
  <2>1. limits.requests \in Nat /\ limits.transfer \in Nat /\ MaxOffset \in Nat
    BY ReaderAssumption
  <2>2. {window, tail} \subseteq Extents
    BY <1>2 DEF Opened
  <2>3. /\ requests = 0 /\ bytesFetched = 0 /\ pos = 0 /\ lastError = FALSE
        /\ responseEtag = NoVersion
    BY DEF Opened
  <2>4. /\ requests \in 0 .. limits.requests /\ bytesFetched \in 0 .. limits.transfer
        /\ pos \in 0 .. MaxOffset
    BY <2>1, <2>3
  <2>6. lastError \in BOOLEAN
    BY <2>3, Zenon
  <2>5. responseEtag \in Versions \cup {NoVersion}
    BY <2>3
  <2> QED
    BY <1>1, <2>2, <2>4, <2>5, <2>6 DEF TypeOK
<1>4. OneFile /\ TailShape
  BY <1>2 DEF Opened, OneFile, TailShape
<1>5. AlwaysCovered
  BY DEF Opened, AlwaysCovered, Nothing, Inconsistent
<1> QED
  BY <1>3, <1>4, <1>5 DEF IInv

\* A read that fetches keeps the invariant: what it installs is of the version
\* its ETag was accepted for.
LEMMA FetchKeepsIInv ==
  ASSUME IInv, NEW buf \in Nat, NEW etag \in EtagsSent, ReadFetched(buf, etag)
  PROVE  IInv'
<1> DEFINE x == Extent(FetchStart, FetchLength(buf), current, etag # NoVersion)
<1>1. /\ x \in Extents /\ ~Absent(x) /\ Contains(x, pos)
      /\ x.of = current /\ x.tagged = (etag # NoVersion)
      /\ x.from = FetchStart /\ x.len = FetchLength(buf)
      /\ x.from + x.len <= total
      /\ \/ FetchesTail /\ tail' = x /\ window' = window
         \/ ~FetchesTail /\ window' = x /\ tail' = tail
      /\ \E n \in 1 .. buf : /\ pos + n <= x.from + x.len
                             /\ answer' = Bytes(x, n)
                             /\ pos' = pos + n
  BY FetchStep, ReaderAssumption
<1> HIDE DEF x
<1>2. /\ TypeOK /\ OneFile /\ TailShape
      /\ current \in Versions /\ total \in 0 .. MaxOffset /\ pos \in 0 .. MaxOffset
      /\ requests \in 0 .. limits.requests /\ bytesFetched \in 0 .. limits.transfer
      /\ responseEtag \in Versions \cup {NoVersion}
      /\ limits.requests \in Nat /\ limits.transfer \in Nat /\ MaxOffset \in Nat
  BY ReaderAssumption DEF IInv, TypeOK
<1>3. /\ Misses(buf) /\ Affordable(buf) /\ EtagAccepted(etag)
      /\ requests' = requests + 1
      /\ bytesFetched' = bytesFetched + FetchLength(buf)
      /\ responseEtag' = IF responseEtag = NoVersion THEN etag ELSE responseEtag
      /\ UNCHANGED <<current, total, limits, lastError>>
  BY DEF ReadFetched
<1>4. etag \in {current, NoVersion}
  BY DEF EtagsSent
<1>5. x.from \in Nat /\ x.len \in Nat
  BY <1>1 DEF Extents
<1>6. TypeOK'
  <2>1. pos' \in 0 .. MaxOffset
    BY <1>1, <1>2, <1>5
  <2>2. FetchLength(buf) \in Nat
    BY <1>1, <1>5
  <2>3. requests' \in 0 .. limits.requests /\ bytesFetched' \in 0 .. limits.transfer
    BY <1>2, <1>3, <2>2 DEF Affordable
  <2>4. {window', tail'} \subseteq Extents
    BY <1>1, <1>2 DEF TypeOK
  <2>5. responseEtag' \in Versions \cup {NoVersion}
    BY <1>2, <1>3, <1>4
  <2> QED
    BY <1>2, <1>3, <2>1, <2>3, <2>4, <2>5 DEF TypeOK
<1>7. OneFile'
  <2>1. x.tagged => x.of = responseEtag'
    BY <1>1, <1>2, <1>3, <1>4, ReaderAssumption DEF EtagAccepted
  <2>2. responseEtag # NoVersion => responseEtag' = responseEtag
    BY <1>3
  <2>3. ASSUME NEW y \in {window, tail}, ~Absent(y)
        PROVE  y.of \in Versions /\ y.from + y.len <= total'
               /\ (y.tagged => y.of = responseEtag')
    BY <1>2, <1>3, <2>2, <2>3, ReaderAssumption DEF OneFile
  <2>4. x.of \in Versions /\ x.from + x.len <= total'
    BY <1>1, <1>2, <1>3
  <2>5. \A y \in {window', tail'} : y = x \/ y \in {window, tail}
    BY <1>1
  <2> QED
    BY <2>1, <2>3, <2>4, <2>5 DEF OneFile, Absent
<1>8. TailShape'
  <2>1. CASE FetchesTail
    <3>1. x.from = TailStart /\ x.len = total - 1 - TailStart + 1
      BY <1>1, <2>1 DEF FetchStart, FetchLength, FetchEnd
    <3>2. TailStart \in Nat
      BY <1>2, ReaderAssumption DEF TailStart, Minus
    <3>3. x.from + x.len = total
      BY <1>2, <3>1, <3>2
    <3>4. tail' = x /\ TailStart' = TailStart /\ total' = total
      BY <1>1, <1>3, <2>1 DEF TailStart, Minus
    <3> QED
      BY <3>1, <3>3, <3>4 DEF TailShape
  <2>2. CASE ~FetchesTail
    BY <1>1, <1>2, <1>3, <2>2 DEF TailShape, TailStart, Minus, Absent
  <2> QED
    BY <2>1, <2>2
<1>9. AlwaysCovered'
  BY <1>1, BytesAreConsistent DEF AlwaysCovered
<1> QED
  BY <1>6, <1>7, <1>8, <1>9 DEF IInv

\* A read served from the cached extents.
LEMMA CachedStep ==
  ASSUME IInv, NEW buf \in Nat, ReadCached(buf)
  PROVE  \E x \in {window, tail} : \E n \in 1 .. buf :
           /\ Contains(x, pos)
           /\ pos + n <= x.from + x.len
           /\ answer' = Bytes(x, n)
           /\ pos' = pos + n
<1>1. buf \in Nat \ {0} /\ pos \in Nat
  BY ReaderAssumption DEF ReadCached, IInv, TypeOK
<1>2. window \in Extents /\ tail \in Extents
  BY DEF IInv, TypeOK
<1>3. (Contains(window, pos) \/ Contains(tail, pos)) /\ Serve(window, tail, buf)
  BY DEF ReadCached, Hit
<1> QED
  BY <1>1, <1>2, <1>3, ServeStep

\* An extent that holds a position is there, and lies in the file.
LEMMA HoldingExtent ==
  ASSUME IInv, NEW x \in {window, tail}, Contains(x, pos)
  PROVE  /\ ~Absent(x) /\ x \in Extents /\ x.of \in Versions
         /\ x.from + x.len <= total
         /\ x.tagged => x.of = responseEtag
<1>1. x \in Extents /\ x.from \in Nat /\ x.len \in Nat /\ pos \in Nat
  BY DEF IInv, TypeOK, Extents
<1>2. ~Absent(x)
  BY <1>1 DEF Contains, Absent
<1> QED
  BY <1>1, <1>2 DEF IInv, OneFile

\* A read from the cache only moves the position.
LEMMA CachedKeepsIInv ==
  ASSUME IInv, NEW buf \in Nat, ReadCached(buf)
  PROVE  IInv'
<1>1. PICK x \in {window, tail} : \E n \in 1 .. buf :
         /\ Contains(x, pos)
         /\ pos + n <= x.from + x.len
         /\ answer' = Bytes(x, n)
         /\ pos' = pos + n
  BY CachedStep, ReaderAssumption
<1>2. x.from + x.len <= total /\ x.from \in Nat /\ x.len \in Nat
  BY <1>1, HoldingExtent DEF Extents
<1>3. total \in 0 .. MaxOffset /\ pos \in 0 .. MaxOffset /\ MaxOffset \in Nat
  BY ReaderAssumption DEF IInv, TypeOK
<1>4. pos' \in 0 .. MaxOffset
  BY <1>1, <1>2, <1>3
<1>5. answer' # Inconsistent
  BY <1>1, BytesAreConsistent
<1>6. UNCHANGED <<total, limits, cache, spent, responseEtag>> /\ UNCHANGED <<current, lastError>>
  BY DEF ReadCached
<1>7. current' \in Versions /\ lastError' \in BOOLEAN
  BY <1>6 DEF IInv, TypeOK
<1> QED
  BY <1>4, <1>5, <1>6, <1>7, QuietStep

\* A read that fails spends a request and changes nothing else that the
\* invariant is about.
LEMMA FailKeepsIInv ==
  ASSUME IInv, NEW buf \in Nat, ReadFails(buf)
  PROVE  IInv'
<1>1. requests \in 0 .. limits.requests /\ requests < limits.requests /\ limits.requests \in Nat
  BY ReaderAssumption DEF IInv, TypeOK, ReadFails, Affordable
<1>2. requests' \in 0 .. limits.requests
  BY <1>1 DEF ReadFails
<1>3. UNCHANGED <<current, total, limits, pos, window, tail, bytesFetched, responseEtag>>
  BY DEF ReadFails, cache
<1>4. lastError' \in BOOLEAN /\ answer' # Inconsistent
  BY DEF ReadFails, TransportError, Inconsistent
<1> QED
  BY <1>2, <1>3, <1>4 DEF IInv, TypeOK, OneFile, TailShape, AlwaysCovered, TailStart,
                          Minus, Absent

\* The steps that only set the position, the answer or the kept error.
LEMMA PlainKeepsIInv ==
  ASSUME IInv,
         \/ \E buf \in Nat : ReadNothing(buf) \/ ReadRefused(buf)
         \/ \E target \in Int : Seek(target) \/ SeekRejected(target)
         \/ TakeLastError
         \/ UpstreamMoves
  PROVE  IInv'
<1>1. UNCHANGED <<total, limits, cache, spent, responseEtag>>
  BY DEF ReadNothing, ReadRefused, Seek, SeekRejected, TakeLastError, UpstreamMoves
<1>2. current' \in Versions
  BY DEF ReadNothing, ReadRefused, Seek, SeekRejected, TakeLastError, UpstreamMoves,
         IInv, TypeOK
<1>3. pos' \in 0 .. MaxOffset /\ lastError' \in BOOLEAN
  BY DEF ReadNothing, ReadRefused, Seek, SeekRejected, TakeLastError, UpstreamMoves,
         IInv, TypeOK
<1>4. answer' # Inconsistent
  BY DEF ReadNothing, ReadRefused, Seek, SeekRejected, TakeLastError, UpstreamMoves,
         IInv, AlwaysCovered, Nothing, Refused, Sought, SeekError, Inconsistent
<1> QED
  BY <1>1, <1>2, <1>3, <1>4, QuietStep

\* A read into a buffer of any length, not only of those a run tries.
LEMMA ReadKeepsIInv ==
  ASSUME IInv, NEW buf \in Nat, Read(buf)
  PROVE  IInv'
<1>1. CASE \E etag \in EtagsSent : ReadFetched(buf, etag)
  BY <1>1, FetchKeepsIInv
<1>2. CASE ReadCached(buf)
  BY <1>2, CachedKeepsIInv
<1>3. CASE ReadFails(buf)
  BY <1>3, FailKeepsIInv
<1>4. CASE ReadNothing(buf) \/ ReadRefused(buf)
  BY <1>4, PlainKeepsIInv
<1> QED
  BY <1>1, <1>2, <1>3, <1>4 DEF Read

\* Every step of the reader keeps the invariant.
LEMMA NextIInv ==
  ASSUME IInv, [Next]_vars
  PROVE  IInv'
<1>1. CASE UNCHANGED vars
  <2>1. /\ UNCHANGED <<total, limits, cache, spent, responseEtag>>
        /\ current' = current /\ pos' = pos /\ lastError' = lastError /\ answer' = answer
    BY <1>1 DEF vars
  <2>2. /\ current' \in Versions /\ pos' \in 0 .. MaxOffset /\ lastError' \in BOOLEAN
        /\ answer' # Inconsistent
    BY <2>1 DEF IInv, TypeOK, AlwaysCovered
  <2> QED
    BY <2>1, <2>2, QuietStep
<1>2. CASE \E buf \in Buffers : Read(buf)
  BY <1>2, ReadKeepsIInv, ReaderAssumption
<1>3. CASE \E target \in SeekTargets : Seek(target) \/ SeekRejected(target)
  <2>1. SeekTargets \subseteq Int
    <3>1. Deltas \subseteq Int /\ total \in Int /\ pos \in Int
      BY ReaderAssumption DEF IInv, TypeOK
    <3>2. \A d \in Deltas : d \in Int /\ total + d \in Int /\ pos + d \in Int
      BY <3>1
    <3> QED
      BY <3>1, <3>2 DEF SeekTargets
  <2> QED
    BY <1>3, <2>1, PlainKeepsIInv
<1>4. CASE TakeLastError \/ UpstreamMoves
  BY <1>4, PlainKeepsIInv
<1> QED
  BY <1>1, <1>2, <1>3, <1>4 DEF Next

\* The extents a reader holds are well formed, the budgets are kept to, and
\* the bytes it knows the version of are all of one.
THEOREM ReaderInvariant == Spec => []IInv
<1>1. Init => IInv
  BY OpenedIInv, ReaderAssumption DEF Init
<1>2. IInv /\ [Next]_vars => IInv'
  BY NextIInv
<1> QED
  BY <1>1, <1>2, PTL DEF Spec

\* Neither budget is ever exceeded, whatever is read and sought.
THEOREM ReaderTypeOK == Spec => []TypeOK
<1>1. IInv => TypeOK
  BY DEF IInv
<1> QED
  BY <1>1, ReaderInvariant, PTL

\* A file that changes upstream between two requests is never read as a blend
\* of its versions, as far as the responses name them.
THEOREM ReaderOneFile == Spec => []OneFile
<1>1. IInv => OneFile
  BY DEF IInv
<1> QED
  BY <1>1, ReaderInvariant, PTL

\* read's internal inconsistency error cannot occur.
THEOREM ReaderAlwaysCovered == Spec => []AlwaysCovered
<1>1. IInv => AlwaysCovered
  BY DEF IInv
<1> QED
  BY <1>1, ReaderInvariant, PTL
-----------------------------------------------------------------------------
\* A window fetched beside the tail ends before it.
LEMMA WindowStopsAtTail ==
  ASSUME IInv, NEW buf \in Nat, NEW etag \in EtagsSent, ReadFetched(buf, etag),
         ~Absent(tail)
  PROVE  \A p \in window'.from .. window'.from + window'.len - 1 : ~Contains(tail, p)
<1>1. ~FetchesTail
  BY DEF FetchesTail
<1>2. /\ window'.from = FetchStart /\ window'.len = FetchLength(buf)
      /\ FetchStart = pos
  BY <1>1, FetchStep DEF FetchStart
<1>3. TailShape /\ TypeOK /\ Misses(buf)
  BY DEF IInv, ReadFetched
<1>4. /\ pos \in Nat /\ total \in Nat /\ pos < total
      /\ tail.from \in Nat /\ tail.len \in Nat /\ tail.from + tail.len = total
      /\ ~Contains(tail, pos)
  BY <1>3 DEF TailShape, TypeOK, Extents, Misses, Hit
<1>5. pos < tail.from
  BY <1>4 DEF Contains
<1> DEFINE want == Greater(PlainWindow(buf), GrownWindow)
<1>6. FetchEnd(buf) = WindowEnd(want) /\ FetchEnd(buf) \in Nat
  BY <1>1, <1>3, FetchCovers DEF FetchEnd
<1>7. WindowEnd(want) = Lesser(Lesser(pos + want - 1, total - 1), tail.from - 1)
  BY <1>5 DEF WindowEnd
<1>8. ASSUME NEW a, NEW b \in Int, Lesser(a, b) \in Int
      PROVE  Lesser(a, b) <= b \/ (a <= b /\ Lesser(a, b) = a)
  BY <1>8 DEF Lesser
<1> HIDE DEF want
<1>9. FetchEnd(buf) <= tail.from - 1
  BY <1>4, <1>6, <1>7, <1>8
<1>10. window'.from + window'.len - 1 = FetchEnd(buf)
  BY <1>2, <1>4, <1>6 DEF FetchLength
<1>11. ASSUME NEW p \in pos .. FetchEnd(buf)
       PROVE  ~Contains(tail, p)
  <2>1. p \in Int /\ p < tail.from
    BY <1>4, <1>6, <1>9
  <2> QED
    BY <1>4, <2>1 DEF Contains
<1>12. window'.from = pos
  BY <1>2
<1> QED
  BY <1>10, <1>11, <1>12

\* The steps that change the window are fetches.
LEMMA OnlyFetchesMoveWindow ==
  ASSUME [Next]_vars, window' # window
  PROVE  \E buf \in Buffers : \E etag \in EtagsSent : ReadFetched(buf, etag)
BY DEF Next, Read, ReadNothing, ReadCached, ReadRefused, ReadFails, Seek, SeekRejected,
       TakeLastError, UpstreamMoves, vars, cache

\* The tail's bytes are not paid for a second time.
THEOREM ReaderTailPaidOnce == Spec => TailPaidOnce
<1>1. ASSUME IInv, [Next]_vars, window' # window, ~Absent(tail)
      PROVE  ~\E p \in window'.from .. window'.from + window'.len - 1 : Contains(tail, p)
  <2>1. PICK buf \in Buffers : \E etag \in EtagsSent : ReadFetched(buf, etag)
    BY <1>1, OnlyFetchesMoveWindow
  <2> QED
    BY <1>1, <2>1, WindowStopsAtTail, ReaderAssumption
<1>2. IInv /\ [Next]_vars
        => [window' # window /\ ~Absent(tail)
              => ~\E p \in window'.from .. window'.from + window'.len - 1 :
                     Contains(tail, p)]_vars
  BY <1>1
<1> QED
  BY <1>2, ReaderInvariant, PTL DEF Spec, TailPaidOnce

\* A fetch the budget refuses would have been refused for the caller's own
\* size: the clamp on growth gives way before the budget does.
LEMMA GrowthGivesWay ==
  ASSUME IInv, NEW buf \in Nat, Misses(buf), ~Affordable(buf),
         requests < limits.requests, ~FetchesTail
  PROVE  bytesFetched + (WindowEnd(PlainWindow(buf)) - pos + 1) > limits.transfer
<1>1. /\ pos \in Nat /\ total \in Nat /\ buf \in Nat /\ tail.from \in Int
      /\ bytesFetched \in Nat /\ limits.transfer \in Nat /\ bytesFetched <= limits.transfer
  BY ReaderAssumption DEF IInv, TypeOK, Extents
<1> DEFINE plain == PlainWindow(buf)
           grown == GrownWindow
<1>2. plain \in Nat
  BY <1>1, ReaderAssumption DEF PlainWindow, Greater
<1>3. grown \in Nat /\ grown <= limits.transfer - bytesFetched
  <2>1. window.len \in Nat
    BY DEF IInv, TypeOK, Extents
  <2> QED
    BY <1>1, <2>1, ReaderAssumption DEF GrownWindow, Lesser, Minus
<1>4. bytesFetched + (WindowEnd(Greater(plain, grown)) - pos + 1) > limits.transfer
  <2>1. bytesFetched + FetchLength(buf) \in Int
    <3>1. FetchLength(buf) \in Nat
      BY FetchCovers DEF IInv
    <3> QED
      BY <1>1, <3>1
  <2>2. bytesFetched + FetchLength(buf) > limits.transfer
    BY <1>1, <2>1 DEF Affordable
  <2>3. FetchLength(buf) = WindowEnd(Greater(plain, grown)) - pos + 1
    BY DEF FetchLength, FetchEnd, FetchStart
  <2> QED
    BY <2>2, <2>3
<1> HIDE DEF plain, grown
<1>5. ASSUME grown > plain
      PROVE  WindowEnd(Greater(plain, grown)) <= pos + grown - 1
  BY <1>1, <1>2, <1>3, <1>5 DEF WindowEnd, Lesser, Greater
<1>6. WindowEnd(Greater(plain, grown)) \in Int
  BY <1>1, <1>2, <1>3 DEF WindowEnd, Lesser, Greater
<1>7. ~(grown > plain)
  BY <1>1, <1>3, <1>4, <1>5, <1>6
<1>8. Greater(plain, grown) = plain
  BY <1>2, <1>3, <1>7 DEF Greater
<1> QED
  BY <1>4, <1>8 DEF plain

\* The grown window never costs a read that a plain one would have served.
THEOREM ReaderGrowthNeverOverruns == Spec => GrowthNeverOverruns
<1>1. ASSUME IInv, NEW buf \in Buffers, ReadRefused(buf)
      PROVE  \/ requests >= limits.requests
             \/ FetchesTail
             \/ bytesFetched + (WindowEnd(PlainWindow(buf)) - pos + 1) > limits.transfer
  <2>1. requests \in Nat /\ limits.requests \in Nat
    BY <1>1, ReaderAssumption DEF IInv, TypeOK
  <2> QED
    BY <1>1, <2>1, GrowthGivesWay, ReaderAssumption DEF ReadRefused
<1>2. IInv /\ [Next]_vars
        => [\A buf \in Buffers : ReadRefused(buf) =>
              \/ requests >= limits.requests
              \/ FetchesTail
              \/ bytesFetched + (WindowEnd(PlainWindow(buf)) - pos + 1) > limits.transfer]_vars
  BY <1>1
<1> QED
  BY <1>2, ReaderInvariant, PTL DEF Spec, GrowthNeverOverruns
-----------------------------------------------------------------------------
(* RangeReader implements FileReader.                                       *)

fileAnswer == IF answer.kind \in {"transport", "refused", "inconsistent", "badSeek"}
              THEN [kind |-> "failed"] ELSE answer

\* Bytes out of an extent, as FileReader returns them.
LEMMA BytesMap ==
  ASSUME NEW x \in Extents, NEW n, answer' = Bytes(x, n)
  PROVE  fileAnswer' = File!Bytes(pos, n, x.of, x.tagged)
BY DEF fileAnswer, Bytes, File!Bytes

\* A read from the cache is a read of the file: what is cached are its bytes,
\* of one version.
LEMMA CachedReads ==
  ASSUME IInv, NEW buf \in Buffers, ReadCached(buf)
  PROVE  File!Next
<1>1. PICK x \in {window, tail}, n \in 1 .. buf :
         /\ Contains(x, pos)
         /\ pos + n <= x.from + x.len
         /\ answer' = Bytes(x, n)
         /\ pos' = pos + n
  BY CachedStep, ReaderAssumption
<1>2. /\ x \in Extents /\ x.of \in Versions /\ x.from + x.len <= total
      /\ x.tagged => x.of = responseEtag
  BY <1>1, HoldingExtent
<1>3. x.tagged \in BOOLEAN /\ x.from + x.len \in Nat /\ pos \in Nat /\ total \in Nat
      /\ n \in Nat
  BY <1>2, ReaderAssumption DEF Extents, IInv, TypeOK
<1>4. responseEtag' = responseEtag /\ total' = total
  BY DEF ReadCached
<1>5. fileAnswer' = File!Bytes(pos, n, x.of, x.tagged)
  BY <1>1, <1>2, BytesMap
<1>6. File!ReadSome(n, x.of, x.tagged)
  BY <1>1, <1>2, <1>3, <1>4, <1>5 DEF File!ReadSome, fileAnswer
<1> QED
  BY <1>1, <1>2, <1>3, <1>6 DEF File!Next

\* So is a read that fetches.
LEMMA FetchedReads ==
  ASSUME IInv, NEW buf \in Buffers, NEW etag \in EtagsSent, ReadFetched(buf, etag)
  PROVE  File!Next
<1> DEFINE x == Extent(FetchStart, FetchLength(buf), current, etag # NoVersion)
<1>1. /\ x \in Extents /\ x.of = current /\ x.tagged = (etag # NoVersion)
      /\ x.from + x.len <= total
      /\ \E n \in 1 .. buf : /\ pos + n <= x.from + x.len
                             /\ answer' = Bytes(x, n)
                             /\ pos' = pos + n
  BY FetchStep, ReaderAssumption
<1> HIDE DEF x
<1>2. PICK n \in 1 .. buf : /\ pos + n <= x.from + x.len
                            /\ answer' = Bytes(x, n)
                            /\ pos' = pos + n
  BY <1>1
<1>3. /\ x.tagged \in BOOLEAN /\ x.from + x.len \in Nat /\ pos \in Nat /\ total \in Nat
      /\ n \in Nat /\ current \in Versions
  BY <1>1, ReaderAssumption DEF Extents, IInv, TypeOK
<1>4. etag \in {current, NoVersion}
  BY DEF EtagsSent
<1>5. /\ EtagAccepted(etag) /\ total' = total
      /\ responseEtag' = IF responseEtag = NoVersion THEN etag ELSE responseEtag
  BY DEF ReadFetched
<1>6. x.tagged => responseEtag \in {NoVersion, x.of}
  BY <1>1, <1>4, <1>5, <1>3, ReaderAssumption DEF EtagAccepted
<1>7. responseEtag' = IF x.tagged THEN x.of ELSE responseEtag
  BY <1>1, <1>4, <1>5, <1>6, <1>3, ReaderAssumption
<1>8. fileAnswer' = File!Bytes(pos, n, x.of, x.tagged)
  BY <1>1, <1>2, BytesMap
<1>9. File!ReadSome(n, x.of, x.tagged)
  BY <1>1, <1>2, <1>3, <1>5, <1>6, <1>7, <1>8 DEF File!ReadSome, fileAnswer
<1> QED
  BY <1>1, <1>2, <1>3, <1>9 DEF File!Next

\* A read that fails, or is refused, or a seek that is: nothing moves.
LEMMA FailuresMap ==
  ASSUME IInv,
         \/ \E buf \in Buffers : ReadRefused(buf) \/ ReadFails(buf)
         \/ \E target \in SeekTargets : SeekRejected(target)
  PROVE  File!Next
<1>1. UNCHANGED <<total, pos, responseEtag>>
  BY DEF ReadRefused, ReadFails, SeekRejected
<1>2. answer'.kind \in {"transport", "refused", "badSeek"}
  BY DEF ReadRefused, ReadFails, SeekRejected, Refused, TransportError, SeekError
<1>3. File!Fails
  BY <1>1, <1>2 DEF File!Fails, File!Failed
<1> QED
  BY <1>3 DEF File!Next

\* A read of nothing is one at the end or into no buffer, and a seek is a seek.
LEMMA NothingAndSeeksMap ==
  ASSUME IInv,
         \/ \E buf \in Buffers : ReadNothing(buf)
         \/ \E target \in SeekTargets : Seek(target)
  PROVE  File!Next
<1>1. CASE \E buf \in Buffers : ReadNothing(buf)
  <2>1. File!NoRoom \/ File!AtEnd
    BY <1>1 DEF ReadNothing, File!NoRoom, File!AtEnd, Nothing, File!Nothing
  <2> QED
    BY <2>1 DEF File!Next
<1>2. CASE \E target \in SeekTargets : Seek(target)
  <2>1. PICK target \in 0 .. MaxOffset : Seek(target)
    BY <1>2 DEF Seek
  <2>2. File!SeekTo(target)
    BY <2>1 DEF Seek, File!SeekTo, Sought, File!Sought
  <2> QED
    BY <2>1, <2>2 DEF File!Next
<1> QED
  BY <1>1, <1>2

\* Every step of the reader is one of FileReader, or changes nothing of the
\* file that is seen.
LEMMA StepMaps ==
  ASSUME IInv, [Next]_vars
  PROVE  [File!Next]_(File!view)
<1>1. CASE UNCHANGED vars \/ TakeLastError \/ UpstreamMoves
  <2>1. UNCHANGED <<total, pos, responseEtag, answer>>
    BY <1>1 DEF vars, TakeLastError, UpstreamMoves
  <2> QED
    BY <2>1 DEF File!view
<1>2. CASE \E buf \in Buffers : Read(buf)
  <2>1. PICK buf \in Buffers : Read(buf)
    BY <1>2
  <2>2. CASE \E etag \in EtagsSent : ReadFetched(buf, etag)
    BY <2>2, FetchedReads
  <2>3. CASE ReadCached(buf)
    BY <2>3, CachedReads
  <2>4. CASE ReadRefused(buf) \/ ReadFails(buf)
    BY <2>4, FailuresMap
  <2>5. CASE ReadNothing(buf)
    BY <2>5, NothingAndSeeksMap
  <2> QED
    BY <2>1, <2>2, <2>3, <2>4, <2>5 DEF Read
<1>3. CASE \E target \in SeekTargets : Seek(target) \/ SeekRejected(target)
  BY <1>3, FailuresMap, NothingAndSeeksMap
<1> QED
  BY <1>1, <1>2, <1>3 DEF Next

\* To the parser that holds it, the reader is a file that may fail to answer,
\* whatever the windows, the tail and the budgets do.
THEOREM ReaderRefinesFile == Spec => ReadsLikeAFile
<1>1. Init => File!Init
  BY ReaderAssumption DEF Init, Opened, File!Init, Nothing, File!Nothing
<1>2. IInv /\ [Next]_vars => [File!Next]_(File!view)
  BY StepMaps
<1> QED
  BY <1>1, <1>2, ReaderInvariant, PTL DEF Spec, ReadsLikeAFile, File!Spec
-----------------------------------------------------------------------------
(* Peek: what holds while it reads.                                         *)

PeekTypeOK ==
  /\ max \in Caps
  /\ limits = TransportLimits(max)
  /\ breaks \subseteq 0 .. total - 1
  /\ mode \in Modes
  /\ scan \in Nat
  /\ content \in Seq(Nat)

\* Where in the file the content begins.
Start ==
  IF mode.kind # "tail" THEN 0
  ELSE IF mode.unit = "bytes" THEN Minus(total, mode.count) ELSE total - scan

\* The bytes of c are those of the file from `from' on.
Contiguous(c, from) == \A i \in 1 .. Len(c) : c[i] = from + i - 1

\* The content ends where the reader is, and what is asked for is not there yet.
Reading ==
  /\ ~Rejected
  /\ pos = Start + Len(content) /\ pos <= total
  /\ Contiguous(content, Start)
  /\ mode.kind = "head" => Measure(content) < mode.count /\ Len(content) <= max
  /\ InLines("tail") =>
       scan <= total /\ scan <= max /\ (scan = 0 => total = 0 \/ max = 0)

Fresh ==
  /\ pos = 0 /\ scan = 0 /\ content = <<>>
  /\ Absent(tail) /\ Absent(window)
  /\ requests = 0 /\ bytesFetched = 0
-----------------------------------------------------------------------------
(* Peek: what it has spent while it reads.                                  *)

Spare == RequestSlack - 2

\* r requests are paid for by n bytes: all but some of the slack brought a chunk.
Paced(r, n) == r <= Spare \/ (r - Spare) * ReadChunk <= n

WindowLimit == window.from + window.len

\* As far as a forward read goes.
Aim == Lesser(total, Start + max)

\* Forward, every byte between the start and the window's end was fetched once,
\* by windows that grow to a chunk in the first requests of the slack.
ForwardSpent ==
  \/ ~Absent(tail) /\ tail.from <= pos
  \/ /\ Absent(tail) /\ Absent(window)
     /\ requests = 0 /\ bytesFetched = 0 /\ pos = Start
  \/ /\ Absent(tail) /\ ~Absent(window)
     /\ window.from <= pos /\ pos <= WindowLimit
     /\ bytesFetched = WindowLimit - Start
     /\ \/ Aim <= WindowLimit
        \/ /\ requests >= 1 /\ Paced(requests, WindowLimit - Start)
           /\ Lesser(ReadChunk, requests * ReadAhead) <= window.len

\* What the scans up to one of p bytes have cost.
ScansSpent(p) ==
  /\ bytesFetched <= Greater(tail.len, 2 * p)
  /\ \/ requests <= 1
     \/ Paced(requests - 1, p) /\ (requests - 1) * TailPrefetch <= p

Widest == scan = Windowed(max)

Covered == tail.from <= pos \/ (~Absent(window) /\ window.from <= pos)

\* Backward, the tail is fetched first and each scan that reaches beyond it
\* fetches one window, up to the tail.
BackwardSpent ==
  \/ /\ Absent(tail) /\ Absent(window)
     /\ requests = 0 /\ bytesFetched = 0 /\ TailStart <= pos /\ content = <<>>
  \/ /\ ~Absent(tail)
     /\ ~Absent(window) => WindowLimit = tail.from
     /\ \/ Covered /\ (Widest \/ ScansSpent(scan))
        \/ /\ content = <<>>
           /\ \E p \in 0 .. scan : ScansSpent(p) /\ (Widest \/ scan = 2 * p)

Spent == IF InLines("tail") THEN BackwardSpent ELSE ForwardSpent

PeekInv ==
  /\ IInv
  /\ PeekTypeOK
  /\ phase = "open" => Fresh
  /\ phase = "reading" => Reading /\ Spent
  /\ ShowsWhatWasAsked
  /\ BudgetsSuffice
-----------------------------------------------------------------------------
(* Arithmetic of the budgets.                                               *)

\* Multiplication keeps the order.
LEMMA TimesMonotone ==
  ASSUME NEW a \in Nat, NEW b \in Nat, NEW u \in Nat, a <= b
  PROVE  a * u <= b * u
<1>1. PICK d \in Nat : b = a + d
  <2>1. b - a \in Nat /\ b = a + (b - a)
    OBVIOUS
  <2> QED
    BY <2>1
<1>2. b * u = a * u + d * u
  BY <1>1
<1>3. a * u \in Nat /\ d * u \in Nat
  OBVIOUS
<1> QED
  BY <1>2, <1>3

\* A quotient is the greatest of the numbers that fit.
LEMMA QuotientFits ==
  ASSUME NEW m \in Nat, NEW c \in Nat \ {0}, NEW k \in Nat, k * c <= m
  PROVE  m \div c \in Nat /\ k <= m \div c
<1> DEFINE q == m \div c
<1>1. q \in Nat /\ m < (q + 1) * c
  OBVIOUS
<1>2. SUFFICES ASSUME k > q PROVE FALSE
  BY <1>1
<1> HIDE DEF q
<1>3. (q + 1) * c <= k * c
  BY <1>1, <1>2, TimesMonotone
<1>4. (q + 1) * c \in Nat /\ k * c \in Nat
  BY <1>1
<1> QED
  BY <1>1, <1>3, <1>4

\* The sizes and limits that the arguments below count with.
LEMMA PeekNumbers ==
  ASSUME IInv, PeekTypeOK
  PROVE  /\ {total, pos, max, scan, requests, bytesFetched} \subseteq Nat
         /\ {window.from, window.len, tail.from, tail.len} \subseteq Nat
         /\ {ReadChunk, TailScanChunk, TailPrefetch, ReadAhead, MaxReadAhead} \subseteq Nat \ {0}
         /\ {limits.requests, limits.transfer, TransferFloor} \subseteq Nat
         /\ max \div ReadChunk + RequestSlack <= limits.requests
         /\ max \div ReadChunk \in Nat
         /\ 2 * max <= limits.transfer /\ TransferFloor <= limits.transfer
         /\ TailStart = Minus(total, TailPrefetch) /\ TailStart \in Nat
<1>1. /\ {total, pos, requests, bytesFetched} \subseteq Nat
      /\ {window.from, window.len, tail.from, tail.len} \subseteq Nat
  BY ReaderAssumption DEF IInv, TypeOK, Extents
<1>2. max \in Nat /\ scan \in Nat
  BY PeekAssumption DEF PeekTypeOK
<1>3. /\ {ReadChunk, TailScanChunk, TailPrefetch, ReadAhead, MaxReadAhead} \subseteq Nat \ {0}
      /\ {TransferFloor, RequestFloor, RequestSlack} \subseteq Nat
  BY ReaderAssumption, PeekAssumption
<1>4. max \div ReadChunk \in Nat
  BY <1>2, <1>3, QuotientFits
<1>5. limits.requests = RequestLimit(max) /\ limits.transfer = TransferLimit(max)
  BY DEF PeekTypeOK, TransportLimits
<1>6. /\ limits.requests \in Nat
      /\ max \div ReadChunk + RequestSlack <= limits.requests
  BY <1>3, <1>4, <1>5 DEF RequestLimit, Greater
<1>7. /\ limits.transfer \in Nat
      /\ 2 * max <= limits.transfer /\ TransferFloor <= limits.transfer
  <2>1. 2 * max \in Nat /\ TransferFloor \in Nat
    BY <1>2, <1>3
  <2>2. limits.transfer = IF 2 * max >= TransferFloor THEN 2 * max ELSE TransferFloor
    BY <1>5 DEF TransferLimit, Greater
  <2> QED
    BY <2>1, <2>2
<1>8. TailStart = Minus(total, TailPrefetch) /\ TailStart \in Nat
  BY <1>1, <1>3 DEF TailStart, Minus
<1> QED
  BY <1>1, <1>2, <1>3, <1>4, <1>6, <1>7, <1>8

\* The slack covers the requests that windows of any extent take to grow to a
\* chunk.
LEMMA SpareSuffices ==
  /\ Spare \in Nat /\ RequestSlack = Spare + 2
  /\ \A n \in {ReadAhead, TailPrefetch} : ReadChunk <= Spare * n
<1>1. /\ RequestSlack \in Nat /\ ReadChunk \in Nat \ {0}
      /\ {ReadAhead, TailPrefetch} \subseteq Nat \ {0}
  BY ReaderAssumption, PeekAssumption
<1>2. \A n \in {ReadAhead, TailPrefetch} : ReadChunk <= Spare * n
  BY LimitsAssumption DEF Spare
<1>3. Spare \in Int /\ RequestSlack = Spare + 2
  BY <1>1 DEF Spare
<1>4. Spare >= 0
  <2>1. SUFFICES ASSUME Spare < 0 PROVE FALSE
    BY <1>3
  <2>2. 0 - Spare \in Nat /\ (0 - Spare) * ReadAhead \in Nat
    BY <1>1, <1>3, <2>1
  <2>3. Spare * ReadAhead = 0 - (0 - Spare) * ReadAhead
    BY <1>1, <1>3
  <2> QED
    BY <1>1, <1>2, <2>2, <2>3
<1> QED
  BY <1>2, <1>3, <1>4

\* As many requests as that, each of some extent, add up to a chunk.
LEMMA ManyMakeAChunk ==
  ASSUME NEW r \in Nat, NEW n \in {ReadAhead, TailPrefetch}, r >= Spare
  PROVE  ReadChunk <= r * n /\ r * n \in Nat
<1>1. ReadChunk \in Nat /\ n \in Nat
  BY ReaderAssumption, PeekAssumption
<1>2. Spare * n <= r * n
  BY <1>1, SpareSuffices, TimesMonotone
<1>3. Spare * n \in Nat /\ r * n \in Nat /\ ReadChunk <= Spare * n
  BY <1>1, SpareSuffices
<1> QED
  BY <1>1, <1>2, <1>3

\* One more request is paid for, by a chunk once the slack is used.
LEMMA PacedStep ==
  ASSUME NEW r \in Nat, NEW n \in Nat, NEW len \in Nat,
         Paced(r, n), r >= Spare => ReadChunk <= len
  PROVE  Paced(r + 1, n + len)
<1>1. Spare \in Nat /\ ReadChunk \in Nat
  BY SpareSuffices, PeekAssumption
<1>2. CASE r < Spare
  BY <1>1, <1>2 DEF Paced
<1>3. CASE r = Spare
  <2>1. (r + 1 - Spare) * ReadChunk = ReadChunk
    BY <1>1, <1>3
  <2> QED
    BY <1>1, <1>3, <2>1 DEF Paced
<1>4. CASE r > Spare
  <2>1. (r - Spare) * ReadChunk <= n /\ r - Spare \in Nat
    BY <1>1, <1>4 DEF Paced
  <2>2. (r + 1 - Spare) * ReadChunk = (r - Spare) * ReadChunk + ReadChunk
    BY <1>1, <2>1
  <2>3. (r - Spare) * ReadChunk \in Nat
    BY <1>1, <2>1
  <2> QED
    BY <1>1, <1>4, <2>1, <2>2, <2>3 DEF Paced
<1> QED
  BY <1>1, <1>2, <1>3, <1>4

\* More bytes pay for as many requests.
LEMMA PacedMonotone ==
  ASSUME NEW r \in Nat, NEW n \in Nat, NEW m \in Nat, n <= m, Paced(r, n)
  PROVE  Paced(r, m)
<1>1. Spare \in Nat /\ ReadChunk \in Nat
  BY SpareSuffices, PeekAssumption
<1>2. (r - Spare) * ReadChunk \in Int
  BY <1>1
<1> QED
  BY <1>1, <1>2 DEF Paced

\* Requests paid for by what may be shown leave two of the limit.
LEMMA PacedAffords ==
  ASSUME IInv, PeekTypeOK, NEW r \in Nat, NEW n \in Nat, Paced(r, n), n <= max
  PROVE  r + 1 < limits.requests
<1>1. /\ max \in Nat /\ max \div ReadChunk \in Nat /\ limits.requests \in Nat
      /\ ReadChunk \in Nat \ {0}
      /\ max \div ReadChunk + RequestSlack <= limits.requests
  BY PeekNumbers
<1>2. Spare \in Nat /\ RequestSlack = Spare + 2
  BY SpareSuffices
<1>3. CASE r <= Spare
  BY <1>1, <1>2, <1>3
<1>4. CASE r > Spare
  <2>1. r - Spare \in Nat /\ (r - Spare) * ReadChunk <= n
    BY <1>2, <1>4 DEF Paced
  <2>2. (r - Spare) * ReadChunk <= max
    BY <1>1, <2>1
  <2>3. r - Spare <= max \div ReadChunk
    BY <1>1, <2>1, <2>2, QuotientFits
  <2> QED
    BY <1>1, <1>2, <2>3
<1> QED
  BY <1>2, <1>3, <1>4
-----------------------------------------------------------------------------
(* What one read of the reader does, as peek sees it.                       *)

\* The answers a read gives, and where it leaves the position.
LEMMA ReadOutcome ==
  ASSUME IInv, NEW buf \in Nat \ {0}, Read(buf)
  PROVE  /\ UNCHANGED <<total, limits>>
         /\ \/ /\ Ended /\ ~Delivered /\ ~Failed
               /\ total <= pos
            \/ Failed /\ ~Ended /\ ~Delivered
            \/ /\ Delivered /\ ~Ended /\ ~Failed
               /\ answer'.from = pos /\ answer'.len \in 1 .. buf
               /\ pos' = pos + answer'.len /\ pos' <= total
<1>1. pos \in Nat /\ total \in Nat
  BY DEF IInv, TypeOK
<1>2. CASE ReadNothing(buf)
  BY <1>1, <1>2 DEF ReadNothing, Nothing, Ended, Delivered, Failed
<1>3. CASE ReadRefused(buf)
  BY <1>3 DEF ReadRefused, Refused, Ended, Delivered, Failed
<1>4. CASE ReadFails(buf)
  BY <1>4 DEF ReadFails, TransportError, Ended, Delivered, Failed
<1>5. ASSUME NEW x, NEW n \in 1 .. buf, x.from + x.len <= total, x.from + x.len \in Nat,
             pos + n <= x.from + x.len, answer' = Bytes(x, n), pos' = pos + n
      PROVE  /\ Delivered /\ ~Ended /\ ~Failed
             /\ answer'.from = pos /\ answer'.len \in 1 .. buf
             /\ pos' = pos + answer'.len /\ pos' <= total
  <2>1. answer'.kind = "bytes" /\ answer'.from = pos /\ answer'.len = n
    BY <1>5 DEF Bytes
  <2>2. pos' <= total
    BY <1>1, <1>5
  <2> QED
    BY <1>5, <2>1, <2>2 DEF Delivered, Ended, Failed
<1>6. CASE ReadCached(buf)
  <2>1. PICK x \in {window, tail} : \E n \in 1 .. buf :
          /\ Contains(x, pos)
          /\ pos + n <= x.from + x.len
          /\ answer' = Bytes(x, n)
          /\ pos' = pos + n
    BY <1>6, CachedStep
  <2>2. x.from + x.len <= total /\ x.from + x.len \in Nat
    BY <2>1, HoldingExtent DEF Extents
  <2>3. UNCHANGED <<total, limits>>
    BY <1>6 DEF ReadCached
  <2> QED
    BY <1>5, <2>1, <2>2, <2>3
<1>7. CASE \E etag \in EtagsSent : ReadFetched(buf, etag)
  <2>1. PICK etag \in EtagsSent : ReadFetched(buf, etag)
    BY <1>7
  <2> DEFINE x == Extent(FetchStart, FetchLength(buf), current, etag # NoVersion)
  <2>2. /\ x \in Extents /\ x.from + x.len <= total
        /\ \E n \in 1 .. buf : /\ pos + n <= x.from + x.len
                               /\ answer' = Bytes(x, n)
                               /\ pos' = pos + n
    BY <2>1, FetchStep
  <2> HIDE DEF x
  <2>3. x.from + x.len \in Nat
    BY <2>2 DEF Extents
  <2>4. UNCHANGED <<total, limits>>
    BY <2>1 DEF ReadFetched
  <2> QED
    BY <1>5, <2>2, <2>3, <2>4
<1> QED
  BY <1>2, <1>3, <1>4, <1>6, <1>7 DEF Read

\* A read that delivers does so from what is cached, or from one fetch.
LEMMA ReadSpends ==
  ASSUME IInv, NEW buf \in Nat \ {0}, Read(buf), Delivered
  PROVE  \/ /\ UNCHANGED <<window, tail, requests, bytesFetched>>
            /\ \E x \in {window, tail} : Contains(x, pos) /\ pos' <= x.from + x.len
         \/ /\ Misses(buf)
            /\ requests' = requests + 1
            /\ bytesFetched' = bytesFetched + FetchLength(buf)
            /\ \/ /\ FetchesTail /\ window' = window
                  /\ tail'.from = TailStart /\ tail'.len = FetchLength(buf)
                  /\ pos' <= tail'.from + tail'.len
               \/ /\ ~FetchesTail /\ tail' = tail
                  /\ window'.from = pos /\ window'.len = FetchLength(buf)
                  /\ pos' <= window'.from + window'.len
<1>1. pos \in Nat /\ total \in Nat
  BY DEF IInv, TypeOK
<1>2. CASE ReadCached(buf)
  <2>1. UNCHANGED <<window, tail, requests, bytesFetched>>
    BY <1>2 DEF ReadCached, cache, spent
  <2> QED
    BY <1>2, <2>1, CachedStep
<1>3. CASE \E etag \in EtagsSent : ReadFetched(buf, etag)
  <2>1. PICK etag \in EtagsSent : ReadFetched(buf, etag)
    BY <1>3
  <2> DEFINE x == Extent(FetchStart, FetchLength(buf), current, etag # NoVersion)
  <2>2. /\ x.from = FetchStart /\ x.len = FetchLength(buf)
        /\ \/ FetchesTail /\ tail' = x /\ window' = window
           \/ ~FetchesTail /\ window' = x /\ tail' = tail
        /\ \E n \in 1 .. buf : /\ pos + n <= x.from + x.len
                               /\ pos' = pos + n
    BY <2>1, FetchStep
  <2> HIDE DEF x
  <2>3. pos' <= x.from + x.len
    BY <2>2
  <2>4. /\ Misses(buf) /\ requests' = requests + 1
        /\ bytesFetched' = bytesFetched + FetchLength(buf)
    BY <2>1 DEF ReadFetched
  <2> QED
    BY <2>2, <2>3, <2>4 DEF FetchStart
<1>4. CASE ReadNothing(buf) \/ ReadRefused(buf) \/ ReadFails(buf)
  BY <1>4 DEF ReadNothing, ReadRefused, ReadFails, Nothing, Refused, TransportError, Delivered
<1> QED
  BY <1>2, <1>3, <1>4 DEF Read

\* Only a miss the budgets cannot pay for is refused.
LEMMA RefusedReads ==
  ASSUME IInv, NEW buf \in Nat \ {0}, Read(buf), answer'.kind = "refused"
  PROVE  ReadRefused(buf)
<1>1. CASE ReadCached(buf)
  BY <1>1, CachedStep DEF Bytes
<1>2. CASE \E etag \in EtagsSent : ReadFetched(buf, etag)
  <2>1. PICK etag \in EtagsSent : ReadFetched(buf, etag)
    BY <1>2
  <2> QED
    BY <2>1, FetchStep DEF Bytes
<1>3. CASE ReadNothing(buf) \/ ReadFails(buf)
  BY <1>3 DEF ReadNothing, ReadFails, Nothing, TransportError
<1> QED
  BY <1>1, <1>2, <1>3 DEF Read
-----------------------------------------------------------------------------
(* Forward reads stay within the budgets.                                   *)

\* What modes there are.
LEMMA ModeShape ==
  ASSUME PeekTypeOK
  PROVE  /\ mode.kind \in {"cat", "head", "tail"}
         /\ mode.kind = "cat" <=> mode = Cat
         /\ mode.kind # "cat" => mode.unit \in {"lines", "bytes"} /\ mode.count \in Nat \ {0}
BY PeekAssumption DEF PeekTypeOK, Modes, Cat

\* The content begins in the file; all that read_to_end reads may be shown.
LEMMA StartShape ==
  ASSUME IInv, PeekTypeOK, Reading
  PROVE  /\ Start \in Nat /\ Start <= pos /\ Len(content) \in Nat
         /\ Len(content) = pos - Start
         /\ ToEnd => total <= Start + max
<1>1. total \in Nat /\ pos \in Nat /\ max \in Nat /\ scan \in Nat
  BY PeekNumbers
<1>2. Len(content) \in Nat /\ pos = Start + Len(content)
  BY DEF PeekTypeOK, Reading
<1>3. Start \in Nat
  BY <1>1, ModeShape DEF Start, Minus, Reading, InLines
<1>4. ASSUME ToEnd PROVE total <= Start + max
  <2>1. CASE mode = Cat
    BY <1>1, <2>1, ModeShape DEF Reading, Rejected, Start
  <2>2. CASE mode # Cat
    <3>1. mode.kind = "tail" /\ mode.unit = "bytes" /\ mode.count \in Nat
      BY <1>4, <2>2, ModeShape DEF ToEnd
    <3>2. mode.count <= max
      BY <1>1, <3>1 DEF Reading, Rejected
    <3>3. Start = Minus(total, mode.count)
      BY <3>1 DEF Start
    <3> QED
      BY <1>1, <3>1, <3>2, <3>3 DEF Minus
  <2> QED
    BY <2>1, <2>2
<1> QED
  BY <1>2, <1>3, <1>4

\* Where a forward read misses: at the end of the window, if there is one.
LEMMA ForwardMiss ==
  ASSUME IInv, PeekTypeOK, Reading, ForwardSpent, NEW buf \in Nat, Misses(buf),
         pos < Start + max
  PROVE  /\ Absent(tail) /\ bytesFetched = pos - Start
         /\ \/ Absent(window) /\ requests = 0
            \/ /\ ~Absent(window) /\ WindowLimit = pos
               /\ requests >= 1 /\ Paced(requests, pos - Start)
               /\ Lesser(ReadChunk, requests * ReadAhead) <= window.len
<1>1. /\ {total, pos, max, requests, bytesFetched} \subseteq Nat
      /\ {window.from, window.len, tail.from, tail.len} \subseteq Nat
  BY PeekNumbers
<1>2. pos < total /\ ~Contains(window, pos) /\ ~Contains(tail, pos)
  BY DEF Misses, Hit
<1>3. Start \in Nat /\ Start <= pos
  BY StartShape
<1>4. Absent(tail)
  <2>1. SUFFICES ASSUME ~Absent(tail) PROVE FALSE
    OBVIOUS
  <2>2. tail.from <= pos /\ tail.from + tail.len = total
    BY <2>1 DEF ForwardSpent, IInv, TailShape
  <2> QED
    BY <1>1, <1>2, <2>2 DEF Contains
<1>5. CASE Absent(window)
  <2>1. requests = 0 /\ bytesFetched = 0 /\ pos = Start
    BY <1>4, <1>5 DEF ForwardSpent
  <2> QED
    BY <1>3, <1>4, <1>5, <2>1
<1>6. CASE ~Absent(window)
  <2>1. /\ window.from <= pos /\ pos <= WindowLimit
        /\ bytesFetched = WindowLimit - Start
        /\ \/ Aim <= WindowLimit
           \/ /\ requests >= 1 /\ Paced(requests, WindowLimit - Start)
              /\ Lesser(ReadChunk, requests * ReadAhead) <= window.len
    BY <1>4, <1>6 DEF ForwardSpent
  <2>2. WindowLimit = pos
    BY <1>1, <1>2, <2>1 DEF Contains, WindowLimit
  <2>3. pos < Aim
    BY <1>1, <1>2, <1>3 DEF Aim, Lesser
  <2>4. ~(Aim <= WindowLimit)
    BY <1>1, <1>3, <2>2, <2>3 DEF Aim, Lesser
  <2> QED
    BY <1>4, <1>6, <2>1, <2>2, <2>4
<1> QED
  BY <1>5, <1>6

\* The budgets allow for one extent more than may be shown.
LEMMA OneMoreExtent ==
  ASSUME IInv, PeekTypeOK, NEW n \in {ReadAhead, TailPrefetch}
  PROVE  max + n <= limits.transfer
<1>1. /\ max \in Nat /\ n \in Nat /\ TransferFloor \in Nat /\ limits.transfer \in Nat
      /\ 2 * max <= limits.transfer /\ TransferFloor <= limits.transfer
  BY PeekNumbers
<1>2. 2 * n <= TransferFloor
  BY LimitsAssumption
<1> QED
  BY <1>1, <1>2

\* The tail is no longer than what is prefetched of it.
LEMMA TailLength ==
  ASSUME IInv, PeekTypeOK, NEW buf \in Nat, FetchesTail
  PROVE  FetchLength(buf) = total - TailStart /\ total - TailStart <= TailPrefetch
<1>1. total \in Nat /\ TailPrefetch \in Nat /\ TailStart = Minus(total, TailPrefetch)
  BY PeekNumbers
<1>2. TailStart \in Nat
  BY PeekNumbers
<1>3. FetchLength(buf) = total - 1 - TailStart + 1
  BY DEF FetchLength, FetchStart, FetchEnd
<1> QED
  BY <1>1, <1>2, <1>3 DEF Minus

\* A forward read is never refused.
LEMMA ForwardAffordable ==
  ASSUME IInv, PeekTypeOK, Reading, ForwardSpent, NEW buf \in Nat, Misses(buf),
         pos < Start + max,
         buf <= max - Len(content) \/ total <= Start + max
  PROVE  Affordable(buf)
<1>1. /\ {total, pos, max, requests, bytesFetched, limits.transfer} \subseteq Nat
      /\ {ReadAhead, TailPrefetch} \subseteq Nat \ {0}
      /\ 2 * max <= limits.transfer
  BY PeekNumbers
<1>2. Start \in Nat /\ Start <= pos /\ Len(content) = pos - Start
  BY StartShape
<1>3. Absent(tail) /\ bytesFetched = pos - Start /\ bytesFetched <= max
  BY <1>1, <1>2, ForwardMiss
<1>4. requests < limits.requests
  <2>1. Paced(requests, pos - Start)
    BY ForwardMiss, SpareSuffices DEF Paced
  <2>2. pos - Start \in Nat /\ pos - Start <= max
    BY <1>1, <1>2
  <2>3. requests + 1 < limits.requests
    BY <1>1, <2>1, <2>2, PacedAffords
  <2>4. limits.requests \in Nat
    BY PeekNumbers
  <2> QED
    BY <1>1, <2>3, <2>4
<1>5. SUFFICES ASSUME ~Affordable(buf) PROVE FALSE
  OBVIOUS
<1>6. CASE FetchesTail
  <2>1. FetchLength(buf) = total - TailStart /\ total - TailStart <= TailPrefetch
        /\ TailStart \in Nat
    BY <1>6, TailLength, PeekNumbers
  <2>2. max + TailPrefetch <= limits.transfer
    BY OneMoreExtent
  <2>3. bytesFetched + FetchLength(buf) <= limits.transfer
    BY <1>1, <1>3, <2>1, <2>2
  <2> QED
    BY <1>4, <1>5, <2>3 DEF Affordable
<1>7. CASE ~FetchesTail
  <2> DEFINE plain == PlainWindow(buf)
  <2>1. bytesFetched + (WindowEnd(plain) - pos + 1) > limits.transfer
    BY <1>4, <1>5, <1>7, GrowthGivesWay
  <2>2. plain \in Nat /\ (plain = buf \/ plain = ReadAhead)
    BY <1>1 DEF PlainWindow, Greater
  <2> HIDE DEF plain
  <2>3. WindowEnd(plain) = Lesser(pos + plain - 1, total - 1)
    BY <1>3 DEF WindowEnd
  <2>4. WindowEnd(plain) \in Int
        /\ WindowEnd(plain) <= pos + plain - 1 /\ WindowEnd(plain) <= total - 1
    BY <1>1, <2>2, <2>3 DEF Lesser
  <2>5. max + ReadAhead <= limits.transfer
    BY OneMoreExtent
  <2> DEFINE end == WindowEnd(plain)
  <2>8. /\ end \in Int /\ end <= pos + plain - 1 /\ end <= total - 1
        /\ pos - Start + (end - pos + 1) > limits.transfer
    BY <1>3, <2>1, <2>4
  <2>9. /\ total \in Nat /\ pos \in Nat /\ max \in Nat /\ limits.transfer \in Nat
        /\ ReadAhead \in Nat /\ 2 * max <= limits.transfer
    BY <1>1
  <2> HIDE DEF end
  <2>6. CASE total <= Start + max
    BY <1>2, <2>6, <2>8, <2>9
  <2>7. CASE buf <= max - Len(content)
    BY <1>2, <2>2, <2>5, <2>7, <2>8, <2>9
  <2> QED
    BY <2>6, <2>7
<1> QED
  BY <1>6, <1>7

\* The window fetched forward reaches as far as is read, or is as long as the
\* requests so far have earned.
LEMMA WindowGrows ==
  ASSUME IInv, PeekTypeOK, Reading, ForwardSpent, NEW buf \in Nat, Misses(buf),
         pos < Start + max, ~FetchesTail
  PROVE  \/ Aim <= pos + FetchLength(buf)
         \/ Lesser(ReadChunk, (requests + 1) * ReadAhead) <= FetchLength(buf)
<1> DEFINE want == Greater(PlainWindow(buf), GrownWindow)
           end == WindowEnd(want)
<1>1. /\ {total, pos, max, requests, bytesFetched, limits.transfer, window.len} \subseteq Nat
      /\ {ReadChunk, ReadAhead, MaxReadAhead} \subseteq Nat \ {0}
      /\ 2 * max <= limits.transfer
  BY PeekNumbers
<1>2. Start \in Nat /\ Start <= pos
  BY StartShape
<1>3. /\ Absent(tail) /\ bytesFetched = pos - Start
      /\ \/ Absent(window) /\ requests = 0
         \/ /\ ~Absent(window) /\ WindowLimit = pos
            /\ requests >= 1 /\ Paced(requests, pos - Start)
            /\ Lesser(ReadChunk, requests * ReadAhead) <= window.len
  BY ForwardMiss
<1>4. FetchLength(buf) = end - pos + 1 /\ end = Lesser(pos + want - 1, total - 1)
  BY <1>3 DEF FetchLength, FetchEnd, FetchStart, WindowEnd
<1>5. PlainWindow(buf) \in Nat /\ PlainWindow(buf) >= ReadAhead
  BY <1>1 DEF PlainWindow, Greater
<1>6. GrownWindow \in Nat
  BY <1>1 DEF GrownWindow, Lesser, Minus
<1>7. want \in Nat /\ want >= ReadAhead /\ want >= GrownWindow
  BY <1>1, <1>5, <1>6 DEF Greater
<1> HIDE DEF want
<1>8. \/ FetchLength(buf) = want
      \/ FetchLength(buf) = total - pos
  BY <1>1, <1>4, <1>7 DEF Lesser
<1>9. Aim <= total /\ Aim <= Start + max
  BY <1>1, <1>2 DEF Aim, Lesser
<1>10. CASE FetchLength(buf) = total - pos
  BY <1>1, <1>9, <1>10
<1>11. CASE FetchLength(buf) = want /\ Absent(window)
  <2>1. (requests + 1) * ReadAhead = ReadAhead
    BY <1>1, <1>3, <1>11
  <2> QED
    BY <1>1, <1>7, <1>11, <2>1 DEF Lesser
<1>12. CASE FetchLength(buf) = want /\ ~Absent(window)
  <2> DEFINE earned == requests * ReadAhead
  <2>1. earned \in Nat /\ (requests + 1) * ReadAhead = earned + ReadAhead
    BY <1>1
  <2>2. ReadAhead <= earned
    <3>1. 1 * ReadAhead <= requests * ReadAhead
      BY <1>1, <1>3, <1>12, TimesMonotone
    <3> QED
      BY <1>1, <3>1
  <2>3. Lesser(ReadChunk, earned) <= window.len
    BY <1>3, <1>12
  <2> HIDE DEF earned
  <2>4. Continues
    BY <1>3, <1>12 DEF Continues, WindowLimit
  <2>5. GrownWindow =
          Lesser(Lesser(2 * window.len, MaxReadAhead), Minus(limits.transfer, bytesFetched))
    BY <2>4 DEF GrownWindow
  <2>6. CASE GrownWindow = 2 * window.len
    <3>1. Lesser(ReadChunk, earned + ReadAhead) <= 2 * window.len
      BY <1>1, <2>1, <2>2, <2>3 DEF Lesser
    <3>2. 2 * window.len <= want /\ earned + ReadAhead \in Nat
      BY <1>7, <2>6, <2>1, <1>1
    <3> QED
      BY <1>1, <1>7, <1>12, <2>1, <3>1, <3>2 DEF Lesser
  <2>7. CASE GrownWindow = MaxReadAhead
    <3>1. ReadChunk <= want
      BY <1>1, <1>7, <2>7, LimitsAssumption
    <3> QED
      BY <1>1, <1>7, <1>12, <2>1, <3>1 DEF Lesser
  <2>8. CASE GrownWindow = Minus(limits.transfer, bytesFetched)
    <3>1. limits.transfer - bytesFetched >= max
      BY <1>1, <1>2, <1>3
    <3>2. want >= max
      BY <1>1, <1>7, <2>8, <3>1 DEF Minus
    <3> QED
      BY <1>1, <1>2, <1>7, <1>9, <1>12, <3>2 DEF Aim, Lesser
  <2> QED
    BY <2>5, <2>6, <2>7, <2>8 DEF Lesser
<1> QED
  BY <1>3, <1>8, <1>10, <1>11, <1>12

\* What a forward read fetches is accounted for.
LEMMA ForwardFetch ==
  ASSUME IInv, PeekTypeOK, Reading, ForwardSpent, NEW buf \in Nat, Misses(buf),
         pos < Start + max, ~FetchesTail, UNCHANGED tail,
         requests' = requests + 1, bytesFetched' = bytesFetched + FetchLength(buf),
         window'.from = pos, window'.len = FetchLength(buf),
         pos' \in Nat, pos <= pos', pos' <= window'.from + window'.len,
         Start' = Start, Aim' = Aim
  PROVE  ForwardSpent'
<1>1. /\ {total, pos, max, requests, bytesFetched, window.len} \subseteq Nat
      /\ {ReadChunk, ReadAhead} \subseteq Nat \ {0}
  BY PeekNumbers
<1>2. Start \in Nat /\ Start <= pos
  BY StartShape
<1>3. /\ Absent(tail) /\ bytesFetched = pos - Start
      /\ (Absent(window) /\ requests = 0) \/ Paced(requests, pos - Start)
  BY ForwardMiss
<1>4. FetchLength(buf) \in Nat \ {0}
  BY FetchCovers DEF IInv
<1>5. Absent(tail') /\ ~Absent(window')
  BY <1>3, <1>4 DEF Absent
<1>6. WindowLimit' = pos + FetchLength(buf)
  BY DEF WindowLimit
<1>7. bytesFetched' = WindowLimit' - Start'
  BY <1>1, <1>2, <1>3, <1>4, <1>6
<1>8. \/ Aim' <= WindowLimit'
      \/ Lesser(ReadChunk, requests' * ReadAhead) <= window'.len
  BY <1>6, WindowGrows
<1>9. ASSUME Lesser(ReadChunk, requests' * ReadAhead) <= window'.len
      PROVE  Paced(requests', WindowLimit' - Start')
  <2>1. Paced(requests, pos - Start)
    BY <1>3, SpareSuffices DEF Paced
  <2>2. requests >= Spare => ReadChunk <= FetchLength(buf)
    <3>1. SUFFICES ASSUME requests >= Spare PROVE ReadChunk <= FetchLength(buf)
      OBVIOUS
    <3>2. requests + 1 \in Nat /\ requests + 1 >= Spare
      BY <1>1, <3>1, SpareSuffices
    <3>3. ReadChunk <= (requests + 1) * ReadAhead /\ (requests + 1) * ReadAhead \in Nat
      BY <3>2, ManyMakeAChunk
    <3> QED
      BY <1>1, <1>9, <3>3 DEF Lesser
  <2>3. Paced(requests + 1, pos - Start + FetchLength(buf))
    <3>1. pos - Start \in Nat
      BY <1>1, <1>2
    <3> QED
      BY <1>1, <1>4, <2>1, <2>2, <3>1, PacedStep
  <2>4. WindowLimit' - Start' = pos - Start + FetchLength(buf)
    BY <1>1, <1>2, <1>4, <1>6
  <2> QED
    BY <2>3, <2>4
<1>10. requests' >= 1 /\ window'.from <= pos' /\ pos' <= WindowLimit'
  BY <1>1 DEF WindowLimit
<1>11. Paced(requests', WindowLimit' - Start') => Paced(requests, WindowLimit - Start)'
  BY DEF Paced, Spare
<1>12. \/ Aim' <= WindowLimit'
       \/ /\ requests' >= 1 /\ Paced(requests, WindowLimit - Start)'
          /\ Lesser(ReadChunk, requests' * ReadAhead) <= window'.len
  BY <1>8, <1>9, <1>10, <1>11
<1>13. Lesser(ReadChunk, requests * ReadAhead)' = Lesser(ReadChunk, requests' * ReadAhead)
  BY DEF Lesser
<1> QED
  BY <1>5, <1>7, <1>10, <1>12, <1>13 DEF ForwardSpent

\* A forward read that delivers leaves the account as it was.
LEMMA ForwardReadKeeps ==
  ASSUME IInv, PeekTypeOK, Reading, ForwardSpent, NEW buf \in Nat \ {0},
         Read(buf), Delivered, pos < Start + max, UNCHANGED options, ~InLines("tail")
  PROVE  ForwardSpent'
<1>1. /\ {total, pos, requests, bytesFetched} \subseteq Nat
      /\ {window.from, window.len, tail.from, tail.len} \subseteq Nat
  BY PeekNumbers
<1>2. /\ total' = total /\ answer'.len \in 1 .. buf
      /\ pos' = pos + answer'.len
  BY ReadOutcome
<1>3. pos' \in Nat /\ pos <= pos'
  BY <1>1, <1>2
<1>4. Start' = Start /\ Aim' = Aim
  <2>1. Start' = Start
    BY <1>2, ModeShape DEF Start, InLines, options, Minus
  <2> QED
    BY <1>2, <2>1 DEF Aim, options, Lesser
<1>5. CASE /\ UNCHANGED <<window, tail, requests, bytesFetched>>
           /\ \E x \in {window, tail} : Contains(x, pos) /\ pos' <= x.from + x.len
  <2>1. PICK x \in {window, tail} : Contains(x, pos) /\ pos' <= x.from + x.len
    BY <1>5
  <2>2. CASE ~Absent(tail) /\ tail.from <= pos
    BY <1>1, <1>3, <1>5, <2>2 DEF ForwardSpent, Absent
  <2>3. CASE ~(~Absent(tail) /\ tail.from <= pos)
    <3>1. Absent(tail)
      BY <2>3 DEF ForwardSpent
    <3>2. ~Contains(tail, pos)
      BY <1>1, <3>1 DEF Absent, Contains
    <3>3. x = window /\ ~Absent(window)
      BY <1>1, <2>1, <3>2 DEF Absent, Contains
    <3>4. /\ window.from <= pos /\ pos <= WindowLimit
          /\ bytesFetched = WindowLimit - Start
          /\ \/ Aim <= WindowLimit
             \/ /\ requests >= 1 /\ Paced(requests, WindowLimit - Start)
                /\ Lesser(ReadChunk, requests * ReadAhead) <= window.len
      BY <2>3, <3>1, <3>3 DEF ForwardSpent
    <3>5. window' = window /\ tail' = tail /\ requests' = requests
          /\ bytesFetched' = bytesFetched /\ WindowLimit' = WindowLimit
      BY <1>5 DEF WindowLimit
    <3>6. window'.from <= pos' /\ pos' <= WindowLimit'
      BY <1>1, <1>3, <2>1, <3>3, <3>4, <3>5 DEF WindowLimit
    <3>7. Paced(requests, WindowLimit - Start)' <=> Paced(requests, WindowLimit - Start)
      BY <1>4, <3>5 DEF Paced, Spare
    <3>8. Lesser(ReadChunk, requests * ReadAhead)' = Lesser(ReadChunk, requests * ReadAhead)
      BY <3>5 DEF Lesser
    <3>9. Absent(tail)' /\ (~Absent(window))'
      BY <3>1, <3>3, <3>5 DEF Absent
    <3> QED
      BY <1>4, <3>4, <3>5, <3>6, <3>7, <3>8, <3>9 DEF ForwardSpent
  <2> QED
    BY <2>2, <2>3
<1>6. CASE Misses(buf) /\ FetchesTail /\ tail'.from = TailStart /\ tail'.len = FetchLength(buf)
  <2>1. FetchLength(buf) \in Nat \ {0} /\ FetchStart <= pos
    BY <1>6, FetchCovers DEF IInv
  <2>2. ~Absent(tail') /\ tail'.from <= pos'
    <3>1. TailStart \in Nat /\ TailStart <= pos
      BY <1>6, PeekNumbers DEF FetchesTail
    <3> QED
      BY <1>1, <1>3, <1>6, <2>1, <3>1 DEF Absent
  <2> QED
    BY <2>2 DEF ForwardSpent, Absent
<1>7. CASE /\ Misses(buf)
           /\ requests' = requests + 1
           /\ bytesFetched' = bytesFetched + FetchLength(buf)
           /\ ~FetchesTail /\ tail' = tail
           /\ window'.from = pos /\ window'.len = FetchLength(buf)
           /\ pos' <= window'.from + window'.len
  BY <1>3, <1>4, <1>7, ForwardFetch
<1> QED
  BY <1>5, <1>6, <1>7, ReadSpends
-----------------------------------------------------------------------------
(* The scan backward stays within the budgets, save perhaps at its widest.  *)

\* What is the widest scan, and what is not.
LEMMA WidestShape ==
  ASSUME IInv, PeekTypeOK, Reading, InLines("tail")
  PROVE  /\ scan <= total /\ scan <= max
         /\ ~Widest => scan < total /\ scan < max
         /\ pos = total - scan + Len(content) /\ Len(content) \in Nat
<1>1. total \in Nat /\ max \in Nat /\ scan \in Nat
  BY PeekNumbers
<1>2. scan <= total /\ scan <= max /\ pos = Start + Len(content) /\ Len(content) \in Nat
  BY DEF Reading, PeekTypeOK
<1>3. Start = total - scan
  BY DEF Start, InLines
<1> QED
  BY <1>1, <1>2, <1>3 DEF Widest, Windowed, Lesser

\* What shorter scans have cost, longer ones may have cost.
LEMMA ScansMonotone ==
  ASSUME IInv, PeekTypeOK, NEW p \in Nat, NEW q \in Nat, p <= q, ScansSpent(p)
  PROVE  ScansSpent(q)
<1>1. requests \in Nat /\ bytesFetched \in Nat /\ tail.len \in Nat /\ TailPrefetch \in Nat
  BY PeekNumbers
<1>2. bytesFetched <= Greater(tail.len, 2 * q)
  BY <1>1 DEF ScansSpent, Greater
<1>3. CASE requests <= 1
  BY <1>2, <1>3 DEF ScansSpent
<1>4. CASE requests > 1
  <2>1. requests - 1 \in Nat
    BY <1>1, <1>4
  <2>2. Paced(requests - 1, p) /\ (requests - 1) * TailPrefetch <= p
    BY <1>1, <1>4 DEF ScansSpent
  <2>3. (requests - 1) * TailPrefetch \in Nat
    BY <1>1, <2>1
  <2>4. (requests - 1) * TailPrefetch <= q
    BY <2>2, <2>3
  <2> QED
    BY <1>2, <2>1, <2>2, <2>4, PacedMonotone DEF ScansSpent
<1> QED
  BY <1>1, <1>3, <1>4

\* Where a scan misses: at its start, before the tail, or before there is one.
LEMMA BackwardMiss ==
  ASSUME IInv, PeekTypeOK, Reading, BackwardSpent, InLines("tail"),
         NEW buf \in Nat, Misses(buf)
  PROVE  \/ /\ FetchesTail /\ Absent(window)
            /\ requests = 0 /\ bytesFetched = 0
         \/ /\ ~Absent(tail) /\ ~FetchesTail
            /\ content = <<>> /\ pos < tail.from
            /\ tail.len = TailPrefetch /\ tail.from = total - TailPrefetch
            /\ TailPrefetch < scan
            /\ \E p \in 0 .. scan : ScansSpent(p) /\ (Widest \/ scan = 2 * p)
<1>1. /\ {total, pos, scan} \subseteq Nat
      /\ {window.from, window.len, tail.from, tail.len} \subseteq Nat
      /\ TailPrefetch \in Nat /\ TailStart = Minus(total, TailPrefetch)
  BY PeekNumbers
<1>2. pos < total /\ ~Contains(window, pos) /\ ~Contains(tail, pos)
  BY DEF Misses, Hit
<1>3. CASE Absent(tail)
  BY <1>3 DEF BackwardSpent, FetchesTail
<1>4. CASE ~Absent(tail)
  <2>1. tail.from = TailStart /\ tail.from + tail.len = total
    BY <1>4 DEF IInv, TailShape
  <2>2. pos < tail.from
    BY <1>1, <1>2, <2>1 DEF Contains
  <2>3. ~Covered
    <3>1. SUFFICES ASSUME ~Absent(window), window.from <= pos PROVE FALSE
      BY <1>1, <2>2 DEF Covered
    <3>2. WindowLimit = tail.from
      BY <1>4, <3>1 DEF BackwardSpent
    <3> QED
      BY <1>1, <1>2, <2>2, <3>1, <3>2 DEF Contains, WindowLimit
  <2>4. content = <<>> /\ \E p \in 0 .. scan : ScansSpent(p) /\ (Widest \/ scan = 2 * p)
    BY <1>4, <2>3 DEF BackwardSpent
  <2>5. tail.from = total - TailPrefetch /\ tail.len = TailPrefetch
    BY <1>1, <2>1, <2>2 DEF Minus
  <2>6. pos = total - scan
    BY <1>1, <2>4, WidestShape
  <2> QED
    BY <1>1, <1>4, <2>2, <2>4, <2>5, <2>6 DEF FetchesTail
<1> QED
  BY <1>3, <1>4

\* The window of a scan that reaches beyond the tail ends where the tail begins.
LEMMA ScanWindow ==
  ASSUME IInv, PeekTypeOK, Reading, BackwardSpent, InLines("tail"),
         NEW buf \in Nat, Misses(buf), buf = scan - Len(content), ~FetchesTail
  PROVE  FetchLength(buf) = tail.from - pos /\ tail.from - pos = scan - TailPrefetch
<1> DEFINE want == Greater(PlainWindow(buf), GrownWindow)
           end == WindowEnd(want)
<1>1. /\ total \in Nat /\ pos \in Nat /\ scan \in Nat /\ tail.from \in Nat
      /\ window.len \in Nat /\ bytesFetched \in Nat /\ limits.transfer \in Nat
      /\ ReadAhead \in Nat /\ MaxReadAhead \in Nat /\ TailPrefetch \in Nat \ {0}
  BY PeekNumbers
<1>2. /\ ~Absent(tail) /\ content = <<>> /\ pos < tail.from
      /\ tail.from = total - TailPrefetch
  BY BackwardMiss
<1>3. buf = scan /\ pos = total - scan
  BY <1>1, <1>2, WidestShape
<1>4. GrownWindow \in Nat
  <2>1. Minus(limits.transfer, bytesFetched) \in Nat /\ 2 * window.len \in Nat
    BY <1>1 DEF Minus
  <2>2. Lesser(2 * window.len, MaxReadAhead) \in Nat
    BY <1>1, <2>1 DEF Lesser
  <2> QED
    BY <2>1, <2>2 DEF GrownWindow, Lesser
<1>5. want \in Nat /\ want >= scan
  BY <1>1, <1>3, <1>4 DEF PlainWindow, Greater
<1> HIDE DEF want
<1>6. end = Lesser(Lesser(pos + want - 1, total - 1), tail.from - 1)
  BY <1>2 DEF WindowEnd
<1>7. pos + want - 1 >= total - 1 /\ tail.from - 1 <= total - 1 /\ pos + want - 1 \in Int
  BY <1>1, <1>2, <1>3, <1>5
<1>8. Lesser(pos + want - 1, total - 1) = total - 1
  BY <1>1, <1>7 DEF Lesser
<1>9. end = tail.from - 1
  BY <1>1, <1>6, <1>7, <1>8 DEF Lesser
<1>10. FetchLength(buf) = end - pos + 1
  BY DEF FetchLength, FetchEnd, FetchStart, want
<1> HIDE DEF end
<1> QED
  BY <1>1, <1>2, <1>3, <1>9, <1>10

\* A scan is refused only at its widest, and where three of that exceed the budget.
LEMMA BackwardAffordable ==
  ASSUME IInv, PeekTypeOK, Reading, BackwardSpent, InLines("tail"),
         NEW buf \in Nat, Misses(buf), buf = scan - Len(content),
         ~Widest \/ 3 * scan <= limits.transfer
  PROVE  Affordable(buf)
<1>1. /\ total \in Nat /\ max \in Nat /\ scan \in Nat
      /\ requests \in Nat /\ bytesFetched \in Nat
      /\ limits.transfer \in Nat /\ limits.requests \in Nat /\ 2 * max <= limits.transfer
      /\ max \div ReadChunk \in Nat
      /\ max \div ReadChunk + RequestSlack <= limits.requests
      /\ TailPrefetch \in Nat /\ tail.len \in Nat
  BY PeekNumbers
<1>2. Spare \in Nat /\ RequestSlack = Spare + 2
  BY SpareSuffices
<1>3. CASE FetchesTail
  <2>1. requests = 0 /\ bytesFetched = 0
    BY <1>3, BackwardMiss DEF FetchesTail
  <2>2. FetchLength(buf) = total - TailStart /\ total - TailStart <= TailPrefetch
        /\ TailStart \in Nat
    BY <1>3, TailLength, PeekNumbers
  <2>3. max + TailPrefetch <= limits.transfer
    BY OneMoreExtent
  <2>4. 0 < limits.requests
    BY <1>1, <1>2
  <2>5. bytesFetched + FetchLength(buf) <= limits.transfer
    BY <1>1, <2>1, <2>2, <2>3
  <2> QED
    BY <2>1, <2>4, <2>5 DEF Affordable
<1>4. CASE ~FetchesTail
  <2>1. /\ tail.len = TailPrefetch /\ TailPrefetch < scan
        /\ \E p \in 0 .. scan : ScansSpent(p) /\ (Widest \/ scan = 2 * p)
    BY <1>4, BackwardMiss
  <2>2. PICK p \in 0 .. scan : ScansSpent(p) /\ (Widest \/ scan = 2 * p)
    BY <2>1
  <2>3. p \in Nat /\ p <= scan /\ scan <= max /\ (~Widest => scan < max)
    BY <1>1, <2>2, WidestShape
  <2>4. requests < limits.requests
    <3>1. CASE requests <= 1
      BY <1>1, <1>2, <3>1
    <3>2. CASE requests > 1
      <4>1. requests - 1 \in Nat /\ ~(requests <= 1)
        BY <1>1, <3>2
      <4>3. Paced(requests - 1, p)
        BY <2>2, <4>1 DEF ScansSpent
      <4>2. p <= max
        BY <1>1, <2>3
      <4>4. requests - 1 + 1 < limits.requests
        BY <2>3, <4>1, <4>2, <4>3, PacedAffords
      <4> QED
        BY <1>1, <4>4
    <3> QED
      BY <1>1, <3>1, <3>2
  <2>5. FetchLength(buf) = scan - TailPrefetch
    BY <1>4, ScanWindow
  <2>6. bytesFetched <= Greater(TailPrefetch, 2 * p)
    BY <2>1, <2>2 DEF ScansSpent
  <2>7. bytesFetched <= TailPrefetch \/ bytesFetched <= 2 * p
    BY <1>1, <2>3, <2>6 DEF Greater
  <2>8. bytesFetched + (scan - TailPrefetch) <= limits.transfer
    <3>1. CASE 3 * scan <= limits.transfer
      BY <1>1, <2>1, <2>3, <2>7, <3>1
    <3>2. CASE scan = 2 * p /\ scan < max
      BY <1>1, <2>1, <2>3, <2>7, <3>2
    <3> QED
      BY <2>2, <2>3, <3>1, <3>2
  <2> QED
    BY <2>4, <2>5, <2>8 DEF Affordable
<1> QED
  BY <1>3, <1>4

\* What a scan's window costs is accounted for.
LEMMA BackwardFetch ==
  ASSUME IInv, PeekTypeOK, Reading, BackwardSpent, InLines("tail"), scan \in Nat,
         NEW buf \in Nat, Misses(buf), buf = scan - Len(content), ~FetchesTail,
         UNCHANGED <<tail, scan, total, max>>,
         requests' = requests + 1, bytesFetched' = bytesFetched + FetchLength(buf),
         window'.from = pos, window'.len = FetchLength(buf),
         pos' \in Nat, pos <= pos'
  PROVE  BackwardSpent'
<1>1. /\ total \in Nat /\ pos \in Nat /\ tail.from \in Nat
      /\ requests \in Nat /\ bytesFetched \in Nat
      /\ TailPrefetch \in Nat \ {0} /\ ReadChunk \in Nat \ {0}
  BY PeekNumbers
<1>2. /\ ~Absent(tail) /\ pos < tail.from
      /\ tail.len = TailPrefetch /\ TailPrefetch < scan
      /\ \E p \in 0 .. scan : ScansSpent(p) /\ (Widest \/ scan = 2 * p)
  BY BackwardMiss
<1>3. FetchLength(buf) = tail.from - pos /\ tail.from - pos = scan - TailPrefetch
  BY ScanWindow
<1>4. PICK p \in 0 .. scan : ScansSpent(p) /\ (Widest \/ scan = 2 * p)
  BY <1>2
<1>5. WindowLimit' = tail'.from /\ Covered' /\ ~Absent(tail')
  <2>1. window'.len = tail.from - pos /\ window'.from = pos /\ tail' = tail
    BY <1>3
  <2>2. window'.from + window'.len = tail.from /\ window'.len > 0 /\ window'.from <= pos'
    BY <1>1, <1>2, <2>1
  <2> QED
    BY <1>2, <2>1, <2>2 DEF WindowLimit, Covered, Absent
<1>6. Widest' <=> Widest
  BY DEF Widest, Windowed, Lesser
<1>7. ASSUME ~Widest PROVE ScansSpent(scan)'
  <2>1. p \in Nat /\ scan = 2 * p
    BY <1>4, <1>7
  <2>2. bytesFetched' <= Greater(tail'.len, 2 * scan')
    <3>1. bytesFetched <= TailPrefetch \/ bytesFetched <= 2 * p
      BY <1>1, <1>2, <1>4, <2>1 DEF ScansSpent, Greater
    <3>2. bytesFetched + (scan - TailPrefetch) <= 2 * scan
      BY <1>1, <1>2, <2>1, <3>1
    <3>3. tail'.len = TailPrefetch /\ scan' = scan
      BY <1>2
    <3>4. bytesFetched' <= 2 * scan
      BY <1>3, <3>2
    <3> QED
      BY <1>1, <3>3, <3>4 DEF Greater
  <2>3. \/ requests' <= 1
        \/ Paced(requests, scan) /\ requests * TailPrefetch <= scan
    <3>1. CASE requests = 0
      BY <3>1
    <3>2. CASE requests = 1
      <4>1. Spare >= 1
        <5>1. SUFFICES ASSUME Spare = 0 PROVE FALSE
          BY SpareSuffices
        <5>2. Spare * TailPrefetch = 0
          BY <1>1, <5>1
        <5> QED
          BY <1>1, <5>2, SpareSuffices
      <4>2. Paced(requests, scan)
        BY <3>2, <4>1, SpareSuffices DEF Paced
      <4>3. requests * TailPrefetch <= scan
        BY <1>1, <1>2, <3>2
      <4> QED
        BY <4>2, <4>3
    <3>3. CASE requests > 1
      <4> DEFINE r == requests - 1
      <4>1. r \in Nat /\ r >= 1 /\ requests = r + 1 /\ ~(requests <= 1)
        BY <1>1, <3>3
      <4>2. Paced(r, p) /\ r * TailPrefetch <= p
        BY <1>4, <4>1 DEF ScansSpent
      <4> HIDE DEF r
      <4>3. r >= Spare => ReadChunk <= p
        <5>1. SUFFICES ASSUME r >= Spare PROVE ReadChunk <= p
          OBVIOUS
        <5>2. ReadChunk <= r * TailPrefetch /\ r * TailPrefetch \in Nat
          BY <4>1, <5>1, ManyMakeAChunk
        <5> QED
          BY <1>1, <2>1, <4>2, <5>2
      <4>4. Paced(r + 1, p + p)
        BY <2>1, <4>1, <4>2, <4>3, PacedStep
      <4>5. TailPrefetch <= r * TailPrefetch
        <5>1. 1 * TailPrefetch <= r * TailPrefetch
          BY <1>1, <4>1, TimesMonotone
        <5> QED
          BY <1>1, <5>1
      <4>6. requests * TailPrefetch = r * TailPrefetch + TailPrefetch /\ r * TailPrefetch \in Nat
        BY <1>1, <4>1
      <4>7. requests * TailPrefetch <= scan
        BY <1>1, <2>1, <4>2, <4>5, <4>6
      <4>8. p + p = scan
        BY <2>1
      <4> QED
        BY <4>1, <4>4, <4>7, <4>8
    <3> QED
      BY <1>1, <3>1, <3>2, <3>3
  <2>4. requests' - 1 = requests
    BY <1>1
  <2>5. Paced(requests, scan) => Paced(requests' - 1, scan')
    BY <2>4
  <2>6. (requests' - 1) * TailPrefetch = requests * TailPrefetch
    BY <2>4
  <2> QED
    BY <2>2, <2>3, <2>5, <2>6 DEF ScansSpent, Greater, Paced, Spare
<1> QED
  BY <1>5, <1>6, <1>7 DEF BackwardSpent

\* A read of the scan that delivers leaves the account as it was.
LEMMA BackwardReadKeeps ==
  ASSUME IInv, PeekTypeOK, Reading, BackwardSpent, InLines("tail"),
         NEW buf \in Nat \ {0}, buf = scan - Len(content),
         Read(buf), Delivered, UNCHANGED <<options, scan>>
  PROVE  BackwardSpent'
<1>1. /\ total \in Nat /\ pos \in Nat /\ scan \in Nat
      /\ window.from \in Nat /\ window.len \in Nat /\ tail.from \in Nat /\ tail.len \in Nat
  BY PeekNumbers
<1>2. /\ total' = total /\ max' = max /\ answer'.len \in 1 .. buf
      /\ pos' = pos + answer'.len
  BY ReadOutcome DEF options
<1>3. pos' \in Nat /\ pos <= pos'
  BY <1>1, <1>2
<1>4. CASE /\ UNCHANGED <<window, tail, requests, bytesFetched>>
           /\ \E x \in {window, tail} : Contains(x, pos) /\ pos' <= x.from + x.len
  <2>1. Contains(window, pos) \/ Contains(tail, pos)
    BY <1>4
  <2>2. ~Absent(tail)
    <3>1. SUFFICES ASSUME Absent(tail), Absent(window) PROVE FALSE
      BY DEF BackwardSpent
    <3> QED
      BY <1>1, <2>1, <3>1 DEF Contains, Absent
  <2>3. Covered
    BY <1>1, <2>1 DEF Covered, Contains, Absent
  <2>4. Widest \/ ScansSpent(scan)
    <3>1. CASE \E p \in 0 .. scan : ScansSpent(p) /\ (Widest \/ scan = 2 * p)
      BY <1>1, <3>1, ScansMonotone
    <3> QED
      BY <2>2, <3>1 DEF BackwardSpent
  <2>5. Covered'
    BY <1>1, <1>3, <1>4, <2>3 DEF Covered, Absent
  <2>6. (Widest' <=> Widest) /\ (ScansSpent(scan)' <=> ScansSpent(scan))
    BY <1>2, <1>4 DEF Widest, Windowed, Lesser, ScansSpent, Greater, Paced, Spare
  <2>7. ~Absent(tail') /\ (~Absent(window') => WindowLimit' = tail'.from)
    BY <1>4, <2>2 DEF BackwardSpent, WindowLimit, Absent
  <2> QED
    BY <2>4, <2>5, <2>6, <2>7 DEF BackwardSpent, Absent
<1>5. CASE /\ Misses(buf)
           /\ requests' = requests + 1
           /\ bytesFetched' = bytesFetched + FetchLength(buf)
           /\ FetchesTail /\ window' = window
           /\ tail'.from = TailStart /\ tail'.len = FetchLength(buf)
  <2>1. Absent(window) /\ requests = 0 /\ bytesFetched = 0
    BY <1>5, BackwardMiss DEF FetchesTail
  <2>2. FetchLength(buf) \in Nat \ {0} /\ TailStart \in Nat /\ TailStart <= pos
    BY <1>5, FetchCovers, PeekNumbers DEF IInv, FetchesTail
  <2>3. ~Absent(tail') /\ Absent(window') /\ Covered'
    BY <1>1, <1>3, <1>5, <2>1, <2>2 DEF Absent, Covered
  <2>4. ScansSpent(scan)'
    <3>1. bytesFetched' = tail'.len /\ requests' = 1 /\ tail'.len \in Nat
      BY <1>5, <2>1, <2>2
    <3>2. scan' \in Nat
      BY <1>1
    <3> QED
      BY <3>1, <3>2 DEF ScansSpent, Greater
  <2> QED
    BY <2>3, <2>4 DEF BackwardSpent, Absent
<1>6. CASE /\ Misses(buf)
           /\ requests' = requests + 1
           /\ bytesFetched' = bytesFetched + FetchLength(buf)
           /\ ~FetchesTail /\ tail' = tail
           /\ window'.from = pos /\ window'.len = FetchLength(buf)
  BY <1>1, <1>2, <1>3, <1>6, BackwardFetch
<1> QED
  BY <1>4, <1>5, <1>6, ReadSpends
-----------------------------------------------------------------------------
(* Sequences of positions in the file.                                      *)

\* The buffer a read that delivers was made into.
LEMMA GotShape ==
  ASSUME pos \in Nat, answer'.from = pos, answer'.len \in Nat
  PROVE  Got \in Seq(Nat) /\ Len(Got) = answer'.len /\ Contiguous(Got, pos)
<1> DEFINE n == answer'.len
<1>1. Got = [i \in 1 .. n |-> pos + i - 1]
  BY DEF Got
<1>2. \A i \in 1 .. n : pos + i - 1 \in Nat
  OBVIOUS
<1>3. n \in Nat
  OBVIOUS
<1> HIDE DEF n
<1>4. Got \in Seq(Nat) /\ Len(Got) = n
  BY <1>1, <1>2, <1>3
<1>5. Contiguous(Got, pos)
  BY <1>1, <1>4 DEF Contiguous
<1> QED
  BY <1>4, <1>5 DEF n

\* What follows on is appended.
LEMMA Appended ==
  ASSUME NEW c \in Seq(Nat), NEW g \in Seq(Nat), NEW from \in Nat,
         Contiguous(c, from), Contiguous(g, from + Len(c))
  PROVE  /\ c \o g \in Seq(Nat) /\ Len(c \o g) = Len(c) + Len(g)
         /\ Contiguous(c \o g, from)
<1>1. c \o g \in Seq(Nat) /\ Len(c \o g) = Len(c) + Len(g)
  OBVIOUS
<1>2. Len(c) \in Nat /\ Len(g) \in Nat
  OBVIOUS
<1>3. ASSUME NEW i \in 1 .. Len(c) + Len(g)
      PROVE  (c \o g)[i] = from + i - 1
  <2>1. CASE i <= Len(c)
    <3>1. (c \o g)[i] = c[i] /\ i \in 1 .. Len(c)
      BY <1>2, <2>1
    <3> QED
      BY <3>1 DEF Contiguous
  <2>2. CASE i > Len(c)
    <3>1. (c \o g)[i] = g[i - Len(c)] /\ i - Len(c) \in 1 .. Len(g)
      BY <1>2, <2>2
    <3>2. g[i - Len(c)] = from + Len(c) + (i - Len(c)) - 1
      BY <3>1 DEF Contiguous
    <3> QED
      BY <1>2, <3>1, <3>2
  <2> QED
    BY <1>2, <2>1, <2>2
<1> QED
  BY <1>1, <1>3 DEF Contiguous

\* A part of consecutive positions.
LEMMA PartOf ==
  ASSUME NEW c \in Seq(Nat), NEW from \in Nat, Contiguous(c, from),
         NEW i \in 1 .. Len(c) + 1, NEW k \in i - 1 .. Len(c)
  PROVE  /\ SubSeq(c, i, k) \in Seq(Nat) /\ Len(SubSeq(c, i, k)) = k - i + 1
         /\ Contiguous(SubSeq(c, i, k), from + i - 1)
<1>1. Len(c) \in Nat /\ i \in Nat /\ k \in Int /\ k - i + 1 \in Nat
  OBVIOUS
<1>2. SubSeq(c, i, k) = [j \in 1 .. k - i + 1 |-> c[i + j - 1]]
  BY <1>1
<1>3. \A j \in 1 .. k - i + 1 : i + j - 1 \in 1 .. Len(c)
  BY <1>1
<1>4. \A j \in 1 .. k - i + 1 : c[i + j - 1] \in Nat
  BY <1>3
<1> DEFINE n == k - i + 1
<1>5. n \in Nat /\ SubSeq(c, i, k) = [j \in 1 .. n |-> c[i + j - 1]]
      /\ \A j \in 1 .. n : c[i + j - 1] \in Nat /\ i + j - 1 \in 1 .. Len(c)
  BY <1>1, <1>2, <1>3, <1>4
<1> HIDE DEF n
<1>6. SubSeq(c, i, k) \in Seq(Nat) /\ Len(SubSeq(c, i, k)) = n
  BY <1>5
<1>7. \A j \in 1 .. n : SubSeq(c, i, k)[j] = from + (i + j - 1) - 1
  BY <1>5 DEF Contiguous
<1>8. Contiguous(SubSeq(c, i, k), from + i - 1)
  BY <1>1, <1>6, <1>7 DEF Contiguous
<1> QED
  BY <1>6, <1>8 DEF n

\* Consecutive positions are known by the first and their number.
LEMMA ContiguousIs ==
  ASSUME NEW c \in Seq(Nat), NEW from \in Nat, Contiguous(c, from)
  PROVE  c = Positions(from, from + Len(c) - 1)
<1>1. Len(c) \in Nat /\ c = [i \in 1 .. Len(c) |-> c[i]]
  OBVIOUS
<1>2. from + Len(c) - 1 - from + 1 = Len(c)
  BY <1>1
<1>3. Positions(from, from + Len(c) - 1) = [i \in 1 .. Len(c) |-> from + i - 1]
  BY <1>2 DEF Positions
<1> QED
  BY <1>1, <1>3 DEF Contiguous
-----------------------------------------------------------------------------
(* Counting newlines.                                                       *)

\* The newlines from one position up to another.
Within(lo, hi) == {b \in breaks : lo <= b /\ b < hi}

\* A newline is a position of the file.
LEMMA BreakShape ==
  ASSUME IInv, PeekTypeOK, NEW b \in breaks
  PROVE  b \in Nat /\ b < total
<1>1. total \in Nat /\ b \in 0 .. total - 1
  BY PeekNumbers DEF PeekTypeOK
<1> QED
  BY <1>1

\* There are finitely many.
LEMMA WithinFinite ==
  ASSUME IInv, PeekTypeOK, NEW lo, NEW hi
  PROVE  IsFiniteSet(Within(lo, hi)) /\ Cardinality(Within(lo, hi)) \in Nat
<1>1. IsFiniteSet(0 .. total - 1)
  BY FS_Interval, PeekNumbers
<1>2. IsFiniteSet(Within(lo, hi))
  BY <1>1, FS_Subset DEF Within, PeekTypeOK
<1> QED
  BY <1>2, FS_CardinalityType

\* The newlines of consecutive positions are those of the file there.
LEMMA BreaksCounted ==
  ASSUME IInv, PeekTypeOK, NEW c \in Seq(Nat), NEW from \in Nat, Contiguous(c, from),
         NEW i \in 1 .. Len(c) + 1
  PROVE  LET found == {j \in DOMAIN c : c[j] \in breaks /\ i <= j} IN
         /\ IsFiniteSet(found)
         /\ Cardinality(found) = Cardinality(Within(from + i - 1, from + Len(c)))
<1> DEFINE found == {j \in DOMAIN c : c[j] \in breaks /\ i <= j}
           those == Within(from + i - 1, from + Len(c))
           f == [j \in found |-> c[j]]
<1>1. Len(c) \in Nat /\ DOMAIN c = 1 .. Len(c) /\ i \in Nat
  OBVIOUS
<1>2. breaks \subseteq Nat
  BY PeekNumbers DEF PeekTypeOK
<1>3. \A j \in found : c[j] = from + j - 1 /\ j \in Nat /\ i <= j /\ j <= Len(c)
                       /\ c[j] \in breaks
  BY <1>1 DEF Contiguous
<1>4. \A j \in found : f[j] \in those
  BY <1>1, <1>2, <1>3 DEF Within
<1>5. \A b \in those : b - from + 1 \in found /\ c[b - from + 1] = b
  <2>1. SUFFICES ASSUME NEW b \in those PROVE b - from + 1 \in found /\ c[b - from + 1] = b
    OBVIOUS
  <2>2. b \in breaks /\ b \in Nat /\ from + i - 1 <= b /\ b < from + Len(c)
    BY <1>2 DEF Within
  <2>3. b - from + 1 \in 1 .. Len(c) /\ i <= b - from + 1
    BY <1>1, <2>2
  <2>4. c[b - from + 1] = b
    BY <1>1, <2>2, <2>3 DEF Contiguous
  <2> QED
    BY <1>1, <2>2, <2>3, <2>4
<1>6. f \in [found -> those]
  BY <1>4
<1>7. \A j, k \in found : f[j] = f[k] => j = k
  BY <1>3
<1>8. \A b \in those : \E j \in found : f[j] = b
  BY <1>5
<1>9. f \in Bijection(found, those)
  <2> HIDE DEF found, those, f
  <2> QED
    BY <1>6, <1>7, <1>8 DEF Bijection, Injection, Surjection, IsInjective
<1>10. IsFiniteSet(found)
  <2>1. IsFiniteSet(1 .. Len(c))
    BY <1>1, FS_Interval
  <2> QED
    BY <1>1, <2>1, FS_Subset
<1>11. Cardinality(those) = Cardinality(found)
  <2> HIDE DEF found, those, f
  <2> QED
    BY <1>9, <1>10, FS_Bijection DEF ExistsBijection
<1> QED
  BY <1>10, <1>11

\* How many newlines are in the content.
LEMMA BreaksInContent ==
  ASSUME IInv, PeekTypeOK, NEW c \in Seq(Nat), NEW from \in Nat, Contiguous(c, from)
  PROVE  BreaksIn(c) = Cardinality(Within(from, from + Len(c))) /\ BreaksIn(c) \in Nat
<1>1. Len(c) \in Nat /\ 1 \in 1 .. Len(c) + 1 /\ DOMAIN c = 1 .. Len(c)
  OBVIOUS
<1>2. {j \in DOMAIN c : c[j] \in breaks /\ 1 <= j} = {j \in DOMAIN c : c[j] \in breaks}
  BY <1>1
<1>3. from + 1 - 1 = from
  OBVIOUS
<1>4. BreaksIn(c) = Cardinality(Within(from, from + Len(c)))
  BY <1>1, <1>2, <1>3, BreaksCounted DEF BreaksIn
<1> QED
  BY <1>4, WithinFinite

\* One more position holds one more newline or none.
LEMMA WithinSteps ==
  ASSUME IInv, PeekTypeOK, NEW lo \in Nat, NEW hi \in Nat, lo <= hi
  PROVE  /\ Cardinality(Within(lo, hi + 1)) =
              Cardinality(Within(lo, hi)) + (IF hi \in breaks THEN 1 ELSE 0)
         /\ Cardinality(Within(lo, hi + 1)) =
              Cardinality(Within(lo + 1, hi + 1)) + (IF lo \in breaks THEN 1 ELSE 0)
<1>1. \A b \in breaks : b \in Nat
  BY BreakShape
<1>2. IsFiniteSet(Within(lo, hi)) /\ IsFiniteSet(Within(lo + 1, hi + 1))
  BY WithinFinite
<1>3. /\ Cardinality(Within(lo, hi)) \in Nat /\ Cardinality(Within(lo + 1, hi + 1)) \in Nat
  BY WithinFinite
<1>4. Cardinality(Within(lo, hi + 1)) =
        Cardinality(Within(lo, hi)) + (IF hi \in breaks THEN 1 ELSE 0)
  <2>1. hi \notin Within(lo, hi)
    BY DEF Within
  <2>2. CASE hi \in breaks
    <3>1. Within(lo, hi + 1) = Within(lo, hi) \cup {hi}
      <4>1. ASSUME NEW b \in breaks
            PROVE  b \in Within(lo, hi + 1) <=> b \in Within(lo, hi) \cup {hi}
        BY <1>1, <2>2, <4>1 DEF Within
      <4> QED
        BY <4>1, <2>2 DEF Within
    <3> QED
      BY <1>2, <2>1, <2>2, <3>1, FS_AddElement
  <2>3. CASE hi \notin breaks
    <3>1. Within(lo, hi + 1) = Within(lo, hi)
      <4>1. ASSUME NEW b \in breaks
            PROVE  b \in Within(lo, hi + 1) <=> b \in Within(lo, hi)
        BY <1>1, <2>3, <4>1 DEF Within
      <4> QED
        BY <4>1, <2>3 DEF Within
    <3> QED
      BY <1>3, <2>3, <3>1
  <2> QED
    BY <2>2, <2>3
<1>5. Cardinality(Within(lo, hi + 1)) =
        Cardinality(Within(lo + 1, hi + 1)) + (IF lo \in breaks THEN 1 ELSE 0)
  <2>1. lo \notin Within(lo + 1, hi + 1)
    BY DEF Within
  <2>2. CASE lo \in breaks
    <3>1. Within(lo, hi + 1) = Within(lo + 1, hi + 1) \cup {lo}
      <4>1. ASSUME NEW b \in breaks
            PROVE  b \in Within(lo, hi + 1) <=> b \in Within(lo + 1, hi + 1) \cup {lo}
        BY <1>1, <2>2, <4>1 DEF Within
      <4> QED
        BY <4>1, <2>2 DEF Within
    <3> QED
      BY <1>2, <2>1, <2>2, <3>1, FS_AddElement
  <2>3. CASE lo \notin breaks
    <3>1. Within(lo, hi + 1) = Within(lo + 1, hi + 1)
      <4>1. ASSUME NEW b \in breaks
            PROVE  b \in Within(lo, hi + 1) <=> b \in Within(lo + 1, hi + 1)
        BY <1>1, <2>3, <4>1 DEF Within
      <4> QED
        BY <4>1, <2>3 DEF Within
    <3> QED
      BY <1>3, <2>3, <3>1
  <2> QED
    BY <2>2, <2>3
<1> QED
  BY <1>4, <1>5

\* Fewer positions hold no more newlines, and fewer without one of them.
LEMMA WithinFewer ==
  ASSUME IInv, PeekTypeOK, NEW lo, NEW hi, NEW lo2, NEW hi2,
         Within(lo2, hi2) \subseteq Within(lo, hi)
  PROVE  /\ Cardinality(Within(lo2, hi2)) <= Cardinality(Within(lo, hi))
         /\ Within(lo2, hi2) # Within(lo, hi)
              => Cardinality(Within(lo2, hi2)) < Cardinality(Within(lo, hi))
<1>1. /\ IsFiniteSet(Within(lo, hi)) /\ Cardinality(Within(lo, hi)) \in Nat
      /\ Cardinality(Within(lo2, hi2)) \in Nat
  BY WithinFinite
<1>2. /\ Cardinality(Within(lo2, hi2)) <= Cardinality(Within(lo, hi))
      /\ Cardinality(Within(lo, hi)) = Cardinality(Within(lo2, hi2))
           => Within(lo, hi) = Within(lo2, hi2)
  BY <1>1, FS_Subset
<1> QED
  BY <1>1, <1>2

\* The newlines of the file.
LEMMA WithinAll ==
  ASSUME IInv, PeekTypeOK
  PROVE  /\ Within(0, total) = breaks
         /\ \A p \in Int : Within(p, total) = {b \in breaks : b >= p}
<1>1. \A b \in breaks : b \in Nat /\ b < total
  BY BreakShape
<1> QED
  BY <1>1 DEF Within

\* A finite set of numbers has a greatest: those from there on are the fewest.
LEMMA GreatestOfFinite ==
  ASSUME NEW S, IsFiniteSet(S), S # {}, \A x \in S : x \in Nat
  PROVE  \E x \in S : \A y \in S : y <= x
<1> DEFINE above(x) == {y \in S : x <= y}
           T == {above(x) : x \in S}
<1>1. T \subseteq SUBSET S
  OBVIOUS
<1>2. T # {}
  OBVIOUS
<1>3. PICK m \in T : \A y \in T : y \subseteq m => y = m
  <2> HIDE DEF T
  <2> QED
    BY <1>1, <1>2, MinimalSubset
<1>4. PICK x \in S : m = above(x)
  BY <1>3
<1>5. ASSUME NEW y \in S, y > x PROVE FALSE
  <2>1. y \in Nat /\ x \in Nat
    OBVIOUS
  <2>2. \A z \in S : y <= z => x <= z
    BY <1>5, <2>1
  <2>3. x \in above(x) /\ x \notin above(y)
    BY <1>5, <2>1
  <2>4. above(y) \subseteq above(x) /\ above(y) \in T
    BY <2>2
  <2> QED
    BY <1>3, <1>4, <2>3, <2>4
<1>6. \A y \in S : y <= x
  BY <1>5
<1> QED
  BY <1>6

\* A bounded set of numbers has a greatest.
LEMMA GreatestElement ==
  ASSUME NEW n \in Nat, NEW S, S \subseteq 0 .. n, S # {}
  PROVE  Max(S) \in S /\ \A y \in S : y <= Max(S)
<1>1. IsFiniteSet(S)
  <2>1. IsFiniteSet(0 .. n)
    BY FS_Interval
  <2> QED
    BY <2>1, FS_Subset
<1>2. \A x \in S : x \in Nat
  OBVIOUS
<1>3. PICK x \in S : \A y \in S : y <= x
  BY <1>1, <1>2, GreatestOfFinite
<1>4. \E z \in S : \A y \in S : z >= y
  BY <1>2, <1>3
<1>5. Max(S) \in S /\ \A y \in S : Max(S) >= y
  BY <1>4 DEF Max
<1> QED
  BY <1>2, <1>5

\* Counting from the end, every number of newlines below theirs is met right
\* behind one of them.
LEMMA NthFromEnd ==
  ASSUME IInv, PeekTypeOK, NEW lo \in Nat, NEW n \in Nat,
         n < Cardinality(Within(lo, total))
  PROVE  \E b \in breaks : /\ lo <= b
                           /\ Cardinality(Within(b + 1, total)) = n
                           /\ Cardinality(Within(b, total)) = n + 1
<1> DEFINE S == {p \in 0 .. total : Cardinality(Within(p, total)) > n}
<1>1. total \in Nat /\ \A b \in breaks : b \in Nat /\ b < total
  BY PeekNumbers, BreakShape
<1>2. \A p, q : Cardinality(Within(p, q)) \in Nat
  BY WithinFinite
<1>3. lo \in S
  <2>1. Within(lo, total) # {}
    BY FS_EmptySet
  <2>2. PICK b \in Within(lo, total) : TRUE
    BY <2>1
  <2>3. lo < total
    BY <1>1, <2>2 DEF Within
  <2> QED
    BY <1>1, <1>2, <2>3
<1>4. Max(S) \in S /\ \A y \in S : y <= Max(S)
  <2>1. S \subseteq 0 .. total /\ S # {}
    BY <1>3
  <2> HIDE DEF S
  <2> QED
    BY <1>1, <2>1, GreatestElement
<1>5. PICK g \in S : \A y \in S : y <= g
  BY <1>4
<1>6. g \in Nat /\ g < total /\ lo <= g
  <2>1. Within(total, total) = {}
    <3>1. \A b \in breaks : ~(total <= b)
      BY <1>1
    <3> QED
      BY <3>1 DEF Within
  <2>2. g # total
    BY <1>5, <2>1, FS_EmptySet
  <2> QED
    BY <1>1, <1>3, <1>5, <2>2
<1>7. Cardinality(Within(g + 1, total)) <= n
  <2>1. g + 1 \in 0 .. total /\ g + 1 \notin S
    BY <1>1, <1>5, <1>6
  <2> QED
    BY <1>2, <2>1
<1>8. Cardinality(Within(g, total)) =
        Cardinality(Within(g + 1, total)) + (IF g \in breaks THEN 1 ELSE 0)
  <2>1. total - 1 \in Nat /\ g <= total - 1 /\ total - 1 + 1 = total
    BY <1>1, <1>6
  <2> QED
    BY <1>6, <2>1, WithinSteps
<1>9. Cardinality(Within(g, total)) > n
  BY <1>5
<1>10. g \in breaks
  BY <1>2, <1>7, <1>8, <1>9
<1> QED
  BY <1>2, <1>6, <1>7, <1>8, <1>9, <1>10
-----------------------------------------------------------------------------
(* What the head shows.                                                     *)

\* What is measured of consecutive positions is a number: of bytes their own
\* number, of lines the newlines among them.
LEMMA MeasureIs ==
  ASSUME IInv, PeekTypeOK, NEW c \in Seq(Nat), NEW from \in Nat, Contiguous(c, from)
  PROVE  /\ Measure(c) \in Nat
         /\ mode.unit = "bytes" => Measure(c) = Len(c)
         /\ mode.unit # "bytes" => Measure(c) = Cardinality(Within(from, from + Len(c)))
<1>1. Len(c) \in Nat
  OBVIOUS
<1> QED
  BY <1>1, BreaksInContent DEF Measure

\* A piece is kept up to where the count is reached, and whole if it is not.
LEMMA KeptShape ==
  ASSUME IInv, PeekTypeOK, NEW piece \in Seq(Nat), NEW from \in Nat, content \in Seq(Nat),
         Contiguous(content, from), Contiguous(piece, from + Len(content)),
         mode.count \in Nat
  PROVE  \E k \in 0 .. Len(piece) :
           /\ Kept(piece) = SubSeq(piece, 1, k)
           /\ \A j \in 0 .. k - 1 : Measure(content \o SubSeq(piece, 1, j)) < mode.count
           /\ k < Len(piece) => Measure(content \o SubSeq(piece, 1, k)) >= mode.count
<1> DEFINE Few(j) == Measure(content \o SubSeq(piece, 1, j)) < mode.count
           S == {k \in 0 .. Len(piece) : \A j \in 0 .. k - 1 : Few(j)}
           k == Max(S)
<1>1. Len(piece) \in Nat
  OBVIOUS
<1>2. Kept(piece) = SubSeq(piece, 1, k)
  BY DEF Kept
<1>3. \A j \in 0 .. Len(piece) : Measure(content \o SubSeq(piece, 1, j)) \in Nat
  <2>1. SUFFICES ASSUME NEW j \in 0 .. Len(piece)
                 PROVE  Measure(content \o SubSeq(piece, 1, j)) \in Nat
    OBVIOUS
  <2>2. 1 \in 1 .. Len(piece) + 1 /\ j \in 1 - 1 .. Len(piece)
    BY <1>1
  <2>3. from + Len(content) \in Nat /\ from + Len(content) + 1 - 1 = from + Len(content)
    OBVIOUS
  <2>4. /\ SubSeq(piece, 1, j) \in Seq(Nat)
        /\ Contiguous(SubSeq(piece, 1, j), from + Len(content))
    BY <2>2, <2>3, PartOf
  <2>5. /\ content \o SubSeq(piece, 1, j) \in Seq(Nat)
        /\ Contiguous(content \o SubSeq(piece, 1, j), from)
    BY <2>4, Appended
  <2> QED
    BY <2>5, MeasureIs
<1> HIDE DEF Few
<1>4. k \in S /\ \A y \in S : y <= k
  <2>1. 0 \in S
    BY <1>1
  <2>2. S \subseteq 0 .. Len(piece)
    OBVIOUS
  <2> HIDE DEF S
  <2> QED
    BY <1>1, <2>1, <2>2, GreatestElement
<1> HIDE DEF k
<1>5. k \in 0 .. Len(piece) /\ \A j \in 0 .. k - 1 : Few(j)
  BY <1>4
<1>6. k < Len(piece) => ~Few(k)
  <2>1. SUFFICES ASSUME k < Len(piece), Few(k) PROVE FALSE
    OBVIOUS
  <2>2. k + 1 \in 0 .. Len(piece) /\ \A j \in 0 .. k : j = k \/ j \in 0 .. k - 1
    BY <1>1, <1>5, <2>1
  <2>3. k + 1 - 1 = k
    BY <1>5
  <2>4. k + 1 \in S
    BY <1>5, <2>1, <2>2, <2>3
  <2> QED
    BY <1>4, <1>5, <2>4
<1>7. k < Len(piece) => Measure(content \o SubSeq(piece, 1, k)) >= mode.count
  BY <1>3, <1>5, <1>6 DEF Few
<1> QED
  BY <1>2, <1>5, <1>7 DEF Few

\* What is asked for in each mode.
LEMMA AskedIs ==
  ASSUME PeekTypeOK
  PROVE  /\ mode = Cat => Asked = First(total)
         /\ mode.kind = "head" /\ mode.unit = "bytes" => Asked = First(mode.count)
         /\ InLines("head") => Asked = FirstLines(mode.count)
         /\ mode.kind = "tail" /\ mode.unit = "bytes" => Asked = Last(mode.count)
         /\ InLines("tail") => Asked = LastTerminatedLines(mode.count)
<1>1. CASE mode = Cat
  BY <1>1, ModeShape DEF Asked, InLines, Cat
<1>2. CASE mode # Cat
  BY <1>2, ModeShape DEF Asked, InLines
<1> QED
  BY <1>1, <1>2

\* The least of a set of numbers is the one no other is below.
LEMMA LeastIs ==
  ASSUME NEW S, NEW x \in S, \A y \in S : y \in Nat /\ x <= y
  PROVE  Min(S) = x
<1>1. \E z \in S : \A y \in S : z <= y
  OBVIOUS
<1>2. Min(S) \in S /\ \A y \in S : Min(S) <= y
  BY <1>1 DEF Min
<1>3. Min(S) \in Nat /\ x \in Nat /\ Min(S) <= x /\ x <= Min(S)
  BY <1>2
<1> QED
  BY <1>3

\* The first lines end with the newline that makes up their number.
LEMMA FirstLinesEnd ==
  ASSUME IInv, PeekTypeOK, NEW n \in Nat, NEW b \in breaks,
         Cardinality(Within(0, b + 1)) = n, Cardinality(Within(0, b)) < n
  PROVE  FirstLines(n) = First(b + 1)
<1> DEFINE S == {d \in breaks : Cardinality({a \in breaks : a <= d}) = n}
<1>1. \A d \in breaks : d \in Nat /\ d < total
  BY BreakShape
<1>2. \A d \in breaks : {a \in breaks : a <= d} = Within(0, d + 1)
  BY <1>1 DEF Within
<1>3. b \in S
  BY <1>2
<1>4. ASSUME NEW d \in S PROVE d \in Nat /\ b <= d
  <2>1. d \in Nat /\ b \in Nat /\ Cardinality(Within(0, d + 1)) = n
    BY <1>1, <1>2
  <2>2. SUFFICES ASSUME d < b PROVE FALSE
    BY <2>1
  <2>3. Within(0, d + 1) \subseteq Within(0, b)
    <3>1. \A a \in breaks : a < d + 1 => a < b
      BY <1>1, <2>1, <2>2
    <3> QED
      BY <3>1 DEF Within
  <2>4. Cardinality(Within(0, d + 1)) <= Cardinality(Within(0, b))
    BY <2>3, WithinFewer
  <2>5. Cardinality(Within(0, b)) \in Nat
    BY WithinFinite
  <2> QED
    BY <2>1, <2>4, <2>5
<1>5. Min(S) = b
  <2> HIDE DEF S
  <2> QED
    BY <1>3, <1>4, LeastIs
<1>6. ~(Cardinality(breaks) < n)
  <2>1. Within(0, b + 1) \subseteq Within(0, total) /\ Within(0, total) = breaks
    BY WithinAll, <1>1 DEF Within
  <2>2. n <= Cardinality(breaks)
    BY <2>1, WithinFewer
  <2>3. Cardinality(breaks) \in Nat
    BY <2>1, WithinFinite
  <2> QED
    BY <2>2, <2>3
<1>7. b \in Nat /\ 1 + b = b + 1
  BY <1>1
<1> QED
  BY <1>5, <1>6, <1>7 DEF FirstLines

\* Positions from the start on are so many first ones.
LEMMA FirstIs ==
  ASSUME total \in Nat, NEW c \in Seq(Nat), Contiguous(c, 0), Len(c) <= total
  PROVE  \A n \in Nat : Lesser(n, total) = Len(c) => c = First(n)
<1>1. c = Positions(0, 0 + Len(c) - 1)
  BY ContiguousIs
<1>2. 0 + Len(c) - 1 = Len(c) - 1
  OBVIOUS
<1> QED
  BY <1>1, <1>2 DEF First

\* After a piece the head holds all it has read, or else what was asked for.
LEMMA HeadShape ==
  ASSUME IInv, PeekTypeOK, Reading, mode.kind = "head",
         NEW g \in Seq(Nat), Contiguous(g, pos),
         Len(g) <= max - Len(content), Len(content) + Len(g) <= total
  PROVE  LET c == content \o Kept(g) IN
         /\ c \in Seq(Nat) /\ Contiguous(c, 0) /\ Len(c) <= max /\ Len(c) <= total
         /\ Measure(c) < mode.count => Len(c) = Len(content) + Len(g)
         /\ Measure(c) >= mode.count => c = Asked
<1> DEFINE c == content \o Kept(g)
<1>1. /\ total \in Nat /\ max \in Nat /\ mode.count \in Nat
      /\ mode.unit \in {"lines", "bytes"}
      /\ content \in Seq(Nat) /\ Len(content) \in Nat /\ Len(g) \in Nat
  <2>1. mode.unit \in {"lines", "bytes"} /\ mode.count \in Nat
    BY ModeShape
  <2>2. content \in Seq(Nat) /\ Len(content) \in Nat
    BY DEF PeekTypeOK
  <2>3. total \in Nat /\ max \in Nat
    BY PeekNumbers
  <2>4. Len(g) \in Nat
    OBVIOUS
  <2> QED
    BY <2>1, <2>2, <2>3, <2>4
<1>2. Start = 0 /\ pos = 0 + Len(content) /\ Contiguous(content, 0)
      /\ Measure(content) < mode.count
  BY <1>1 DEF Reading, Start
<1>3. PICK k \in 0 .. Len(g) :
        /\ Kept(g) = SubSeq(g, 1, k)
        /\ \A j \in 0 .. k - 1 : Measure(content \o SubSeq(g, 1, j)) < mode.count
        /\ k < Len(g) => Measure(content \o SubSeq(g, 1, k)) >= mode.count
  BY <1>1, <1>2, KeptShape
<1> DEFINE d(j) == content \o SubSeq(g, 1, j)
<1>4. ASSUME NEW j \in 0 .. Len(g)
      PROVE  d(j) \in Seq(Nat) /\ Contiguous(d(j), 0) /\ Len(d(j)) = Len(content) + j
  <2>1. 1 \in 1 .. Len(g) + 1 /\ j \in 1 - 1 .. Len(g) /\ j - 1 + 1 = j
    BY <1>1
  <2>2. pos \in Nat /\ pos + 1 - 1 = pos
    BY <1>1, <1>2
  <2>3. /\ SubSeq(g, 1, j) \in Seq(Nat) /\ Len(SubSeq(g, 1, j)) = j
        /\ Contiguous(SubSeq(g, 1, j), 0 + Len(content))
    BY <1>2, <2>1, <2>2, PartOf
  <2> QED
    BY <1>1, <1>2, <2>3, Appended
<1>5. c = d(k) /\ c \in Seq(Nat) /\ Contiguous(c, 0) /\ Len(c) = Len(content) + k
  BY <1>3, <1>4
<1>6. Len(c) <= max /\ Len(c) <= total
  BY <1>1, <1>3, <1>5
<1>7. Measure(c) \in Nat
  <2> HIDE DEF c
  <2> QED
    BY <1>5, MeasureIs
<1>8. Measure(c) < mode.count => Len(c) = Len(content) + Len(g)
  <2>1. k < Len(g) => Measure(d(k)) >= mode.count
    BY <1>3
  <2> HIDE DEF c, d
  <2>2. k < Len(g) => Measure(c) >= mode.count
    BY <1>5, <2>1
  <2>3. k \in Nat /\ k <= Len(g) /\ Len(c) = Len(content) + k
    BY <1>1, <1>5
  <2>4. k < Len(g) => ~(Measure(c) < mode.count)
    <3>1. \A m, n \in Nat : m >= n => ~(m < n)
      OBVIOUS
    <3>2. mode.count \in Nat
      BY <1>1
    <3> QED
      BY <1>7, <2>2, <3>1, <3>2
  <2>5. ~(k < Len(g)) => Len(c) = Len(content) + Len(g)
    <3>1. ~(k < Len(g)) => k = Len(g)
      BY <1>1
    <3> QED
      BY <2>3, <3>1
  <2> QED
    BY <2>4, <2>5
<1>9. ASSUME Measure(c) >= mode.count PROVE c = Asked
  <2>1. k # 0
    <3>1. SubSeq(g, 1, 0) = <<>>
      OBVIOUS
    <3>2. d(0) = content
      BY <1>1, <3>1
    <3>3. Measure(content) \in Nat
      BY <1>1, <1>2, MeasureIs
    <3> HIDE DEF c, d
    <3>4. SUFFICES ASSUME k = 0 PROVE FALSE
      OBVIOUS
    <3>5. c = content
      BY <1>5, <3>2, <3>4
    <3> QED
      BY <1>1, <1>2, <1>9, <3>3, <3>5
  <2>2. k - 1 \in 0 .. Len(g) /\ k - 1 \in 0 .. k - 1
    BY <1>1, <1>3, <2>1
  <2>3. /\ d(k - 1) \in Seq(Nat) /\ Contiguous(d(k - 1), 0)
        /\ Len(d(k - 1)) = Len(content) + (k - 1)
    BY <1>4, <2>2
  <2>4. Measure(d(k - 1)) < mode.count
    BY <1>3, <2>2
  <2> DEFINE e == d(k - 1)
             L == Len(content) + k - 1
  <2>5. /\ e \in Seq(Nat) /\ Contiguous(e, 0) /\ Len(e) = L /\ Measure(e) < mode.count
        /\ L \in Nat /\ Len(c) = L + 1
    BY <1>1, <1>3, <1>5, <2>1, <2>3, <2>4
  <2> HIDE DEF c, d, e, L
  <2>6. CASE mode.unit = "bytes"
    <3>1. Measure(c) = L + 1 /\ Measure(e) = L
      BY <1>5, <2>5, <2>6, MeasureIs
    <3>2. mode.count = Len(c)
      BY <1>1, <1>9, <2>5, <3>1
    <3>3. Lesser(mode.count, total) = Len(c)
      BY <1>6, <3>2 DEF Lesser
    <3> QED
      BY <1>1, <1>5, <1>6, <2>6, <3>3, FirstIs, AskedIs
  <2>7. CASE mode.unit = "lines"
    <3>1. /\ Measure(c) = Cardinality(Within(0, 0 + (L + 1)))
          /\ Measure(e) = Cardinality(Within(0, 0 + L))
      BY <1>5, <2>5, <2>7, MeasureIs
    <3>2. 0 + (L + 1) = L + 1 /\ 0 + L = L
      BY <2>5
    <3>3. /\ Measure(c) = Cardinality(Within(0, L + 1))
          /\ Measure(e) = Cardinality(Within(0, L)) /\ Measure(e) \in Nat
      BY <3>1, <3>2, WithinFinite
    <3>4. Measure(c) = Measure(e) + (IF L \in breaks THEN 1 ELSE 0)
      <4>1. 0 \in Nat /\ L \in Nat /\ 0 <= L
        BY <2>5
      <4>2. Cardinality(Within(0, L + 1)) =
              Cardinality(Within(0, L)) + (IF L \in breaks THEN 1 ELSE 0)
        BY <4>1, WithinSteps
      <4> QED
        BY <3>3, <4>2
    <3>5. L \in breaks /\ Measure(c) = mode.count
      BY <1>1, <1>7, <1>9, <2>5, <3>3, <3>4
    <3>6. FirstLines(mode.count) = First(L + 1)
      BY <1>1, <2>5, <3>3, <3>5, FirstLinesEnd
    <3>7. Lesser(L + 1, total) = Len(c)
      BY <1>6, <2>5 DEF Lesser
    <3>8. L + 1 \in Nat
      BY <2>5
    <3> QED
      BY <1>1, <1>5, <1>6, <2>7, <3>6, <3>7, <3>8, FirstIs, AskedIs DEF InLines
  <2> QED
    BY <1>1, <2>6, <2>7
<1> QED
  BY <1>5, <1>6, <1>8, <1>9

\* At the end of the file the head holds what was asked for.
LEMMA HeadAtEnd ==
  ASSUME IInv, PeekTypeOK, Reading, mode.kind = "head", total <= pos
  PROVE  content = Asked /\ Len(content) <= max
<1>1. /\ total \in Nat /\ max \in Nat /\ mode.count \in Nat
      /\ mode.unit \in {"lines", "bytes"}
      /\ content \in Seq(Nat) /\ Len(content) \in Nat
  <2>1. mode.unit \in {"lines", "bytes"} /\ mode.count \in Nat
    BY ModeShape
  <2>2. content \in Seq(Nat)
    BY DEF PeekTypeOK
  <2> QED
    BY <2>1, <2>2, PeekNumbers
<1>2. Start = 0 /\ Len(content) = total /\ Contiguous(content, 0)
      /\ Measure(content) < mode.count /\ Len(content) <= max
  BY <1>1 DEF Reading, Start
<1>3. CASE mode.unit = "bytes"
  <2>1. Len(content) < mode.count
    BY <1>2, <1>3 DEF Measure
  <2>2. Lesser(mode.count, total) = Len(content)
    BY <1>1, <1>2, <2>1 DEF Lesser
  <2> QED
    BY <1>1, <1>2, <1>3, <2>2, FirstIs, AskedIs
<1>4. CASE mode.unit = "lines"
  <2>1. Measure(content) = Cardinality(Within(0, 0 + total))
    BY <1>1, <1>2, <1>4, MeasureIs
  <2>2. Cardinality(breaks) < mode.count
    BY <1>1, <1>2, <2>1, WithinAll
  <2>3. Lesser(total, total) = Len(content)
    BY <1>1, <1>2 DEF Lesser
  <2> QED
    BY <1>1, <1>2, <1>4, <2>2, <2>3, FirstIs, AskedIs DEF FirstLines, InLines
<1> QED
  BY <1>1, <1>2, <1>3, <1>4

\* At the cap it holds as much as that.
LEMMA HeadAtCap ==
  ASSUME IInv, PeekTypeOK, Reading, mode.kind = "head", Len(content) >= max
  PROVE  content = First(max) /\ Len(content) <= max
<1>1. /\ total \in Nat /\ max \in Nat /\ content \in Seq(Nat) /\ Len(content) \in Nat
  BY PeekNumbers DEF PeekTypeOK
<1>2. /\ Start = 0 /\ Len(content) = max /\ Len(content) <= total
      /\ Contiguous(content, 0)
  BY <1>1 DEF Reading, Start
<1>3. Lesser(max, total) = Len(content)
  BY <1>1, <1>2 DEF Lesser
<1> QED
  BY <1>1, <1>2, <1>3, FirstIs
-----------------------------------------------------------------------------
(* What read_to_end shows.                                                  *)

\* Positions up to the end of the file are so many last ones.
LEMMA LastIs ==
  ASSUME total \in Nat, NEW c \in Seq(Nat), NEW from \in Nat, Contiguous(c, from),
         from + Len(c) = total
  PROVE  \A n \in Nat : Lesser(n, total) = Len(c) => c = Last(n)
<1>1. c = Positions(from, from + Len(c) - 1)
  BY ContiguousIs
<1>2. from = total - Len(c)
  OBVIOUS
<1> QED
  BY <1>1, <1>2 DEF Last

\* At the end of the file all that was asked for is there, and within the cap.
LEMMA EndShown ==
  ASSUME IInv, PeekTypeOK, Reading, ToEnd, total <= pos
  PROVE  content = Asked /\ Len(content) <= max
<1>1. /\ total \in Nat /\ max \in Nat
      /\ content \in Seq(Nat) /\ Len(content) \in Nat
  BY PeekNumbers DEF PeekTypeOK
<1>2. /\ Start \in Nat /\ Start + Len(content) = total /\ Contiguous(content, Start)
      /\ total <= Start + max
  BY <1>1, StartShape DEF Reading
<1>3. CASE mode = Cat
  <2>1. Start = 0
    BY <1>3, ModeShape DEF Start
  <2>2. Lesser(total, total) = Len(content)
    BY <1>1, <1>2, <2>1 DEF Lesser
  <2> QED
    BY <1>1, <1>2, <1>3, <2>1, <2>2, FirstIs, AskedIs
<1>4. CASE mode # Cat
  <2>1. mode.kind = "tail" /\ mode.unit = "bytes" /\ mode.count \in Nat
    BY <1>4, ModeShape DEF ToEnd
  <2>2. Start = Minus(total, mode.count)
    BY <2>1 DEF Start
  <2>3. Lesser(mode.count, total) = Len(content)
    BY <1>1, <1>2, <2>1, <2>2 DEF Lesser, Minus
  <2> QED
    BY <1>1, <1>2, <2>1, <2>3, LastIs, AskedIs
<1>5. Len(content) <= max
  BY <1>1, <1>2
<1> QED
  BY <1>3, <1>4, <1>5
-----------------------------------------------------------------------------
(* What the tail of lines shows.                                            *)

\* Behind a newline there are fewer of them than from it on, or from before it.
LEMMA FewerBehind ==
  ASSUME IInv, PeekTypeOK, NEW b \in breaks, NEW p \in Nat, p <= b
  PROVE  Cardinality(Within(b + 1, total)) < Cardinality(Within(p, total))
<1>1. \A a \in breaks : a \in Nat /\ a < total
  BY BreakShape
<1>2. \A a \in breaks : b + 1 <= a => p <= a
  BY <1>1
<1>3. Within(b + 1, total) \subseteq Within(p, total)
  BY <1>2 DEF Within
<1>4. b \in Within(p, total) /\ b \notin Within(b + 1, total)
  BY <1>1 DEF Within
<1> QED
  BY <1>3, <1>4, WithinFewer

\* The newlines of the window behind one of them are the file's.
LEMMA NewlinesBehind ==
  ASSUME IInv, PeekTypeOK, NEW c \in Seq(Nat), NEW from \in Nat, Contiguous(c, from),
         from + Len(c) = total, NEW i \in DOMAIN c
  PROVE  LET newlines == {j \in DOMAIN c : c[j] \in breaks} IN
         Cardinality({j \in newlines : j > i}) = Cardinality(Within(c[i] + 1, total))
<1> DEFINE newlines == {j \in DOMAIN c : c[j] \in breaks}
<1>1. Len(c) \in Nat /\ DOMAIN c = 1 .. Len(c) /\ i + 1 \in 1 .. Len(c) + 1
  OBVIOUS
<1>2. {j \in newlines : j > i} = {j \in DOMAIN c : c[j] \in breaks /\ i + 1 <= j}
  BY <1>1
<1>3. c[i] + 1 = from + (i + 1) - 1
  BY <1>1 DEF Contiguous
<1> QED
  BY <1>1, <1>2, <1>3, BreaksCounted

\* last_n_lines shows a window with few newlines as it is, and another from
\* behind the newline that is followed by as many as there are to be lines.
LEMMA LastLinesShape ==
  ASSUME IInv, PeekTypeOK, content \in Seq(Nat), NEW from \in Nat, mode.count \in Nat,
         Contiguous(content, from), from + Len(content) = total
  PROVE  \/ /\ Cardinality(Within(from, total)) <= mode.count
            /\ LastLines = content
         \/ /\ Cardinality(Within(from, total)) > mode.count
            /\ \E s \in LineStarts :
                 /\ s \in Nat /\ s <= total
                 /\ Cardinality(Within(s, total)) = mode.count
                 /\ LastLines \in Seq(Nat) /\ Contiguous(LastLines, s)
                 /\ s + Len(LastLines) = total /\ Len(LastLines) <= Len(content)
<1> DEFINE newlines == {i \in DOMAIN content : content[i] \in breaks}
           cut == {i \in newlines : Cardinality({j \in newlines : j > i}) = mode.count}
<1>1. /\ Len(content) \in Nat /\ DOMAIN content = 1 .. Len(content) /\ total \in Nat
  BY PeekNumbers
<1>2. LastLines = IF cut = {} THEN content ELSE SubSeq(content, Max(cut) + 1, Len(content))
  BY DEF LastLines
<1>3. ASSUME NEW i \in cut
      PROVE  /\ content[i] \in breaks /\ content[i] = from + i - 1 /\ i \in 1 .. Len(content)
             /\ Cardinality(Within(content[i] + 1, total)) = mode.count
  <2>1. i \in DOMAIN content /\ content[i] \in breaks
    OBVIOUS
  <2>2. Cardinality({j \in newlines : j > i}) = Cardinality(Within(content[i] + 1, total))
    BY <2>1, NewlinesBehind
  <2>3. content[i] = from + i - 1
    BY <1>1, <2>1 DEF Contiguous
  <2> QED
    BY <1>1, <2>1, <2>2, <2>3
<1>4. ASSUME NEW b \in breaks, from <= b, Cardinality(Within(b + 1, total)) = mode.count
      PROVE  b - from + 1 \in cut
  <2>1. b \in Nat /\ b < total
    BY BreakShape
  <2>2. b - from + 1 \in 1 .. Len(content)
    BY <1>1, <1>4, <2>1
  <2>3. content[b - from + 1] = b
    BY <1>1, <2>1, <2>2 DEF Contiguous
  <2>4. Cardinality({j \in newlines : j > b - from + 1}) = Cardinality(Within(b + 1, total))
    BY <1>1, <2>2, <2>3, NewlinesBehind
  <2> QED
    BY <1>1, <1>4, <2>2, <2>3, <2>4
<1> HIDE DEF cut, newlines
<1>5. Cardinality(Within(from, total)) \in Nat
  BY WithinFinite
<1>6. CASE Cardinality(Within(from, total)) <= mode.count
  <2>1. ASSUME NEW i \in cut PROVE FALSE
    <3>1. /\ content[i] \in breaks /\ content[i] = from + i - 1 /\ i \in 1 .. Len(content)
          /\ Cardinality(Within(content[i] + 1, total)) = mode.count
      BY <1>3
    <3>2. from <= content[i]
      BY <1>1, <3>1
    <3>3. Cardinality(Within(content[i] + 1, total)) < Cardinality(Within(from, total))
      BY <3>1, <3>2, FewerBehind
    <3> QED
      BY <1>5, <1>6, <3>1, <3>3
  <2> QED
    BY <1>2, <1>6, <2>1
<1>7. CASE Cardinality(Within(from, total)) > mode.count
  <2>1. PICK b \in breaks : from <= b /\ Cardinality(Within(b + 1, total)) = mode.count
    BY <1>5, <1>7, NthFromEnd
  <2>2. b \in Nat /\ b < total
    BY BreakShape
  <2> DEFINE n == b - from + 1
  <2>3. n \in cut /\ n \in 1 .. Len(content)
    BY <1>1, <1>4, <2>1, <2>2
  <2>4. ASSUME NEW i \in cut PROVE i = n
    <3>1. /\ content[i] \in breaks /\ content[i] = from + i - 1 /\ i \in 1 .. Len(content)
          /\ Cardinality(Within(content[i] + 1, total)) = mode.count
      BY <1>3
    <3> DEFINE a == content[i]
    <3>2. a \in breaks /\ a \in Nat /\ a = from + i - 1
          /\ Cardinality(Within(a + 1, total)) = mode.count
      BY <3>1, BreakShape
    <3> HIDE DEF a
    <3>3. ~(a < b)
      <4>1. SUFFICES ASSUME a < b PROVE FALSE
        OBVIOUS
      <4>2. a + 1 \in Nat /\ a + 1 <= b
        BY <2>2, <3>2, <4>1
      <4>3. Cardinality(Within(b + 1, total)) < Cardinality(Within(a + 1, total))
        BY <4>2, FewerBehind
      <4> QED
        BY <2>1, <3>2, <4>3
    <3>4. ~(b < a)
      <4>1. SUFFICES ASSUME b < a PROVE FALSE
        OBVIOUS
      <4>2. b + 1 \in Nat /\ b + 1 <= a
        BY <2>2, <3>2, <4>1
      <4>3. Cardinality(Within(a + 1, total)) < Cardinality(Within(b + 1, total))
        BY <3>2, <4>2, FewerBehind
      <4> QED
        BY <2>1, <3>2, <4>3
    <3> QED
      BY <1>1, <2>2, <3>1, <3>2, <3>3, <3>4
  <2> HIDE DEF n
  <2>5. Max(cut) = n
    <3>0. n \in Nat
      BY <1>1, <2>3
    <3>1. n >= n
      BY <3>0
    <3>2. \E x \in cut : \A y \in cut : x >= y
      BY <2>3, <2>4, <3>1
    <3>3. Max(cut) \in cut
      BY <3>2 DEF Max
    <3> QED
      BY <2>4, <3>3
  <2>6. LastLines = SubSeq(content, n + 1, Len(content))
    BY <1>2, <2>3, <2>5
  <2>7. n + 1 \in 1 .. Len(content) + 1 /\ Len(content) \in n + 1 - 1 .. Len(content)
    BY <1>1, <2>3
  <2>8. /\ LastLines \in Seq(Nat) /\ Len(LastLines) = Len(content) - (n + 1) + 1
        /\ Contiguous(LastLines, from + (n + 1) - 1)
    BY <2>6, <2>7, PartOf
  <2>9. from + (n + 1) - 1 = b + 1 /\ n \in Nat
    BY <2>2, <2>3 DEF n
  <2>10. b + 1 \in LineStarts /\ b + 1 \in Nat /\ b + 1 <= total
    BY <1>1, <2>2 DEF LineStarts
  <2>11. b + 1 + Len(LastLines) = total /\ Len(LastLines) <= Len(content)
    <3>1. Len(LastLines) = Len(content) - n
      BY <1>1, <2>8, <2>9
    <3>2. from + n = b + 1
      BY <2>2, <2>9
    <3> QED
      BY <1>1, <2>2, <2>9, <3>1, <3>2
  <2> QED
    BY <1>7, <2>1, <2>8, <2>9, <2>10, <2>11
<1> QED
  BY <1>5, <1>6, <1>7

\* Two lines' beginnings have different numbers of newlines behind them.
LEMMA LineStartUnique ==
  ASSUME IInv, PeekTypeOK, NEW s \in LineStarts, NEW t \in LineStarts,
         Cardinality(Within(s, total)) = Cardinality(Within(t, total))
  PROVE  s = t
<1>1. ASSUME NEW u \in LineStarts PROVE u \in Nat
  BY BreakShape DEF LineStarts
<1>2. ASSUME NEW u \in LineStarts, NEW v \in LineStarts, u < v
      PROVE  Cardinality(Within(v, total)) < Cardinality(Within(u, total))
  <2>1. u \in Nat /\ v \in Nat /\ v # 0
    BY <1>1, <1>2
  <2>2. PICK b \in breaks : v = b + 1
    BY <2>1 DEF LineStarts
  <2>3. u <= b
    BY <1>2, <2>1, <2>2, BreakShape
  <2> QED
    BY <2>1, <2>2, <2>3, FewerBehind
<1>3. s \in Nat /\ t \in Nat
  BY <1>1
<1>4. Cardinality(Within(s, total)) \in Nat
  BY WithinFinite
<1>5. ~(s < t) /\ ~(t < s)
  BY <1>2, <1>4
<1> QED
  BY <1>3, <1>5

\* The last lines begin where as many newlines follow, or all there are.
LEMMA LastLinesBegin ==
  ASSUME IInv, PeekTypeOK, NEW n \in Nat, NEW s \in LineStarts,
         Cardinality(Within(s, total)) = Lesser(n, Cardinality(breaks))
  PROVE  LastTerminatedLines(n) = Positions(s, total - 1)
<1> DEFINE P(t) == Cardinality({b \in breaks : b >= t}) = Lesser(n, Cardinality(breaks))
           chosen == CHOOSE t \in LineStarts : P(t)
<1>1. ASSUME NEW t \in LineStarts
      PROVE  P(t) <=> Cardinality(Within(t, total)) = Lesser(n, Cardinality(breaks))
  <2>1. t \in Int
    BY BreakShape DEF LineStarts
  <2> QED
    BY <2>1, WithinAll
<1>2. LastTerminatedLines(n) = Positions(chosen, total - 1)
  BY DEF LastTerminatedLines
<1> HIDE DEF P
<1>3. chosen \in LineStarts /\ P(chosen)
  BY <1>1
<1> HIDE DEF chosen
<1>4. chosen = s
  BY <1>1, <1>3, LineStartUnique
<1> QED
  BY <1>2, <1>4

\* With the newline before it a window shows the lines that were asked for, and
\* at the cap without it as much as that.
LEMMA TailShown ==
  ASSUME IInv, PeekTypeOK, Reading, InLines("tail"), Len(content) = scan
  PROVE  /\ Confident => LastLines = Asked
         /\ ~Confident /\ HitCap => LastLines = Last(max)
         /\ Len(LastLines) <= max /\ LastLines \in Seq(Nat)
<1>1. /\ total \in Nat /\ max \in Nat /\ scan \in Nat
      /\ content \in Seq(Nat) /\ Len(content) \in Nat
  BY PeekNumbers DEF PeekTypeOK
<1>2. mode.count \in Nat /\ mode.count > 0
  BY ModeShape DEF InLines
<1> DEFINE from == total - scan
           behind(s) == Cardinality(Within(s, total))
<1>3. /\ from \in Nat /\ from + Len(content) = total /\ Contiguous(content, from)
      /\ Len(content) <= max
  BY <1>1, WidestShape DEF Reading, Start, InLines
<1>4. \A s : behind(s) \in Nat
  BY WithinFinite
<1>5. BreaksIn(content) = behind(from)
  BY <1>1, <1>3, BreaksInContent
<1>6. behind(0) = Cardinality(breaks)
  BY WithinAll
<1>7. behind(from) <= behind(0)
  <2>1. \A b \in breaks : b \in Nat
    BY BreakShape
  <2>2. Within(from, total) \subseteq Within(0, total)
    BY <2>1 DEF Within
  <2> QED
    BY <2>2, WithinFewer
<1> HIDE DEF from, behind
<1>8. CASE behind(from) <= mode.count /\ LastLines = content
  <2>1. ASSUME Confident PROVE LastLines = Asked
    <3>1. scan = total
      BY <1>2, <1>4, <1>5, <1>8, <2>1 DEF Confident
    <3>2. from = 0
      BY <1>1, <3>1 DEF from
    <3>3. behind(0) = Lesser(mode.count, Cardinality(breaks))
      BY <1>2, <1>4, <1>6, <1>8, <3>2 DEF Lesser
    <3>4. 0 \in LineStarts
      BY DEF LineStarts
    <3>5. LastTerminatedLines(mode.count) = Positions(0, total - 1)
      BY <1>2, <3>3, <3>4, LastLinesBegin DEF behind
    <3>6. content = Positions(0, 0 + Len(content) - 1) /\ 0 + Len(content) - 1 = total - 1
      BY <1>1, <1>3, <3>2, ContiguousIs
    <3> QED
      BY <1>8, <3>5, <3>6, AskedIs
  <2>2. ASSUME ~Confident, HitCap PROVE LastLines = Last(max)
    <3>1. scan = max /\ scan <= total
      BY <1>1, <2>2, WidestShape DEF HitCap
    <3>2. Lesser(max, total) = Len(content)
      BY <1>1, <3>1 DEF Lesser
    <3> QED
      BY <1>1, <1>3, <1>8, <3>2, LastIs
  <2> QED
    BY <1>1, <1>3, <1>8, <2>1, <2>2
<1>9. CASE /\ behind(from) > mode.count
           /\ \E s \in LineStarts :
                 /\ s \in Nat /\ s <= total
                 /\ Cardinality(Within(s, total)) = mode.count
                 /\ LastLines \in Seq(Nat) /\ Contiguous(LastLines, s)
                 /\ s + Len(LastLines) = total /\ Len(LastLines) <= Len(content)
  <2>1. PICK s \in LineStarts :
          /\ s \in Nat /\ s <= total
          /\ Cardinality(Within(s, total)) = mode.count
          /\ LastLines \in Seq(Nat) /\ Contiguous(LastLines, s)
          /\ s + Len(LastLines) = total /\ Len(LastLines) <= Len(content)
    BY <1>9
  <2>2. Confident
    BY <1>5, <1>9 DEF Confident
  <2>3. Lesser(mode.count, Cardinality(breaks)) = mode.count
    <3>1. Cardinality(breaks) \in Nat
      BY <1>4, <1>6
    <3> QED
      BY <1>2, <1>4, <1>6, <1>7, <1>9, <3>1 DEF Lesser
  <2>4. LastTerminatedLines(mode.count) = Positions(s, total - 1)
    BY <1>2, <2>1, <2>3, LastLinesBegin
  <2>5. LastLines = Positions(s, s + Len(LastLines) - 1)
    BY <2>1, ContiguousIs
  <2>6. Len(LastLines) \in Nat
    BY <2>1
  <2>7. LastLines = Asked
    <3>1. s + Len(LastLines) - 1 = total - 1
      BY <2>1
    <3> QED
      BY <2>4, <2>5, <3>1, AskedIs
  <2>8. Len(LastLines) <= max
    BY <1>1, <1>3, <2>1, <2>6
  <2> QED
    BY <2>1, <2>2, <2>7, <2>8
<1>10. mode.count \in Nat /\ content \in Seq(Nat) /\ from \in Nat
  BY <1>1, <1>2, <1>3
<1> QED
  BY <1>3, <1>8, <1>9, <1>10, LastLinesShape DEF behind
-----------------------------------------------------------------------------
(* What the steps of peek leave as it was.                                  *)

\* What is asked for and what may be read depend on the file and the options.
LEMMA OptionsKept ==
  ASSUME UNCHANGED <<total, options>>
  PROVE  /\ Asked' = Asked
         /\ First(max)' = First(max) /\ Last(max)' = Last(max)
         /\ Rejected' = Rejected
         /\ mode' = mode /\ max' = max /\ total' = total
         /\ \A kind : InLines(kind)' = InLines(kind)
         /\ \A n : Windowed(n)' = Windowed(n)
<1>1. mode' = mode /\ max' = max /\ total' = total /\ breaks' = breaks
  BY DEF options
<1>2. Rejected' = Rejected /\ \A kind : InLines(kind)' = InLines(kind)
  BY <1>1 DEF Rejected, InLines
<1>3. \A n : First(n)' = First(n) /\ Last(n)' = Last(n) /\ Windowed(n)' = Windowed(n)
  BY <1>1 DEF First, Last, Windowed
<1>4. First(max)' = First(max) /\ Last(max)' = Last(max) /\ First(total)' = First(total)
      /\ First(mode.count)' = First(mode.count) /\ Last(mode.count)' = Last(mode.count)
  BY <1>1 DEF First, Last
<1>5. FirstLines(mode.count)' = FirstLines(mode.count)
  BY <1>1 DEF FirstLines, First
<1>6. LastTerminatedLines(mode.count)' = LastTerminatedLines(mode.count)
  BY <1>1 DEF LastTerminatedLines, LineStarts
<1>7. Asked' = Asked
  BY <1>1, <1>2, <1>4, <1>5, <1>6 DEF Asked
<1> QED
  BY <1>1, <1>2, <1>3, <1>4, <1>7

\* The options and the limits are as they were.
LEMMA TypeKept ==
  ASSUME PeekTypeOK, UNCHANGED <<total, limits, options>>, scan' \in Nat, content' \in Seq(Nat)
  PROVE  PeekTypeOK'
<1>1. mode' = mode /\ max' = max /\ total' = total /\ breaks' = breaks /\ limits' = limits
  BY DEF options
<1> QED
  BY <1>1 DEF PeekTypeOK

\* What is measured of the content in the next state.
LEMMA MeasureKept ==
  ASSUME UNCHANGED options
  PROVE  Measure(content)' = Measure(content')
BY DEF Measure, BreaksIn, options
-----------------------------------------------------------------------------
(* The steps of peek.                                                       *)

\* A read that delivers brings what follows on the content.
LEMMA DeliveredFollows ==
  ASSUME IInv, PeekTypeOK, Reading, NEW buf \in Nat \ {0}, Read(buf), Delivered
  PROVE  /\ Got \in Seq(Nat) /\ Len(Got) \in 1 .. buf /\ Contiguous(Got, pos)
         /\ pos' = Start + Len(content) + Len(Got) /\ pos' <= total
         /\ content \o Got \in Seq(Nat) /\ Contiguous(content \o Got, Start)
         /\ Len(content \o Got) = Len(content) + Len(Got)
<1>1. /\ pos \in Nat /\ Start \in Nat /\ content \in Seq(Nat) /\ Len(content) \in Nat
      /\ pos = Start + Len(content) /\ Contiguous(content, Start)
  BY PeekNumbers, StartShape DEF PeekTypeOK, Reading
<1>2. /\ answer'.from = pos /\ answer'.len \in 1 .. buf
      /\ pos' = pos + answer'.len /\ pos' <= total
  BY ReadOutcome
<1>3. answer'.len \in Nat
  BY <1>2
<1>4. Got \in Seq(Nat) /\ Len(Got) = answer'.len /\ Contiguous(Got, pos)
  BY <1>1, <1>2, <1>3, GotShape
<1>5. /\ content \o Got \in Seq(Nat) /\ Len(content \o Got) = Len(content) + Len(Got)
      /\ Contiguous(content \o Got, Start)
  BY <1>1, <1>4, Appended
<1>6. pos' = Start + Len(content) + Len(Got)
  BY <1>1, <1>2, <1>3, <1>4
<1> QED
  BY <1>2, <1>4, <1>5, <1>6

\* Once a peek has failed, it was not refused, or at its widest scan.
LEMMA FailureKeeps ==
  ASSUME IInv', PeekTypeOK', phase' = "failed",
         answer'.kind = "refused" =>
           InLines("tail")' /\ Widest' /\ 3 * scan' > limits'.transfer
  PROVE  PeekInv'
<1>1. BudgetsSuffice'
  BY DEF BudgetsSuffice, Widest
<1>2. ShowsWhatWasAsked'
  BY DEF ShowsWhatWasAsked
<1> QED
  BY <1>1, <1>2 DEF PeekInv

\* While it reads it has only to go on.
LEMMA GoingOnKeeps ==
  ASSUME IInv', PeekTypeOK', phase' = "reading", Reading', Spent'
  PROVE  PeekInv'
BY DEF PeekInv, ShowsWhatWasAsked, BudgetsSuffice

\* Once it has shown something, that has to be right.
LEMMA EndingKeeps ==
  ASSUME IInv', PeekTypeOK', phase' \in {"shown", "noted", "rejected"},
         phase' = "shown" => content' = Asked',
         phase' = "noted" =>
           content' = IF mode'.kind = "head" THEN First(max)' ELSE Last(max)',
         phase' # "rejected" => Len(content') <= max'
  PROVE  PeekInv'
<1>1. ShowsWhatWasAsked'
  BY DEF ShowsWhatWasAsked
<1>2. BudgetsSuffice'
  BY DEF BudgetsSuffice
<1> QED
  BY <1>1, <1>2 DEF PeekInv

\* read_to_end.
LEMMA ReadToEndKeeps ==
  ASSUME PeekInv, NEW buf \in Buffers, ReadToEnd(buf)
  PROVE  PeekInv'
<1>1. /\ IInv /\ PeekTypeOK /\ Reading /\ ForwardSpent /\ ~InLines("tail")
      /\ mode.kind # "head" /\ phase = "reading"
  BY ModeShape DEF PeekInv, ReadToEnd, Spent, ToEnd, InLines
<1>2. buf \in Nat \ {0} /\ Read(buf) /\ ToEnd
  BY PeekAssumption DEF ReadToEnd
<1>3. IInv'
  BY <1>1, <1>2, ReadKeepsIInv
<1>4. /\ UNCHANGED <<total, limits>> /\ UNCHANGED options /\ scan' = scan
  BY <1>1, <1>2, ReadOutcome DEF ReadToEnd
<1>5. /\ content \in Seq(Nat) /\ Len(content) \in Nat /\ scan \in Nat
      /\ total \in Nat /\ pos \in Nat /\ Start \in Nat /\ max \in Nat
      /\ total <= Start + max
  BY <1>1, <1>2, PeekNumbers, StartShape DEF PeekTypeOK
<1>6. CASE Failed
  <2>1. phase' = "failed" /\ content' = content
    BY <1>6 DEF ReadToEnd, Failed, Delivered
  <2>2. answer'.kind # "refused"
    <3>1. SUFFICES ASSUME answer'.kind = "refused" PROVE FALSE
      OBVIOUS
    <3>2. Misses(buf) /\ ~Affordable(buf)
      BY <1>1, <1>2, <3>1, RefusedReads DEF ReadRefused
    <3>3. pos < Start + max
      BY <1>5, <3>2 DEF Misses
    <3> QED
      BY <1>1, <1>2, <1>5, <3>2, <3>3, ForwardAffordable
  <2>3. PeekTypeOK'
    BY <1>1, <1>4, <1>5, <2>1, TypeKept
  <2> QED
    BY <1>3, <2>1, <2>2, <2>3, FailureKeeps
<1>7. CASE Ended
  <2>1. ~Failed /\ ~Delivered /\ total <= pos
    BY <1>1, <1>2, <1>7, ReadOutcome
  <2>2. phase' = "shown" /\ content' = content
    BY <1>7, <2>1 DEF ReadToEnd
  <2>3. PeekTypeOK'
    BY <1>1, <1>4, <1>5, <2>2, TypeKept
  <2>4. content' = Asked' /\ Len(content') <= max'
    BY <1>1, <1>2, <1>4, <2>1, <2>2, EndShown, OptionsKept
  <2> QED
    BY <1>3, <2>2, <2>3, <2>4, EndingKeeps
<1>8. CASE Delivered
  <2>1. ~Failed /\ ~Ended
    BY <1>1, <1>2, <1>8, ReadOutcome
  <2>2. phase' = "reading" /\ content' = content \o Got
    BY <1>1, <1>8, <2>1 DEF ReadToEnd
  <2>3. /\ content' \in Seq(Nat) /\ Contiguous(content', Start)
        /\ Len(content') = Len(content) + Len(Got) /\ Len(Got) \in 1 .. buf
        /\ pos' = Start + Len(content) + Len(Got) /\ pos' <= total
    BY <1>1, <1>2, <1>8, <2>2, DeliveredFollows
  <2>4. PeekTypeOK'
    BY <1>1, <1>4, <1>5, <2>3, TypeKept
  <2>5. pos < Start + max
    BY <1>1, <1>2, <1>5, <2>3 DEF Reading
  <2>6. ForwardSpent'
    BY <1>1, <1>2, <1>4, <1>8, <2>5, ForwardReadKeeps
  <2>7. Start' = Start
    BY <1>1, <1>4, ModeShape, OptionsKept DEF Start, InLines, Minus
  <2>8. ~InLines("tail")' /\ mode'.kind # "head" /\ ~Rejected'
    BY <1>1, <1>4, OptionsKept DEF Reading
  <2>9. Reading'
    <3>1. pos' = Start + Len(content')
      BY <1>2, <1>5, <2>3
    <3> QED
      BY <1>4, <2>3, <2>7, <2>8, <3>1 DEF Reading
  <2> QED
    BY <1>3, <2>2, <2>4, <2>6, <2>8, <2>9, GoingOnKeeps DEF Spent
<1> QED
  BY <1>1, <1>2, <1>6, <1>7, <1>8, ReadOutcome

\* bounded_copy reads a piece.
LEMMA HeadReadsKeeps ==
  ASSUME PeekInv, HeadReads
  PROVE  PeekInv'
<1> DEFINE buf == Lesser(max - Len(content), ReadChunk)
<1>1. /\ IInv /\ PeekTypeOK /\ Reading /\ ForwardSpent /\ ~InLines("tail")
      /\ mode.kind = "head" /\ phase = "reading" /\ mode.count \in Nat
  BY ModeShape DEF PeekInv, HeadReads, Spent, InLines
<1>2. /\ content \in Seq(Nat) /\ Len(content) \in Nat /\ scan \in Nat
      /\ total \in Nat /\ pos \in Nat /\ max \in Nat /\ ReadChunk \in Nat \ {0}
      /\ Start = 0 /\ pos = Len(content) /\ Len(content) < max
  BY <1>1, PeekNumbers DEF PeekTypeOK, HeadReads, Reading, Start
<1>3. buf \in Nat \ {0} /\ buf <= max - Len(content) /\ Read(buf)
  BY <1>2 DEF Lesser, HeadReads
<1> HIDE DEF buf
<1>4. IInv'
  BY <1>1, <1>3, ReadKeepsIInv
<1>5. /\ UNCHANGED <<total, limits>> /\ UNCHANGED options /\ scan' = scan
  BY <1>1, <1>3, ReadOutcome DEF HeadReads
<1>6. pos < Start + max
  BY <1>2
<1>7. CASE Failed
  <2>1. phase' = "failed" /\ content' = content
    BY <1>7 DEF HeadReads, Failed, Delivered
  <2>2. answer'.kind # "refused"
    <3>1. SUFFICES ASSUME answer'.kind = "refused" PROVE FALSE
      OBVIOUS
    <3>2. Misses(buf) /\ ~Affordable(buf)
      BY <1>1, <1>3, <3>1, RefusedReads DEF ReadRefused
    <3> QED
      BY <1>1, <1>3, <1>6, <3>2, ForwardAffordable
  <2>3. PeekTypeOK'
    BY <1>1, <1>2, <1>5, <2>1, TypeKept
  <2> QED
    BY <1>4, <2>1, <2>2, <2>3, FailureKeeps
<1>8. CASE Ended
  <2>1. ~Failed /\ ~Delivered /\ total <= pos
    BY <1>1, <1>3, <1>8, ReadOutcome
  <2>2. phase' = "shown" /\ content' = content
    BY <1>8, <2>1 DEF HeadReads
  <2>3. PeekTypeOK'
    BY <1>1, <1>2, <1>5, <2>2, TypeKept
  <2>4. content' = Asked' /\ Len(content') <= max'
    BY <1>1, <1>5, <2>1, <2>2, HeadAtEnd, OptionsKept
  <2> QED
    BY <1>4, <2>2, <2>3, <2>4, EndingKeeps
<1>9. CASE Delivered
  <2>1. ~Failed /\ ~Ended
    BY <1>1, <1>3, <1>9, ReadOutcome
  <2>2. /\ content' = content \o Kept(Got)
        /\ phase' = IF Measure(content') >= mode.count THEN "shown" ELSE phase
    BY <1>9, <2>1 DEF HeadReads
  <2>3. /\ Got \in Seq(Nat) /\ Len(Got) \in 1 .. buf /\ Contiguous(Got, pos)
        /\ pos' = 0 + Len(content) + Len(Got) /\ pos' <= total
    BY <1>1, <1>2, <1>3, <1>9, DeliveredFollows
  <2>4. Len(Got) <= max - Len(content) /\ Len(content) + Len(Got) <= total
    BY <1>2, <1>3, <2>3
  <2>5. /\ content' \in Seq(Nat) /\ Contiguous(content', 0)
        /\ Len(content') <= max /\ Len(content') <= total
        /\ Measure(content') < mode.count => Len(content') = Len(content) + Len(Got)
        /\ Measure(content') >= mode.count => content' = Asked
    BY <1>1, <2>2, <2>3, <2>4, HeadShape
  <2>6. Measure(content') \in Nat
    BY <1>1, <2>5, MeasureIs
  <2>7. PeekTypeOK'
    BY <1>1, <1>2, <1>5, <2>5, TypeKept
  <2>8. CASE Measure(content') >= mode.count
    <3>1. content' = Asked' /\ Len(content') <= max' /\ phase' = "shown"
      BY <1>5, <2>2, <2>5, <2>8, OptionsKept
    <3> QED
      BY <1>4, <2>7, <3>1, EndingKeeps
  <2>9. CASE Measure(content') < mode.count
    <3>1. phase' = "reading"
      BY <1>1, <2>2, <2>6, <2>9
    <3>2. ForwardSpent'
      BY <1>1, <1>3, <1>5, <1>6, <1>9, ForwardReadKeeps
    <3>3. mode' = mode /\ max' = max /\ Start' = 0
      BY <1>1, <1>5, OptionsKept DEF Start
    <3>4. ~InLines("tail")' /\ ~Rejected'
      BY <1>1, <1>5, OptionsKept DEF Reading
    <3>5. pos' = 0 + Len(content')
      BY <1>2, <2>3, <2>5, <2>9
    <3>6. Measure(content)' < mode'.count
      BY <1>5, <2>9, <3>3, MeasureKept
    <3>7. Reading'
      BY <1>5, <2>3, <2>5, <3>3, <3>4, <3>5, <3>6 DEF Reading
    <3> QED
      BY <1>4, <2>7, <3>1, <3>2, <3>4, <3>7, GoingOnKeeps DEF Spent
  <2> QED
    BY <1>1, <2>6, <2>8, <2>9
<1> QED
  BY <1>1, <1>3, <1>7, <1>8, <1>9, ReadOutcome

\* read_exact reads more of a scan's window.
LEMMA TailReadsKeeps ==
  ASSUME PeekInv, TailReads
  PROVE  PeekInv'
<1> DEFINE buf == scan - Len(content)
<1>1. /\ IInv /\ PeekTypeOK /\ Reading /\ BackwardSpent /\ InLines("tail")
      /\ phase = "reading" /\ mode.kind = "tail"
  BY DEF PeekInv, TailReads, Spent, InLines
<1>2. /\ content \in Seq(Nat) /\ Len(content) \in Nat /\ scan \in Nat
      /\ total \in Nat /\ pos \in Nat /\ Start = total - scan
      /\ pos = Start + Len(content) /\ Len(content) < scan
      /\ scan <= total /\ scan <= max /\ (scan = 0 => total = 0 \/ max = 0)
  BY <1>1, PeekNumbers DEF PeekTypeOK, TailReads, Reading, Start, InLines
<1>3. buf \in Nat \ {0} /\ Read(buf)
  BY <1>2 DEF TailReads
<1>4. IInv'
  BY <1>1, <1>3, ReadKeepsIInv
<1>5. /\ UNCHANGED <<total, limits>> /\ UNCHANGED options /\ scan' = scan
  BY <1>1, <1>3, ReadOutcome DEF TailReads
<1>6. InLines("tail")' /\ mode'.kind = "tail" /\ ~Rejected' /\ max' = max /\ total' = total
  BY <1>1, <1>5, OptionsKept DEF Reading
<1>7. CASE Failed
  <2>1. phase' = "failed" /\ content' = content
    BY <1>7 DEF TailReads, Failed, Delivered
  <2>2. answer'.kind = "refused" => Widest' /\ 3 * scan' > limits'.transfer
    <3>1. SUFFICES ASSUME answer'.kind = "refused"
                   PROVE  Widest' /\ 3 * scan' > limits'.transfer
      OBVIOUS
    <3>2. Misses(buf) /\ ~Affordable(buf)
      BY <1>1, <1>3, <3>1, RefusedReads DEF ReadRefused
    <3>3. ~(~Widest \/ 3 * scan <= limits.transfer)
      BY <1>1, <1>3, <3>2, BackwardAffordable DEF buf
    <3>4. Widest /\ 3 * scan > limits.transfer
      <4>1. limits.transfer \in Nat
        BY <1>1, PeekNumbers
      <4> QED
        BY <1>2, <3>3, <4>1
    <3> QED
      BY <1>5, <1>6, <3>4, OptionsKept DEF Widest
  <2>3. PeekTypeOK'
    BY <1>1, <1>2, <1>5, <2>1, TypeKept
  <2> QED
    BY <1>4, <1>6, <2>1, <2>2, <2>3, FailureKeeps
<1>8. CASE Delivered
  <2>1. ~Failed /\ ~Ended
    BY <1>1, <1>3, <1>8, ReadOutcome
  <2>2. phase' = "reading" /\ content' = content \o Got
    BY <1>1, <1>8, <2>1 DEF TailReads
  <2>3. /\ content' \in Seq(Nat) /\ Contiguous(content', Start)
        /\ Len(content') = Len(content) + Len(Got) /\ Len(Got) \in 1 .. buf
        /\ pos' = Start + Len(content) + Len(Got) /\ pos' <= total
    BY <1>1, <1>3, <1>8, <2>2, DeliveredFollows
  <2>4. PeekTypeOK'
    BY <1>1, <1>2, <1>5, <2>3, TypeKept
  <2>5. BackwardSpent'
    BY <1>1, <1>3, <1>5, <1>8, BackwardReadKeeps DEF buf
  <2>6. Start' = Start
    BY <1>2, <1>5, <1>6 DEF Start, InLines
  <2>7. Reading'
    <3>1. pos' = Start + Len(content')
      BY <1>2, <1>3, <2>3
    <3> QED
      BY <1>2, <1>5, <1>6, <2>3, <2>6, <3>1 DEF Reading
  <2> QED
    BY <1>4, <1>6, <2>2, <2>4, <2>5, <2>7, GoingOnKeeps DEF Spent
<1>9. ~Ended
  <2>1. pos < total
    BY <1>2
  <2> QED
    BY <1>1, <1>2, <1>3, <2>1, ReadOutcome
<1> QED
  BY <1>1, <1>3, <1>7, <1>8, <1>9, ReadOutcome

\* Nothing is left as it was but the phase.
LEMMA WholeKept ==
  ASSUME UNCHANGED <<reader, options, scan, content>>
  PROVE  /\ UNCHANGED <<current, total, limits, pos, window, tail, requests, bytesFetched>>
         /\ UNCHANGED <<responseEtag, lastError, answer>>
         /\ UNCHANGED <<breaks, mode, max, scan, content>>
BY DEF reader, vars, cache, spent, options

\* A step that leaves the reader alone leaves it well.
LEMMA ReaderKept ==
  ASSUME IInv, UNCHANGED reader
  PROVE  IInv'
BY NextIInv DEF reader

\* A window is as long as it may be in the file and under the cap.
LEMMA WindowedIs ==
  ASSUME IInv, PeekTypeOK, NEW n \in Nat
  PROVE  /\ Windowed(n) \in Nat /\ Windowed(n) <= n
         /\ Windowed(n) <= total /\ Windowed(n) <= max
         /\ Windowed(n) \in {n, total, max}
         /\ Windowed(n) = n \/ Windowed(n) = Windowed(max)
<1>1. total \in Nat /\ max \in Nat
  BY PeekNumbers
<1> QED
  BY <1>1 DEF Windowed, Lesser

\* Backward from the end of the file.
LEMMA BackFrom ==
  /\ \A t, n \in Nat : t - n = t - n + 0 /\ t - n <= t
  /\ \A t, n, m \in Nat : n <= t /\ n <= m => Minus(t, m) <= t - n
BY DEF Minus

\* A seek moves the position only.
LEMMA SeekKeeps ==
  ASSUME IInv, NEW target \in Int, Seek(target)
  PROVE  /\ IInv' /\ pos' = target
         /\ UNCHANGED <<total, limits, window, tail, requests, bytesFetched>>
<1>1. IInv'
  BY PlainKeepsIInv
<1> QED
  BY <1>1 DEF Seek, cache, spent

\* last_n_lines.
LEMMA TailShowsKeeps ==
  ASSUME PeekInv, TailShows
  PROVE  PeekInv'
<1>1. /\ IInv /\ PeekTypeOK /\ Reading /\ InLines("tail") /\ Len(content) = scan
      /\ mode.kind = "tail" /\ scan \in Nat
  BY DEF PeekInv, TailShows, WindowRead, InLines, PeekTypeOK
<1>2. UNCHANGED reader /\ UNCHANGED options /\ scan' = scan /\ content' = LastLines
  BY DEF TailShows
<1>3. IInv' /\ UNCHANGED <<total, limits>>
  BY <1>1, <1>2, ReaderKept DEF reader, vars
<1>4. /\ Confident => content' = Asked
      /\ ~Confident => content' = Last(max)
      /\ Len(content') <= max /\ content' \in Seq(Nat)
  BY <1>1, <1>2, TailShown DEF TailShows
<1>5. PeekTypeOK'
  BY <1>1, <1>2, <1>3, <1>4, TypeKept
<1>6. phase' = IF Confident THEN "shown" ELSE "noted"
  BY DEF TailShows
<1>7. mode' = mode /\ max' = max /\ Asked' = Asked /\ Last(max)' = Last(max)
  BY <1>2, <1>3, OptionsKept
<1> QED
  BY <1>1, <1>3, <1>4, <1>5, <1>6, <1>7, EndingKeeps

\* The scan starts again, with a longer suffix.
LEMMA TailWidensKeeps ==
  ASSUME PeekInv, TailWidens
  PROVE  PeekInv'
<1>1. /\ IInv /\ PeekTypeOK /\ Reading /\ BackwardSpent /\ InLines("tail")
      /\ phase = "reading" /\ Len(content) = scan
  BY DEF PeekInv, TailWidens, WindowRead, Spent, InLines
<1>2. /\ total \in Nat /\ max \in Nat /\ scan \in Nat
      /\ scan <= total /\ scan <= max /\ (scan = 0 => total = 0 \/ max = 0)
  BY <1>1, PeekNumbers, WidestShape DEF Reading
<1>3. scan < total /\ scan < max
  BY <1>2 DEF TailWidens, Confident, HitCap
<1>4. /\ scan' = Windowed(2 * scan) /\ Seek(total - scan') /\ content' = <<>>
      /\ UNCHANGED options /\ phase' = "reading"
  BY <1>1 DEF TailWidens
<1>5. /\ scan' \in Nat /\ scan' <= total /\ scan' <= max /\ scan <= scan'
      /\ scan' = 2 * scan \/ scan' = Windowed(max)
      /\ scan' = 0 => scan = 0
  <2>1. 2 * scan \in Nat
    BY <1>2
  <2>2. /\ Windowed(2 * scan) \in Nat
        /\ Windowed(2 * scan) <= total /\ Windowed(2 * scan) <= max
        /\ Windowed(2 * scan) \in {2 * scan, total, max}
        /\ Windowed(2 * scan) = 2 * scan \/ Windowed(2 * scan) = Windowed(max)
    BY <1>1, <2>1, WindowedIs
  <2>3. scan <= 2 * scan /\ (2 * scan = 0 => scan = 0)
    BY <1>2
  <2> QED
    BY <1>2, <1>3, <1>4, <2>2, <2>3
<1>6. /\ IInv' /\ pos' = total - scan'
      /\ UNCHANGED <<total, limits, window, tail, requests, bytesFetched>>
  BY <1>1, <1>2, <1>4, <1>5, SeekKeeps
<1>7. PeekTypeOK'
  BY <1>1, <1>4, <1>5, <1>6, TypeKept
<1>8. InLines("tail")' /\ mode'.kind = "tail" /\ ~Rejected' /\ max' = max /\ total' = total
      /\ Windowed(max)' = Windowed(max)
  BY <1>1, <1>4, <1>6, OptionsKept DEF Reading, InLines
<1>9. Reading'
  <2>1. Start' = total - scan' /\ Len(content') = 0
    BY <1>4, <1>8 DEF Start, InLines
  <2>2. Contiguous(content', Start')
    BY <2>1 DEF Contiguous
  <2>3. pos' = Start' + Len(content') /\ pos' <= total
    <3>1. total \in Nat /\ scan' \in Nat
      BY <1>2, <1>5
    <3>2. total - scan' = total - scan' + 0 /\ total - scan' <= total
      BY <3>1, BackFrom
    <3> QED
      BY <1>6, <2>1, <3>2
  <2>4. scan' = 0 => total = 0 \/ max = 0
    BY <1>2, <1>5
  <2> QED
    BY <1>5, <1>8, <2>2, <2>3, <2>4 DEF Reading
<1>10. BackwardSpent'
  <2>1. content # <<>> \/ scan = 0
    BY <1>1
  <2>2. scan # 0 /\ ~Widest
    BY <1>2, <1>3 DEF Widest, Windowed, Lesser
  <2>3. /\ ~Absent(tail) /\ (~Absent(window) => WindowLimit = tail.from)
        /\ ScansSpent(scan)
    <3>1. content # <<>>
      BY <2>1, <2>2
    <3>2. /\ ~Absent(tail) /\ (~Absent(window) => WindowLimit = tail.from)
          /\ Covered /\ (Widest \/ ScansSpent(scan))
      <4> HIDE DEF Covered, Widest, ScansSpent, WindowLimit, Absent
      <4>1. \/ content = <<>>
            \/ /\ ~Absent(tail) /\ (~Absent(window) => WindowLimit = tail.from)
               /\ Covered /\ (Widest \/ ScansSpent(scan))
        BY <1>1 DEF BackwardSpent
      <4> QED
        BY <3>1, <4>1
    <3> QED
      BY <2>2, <3>2
  <2>4. PICK p \in Nat : p = scan
    BY <1>2
  <2>5. ScansSpent(p)'
    BY <1>6, <2>3, <2>4 DEF ScansSpent, Greater, Paced, Spare
  <2>6. p \in 0 .. scan' /\ (Widest' \/ scan' = 2 * p)
    BY <1>5, <1>8, <2>4 DEF Widest
  <2>7. ~Absent(tail') /\ (~Absent(window') => WindowLimit' = tail'.from)
    BY <1>6, <2>3 DEF Absent, WindowLimit
  <2> QED
    BY <1>4, <2>5, <2>6, <2>7 DEF BackwardSpent, Absent
<1> QED
  BY <1>4, <1>6, <1>7, <1>8, <1>9, <1>10, GoingOnKeeps DEF Spent

\* stream_head gives up at the cap.
LEMMA HeadCappedKeeps ==
  ASSUME PeekInv, HeadCapped
  PROVE  PeekInv'
<1>1. /\ IInv /\ PeekTypeOK /\ Reading /\ mode.kind = "head" /\ Len(content) >= max
      /\ UNCHANGED reader /\ UNCHANGED options /\ scan' = scan /\ content' = content
      /\ phase' = "noted"
  BY DEF PeekInv, HeadCapped
<1>2. IInv' /\ UNCHANGED <<total, limits>>
  BY <1>1, ReaderKept DEF reader, vars
<1>3. PeekTypeOK'
  <2>1. scan' \in Nat /\ content' \in Seq(Nat)
    BY <1>1 DEF PeekTypeOK
  <2> QED
    BY <1>1, <1>2, <2>1, TypeKept
<1>4. content' = First(max)' /\ Len(content') <= max' /\ mode'.kind = "head"
  BY <1>1, <1>2, HeadAtCap, OptionsKept
<1> QED
  BY <1>1, <1>2, <1>3, <1>4, EndingKeeps

\* validate_resolved rejects.
LEMMA RejectKeeps ==
  ASSUME PeekInv, Reject
  PROVE  PeekInv'
<1>1. /\ IInv /\ PeekTypeOK /\ phase' = "rejected"
      /\ UNCHANGED reader /\ UNCHANGED options /\ scan' = scan /\ content' = content
  BY DEF PeekInv, Reject
<1>2. IInv' /\ UNCHANGED <<total, limits>>
  BY <1>1, ReaderKept DEF reader, vars
<1>3. PeekTypeOK'
  <2>1. scan' \in Nat /\ content' \in Seq(Nat)
    BY <1>1 DEF PeekTypeOK
  <2> QED
    BY <1>1, <1>2, <2>1, TypeKept
<1> QED
  BY <1>1, <1>2, <1>3, EndingKeeps

\* With nothing read, nothing is measured.
LEMMA NothingMeasured ==
  ASSUME PeekTypeOK, mode.kind = "head"
  PROVE  Measure(<<>>) < mode.count
<1>1. mode.count \in Nat /\ mode.count > 0
  BY ModeShape
<1>2. BreaksIn(<<>>) = 0
  <2>1. {i \in DOMAIN <<>> : <<>>[i] \in breaks} = {}
    OBVIOUS
  <2> QED
    BY <2>1, FS_EmptySet DEF BreaksIn
<1> QED
  BY <1>1, <1>2 DEF Measure

\* cat and head begin where the file does.
LEMMA BeginForwardKeeps ==
  ASSUME PeekInv, BeginForward
  PROVE  PeekInv'
<1>1. /\ IInv /\ PeekTypeOK /\ Fresh /\ ~Rejected /\ mode.kind # "tail"
      /\ UNCHANGED reader /\ UNCHANGED options /\ scan' = scan /\ content' = content
      /\ phase' = "reading"
  BY DEF PeekInv, BeginForward, Begin
<1>2. IInv' /\ UNCHANGED <<total, limits, pos, window, tail, requests, bytesFetched>>
  BY <1>1, ReaderKept DEF reader, vars, cache, spent
<1>3. PeekTypeOK' /\ content' = <<>> /\ total \in Nat /\ max \in Nat
  <2>1. scan' \in Nat /\ content' \in Seq(Nat)
    BY <1>1 DEF PeekTypeOK
  <2> QED
    BY <1>1, <1>2, <2>1, TypeKept, PeekNumbers DEF Fresh
<1>4. ~InLines("tail")' /\ ~Rejected' /\ mode' = mode /\ Start' = 0 /\ max' = max
  BY <1>1, <1>2, OptionsKept DEF InLines, Start
<1>5. mode'.kind = "head" => Measure(content)' < mode'.count
  BY <1>1, <1>3, <1>4, MeasureKept, NothingMeasured
<1>6. Reading'
  <2>1. Len(content') = 0 /\ pos' = 0
    BY <1>1, <1>2, <1>3 DEF Fresh
  <2>2. Contiguous(content', Start')
    BY <2>1 DEF Contiguous
  <2> QED
    BY <1>2, <1>3, <1>4, <1>5, <2>1, <2>2 DEF Reading
<1>7. ForwardSpent'
  BY <1>1, <1>2, <1>4 DEF ForwardSpent, Fresh, Absent
<1> QED
  BY <1>1, <1>2, <1>3, <1>4, <1>6, <1>7, GoingOnKeeps DEF Spent

\* stream_tail_bytes seeks to the bytes asked for.
LEMMA BeginTailBytesKeeps ==
  ASSUME PeekInv, BeginTailBytes
  PROVE  PeekInv'
<1>1. /\ IInv /\ PeekTypeOK /\ Fresh /\ ~Rejected /\ mode.kind = "tail"
      /\ mode.unit = "bytes" /\ Seek(Minus(total, mode.count))
      /\ UNCHANGED options /\ scan' = scan /\ content' = content
      /\ phase' = "reading"
  BY DEF PeekInv, BeginTailBytes, Begin
<1>2. total \in Nat /\ max \in Nat /\ mode.count \in Nat
  BY <1>1, PeekNumbers, ModeShape
<1>3. Minus(total, mode.count) \in Nat /\ Minus(total, mode.count) <= total
  BY <1>2 DEF Minus
<1>4. /\ IInv' /\ pos' = Minus(total, mode.count)
      /\ UNCHANGED <<total, limits, window, tail, requests, bytesFetched>>
  BY <1>1, <1>3, SeekKeeps
<1>5. PeekTypeOK' /\ content' = <<>>
  <2>1. scan' \in Nat /\ content' \in Seq(Nat)
    BY <1>1 DEF PeekTypeOK
  <2> QED
    BY <1>1, <1>4, <2>1, TypeKept DEF Fresh
<1>6. /\ ~InLines("tail")' /\ ~Rejected' /\ mode' = mode /\ max' = max
      /\ Start' = Minus(total, mode.count)
  BY <1>1, <1>4, OptionsKept DEF InLines, Start
<1>7. Reading'
  <2>1. Len(content') = 0
    BY <1>5
  <2>2. Contiguous(content', Start')
    BY <2>1 DEF Contiguous
  <2> QED
    BY <1>1, <1>3, <1>4, <1>6, <2>1, <2>2 DEF Reading
<1>8. ForwardSpent'
  BY <1>1, <1>4, <1>6 DEF ForwardSpent, Fresh, Absent
<1> QED
  BY <1>1, <1>4, <1>5, <1>6, <1>7, <1>8, GoingOnKeeps DEF Spent

\* stream_tail_lines begins with the shortest scan.
LEMMA BeginTailLinesKeeps ==
  ASSUME PeekInv, BeginTailLines
  PROVE  PeekInv'
<1>1. /\ IInv /\ PeekTypeOK /\ Fresh /\ ~Rejected /\ InLines("tail")
      /\ scan' = Windowed(TailScanChunk) /\ Seek(total - scan')
      /\ UNCHANGED options /\ content' = content
      /\ phase' = "reading"
  BY DEF PeekInv, BeginTailLines, Begin
<1>2. /\ total \in Nat /\ max \in Nat /\ TailScanChunk \in Nat \ {0}
      /\ TailPrefetch \in Nat
  BY <1>1, PeekNumbers
<1>3. /\ scan' \in Nat /\ scan' <= total /\ scan' <= max /\ scan' <= TailScanChunk
      /\ scan' = 0 => total = 0 \/ max = 0
  <2>1. /\ Windowed(TailScanChunk) \in Nat /\ Windowed(TailScanChunk) <= TailScanChunk
        /\ Windowed(TailScanChunk) <= total /\ Windowed(TailScanChunk) <= max
        /\ Windowed(TailScanChunk) \in {TailScanChunk, total, max}
    BY <1>1, <1>2, WindowedIs
  <2> QED
    BY <1>1, <1>2, <2>1
<1>4. /\ IInv' /\ pos' = total - scan'
      /\ UNCHANGED <<total, limits, window, tail, requests, bytesFetched>>
  BY <1>1, <1>2, <1>3, SeekKeeps
<1>5. PeekTypeOK' /\ content' = <<>>
  <2>1. content' \in Seq(Nat)
    BY <1>1 DEF PeekTypeOK
  <2> QED
    BY <1>1, <1>3, <1>4, <2>1, TypeKept DEF Fresh
<1>6. InLines("tail")' /\ mode'.kind = "tail" /\ ~Rejected' /\ max' = max /\ total' = total
  BY <1>1, <1>4, OptionsKept DEF InLines
<1>7. Reading'
  <2>1. Start' = total - scan' /\ Len(content') = 0
    BY <1>5, <1>6 DEF Start, InLines
  <2>2. Contiguous(content', Start')
    BY <2>1 DEF Contiguous
  <2>3. pos' = Start' + Len(content') /\ pos' <= total
    <3>1. total \in Nat /\ scan' \in Nat
      BY <1>2, <1>3
    <3>2. total - scan' = total - scan' + 0 /\ total - scan' <= total
      BY <3>1, BackFrom
    <3> QED
      BY <1>4, <2>1, <3>2
  <2> QED
    BY <1>3, <1>6, <2>2, <2>3 DEF Reading
<1>8. BackwardSpent'
  <2>1. TailStart' = Minus(total, TailPrefetch)
    BY <1>6 DEF TailStart
  <2>2. scan' <= TailPrefetch
    BY <1>2, <1>3, LimitsAssumption
  <2>3. TailStart' <= pos'
    <3>1. Minus(total, TailPrefetch) <= total - scan'
      <4>1. total \in Nat /\ scan' \in Nat /\ TailPrefetch \in Nat /\ scan' <= total
        BY <1>2, <1>3
      <4> QED
        BY <2>2, <4>1, BackFrom
    <3> QED
      BY <1>4, <2>1, <3>1
  <2> QED
    BY <1>1, <1>4, <1>5, <2>3 DEF BackwardSpent, Fresh, Absent
<1> QED
  BY <1>1, <1>4, <1>5, <1>6, <1>7, <1>8, GoingOnKeeps DEF Spent
-----------------------------------------------------------------------------
(* Every reachable state.                                                   *)

\* Peek opens its reader with the limits of its cap, and has read nothing.
LEMMA PeekInitInv ==
  ASSUME PeekInit
  PROVE  PeekInv
<1>1. max \in Nat
  BY PeekAssumption DEF PeekInit
<1>2. limits \in [requests : Nat, transfer : Nat]
  <2>1. {ReadChunk} \subseteq Nat \ {0} /\ {TransferFloor, RequestFloor, RequestSlack} \subseteq Nat
    BY PeekAssumption
  <2>2. max \div ReadChunk \in Nat
    BY <1>1, <2>1, QuotientFits
  <2>3. RequestLimit(max) \in Nat
    BY <2>1, <2>2 DEF RequestLimit, Greater
  <2>4. TransferLimit(max) \in Nat
    BY <1>1, <2>1 DEF TransferLimit, Greater
  <2> QED
    BY <2>3, <2>4 DEF PeekInit, TransportLimits
<1>3. IInv
  BY <1>2, OpenedIInv DEF PeekInit
<1>4. PeekTypeOK
  BY DEF PeekInit, PeekTypeOK
<1>5. Fresh
  BY DEF PeekInit, Opened, Fresh, Absent, NoExtent, Extent
<1> QED
  BY <1>3, <1>4, <1>5 DEF PeekInit, PeekInv, ShowsWhatWasAsked, BudgetsSuffice

\* A step that changes nothing.
LEMMA PeekStutterKeeps ==
  ASSUME PeekInv, UNCHANGED peekVars
  PROVE  PeekInv'
<1>1. /\ UNCHANGED <<reader, options, scan, content>> /\ phase' = phase
      /\ UNCHANGED reader /\ UNCHANGED options /\ scan' = scan /\ content' = content
  BY DEF peekVars
<1>2. IInv' /\ UNCHANGED <<total, limits>> /\ answer' = answer
  BY <1>1, ReaderKept DEF PeekInv, reader, vars
<1>3. PeekTypeOK'
  <2>1. scan' \in Nat /\ content' \in Seq(Nat)
    BY <1>1 DEF PeekInv, PeekTypeOK
  <2> QED
    BY <1>1, <1>2, <2>1, TypeKept DEF PeekInv
<1>4. /\ Asked' = Asked /\ First(max)' = First(max) /\ Last(max)' = Last(max)
      /\ mode' = mode /\ max' = max /\ Rejected' = Rejected
      /\ InLines("tail")' = InLines("tail") /\ Windowed(max)' = Windowed(max)
  BY <1>1, <1>2, OptionsKept
<1>5. ShowsWhatWasAsked'
  BY <1>1, <1>4 DEF PeekInv, ShowsWhatWasAsked
<1>6. BudgetsSuffice'
  BY <1>1, <1>2, <1>4 DEF PeekInv, BudgetsSuffice
<1>7. phase' = "open" => Fresh'
  BY <1>1, WholeKept DEF PeekInv, Fresh, Absent
<1>8. ASSUME phase' = "reading" PROVE Reading' /\ Spent'
  <2>1. Reading /\ Spent
    BY <1>1, <1>8 DEF PeekInv
  <2>2. UNCHANGED <<pos, total, window, tail, requests, bytesFetched>>
    BY <1>1, WholeKept
  <2>3. Start' = Start
    BY <1>1, <1>2, <1>4, <2>2 DEF Start, Minus
  <2>4. Measure(content)' = Measure(content)
    BY <1>1, MeasureKept, WholeKept DEF Measure, BreaksIn
  <2>5. Reading'
    BY <1>1, <1>4, <2>1, <2>2, <2>3, <2>4 DEF Reading, Contiguous
  <2>6. Aim' = Aim /\ WindowLimit' = WindowLimit
    BY <1>4, <2>2, <2>3 DEF Aim, WindowLimit, Lesser
  <2>7. ForwardSpent' = ForwardSpent
    BY <2>2, <2>3, <2>6 DEF ForwardSpent, Absent, Paced, Spare, Lesser
  <2>8. \A p : ScansSpent(p)' = ScansSpent(p)
    BY <2>2 DEF ScansSpent, Paced, Spare, Greater
  <2>9. /\ Widest' = Widest /\ Covered' = Covered /\ ScansSpent(scan)' = ScansSpent(scan)
        /\ Absent(tail)' = Absent(tail) /\ Absent(window)' = Absent(window)
        /\ TailStart' = TailStart
    BY <1>1, <1>4, <2>2 DEF Widest, Covered, ScansSpent, Paced, Spare, Greater, Absent,
                            TailStart, Minus
  <2>10. BackwardSpent' = BackwardSpent
    BY <1>1, <2>2, <2>6, <2>8, <2>9 DEF BackwardSpent
  <2> QED
    BY <1>4, <2>1, <2>5, <2>7, <2>10 DEF Spent
<1> QED
  BY <1>2, <1>3, <1>5, <1>6, <1>7, <1>8 DEF PeekInv

\* One step of peek.
LEMMA PeekNextInv ==
  ASSUME PeekInv, [PeekNext]_peekVars
  PROVE  PeekInv'
<1>1. CASE Reject
  BY <1>1, RejectKeeps
<1>2. CASE BeginForward
  BY <1>2, BeginForwardKeeps
<1>3. CASE BeginTailBytes
  BY <1>3, BeginTailBytesKeeps
<1>4. CASE BeginTailLines
  BY <1>4, BeginTailLinesKeeps
<1>5. CASE \E buf \in Buffers : ReadToEnd(buf)
  BY <1>5, ReadToEndKeeps
<1>6. CASE HeadCapped
  BY <1>6, HeadCappedKeeps
<1>7. CASE HeadReads
  BY <1>7, HeadReadsKeeps
<1>8. CASE TailReads
  BY <1>8, TailReadsKeeps
<1>9. CASE TailShows
  BY <1>9, TailShowsKeeps
<1>10. CASE TailWidens
  BY <1>10, TailWidensKeeps
<1>11. CASE UNCHANGED peekVars
  BY <1>11, PeekStutterKeeps
<1> QED
  BY <1>1, <1>2, <1>3, <1>4, <1>5, <1>6, <1>7, <1>8, <1>9, <1>10, <1>11 DEF PeekNext

\* While peek reads, its content ends where the reader is and what it has spent
\* is paid for by what it has read; once it is done, what it shows is right.
THEOREM PeekInvariant == PeekSpec => []PeekInv
<1>1. PeekInit => PeekInv
  BY PeekInitInv
<1>2. PeekInv /\ [PeekNext]_peekVars => PeekInv'
  BY PeekNextInv
<1> QED
  BY <1>1, <1>2, PTL DEF PeekSpec

\* What peek prints without a note is exactly what was asked for, for a file of
\* any length with newlines anywhere, in every mode and with every cap; what it
\* prints with the note is as much of it as the cap allows.
THEOREM PeekShowsWhatWasAsked == PeekSpec => []ShowsWhatWasAsked
<1>1. PeekInv => ShowsWhatWasAsked
  BY DEF PeekInv
<1> QED
  BY <1>1, PeekInvariant, PTL

\* The budgets transport_limits computes are enough for every peek, whatever the
\* file and the cap, but for the widest scan of a tail of lines where three
\* times that much is over the budget.
THEOREM PeekBudgetsSuffice == PeekSpec => []BudgetsSuffice
<1>1. PeekInv => BudgetsSuffice
  BY DEF PeekInv
<1> QED
  BY <1>1, PeekInvariant, PTL
=============================================================================
