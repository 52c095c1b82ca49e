------------------------------ MODULE FileReader ------------------------------
(***************************************************************************)
(* What a reader promises the parser that holds it: it is a file.  A read  *)
(* returns bytes from the position on and moves past them, returns nothing *)
(* only at the end, and a read that fails moves nothing.  Bytes known to   *)
(* be of one version (their response named it) are all of the same one.    *)
(***************************************************************************)
EXTENDS Integers

CONSTANTS
  Versions,   \* the contents the remote file may have, named by their etags
  NoVersion,
  Buffers,    \* lengths of the buffers a caller reads into
  MaxOffset   \* the largest position, u64::MAX

VARIABLES total, pos, pinned, answer

view == <<total, pos, pinned, answer>>

Nothing == [kind |-> "nothing"]
Failed == [kind |-> "failed"]
Sought == [kind |-> "sought"]
Bytes(p, n, v, known) ==
  [kind |-> "bytes", from |-> p, len |-> n, of |-> v, tagged |-> known]

Init ==
  /\ total \in Nat
  /\ pos = 0
  /\ pinned = NoVersion
  /\ answer = Nothing

AtEnd ==
  /\ pos >= total
  /\ answer' = Nothing
  /\ UNCHANGED <<total, pos, pinned>>

NoRoom ==
  /\ 0 \in Buffers
  /\ answer' = Nothing
  /\ UNCHANGED <<total, pos, pinned>>

ReadSome(n, v, known) ==
  /\ pos + n <= total
  /\ known => pinned \in {NoVersion, v}
  /\ pinned' = IF known THEN v ELSE pinned
  /\ pos' = pos + n
  /\ answer' = Bytes(pos, n, v, known)
  /\ UNCHANGED total

Fails ==
  /\ answer' = Failed
  /\ UNCHANGED <<total, pos, pinned>>

SeekTo(p) ==
  /\ pos' = p
  /\ answer' = Sought
  /\ UNCHANGED <<total, pinned>>

Next ==
  \/ AtEnd \/ NoRoom \/ Fails
  \/ \E b \in Buffers : \E n \in 1 .. b : \E v \in Versions, known \in BOOLEAN :
       ReadSome(n, v, known)
  \/ \E p \in 0 .. MaxOffset : SeekTo(p)

Spec == Init /\ [][Next]_view
=============================================================================
