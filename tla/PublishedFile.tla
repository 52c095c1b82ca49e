---------------------------- MODULE PublishedFile ----------------------------
(***************************************************************************)
(* What the cache promises of one repository file, to every reader: a blob *)
(* appears whole, a pointer appears only to a blob that is there, and a    *)
(* ref names only a commit whose pointer is there.                         *)
(***************************************************************************)
CONSTANTS Versions, NoCommit

VARIABLES
  blob,      \* "absent" or "complete", per version
  pointer,   \* whether the snapshot of the version has the file
  ref        \* the commit the revision's ref names

view == <<blob, pointer, ref>>

Init ==
  /\ blob = [v \in Versions |-> "absent"]
  /\ pointer = [v \in Versions |-> FALSE]
  /\ ref = NoCommit

PublishBlob(v) ==
  /\ blob' = [blob EXCEPT ![v] = "complete"]
  /\ UNCHANGED <<pointer, ref>>

PublishPointer(v) ==
  /\ blob[v] = "complete"
  /\ pointer' = [pointer EXCEPT ![v] = TRUE]
  /\ UNCHANGED <<blob, ref>>

PublishRef(v) ==
  /\ pointer[v]
  /\ ref' = v
  /\ UNCHANGED <<blob, pointer>>

Next == \E v \in Versions : PublishBlob(v) \/ PublishPointer(v) \/ PublishRef(v)

Spec == Init /\ [][Next]_view
=============================================================================
