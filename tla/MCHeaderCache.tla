--------------------------- MODULE MCHeaderCache ---------------------------
(* The constants of the run of HeaderCache.                                 *)
EXTENDS HeaderCache, TLC

CONSTANTS v1, v2, i1, i2

\* A file replaced by another of the same size.
TwoVersions == {v1, v2}
SameSize == (v1 :> 1) @@ (v2 :> 1)

TwoInspectors == {i1, i2}
Alike == Permutations(TwoVersions) \cup Permutations(TwoInspectors)
=============================================================================
