--------------------------- MODULE MCRangeReader ---------------------------
(* The constants of RangeReader's run.                                      *)
EXTENDS RangeReader, TLC

CONSTANTS v1, v2, v3

\* Two versions of the same size and a shorter one.
ThreeVersions == {v1, v2, v3}
Sizes == (v1 :> 6) @@ (v2 :> 6) @@ (v3 :> 5)
OneBudget == {[requests |-> 4, transfer |-> 7]}
SomeDeltas == {-2, 0, 1}
=============================================================================
