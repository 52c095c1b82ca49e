--------------------------------- MODULE MCPeek ---------------------------------
(* The constants of Peek's run.                                             *)
EXTENDS Peek, TLC

CONSTANTS empty, short, full, long

\* Nothing, and files below, at and above the caps.
AroundTheCap == {empty, short, full, long}
Lengths == (empty :> 0) @@ (short :> 3) @@ (full :> 8) @@ (long :> 17)
AllLimits == {TransportLimits(cap) : cap \in Caps}
=============================================================================
