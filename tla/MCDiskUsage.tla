------------------------------ MODULE MCDiskUsage ------------------------------
EXTENDS DiskUsage, TLC
CONSTANTS b1, b2, part, e1, e2, e3, refs, x1, x2, x3, x4, s1

Order == b1 :> 1 @@ b2 :> 2 @@ part :> 3
\* One file is as long as the payload, three are of another length.
Lengths == [x \in Inodes \cup Payloads |-> IF x \in {x1, s1} THEN 2 ELSE 1]
=============================================================================
