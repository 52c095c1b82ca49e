------------------------------- MODULE MCDedupe -------------------------------
EXTENDS Dedupe, TLC
CONSTANTS b1, p1, p2, right, rotten, torn, d1, d2, x1, x2, x3

OneBlob == [p \in Pointers |-> b1]
NamedContents == [b \in Blobs |-> right]
RottenContents == [b \in Blobs |-> rotten]
Lengths == [c \in Contents |-> IF c = torn THEN 0 ELSE 1]

\* A second name of the copy, or a second process at work, but not both; the
\* downloads are of the first pointer, and one temporary link at most is left.
SmallRuns ==
  /\ Cardinality(crashed) < 2
  /\ p2 \notin {hub.name, chunked.name}
  /\ Exists(p2) => Cardinality({d \in Processes : pc[d] # "idle"}) < 2

\* What a file held that nobody can reach any more.
Reachable == <<ino, [x \in Inodes |-> IF x \in Free THEN torn ELSE data[x]],
               pc, work, crashed, downloads>>
Alike == Permutations(Inodes) \cup Permutations(Processes)
=============================================================================
