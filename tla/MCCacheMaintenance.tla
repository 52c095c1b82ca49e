-------------------------- MODULE MCCacheMaintenance --------------------------
EXTENDS CacheMaintenance, TLC
CONSTANTS r1, r2, r3

Ranks == [r \in Repos |-> IF r = r1 THEN 1 ELSE IF r = r2 THEN 2 ELSE 3]

\* One command at a time, one download and one link; delete and clean-partial
\* do not look at the clock, delete not at downloads, clean-partial not at links.
OneOfEach ==
  /\ Cardinality({k \in 1 .. 3 : commands[k] # Idle}) < 2
  /\ Cardinality({r \in Repos : partial[r] # NoPartial}) < 2
  /\ Cardinality({r \in Repos : entry[r] = "link"}) < 2
  /\ delete # Idle => now = 0 /\ \A r \in Repos : partial[r].kind # "incomplete"
  /\ clean # Idle => now = 0 /\ \A r \in Repos : entry[r] # "link"

\* The histories matter only while their command runs.
Relevant ==
  <<repos, now, commands,
    IF gc = Idle THEN {} ELSE since.gc, IF clean = Idle THEN {} ELSE since.clean,
    gc # Idle /\ disturbed.gc, delete # Idle /\ disturbed.delete>>
=============================================================================
