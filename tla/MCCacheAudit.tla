---------------------------- MODULE MCCacheAudit ----------------------------
(* One file in LFS, which changes and shrinks as the revision moves, and    *)
(* one that does not change.                                                *)
EXTENDS CacheAudit, TLC

CONSTANTS model, config, old, new, text

MCFiles == {model, config}
MCCommits == 1 .. 2
MCDigestOf == [f \in RepoFiles |-> IF f = config THEN <<text, text>> ELSE <<old, new>>]
MCSizeOf == [d \in Digests |-> IF d = new THEN 1 ELSE 2]

\* One chunked download, a foreign one of what is new and one damaged copy at
\* a time, and those only before a command that looks; the file that does not
\* change in one snapshot; a direct download of the other where no chunked one
\* of it has left anything; nothing is of interest once every file is judged.
OneOfEach ==
  /\ Cardinality({d \in Digests : part[d] # Missing \/ side[d] # Missing}) <= 1
  /\ \A d \in Digests :
       incomplete[d] # Missing => d = new /\ audit.command = "status"
  /\ \A c \in Commits, f \in RepoFiles :
       snap[c][f] # NoCopy /\ snap[c][f].state = "rotten" =>
         f = model /\ audit.command = "verify"
  /\ Cardinality({c \in Commits :
       snap[c][model] # NoCopy /\ snap[c][model].state = "rotten"}) <= 1
  /\ Cardinality({c \in Commits : snap[c][config] # NoCopy}) <= 1
  /\ fetch.at \in {"get", "open", "write"} /\ fetch.file = model =>
       \A d \in Digests : part[d] = Missing /\ side[d] = Missing
  /\ \E f \in RepoFiles : verdict[f] = Unjudged

\* What the rest of an audit depends on.
Relevant ==
  <<upstream, cache, fetch, audit, looked, verdict,
    IF audit.at = "sidecar" THEN had ELSE Missing>>
=============================================================================
