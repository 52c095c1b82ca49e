--------------------------- MODULE MCChunkedDownload ---------------------------
(* The constants the runs of ChunkedDownload share.                         *)
EXTENDS ChunkedDownload, TLC

CONSTANTS v1, v2

\* One version of the file, of two or four bytes.
OneVersion == {v1}
TwoBytes == v1 :> 2
FourBytes == v1 :> 4

\* A file whose contents change upstream: two connections divide the first
\* version unevenly.
TwoVersions == {v1, v2}
TwoLengths == (v1 :> 3) @@ (v2 :> 2)

\* What a session left of another version is no part of this one: its paths
\* have another etag.
OneAtATime == \A v \in Versions \ {ver} :
  part[v] = NoFile /\ side[v] = NoFile /\ tmp[v] = NoFile
=============================================================================
