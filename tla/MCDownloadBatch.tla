--------------------------- MODULE MCDownloadBatch ---------------------------
(***************************************************************************)
(* The instance of DownloadBatch that TLC checks.                          *)
(***************************************************************************)
EXTENDS DownloadBatch

UpToThreeFiles == 0 .. 3
OneOrTwo == {1, 2}
=============================================================================
