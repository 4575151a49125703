-------------------------- MODULE MCDownloadQueue --------------------------
(* Small instances of DownloadQueue for TLC. *)
EXTENDS DownloadQueue

CONSTANTS r1, r2
=============================================================================
