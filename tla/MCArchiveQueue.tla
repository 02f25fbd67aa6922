--------------------------- MODULE MCArchiveQueue ---------------------------
(* ArchiveQueue as TLC checks it. *)
EXTENDS ArchiveQueue
=============================================================================
