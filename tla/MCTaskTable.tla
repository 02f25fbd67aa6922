----------------------------- MODULE MCTaskTable -----------------------------
(* TaskTable as TLC checks it. *)
EXTENDS TaskTable
=============================================================================
