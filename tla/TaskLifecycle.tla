---------------------------- MODULE TaskLifecycle ----------------------------
(***************************************************************************)
(* What both task engines (core/app/task and agent/app/task) promise to    *)
(* the callers that hand them a list of subtasks with rollbacks:           *)
(*  - the task leaves Executing once, for good;                            *)
(*  - a subtask that completed is undone only after the task has failed or *)
(*    was cancelled, and a subtask is undone at most once;                 *)
(*  - a successful task keeps everything that completed.                   *)
(***************************************************************************)
EXTENDS Naturals, Sequences

CONSTANT Steps

VARIABLES
    status,   \* Executing, Success, Failed or Canceled
    done,     \* the subtasks that completed
    undone    \* the subtasks whose rollback ran, in order

vars == <<status, done, undone>>

Undone == {undone[i] : i \in DOMAIN undone}

Init ==
    /\ status = "Executing"
    /\ done = {}
    /\ undone = <<>>

Complete(s) ==
    /\ status = "Executing"
    /\ s \notin done \cup Undone
    /\ done' = done \cup {s}
    /\ UNCHANGED <<status, undone>>

\* The rollback of the subtask that failed itself.
UndoFailed(s) ==
    /\ status = "Executing"
    /\ s \notin done \cup Undone
    /\ undone' = Append(undone, s)
    /\ UNCHANGED <<status, done>>

Settle(final) ==
    /\ status = "Executing"
    /\ status' = final
    /\ UNCHANGED <<done, undone>>

UndoCompleted(s) ==
    /\ status \in {"Failed", "Canceled"}
    /\ s \in done \ Undone
    /\ undone' = Append(undone, s)
    /\ UNCHANGED <<status, done>>

Next ==
    \/ \E s \in Steps : Complete(s) \/ UndoFailed(s) \/ UndoCompleted(s)
    \/ \E final \in {"Success", "Failed", "Canceled"} : Settle(final)

Spec == Init /\ [][Next]_vars
=============================================================================
