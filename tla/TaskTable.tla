------------------------------ MODULE TaskTable ------------------------------
(***************************************************************************)
(* The task table of the agent across restarts. An engine of a task saves  *)
(* the task's record when it starts, rewrites the whole record on every    *)
(* step and when it ends (agent/app/task/task.go); the services write it   *)
(* before and after, and delete old records. After a restart a goroutine   *)
(* marks the records that are still Executing as failed                    *)
(* (init/business/business.go, repo/task.go), while the cron scheduler and *)
(* the server are already able to start tasks. Any write may fail:         *)
(* updateTask drops the error and syncTask only logs it.                   *)
(*                                                                         *)
(* Nothing keeps a task id to one engine: a snapshot can be recreated      *)
(* while it is being made. Save inserts a record that is not there.        *)
(*                                                                         *)
(* "Failed" stands for Failed and Canceled, which are written alike.       *)
(***************************************************************************)
EXTENDS Naturals

CONSTANTS
    Tasks,       \* task ids
    Engines,     \* bound: engines a task may have at once
    MaxCrashes   \* bound: crashes of the agent

ASSUME MaxCrashesAssumption == MaxCrashes \in Nat

VARIABLES
    db,       \* the status in the table, "absent" when there is no record
    byRestart,\* records carrying "1Panel restart causes failure"
    lost,     \* records whose first save or whose outcome could not be written,
              \* with no write since
    carry,    \* engines whose copy of the record carries that message
    mem,      \* where each engine of each task is, "none" when there is none
    up,       \* the agent is running
    sync,     \* syncTask of this boot has not run yet
    crashes,  \* crashes left
    hit       \* tasks that had an engine in a crash

record == <<db, byRestart, lost>>
process == <<up, sync, crashes, hit>>
vars == <<record, carry, mem, process>>

Final == {"Success", "Failed"}

\* An engine is new or reopening a record, has reopened it, was announced by its
\* service, executes, has its outcome, or is to be amended by its service.
Starting == {"new", "reopened", "announced"}
Stages == {"none", "reopening", "Executing", "amend"} \cup Starting \cup Final

\* The engines that have written the record and will write it again.
Writers == {"reopened", "announced", "Executing", "amend"} \cup Final

Idle(t) == \A e \in Engines : mem[t][e] = "none"

Init ==
    /\ db = [t \in Tasks |-> "absent"]
    /\ byRestart = {}
    /\ lost = {}
    /\ carry = {}
    /\ mem = [t \in Tasks |-> [e \in Engines |-> "none"]]
    /\ up = TRUE
    /\ sync = TRUE
    /\ crashes = MaxCrashes
    /\ hit = {}

Goto(t, e, stage) == mem' = [mem EXCEPT ![t][e] = stage]

\* Save writes the engine's whole copy of the record, its error message included.
Write(t, e, s) ==
    /\ db' = [db EXCEPT ![t] = s]
    /\ byRestart' = IF <<t, e>> \in carry' THEN byRestart \cup {t} ELSE byRestart \ {t}
    /\ lost' = lost \ {t}

WriteFails(t) ==
    /\ lost' = lost \cup {t}
    /\ UNCHANGED <<db, byRestart>>

\* updateTask: an outcome may be lost, a step only goes unrecorded.
UpdateTask(t, e, s) ==
    \/ Write(t, e, s)
    \/ s \in Final /\ WriteFails(t)
    \/ s \notin Final /\ UNCHANGED record

-----------------------------------------------------------------------------
\* NewTask writes nothing and does not look for a record (snapshot_recover.go).
NewTask(t, e) ==
    /\ up
    /\ mem[t][e] = "none"
    /\ Goto(t, e, "new")
    /\ carry' = carry \ {<<t, e>>}
    /\ UNCHANGED <<record, process>>

\* A service gives up before it executes the task.
Drop(t, e) ==
    /\ mem[t][e] = "new"
    /\ Goto(t, e, "none")
    /\ UNCHANGED <<record, carry, process>>

\* ReNewTask reads a known record, without asking for its status...
ReNewTask(t, e) ==
    /\ up
    /\ db[t] # "absent"
    /\ mem[t][e] = "none"
    /\ Goto(t, e, "reopening")
    /\ carry' = IF t \in byRestart THEN carry \cup {<<t, e>>} ELSE carry \ {<<t, e>>}
    /\ UNCHANGED <<record, process>>

\* ...and writes it back.
Reopen(t, e) ==
    /\ mem[t][e] = "reopening"
    /\ carry' = carry
    /\ Goto(t, e, "reopened")
    /\ UpdateTask(t, e, "Executing")
    /\ UNCHANGED process

\* The firewall services and the snapshot cronjob save the record themselves, so
\* that it is there before the goroutine that executes the task.
Announce(t, e) ==
    /\ mem[t][e] = "new"
    /\ carry' = carry
    /\ \/ Write(t, e, "Executing") /\ Goto(t, e, "announced")
       \/ WriteFails(t) /\ Goto(t, e, "none")
    /\ UNCHANGED process

\* Execute starts with a save, whose error makes it return; the snapshot cronjob
\* then records the failure.
Execute(t, e) ==
    /\ mem[t][e] \in Starting
    /\ carry' = carry
    /\ \/ Write(t, e, "Executing") /\ Goto(t, e, "Executing")
       \/ WriteFails(t) /\ Goto(t, e, "none")
       \/ WriteFails(t) /\ mem[t][e] = "announced" /\ Goto(t, e, "amend")
    /\ UNCHANGED process

NextStep(t, e) ==
    /\ mem[t][e] = "Executing"
    /\ carry' = carry
    /\ UpdateTask(t, e, "Executing")
    /\ UNCHANGED <<mem, process>>

Settle_FailureRestarts(t, e, s) ==
    /\ mem[t][e] = "Executing"
    /\ \/ s = "Failed" /\ Goto(t, e, "reopened") /\ carry' = carry \ {<<t, e>>}
          /\ UpdateTask(t, e, "Executing")
       \/ s = "Success" /\ Goto(t, e, s) /\ UNCHANGED <<record, carry>>
    /\ UNCHANGED process

\* The failure path sets the error message and writes once more before the end.
Settle(t, e, s) ==
    /\ mem[t][e] = "Executing"
    /\ Goto(t, e, s)
    /\ \/ s = "Failed" /\ carry' = carry \ {<<t, e>>} /\ UpdateTask(t, e, s)
       \/ s = "Success" /\ UNCHANGED <<record, carry>>
    /\ UNCHANGED process

\* The last write. The upgrade of an application whose rollback failed amends the
\* error message.
End(t, e) ==
    /\ mem[t][e] \in Final
    /\ carry' = carry
    /\ UpdateTask(t, e, mem[t][e])
    /\ \/ Goto(t, e, "none")
       \/ mem[t][e] = "Failed" /\ Goto(t, e, "amend")
    /\ UNCHANGED process

\* The service writes a failure itself: of a task that ended, or of a snapshot that
\* failed before it was executed.
Amend(t, e) ==
    /\ mem[t][e] \in {"announced", "amend"}
    /\ Goto(t, e, "none")
    /\ carry' = carry \ {<<t, e>>}
    /\ UpdateTask(t, e, "Failed")
    /\ UNCHANGED process

\* Delete, for one id or for the records of a type, and DeleteAll; no caller asks
\* for the engines.
DeleteRecords(ids) ==
    /\ up
    /\ db' = [t \in Tasks |-> IF t \in ids THEN "absent" ELSE db[t]]
    /\ byRestart' = byRestart \ ids
    /\ lost' = lost \ ids
    /\ UNCHANGED <<carry, mem, process>>

-----------------------------------------------------------------------------
Crash ==
    /\ up
    /\ crashes > 0
    /\ crashes' = crashes - 1
    /\ up' = FALSE
    /\ sync' = FALSE
    /\ hit' = hit \cup {t \in Tasks : ~ Idle(t)}
    /\ mem' = [t \in Tasks |-> [e \in Engines |-> "none"]]
    /\ carry' = {}
    /\ UNCHANGED record

Boot_WithoutSync ==
    /\ ~ up
    /\ up' = TRUE
    /\ UNCHANGED <<record, carry, mem, sync, crashes, hit>>

Boot ==
    /\ ~ up
    /\ up' = TRUE
    /\ sync' = TRUE
    /\ UNCHANGED <<record, carry, mem, crashes, hit>>

\* UpdateRunningTaskToFailed, one UPDATE statement.
Stale_Finished(t) == db[t] # "absent"
Stale(t) == db[t] = "Executing"

SyncForRestart ==
    LET stale == {t \in Tasks : Stale(t)} IN
    /\ up
    /\ sync
    /\ sync' = FALSE
    /\ \/ /\ db' = [t \in Tasks |-> IF Stale(t) THEN "Failed" ELSE db[t]]
          /\ byRestart' = byRestart \cup stale
          /\ lost' = lost \ stale
       \/ /\ lost' = lost \cup stale
          /\ UNCHANGED <<db, byRestart>>
    /\ UNCHANGED <<carry, mem, up, crashes, hit>>

Service(t, e) ==
    NewTask(t, e) \/ Drop(t, e) \/ ReNewTask(t, e) \/ Reopen(t, e) \/ Announce(t, e) \/ Amend(t, e)

Engine(t, e) ==
    Execute(t, e) \/ NextStep(t, e) \/ (\E s \in Final : Settle(t, e, s)) \/ End(t, e)

Next ==
    \/ \E t \in Tasks, e \in Engines : Service(t, e) \/ Engine(t, e)
    \/ \E ids \in SUBSET Tasks : DeleteRecords(ids)
    \/ Crash \/ Boot \/ SyncForRestart

\* Tasks end (AgentTask: Terminates), the goroutine that opened a task goes on, the
\* agent is restarted by its service manager, and syncTask is started by every boot.
Fairness ==
    /\ \A t \in Tasks, e \in Engines : /\ WF_vars(Execute(t, e))
                                       /\ WF_vars(\E s \in Final : Settle(t, e, s))
                                       /\ WF_vars(End(t, e))
                                       /\ WF_vars(Amend(t, e))
    /\ WF_vars(Boot)
    /\ WF_vars(SyncForRestart)

Spec == Init /\ [][Next]_vars /\ Fairness

-----------------------------------------------------------------------------
\* Type invariant.
TypeOK ==
    /\ db \in [Tasks -> {"absent", "Executing"} \cup Final]
    /\ byRestart \in SUBSET Tasks
    /\ lost \in SUBSET Tasks
    /\ carry \in SUBSET (Tasks \X Engines)
    /\ mem \in [Tasks -> [Engines -> Stages]]
    /\ up \in BOOLEAN
    /\ sync \in BOOLEAN
    /\ crashes \in 0..MaxCrashes
    /\ hit \in SUBSET Tasks

\* No record stays Executing for ever, whenever the agent crashes: one of its
\* engines or the synchronisation of a later boot ends it, or its outcome could not
\* be written.
NoZombie ==
    \A t \in Tasks : (db[t] = "Executing") ~> (db[t] # "Executing" \/ t \in lost)

\* Once syncTask has run after a boot, a record that says Executing has an engine
\* that has written it and will write it again, although tasks start before, during
\* and after it, several engines write one record and records are deleted under
\* them; only a save or an outcome that could not be written leaves another behind.
ExecutingIsTrue ==
    up /\ ~ sync =>
       \A t \in Tasks :
          db[t] = "Executing" => t \in lost \/ \E e \in Engines : mem[t][e] \in Writers

\* The outcome and the error message of a task that has no engine are kept through
\* any number of restarts until the record is deleted: a restart marks no task that
\* had ended (repo/task.go:113). Another engine of the same id may overwrite them.
OutcomeIsKept ==
    [][\A t \in Tasks : db[t] \in Final /\ Idle(t) =>
          \/ db'[t] = "absent"
          \/ db'[t] = db[t] /\ (t \in byRestart' <=> t \in byRestart)]_vars

\* agent/app/repo/task.go:113: "1Panel restart causes failure" is recorded for
\* tasks that a restart made fail.
FailedByRestartIsTrue == byRestart \subseteq hit
=============================================================================
