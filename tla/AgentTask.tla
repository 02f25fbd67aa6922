------------------------------ MODULE AgentTask ------------------------------
(***************************************************************************)
(* The task engine of the agent, agent/app/task/task.go, with the cancel   *)
(* registry of agent/global/global.go.                                     *)
(*                                                                         *)
(* Unlike the engine of the core, it does not wait for an action that      *)
(* timed out: the action's goroutine keeps executing beside the retry, the *)
(* rollbacks and the end of the task, and then blocks for ever on its      *)
(* unbuffered channel.                                                     *)
(*                                                                         *)
(* An error is the set of causes errors.Is finds in it; {} is nil.         *)
(***************************************************************************)
EXTENDS Naturals, Sequences, FiniteSets

CONSTANTS
    N,         \* number of subtasks
    Options    \* the subtask options considered

ASSUME OptionsAssumption ==
    /\ N \in Nat
    /\ Options \subseteq [retry : Nat, rollback : BOOLEAN, ignore : BOOLEAN,
                          timeout : BOOLEAN]

VARIABLES
    opts,        \* the options of every subtask
    pc,          \* where Task.Execute and SubTask.Execute are
    step,        \* the current subtask
    attempt,     \* i in SubTask.Execute
    err,         \* the error at hand
    registered,  \* TaskCtxMap holds the task's cancel function
    loaded,      \* a stop request holds that function and has not called it yet
    tctx,        \* TaskCtx
    running,     \* actions being executed, as <<subtask, attempt>>
    abandoned,   \* actions whose attempt timed out
    stuck,       \* goroutines blocked for ever on their result channel
    rollbacks,   \* Task.Rollbacks
    pending,     \* rollbacks still to run in the failure path
    status,      \* Task.Task.Status
    saved,       \* the status in the database
    done,        \* subtasks that returned nil
    undone       \* subtasks rolled back, in order

vars == <<opts, pc, step, attempt, err, registered, loaded, tctx, running, abandoned,
          stuck, rollbacks, pending, status, saved, done, undone>>

Steps == 1..N
Causes == {"plain", "canceled", "timeout", "shutdown"}

\* updateTask ignores the error of the write.
UpdateTask(s) == saved' \in {saved, s}

\* NewTask registers a cancel function, ReNewTask of a known task does not.
Init ==
    /\ opts \in [Steps -> Options]
    /\ pc = "save"
    /\ step = 0
    /\ attempt = 0
    /\ err = {}
    /\ registered \in BOOLEAN
    /\ loaded = FALSE
    /\ tctx = "live"
    /\ running = {}
    /\ abandoned = {}
    /\ stuck = {}
    /\ rollbacks = <<>>
    /\ pending = <<>>
    /\ status = "Executing"
    /\ saved = "none"
    /\ done = {}
    /\ undone = <<>>

-----------------------------------------------------------------------------
Save ==
    /\ pc = "save"
    /\ pc' = "next"
    /\ saved' = status
    /\ UNCHANGED <<opts, step, attempt, err, registered, loaded, tctx, running, abandoned,
                   stuck, rollbacks, pending, status, done, undone>>

\* Neither the registry entry nor the log file is released.
SaveFails ==
    /\ pc = "save"
    /\ pc' = "ended"
    /\ err' = {"plain"}
    /\ UNCHANGED <<opts, step, attempt, registered, loaded, tctx, running, abandoned,
                   stuck, rollbacks, pending, status, saved, done, undone>>

NextSubTask ==
    /\ pc = "next"
    /\ step < N
    /\ step' = step + 1
    /\ pc' = "attempt"
    /\ attempt' = 0
    /\ err' = {}
    /\ UpdateTask(status)
    /\ UNCHANGED <<opts, registered, loaded, tctx, running, abandoned, stuck, rollbacks,
                   pending, status, done, undone>>

\* The task's context is not looked at: only the action may do so.
StartAttempt ==
    /\ pc = "attempt"
    /\ pc' = "running"
    /\ running' = running \cup {<<step, attempt>>}
    /\ UNCHANGED <<opts, step, attempt, err, registered, loaded, tctx, abandoned, stuck,
                   rollbacks, pending, status, saved, done, undone>>

Timeout_OrCancelled ==
    /\ pc = "running"
    /\ opts[step].timeout \/ tctx = "canceled"
    /\ pc' = "decide"
    /\ err' = IF tctx = "canceled" THEN {"canceled"} ELSE {"timeout"}
    /\ abandoned' = IF tctx = "canceled" THEN abandoned ELSE abandoned \cup {<<step, attempt>>}
    /\ UNCHANGED <<opts, step, attempt, registered, loaded, tctx, running, stuck, rollbacks,
                   pending, status, saved, done, undone>>

Timeout ==
    /\ pc = "running"
    /\ opts[step].timeout
    /\ pc' = "decide"
    /\ err' = {"timeout"}
    /\ abandoned' = abandoned \cup {<<step, attempt>>}
    /\ UNCHANGED <<opts, step, attempt, registered, loaded, tctx, running, stuck, rollbacks,
                   pending, status, saved, done, undone>>

Results == {{}, {"plain"}, {"shutdown"}} \cup (IF tctx = "canceled" THEN {{"canceled"}} ELSE {})

\* Success and ErrShutDown leave SubTask.Execute at once.
ActionReturns(result) ==
    /\ pc = "running"
    /\ running' = running \ {<<step, attempt>>}
    /\ err' = result
    /\ pc' = IF result \in {{}, {"shutdown"}} THEN "returned" ELSE "decide"
    /\ UNCHANGED <<opts, step, attempt, registered, loaded, tctx, abandoned, stuck, rollbacks,
                   pending, status, saved, done, undone>>

AbandonedReturns(action) ==
    /\ action \in running \cap abandoned
    /\ running' = running \ {action}
    /\ stuck' = stuck \cup {action}
    /\ UNCHANGED <<opts, pc, step, attempt, err, registered, loaded, tctx, abandoned, rollbacks,
                   pending, status, saved, done, undone>>

LastAttempt == attempt = opts[step].retry

RetryAttempt_SameAttempt ==
    /\ pc = "decide"
    /\ ~ LastAttempt
    /\ pc' = "attempt"
    /\ UNCHANGED <<opts, step, attempt, err, registered, loaded, tctx, running, abandoned, stuck,
                   rollbacks, pending, status, saved, done, undone>>

RetryAttempt ==
    /\ pc = "decide"
    /\ ~ LastAttempt
    /\ pc' = "attempt"
    /\ attempt' = attempt + 1
    /\ UNCHANGED <<opts, step, err, registered, loaded, tctx, running, abandoned, stuck,
                   rollbacks, pending, status, saved, done, undone>>

GiveUp ==
    /\ pc = "decide"
    /\ LastAttempt
    /\ pc' = "returned"
    /\ undone' = IF opts[step].rollback THEN Append(undone, step) ELSE undone
    /\ UNCHANGED <<opts, step, attempt, err, registered, loaded, tctx, running, abandoned, stuck,
                   rollbacks, pending, status, saved, done>>

-----------------------------------------------------------------------------
\* SubTask.Execute defers RemoveTaskCancel: the first subtask to return ends the
\* possibility to cancel the task.
RegisteredAfterReturn_Kept == registered
RegisteredAfterReturn == FALSE

Succeed ==
    /\ pc = "returned"
    /\ err = {}
    /\ pc' = "next"
    /\ registered' = RegisteredAfterReturn
    /\ done' = done \cup {step}
    /\ rollbacks' = IF opts[step].rollback THEN Append(rollbacks, step) ELSE rollbacks
    /\ UNCHANGED <<opts, step, attempt, err, loaded, tctx, running, abandoned, stuck,
                   pending, status, saved, undone>>

Ignore ==
    /\ pc = "returned"
    /\ err # {}
    /\ opts[step].ignore
    /\ pc' = "next"
    /\ registered' = RegisteredAfterReturn
    /\ err' = {}
    /\ UNCHANGED <<opts, step, attempt, loaded, tctx, running, abandoned, stuck,
                   rollbacks, pending, status, saved, done, undone>>

ToUndo_FailedStepToo == Append(rollbacks, step)
ToUndo == rollbacks

Fail ==
    /\ pc = "returned"
    /\ err # {}
    /\ ~ opts[step].ignore
    /\ pc' = "undo"
    /\ registered' = RegisteredAfterReturn
    /\ status' = IF "canceled" \in err THEN "Canceled" ELSE "Failed"
    /\ pending' = ToUndo
    /\ UNCHANGED <<opts, step, attempt, err, loaded, tctx, running, abandoned, stuck,
                   rollbacks, saved, done, undone>>

RunRollback ==
    /\ pc = "undo"
    /\ pending # <<>>
    /\ undone' = Append(undone, Head(pending))
    /\ pending' = Tail(pending)
    /\ UNCHANGED <<opts, pc, step, attempt, err, registered, loaded, tctx, running, abandoned,
                   stuck, rollbacks, status, saved, done>>

RollbacksDone ==
    /\ pc = "undo"
    /\ pending = <<>>
    /\ pc' = "finish"
    /\ UpdateTask(status)
    /\ UNCHANGED <<opts, step, attempt, err, registered, loaded, tctx, running, abandoned,
                   stuck, rollbacks, pending, status, done, undone>>

AllSubTasksDone ==
    /\ pc = "next"
    /\ step = N
    /\ pc' = "finish"
    /\ UNCHANGED <<opts, step, attempt, err, registered, loaded, tctx, running, abandoned,
                   stuck, rollbacks, pending, status, saved, done, undone>>

Finish ==
    /\ pc = "finish"
    /\ pc' = "ended"
    /\ status' = IF status = "Executing" THEN "Success" ELSE status
    /\ UpdateTask(status')
    /\ UNCHANGED <<opts, step, attempt, err, registered, loaded, tctx, running, abandoned,
                   stuck, rollbacks, pending, done, undone>>

\* A stop request (StopCompress, StopDeCompress, StopMvFile, HandleStop) reads the
\* registry under its lock; without an entry it answers TaskNotFound.
LoadTaskCancel ==
    /\ registered
    /\ loaded' = TRUE
    /\ UNCHANGED <<opts, pc, step, attempt, err, registered, tctx, running, abandoned,
                   stuck, rollbacks, pending, status, saved, done, undone>>

\* It calls the function later, without the lock: the engine may have gone on.
Cancel ==
    /\ loaded
    /\ loaded' = FALSE
    /\ tctx' = "canceled"
    /\ UNCHANGED <<opts, pc, step, attempt, err, registered, running, abandoned,
                   stuck, rollbacks, pending, status, saved, done, undone>>

\* Another engine of the same task id replaces the entry in its NewTask, or removes
\* it when one of its subtasks returns.
LoseRegistration ==
    /\ registered
    /\ registered' = FALSE
    /\ UNCHANGED <<opts, pc, step, attempt, err, loaded, tctx, running, abandoned,
                   stuck, rollbacks, pending, status, saved, done, undone>>

-----------------------------------------------------------------------------
Engine ==
    \/ Save \/ SaveFails \/ NextSubTask \/ StartAttempt \/ RetryAttempt \/ GiveUp
    \/ Succeed \/ Ignore \/ Fail \/ RunRollback \/ RollbacksDone \/ AllSubTasksDone
    \/ Finish

Next ==
    \/ Engine
    \/ Timeout
    \/ LoadTaskCancel \/ Cancel \/ LoseRegistration
    \/ \E result \in Results : ActionReturns(result)
    \/ \E action \in running : AbandonedReturns(action)

\* The engine is a goroutine and its timers fire. Only an action without a
\* timeout has to return: one with a timeout may hang.
Fairness ==
    /\ WF_vars(Engine)
    /\ WF_vars(Timeout)
    /\ WF_vars(pc = "running" /\ ~ opts[step].timeout
                 /\ \E result \in Results : ActionReturns(result))

Safety == Init /\ [][Next]_vars
Spec == Safety /\ Fairness

-----------------------------------------------------------------------------
(***************************************************************************)
(* Properties                                                              *)
(***************************************************************************)

\* Type invariant.
TypeOK ==
    /\ opts \in [Steps -> Options]
    /\ pc \in {"save", "next", "attempt", "running", "decide", "returned", "undo",
               "finish", "ended"}
    /\ step \in 0..N
    /\ pc \notin {"save", "next", "finish", "ended"} => step \in Steps
    /\ attempt \in Nat
    /\ step \in Steps => attempt <= opts[step].retry
    /\ err \in SUBSET Causes
    /\ registered \in BOOLEAN
    /\ loaded \in BOOLEAN
    /\ tctx \in {"live", "canceled"}
    /\ running \in SUBSET (Steps \X Nat)
    /\ abandoned \in SUBSET (Steps \X Nat)
    /\ stuck \in SUBSET (Steps \X Nat)
    /\ rollbacks \in Seq(Steps)
    /\ pending \in Seq(Steps)
    /\ status \in {"Executing", "Success", "Failed", "Canceled"}
    /\ saved \in {"none", "Executing", "Success", "Failed", "Canceled"}
    /\ done \in SUBSET Steps
    /\ undone \in Seq(Steps)

\* An action executes beside a later attempt, a rollback or the end of the task
\* only when its own attempt timed out.
StragglersTimedOut ==
    \A a \in running : \/ a \in abandoned
                       \/ pc = "running" /\ a = <<step, attempt>>

\* A failed or cancelled task is undone completely: every completed subtask with
\* a rollback has run it when the task ends.
UndoneCompletely ==
    pc \in {"finish", "ended"} /\ status \in {"Failed", "Canceled"} =>
        \A s \in done : opts[s].rollback => \E i \in DOMAIN undone : undone[i] = s

\* What the engine guarantees although it abandons actions that time out
\* (task.go:225-320).
EngineIsConsistent ==
    /\ TypeOK
    /\ StragglersTimedOut
    /\ UndoneCompletely

\* A stop request finds the task only until its first subtask returns, whatever
\* that subtask returned (task.go:235). The cancellation itself comes later: it may
\* land in any subtask, or after the end.
StopOnlyDuringFirstSubTask ==
    [][loaded' /\ ~ loaded => step <= 1 /\ done = {}]_vars

\* Task.Execute returns even when actions with a timeout hang for ever.
Terminates == <>(pc = "ended")

Lifecycle == INSTANCE TaskLifecycle

\* The engine implements the common task lifecycle.
ImplementsLifecycle == Lifecycle!Spec
=============================================================================
