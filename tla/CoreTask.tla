------------------------------ MODULE CoreTask ------------------------------
(***************************************************************************)
(* The task engine of the core service, core/app/task/task.go: Task.Execute*)
(* runs subtasks one after the other; SubTask.Execute retries one action   *)
(* and runs its rollback; executeAttempt runs the action in a goroutine    *)
(* under a context derived from the task's.                                *)
(*                                                                         *)
(* An error is the set of causes errors.Is finds in it, {} being nil, and  *)
(* errors.Join is union. The state of a context is "live" or the cause of  *)
(* its end.                                                                *)
(***************************************************************************)
EXTENDS Naturals, Sequences, FiniteSets

CONSTANTS
    N,             \* number of subtasks
    Options        \* the subtask options considered

ASSUME OptionsAssumption ==
    /\ N \in Nat
    /\ Options \subseteq [retry : Nat, rollback : BOOLEAN, ignore : BOOLEAN,
                          timeout : BOOLEAN, shouldRetry : BOOLEAN, valid : BOOLEAN]

VARIABLES
    opts,        \* the options of every subtask
    cwt,         \* CancelWhenTimeout
    pc,          \* where Task.Execute and SubTask.Execute are
    step,        \* the current subtask
    attempt,     \* i in SubTask.Execute
    attempted,   \* an attempt was started
    err,         \* the error at hand
    ctx,         \* the task's context
    actx,        \* the attempt's context
    running,     \* actions being executed, as <<subtask, attempt>>
    rollbacks,   \* Task.Rollbacks
    pending,     \* rollbacks still to run in the failure path
    status,      \* Task.Task.Status
    saved,       \* the status in the database
    done,        \* subtasks that returned nil
    undone,      \* subtasks rolled back, in order
    swallowed    \* causes dropped by IgnoreErr

vars == <<opts, cwt, pc, step, attempt, attempted, err, ctx, actx, running,
          rollbacks, pending, status, saved, done, undone, swallowed>>

Steps == 1..N
Causes == {"plain", "canceled", "deadline", "unconfirmed"}
Ended == {"canceled", "deadline"}

\* ctx.Err()
ErrOf(c) == IF c = "live" THEN {} ELSE {c}

\* updateTask ignores the error of the write.
UpdateTask(s) == saved' \in {saved, s}

Init ==
    /\ opts \in [Steps -> Options]
    /\ cwt \in BOOLEAN
    /\ pc = "save"
    /\ step = 0
    /\ attempt = 0
    /\ attempted = FALSE
    /\ err = {}
    /\ ctx = "live"
    /\ actx = "live"
    /\ running = {}
    /\ rollbacks = <<>>
    /\ pending = <<>>
    /\ status = "Executing"
    /\ saved = "none"
    /\ done = {}
    /\ undone = <<>>
    /\ swallowed = {}

-----------------------------------------------------------------------------
(* Task.Execute, up to the call of SubTask.Execute *)

Save ==
    /\ pc = "save"
    /\ pc' = "next"
    /\ saved' = status
    /\ UNCHANGED <<opts, cwt, step, attempt, attempted, err, ctx, actx, running,
                   rollbacks, pending, status, done, undone, swallowed>>

SaveFails ==
    /\ pc = "save"
    /\ pc' = "ended"
    /\ err' = {"plain"}
    /\ UNCHANGED <<opts, cwt, step, attempt, attempted, ctx, actx, running,
                   rollbacks, pending, status, saved, done, undone, swallowed>>

NextSubTask ==
    /\ pc = "next"
    /\ step < N
    /\ step' = step + 1
    /\ pc' = "attempt"
    /\ attempt' = 0
    /\ attempted' = FALSE
    /\ err' = {}
    /\ UpdateTask(status)
    /\ UNCHANGED <<opts, cwt, ctx, actx, running, rollbacks, pending, status,
                   done, undone, swallowed>>

-----------------------------------------------------------------------------
(* SubTask.Execute and executeAttempt *)

\* A negative timeout or retry count, or no action.
InvalidOptions ==
    /\ pc = "attempt"
    /\ ~ opts[step].valid
    /\ pc' = "failed"
    /\ err' = {"plain"}
    /\ UNCHANGED <<opts, cwt, step, attempt, attempted, ctx, actx, running,
                   rollbacks, pending, status, saved, done, undone, swallowed>>

StartAttempt ==
    /\ pc = "attempt"
    /\ opts[step].valid
    /\ ctx = "live"
    /\ pc' = "running"
    /\ attempted' = TRUE
    /\ actx' = "live"
    /\ running' = running \cup {<<step, attempt>>}
    /\ UNCHANGED <<opts, cwt, step, attempt, err, ctx, rollbacks, pending, status,
                   saved, done, undone, swallowed>>

RefuseAttempt ==
    /\ pc = "attempt"
    /\ opts[step].valid
    /\ ctx # "live"
    /\ pc' = "leave"
    /\ err' = ErrOf(ctx)
    /\ UNCHANGED <<opts, cwt, step, attempt, attempted, ctx, actx, running,
                   rollbacks, pending, status, saved, done, undone, swallowed>>

\* The attempt times out. The engine keeps waiting for the action.
Deadline_Abandons ==
    /\ pc = "running"
    /\ opts[step].timeout
    /\ actx = "live"
    /\ actx' = "deadline"
    /\ err' = {"deadline"}
    /\ pc' = "decide"
    /\ UNCHANGED <<opts, cwt, step, attempt, attempted, ctx, running,
                   rollbacks, pending, status, saved, done, undone, swallowed>>

Deadline ==
    /\ pc = "running"
    /\ opts[step].timeout
    /\ actx = "live"
    /\ actx' = "deadline"
    /\ UNCHANGED <<opts, cwt, pc, step, attempt, attempted, err, ctx, running,
                   rollbacks, pending, status, saved, done, undone, swallowed>>

\* The owner of the task's context ends it, at any time.
EndContext(cause) ==
    /\ ctx = "live"
    /\ pc # "ended"
    /\ ctx' = cause
    /\ actx' = IF pc = "running" /\ actx = "live" THEN cause ELSE actx
    /\ UNCHANGED <<opts, cwt, pc, step, attempt, attempted, err, running,
                   rollbacks, pending, status, saved, done, undone, swallowed>>

\* What the action may return: success, an error of its own, an execution whose
\* termination it cannot confirm, or the end of the context it was given.
Results == {{}, {"plain"}, {"unconfirmed"}, ErrOf(actx)}

\* The end of the context is an error even when the action succeeded.
AttemptError_OfActionOnly(result) == result
AttemptError(result) == result \cup ErrOf(actx)

ActionReturns(result) ==
    /\ pc = "running"
    /\ running' = running \ {<<step, attempt>>}
    /\ err' = AttemptError(result)
    /\ pc' = "decide"
    /\ UNCHANGED <<opts, cwt, step, attempt, attempted, ctx, actx, rollbacks,
                   pending, status, saved, done, undone, swallowed>>

Succeed ==
    /\ pc = "decide"
    /\ err = {}
    /\ pc' = "next"
    /\ done' = done \cup {step}
    /\ rollbacks' = IF opts[step].rollback THEN Append(rollbacks, step) ELSE rollbacks
    /\ UNCHANGED <<opts, cwt, step, attempt, attempted, err, ctx, actx, running,
                   pending, status, saved, undone, swallowed>>

\* canRetry, up to the answer of ShouldRetry.
MayRetry ==
    /\ ctx = "live"
    /\ err \cap {"canceled", "unconfirmed"} = {}
    /\ "deadline" \in err => ~ cwt /\ opts[step].shouldRetry

Retry ==
    /\ pc = "decide"
    /\ err # {}
    /\ attempt < opts[step].retry
    /\ MayRetry
    /\ pc' = "backoff"
    /\ UNCHANGED <<opts, cwt, step, attempt, attempted, err, ctx, actx, running,
                   rollbacks, pending, status, saved, done, undone, swallowed>>

BackoffElapses_SameAttempt ==
    /\ pc = "backoff"
    /\ pc' = "attempt"
    /\ UNCHANGED <<opts, cwt, step, attempt, attempted, err, ctx, actx, running, rollbacks,
                   pending, status, saved, done, undone, swallowed>>

BackoffElapses ==
    /\ pc = "backoff"
    /\ pc' = "attempt"
    /\ attempt' = attempt + 1
    /\ UNCHANGED <<opts, cwt, step, attempted, err, ctx, actx, running, rollbacks,
                   pending, status, saved, done, undone, swallowed>>

BackoffCancelled ==
    /\ pc = "backoff"
    /\ ctx # "live"
    /\ pc' = "leave"
    /\ err' = ErrOf(ctx)
    /\ UNCHANGED <<opts, cwt, step, attempt, attempted, ctx, actx, running,
                   rollbacks, pending, status, saved, done, undone, swallowed>>

GiveUp ==
    /\ pc = "decide"
    /\ err # {}
    /\ attempt = opts[step].retry \/ ~ MayRetry \/ opts[step].shouldRetry
    /\ pc' = "leave"
    /\ UNCHANGED <<opts, cwt, step, attempt, attempted, err, ctx, actx, running,
                   rollbacks, pending, status, saved, done, undone, swallowed>>

\* The error the subtask returns.
SubTaskError == err \cup ErrOf(ctx)

RollsBack ==
    attempted /\ opts[step].rollback /\ "unconfirmed" \notin SubTaskError

Leave ==
    /\ pc = "leave"
    /\ pc' = "failed"
    /\ err' = SubTaskError
    /\ undone' = IF RollsBack THEN Append(undone, step) ELSE undone
    /\ UNCHANGED <<opts, cwt, step, attempt, attempted, ctx, actx, running,
                   rollbacks, pending, status, saved, done, swallowed>>

-----------------------------------------------------------------------------
(* Task.Execute, after SubTask.Execute returned an error *)

Ignorable ==
    opts[step].ignore /\ err \cap {"canceled", "deadline", "unconfirmed"} = {}

Ignore ==
    /\ pc = "failed"
    /\ Ignorable
    /\ pc' = "next"
    /\ swallowed' = swallowed \cup err
    /\ err' = {}
    /\ UNCHANGED <<opts, cwt, step, attempt, attempted, ctx, actx, running,
                   rollbacks, pending, status, saved, done, undone>>

FinalStatus ==
    IF "canceled" \in err /\ "unconfirmed" \notin err THEN "Canceled" ELSE "Failed"

\* No rollback while an action may still be executing somewhere.
ToUndo_Everything == rollbacks
ToUndo_NotWhenCancelled ==
    IF err \cap {"canceled", "unconfirmed"} # {} THEN <<>> ELSE rollbacks
ToUndo_FailedStepToo == IF "unconfirmed" \in err THEN <<>> ELSE Append(rollbacks, step)
ToUndo == IF "unconfirmed" \in err THEN <<>> ELSE rollbacks

Fail ==
    /\ pc = "failed"
    /\ ~ Ignorable
    /\ pc' = "undo"
    /\ status' = FinalStatus
    /\ pending' = ToUndo
    /\ UNCHANGED <<opts, cwt, step, attempt, attempted, err, ctx, actx, running,
                   rollbacks, saved, done, undone, swallowed>>

RunRollback ==
    /\ pc = "undo"
    /\ pending # <<>>
    /\ undone' = Append(undone, Head(pending))
    /\ pending' = Tail(pending)
    /\ UNCHANGED <<opts, cwt, pc, step, attempt, attempted, err, ctx, actx, running,
                   rollbacks, status, saved, done, swallowed>>

RollbacksDone ==
    /\ pc = "undo"
    /\ pending = <<>>
    /\ pc' = "finish"
    /\ UpdateTask(status)
    /\ UNCHANGED <<opts, cwt, step, attempt, attempted, err, ctx, actx, running,
                   rollbacks, pending, status, done, undone, swallowed>>

AllSubTasksDone ==
    /\ pc = "next"
    /\ step = N
    /\ pc' = "finish"
    /\ UNCHANGED <<opts, cwt, step, attempt, attempted, err, ctx, actx, running,
                   rollbacks, pending, status, saved, done, undone, swallowed>>

Finish_SavesSuccess ==
    /\ pc = "finish"
    /\ pc' = "ended"
    /\ status' = IF status = "Executing" THEN "Success" ELSE status
    /\ UpdateTask("Success")
    /\ UNCHANGED <<opts, cwt, step, attempt, attempted, err, ctx, actx, running,
                   rollbacks, pending, done, undone, swallowed>>

Finish ==
    /\ pc = "finish"
    /\ pc' = "ended"
    /\ status' = IF status = "Executing" THEN "Success" ELSE status
    /\ UpdateTask(status')
    /\ UNCHANGED <<opts, cwt, step, attempt, attempted, err, ctx, actx, running,
                   rollbacks, pending, done, undone, swallowed>>

-----------------------------------------------------------------------------
Engine ==
    \/ Save \/ SaveFails \/ NextSubTask \/ InvalidOptions \/ StartAttempt
    \/ RefuseAttempt \/ Succeed \/ Retry \/ BackoffElapses \/ BackoffCancelled \/ GiveUp \/ Leave
    \/ Ignore \/ Fail \/ RunRollback \/ RollbacksDone \/ AllSubTasksDone \/ Finish

Next ==
    \/ Engine
    \/ Deadline
    \/ \E cause \in Ended : EndContext(cause)
    \/ \E result \in Results : ActionReturns(result)

\* The engine is a goroutine that is never blocked but by its action; an action
\* is assumed to return, as the engine waits for it without limit.
Fairness ==
    /\ WF_vars(Engine)
    /\ WF_vars(\E result \in Results : ActionReturns(result))

Safety == Init /\ [][Next]_vars
Spec == Safety /\ Fairness

-----------------------------------------------------------------------------
(***************************************************************************)
(* Properties                                                              *)
(***************************************************************************)

\* What Task.Execute and SubTask.Execute have at hand.
ControlType ==
    /\ opts \in [Steps -> Options]
    /\ cwt \in BOOLEAN
    /\ pc \in {"save", "next", "attempt", "running", "decide", "backoff", "leave",
               "failed", "undo", "finish", "ended"}
    /\ step \in 0..N
    /\ pc \notin {"save", "next", "finish", "ended"} => step \in Steps
    /\ attempt \in Nat
    /\ attempted \in BOOLEAN
    /\ err \in SUBSET Causes
    /\ ctx \in {"live"} \cup Ended
    /\ actx \in {"live"} \cup Ended

\* What they have done so far.
EffectType ==
    /\ running \in SUBSET (Steps \X Nat)
    /\ rollbacks \in Seq(Steps)
    /\ pending \in Seq(Steps)
    /\ status \in {"Executing", "Success", "Failed", "Canceled"}
    /\ saved \in {"none", "Executing", "Success", "Failed", "Canceled"}
    /\ done \in SUBSET Steps
    /\ undone \in Seq(Steps)
    /\ swallowed \in SUBSET Causes

\* Type invariant.
TypeOK == ControlType /\ EffectType

\* The only action that is ever executing is the one of the current attempt, and
\* only while the engine waits for it: an action never overlaps with its retry,
\* with a rollback, or with the end of the task, even when it timed out.
NoOverlap ==
    running = IF pc = "running" THEN {<<step, attempt>>} ELSE {}

\* When an execution cannot be confirmed to have ended, nothing that completed
\* is undone underneath it, and the task is reported Failed, not Canceled.
UnconfirmedFreezes ==
    pc \in {"finish", "ended"} /\ "unconfirmed" \in err =>
        /\ status = "Failed"
        /\ \A i \in DOMAIN undone : undone[i] \notin done

\* A failed or cancelled task that may be undone is undone completely: every
\* completed subtask with a rollback has run it when the task ends.
UndoneCompletely ==
    pc \in {"finish", "ended"} /\ status \in {"Failed", "Canceled"} /\ "unconfirmed" \notin err =>
        \A s \in done : opts[s].rollback => \E i \in DOMAIN undone : undone[i] = s

\* IgnoreErr hides only ordinary errors: success never hides a cancellation, a
\* timeout or an unconfirmed execution.
NothingSeriousSwallowed == swallowed \subseteq {"plain"}

\* Once the context ends while a subtask is being executed or retried, the task
\* cannot be reported as successful. A subtask with invalid options is rejected
\* before its context is looked at, and IgnoreErr may hide that.
CancelIsHonoured ==
    [](ctx # "live" /\ pc \in {"attempt", "running", "backoff"} /\ opts[step].valid =>
          [](status # "Success"))

\* Task.Execute returns.
Terminates == <>(pc = "ended")

\* The persisted status may lag behind, but it never contradicts the task.
SavedIsTrue == saved \in {"Success", "Failed", "Canceled"} => saved = status

Lifecycle == INSTANCE TaskLifecycle

\* The engine implements the common task lifecycle.
ImplementsLifecycle == Lifecycle!Spec
=============================================================================
