----------------------------- MODULE RouterLeases -----------------------------
(***************************************************************************)
(* A request's way through the router's shared resources (api.py): a slot  *)
(* of the deployment, a reservation in the cloud ledger, the upstream      *)
(* call, and giving both back on its ways out: answered, streamed,         *)
(* recovered from an empty answer, failed and retried, rejected,           *)
(* cancelled, or cut off by a crash of the router.  Scheduler and          *)
(* CloudBudget are the two resources.                                      *)
(***************************************************************************)
EXTENDS Scheduler, CloudBudget

CONSTANTS Attempts,  \* attempts of a request, the first included
          MaxCrashes \* bound: crashes of the router

ASSUME BoundsAssumption == Attempts \in Nat \ {0} /\ MaxCrashes \in Nat

VARIABLES
  pc,      \* where each request is in the pipeline
  attempt, \* attempts begun
  up,      \* the router is running
  crashes  \* crashes so far

pipelineVars == <<pc, attempt, up, crashes>>
vars == <<schedulerVars, budgetVars, pipelineVars>>

Stops == {"idle", "acquire", "reserve", "call", "giveback", "reject", "retract", "settle",
          "leave", "done"}

TypeOK ==
  /\ SchedulerTypeOK
  /\ BudgetTypeOK
  /\ pc \in [Requests -> Stops]
  /\ attempt \in [Requests -> 0 .. Attempts]
  /\ up \in BOOLEAN
  /\ crashes \in 0 .. MaxCrashes

Init ==
  /\ SchedulerInit
  /\ BudgetInit
  /\ pc = [r \in Requests |-> "idle"]
  /\ attempt = [r \in Requests |-> 0]
  /\ up = TRUE
  /\ crashes = 0

At(r, s) == up /\ pc[r] = s
Goto(r, s) == pc' = [pc EXCEPT ![r] = s] /\ UNCHANGED <<attempt, up, crashes>>
Stay == UNCHANGED pipelineVars

\* A new attempt asks for a slot, waiting for it or not.  An acquisition first
\* releases what the lease still names, which is nothing here: the pipeline
\* released it on its way to a new attempt.
Attempt(r) ==
  /\ At(r, "idle")
  /\ attempt[r] < Attempts
  /\ attempt' = [attempt EXCEPT ![r] = @ + 1]
  /\ TryLook(r) \/ Enqueue(r)
  /\ pc' = [pc EXCEPT ![r] = IF stage'[r] = "out" THEN "leave" ELSE "acquire"]
  /\ UNCHANGED <<up, crashes, budgetVars>>

\* The steps of the acquisition.  It ends with a leased slot, or with
\* CapacityBusyError, which ends the request.
Acquire(r) ==
  /\ At(r, "acquire")
  /\ TryTake(r) \/ Look(r) \/ Take(r) \/ Dequeue(r) \/ QueueTimeout(r)
  /\ IF stage'[r] = "out" THEN Goto(r, "leave") ELSE Stay
  /\ UNCHANGED budgetVars

\* The slot is there: the estimate is reserved.
Reserve(r) ==
  /\ At(r, "acquire")
  /\ Leased(r)
  /\ BeginBudget(r, "reserve")
  /\ Goto(r, "reserve")
  /\ UNCHANGED schedulerVars

\* The steps of reserve, settle and release.
BudgetStep(r) ==
  /\ up
  /\ AcquireLock(r) \/ LedgerBusy(r) \/ ReadLedger(r) \/ WriteLedger(r) \/ ReleaseLock(r)
  /\ Stay
  /\ UNCHANGED schedulerVars

\* reserve returned: the upstream call begins.
Call(r) ==
  /\ At(r, "reserve")
  /\ ok[r]
  /\ EndBudget(r)
  /\ Goto(r, "call")
  /\ UNCHANGED schedulerVars

\* reserve raised (402, 503 or a cancellation): the slot is given back.
NotReserved(r) ==
  /\ At(r, "reserve")
  /\ ~ok[r]
  /\ EndBudget(r)
  /\ ReleaseDeployment(r)
  /\ Goto(r, "leave")

\* A whole answer: close_and_settle frees the slot, then settles.  A stream
\* that is read to its end does the same: finalize_stream releases the
\* deployment, and the finalizer settles afterwards.
Answered(r) ==
  /\ At(r, "call")
  /\ ReleaseDeployment(r)
  /\ BeginBudget(r, "settle")
  /\ Goto(r, "settle")

\* A stream was abandoned before it released the deployment: its finalizer
\* settles first and releases the lease afterwards, whether the settlement
\* worked or not.  A finalizer that failed may be called again; that is left
\* to BudgetSpec, which lets a request settle any number of times.
Streamed(r) ==
  /\ At(r, "call")
  /\ BeginBudget(r, "settle")
  /\ Goto(r, "settle")
  /\ UNCHANGED schedulerVars

\* The call failed: the reservation is given back.
CallFails(r) ==
  /\ At(r, "call")
  /\ BeginBudget(r, "release")
  /\ Goto(r, "giveback")
  /\ UNCHANGED schedulerVars

\* Given back: the slot too, and the request tries again or gives up.
Retry(r) ==
  /\ At(r, "giveback")
  /\ ok[r]
  /\ EndBudget(r)
  /\ ReleaseDeployment(r)
  /\ Goto(r, IF attempt[r] < Attempts THEN "idle" ELSE "leave")

\* A status of 400 or more that is not retried: the slot goes back first, the
\* reservation after it.
Rejected(r) ==
  /\ At(r, "call")
  /\ ReleaseDeployment(r)
  /\ BeginBudget(r, "release")
  /\ Goto(r, "reject")

\* except Exception: the reservation is released, and the error goes on.  What
\* raised is the handling of the answer, or a release under way (which a
\* cancellation ends as well, without coming here).
Raised(r) ==
  /\ \/ At(r, "call")
     \/ (At(r, "giveback") \/ At(r, "reject")) /\ ~ok[r]
  /\ BeginBudget(r, "release")
  /\ Goto(r, "retract")
  /\ UNCHANGED schedulerVars

\* The answer was empty: paid for, its slot already back, and the request tries
\* another target under the same id.
Recover(r) ==
  /\ At(r, "settle")
  /\ ok[r]
  /\ ~Leased(r)
  /\ attempt[r] < Attempts
  /\ EndBudget(r)
  /\ Goto(r, "idle")
  /\ UNCHANGED schedulerVars

\* A release raised out of an exception handler or was cancelled, the rejection
\* is answered, or the settlement ended.
Finish(r) ==
  /\ \/ At(r, "giveback") /\ ~ok[r]
     \/ At(r, "reject") \/ At(r, "retract") \/ At(r, "settle")
  /\ EndBudget(r)
  /\ Goto(r, "leave")
  /\ UNCHANGED schedulerVars

\* finally: lease.release.
Leave(r) ==
  /\ At(r, "leave")
  /\ ReleaseDeployment(r)
  /\ Goto(r, "done")
  /\ UNCHANGED budgetVars

\* The client went away while the request waited at an await.  A settlement
\* is shielded; a call that is cancelled before its answer leaves its
\* reservation to the two-hour rule.
Cancel(r) ==
  \/ /\ At(r, "acquire")
     /\ \/ CancelAcquire(r)
        \/ Leased(r) /\ UNCHANGED schedulerVars
     /\ Goto(r, "leave")
     /\ UNCHANGED budgetVars
  \/ /\ \E s \in {"reserve", "giveback", "reject", "retract"} : At(r, s)
     /\ CancelBudget(r)
     /\ Stay
     /\ UNCHANGED schedulerVars
  \/ /\ At(r, "call")
     /\ Goto(r, "leave")
     /\ UNCHANGED <<schedulerVars, budgetVars>>

Crash ==
  /\ up
  /\ crashes < MaxCrashes
  /\ crashes' = crashes + 1
  /\ up' = FALSE
  /\ pc' = [r \in Requests |-> IF attempt[r] = 0 THEN "idle" ELSE "done"]
  /\ UNCHANGED attempt
  /\ SchedulerCrash
  /\ BudgetCrash

Boot ==
  /\ ~up
  /\ up' = TRUE
  /\ CleanupPreviousInstanceLeases
  /\ UNCHANGED <<pc, attempt, crashes, budgetVars>>

\* Time passes in the store.
Clock ==
  \/ /\ \E r \in Requests : SlotExpires(r) \/ EntryGoesStale(r)
     /\ UNCHANGED <<budgetVars, pipelineVars>>
  \/ /\ LockExpires \/ \E r \in Requests : ReservationAges(r)
     /\ UNCHANGED <<schedulerVars, pipelineVars>>

RequestStep(r) ==
  \/ Attempt(r) \/ Acquire(r) \/ Reserve(r) \/ BudgetStep(r) \/ Call(r)
  \/ NotReserved(r) \/ Answered(r) \/ Streamed(r) \/ CallFails(r) \/ Retry(r)
  \/ Rejected(r) \/ Raised(r) \/ Recover(r) \/ Finish(r) \/ Leave(r)

Next ==
  \/ \E r \in Requests : RequestStep(r) \/ Cancel(r)
  \/ Crash
  \/ Boot
  \/ Clock

Spec == Init /\ [][Next]_vars

-----------------------------------------------------------------------------
(* Properties. *)

Calling(r) == pc[r] \in {"call", "giveback"} \/ (pc[r] \in {"settle", "retract"} /\ Leased(r))

\* The deployment never serves more than its capacity, but for calls that
\* lasted longer than their slot (README.md of ai-router: one stream at a
\* time): scheduler.py releases only what a lease names, and only its own.
CapacityHonoured ==
  Cardinality({r \in Requests : Calling(r)} \ overdue) <= Capacity

\* Whatever way a request ends, it leaves neither a slot nor a queue entry
\* behind that keeps others waiting.  The exception is a request cancelled in
\* the middle of its acquisition, when the lease names nothing yet: what it
\* holds then waits for its expiry.
NothingLeftBehind ==
  up => \A r \in Requests \ cut :
          /\ r \in slots => stage[r] \in {"granted", "leased"}
          /\ r \in Range(queue) => stage[r] \in {"waiting", "head", "granted"}

\* The slots and the queue agree with what the requests are doing.
LeasesAreConsistent ==
    /\ TypeOK
    /\ NothingLeftBehind

\* A request that is upstream is in the ledger, reserved or already charged
\* by the two-hour rule, so that no other reservation can use its money.  A
\* charge of an earlier attempt covers nothing: only a reservation that has
\* grown old since this attempt made it is charged by that rule.
CallsAreCovered ==
  ~outlived =>
    \A r \in Requests :
      pc[r] = "call" =>
        r \in ledger.reservations \/ (r \in aged /\ ledger.bills[r] > 0)
=============================================================================
