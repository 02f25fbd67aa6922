------------------------------ MODULE Scheduler ------------------------------
(***************************************************************************)
(* The router's deployment slots: deploy/ai-router/ai_router/scheduler.py  *)
(* over the queue and the semaphore of store.py.  Every store call is one  *)
(* await, so every store call is one step and requests interleave between  *)
(* them.                                                                   *)
(*                                                                         *)
(* One admission group is modelled: one queue and one semaphore.  Its      *)
(* members are the owner tokens of the leases, one per request.            *)
(***************************************************************************)
EXTENDS RouterRequests, Integers, FiniteSets, SequencesExt

CONSTANT Capacity \* group_capacity, at least one

ASSUME CapacityAssumption == Capacity \in Nat \ {0}

VARIABLES
  queue,   \* router:queue:deployment, in score order
  slots,   \* router:deployment-capacity, the unexpired tokens
  stage,   \* where each request is in the acquisition
  overdue, \* history: leases whose slot expired before they were released
  cut      \* history: requests cancelled during their acquisition

schedulerVars == <<queue, slots, stage, overdue, cut>>

Stages == {"out", "trying", "waiting", "head", "granted", "leased"}

SchedulerTypeOK ==
  /\ queue \in Seq(Requests)
  /\ slots \subseteq Requests
  /\ stage \in [Requests -> Stages]
  /\ overdue \subseteq Requests
  /\ cut \subseteq Requests

SchedulerInit ==
  /\ queue = << >>
  /\ slots = {}
  /\ stage = [r \in Requests |-> "out"]
  /\ overdue = {}
  /\ cut = {}

To(r, s) == stage' = [stage EXCEPT ![r] = s]

\* The lease names a slot exactly when the acquisition has returned.
Leased(r) == stage[r] = "leased"

\* store.dequeue: the member leaves, wherever it stands.  A sorted set holds a
\* member once.
Without(q, r) == RemoveFirst(q, r)

HasRoom_OneMore(r) == r \in slots \/ Cardinality(slots) <= Capacity

\* store.acquire_semaphore: a member renews, a newcomer needs a free place.
HasRoom(r) == r \in slots \/ Cardinality(slots) < Capacity

\* store.release_semaphore, called with the lease's own token and only when
\* the lease names a slot.
Freed(r) == IF Leased(r) THEN {r} ELSE {}

\* Lease.release_deployment and Lease.release (no lease takes a conversation
\* lock: the pipeline calls begin_request(None)).
ReleaseDeployment(r) ==
  /\ slots' = slots \ Freed(r)
  /\ overdue' = overdue \ {r}
  /\ To(r, "out")
  /\ UNCHANGED <<queue, cut>>

-----------------------------------------------------------------------------
(* try_acquire_deployment_candidates: no wait. *)

\* The head of the queue is read; a queue with anybody in it refuses.
TryLook(r) ==
  /\ stage[r] = "out"
  /\ To(r, IF queue = << >> THEN "trying" ELSE "out")
  /\ UNCHANGED <<queue, slots, overdue, cut>>

TryTake(r) ==
  /\ stage[r] = "trying"
  /\ IF HasRoom(r)
     THEN slots' = slots \cup {r} /\ To(r, "leased")
     ELSE UNCHANGED slots /\ To(r, "out")
  /\ UNCHANGED <<queue, overdue, cut>>

-----------------------------------------------------------------------------
(* acquire_deployment_candidates: wait in line, up to a deadline. *)

\* A request enters at the end; one with affinity priority is dated a minute
\* back and enters ahead of whoever came in that minute.  A member that is
\* still queued is scored anew.
Enqueue(r) ==
  /\ stage[r] = "out"
  /\ LET others == Without(queue, r)
     IN  \E i \in 1 .. Len(others) + 1 : queue' = InsertAt(others, i, r)
  /\ To(r, "waiting")
  /\ UNCHANGED <<slots, overdue, cut>>

\* queue_head names this request.  When it names another, the loop sleeps and
\* looks again, which is no step.
Look(r) ==
  /\ stage[r] = "waiting"
  /\ queue # << >> /\ Head(queue) = r
  /\ To(r, "head")
  /\ UNCHANGED <<queue, slots, overdue, cut>>

Take(r) ==
  /\ stage[r] = "head"
  /\ IF HasRoom(r)
     THEN slots' = slots \cup {r} /\ To(r, "granted")
     ELSE UNCHANGED slots /\ To(r, "waiting")
  /\ UNCHANGED <<queue, overdue, cut>>

\* The winner leaves the queue; only now does the lease name the slot.
Dequeue(r) ==
  /\ stage[r] = "granted"
  /\ queue' = Without(queue, r)
  /\ To(r, "leased")
  /\ UNCHANGED <<slots, overdue, cut>>

QueueTimeout_NoDequeue(r) ==
  /\ stage[r] = "waiting"
  /\ To(r, "out")
  /\ UNCHANGED <<queue, slots, overdue, cut>>

\* The deadline passed: QueueTimeoutError, through the dequeue of the
\* exception path.
QueueTimeout(r) ==
  /\ stage[r] = "waiting"
  /\ queue' = Without(queue, r)
  /\ To(r, "out")
  /\ UNCHANGED <<slots, overdue, cut>>

\* A cancellation (or a store error) at the await the request stands at.  A
\* semaphore call that was under way may have taken effect; the dequeues of
\* the exception path may fail in their turn.  What the lease already names is
\* released by the caller.
CancelAcquire(r) ==
  /\ stage[r] \in {"trying", "waiting", "head", "granted"}
  /\ \/ UNCHANGED slots
     \/ stage[r] \in {"trying", "head"} /\ HasRoom(r) /\ slots' = slots \cup {r}
  /\ queue' \in {queue, Without(queue, r)}
  /\ To(r, "out")
  /\ cut' = cut \cup {r}
  /\ UNCHANGED overdue

-----------------------------------------------------------------------------
(* The clock of the store, and a restart of the router. *)

\* lock_ttl_seconds passed since the slot was taken and nothing renewed it.
\* The steps between taking a slot and returning from the acquisition are
\* milliseconds.
SlotExpires(r) ==
  /\ r \in slots
  /\ stage[r] \in {"leased", "out"}
  /\ slots' = slots \ {r}
  /\ overdue' = IF Leased(r) THEN overdue \cup {r} ELSE overdue
  /\ UNCHANGED <<queue, stage, cut>>

\* queue_head drops an entry older than lock_ttl_seconds + 60; nobody who is
\* still waiting has waited that long.
EntryGoesStale(r) ==
  /\ r \in Range(queue)
  /\ stage[r] \in {"out", "leased"}
  /\ queue' = Without(queue, r)
  /\ UNCHANGED <<slots, stage, overdue, cut>>

\* The process is gone; the store keeps what it holds.
SchedulerCrash ==
  /\ stage' = [r \in Requests |-> "out"]
  /\ overdue' = {}
  /\ UNCHANGED <<queue, slots, cut>>

\* cleanup_previous_instance_leases, before the first request is served.  It
\* removes the tokens of this instance; one router on the store is assumed, so
\* these are all there are.
CleanupPreviousInstanceLeases ==
  /\ queue' = << >>
  /\ slots' = {}
  /\ UNCHANGED <<stage, overdue, cut>>
=============================================================================
