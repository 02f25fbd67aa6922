----------------------------- MODULE CloudBudget -----------------------------
(***************************************************************************)
(* The monthly cloud ledger: deploy/ai-router/ai_router/budget.py.  Each   *)
(* change of the ledger takes a lock that expires after five seconds,      *)
(* reads the ledger, computes the new one, writes it back unconditionally  *)
(* and releases the lock if it is still its own.                           *)
(***************************************************************************)
EXTENDS RouterRequests, Integers, FiniteSets

CONSTANTS Budget,   \* monthly_budget
          Amount,   \* what a request is estimated to cost, reserved up front
          Charges,  \* what the measured usage of a call may cost
          NoOne     \* the lock is free

ASSUME BudgetAssumption ==
  /\ Budget \in Nat \ {0}
  /\ Amount \in Nat
  /\ Charges \subseteq Nat
  /\ NoOne \notin Requests

VARIABLES
  ledger,   \* router:cloud-budget:<month>
  aged,     \* requests whose reservation is more than two hours old
  lock,     \* router:cloud-budget:<month>:lock
  at,       \* where each request is in reserve or _finish
  op,       \* which of them it is in
  view,     \* the ledger it will write
  ok,       \* whether its last operation succeeded
  taken,    \* history: reservations written for each request
  outlived  \* history: some operation outlived its five-second lock

budgetVars == <<ledger, aged, lock, at, op, view, ok, taken, outlived>>

Points == {"away", "lock", "read", "write", "unlock"}
Operations == {"reserve", "settle", "release"}

\* spent is spent_usd.  bills counts the charges of each request and overrun
\* what measured charges added to their estimates; the code keeps neither.
Ledgers == [reservations : SUBSET Requests, spent : Nat,
            bills : [Requests -> Nat], overrun : Nat]

NewLedger == [reservations |-> {}, spent |-> 0,
              bills |-> [r \in Requests |-> 0], overrun |-> 0]

BudgetTypeOK ==
  /\ ledger \in Ledgers
  /\ aged \subseteq Requests
  /\ lock \in Requests \cup {NoOne}
  /\ at \in [Requests -> Points]
  /\ op \in [Requests -> Operations]
  /\ view \in [Requests -> Ledgers]
  /\ ok \in [Requests -> BOOLEAN]
  /\ taken \in [Requests -> Nat]
  /\ outlived \in BOOLEAN

BudgetInit ==
  /\ ledger = NewLedger
  /\ aged = {}
  /\ lock = NoOne
  /\ at = [r \in Requests |-> "away"]
  /\ op = [r \in Requests |-> "reserve"]
  /\ view = [r \in Requests |-> NewLedger]
  /\ ok = [r \in Requests |-> FALSE]
  /\ taken = [r \in Requests |-> 0]
  /\ outlived = FALSE

-----------------------------------------------------------------------------
(* What the operations compute. *)

Reserved(l) == Amount * Cardinality(l.reservations)

\* _commit_stale_reservations: a reservation nobody settled for two hours is
\* charged as estimated.
CommitStale(l) ==
  LET stale == l.reservations \cap aged
  IN  [reservations |-> l.reservations \ stale,
       spent |-> l.spent + Amount * Cardinality(stale),
       bills |-> [r \in Requests |-> l.bills[r] + IF r \in stale THEN 1 ELSE 0],
       overrun |-> l.overrun]

Projected_SpentOnly(l) == l.spent + Amount

\* What the month would come to with one more reservation.
Projected(l) == l.spent + Reserved(l) + Amount

\* reserve, with the projection within the budget.  A request that reserves
\* again overwrites its entry.
WithReservation(l, r) ==
  LET k == CommitStale(l)
  IN  [reservations |-> k.reservations \cup {r}, spent |-> k.spent,
       bills |-> k.bills, overrun |-> k.overrun]

Over(c) == IF c > Amount THEN c - Amount ELSE 0

Committed_Anyway(l, r, c) ==
  [reservations |-> l.reservations \ {r},
   spent |-> l.spent + c,
   bills |-> [l.bills EXCEPT ![r] = @ + 1],
   overrun |-> l.overrun + Over(c)]

\* _finish with commit: only an entry that is still there is charged.
Committed(l, r, c) ==
  IF r \in l.reservations
  THEN [reservations |-> l.reservations \ {r},
        spent |-> l.spent + c,
        bills |-> [l.bills EXCEPT ![r] = @ + 1],
        overrun |-> l.overrun + Over(c)]
  ELSE l

\* _finish without commit.
Dropped(l, r) ==
  [reservations |-> l.reservations \ {r}, spent |-> l.spent,
   bills |-> l.bills, overrun |-> l.overrun]

-----------------------------------------------------------------------------
(* reserve and _finish, await by await. *)

BeginBudget(r, o) ==
  /\ at[r] = "away"
  /\ at' = [at EXCEPT ![r] = "lock"]
  /\ op' = [op EXCEPT ![r] = o]
  /\ ok' = [ok EXCEPT ![r] = FALSE]
  /\ UNCHANGED <<ledger, aged, lock, view, taken, outlived>>

LockFree(r) == lock = NoOne

AcquireLock(r) ==
  /\ at[r] = "lock"
  /\ LockFree(r)
  /\ lock' = r
  /\ at' = [at EXCEPT ![r] = "read"]
  /\ UNCHANGED <<ledger, aged, op, view, ok, taken, outlived>>

\* Two seconds passed: cloud_budget_busy.
LedgerBusy(r) ==
  /\ at[r] = "lock"
  /\ lock # NoOne
  /\ at' = [at EXCEPT ![r] = "away"]
  /\ UNCHANGED <<ledger, aged, lock, op, view, ok, taken, outlived>>

\* get_json, and everything up to the next await: the reservation is refused,
\* or the ledger to write is computed.
ReadLedger(r) ==
  /\ at[r] = "read"
  /\ \/ /\ op[r] = "reserve"
        /\ Projected(CommitStale(ledger)) > Budget
        /\ at' = [at EXCEPT ![r] = "unlock"]
        /\ UNCHANGED <<view, aged>>
     \/ /\ op[r] = "reserve"
        /\ Projected(CommitStale(ledger)) <= Budget
        /\ view' = [view EXCEPT ![r] = WithReservation(ledger, r)]
        /\ aged' = aged \ {r}
        /\ at' = [at EXCEPT ![r] = "write"]
     \/ /\ op[r] = "settle"
        /\ \E c \in Charges : view' = [view EXCEPT ![r] = Committed(ledger, r, c)]
        /\ at' = [at EXCEPT ![r] = "write"]
        /\ UNCHANGED aged
     \/ /\ op[r] = "release"
        /\ view' = [view EXCEPT ![r] = Dropped(ledger, r)]
        /\ at' = [at EXCEPT ![r] = "write"]
        /\ UNCHANGED aged
  /\ UNCHANGED <<ledger, lock, op, ok, taken, outlived>>

\* set_json: the write does not ask whether the lock is still held.
Written(r) ==
  /\ ledger' = view[r]
  /\ taken' = IF op[r] = "reserve" THEN [taken EXCEPT ![r] = @ + 1] ELSE taken

\* The value read is a local of the call.
Forget(r) == view' = [view EXCEPT ![r] = NewLedger]

WriteLedger(r) ==
  /\ at[r] = "write"
  /\ Written(r)
  /\ ok' = [ok EXCEPT ![r] = TRUE]
  /\ at' = [at EXCEPT ![r] = "unlock"]
  /\ Forget(r)
  /\ UNCHANGED <<aged, lock, op, outlived>>

Unlocked_Anyones(r) == NoOne

\* store.release_lock compares the token first.
Unlocked(r) == IF lock = r THEN NoOne ELSE lock

ReleaseLock(r) ==
  /\ at[r] = "unlock"
  /\ lock' = Unlocked(r)
  /\ at' = [at EXCEPT ![r] = "away"]
  /\ UNCHANGED <<ledger, aged, op, view, ok, taken, outlived>>

\* A cancellation at the await the request stands at.  The call that was under
\* way may have taken effect; from the read on, the lock is released.
CancelBudget(r) ==
  /\ \/ /\ at[r] = "lock"
        /\ at' = [at EXCEPT ![r] = "away"]
        /\ lock' \in {lock, IF lock = NoOne THEN r ELSE lock}
        /\ UNCHANGED <<ledger, taken>>
     \/ /\ at[r] = "read"
        /\ at' = [at EXCEPT ![r] = "unlock"]
        /\ UNCHANGED <<ledger, taken, lock>>
     \/ /\ at[r] = "write"
        /\ at' = [at EXCEPT ![r] = "unlock"]
        /\ UNCHANGED lock
        /\ Written(r) \/ UNCHANGED <<ledger, taken>>
     \/ /\ at[r] = "unlock"
        /\ at' = [at EXCEPT ![r] = "away"]
        /\ lock' \in {lock, Unlocked(r)}
        /\ UNCHANGED <<ledger, taken>>
  /\ ok' = [ok EXCEPT ![r] = FALSE]
  /\ Forget(r)
  /\ UNCHANGED <<aged, op, outlived>>

\* The call returned or raised, and its frame is gone.
EndBudget(r) ==
  /\ at[r] = "away"
  /\ op' = [op EXCEPT ![r] = "reserve"]
  /\ ok' = [ok EXCEPT ![r] = FALSE]
  /\ UNCHANGED <<ledger, aged, lock, at, view, taken, outlived>>

-----------------------------------------------------------------------------
(* The clock, and a crash of the router. *)

\* Five seconds passed since the lock was taken.
LockExpires ==
  /\ lock # NoOne
  /\ lock' = NoOne
  /\ outlived' = (outlived \/ at[lock] \in {"read", "write"})
  /\ UNCHANGED <<ledger, aged, at, op, view, ok, taken>>

\* Two hours passed since the reservation was made.
ReservationAges(r) ==
  /\ r \in ledger.reservations \ aged
  /\ aged' = aged \cup {r}
  /\ UNCHANGED <<ledger, lock, at, op, view, ok, taken, outlived>>

\* The lock token names no instance: nothing but its expiry frees it.
BudgetCrash ==
  /\ at' = [r \in Requests |-> "away"]
  /\ op' = [r \in Requests |-> "reserve"]
  /\ ok' = [r \in Requests |-> FALSE]
  /\ view' = [r \in Requests |-> NewLedger]
  /\ UNCHANGED <<ledger, aged, lock, taken, outlived>>

BudgetNext ==
  \/ \E r \in Requests :
       \/ \E o \in Operations : BeginBudget(r, o)
       \/ AcquireLock(r) \/ LedgerBusy(r) \/ ReadLedger(r) \/ WriteLedger(r)
       \/ ReleaseLock(r) \/ CancelBudget(r) \/ EndBudget(r) \/ ReservationAges(r)
  \/ LockExpires
  \/ BudgetCrash

\* The ledger by itself, whoever uses it.
BudgetSpec == BudgetInit /\ [][BudgetNext]_budgetVars

-----------------------------------------------------------------------------
(* Properties. *)

\* A reservation is charged at most once, by its own settlement or by the
\* two-hour rule, whichever comes first: budget.py's pop of the entry.  The
\* exception is an operation that outlived its lock.
BilledOnce ==
  ~outlived =>
    \A r \in Requests :
      ledger.bills[r] + (IF r \in ledger.reservations THEN 1 ELSE 0) <= taken[r]

\* Concurrent reservations never pass the monthly budget together: what is
\* spent and what is reserved stay within it, but for what calls turned out to
\* cost above their estimate.
BudgetRespected == ~outlived => ledger.spent + Reserved(ledger) <= Budget + ledger.overrun
=============================================================================
