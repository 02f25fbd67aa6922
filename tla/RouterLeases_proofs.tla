-------------------------- MODULE RouterLeases_proofs --------------------------
(***************************************************************************)
(* The ledger of CloudBudget for any number of requests, any budget, any   *)
(* estimate and any charges: nothing is charged twice and the budget       *)
(* holds, unless an operation outlives its lock.  The pipeline uses the    *)
(* ledger as CloudBudget describes: what is proved of the ledger holds of  *)
(* the pipeline.  Its slots bound its calls, no request leaves anything    *)
(* behind in the scheduler, and no call runs without its money in the      *)
(* ledger.                                                                 *)
(***************************************************************************)
EXTENDS RouterLeases, FiniteSetTheorems, SequenceTheorems, TLAPS

\* What a ledger and the reservations written so far say of each request: its
\* charges and its open reservation are covered by reservations it made.
Covered(l, t) ==
  \A q \in Requests : l.bills[q] + (IF q \in l.reservations THEN 1 ELSE 0) <= t[q]

\* The reservations written once r's operation has written its own.
TakenAfter(r) == IF op[r] = "reserve" THEN [taken EXCEPT ![r] = @ + 1] ELSE taken

\* What is spent and reserved stays within the budget and the overruns.
Within(l) == l.spent + Reserved(l) <= Budget + l.overrun

-----------------------------------------------------------------------------
(* What the operations compute. *)

\* The set a ledger holds and its part are finite, so that they can be counted.
LEMMA Countable ==
  ASSUME NEW S \in SUBSET Requests
  PROVE  IsFiniteSet(S) /\ Cardinality(S) \in Nat
BY RequestsAssumption, FS_Subset, FS_CardinalityType

\* A ledger after _commit_stale_reservations is a ledger.
LEMMA StaleLedger ==
  ASSUME NEW l \in Ledgers, aged \in SUBSET Requests
  PROVE  CommitStale(l) \in Ledgers
<1> DEFINE stale == l.reservations \cap aged
<1>1. Cardinality(stale) \in Nat BY Countable
<1>2. Amount * Cardinality(stale) \in Nat BY <1>1, BudgetAssumption
<1>3. CommitStale(l) =
        [reservations |-> l.reservations \ stale,
         spent |-> l.spent + Amount * Cardinality(stale),
         bills |-> [r \in Requests |-> l.bills[r] + IF r \in stale THEN 1 ELSE 0],
         overrun |-> l.overrun]
  BY DEF CommitStale
<1>4. l.reservations \ stale \in SUBSET Requests BY DEF Ledgers
<1>5. [r \in Requests |-> l.bills[r] + IF r \in stale THEN 1 ELSE 0] \in [Requests -> Nat]
  BY DEF Ledgers
<1>6. l.spent \in Nat /\ l.overrun \in Nat BY DEF Ledgers
<1> HIDE DEF stale
<1> QED BY <1>2, <1>3, <1>4, <1>5, <1>6 DEF Ledgers

\* Reserving turns a ledger into a ledger.
LEMMA ReservationLedger ==
  ASSUME NEW l \in Ledgers, NEW r \in Requests, aged \in SUBSET Requests
  PROVE  WithReservation(l, r) \in Ledgers
<1>1. CommitStale(l) \in Ledgers BY StaleLedger
<1> QED BY <1>1 DEF WithReservation, Ledgers

\* Charging turns a ledger into a ledger.
LEMMA CommittedLedger ==
  ASSUME NEW l \in Ledgers, NEW r \in Requests, NEW c \in Charges
  PROVE  Committed(l, r, c) \in Ledgers
<1>1. c \in Nat /\ Over(c) \in Nat BY BudgetAssumption DEF Over
<1> QED BY <1>1 DEF Committed, Ledgers

\* Releasing turns a ledger into a ledger.
LEMMA DroppedLedger ==
  ASSUME NEW l \in Ledgers, NEW r \in Requests
  PROVE  Dropped(l, r) \in Ledgers
BY DEF Dropped, Ledgers

\* The two-hour rule charges what it removes, so it keeps charges covered; a
\* reservation is covered by itself.
LEMMA ReservationCovered ==
  ASSUME NEW l \in Ledgers, NEW r \in Requests, aged \in SUBSET Requests,
         NEW t \in [Requests -> Nat], Covered(l, t)
  PROVE  Covered(WithReservation(l, r), [t EXCEPT ![r] = @ + 1])
<1> DEFINE k == CommitStale(l)
<1>1. k \in Ledgers BY StaleLedger
<1>2. \A q \in Requests : k.bills[q] + (IF q \in k.reservations THEN 1 ELSE 0) <= t[q]
  <2> TAKE q \in Requests
  <2>1. l.bills[q] \in Nat /\ t[q] \in Nat BY DEF Ledgers
  <2>2. l.bills[q] + (IF q \in l.reservations THEN 1 ELSE 0) <= t[q] BY DEF Covered
  <2>3. k.bills[q] = l.bills[q] + IF q \in l.reservations \cap aged THEN 1 ELSE 0
    BY DEF CommitStale
  <2>4. q \in k.reservations <=> q \in l.reservations /\ q \notin aged
    BY DEF CommitStale
  <2> HIDE DEF k
  <2> QED BY <2>1, <2>2, <2>3, <2>4
<1> HIDE DEF k
<1>3. /\ WithReservation(l, r).bills = k.bills
      /\ WithReservation(l, r).reservations = k.reservations \cup {r}
  BY DEF WithReservation, k
<1> SUFFICES ASSUME NEW q \in Requests
             PROVE  WithReservation(l, r).bills[q]
                      + (IF q \in WithReservation(l, r).reservations THEN 1 ELSE 0)
                    <= [t EXCEPT ![r] = @ + 1][q]
  BY DEF Covered
<1>4. k.bills[q] \in Nat /\ t[q] \in Nat BY <1>1 DEF Ledgers
<1> QED BY <1>2, <1>3, <1>4

\* A charge takes the place of the reservation it removes.
LEMMA CommittedCovered ==
  ASSUME NEW l \in Ledgers, NEW r \in Requests, NEW c \in Charges,
         NEW t \in [Requests -> Nat], Covered(l, t)
  PROVE  Covered(Committed(l, r, c), t)
<1>1. CASE r \notin l.reservations BY <1>1 DEF Committed
<1>2. CASE r \in l.reservations
  <2>1. /\ Committed(l, r, c).bills = [l.bills EXCEPT ![r] = @ + 1]
        /\ Committed(l, r, c).reservations = l.reservations \ {r}
    BY <1>2 DEF Committed
  <2>2. l.bills \in [Requests -> Nat] BY DEF Ledgers
  <2> QED BY <1>2, <2>1, <2>2 DEF Covered
<1> QED BY <1>1, <1>2

\* A release removes a reservation and charges nothing.
LEMMA DroppedCovered ==
  ASSUME NEW l \in Ledgers, NEW r \in Requests, NEW t \in [Requests -> Nat], Covered(l, t)
  PROVE  Covered(Dropped(l, r), t)
<1>1. /\ Dropped(l, r).bills = l.bills
      /\ Dropped(l, r).reservations = l.reservations \ {r}
  BY DEF Dropped
<1>2. l.bills \in [Requests -> Nat] BY DEF Ledgers
<1> QED BY <1>1, <1>2 DEF Covered

\* A reservation that passed the projection is within the budget.
LEMMA ReservationWithin ==
  ASSUME NEW l \in Ledgers, NEW r \in Requests, aged \in SUBSET Requests,
         Projected(CommitStale(l)) <= Budget
  PROVE  Within(WithReservation(l, r))
<1> DEFINE k == CommitStale(l)  S == k.reservations
<1>1. k \in Ledgers BY StaleLedger
<1> HIDE DEF k
<1>2. S \in SUBSET Requests /\ S \cup {r} \in SUBSET Requests BY <1>1 DEF Ledgers
<1>3. IsFiniteSet(S) /\ Cardinality(S) \in Nat /\ Cardinality(S \cup {r}) \in Nat
  BY <1>2, Countable
<1>4. Cardinality(S \cup {r}) <= Cardinality(S) + 1 BY <1>3, FS_AddElement
<1>5. k.spent + Amount * Cardinality(S) + Amount <= Budget
  BY DEF Projected, Reserved, k
<1>6. /\ WithReservation(l, r).spent = k.spent
      /\ WithReservation(l, r).reservations = S \cup {r}
      /\ WithReservation(l, r).overrun = k.overrun
  BY DEF WithReservation, k
<1>7. k.spent \in Nat /\ k.overrun \in Nat BY <1>1 DEF Ledgers
<1> DEFINE n == Cardinality(S)  m == Cardinality(S \cup {r})
<1>8. Amount * m <= Amount * n + Amount
  <2>1. n \in Nat /\ m \in Nat /\ m <= n + 1 /\ Amount \in Nat BY <1>3, <1>4, BudgetAssumption
  <2> HIDE DEF n, m
  <2>2. Amount * m <= Amount * (n + 1) BY <2>1
  <2>3. Amount * (n + 1) = Amount * n + Amount BY <2>1
  <2> QED BY <2>1, <2>2, <2>3
<1>9. /\ Amount * m \in Nat /\ Amount * n \in Nat /\ Amount \in Nat /\ Budget \in Nat
  BY <1>3, BudgetAssumption
<1>10. k.spent + Amount * m <= Budget + k.overrun
  <2> DEFINE x == Amount * m  y == Amount * n
  <2>1. x <= y + Amount /\ k.spent + y + Amount <= Budget /\ x \in Nat /\ y \in Nat
    BY <1>5, <1>8, <1>9
  <2> HIDE DEF x, y
  <2> QED BY <2>1, <1>7, <1>9 DEF x
<1> QED BY <1>6, <1>10 DEF Within, Reserved

\* Settling trades the estimate for the charge, and the overrun takes up what
\* the charge is above it.
LEMMA CommittedWithin ==
  ASSUME NEW l \in Ledgers, NEW r \in Requests, NEW c \in Charges, Within(l)
  PROVE  Within(Committed(l, r, c))
<1>1. CASE r \notin l.reservations BY <1>1 DEF Committed
<1>2. CASE r \in l.reservations
  <2> DEFINE n == Cardinality(l.reservations)  m == Cardinality(l.reservations \ {r})
  <2>1. l.reservations \in SUBSET Requests /\ l.spent \in Nat /\ l.overrun \in Nat
    BY DEF Ledgers
  <2>2. IsFiniteSet(l.reservations) /\ n \in Nat BY <2>1, Countable
  <2>3. m \in Nat BY <2>1, Countable
  <2>4. m = n - 1 BY <1>2, <2>2, FS_RemoveElement
  <2>5. /\ Committed(l, r, c).spent = l.spent + c
        /\ Committed(l, r, c).reservations = l.reservations \ {r}
        /\ Committed(l, r, c).overrun = l.overrun + Over(c)
    BY <1>2 DEF Committed
  <2>6. l.spent + Amount * n <= Budget + l.overrun BY DEF Within, Reserved
  <2> HIDE DEF n, m
  <2>7. Amount \in Nat /\ Budget \in Nat /\ c \in Nat BY BudgetAssumption
  <2>8. Amount * n = Amount * m + Amount BY <2>2, <2>3, <2>4, <2>7
  <2>9. Over(c) \in Nat /\ c <= Amount + Over(c) BY <2>7 DEF Over
  <2> DEFINE x == Amount * m
  <2>10. x \in Nat BY <2>3, <2>7
  <2>11. l.spent + (x + Amount) <= Budget + l.overrun BY <2>6, <2>8
  <2> HIDE DEF x
  <2>12. (l.spent + c) + x <= Budget + (l.overrun + Over(c))
    BY <2>1, <2>7, <2>9, <2>10, <2>11
  <2> QED BY <2>5, <2>12 DEF Within, Reserved, x, m
<1> QED BY <1>1, <1>2

\* Releasing only takes a reservation away.
LEMMA DroppedWithin ==
  ASSUME NEW l \in Ledgers, NEW r \in Requests, Within(l)
  PROVE  Within(Dropped(l, r))
<1> DEFINE n == Cardinality(l.reservations)  m == Cardinality(l.reservations \ {r})
<1>1. l.reservations \in SUBSET Requests /\ l.spent \in Nat /\ l.overrun \in Nat
  BY DEF Ledgers
<1>2. IsFiniteSet(l.reservations) /\ n \in Nat /\ m \in Nat BY <1>1, Countable
<1>3. m <= n
  <2>1. m = IF r \in l.reservations THEN n - 1 ELSE n BY <1>2, FS_RemoveElement
  <2> HIDE DEF n, m
  <2> QED BY <1>2, <2>1
<1>4. /\ Dropped(l, r).spent = l.spent
      /\ Dropped(l, r).reservations = l.reservations \ {r}
      /\ Dropped(l, r).overrun = l.overrun
  BY DEF Dropped
<1>5. l.spent + Amount * n <= Budget + l.overrun BY DEF Within, Reserved
<1> HIDE DEF n, m
<1>6. Amount \in Nat /\ Budget \in Nat BY BudgetAssumption
<1>7. Amount * m <= Amount * n BY <1>2, <1>3, <1>6
<1> DEFINE x == Amount * m  y == Amount * n
<1>8. x \in Nat /\ y \in Nat /\ x <= y /\ l.spent + y <= Budget + l.overrun
  BY <1>2, <1>5, <1>6, <1>7
<1> HIDE DEF x, y
<1>9. l.spent + x <= Budget + l.overrun BY <1>1, <1>6, <1>8
<1> QED BY <1>4, <1>9 DEF Within, Reserved, x, m

-----------------------------------------------------------------------------
(* Types. *)

\* The ledger of a new month is a ledger.
LEMMA NewLedgerType == NewLedger \in Ledgers
BY DEF NewLedger, Ledgers

\* Every step keeps the types.
LEMMA TypeStep == BudgetTypeOK /\ [BudgetNext]_budgetVars => BudgetTypeOK'
<1> SUFFICES ASSUME BudgetTypeOK, [BudgetNext]_budgetVars PROVE BudgetTypeOK'
  OBVIOUS
<1> USE NewLedgerType DEF BudgetTypeOK, Points, Operations
<1>1. ASSUME NEW r \in Requests, NEW o \in Operations, BeginBudget(r, o) PROVE BudgetTypeOK'
  BY <1>1 DEF BeginBudget
<1>2. ASSUME NEW r \in Requests, AcquireLock(r) PROVE BudgetTypeOK'
  BY <1>2 DEF AcquireLock
<1>3. ASSUME NEW r \in Requests, LedgerBusy(r) PROVE BudgetTypeOK'
  BY <1>3 DEF LedgerBusy
<1>4. ASSUME NEW r \in Requests, ReadLedger(r) PROVE BudgetTypeOK'
  <2>1. /\ WithReservation(ledger, r) \in Ledgers
        /\ Dropped(ledger, r) \in Ledgers
        /\ \A c \in Charges : Committed(ledger, r, c) \in Ledgers
    BY ReservationLedger, CommittedLedger, DroppedLedger
  <2>2. view' \in [Requests -> Ledgers] BY <1>4, <2>1 DEF ReadLedger
  <2> QED BY <1>4, <2>2 DEF ReadLedger
<1>5. ASSUME NEW r \in Requests, WriteLedger(r) PROVE BudgetTypeOK'
  BY <1>5 DEF WriteLedger, Written, Forget
<1>6. ASSUME NEW r \in Requests, ReleaseLock(r) PROVE BudgetTypeOK'
  BY <1>6 DEF ReleaseLock, Unlocked
<1>7. ASSUME NEW r \in Requests, CancelBudget(r) PROVE BudgetTypeOK'
  BY <1>7 DEF CancelBudget, Written, Forget, Unlocked
<1>8. ASSUME NEW r \in Requests, EndBudget(r) PROVE BudgetTypeOK'
  BY <1>8 DEF EndBudget
<1>9. ASSUME NEW r \in Requests, ReservationAges(r) PROVE BudgetTypeOK'
  BY <1>9 DEF ReservationAges
<1>10. CASE LockExpires
  BY <1>10 DEF LockExpires
<1>11. CASE BudgetCrash
  BY <1>11 DEF BudgetCrash
<1>12. CASE UNCHANGED budgetVars
  BY <1>12 DEF budgetVars
<1> QED
  BY <1>1, <1>2, <1>3, <1>4, <1>5, <1>6, <1>7, <1>8, <1>9, <1>10, <1>11, <1>12 DEF BudgetNext

\* The types of the ledger, the lock and the operations under way hold in every
\* reachable state: no sequence of reserve, settle, release, expiry and crash
\* leaves a negative amount or a reservation of an unknown request.
THEOREM BudgetTypes == BudgetSpec => []BudgetTypeOK
<1>1. ASSUME BudgetInit PROVE BudgetTypeOK
  <2>1. ledger \in Ledgers /\ view \in [Requests -> Ledgers]
    BY <1>1, NewLedgerType DEF BudgetInit
  <2>2. /\ aged \subseteq Requests /\ lock \in Requests \cup {NoOne}
        /\ at \in [Requests -> Points] /\ op \in [Requests -> Operations]
        /\ taken \in [Requests -> Nat]
    BY <1>1 DEF BudgetInit, Points, Operations
  <2>3. ok \in [Requests -> BOOLEAN] /\ outlived \in BOOLEAN
    BY <1>1 DEF BudgetInit
  <2> QED BY <2>1, <2>2, <2>3 DEF BudgetTypeOK
<1> QED BY <1>1, TypeStep, PTL DEF BudgetSpec

-----------------------------------------------------------------------------
(* The inductive invariant.  Between its read and its write an operation     *)
(* holds the lock, so no other operation changes the ledger it has read, and *)
(* the ledger it is about to write is as good as the one it replaces.        *)

\* An operation between its read and its write holds the lock.
Holding == ~outlived => \A r \in Requests : at[r] \in {"read", "write"} => lock = r

\* The ledger an operation will write charges no more than is reserved once it
\* is written.
ViewsCovered ==
  ~outlived => \A r \in Requests : at[r] = "write" => Covered(view[r], TakenAfter(r))

\* The ledger an operation will write is within the budget.
ViewsWithin == ~outlived => \A r \in Requests : at[r] = "write" => Within(view[r])

\* Only a step that finds the lock free or gives it up changes it.
LEMMA HoldingStep ==
  ASSUME BudgetTypeOK, Holding, [BudgetNext]_budgetVars
  PROVE  Holding'
<1> USE DEF BudgetTypeOK, Holding
<1>1. ASSUME NEW r \in Requests, NEW o \in Operations, BeginBudget(r, o) PROVE Holding'
  BY <1>1 DEF BeginBudget
<1>2. ASSUME NEW r \in Requests, AcquireLock(r) PROVE Holding'
  BY <1>2, BudgetAssumption DEF AcquireLock, LockFree
<1>3. ASSUME NEW r \in Requests, LedgerBusy(r) PROVE Holding'
  BY <1>3 DEF LedgerBusy
<1>4. ASSUME NEW r \in Requests, ReadLedger(r) PROVE Holding'
  <2>1. at[r] = "read" /\ UNCHANGED <<lock, outlived>> BY <1>4 DEF ReadLedger
  <2>2. at' = [at EXCEPT ![r] = "unlock"] \/ at' = [at EXCEPT ![r] = "write"]
    BY <1>4 DEF ReadLedger
  <2> QED BY <2>1, <2>2
<1>5. ASSUME NEW r \in Requests, WriteLedger(r) PROVE Holding'
  BY <1>5 DEF WriteLedger
<1>6. ASSUME NEW r \in Requests, ReleaseLock(r) PROVE Holding'
  BY <1>6 DEF ReleaseLock, Unlocked
<1>7. ASSUME NEW r \in Requests, CancelBudget(r) PROVE Holding'
  <2>1. /\ UNCHANGED outlived
        /\ at' = [at EXCEPT ![r] = "away"] \/ at' = [at EXCEPT ![r] = "unlock"]
        /\ \/ lock' = lock
           \/ lock = NoOne /\ lock' = r
           \/ lock = r /\ at[r] = "unlock" /\ lock' = NoOne
    BY <1>7 DEF CancelBudget, Unlocked
  <2> QED BY <2>1, BudgetAssumption
<1>8. ASSUME NEW r \in Requests, EndBudget(r) PROVE Holding'
  BY <1>8 DEF EndBudget
<1>9. ASSUME NEW r \in Requests, ReservationAges(r) PROVE Holding'
  BY <1>9 DEF ReservationAges
<1>10. CASE LockExpires
  BY <1>10 DEF LockExpires
<1>11. CASE BudgetCrash
  BY <1>11 DEF BudgetCrash
<1>12. CASE UNCHANGED budgetVars
  BY <1>12 DEF budgetVars
<1> QED
  BY <1>1, <1>2, <1>3, <1>4, <1>5, <1>6, <1>7, <1>8, <1>9, <1>10, <1>11, <1>12 DEF BudgetNext

\* What a step may do to the ledger, while every operation keeps its lock: an
\* operation prepares the ledger it will write, or writes the one it prepared,
\* and in between nobody else does either.
LEMMA LedgerStep ==
  ASSUME BudgetTypeOK, Holding, [BudgetNext]_budgetVars, ~outlived'
  PROVE  /\ ~outlived
         /\ \/ /\ UNCHANGED <<ledger, taken>>
               /\ \A q \in Requests :
                    at'[q] = "write" =>
                      /\ at[q] = "write" /\ view'[q] = view[q] /\ op'[q] = op[q]
            \/ \E r \in Requests :
                 /\ ReadLedger(r) /\ at'[r] = "write"
                 /\ \A q \in Requests : at'[q] = "write" => q = r
            \/ \E r \in Requests :
                 /\ at[r] = "write" /\ Written(r)
                 /\ \A q \in Requests : at'[q] # "write"
<1> DEFINE Same == /\ UNCHANGED <<ledger, taken>>
                   /\ \A q \in Requests :
                        at'[q] = "write" =>
                          /\ at[q] = "write" /\ view'[q] = view[q] /\ op'[q] = op[q]
<1> DEFINE Reads == \E r \in Requests :
                      /\ ReadLedger(r) /\ at'[r] = "write"
                      /\ \A q \in Requests : at'[q] = "write" => q = r
<1> DEFINE Writes == \E r \in Requests :
                       /\ at[r] = "write" /\ Written(r)
                       /\ \A q \in Requests : at'[q] # "write"
<1> DEFINE Goal == ~outlived /\ (Same \/ Reads \/ Writes)
<1> SUFFICES Goal OBVIOUS
<1>0. ~outlived => \A r, q \in Requests :
        at[r] \in {"read", "write"} /\ at[q] \in {"read", "write"} => q = r
  BY DEF Holding
<1> USE DEF BudgetTypeOK
<1>1. ASSUME NEW r \in Requests, NEW o \in Operations, BeginBudget(r, o) PROVE Goal
  BY <1>1 DEF BeginBudget
<1>2. ASSUME NEW r \in Requests, AcquireLock(r) PROVE Goal
  BY <1>2 DEF AcquireLock
<1>3. ASSUME NEW r \in Requests, LedgerBusy(r) PROVE Goal
  BY <1>3 DEF LedgerBusy
<1>4. ASSUME NEW r \in Requests, ReadLedger(r) PROVE Goal
  <2>1. /\ at[r] = "read" /\ ~outlived /\ UNCHANGED <<ledger, op, taken>>
        /\ \/ at' = [at EXCEPT ![r] = "unlock"] /\ view' = view
           \/ at' = [at EXCEPT ![r] = "write"]
    BY <1>4 DEF ReadLedger
  <2>2. CASE at' = [at EXCEPT ![r] = "unlock"] /\ view' = view
    <3>1. Same BY <2>1, <2>2
    <3> QED BY <2>1, <3>1
  <2>3. CASE at' = [at EXCEPT ![r] = "write"]
    <3>1. at'[r] = "write" /\ \A q \in Requests : at'[q] = "write" => q = r
      BY <1>0, <2>1, <2>3
    <3>2. Reads BY <1>4, <3>1
    <3> QED BY <2>1, <3>2
  <2> QED BY <2>1, <2>2, <2>3
<1>5. ASSUME NEW r \in Requests, WriteLedger(r) PROVE Goal
  <2>1. at[r] = "write" /\ Written(r) /\ ~outlived /\ at' = [at EXCEPT ![r] = "unlock"]
    BY <1>5 DEF WriteLedger
  <2>2. \A q \in Requests : at'[q] # "write" BY <1>0, <2>1
  <2>3. Writes BY <2>1, <2>2
  <2> QED BY <2>1, <2>3
<1>6. ASSUME NEW r \in Requests, ReleaseLock(r) PROVE Goal
  BY <1>6 DEF ReleaseLock
<1>7. ASSUME NEW r \in Requests, CancelBudget(r) PROVE Goal
  <2>1. /\ ~outlived /\ UNCHANGED op
        /\ at' = [at EXCEPT ![r] = "away"] \/ at' = [at EXCEPT ![r] = "unlock"]
        /\ view' = [view EXCEPT ![r] = NewLedger]
        /\ (at[r] = "write" /\ Written(r)) \/ UNCHANGED <<ledger, taken>>
    BY <1>7 DEF CancelBudget, Forget
  <2>2. CASE UNCHANGED <<ledger, taken>>
    <3>1. Same BY <2>1, <2>2
    <3> QED BY <2>1, <3>1
  <2>3. CASE at[r] = "write" /\ Written(r)
    <3>1. \A q \in Requests : at'[q] # "write" BY <1>0, <2>1, <2>3
    <3>2. Writes BY <2>3, <3>1
    <3> QED BY <2>1, <3>2
  <2> QED BY <2>1, <2>2, <2>3
<1>8. ASSUME NEW r \in Requests, EndBudget(r) PROVE Goal
  BY <1>8 DEF EndBudget
<1>9. ASSUME NEW r \in Requests, ReservationAges(r) PROVE Goal
  BY <1>9 DEF ReservationAges
<1>10. CASE LockExpires
  BY <1>10 DEF LockExpires
<1>11. CASE BudgetCrash
  BY <1>11 DEF BudgetCrash
<1>12. CASE UNCHANGED budgetVars
  BY <1>12 DEF budgetVars
<1> HIDE DEF Goal
<1> QED
  BY <1>1, <1>2, <1>3, <1>4, <1>5, <1>6, <1>7, <1>8, <1>9, <1>10, <1>11, <1>12 DEF BudgetNext

-----------------------------------------------------------------------------
(* Nothing is charged twice. *)

\* The part of the invariant that is about charges.
Billing == Holding /\ ViewsCovered /\ BilledOnce

\* Every step keeps the charges covered, in the ledger and in the one being
\* prepared.
LEMMA BillingStep ==
  ASSUME BudgetTypeOK, Billing, [BudgetNext]_budgetVars
  PROVE  Billing'
<1>1. Holding' BY HoldingStep DEF Billing
<1> SUFFICES ASSUME ~outlived'
             PROVE  /\ Covered(ledger', taken')
                    /\ \A q \in Requests : at'[q] = "write" => Covered(view'[q], TakenAfter(q)')
  BY <1>1 DEF Billing, ViewsCovered, BilledOnce, Covered
<1>2. ~outlived BY LedgerStep DEF Billing
<1>3. /\ Covered(ledger, taken)
      /\ \A q \in Requests : at[q] = "write" => Covered(view[q], TakenAfter(q))
  BY <1>2 DEF Billing, ViewsCovered, BilledOnce, Covered
<1>4. CASE /\ UNCHANGED <<ledger, taken>>
           /\ \A q \in Requests :
                at'[q] = "write" =>
                  /\ at[q] = "write" /\ view'[q] = view[q] /\ op'[q] = op[q]
  <2>1. \A q \in Requests : at'[q] = "write" => TakenAfter(q)' = TakenAfter(q)
    BY <1>4 DEF TakenAfter
  <2> QED BY <1>3, <1>4, <2>1
<1>5. ASSUME NEW r \in Requests, ReadLedger(r), at'[r] = "write",
             \A q \in Requests : at'[q] = "write" => q = r
      PROVE  /\ Covered(ledger', taken')
             /\ \A q \in Requests : at'[q] = "write" => Covered(view'[q], TakenAfter(q)')
  <2>1. UNCHANGED <<ledger, op, taken>> BY <1>5 DEF ReadLedger
  <2>2. /\ ledger \in Ledgers /\ taken \in [Requests -> Nat] /\ aged \in SUBSET Requests
        /\ view \in [Requests -> Ledgers] /\ at \in [Requests -> Points]
    BY DEF BudgetTypeOK
  <2>3. \/ op[r] = "reserve" /\ view'[r] = WithReservation(ledger, r)
        \/ op[r] = "settle" /\ \E c \in Charges : view'[r] = Committed(ledger, r, c)
        \/ op[r] = "release" /\ view'[r] = Dropped(ledger, r)
    BY <1>5, <2>2 DEF ReadLedger
  <2>4. Covered(view'[r], TakenAfter(r))
    <3>1. CASE op[r] = "reserve" /\ view'[r] = WithReservation(ledger, r)
      BY <1>3, <2>2, <3>1, ReservationCovered DEF TakenAfter
    <3>2. CASE op[r] = "settle" /\ \E c \in Charges : view'[r] = Committed(ledger, r, c)
      BY <1>3, <2>2, <3>2, CommittedCovered DEF TakenAfter
    <3>3. CASE op[r] = "release" /\ view'[r] = Dropped(ledger, r)
      BY <1>3, <2>2, <3>3, DroppedCovered DEF TakenAfter
    <3> QED BY <2>3, <3>1, <3>2, <3>3
  <2>5. TakenAfter(r)' = TakenAfter(r) BY <2>1 DEF TakenAfter
  <2> QED BY <1>3, <1>5, <2>1, <2>4, <2>5
<1>6. ASSUME NEW r \in Requests, at[r] = "write", Written(r),
             \A q \in Requests : at'[q] # "write"
      PROVE  /\ Covered(ledger', taken')
             /\ \A q \in Requests : at'[q] = "write" => Covered(view'[q], TakenAfter(q)')
  <2>1. ledger' = view[r] /\ taken' = TakenAfter(r) BY <1>6 DEF Written, TakenAfter
  <2> QED BY <1>3, <1>6, <2>1
<1> QED BY <1>4, <1>5, <1>6, LedgerStep DEF Billing

\* However many requests share the ledger, and however their operations
\* interleave, are cancelled or crash, reserve, settle, release and the
\* two-hour rule charge a reservation at most once, as long as no operation
\* outlives its lock.
THEOREM BilledOnceHolds == BudgetSpec => []BilledOnce
<1>1. ASSUME BudgetInit PROVE Billing
  BY <1>1 DEF BudgetInit, Billing, Holding, ViewsCovered, BilledOnce, NewLedger
<1>2. BudgetTypeOK /\ Billing /\ [BudgetNext]_budgetVars => Billing'
  BY BillingStep
<1>3. Billing => BilledOnce BY DEF Billing
<1> QED BY <1>1, <1>2, <1>3, BudgetTypes, PTL DEF BudgetSpec

-----------------------------------------------------------------------------
(* The budget holds. *)

\* The part of the invariant that is about amounts.
Spending == Holding /\ ViewsWithin /\ BudgetRespected

\* Every step keeps the amounts within the budget, in the ledger and in the one
\* being prepared.
LEMMA SpendingStep ==
  ASSUME BudgetTypeOK, Spending, [BudgetNext]_budgetVars
  PROVE  Spending'
<1>1. Holding' BY HoldingStep DEF Spending
<1> SUFFICES ASSUME ~outlived'
             PROVE  /\ Within(ledger')
                    /\ \A q \in Requests : at'[q] = "write" => Within(view'[q])
  BY <1>1 DEF Spending, ViewsWithin, BudgetRespected, Within, Reserved
<1>2. ~outlived BY LedgerStep DEF Spending
<1>3. /\ Within(ledger)
      /\ \A q \in Requests : at[q] = "write" => Within(view[q])
  BY <1>2 DEF Spending, ViewsWithin, BudgetRespected, Within
<1>4. CASE /\ UNCHANGED <<ledger, taken>>
           /\ \A q \in Requests :
                at'[q] = "write" =>
                  /\ at[q] = "write" /\ view'[q] = view[q] /\ op'[q] = op[q]
  BY <1>3, <1>4
<1>5. ASSUME NEW r \in Requests, ReadLedger(r), at'[r] = "write",
             \A q \in Requests : at'[q] = "write" => q = r
      PROVE  /\ Within(ledger')
             /\ \A q \in Requests : at'[q] = "write" => Within(view'[q])
  <2>1. UNCHANGED ledger BY <1>5 DEF ReadLedger
  <2>2. /\ ledger \in Ledgers /\ aged \in SUBSET Requests
        /\ view \in [Requests -> Ledgers] /\ at \in [Requests -> Points]
    BY DEF BudgetTypeOK
  <2>3. \/ /\ Projected(CommitStale(ledger)) <= Budget
           /\ view'[r] = WithReservation(ledger, r)
        \/ \E c \in Charges : view'[r] = Committed(ledger, r, c)
        \/ view'[r] = Dropped(ledger, r)
    BY <1>5, <2>2 DEF ReadLedger
  <2>4. Within(view'[r])
    BY <1>3, <2>2, <2>3, ReservationWithin, CommittedWithin, DroppedWithin
  <2> QED BY <1>3, <1>5, <2>1, <2>4
<1>6. ASSUME NEW r \in Requests, at[r] = "write", Written(r),
             \A q \in Requests : at'[q] # "write"
      PROVE  /\ Within(ledger')
             /\ \A q \in Requests : at'[q] = "write" => Within(view'[q])
  BY <1>3, <1>6 DEF Written
<1> QED BY <1>4, <1>5, <1>6, LedgerStep DEF Spending

\* However many requests reserve at once, what is spent and reserved stays
\* within the monthly budget, but for what calls turned out to cost above their
\* estimate, as long as no operation outlives its lock.
THEOREM BudgetHolds == BudgetSpec => []BudgetRespected
<1>1. ASSUME BudgetInit PROVE Spending
  <2>1. ledger.spent = 0 /\ ledger.overrun = 0 /\ ledger.reservations = {}
    BY <1>1 DEF BudgetInit, NewLedger
  <2>2. Cardinality({}) = 0 BY FS_EmptySet
  <2>3. BudgetRespected
    BY <2>1, <2>2, BudgetAssumption DEF BudgetRespected, Reserved
  <2> QED BY <1>1, <2>3 DEF BudgetInit, Spending, Holding, ViewsWithin
<1>2. BudgetTypeOK /\ Spending /\ [BudgetNext]_budgetVars => Spending'
  BY SpendingStep
<1>3. Spending => BudgetRespected BY DEF Spending
<1> QED BY <1>1, <1>2, <1>3, BudgetTypes, PTL DEF BudgetSpec

-----------------------------------------------------------------------------
(* The pipeline. *)

\* Every step of the pipeline is a step of the ledger, or leaves it alone.
LEMMA PipelineStep == [Next]_vars => [BudgetNext]_budgetVars
<1> SUFFICES ASSUME [Next]_vars PROVE [BudgetNext]_budgetVars
  OBVIOUS
<1> DEFINE Ok == [BudgetNext]_budgetVars
<1>0. UNCHANGED budgetVars => Ok OBVIOUS
<1>1. ASSUME NEW r \in Requests,
             \/ \E o \in Operations : BeginBudget(r, o)
             \/ AcquireLock(r) \/ LedgerBusy(r) \/ ReadLedger(r) \/ WriteLedger(r)
             \/ ReleaseLock(r) \/ CancelBudget(r) \/ EndBudget(r) \/ ReservationAges(r)
      PROVE  Ok
  BY <1>1 DEF BudgetNext
<1>2. LockExpires \/ BudgetCrash => Ok BY DEF BudgetNext
<1> SUFFICES Ok OBVIOUS
<1> HIDE DEF Ok
<1>3. ASSUME NEW r \in Requests, RequestStep(r) PROVE Ok
  <2>1. CASE Attempt(r) BY <1>0, <2>1 DEF Attempt
  <2>2. CASE Acquire(r) BY <1>0, <2>2 DEF Acquire
  <2>3. CASE Reserve(r) BY <1>1, <2>3 DEF Reserve, Operations
  <2>4. CASE BudgetStep(r) BY <1>1, <2>4 DEF BudgetStep
  <2>5. CASE Call(r) BY <1>1, <2>5 DEF Call
  <2>6. CASE NotReserved(r) BY <1>1, <2>6 DEF NotReserved
  <2>7. CASE Answered(r) BY <1>1, <2>7 DEF Answered, Operations
  <2>8. CASE Streamed(r) BY <1>1, <2>8 DEF Streamed, Operations
  <2>9. CASE CallFails(r) BY <1>1, <2>9 DEF CallFails, Operations
  <2>10. CASE Retry(r) BY <1>1, <2>10 DEF Retry
  <2>11. CASE Finish(r) BY <1>1, <2>11 DEF Finish
  <2>12. CASE Leave(r) BY <1>0, <2>12 DEF Leave
  <2>13. CASE Rejected(r) BY <1>1, <2>13 DEF Rejected, Operations
  <2>14. CASE Raised(r) BY <1>1, <2>14 DEF Raised, Operations
  <2>15. CASE Recover(r) BY <1>1, <2>15 DEF Recover
  <2> QED
    BY <1>3, <2>1, <2>2, <2>3, <2>4, <2>5, <2>6, <2>7, <2>8, <2>9, <2>10, <2>11, <2>12,
       <2>13, <2>14, <2>15
    DEF RequestStep
<1>4. ASSUME NEW r \in Requests, Cancel(r) PROVE Ok
  <2>1. UNCHANGED budgetVars \/ CancelBudget(r) BY <1>4 DEF Cancel
  <2> QED BY <1>0, <1>1, <2>1
<1>5. CASE Crash BY <1>2, <1>5 DEF Crash
<1>6. CASE Boot BY <1>0, <1>6 DEF Boot, budgetVars
<1>7. CASE Clock
  <2>1. UNCHANGED budgetVars \/ LockExpires \/ \E r \in Requests : ReservationAges(r)
    BY <1>7 DEF Clock
  <2> QED BY <1>0, <1>1, <1>2, <2>1
<1>8. CASE UNCHANGED vars BY <1>0, <1>8 DEF vars
<1> QED BY <1>3, <1>4, <1>5, <1>6, <1>7, <1>8 DEF Next

\* The pipeline refines the ledger: whatever requests do in api.py, retried,
\* cancelled, cut off or refused a slot, the ledger sees only the operations of
\* budget.py, each begun when the request's previous one has ended.
THEOREM PipelineUsesLedger == Spec => BudgetSpec
<1>1. Init => BudgetInit BY DEF Init
<1> QED BY <1>1, PipelineStep, PTL DEF Spec, BudgetSpec

\* A reservation made in the pipeline is charged at most once, for any number
\* of requests, attempts and crashes.
THEOREM PipelineBilledOnce == Spec => []BilledOnce
BY PipelineUsesLedger, BilledOnceHolds, PTL

\* The pipeline stays within the monthly budget and the overruns, for any
\* number of requests, attempts and crashes.
THEOREM PipelineBudgetHolds == Spec => []BudgetRespected
BY PipelineUsesLedger, BudgetHolds, PTL

-----------------------------------------------------------------------------
(* The scheduler.  A slot is named by the lease that took it until the lease *)
(* gives it back or the slot expires, so the slots bound the calls.          *)

\* A queue in which nobody stands twice.
Once(q) == \A i, l \in 1 .. Len(q) : q[i] = q[l] => i = l

\* A grant is in the semaphore; a lease is, unless it outlasted its slot.
GrantsAreSlots ==
  \A r \in Requests : stage[r] = "granted" \/ (Leased(r) /\ r \notin overdue) => r \in slots

SlotsWithinCapacity == Cardinality(slots) <= Capacity

\* The slots and the queue hold nobody who is through with the acquisition,
\* but for requests cancelled in the middle of it.
Tidy ==
  \A r \in Requests \ cut :
    /\ r \in slots => stage[r] \in {"granted", "leased"}
    /\ r \in Range(queue) => stage[r] \in {"waiting", "head", "granted"}

SchedulerInv == SchedulerTypeOK /\ Once(queue) /\ GrantsAreSlots /\ SlotsWithinCapacity

\* Where the acquisition of a request is, by where its pipeline is.
StageFits(r) ==
  /\ pc[r] \in {"idle", "done"} => stage[r] = "out"
  /\ pc[r] = "acquire" => stage[r] # "out"
  /\ pc[r] \in {"reserve", "call", "giveback"} => stage[r] = "leased"
  /\ pc[r] \in {"reject", "retract", "settle", "leave"} => stage[r] \in {"out", "leased"}
  /\ ~up => stage[r] = "out"

\* The inductive invariant of the slots.
SlotsInv ==
  /\ TypeOK
  /\ SchedulerInv
  /\ \A r \in Requests : StageFits(r)
  /\ up => Tidy

-----------------------------------------------------------------------------
(* The calls and the ledger. *)

\* The ledger has the request's money, reserved or charged because it is among
\* the aged ones.
Holds(l, a, r) == r \in l.reservations \/ (r \in a /\ l.bills[r] > 0)

\* The call of the request is under way, or about to begin.
Backed(r) == pc[r] = "call" \/ (pc[r] = "reserve" /\ ok[r])

\* Where the budget operation of a request is, by where its pipeline is.
OperationFits(r) ==
  /\ at[r] # "away" => pc[r] \in {"reserve", "giveback", "reject", "retract", "settle"}
  /\ pc[r] = "reserve" => op[r] = "reserve"
  /\ ok[r] => at[r] \in {"unlock", "away"}

\* No operation takes the money of another request's call out of the ledger.
CallsInv ==
  /\ Holding
  /\ \A r \in Requests : OperationFits(r)
  /\ ~outlived =>
       /\ \A r \in Requests : Backed(r) => Holds(ledger, aged, r)
       /\ \A q \in Requests : at[q] = "write" =>
            /\ op[q] = "reserve" => q \in view[q].reservations
            /\ \A r \in Requests \ {q} : Backed(r) => Holds(view[q], aged, r)

-----------------------------------------------------------------------------
(* The queue. *)

\* Whoever leaves the queue is gone; the others stay, each once.
LEMMA Removed ==
  ASSUME NEW q \in Seq(Requests), NEW m \in Requests, Once(q), NEW r, r = Without(q, m)
  PROVE  r \in Seq(Requests) /\ Once(r) /\ Range(r) \subseteq Range(q) /\ m \notin Range(r)
<1>1. CASE ~ \E p \in 1 .. Len(q) : q[p] = m
  <2>1. r = q BY <1>1 DEF Without, RemoveFirst
  <2> QED BY <1>1, <2>1 DEF Range
<1>2. ASSUME NEW p \in 1 .. Len(q), q[p] = m
      PROVE  r \in Seq(Requests) /\ Once(r) /\ Range(r) \subseteq Range(q) /\ m \notin Range(r)
  <2> DEFINE I == {i \in 1 .. Len(q) : q[i] = m}
  <2>1. I = {p} BY <1>2 DEF Once
  <2>2. Min({p}) = p BY DEF Min
  <2>3. r = RemoveAt(q, Min(I)) BY <1>2, <2>1 DEF Without, RemoveFirst, SelectInSeq
  <2> DEFINE a == SubSeq(q, 1, p - 1)  b == SubSeq(q, p + 1, Len(q))
  <2>4. r = a \o b BY <2>1, <2>2, <2>3 DEF RemoveAt
  <2>5. a \in Seq(Requests) /\ Len(a) = p - 1 /\ \A i \in 1 .. p - 1 : a[i] = q[i]
    OBVIOUS
  <2>6. b \in Seq(Requests) /\ Len(b) = Len(q) - p /\ \A i \in 1 .. Len(q) - p : b[i] = q[p + i]
    OBVIOUS
  <2> HIDE DEF a, b
  <2>7. r \in Seq(Requests) /\ Len(r) = Len(q) - 1
    <3>1. a \o b \in Seq(Requests) /\ Len(a \o b) = Len(a) + Len(b) BY <2>5, <2>6, ConcatProperties
    <3>2. Len(q) \in Nat OBVIOUS
    <3> QED BY <2>4, <2>5, <2>6, <3>1, <3>2
  <2>8. ASSUME NEW i \in 1 .. Len(r) PROVE r[i] = IF i < p THEN q[i] ELSE q[i + 1]
    <3>1. CASE i < p BY <2>4, <2>5, <2>6, <2>7, <3>1
    <3>2. CASE i >= p
      <4>1. r[i] = b[i - Len(a)] BY <2>4, <2>5, <2>6, <2>7, <3>2
      <4>2. i - (p - 1) \in 1 .. Len(q) - p /\ p + (i - (p - 1)) = i + 1 BY <2>7, <3>2
      <4> QED BY <2>5, <2>6, <3>2, <4>1, <4>2
    <3> QED BY <3>1, <3>2
  <2>9. \A i \in 1 .. Len(r) : r[i] # m /\ \E l \in 1 .. Len(q) : r[i] = q[l]
    BY <1>2, <2>7, <2>8 DEF Once
  <2>10. Once(r) BY <1>2, <2>7, <2>8 DEF Once
  <2> QED BY <2>7, <2>9, <2>10 DEF Range
<1> QED BY <1>1, <1>2

\* Whoever enters a queue it is not in stands in it once.
LEMMA Inserted ==
  ASSUME NEW q \in Seq(Requests), NEW m \in Requests, Once(q), m \notin Range(q),
         NEW p \in 1 .. Len(q) + 1, NEW r, r = InsertAt(q, p, m)
  PROVE  r \in Seq(Requests) /\ Once(r) /\ Range(r) \subseteq Range(q) \cup {m}
<1> DEFINE a == SubSeq(q, 1, p - 1)  b == SubSeq(q, p, Len(q))  c == a \o <<m>>
<1>1. a \in Seq(Requests) /\ Len(a) = p - 1 /\ \A i \in 1 .. p - 1 : a[i] = q[i]
  OBVIOUS
<1>2. b \in Seq(Requests) /\ Len(b) = Len(q) - p + 1
      /\ \A i \in 1 .. Len(q) - p + 1 : b[i] = q[p + i - 1]
  OBVIOUS
<1>3. r = c \o b BY DEF InsertAt
<1> HIDE DEF a, b
<1>4. c \in Seq(Requests) /\ Len(c) = p /\ c[p] = m /\ \A i \in 1 .. p - 1 : c[i] = q[i]
  BY <1>1
<1> HIDE DEF c
<1>5. r \in Seq(Requests) /\ Len(r) = Len(q) + 1
  <2>1. c \o b \in Seq(Requests) /\ Len(c \o b) = Len(c) + Len(b) BY <1>2, <1>4, ConcatProperties
  <2>2. Len(q) \in Nat OBVIOUS
  <2> QED BY <1>2, <1>3, <1>4, <2>1, <2>2
<1>6. ASSUME NEW i \in 1 .. Len(r)
      PROVE  r[i] = IF i < p THEN q[i] ELSE IF i = p THEN m ELSE q[i - 1]
  <2>1. CASE i <= p BY <1>2, <1>3, <1>4, <1>5, <2>1
  <2>2. CASE i > p
    <3>1. r[i] = b[i - Len(c)] BY <1>2, <1>3, <1>4, <1>5, <2>2
    <3>2. i - p \in 1 .. Len(q) - p + 1 /\ p + (i - p) - 1 = i - 1 BY <1>5, <2>2
    <3> QED BY <1>2, <1>4, <2>2, <3>1, <3>2
  <2> QED BY <2>1, <2>2
<1>7. \A i \in 1 .. Len(q) : q[i] # m BY DEF Range
<1>8. Once(r)
  <2> SUFFICES ASSUME NEW i \in 1 .. Len(r), NEW l \in 1 .. Len(r), r[i] = r[l]
               PROVE  i = l
    BY DEF Once
  <2>1. CASE i = p \/ l = p BY <1>5, <1>6, <1>7, <2>1
  <2>2. CASE i # p /\ l # p
    <3> DEFINE f(n) == IF n < p THEN n ELSE n - 1
    <3>1. f(i) \in 1 .. Len(q) /\ r[i] = q[f(i)] BY <1>5, <1>6, <2>2
    <3>2. f(l) \in 1 .. Len(q) /\ r[l] = q[f(l)] BY <1>5, <1>6, <2>2
    <3>3. f(i) = f(l) BY <3>1, <3>2 DEF Once
    <3> QED BY <1>5, <2>2, <3>3
  <2> QED BY <2>1, <2>2
<1>9. \A i \in 1 .. Len(r) : r[i] = m \/ \E l \in 1 .. Len(q) : r[i] = q[l]
  <2> SUFFICES ASSUME NEW i \in 1 .. Len(r), i # p
               PROVE  \E l \in 1 .. Len(q) : r[i] = q[l]
    BY <1>6
  <2>1. CASE i < p BY <1>5, <1>6, <2>1
  <2>2. CASE i > p
    <3>1. i - 1 \in 1 .. Len(q) BY <1>5, <2>2
    <3> QED BY <1>6, <2>2, <3>1
  <2> QED BY <2>1, <2>2
<1> QED BY <1>5, <1>8, <1>9 DEF Range


-----------------------------------------------------------------------------
(* The steps of the scheduler. *)

\* The semaphore stays within its capacity when a newcomer found room.
LEMMA Filled ==
  ASSUME SchedulerInv, NEW r \in Requests, HasRoom(r)
  PROVE  Cardinality(slots \cup {r}) <= Capacity
<1>1. IsFiniteSet(slots) /\ Cardinality(slots) \in Nat
  BY Countable DEF SchedulerInv, SchedulerTypeOK
<1>2. CASE r \in slots
  <2>1. slots \cup {r} = slots BY <1>2
  <2> QED BY <2>1 DEF SchedulerInv, SlotsWithinCapacity
<1>3. CASE r \notin slots
  <2>1. Cardinality(slots \cup {r}) = Cardinality(slots) + 1 BY <1>1, <1>3, FS_AddElement
  <2> QED BY <1>1, <1>3, <2>1, CapacityAssumption DEF HasRoom
<1> QED BY <1>2, <1>3

\* Fewer slots are within the capacity too.
LEMMA Freer ==
  ASSUME SchedulerInv, NEW S \in SUBSET slots
  PROVE  Cardinality(S) <= Capacity
<1>1. IsFiniteSet(slots) BY Countable DEF SchedulerInv, SchedulerTypeOK
<1>2. Cardinality(S) <= Cardinality(slots) /\ Cardinality(S) \in Nat /\ Cardinality(slots) \in Nat
  BY <1>1, FS_Subset, FS_CardinalityType
<1> QED BY <1>2, CapacityAssumption DEF SchedulerInv, SlotsWithinCapacity

\* A step of one request leaves the others their slots and their places.
LEMMA OneMoves ==
  ASSUME SchedulerInv, NEW r \in Requests, NEW s \in Stages, To(r, s),
         queue' \in Seq(Requests), Once(queue'), Range(queue') \subseteq Range(queue) \cup {r},
         slots' \subseteq Requests, Cardinality(slots') <= Capacity,
         \A q \in Requests \ {r} : q \in slots' <=> q \in slots,
         overdue' \subseteq Requests, \A q \in Requests \ {r} : q \in overdue => q \in overdue',
         cut' \subseteq Requests, cut \subseteq cut',
         s = "granted" \/ (s = "leased" /\ r \notin overdue') => r \in slots'
  PROVE  /\ SchedulerInv'
         /\ /\ Tidy
            /\ r \notin cut' =>
                 /\ r \in slots' => s \in {"granted", "leased"}
                 /\ r \in Range(queue') => s \in {"waiting", "head", "granted"}
            => Tidy'
<1>1. /\ stage' \in [Requests -> Stages] /\ stage'[r] = s
      /\ \A q \in Requests \ {r} : stage'[q] = stage[q]
  BY DEF SchedulerInv, SchedulerTypeOK, To
<1>2. SchedulerTypeOK' BY <1>1 DEF SchedulerTypeOK
<1>3. GrantsAreSlots' BY <1>1 DEF SchedulerInv, GrantsAreSlots, Leased
<1>4. SchedulerInv' BY <1>2, <1>3 DEF SchedulerInv, SlotsWithinCapacity
<1>5. ASSUME Tidy,
             r \notin cut' =>
               /\ r \in slots' => s \in {"granted", "leased"}
               /\ r \in Range(queue') => s \in {"waiting", "head", "granted"}
      PROVE  Tidy'
  <2> SUFFICES ASSUME NEW q \in Requests, q \notin cut'
               PROVE  /\ q \in slots' => stage'[q] \in {"granted", "leased"}
                      /\ q \in Range(queue') => stage'[q] \in {"waiting", "head", "granted"}
    BY DEF Tidy
  <2>1. CASE q = r BY <1>1, <1>5, <2>1
  <2>2. CASE q # r
    <3>1. /\ q \in slots => stage[q] \in {"granted", "leased"}
          /\ q \in Range(queue) => stage[q] \in {"waiting", "head", "granted"}
      BY <1>5 DEF Tidy
    <3> QED BY <1>1, <2>2, <3>1
  <2> QED BY <2>1, <2>2
<1> QED BY <1>4, <1>5

\* What the store's operations do to the queue.
LEMMA QueueSteps ==
  ASSUME SchedulerInv, NEW r \in Requests
  PROVE  /\ queue' = queue =>
              queue' \in Seq(Requests) /\ Once(queue') /\ Range(queue') = Range(queue)
         /\ queue' = Without(queue, r) =>
              /\ queue' \in Seq(Requests) /\ Once(queue')
              /\ Range(queue') \subseteq Range(queue) /\ r \notin Range(queue')
         /\ Enqueue(r) =>
              /\ queue' \in Seq(Requests) /\ Once(queue')
              /\ Range(queue') \subseteq Range(queue) \cup {r}
<1>1. queue \in Seq(Requests) /\ Once(queue) BY DEF SchedulerInv, SchedulerTypeOK
<1>2. ASSUME NEW q, q = Without(queue, r)
      PROVE  q \in Seq(Requests) /\ Once(q) /\ Range(q) \subseteq Range(queue) /\ r \notin Range(q)
  BY <1>1, <1>2, Removed
<1>3. ASSUME Enqueue(r)
      PROVE  /\ queue' \in Seq(Requests) /\ Once(queue')
             /\ Range(queue') \subseteq Range(queue) \cup {r}
  <2>1. PICK q : q = Without(queue, r) OBVIOUS
  <2>2. \E i \in 1 .. Len(q) + 1 : queue' = InsertAt(q, i, r) BY <1>3, <2>1 DEF Enqueue
  <2>3. q \in Seq(Requests) /\ Once(q) /\ Range(q) \subseteq Range(queue) /\ r \notin Range(q)
    BY <1>2, <2>1
  <2> HIDE <2>1
  <2>4. queue' \in Seq(Requests) /\ Once(queue') /\ Range(queue') \subseteq Range(q) \cup {r}
    BY <2>2, <2>3, Inserted
  <2> QED BY <2>3, <2>4
<1> QED BY <1>1, <1>2, <1>3

\* The steps a request, its cancellation or the clock takes in the scheduler.
SchedulerAct(r) ==
  \/ TryLook(r) \/ TryTake(r) \/ Enqueue(r) \/ Look(r) \/ Take(r) \/ Dequeue(r)
  \/ QueueTimeout(r) \/ CancelAcquire(r) \/ SlotExpires(r) \/ EntryGoesStale(r)
  \/ stage[r] \in {"out", "leased"} /\ ReleaseDeployment(r)

\* Every one of them keeps the scheduler's part of the invariant.
LEMMA SchedulerStep ==
  ASSUME SchedulerInv, NEW r \in Requests, SchedulerAct(r)
  PROVE  SchedulerInv' /\ (Tidy => Tidy')
<1> DEFINE Goal == SchedulerInv' /\ (Tidy => Tidy')
<1> SUFFICES Goal OBVIOUS
<1>0. /\ slots \subseteq Requests /\ overdue \subseteq Requests /\ cut \subseteq Requests
      /\ queue \in Seq(Requests) /\ stage \in [Requests -> Stages] /\ stage[r] \in Stages
      /\ Cardinality(slots) <= Capacity
      /\ stage[r] = "granted" \/ (stage[r] = "leased" /\ r \notin overdue) => r \in slots
  BY DEF SchedulerInv, SchedulerTypeOK, SlotsWithinCapacity, GrantsAreSlots, Leased
<1>1. Tidy /\ r \notin cut =>
        /\ r \in slots => stage[r] \in {"granted", "leased"}
        /\ r \in Range(queue) => stage[r] \in {"waiting", "head", "granted"}
  BY DEF Tidy
<1>2. queue' = queue =>
        queue' \in Seq(Requests) /\ Once(queue') /\ Range(queue') = Range(queue)
  BY QueueSteps
<1>3. queue' = Without(queue, r) =>
        /\ queue' \in Seq(Requests) /\ Once(queue')
        /\ Range(queue') \subseteq Range(queue) /\ r \notin Range(queue')
  BY QueueSteps
<1>4. CASE TryLook(r)
  <2>1. PICK s \in {"trying", "out"} : To(r, s) BY <1>4 DEF TryLook
  <2> QED BY <1>0, <1>1, <1>2, <1>4, <2>1, OneMoves DEF TryLook, Stages
<1>5. CASE TryTake(r)
  <2>1. CASE HasRoom(r)
    BY <1>0, <1>1, <1>2, <1>5, <2>1, Filled, OneMoves DEF TryTake, Stages
  <2>2. CASE ~HasRoom(r)
    BY <1>0, <1>1, <1>2, <1>5, <2>2, OneMoves DEF TryTake, Stages
  <2> QED BY <2>1, <2>2
<1>6. CASE Enqueue(r)
  <2>1. /\ queue' \in Seq(Requests) /\ Once(queue')
        /\ Range(queue') \subseteq Range(queue) \cup {r}
    BY <1>6, QueueSteps
  <2> QED BY <1>0, <1>1, <1>6, <2>1, OneMoves DEF Enqueue, Stages
<1>7. CASE Look(r)
  BY <1>0, <1>1, <1>2, <1>7, OneMoves DEF Look, Stages
<1>8. CASE Take(r)
  <2>1. CASE HasRoom(r)
    BY <1>0, <1>1, <1>2, <1>8, <2>1, Filled, OneMoves DEF Take, Stages
  <2>2. CASE ~HasRoom(r)
    BY <1>0, <1>1, <1>2, <1>8, <2>2, OneMoves DEF Take, Stages
  <2> QED BY <2>1, <2>2
<1>9. CASE Dequeue(r)
  BY <1>0, <1>1, <1>3, <1>9, OneMoves DEF Dequeue, Stages
<1>10. CASE QueueTimeout(r)
  BY <1>0, <1>1, <1>3, <1>10, OneMoves DEF QueueTimeout, Stages
<1>11. CASE CancelAcquire(r)
  <2>1. /\ slots' \subseteq Requests /\ Cardinality(slots') <= Capacity
        /\ \A q \in Requests \ {r} : q \in slots' <=> q \in slots
    BY <1>0, <1>11, Filled DEF CancelAcquire
  <2>2. /\ queue' \in Seq(Requests) /\ Once(queue') /\ Range(queue') \subseteq Range(queue)
    BY <1>2, <1>3, <1>11 DEF CancelAcquire
  <2> QED BY <1>0, <1>11, <2>1, <2>2, OneMoves DEF CancelAcquire, Stages
<1>12. CASE stage[r] \in {"out", "leased"} /\ ReleaseDeployment(r)
  <2>1. slots' \in SUBSET slots /\ slots' = slots \ Freed(r) BY <1>12 DEF ReleaseDeployment
  <2>2. Cardinality(slots') <= Capacity BY <2>1, Freer
  <2>3. \A q \in Requests \ {r} : q \in slots' <=> q \in slots BY <2>1 DEF Freed
  <2>4. Tidy /\ r \notin cut => r \notin slots' /\ r \notin Range(queue)
    <3>1. CASE Leased(r) BY <1>1, <1>12, <2>1, <3>1 DEF Freed, Leased
    <3>2. CASE ~Leased(r) BY <1>1, <1>12, <2>1, <3>2 DEF Freed, Leased
    <3> QED BY <3>1, <3>2
  <2> QED BY <1>0, <1>2, <1>12, <2>1, <2>2, <2>3, <2>4, OneMoves DEF ReleaseDeployment, Stages
<1>13. CASE SlotExpires(r)
  <2>1. To(r, stage[r]) BY <1>0, <1>13 DEF SlotExpires, To
  <2>2. slots' \in SUBSET slots BY <1>13 DEF SlotExpires
  <2>3. Cardinality(slots') <= Capacity BY <2>2, Freer
  <2> QED BY <1>0, <1>1, <1>2, <1>13, <2>1, <2>2, <2>3, OneMoves DEF SlotExpires, Leased, Stages
<1>14. CASE EntryGoesStale(r)
  <2>1. To(r, stage[r]) BY <1>0, <1>14 DEF EntryGoesStale, To
  <2> QED BY <1>0, <1>1, <1>3, <1>14, <2>1, OneMoves DEF EntryGoesStale, Stages
<1> QED
  BY <1>4, <1>5, <1>6, <1>7, <1>8, <1>9, <1>10, <1>11, <1>12, <1>13, <1>14 DEF SchedulerAct


-----------------------------------------------------------------------------
(* The pipeline and its slots. *)

\* A step that moves one request, in the scheduler and in the pipeline, to
\* places that fit each other.
LEMMA RequestMoves ==
  ASSUME SlotsInv, BudgetTypeOK', NEW r \in Requests, NEW s \in Stops,
         pc' = [pc EXCEPT ![r] = s], attempt' \in [Requests -> 0 .. Attempts],
         up' = up, crashes' = crashes,
         SchedulerAct(r) \/ UNCHANGED schedulerVars,
         \A q \in Requests \ {r} : stage'[q] = stage[q],
         StageFits(r)'
  PROVE  SlotsInv'
<1>1. SchedulerInv' /\ (Tidy => Tidy')
  <2>1. CASE SchedulerAct(r) BY <2>1, SchedulerStep DEF SlotsInv
  <2>2. CASE UNCHANGED schedulerVars
    <3>1. SchedulerInv'
      BY <2>2 DEF SlotsInv, schedulerVars, SchedulerInv, SchedulerTypeOK, GrantsAreSlots, Leased,
                  SlotsWithinCapacity, Once
    <3>2. Tidy => Tidy' BY <2>2 DEF schedulerVars, Tidy
    <3> QED BY <3>1, <3>2
  <2> QED BY <2>1, <2>2
<1>2. /\ pc' \in [Requests -> Stops] /\ pc'[r] = s
      /\ \A q \in Requests \ {r} : pc'[q] = pc[q]
  BY DEF SlotsInv, TypeOK
<1>3. TypeOK' BY <1>1, <1>2 DEF SlotsInv, TypeOK, SchedulerInv
<1>4. \A q \in Requests : StageFits(q)' BY <1>2 DEF SlotsInv, StageFits
<1> QED BY <1>1, <1>3, <1>4 DEF SlotsInv

\* A step of the scheduler touches the stage of its request only.
LEMMA ActsOnOne ==
  ASSUME SlotsInv, NEW r \in Requests, SchedulerAct(r)
  PROVE  stage' \in [Requests -> Stages] /\ \A q \in Requests \ {r} : stage'[q] = stage[q]
<1>1. stage \in [Requests -> Stages] BY DEF SlotsInv, SchedulerInv, SchedulerTypeOK
<1>2. stage' = stage \/ \E s \in Stages : To(r, s)
  BY DEF SchedulerAct, TryLook, TryTake, Enqueue, Look, Take, Dequeue, QueueTimeout,
         CancelAcquire, ReleaseDeployment, SlotExpires, EntryGoesStale, Stages
<1> QED BY <1>1, <1>2 DEF To

\* A step that touches neither slots nor pipeline.
LEMMA SlotsUntouched ==
  ASSUME SlotsInv, BudgetTypeOK', UNCHANGED <<schedulerVars, pipelineVars>>
  PROVE  SlotsInv'
<1>1. SchedulerInv'
  BY DEF SlotsInv, schedulerVars, SchedulerInv, SchedulerTypeOK, GrantsAreSlots, Leased,
         SlotsWithinCapacity, Once
<1>2. up' => Tidy' BY DEF SlotsInv, schedulerVars, pipelineVars, Tidy
<1>3. \A q \in Requests : StageFits(q)' BY DEF SlotsInv, schedulerVars, pipelineVars, StageFits
<1>4. TypeOK' BY <1>1 DEF SlotsInv, TypeOK, pipelineVars, SchedulerInv
<1> QED BY <1>1, <1>2, <1>3, <1>4 DEF SlotsInv

\* A request's way through the pipeline takes a slot once and gives it back.
LEMMA RequestSlots ==
  ASSUME SlotsInv, BudgetTypeOK', NEW r \in Requests, RequestStep(r) \/ Cancel(r)
  PROVE  SlotsInv'
<1>0. /\ StageFits(r) /\ stage[r] \in Stages /\ pc \in [Requests -> Stops]
      /\ stage \in [Requests -> Stages]
      /\ attempt \in [Requests -> 0 .. Attempts] /\ attempt[r] \in 0 .. Attempts
      /\ pc = [pc EXCEPT ![r] = pc[r]] /\ pc[r] \in Stops
  BY DEF SlotsInv, TypeOK, SchedulerTypeOK
<1>1. ASSUME NEW s \in Stops, Goto(r, s), SchedulerAct(r), StageFits(r)'
      PROVE  SlotsInv'
  BY <1>0, <1>1, ActsOnOne, RequestMoves DEF Goto
<1>2. ASSUME NEW s \in Stops, Goto(r, s), UNCHANGED schedulerVars, StageFits(r)'
      PROVE  SlotsInv'
  BY <1>0, <1>2, RequestMoves DEF Goto, schedulerVars
<1>3. ASSUME NEW s \in Stops, Goto(r, s) PROVE up' = up /\ pc'[r] = s
  BY <1>0, <1>3 DEF Goto
<1>4. ASSUME Stay, UNCHANGED schedulerVars PROVE SlotsInv'
  BY <1>4, SlotsUntouched DEF Stay
<1>5. ASSUME NEW s \in Stops, s \in {"leave", "idle", "done", "settle", "reject"}, Goto(r, s),
             stage[r] \in {"out", "leased"}, ReleaseDeployment(r)
      PROVE  SlotsInv'
  <2>1. stage'[r] = "out" BY <1>0, <1>5 DEF ReleaseDeployment, To
  <2>2. StageFits(r)' BY <1>3, <1>5, <2>1 DEF StageFits
  <2> QED BY <1>1, <1>5, <2>2 DEF SchedulerAct
<1>6. ASSUME NEW s \in Stops, s \in {"reserve", "call", "giveback", "settle", "leave"},
             Goto(r, s), up, stage[r] = "leased", UNCHANGED schedulerVars
      PROVE  SlotsInv'
  <2>1. StageFits(r)' BY <1>3, <1>6 DEF StageFits, schedulerVars
  <2> QED BY <1>2, <1>6, <2>1
<1>7. CASE Attempt(r)
  <2>1. /\ up /\ SchedulerAct(r) /\ UNCHANGED <<up, crashes>>
        /\ attempt' = [attempt EXCEPT ![r] = @ + 1] /\ attempt[r] < Attempts
        /\ pc' = [pc EXCEPT ![r] = IF stage'[r] = "out" THEN "leave" ELSE "acquire"]
    BY <1>7 DEF Attempt, At, SchedulerAct
  <2>2. attempt' \in [Requests -> 0 .. Attempts] BY <1>0, <2>1, BoundsAssumption
  <2>3. PICK s \in Stops : /\ pc' = [pc EXCEPT ![r] = s]
                           /\ stage'[r] = "out" => s = "leave"
                           /\ stage'[r] # "out" => s = "acquire"
    BY <2>1 DEF Stops
  <2>4. StageFits(r)' BY <1>0, <2>1, <2>3 DEF StageFits
  <2> QED BY <2>1, <2>2, <2>3, <2>4, ActsOnOne, RequestMoves
<1>8. CASE Acquire(r)
  <2>1. up /\ pc[r] = "acquire" /\ SchedulerAct(r) BY <1>8 DEF Acquire, At, SchedulerAct
  <2>2. CASE stage'[r] = "out"
    <3>1. Goto(r, "leave") BY <1>8, <2>2 DEF Acquire
    <3>2. "leave" \in Stops BY DEF Stops
    <3>3. StageFits(r)' BY <1>3, <2>1, <2>2, <3>1, <3>2 DEF StageFits
    <3> QED BY <1>1, <2>1, <3>1, <3>2, <3>3
  <2>3. CASE stage'[r] # "out"
    <3>1. UNCHANGED pipelineVars BY <1>8, <2>3 DEF Acquire, Stay
    <3>2. Goto(r, "acquire") BY <1>0, <2>1, <3>1 DEF pipelineVars, Goto
    <3>3. "acquire" \in Stops BY DEF Stops
    <3>4. StageFits(r)' BY <1>3, <2>1, <2>3, <3>2, <3>3 DEF StageFits
    <3> QED BY <1>1, <2>1, <3>2, <3>3, <3>4
  <2> QED BY <2>2, <2>3
<1>9. CASE Reserve(r) BY <1>0, <1>6, <1>9 DEF Reserve, At, Leased, Stops
<1>10. CASE BudgetStep(r) BY <1>4, <1>10 DEF BudgetStep
<1>11. CASE Call(r) BY <1>0, <1>6, <1>11 DEF Call, At, StageFits, Stops
<1>12. CASE NotReserved(r) BY <1>0, <1>5, <1>12 DEF NotReserved, At, StageFits, Stops
<1>13. CASE Answered(r) BY <1>0, <1>5, <1>13 DEF Answered, At, StageFits, Stops
<1>14. CASE Streamed(r) BY <1>0, <1>6, <1>14 DEF Streamed, At, StageFits, Stops
<1>15. CASE CallFails(r) BY <1>0, <1>6, <1>15 DEF CallFails, At, StageFits, Stops
<1>16. CASE Retry(r)
  <2>1. PICK s \in {"idle", "leave"} : Goto(r, s) BY <1>16 DEF Retry
  <2> QED BY <1>0, <1>5, <1>16, <2>1 DEF Retry, At, StageFits, Stops
<1>17. CASE Finish(r)
  <2>1. up /\ stage[r] \in {"out", "leased"} /\ Goto(r, "leave") /\ UNCHANGED schedulerVars
    BY <1>0, <1>17 DEF Finish, At, StageFits
  <2>2. "leave" \in Stops BY DEF Stops
  <2>3. StageFits(r)' BY <1>3, <2>1, <2>2 DEF StageFits, schedulerVars
  <2> QED BY <1>2, <2>1, <2>2, <2>3
<1>18. CASE Leave(r) BY <1>0, <1>5, <1>18 DEF Leave, At, StageFits, Stops
<1>19. CASE Rejected(r) BY <1>0, <1>5, <1>19 DEF Rejected, At, StageFits, Stops
<1>20. CASE Raised(r)
  <2>1. up /\ stage[r] \in {"out", "leased"} /\ Goto(r, "retract") /\ UNCHANGED schedulerVars
    BY <1>0, <1>20 DEF Raised, At, StageFits
  <2>2. "retract" \in Stops BY DEF Stops
  <2>3. StageFits(r)' BY <1>3, <2>1, <2>2 DEF StageFits, schedulerVars
  <2> QED BY <1>2, <2>1, <2>2, <2>3
<1>21. CASE Recover(r)
  <2>1. up /\ stage[r] = "out" /\ Goto(r, "idle") /\ UNCHANGED schedulerVars
    BY <1>0, <1>21 DEF Recover, At, StageFits, Leased
  <2>2. "idle" \in Stops BY DEF Stops
  <2>3. StageFits(r)' BY <1>3, <2>1, <2>2 DEF StageFits, schedulerVars
  <2> QED BY <1>2, <2>1, <2>2, <2>3
<1>22. CASE Cancel(r)
  <2>1. CASE At(r, "acquire") /\ CancelAcquire(r) /\ Goto(r, "leave")
    <3>1. "leave" \in Stops BY DEF Stops
    <3>2. stage'[r] = "out" BY <1>0, <2>1 DEF CancelAcquire, To
    <3>3. StageFits(r)' BY <1>3, <2>1, <3>1, <3>2 DEF StageFits
    <3> QED BY <1>1, <2>1, <3>1, <3>3 DEF SchedulerAct
  <2>2. CASE /\ At(r, "acquire") /\ Leased(r) /\ UNCHANGED schedulerVars /\ Goto(r, "leave")
    BY <1>6, <2>2 DEF At, Leased, Stops
  <2>3. CASE Stay /\ UNCHANGED schedulerVars BY <1>4, <2>3
  <2>4. CASE At(r, "call") /\ Goto(r, "leave") /\ UNCHANGED schedulerVars
    BY <1>0, <1>6, <2>4 DEF At, StageFits, Stops
  <2> QED BY <1>22, <2>1, <2>2, <2>3, <2>4 DEF Cancel
<1> QED
  BY <1>7, <1>8, <1>9, <1>10, <1>11, <1>12, <1>13, <1>14, <1>15, <1>16, <1>17, <1>18, <1>19,
     <1>20, <1>21, <1>22
  DEF RequestStep

\* Every step keeps the invariant of the slots.
LEMMA SlotsStep ==
  ASSUME SlotsInv, [Next]_vars
  PROVE  SlotsInv'
<1>0. BudgetTypeOK' BY PipelineStep, TypeStep DEF SlotsInv, TypeOK
<1>1. ASSUME NEW r \in Requests, RequestStep(r) \/ Cancel(r) PROVE SlotsInv'
  BY <1>0, <1>1, RequestSlots
<1>2. CASE Crash
  <2>1. /\ stage' = [r \in Requests |-> "out"] /\ overdue' = {} /\ UNCHANGED <<queue, slots, cut>>
        /\ up' = FALSE /\ crashes' = crashes + 1 /\ crashes < MaxCrashes /\ UNCHANGED attempt
        /\ pc' = [r \in Requests |-> IF attempt[r] = 0 THEN "idle" ELSE "done"]
    BY <1>2 DEF Crash, SchedulerCrash
  <2>2. SchedulerInv'
    BY <2>1 DEF SlotsInv, SchedulerInv, SchedulerTypeOK, Stages, GrantsAreSlots, Leased,
                SlotsWithinCapacity, Once
  <2>3. crashes' \in 0 .. MaxCrashes BY <2>1, BoundsAssumption DEF SlotsInv, TypeOK
  <2>4. TypeOK' BY <1>0, <2>1, <2>2, <2>3 DEF SlotsInv, TypeOK, SchedulerInv, Stops
  <2>5. \A r \in Requests : StageFits(r)' BY <2>1 DEF StageFits
  <2> QED BY <2>1, <2>2, <2>4, <2>5 DEF SlotsInv
<1>3. CASE Boot
  <2>1. /\ ~up /\ up' = TRUE /\ queue' = << >> /\ slots' = {}
        /\ UNCHANGED <<stage, overdue, cut, pc, attempt, crashes>>
    BY <1>3 DEF Boot, CleanupPreviousInstanceLeases
  <2>2. \A r \in Requests : stage[r] = "out" BY <2>1 DEF SlotsInv, StageFits
  <2>3. Cardinality(slots') <= Capacity BY <2>1, FS_EmptySet, CapacityAssumption
  <2>4. SchedulerInv'
    BY <2>1, <2>2, <2>3
    DEF SlotsInv, SchedulerInv, SchedulerTypeOK, GrantsAreSlots, Leased, SlotsWithinCapacity, Once
  <2>5. Tidy' BY <2>1 DEF Tidy, Range
  <2>6. TypeOK' BY <1>0, <2>1, <2>4 DEF SlotsInv, TypeOK, SchedulerInv
  <2>7. \A r \in Requests : StageFits(r)' BY <2>1, <2>2 DEF SlotsInv, StageFits
  <2> QED BY <2>4, <2>5, <2>6, <2>7 DEF SlotsInv
<1>4. CASE Clock
  <2>1. ASSUME NEW r \in Requests, SlotExpires(r) \/ EntryGoesStale(r), UNCHANGED pipelineVars
        PROVE  SlotsInv'
    <3>1. SchedulerAct(r) BY <2>1 DEF SchedulerAct
    <3>2. /\ pc = [pc EXCEPT ![r] = pc[r]] /\ pc[r] \in Stops
          /\ attempt \in [Requests -> 0 .. Attempts]
      BY DEF SlotsInv, TypeOK
    <3>3. stage' = stage BY <2>1 DEF SlotExpires, EntryGoesStale
    <3>4. StageFits(r)' BY <2>1, <3>3 DEF SlotsInv, StageFits, pipelineVars
    <3> QED BY <1>0, <2>1, <3>1, <3>2, <3>3, <3>4, RequestMoves DEF pipelineVars
  <2>2. CASE UNCHANGED <<schedulerVars, pipelineVars>> BY <1>0, <2>2, SlotsUntouched
  <2> QED BY <1>4, <2>1, <2>2 DEF Clock
<1>5. CASE UNCHANGED vars BY <1>0, <1>5, SlotsUntouched DEF vars
<1> QED BY <1>1, <1>2, <1>3, <1>4, <1>5 DEF Next

\* The invariant of the slots holds in every reachable state.
LEMMA SlotsInvariant == Spec => []SlotsInv
<1>1. ASSUME Init PROVE SlotsInv
  <2>1. SchedulerInv /\ Tidy
    <3>1. Cardinality(slots) <= Capacity
      BY <1>1, FS_EmptySet, CapacityAssumption DEF Init, SchedulerInit
    <3> QED
      BY <1>1, <3>1
      DEF Init, SchedulerInit, SchedulerInv, SchedulerTypeOK, Stages, GrantsAreSlots, Leased,
          SlotsWithinCapacity, Once, Tidy, Range
  <2>2. BudgetTypeOK
    <3>1. BudgetInit /\ NewLedger \in Ledgers BY <1>1, NewLedgerType DEF Init
    <3>2. ok \in [Requests -> BOOLEAN] /\ outlived \in BOOLEAN BY <3>1 DEF BudgetInit
    <3> QED BY <3>1, <3>2 DEF BudgetInit, BudgetTypeOK, Points, Operations
  <2>3. TypeOK BY <1>1, <2>1, <2>2, BoundsAssumption DEF Init, TypeOK, SchedulerInv, Stops
  <2>4. \A r \in Requests : StageFits(r) BY <1>1 DEF Init, SchedulerInit, StageFits
  <2> QED BY <2>1, <2>3, <2>4 DEF SlotsInv
<1> QED BY <1>1, SlotsStep, PTL DEF Spec

\* The deployment never serves more than its capacity, but for calls that
\* outlasted their slot, for any number of requests, attempts and crashes and
\* any capacity: a call has a lease, and a lease has its slot.
THEOREM CapacityIsHonoured == Spec => []CapacityHonoured
<1>1. SlotsInv => CapacityHonoured
  <2> SUFFICES ASSUME SlotsInv PROVE CapacityHonoured OBVIOUS
  <2> DEFINE S == {r \in Requests : Calling(r)} \ overdue
  <2>1. \A r \in Requests : Calling(r) => Leased(r)
    BY DEF SlotsInv, Calling, StageFits, Leased
  <2>2. S \in SUBSET slots BY <2>1 DEF SlotsInv, SchedulerInv, GrantsAreSlots
  <2>3. Cardinality(S) <= Capacity BY <2>2, Freer DEF SlotsInv
  <2> QED BY <2>3 DEF CapacityHonoured
<1> QED BY <1>1, SlotsInvariant, PTL

\* The types are kept, and no request leaves a slot or a queue entry behind,
\* whatever way it ends, unless it is cancelled in the middle of an acquisition.
THEOREM NothingIsLeftBehind == Spec => []LeasesAreConsistent
<1>1. SlotsInv => LeasesAreConsistent
  BY DEF SlotsInv, LeasesAreConsistent, NothingLeftBehind, Tidy
<1> QED BY <1>1, SlotsInvariant, PTL

-----------------------------------------------------------------------------
(* The calls and the ledger. *)

\* No operation takes another request's money out of the ledger: a charge by
\* the two-hour rule takes the place of the reservation.
LEMMA OthersKeepTheirs ==
  ASSUME NEW l \in Ledgers, NEW q \in Requests, NEW r \in Requests \ {q}, Holds(l, aged, r),
         aged \in SUBSET Requests
  PROVE  /\ Holds(WithReservation(l, q), aged, r)
         /\ Holds(Dropped(l, q), aged, r)
         /\ \A c \in Charges : Holds(Committed(l, q, c), aged, r)
<1>1. l.bills \in [Requests -> Nat] BY DEF Ledgers
<1>2. Holds(CommitStale(l), aged, r) BY <1>1 DEF Holds, CommitStale
<1>3. Holds(WithReservation(l, q), aged, r) BY <1>2 DEF Holds, WithReservation
<1>4. Holds(Dropped(l, q), aged, r) BY DEF Holds, Dropped
<1>5. ASSUME NEW c \in Charges PROVE Holds(Committed(l, q, c), aged, r)
  BY <1>1 DEF Holds, Committed
<1> QED BY <1>3, <1>4, <1>5

\* A request comes to be backed by writing its own reservation.
LEMMA BackedByWriting ==
  ASSUME TypeOK, CallsInv, [Next]_vars
  PROVE  /\ \A r \in Requests : OperationFits(r)'
         /\ \A r \in Requests : Backed(r)' =>
              Backed(r) \/ (at[r] = "write" /\ op[r] = "reserve" /\ Written(r))
<1> DEFINE New(r) == Backed(r) \/ (at[r] = "write" /\ op[r] = "reserve" /\ Written(r))
           Goal == \A r \in Requests : OperationFits(r)' /\ (Backed(r)' => New(r))
<1> SUFFICES Goal OBVIOUS
<1>0. /\ pc \in [Requests -> Stops] /\ at \in [Requests -> Points] /\ op \in [Requests -> Operations]
      /\ ok \in [Requests -> BOOLEAN]
      /\ \A r \in Requests : OperationFits(r)
  BY DEF TypeOK, BudgetTypeOK, CallsInv
\* Only the request that moves has to be looked at.
<1>1. ASSUME NEW r \in Requests,
             \A q \in Requests \ {r} :
               pc'[q] = pc[q] /\ at'[q] = at[q] /\ op'[q] = op[q] /\ ok'[q] = ok[q],
             OperationFits(r)', Backed(r)' => New(r)
      PROVE  Goal
  <2>1. \A q \in Requests \ {r} : OperationFits(q)' /\ (Backed(q)' => Backed(q))
    BY <1>0, <1>1 DEF OperationFits, Backed
  <2> QED BY <1>1, <2>1
<1>2. ASSUME UNCHANGED <<pc, at, op, ok>> PROVE Goal
  BY <1>0, <1>2 DEF OperationFits, Backed
<1>3. ASSUME NEW r \in Requests, NEW s \in Stops, Goto(r, s)
      PROVE  pc'[r] = s /\ \A q \in Requests \ {r} : pc'[q] = pc[q]
  BY <1>0, <1>3 DEF Goto
<1>4. ASSUME NEW r \in Requests, NEW o \in Operations, BeginBudget(r, o)
      PROVE  /\ at[r] = "away" /\ at'[r] = "lock" /\ op'[r] = o /\ ~ok'[r]
             /\ \A q \in Requests \ {r} : at'[q] = at[q] /\ op'[q] = op[q] /\ ok'[q] = ok[q]
  BY <1>0, <1>4 DEF BeginBudget
<1>5. ASSUME NEW r \in Requests, EndBudget(r)
      PROVE  /\ at[r] = "away" /\ at'[r] = "away" /\ ~ok'[r] /\ op'[r] = "reserve"
             /\ \A q \in Requests \ {r} : at'[q] = at[q] /\ op'[q] = op[q] /\ ok'[q] = ok[q]
  BY <1>0, <1>5 DEF EndBudget
<1>6. ASSUME NEW r \in Requests, RequestStep(r) PROVE Goal
  <2>1. CASE Attempt(r)
    <3>1. /\ pc[r] = "idle" /\ pc'[r] \in {"leave", "acquire"} /\ UNCHANGED <<at, op, ok>>
          /\ \A q \in Requests \ {r} : pc'[q] = pc[q]
      BY <1>0, <2>1 DEF Attempt, At, budgetVars
    <3> QED BY <1>0, <1>1, <3>1 DEF OperationFits, Backed
  <2>2. CASE Acquire(r)
    <3>1. /\ pc[r] = "acquire" /\ pc'[r] \in {"leave", "acquire"} /\ UNCHANGED <<at, op, ok>>
          /\ \A q \in Requests \ {r} : pc'[q] = pc[q]
      BY <1>0, <2>2 DEF Acquire, At, budgetVars, Stay, pipelineVars, Goto
    <3> QED BY <1>0, <1>1, <3>1 DEF OperationFits, Backed
  <2>3. CASE Reserve(r)
    <3>1. "reserve" \in Stops /\ "reserve" \in Operations BY DEF Stops, Operations
    <3> QED BY <1>1, <1>3, <1>4, <2>3, <3>1 DEF Reserve, OperationFits, Backed
  <2>4. CASE BudgetStep(r)
    <3>1. UNCHANGED pc BY <2>4 DEF BudgetStep, Stay, pipelineVars
    <3>2. CASE AcquireLock(r) \/ LedgerBusy(r) \/ ReadLedger(r) \/ ReleaseLock(r)
      <4>1. /\ at[r] # "away" /\ UNCHANGED <<op, ok>>
            /\ \A q \in Requests \ {r} : at'[q] = at[q]
            /\ at[r] = "unlock" => at'[r] = "away"
        BY <1>0, <3>2 DEF AcquireLock, LedgerBusy, ReadLedger, ReleaseLock
      <4> QED BY <1>0, <1>1, <3>1, <4>1 DEF OperationFits, Backed
    <3>3. CASE WriteLedger(r)
      <4>1. /\ at[r] = "write" /\ Written(r) /\ UNCHANGED op /\ at'[r] = "unlock"
            /\ \A q \in Requests \ {r} : at'[q] = at[q] /\ ok'[q] = ok[q]
        BY <1>0, <3>3 DEF WriteLedger
      <4> QED BY <1>0, <1>1, <3>1, <4>1 DEF OperationFits, Backed
    <3> QED BY <2>4, <3>2, <3>3 DEF BudgetStep
  <2>5. CASE Call(r)
    <3>1. "call" \in Stops BY DEF Stops
    <3> QED BY <1>1, <1>3, <1>5, <2>5, <3>1 DEF Call, At, OperationFits, Backed
  <2>6. CASE NotReserved(r) \/ Retry(r) \/ Recover(r) \/ Finish(r)
    <3>1. PICK s \in {"leave", "idle"} : Goto(r, s)
      BY <2>6 DEF NotReserved, Retry, Recover, Finish
    <3>2. s \in Stops BY DEF Stops
    <3>3. EndBudget(r) BY <2>6 DEF NotReserved, Retry, Recover, Finish
    <3> QED BY <1>1, <1>3, <1>5, <3>1, <3>2, <3>3 DEF OperationFits, Backed
  <2>7. CASE Answered(r) \/ Streamed(r) \/ CallFails(r) \/ Rejected(r) \/ Raised(r)
    <3>1. PICK s \in {"settle", "giveback", "reject", "retract"} : Goto(r, s)
      BY <2>7 DEF Answered, Streamed, CallFails, Rejected, Raised
    <3>2. s \in Stops BY DEF Stops
    <3>3. \E o \in Operations : BeginBudget(r, o)
      BY <2>7 DEF Answered, Streamed, CallFails, Rejected, Raised, Operations
    <3> QED BY <1>1, <1>3, <1>4, <3>1, <3>2, <3>3 DEF OperationFits, Backed
  <2>8. CASE Leave(r)
    <3>1. /\ pc[r] = "leave" /\ pc'[r] = "done" /\ UNCHANGED <<at, op, ok>>
          /\ \A q \in Requests \ {r} : pc'[q] = pc[q]
      BY <1>0, <2>8 DEF Leave, At, budgetVars, Goto
    <3> QED BY <1>0, <1>1, <3>1 DEF OperationFits, Backed
  <2> QED BY <1>6, <2>1, <2>2, <2>3, <2>4, <2>5, <2>6, <2>7, <2>8 DEF RequestStep
<1>7. ASSUME NEW r \in Requests, Cancel(r) PROVE Goal
  <2>1. CASE /\ pc[r] \in {"acquire", "call"} /\ Goto(r, "leave") /\ UNCHANGED budgetVars
    <3>1. pc'[r] = "leave" /\ \A q \in Requests \ {r} : pc'[q] = pc[q]
      BY <1>0, <2>1 DEF Goto
    <3> QED BY <1>0, <1>1, <2>1, <3>1 DEF OperationFits, Backed, budgetVars
  <2>2. CASE CancelBudget(r) /\ Stay
    <3>1. /\ UNCHANGED <<op, pc>> /\ at[r] # "away" /\ ~ok'[r]
          /\ \A q \in Requests \ {r} : at'[q] = at[q] /\ ok'[q] = ok[q]
          /\ at'[r] \in {"away", "unlock"}
      BY <1>0, <2>2 DEF CancelBudget, Stay, pipelineVars
    <3> QED BY <1>0, <1>1, <3>1 DEF OperationFits, Backed
  <2> QED BY <1>7, <2>1, <2>2 DEF Cancel, At
<1>8. CASE Crash
  <2>1. \A r \in Requests : at'[r] = "away" /\ ~ok'[r] /\ pc'[r] \in {"idle", "done"}
    BY <1>8 DEF Crash, BudgetCrash
  <2> QED BY <2>1 DEF OperationFits, Backed
<1>9. CASE Boot BY <1>2, <1>9 DEF Boot, budgetVars
<1>10. CASE Clock
  <2>1. UNCHANGED <<pc, at, op, ok>>
    BY <1>10 DEF Clock, budgetVars, pipelineVars, LockExpires, ReservationAges
  <2> QED BY <1>2, <2>1
<1>11. CASE UNCHANGED vars BY <1>2, <1>11 DEF vars, budgetVars, pipelineVars
<1> HIDE DEF Goal
<1> QED BY <1>6, <1>7, <1>8, <1>9, <1>10, <1>11 DEF Next

\* Only a request that reserves anew stops being aged.
LEMMA StaysAged ==
  ASSUME BudgetTypeOK, [BudgetNext]_budgetVars, NEW r \in aged, at[r] # "read"
  PROVE  r \in aged'
<1>1. ASSUME NEW q \in Requests, ReadLedger(q) PROVE r \in aged'
  BY <1>1 DEF ReadLedger
<1>2. CASE UNCHANGED aged BY <1>2
<1>3. ASSUME NEW q \in Requests, ReservationAges(q) PROVE r \in aged'
  BY <1>3 DEF ReservationAges
<1> QED
  BY <1>1, <1>2, <1>3
  DEF BudgetNext, budgetVars, BeginBudget, AcquireLock, LedgerBusy, WriteLedger, ReleaseLock,
      CancelBudget, EndBudget, LockExpires, BudgetCrash

\* Every step keeps the money of the calls in the ledger, and in the one being
\* prepared.
LEMMA CallsStep ==
  ASSUME TypeOK, CallsInv, [Next]_vars
  PROVE  CallsInv'
<1>0. BudgetTypeOK /\ Holding /\ [BudgetNext]_budgetVars
  BY PipelineStep DEF TypeOK, CallsInv
<1>1. Holding' BY <1>0, HoldingStep
<1>2. /\ \A r \in Requests : OperationFits(r)'
      /\ \A r \in Requests : Backed(r)' =>
           Backed(r) \/ (at[r] = "write" /\ op[r] = "reserve" /\ Written(r))
  BY BackedByWriting
<1> DEFINE Ledgered == \A r \in Requests : Backed(r)' => Holds(ledger', aged', r)
           Viewed(q) == /\ op'[q] = "reserve" => q \in view'[q].reservations
                        /\ \A r \in Requests \ {q} : Backed(r)' => Holds(view'[q], aged', r)
<1> SUFFICES ASSUME ~outlived'
             PROVE  Ledgered /\ \A q \in Requests : at'[q] = "write" => Viewed(q)
  BY <1>1, <1>2 DEF CallsInv
<1>3. ~outlived BY <1>0, LedgerStep
<1>4. /\ \A r \in Requests : Backed(r) => Holds(ledger, aged, r) /\ at[r] # "write"
      /\ \A q \in Requests : at[q] = "write" =>
           /\ op[q] = "reserve" => q \in view[q].reservations
           /\ \A r \in Requests \ {q} : Backed(r) => Holds(view[q], aged, r)
  BY <1>3 DEF CallsInv, OperationFits, Backed
<1>5. \A r, q \in Requests : at[r] \in {"read", "write"} /\ at[q] \in {"read", "write"} => q = r
  BY <1>0, <1>3 DEF Holding
<1>6. /\ ledger \in Ledgers /\ aged \in SUBSET Requests /\ view \in [Requests -> Ledgers]
      /\ at \in [Requests -> Points]
  BY <1>0 DEF BudgetTypeOK
\* A reservation stays aged until its request reserves anew.
<1>12. ASSUME NEW l, NEW r \in Requests, Backed(r), Holds(l, aged, r) PROVE Holds(l, aged', r)
  <2>1. at[r] # "read" BY <1>12 DEF CallsInv, OperationFits, Backed
  <2>2. r \in aged => r \in aged' BY <1>0, <2>1, StaysAged
  <2> QED BY <1>12, <2>2 DEF Holds
<1>7. ASSUME NEW r \in Requests, at[r] = "write", op[r] = "reserve", Written(r)
      PROVE  Holds(ledger', aged', r)
  BY <1>4, <1>7 DEF Written, Holds
<1>8. CASE /\ UNCHANGED <<ledger, taken>>
           /\ \A q \in Requests :
                at'[q] = "write" =>
                  /\ at[q] = "write" /\ view'[q] = view[q] /\ op'[q] = op[q]
  <2>1. Ledgered BY <1>2, <1>4, <1>7, <1>8, <1>12
  <2>2. ASSUME NEW q \in Requests, at'[q] = "write" PROVE Viewed(q)
    <3>1. at[q] = "write" /\ view'[q] = view[q] /\ op'[q] = op[q] BY <1>8, <2>2
    <3>2. \A r \in Requests \ {q} : Backed(r)' => Backed(r) BY <1>2, <1>5, <3>1
    <3> QED BY <1>4, <1>12, <3>1, <3>2
  <2> QED BY <2>1, <2>2
<1>9. ASSUME NEW p \in Requests, ReadLedger(p), at'[p] = "write",
             \A q \in Requests : at'[q] = "write" => q = p
      PROVE  Ledgered /\ \A q \in Requests : at'[q] = "write" => Viewed(q)
  <2>1. UNCHANGED <<ledger, op>> /\ at[p] = "read" BY <1>9 DEF ReadLedger
  <2>2. Ledgered BY <1>2, <1>4, <1>7, <1>12, <2>1
  <2>3. \A r \in Requests \ {p} : Backed(r)' => Backed(r) BY <1>2, <1>5, <2>1
  <2>4. \/ op[p] = "reserve" /\ view'[p] = WithReservation(ledger, p)
        \/ op[p] = "settle" /\ \E c \in Charges : view'[p] = Committed(ledger, p, c)
        \/ op[p] = "release" /\ view'[p] = Dropped(ledger, p)
    BY <1>6, <1>9 DEF ReadLedger
  <2>5. \A r \in Requests \ {p} : Backed(r)' => Holds(view'[p], aged', r)
    <3> SUFFICES ASSUME NEW r \in Requests \ {p}, Backed(r)' PROVE Holds(view'[p], aged', r)
      OBVIOUS
    <3>1. Backed(r) /\ Holds(ledger, aged, r) BY <1>4, <2>3
    <3>2. Holds(view'[p], aged, r) BY <1>6, <2>4, <3>1, OthersKeepTheirs
    <3> QED BY <1>12, <3>1, <3>2
  <2>6. p \in WithReservation(ledger, p).reservations BY DEF WithReservation
  <2>7. Viewed(p) BY <2>1, <2>4, <2>5, <2>6
  <2> QED BY <1>9, <2>2, <2>7
<1>10. ASSUME NEW p \in Requests, at[p] = "write", Written(p),
              \A q \in Requests : at'[q] # "write"
       PROVE  Ledgered /\ \A q \in Requests : at'[q] = "write" => Viewed(q)
  <2>1. ledger' = view[p] BY <1>10 DEF Written
  <2>2. ASSUME NEW r \in Requests, Backed(r)' PROVE Holds(ledger', aged', r)
    <3>1. CASE Backed(r)
      <4>1. r # p BY <1>4, <1>10, <3>1
      <4> QED BY <1>4, <1>10, <1>12, <2>1, <3>1, <4>1
    <3>2. CASE at[r] = "write" /\ op[r] = "reserve" /\ Written(r) BY <1>7, <3>2
    <3> QED BY <1>2, <2>2, <3>1, <3>2
  <2> QED BY <1>10, <2>2
<1> HIDE DEF Ledgered, Viewed
<1> QED BY <1>0, <1>8, <1>9, <1>10, LedgerStep

\* A request that is upstream has its estimate reserved or charged, for any
\* number of requests and whatever the others do to the ledger meanwhile: no
\* call runs on money that another reservation may use, unless an operation
\* outlived its lock.
THEOREM CallsStayCovered == Spec => []CallsAreCovered
<1>1. ASSUME Init PROVE CallsInv
  BY <1>1 DEF Init, BudgetInit, CallsInv, Holding, OperationFits, Backed
<1>2. ASSUME SlotsInv, CallsInv, [Next]_vars PROVE CallsInv'
  BY <1>2, CallsStep DEF SlotsInv
<1>3. CallsInv => CallsAreCovered BY DEF CallsInv, CallsAreCovered, Backed, Holds
<1> QED BY <1>1, <1>2, <1>3, SlotsInvariant, PTL DEF Spec
=============================================================================
