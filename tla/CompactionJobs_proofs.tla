------------------------- MODULE CompactionJobs_proofs -------------------------
(***************************************************************************)
(* The compaction jobs for any number of jobs, workers, batches and        *)
(* deployments and any limits: no call is replayed, one is in flight, an   *)
(* unknown outcome is held and a published candidate is complete.          *)
(***************************************************************************)
EXTENDS CompactionJobs, FiniteSetTheorems, SequenceTheorems, TLAPS

\* The queue holds queued jobs, each once.
Queued ==
    /\ \A i \in 1..Len(queue) : state[queue[i]] = "queued"
    /\ \A i, l \in 1..Len(queue) : queue[i] = queue[l] => i = l

\* Jobs that keep claim from starting another.
Open(j) == state[j] \in {"running", "needs_context"}

\* At most one job of the installation is open.
OneOpen == \A i, j \in Jobs : Open(i) /\ Open(j) => i = j

\* A job has at most one call with an unknown outcome.
OneDispatched ==
    \A j \in Jobs : \A k, l \in Keys :
       steps[j][k] = "dispatched" /\ steps[j][l] = "dispatched" => k = l

\* What the provider received and answered for a step, by the step's state.
StepCounts ==
    \A j \in Jobs, k \in Keys :
       /\ sends[j][k] <= attempt[j][k]
       /\ sends[j][k] <= refusals[j][k] + 1
       /\ steps[j][k] = "none" => attempt[j][k] = 0
       /\ steps[j][k] = "refused" => sends[j][k] <= refusals[j][k]
       /\ steps[j][k] = "completed" => sends[j][k] > 0

\* Some deployment returned a summary of the batch.
Summarised(j, b) == \E t \in Targets : steps[j][<<b, t>>] = "completed"

\* A published job rests on complete steps.
ReadySteps ==
    \A j \in Jobs : state[j] = "ready" =>
       /\ \A b \in 1..Batches : Summarised(j, b)
       /\ \A k \in Keys : steps[j][k] \in {"none", "completed"}

\* The charges are within the limits, and a dispatched step has been charged
\* and has room for its output.
Charges ==
    \A j \in Jobs :
       /\ calls[j] <= MaxCalls /\ input[j] <= MaxInput /\ output[j] <= MaxOutput
       /\ \A k \in Keys : steps[j][k] = "dispatched" =>
            /\ calls[j] >= 1 /\ input[j] >= InputTokens[k[1]]
            /\ output[j] + OutputReserve <= MaxOutput

\* What the store's tables satisfy.
Rows ==
    /\ Queued /\ OneOpen /\ UnknownOutcomesAreHeld /\ CancelSticks
    /\ OneDispatched /\ StepCounts /\ ReadySteps /\ Charges

\* The worker has dispatched its step and has not recorded the outcome.
Holds(w) == at[w].pc \in {"operation", "send", "sent", "record"}

\* Nobody but the worker that dispatched a step decides it, except for the
\* operator, who does not while the call may be in flight.
HeldStep(w) ==
    Holds(w) =>
       /\ steps[at[w].job][Key(w)] \in {"dispatched", "abandoned"}
       /\ at[w].pc \in {"send", "sent"} => steps[at[w].job][Key(w)] = "dispatched"

\* What the provider received and answered, by where the holder of the step is.
HeldCounts(w) ==
    LET s == sends[at[w].job][Key(w)]
        r == refusals[at[w].job][Key(w)]
    IN
    /\ at[w].pc \in {"operation", "send"} => s < attempt[at[w].job][Key(w)] /\ s <= r
    /\ at[w].pc = "sent" => s > 0
    /\ at[w].pc = "record" /\ at[w].got = "refused" => s <= r
    /\ at[w].pc = "record" /\ at[w].got = "ok" => s > 0

\* A worker goes from batch to batch.
Progress(w) ==
    /\ at[w].pc \in {"cached", "dispatch", "operation", "send", "sent", "record"} =>
         \A b \in 1..Batches : b < at[w].batch => Summarised(at[w].job, b)
    /\ at[w].pc = "publish" => \A b \in 1..Batches : Summarised(at[w].job, b)

WorkerOK(w) == HeldStep(w) /\ HeldCounts(w) /\ Progress(w)

\* A step is held by one worker.
OneHolder ==
    \A v, w \in Workers :
       Holds(v) /\ Holds(w) /\ at[v].job = at[w].job /\ Key(v) = Key(w) => v = w

\* The inductive invariant.
IInv == TypeOK /\ Rows /\ (\A w \in Workers : WorkerOK(w)) /\ OneHolder

-----------------------------------------------------------------------------
(* Types. *)

\* A worker that is not idle has a tick.
LEMMA Busy ==
    ASSUME TypeOK, NEW w \in Workers, at[w].pc # "idle"
    PROVE  /\ at[w] \in Ticks
           /\ at[w].job \in Jobs /\ at[w].batch \in 1..Batches /\ at[w].target \in Targets
           /\ at[w].try \in {0, 1} /\ at[w].got \in {"none", "notsent"} \cup Answers
           /\ Key(w) \in Keys
<1>1. at[w] \in Ticks BY DEF TypeOK, Idle
<1> QED BY <1>1 DEF Ticks, Key, Keys

\* There is a deployment to begin with.
LEMMA AnyTargetType == AnyTarget \in Targets
BY LimitsAssumption DEF AnyTarget

\* A move of a worker replaces what it is doing.
LEMMA Moved ==
    ASSUME TypeOK, NEW w \in Workers,
           NEW x \in Ticks \cup {Idle}, at' = [at EXCEPT ![w] = x]
    PROVE  /\ at' \in [Workers -> Ticks \cup {Idle}] /\ at'[w] = x
           /\ \A v \in Workers \ {w} : at'[v] = at[v]
BY DEF TypeOK

Points == {"cached", "dispatch", "operation", "send", "sent", "record", "publish", "failing"}

\* A worker that goes to another point keeps everything else of its tick.
LEMMA Went ==
    ASSUME TypeOK, NEW w \in Workers, at[w].pc # "idle", NEW p \in Points, Goto(w, p)
    PROVE  LET x == Tick(p, at[w].job, at[w].batch, at[w].target, at[w].try, at[w].got)
           IN  x \in Ticks /\ at' = [at EXCEPT ![w] = x]
<1>1. at[w] \in Ticks BY Busy
<1>2. at' = [at EXCEPT ![w] = [at[w] EXCEPT !.pc = p]] BY DEF Goto
<1>3. [at[w] EXCEPT !.pc = p] = Tick(p, at[w].job, at[w].batch, at[w].target, at[w].try, at[w].got)
  BY <1>1 DEF Ticks, Tick
<1> QED BY <1>1, <1>2, <1>3 DEF Ticks, Tick, Points

-----------------------------------------------------------------------------
(* The queue. *)

\* SetToSeq lists every member of the set once.
LEMMA Enumerated ==
    ASSUME NEW S \in SUBSET Jobs
    PROVE  LET q == SetToSeq(S)
           IN  /\ q \in Seq(Jobs)
               /\ \A i \in 1..Len(q) : q[i] \in S
               /\ \A i, l \in 1..Len(q) : q[i] = q[l] => i = l
<1> DEFINE n == Cardinality(S)  q == SetToSeq(S)
<1>1. IsFiniteSet(S) BY LimitsAssumption, FS_Subset
<1>2. n \in Nat /\ ExistsBijection(1..n, S) BY <1>1, FS_CardinalityType
<1>3. \E f \in [1..n -> S] : IsInjective(f)
  BY <1>2 DEF ExistsBijection, Bijection, Injection
<1>4. q \in [1..n -> S] /\ IsInjective(q) BY <1>3 DEF SetToSeq
<1> HIDE DEF q, n
<1>5. q \in Seq(S) /\ Len(q) = n BY <1>2, <1>4
<1>6. q \in Seq(Jobs) BY <1>5, SeqMonotonic
<1>7. \A i \in 1..Len(q) : q[i] \in S BY <1>4, <1>5
<1>8. \A i, l \in 1..Len(q) : q[i] = q[l] => i = l BY <1>4, <1>5 DEF IsInjective
<1> QED BY <1>6, <1>7, <1>8 DEF q

\* A job taken out of the queue is gone; the others stay, each once.
LEMMA Removed ==
    ASSUME NEW q \in Seq(Jobs), NEW j \in Jobs,
           \A i, l \in 1..Len(q) : q[i] = q[l] => i = l
    PROVE  LET r == Without(q, j)
           IN  /\ r \in Seq(Jobs)
               /\ \A i \in 1..Len(r) : r[i] # j /\ \E l \in 1..Len(q) : r[i] = q[l]
               /\ \A i, l \in 1..Len(r) : r[i] = r[l] => i = l
<1> DEFINE r == Without(q, j)
<1>1. CASE ~ \E p \in 1..Len(q) : q[p] = j
  <2>1. r = q BY <1>1 DEF Without, RemoveFirst
  <2> QED BY <1>1, <2>1
<1>2. ASSUME NEW p \in 1..Len(q), q[p] = j
      PROVE  /\ r \in Seq(Jobs)
             /\ \A i \in 1..Len(r) : r[i] # j /\ \E l \in 1..Len(q) : r[i] = q[l]
             /\ \A i, l \in 1..Len(r) : r[i] = r[l] => i = l
  <2> DEFINE I == {i \in 1..Len(q) : q[i] = j}
  <2>1. I = {p} BY <1>2
  <2>2. Min({p}) = p BY DEF Min
  <2>3. r = RemoveAt(q, Min(I)) BY <1>2, <2>1 DEF Without, RemoveFirst, SelectInSeq
  <2> DEFINE a == SubSeq(q, 1, p - 1)  b == SubSeq(q, p + 1, Len(q))
  <2>4. r = a \o b BY <2>1, <2>2, <2>3 DEF RemoveAt
  <2>5. a \in Seq(Jobs) /\ Len(a) = p - 1 /\ \A i \in 1..p - 1 : a[i] = q[i]
    OBVIOUS
  <2>6. b \in Seq(Jobs) /\ Len(b) = Len(q) - p /\ \A i \in 1..Len(q) - p : b[i] = q[p + i]
    OBVIOUS
  <2> HIDE DEF r, a, b
  <2>7. r \in Seq(Jobs) /\ Len(r) = Len(q) - 1 BY <2>4, <2>5, <2>6
  <2>8. ASSUME NEW i \in 1..Len(r) PROVE r[i] = IF i < p THEN q[i] ELSE q[i + 1]
    <3>1. CASE i < p BY <2>4, <2>5, <2>6, <2>7, <3>1
    <3>2. CASE i >= p
      <4>1. r[i] = b[i - Len(a)] BY <2>4, <2>5, <2>6, <2>7, <3>2
      <4>2. i - (p - 1) \in 1..Len(q) - p /\ p + (i - (p - 1)) = i + 1 BY <2>7, <3>2
      <4> QED BY <2>5, <2>6, <3>2, <4>1, <4>2
    <3> QED BY <3>1, <3>2
  <2>9. \A i \in 1..Len(r) : r[i] # j /\ \E l \in 1..Len(q) : r[i] = q[l]
    BY <1>2, <2>7, <2>8
  <2>10. \A i, l \in 1..Len(r) : r[i] = r[l] => i = l
    BY <1>2, <2>7, <2>8
  <2> QED BY <2>7, <2>9, <2>10
<1> QED BY <1>1, <1>2

-----------------------------------------------------------------------------
(* What a step of one worker leaves to the others. *)

\* A worker that does not move keeps its part of the invariant if completed
\* steps stay completed and nobody touches the step it holds, except for the
\* operator while no call is in flight.
LEMMA Bystander ==
    ASSUME TypeOK, NEW v \in Workers, WorkerOK(v), at'[v] = at[v],
           \A j \in Jobs, k \in Keys : steps[j][k] = "completed" => steps'[j][k] = "completed",
           Holds(v) =>
             /\ \/ steps'[at[v].job][Key(v)] = steps[at[v].job][Key(v)]
                \/ /\ steps'[at[v].job][Key(v)] = "abandoned"
                   /\ at[v].pc \notin {"send", "sent"}
             /\ attempt'[at[v].job][Key(v)] = attempt[at[v].job][Key(v)]
             /\ sends'[at[v].job][Key(v)] = sends[at[v].job][Key(v)]
             /\ refusals'[at[v].job][Key(v)] = refusals[at[v].job][Key(v)]
    PROVE  WorkerOK(v)'
<1>1. Key(v)' = Key(v) BY DEF Key
<1>2. HeldStep(v)' BY <1>1 DEF WorkerOK, HeldStep, Holds
<1>3. HeldCounts(v)' BY <1>1 DEF WorkerOK, HeldCounts, Holds
<1>4. ASSUME at[v].pc # "idle", NEW b \in 1..Batches, Summarised(at[v].job, b)
      PROVE  Summarised(at[v].job, b)'
  <2>1. at[v].job \in Jobs BY <1>4, Busy
  <2>2. PICK t \in Targets : steps[at[v].job][<<b, t>>] = "completed"
    BY <1>4 DEF Summarised
  <2>3. <<b, t>> \in Keys BY DEF Keys
  <2>4. steps'[at[v].job][<<b, t>>] = "completed" BY <2>1, <2>2, <2>3
  <2> QED BY <2>4 DEF Summarised
<1>5. Progress(v)'
  BY <1>4 DEF WorkerOK, Progress, Summarised
<1> QED BY <1>2, <1>3, <1>5 DEF WorkerOK

\* A worker that leaves its step, or stays with it, keeps holders apart.
LEMMA StillOneHolder ==
    ASSUME OneHolder, NEW w \in Workers, \A v \in Workers \ {w} : at'[v] = at[v],
           Holds(w)' => Holds(w) /\ at'[w].job = at[w].job /\ Key(w)' = Key(w)
    PROVE  OneHolder'
BY DEF OneHolder, Holds, Key

\* A step that changes nothing but where a worker is.
LEMMA QuietMove ==
    ASSUME IInv, NEW w \in Workers, at[w].pc # "idle",
           NEW x \in Ticks \cup {Idle}, at' = [at EXCEPT ![w] = x],
           UNCHANGED <<rows, sends, refusals>>,
           x.pc \in {"operation", "send", "sent", "record"} =>
             Holds(w) /\ x.job = at[w].job /\ <<x.batch, x.target>> = Key(w),
           WorkerOK(w)'
    PROVE  IInv'
<1>1. at' \in [Workers -> Ticks \cup {Idle}] /\ at'[w] = x
      /\ \A v \in Workers \ {w} : at'[v] = at[v]
  BY Moved DEF IInv
<1>2. TypeOK' BY <1>1 DEF IInv, TypeOK, rows
<1>3. Rows'
  BY DEF IInv, rows, Rows, Queued, OneOpen, Open, UnknownOutcomesAreHeld, CancelSticks, Unresolved,
         OneDispatched, StepCounts, ReadySteps, Summarised, Charges
<1>4. ASSUME NEW v \in Workers, v # w PROVE WorkerOK(v)'
  BY <1>1, <1>4, Bystander DEF IInv, rows
<1>5. OneHolder' BY <1>1, StillOneHolder DEF IInv, Holds, Key
<1> QED BY <1>2, <1>3, <1>4, <1>5 DEF IInv

-----------------------------------------------------------------------------
(* The steps that move a worker and nothing else. *)

\* A worker that gives up holds nothing.
LEMMA GivesUp ==
    ASSUME IInv, NEW w \in Workers, at[w].pc # "idle", Goto(w, "failing"),
           UNCHANGED <<rows, sends, refusals>>
    PROVE  IInv'
<1> DEFINE x == Tick("failing", at[w].job, at[w].batch, at[w].target, at[w].try, at[w].got)
<1>1. x \in Ticks /\ at' = [at EXCEPT ![w] = x] BY Went DEF IInv, Points
<1>2. x.pc = "failing" BY DEF Tick
<1> HIDE DEF x
<1>3. at'[w].pc = "failing" BY <1>1, <1>2, Moved DEF IInv
<1>4. WorkerOK(w)' BY <1>3 DEF WorkerOK, HeldStep, HeldCounts, Progress, Holds
<1> QED BY <1>1, <1>2, <1>4, QuietMove

\* A worker that dies holds nothing; its step stays dispatched.
LEMMA CrashStep ==
    ASSUME IInv, NEW w \in Workers, Crash(w)
    PROVE  IInv'
<1>1. at[w].pc # "idle" BY DEF IInv, TypeOK, Ticks, Crash
<1>2. at' = [at EXCEPT ![w] = Idle] /\ Idle.pc = "idle" BY DEF Crash, Idle
<1>3. at'[w].pc = "idle" BY <1>1, <1>2, Moved DEF IInv
<1>4. WorkerOK(w)' BY <1>3 DEF WorkerOK, HeldStep, HeldCounts, Progress, Holds
<1> QED BY <1>1, <1>2, <1>4, QuietMove DEF Crash

\* A worker that has the summary of its batch goes on to the next, or to
\* publishing after the last.
LEMMA GoesOn ==
    ASSUME IInv, NEW w \in Workers, at[w].pc \in {"cached", "record"}, NextBatch(w),
           NEW j \in Jobs, NEW b \in 1..Batches, j = at[w].job, b = at[w].batch,
           \A i \in Jobs, k \in Keys : steps[i][k] = "completed" => steps'[i][k] = "completed",
           Summarised(j, b)'
    PROVE  \E x \in Ticks : /\ at' = [at EXCEPT ![w] = x]
                            /\ x.pc \in {"cached", "publish"}
                            /\ WorkerOK(w)'
<1> DEFINE x == IF b = Batches
                THEN Tick("publish", j, b, at[w].target, at[w].try, "none")
                ELSE Tick("cached", j, b + 1, AnyTarget, at[w].try, "none")
<1>0. TypeOK /\ WorkerOK(w) /\ at[w].pc # "idle" BY DEF IInv
<1>1. at[w].target \in Targets /\ at[w].try \in {0, 1} BY <1>0, Busy
<1>2. at' = [at EXCEPT ![w] = x] BY DEF NextBatch
<1>3. x \in Ticks BY <1>1, AnyTargetType, LimitsAssumption DEF Ticks, Tick
<1>4. /\ x.pc \in {"cached", "publish"} /\ x.job = j
      /\ x.pc = "cached" => x.batch = b + 1
      /\ x.pc = "publish" => b = Batches
  BY DEF Tick
<1> HIDE DEF x
<1>5. at'[w] = x BY <1>0, <1>2, <1>3, Moved
<1>6. ASSUME NEW c \in 1..Batches, c <= b PROVE Summarised(j, c)'
  <2>1. CASE c = b BY <2>1
  <2>2. CASE c < b
    <3>1. Summarised(j, c) BY <1>0, <2>2 DEF WorkerOK, Progress
    <3>2. PICK t \in Targets : steps[j][<<c, t>>] = "completed" BY <3>1 DEF Summarised
    <3>3. <<c, t>> \in Keys BY DEF Keys
    <3>4. steps'[j][<<c, t>>] = "completed" BY <3>2, <3>3
    <3> QED BY <3>4 DEF Summarised
  <2> QED BY <1>6, <2>1, <2>2
<1>7. Progress(w)'
  <2>1. CASE x.pc = "cached"
    <3>1. \A c \in 1..Batches : c < x.batch => Summarised(j, c)' BY <1>4, <1>6, <2>1
    <3> QED BY <1>4, <1>5, <2>1, <3>1 DEF Progress, Summarised
  <2>2. CASE x.pc = "publish"
    <3>1. \A c \in 1..Batches : Summarised(j, c)' BY <1>4, <1>6, <2>2
    <3> QED BY <1>4, <1>5, <2>2, <3>1 DEF Progress, Summarised
  <2> QED BY <1>4, <2>1, <2>2
<1>8. WorkerOK(w)' BY <1>4, <1>5, <1>7 DEF WorkerOK, HeldStep, HeldCounts, Holds
<1> QED BY <1>2, <1>3, <1>4, <1>8

\* cached_step: a completed step takes the worker to the next batch.
LEMMA CachedStep ==
    ASSUME IInv, NEW w \in Workers, NEW t \in Targets, Cached(w, t)
    PROVE  IInv'
<1>0. TypeOK /\ WorkerOK(w) /\ at[w].pc = "cached" /\ UNCHANGED <<rows, sends, refusals>>
  BY DEF IInv, Cached
<1>1. PICK j \in Jobs, b \in 1..Batches : j = at[w].job /\ b = at[w].batch BY <1>0, Busy
<1>2. CASE steps[j][<<b, t>>] = "completed" /\ NextBatch(w)
  <2>1. Summarised(j, b)' BY <1>0, <1>2 DEF Summarised, rows
  <2>2. PICK x \in Ticks : /\ at' = [at EXCEPT ![w] = x]
                           /\ x.pc \in {"cached", "publish"} /\ WorkerOK(w)'
    BY <1>0, <1>1, <1>2, <2>1, GoesOn DEF rows
  <2> QED BY <1>0, <2>2, QuietMove
<1>3. CASE at' = [at EXCEPT ![w] = Tick("dispatch", @.job, @.batch, t, @.try, @.got)]
  <2> DEFINE x == Tick("dispatch", at[w].job, at[w].batch, t, at[w].try, at[w].got)
  <2>1. at' = [at EXCEPT ![w] = x] BY <1>3
  <2>2. x \in Ticks BY <1>0, Busy DEF Ticks, Tick
  <2>3. x.pc = "dispatch" /\ x.job = at[w].job /\ x.batch = at[w].batch BY DEF Tick
  <2> HIDE DEF x
  <2>4. at'[w] = x BY <1>0, <2>1, <2>2, Moved
  <2>5. WorkerOK(w)'
    BY <1>0, <2>3, <2>4 DEF WorkerOK, HeldStep, HeldCounts, Progress, Holds, Summarised, rows
  <2> QED BY <1>0, <2>1, <2>2, <2>3, <2>5, QuietMove
<1>4. CASE Goto(w, "failing") BY <1>0, <1>4, GivesUp
<1> QED BY <1>1, <1>2, <1>3, <1>4 DEF Cached

\* operation: the worker may send as long as its step is dispatched.
LEMMA OperationStep ==
    ASSUME IInv, NEW w \in Workers, Operation(w)
    PROVE  IInv'
<1>0. TypeOK /\ WorkerOK(w) /\ at[w].pc = "operation" /\ UNCHANGED <<rows, sends, refusals>>
  BY DEF IInv, Operation
<1>1. CASE Leased(w) /\ steps[at[w].job][Key(w)] = "dispatched"
  <2> DEFINE x == Tick("send", at[w].job, at[w].batch, at[w].target, at[w].try, at[w].got)
  <2>1. x \in Ticks /\ at' = [at EXCEPT ![w] = x] BY <1>0, <1>1, Went DEF Points, Operation
  <2>2. x.pc = "send" /\ x.job = at[w].job /\ x.batch = at[w].batch /\ x.target = at[w].target
    BY DEF Tick
  <2> HIDE DEF x
  <2>3. at'[w] = x BY <1>0, <2>1, Moved
  <2>4. WorkerOK(w)'
    BY <1>0, <1>1, <2>2, <2>3
    DEF WorkerOK, HeldStep, HeldCounts, Progress, Holds, Summarised, Key, rows
  <2> QED BY <1>0, <2>1, <2>2, <2>4, QuietMove DEF Holds, Key
<1>2. CASE ~(Leased(w) /\ steps[at[w].job][Key(w)] = "dispatched")
  BY <1>0, <1>2, GivesUp DEF Operation
<1> QED BY <1>1, <1>2

\* Where a worker is when its call is over.
LEMMA WasAnswered ==
    ASSUME TypeOK, NEW w \in Workers, at[w].pc # "idle",
           NEW got \in {"notsent"} \cup Answers, Answered(w, got)
    PROVE  \E x \in Ticks : /\ at' = [at EXCEPT ![w] = x] /\ at'[w] = x
                            /\ x.pc = "record" /\ x.got = got
                            /\ x.job = at[w].job /\ x.batch = at[w].batch
                            /\ x.target = at[w].target /\ Key(w)' = Key(w)
<1> DEFINE x == Tick("record", at[w].job, at[w].batch, at[w].target, at[w].try, got)
<1>1. at' = [at EXCEPT ![w] = x] BY DEF Answered
<1>2. x \in Ticks BY Busy DEF Ticks, Tick
<1>3. /\ x.pc = "record" /\ x.got = got /\ x.job = at[w].job /\ x.batch = at[w].batch
      /\ x.target = at[w].target
  BY DEF Tick
<1> HIDE DEF x
<1>4. at'[w] = x BY <1>1, <1>2, Moved
<1>5. Key(w)' = Key(w) BY <1>3, <1>4 DEF Key
<1> QED BY <1>1, <1>2, <1>3, <1>4, <1>5

\* _before_summary_send refuses: the provider received nothing.
LEMMA NotSentMove ==
    ASSUME IInv, NEW w \in Workers, NotSent(w)
    PROVE  IInv'
<1>0. TypeOK /\ WorkerOK(w) /\ at[w].pc = "send" /\ UNCHANGED <<rows, sends, refusals>>
  BY DEF IInv, NotSent
<1>1. PICK x \in Ticks : /\ at' = [at EXCEPT ![w] = x] /\ at'[w] = x
                         /\ x.pc = "record" /\ x.got = "notsent"
                         /\ x.job = at[w].job /\ x.batch = at[w].batch
                         /\ x.target = at[w].target /\ Key(w)' = Key(w)
  BY <1>0, WasAnswered DEF NotSent
<1>2. WorkerOK(w)'
  BY <1>0, <1>1 DEF WorkerOK, HeldStep, HeldCounts, Progress, Holds, Summarised, rows
<1> QED BY <1>0, <1>1, <1>2, QuietMove DEF Holds, Key

-----------------------------------------------------------------------------
(* The steps of a worker that concern the step it works on. *)

\* A function of jobs and steps that changes at one place at most.
ChangesAt(f, g, j, k) ==
    \A i \in Jobs, l \in Keys : i # j \/ l # k => g[i][l] = f[i][l]

\* What a worker does to its own step does not concern the others: they hold
\* other steps.
LEMMA Others ==
    ASSUME IInv, NEW w \in Workers, NEW j \in Jobs, NEW k \in Keys, j = at[w].job, k = Key(w),
           Holds(w) \/ steps[j][k] \in {"none", "refused"},
           \A v \in Workers \ {w} : at'[v] = at[v],
           steps[j][k] = "completed" => steps'[j][k] = "completed",
           ChangesAt(steps, steps', j, k), ChangesAt(attempt, attempt', j, k),
           ChangesAt(sends, sends', j, k), ChangesAt(refusals, refusals', j, k),
           NEW v \in Workers, v # w
    PROVE  WorkerOK(v)' /\ (Holds(v) => at[v].job # j \/ Key(v) # k)
<1>1. TypeOK /\ OneHolder /\ WorkerOK(v) /\ at'[v] = at[v] BY DEF IInv
<1>2. ASSUME Holds(v) PROVE (at[v].job # j \/ Key(v) # k) /\ at[v].job \in Jobs /\ Key(v) \in Keys
  <2>1. at[v].job \in Jobs /\ Key(v) \in Keys BY <1>1, <1>2, Busy DEF Holds
  <2>2. CASE Holds(w) BY <1>1, <1>2, <2>1, <2>2 DEF OneHolder
  <2>3. CASE steps[j][k] \in {"none", "refused"}
    BY <1>1, <1>2, <2>1, <2>3 DEF WorkerOK, HeldStep
  <2> QED BY <2>2, <2>3
<1>3. \A i \in Jobs, l \in Keys : steps[i][l] = "completed" => steps'[i][l] = "completed"
  BY DEF ChangesAt
<1>4. Holds(v) =>
        /\ steps'[at[v].job][Key(v)] = steps[at[v].job][Key(v)]
        /\ attempt'[at[v].job][Key(v)] = attempt[at[v].job][Key(v)]
        /\ sends'[at[v].job][Key(v)] = sends[at[v].job][Key(v)]
        /\ refusals'[at[v].job][Key(v)] = refusals[at[v].job][Key(v)]
  BY <1>2 DEF ChangesAt
<1>5. WorkerOK(v)' BY <1>1, <1>3, <1>4, Bystander
<1> QED BY <1>2, <1>5

\* A step that changes counts only.
LEMMA SameRows ==
    ASSUME Rows, StepCounts',
           UNCHANGED <<state, steps, calls, input, output, queue, cancelRequested>>
    PROVE  Rows'
<1>1. Queued' /\ OneOpen' /\ CancelSticks' BY DEF Rows, Queued, OneOpen, Open, CancelSticks
<1>2. UnknownOutcomesAreHeld' /\ OneDispatched'
  BY DEF Rows, UnknownOutcomesAreHeld, Unresolved, OneDispatched
<1>3. ReadySteps' BY DEF Rows, ReadySteps, Summarised
<1>4. Charges' BY DEF Rows, Charges
<1> QED BY <1>1, <1>2, <1>3, <1>4 DEF Rows

\* The provider receives a call that it has refused as often as it got it before.
LEMMA SendStep ==
    ASSUME IInv, NEW w \in Workers, Send(w)
    PROVE  IInv'
<1>0. /\ TypeOK /\ Rows /\ WorkerOK(w) /\ OneHolder
      /\ at[w].pc = "send" /\ UNCHANGED <<rows, refusals>>
  BY DEF IInv, Send
<1> DEFINE x == Tick("sent", at[w].job, at[w].batch, at[w].target, at[w].try, at[w].got)
<1>1. x \in Ticks /\ at' = [at EXCEPT ![w] = x] BY <1>0, Went DEF Points, Send
<1>2. x.pc = "sent" /\ x.job = at[w].job /\ x.batch = at[w].batch /\ x.target = at[w].target
  BY DEF Tick
<1> HIDE DEF x
<1>3. /\ at' \in [Workers -> Ticks \cup {Idle}] /\ at'[w] = x
      /\ \A v \in Workers \ {w} : at'[v] = at[v]
  BY <1>0, <1>1, Moved
<1>4. PICK j \in Jobs, k \in Keys : j = at[w].job /\ k = Key(w) BY <1>0, Busy
<1>5. Key(w)' = k /\ at'[w].job = j BY <1>2, <1>3, <1>4 DEF Key
<1>6. /\ sends' \in [Jobs -> [Keys -> Nat]]
      /\ sends'[j][k] = sends[j][k] + 1 /\ ChangesAt(sends, sends', j, k)
      /\ sends[j][k] \in Nat
  <2>1. sends \in [Jobs -> [Keys -> Nat]] BY <1>0 DEF TypeOK
  <2>2. sends' = [sends EXCEPT ![j][k] = @ + 1] BY <1>4 DEF Send
  <2> QED BY <2>1, <2>2 DEF ChangesAt
<1>7. /\ sends[j][k] < attempt[j][k] /\ sends[j][k] <= refusals[j][k]
      /\ steps[j][k] = "dispatched" /\ attempt[j][k] \in 0..2 /\ refusals[j][k] \in Nat
  BY <1>0, <1>4 DEF WorkerOK, HeldStep, HeldCounts, Holds, TypeOK
<1>8. UNCHANGED <<state, steps, attempt, calls, input, output, queue, cancelRequested, refusals>>
  BY <1>0 DEF rows
<1>9. TypeOK' BY <1>0, <1>3, <1>6 DEF TypeOK, rows
<1>10. StepCounts'
  <2> SUFFICES ASSUME NEW i \in Jobs, NEW l \in Keys
               PROVE  /\ sends'[i][l] <= attempt[i][l]
                      /\ sends'[i][l] <= refusals[i][l] + 1
                      /\ steps[i][l] = "none" => attempt[i][l] = 0
                      /\ steps[i][l] = "refused" => sends'[i][l] <= refusals[i][l]
                      /\ steps[i][l] = "completed" => sends'[i][l] > 0
    BY <1>8 DEF StepCounts
  <2>1. CASE i = j /\ l = k BY <1>6, <1>7, <2>1
  <2>2. CASE i # j \/ l # k BY <1>0, <1>6, <2>2 DEF Rows, StepCounts, ChangesAt
  <2> QED BY <2>1, <2>2
<1>11. Rows'
  BY <1>0, <1>8, <1>10, SameRows
<1>12. ASSUME NEW v \in Workers, v # w PROVE WorkerOK(v)'
  BY <1>0, <1>3, <1>4, <1>6, <1>8, <1>12, Others DEF Holds, ChangesAt
<1>13. WorkerOK(w)'
  <2>1. Progress(w)' BY <1>0, <1>2, <1>3, <1>8 DEF WorkerOK, Progress, Summarised
  <2>2. HeldStep(w)' BY <1>2, <1>3, <1>4, <1>5, <1>7, <1>8 DEF HeldStep, Holds
  <2>3. HeldCounts(w)' BY <1>2, <1>3, <1>4, <1>5, <1>6 DEF HeldCounts
  <2> QED BY <2>1, <2>2, <2>3 DEF WorkerOK
<1>14. OneHolder' BY <1>0, <1>3, <1>4, <1>5, StillOneHolder DEF Holds
<1> QED BY <1>9, <1>11, <1>12, <1>13, <1>14 DEF IInv

\* The provider answers the call of the worker that holds the step.
LEMMA ResponseStep ==
    ASSUME IInv, NEW w \in Workers, NEW got \in Answers, Response(w, got)
    PROVE  IInv'
<1>0. /\ TypeOK /\ Rows /\ WorkerOK(w) /\ OneHolder
      /\ at[w].pc = "sent" /\ UNCHANGED <<rows, sends>>
  BY DEF IInv, Response
<1>1. PICK x \in Ticks : /\ at' = [at EXCEPT ![w] = x] /\ at'[w] = x
                         /\ x.pc = "record" /\ x.got = got
                         /\ x.job = at[w].job /\ x.batch = at[w].batch
                         /\ x.target = at[w].target /\ Key(w)' = Key(w)
  BY <1>0, WasAnswered DEF Response
<1>3. /\ at' \in [Workers -> Ticks \cup {Idle}] /\ at'[w] = x
      /\ \A v \in Workers \ {w} : at'[v] = at[v]
  BY <1>0, <1>1, Moved
<1>4. PICK j \in Jobs, k \in Keys : j = at[w].job /\ k = Key(w) BY <1>0, Busy
<1>6. /\ refusals' \in [Jobs -> [Keys -> Nat]] /\ ChangesAt(refusals, refusals', j, k)
      /\ refusals[j][k] \in Nat
      /\ refusals'[j][k] = IF got = "refused" THEN refusals[j][k] + 1 ELSE refusals[j][k]
  <2>1. refusals \in [Jobs -> [Keys -> Nat]] BY <1>0 DEF TypeOK
  <2>2. refusals' = IF got = "refused" THEN [refusals EXCEPT ![j][k] = @ + 1] ELSE refusals
    BY <1>4 DEF Response
  <2> QED BY <2>1, <2>2 DEF ChangesAt
<1>7. sends[j][k] > 0 /\ steps[j][k] = "dispatched" /\ sends[j][k] \in Nat
  BY <1>0, <1>4 DEF WorkerOK, HeldStep, HeldCounts, Holds, TypeOK
<1>8. UNCHANGED <<state, steps, attempt, calls, input, output, queue, cancelRequested, sends>>
  BY <1>0 DEF rows
<1>9. TypeOK' BY <1>0, <1>3, <1>6 DEF TypeOK, rows
<1>10. StepCounts'
  <2> SUFFICES ASSUME NEW i \in Jobs, NEW l \in Keys
               PROVE  /\ sends[i][l] <= attempt[i][l]
                      /\ sends[i][l] <= refusals'[i][l] + 1
                      /\ steps[i][l] = "none" => attempt[i][l] = 0
                      /\ steps[i][l] = "refused" => sends[i][l] <= refusals'[i][l]
                      /\ steps[i][l] = "completed" => sends[i][l] > 0
    BY <1>8 DEF StepCounts
  <2>1. CASE i = j /\ l = k BY <1>0, <1>6, <1>7, <2>1 DEF Rows, StepCounts
  <2>2. CASE i # j \/ l # k BY <1>0, <1>6, <2>2 DEF Rows, StepCounts, ChangesAt
  <2> QED BY <2>1, <2>2
<1>11. Rows'
  BY <1>0, <1>8, <1>10, SameRows
<1>12. ASSUME NEW v \in Workers, v # w PROVE WorkerOK(v)'
  BY <1>0, <1>3, <1>4, <1>6, <1>8, <1>12, Others DEF Holds, ChangesAt
<1>13. WorkerOK(w)'
  <2>1. Progress(w)' BY <1>0, <1>1, <1>8 DEF WorkerOK, Progress, Summarised
  <2>2. HeldStep(w)' BY <1>1, <1>4, <1>7, <1>8 DEF HeldStep, Holds
  <2>3. got = "refused" => sends[j][k] <= refusals'[j][k]
    BY <1>0, <1>6, <1>7 DEF Rows, StepCounts
  <2>4. HeldCounts(w)' BY <1>1, <1>4, <1>7, <1>8, <2>3 DEF HeldCounts
  <2> QED BY <2>1, <2>2, <2>4 DEF WorkerOK
<1>14. OneHolder' BY <1>0, <1>1, <1>3, StillOneHolder DEF Holds
<1> QED BY <1>9, <1>11, <1>12, <1>13, <1>14 DEF IInv

\* A step of a running job changes: what the tables keep satisfying, given what
\* they say of that step and of the job's charges.
LEMMA StepRows ==
    ASSUME TypeOK, Rows, NEW j \in Jobs, NEW k \in Keys, state[j] = "running",
           UNCHANGED <<state, queue, cancelRequested>>,
           ChangesAt(steps, steps', j, k), steps[j][k] # "completed",
           steps'[j][k] = "dispatched" => \A l \in Keys : steps[j][l] # "dispatched",
           StepCounts',
           \A i \in Jobs \ {j} : calls'[i] = calls[i] /\ input'[i] = input[i] /\ output'[i] = output[i],
           calls'[j] <= MaxCalls /\ input'[j] <= MaxInput /\ output'[j] <= MaxOutput,
           \A l \in Keys : steps'[j][l] = "dispatched" =>
             /\ calls'[j] >= 1 /\ input'[j] >= InputTokens[l[1]]
             /\ output'[j] + OutputReserve <= MaxOutput
    PROVE  Rows'
<1>1. Queued' /\ OneOpen' /\ CancelSticks' BY DEF Rows, Queued, OneOpen, Open, CancelSticks
<1>2. UnknownOutcomesAreHeld'
  BY DEF Rows, UnknownOutcomesAreHeld, Unresolved, ChangesAt
<1>3. OneDispatched'
  BY DEF Rows, OneDispatched, ChangesAt
<1>4. ReadySteps'
  <2> SUFFICES ASSUME NEW i \in Jobs, state[i] = "ready"
               PROVE  /\ \A b \in 1..Batches : Summarised(i, b)'
                      /\ \A l \in Keys : steps'[i][l] \in {"none", "completed"}
    BY DEF ReadySteps
  <2>1. i # j OBVIOUS
  <2>2. \A l \in Keys : steps'[i][l] = steps[i][l] BY <2>1 DEF ChangesAt
  <2>3. \A b \in 1..Batches : Summarised(i, b)' BY <2>2 DEF Rows, ReadySteps, Summarised, Keys
  <2> QED BY <2>2, <2>3 DEF Rows, ReadySteps
<1>5. Charges'
  <2> SUFFICES ASSUME NEW i \in Jobs
               PROVE  /\ calls'[i] <= MaxCalls /\ input'[i] <= MaxInput /\ output'[i] <= MaxOutput
                      /\ \A l \in Keys : steps'[i][l] = "dispatched" =>
                           /\ calls'[i] >= 1 /\ input'[i] >= InputTokens[l[1]]
                           /\ output'[i] + OutputReserve <= MaxOutput
    BY DEF Charges
  <2>1. CASE i = j BY <2>1
  <2>2. CASE i # j BY <2>2 DEF Rows, Charges, ChangesAt
  <2> QED BY <2>1, <2>2
<1> QED BY <1>1, <1>2, <1>3, <1>4, <1>5 DEF Rows

\* dispatch: the step becomes the only one without an outcome, and is charged.
LEMMA DispatchStep ==
    ASSUME IInv, NEW w \in Workers, Dispatch(w)
    PROVE  IInv'
<1>0. /\ TypeOK /\ Rows /\ WorkerOK(w) /\ OneHolder /\ at[w].pc = "dispatch"
      /\ UNCHANGED <<state, worker, live, spent, cancelRequested, output, queue, sends, refusals>>
  BY DEF IInv, Dispatch
<1> DEFINE x == Tick("operation", at[w].job, at[w].batch, at[w].target, at[w].try, at[w].got)
<1>1. x \in Ticks /\ at' = [at EXCEPT ![w] = x] BY <1>0, Went DEF Points, Dispatch
<1>2. x.pc = "operation" /\ x.job = at[w].job /\ x.batch = at[w].batch /\ x.target = at[w].target
  BY DEF Tick
<1> HIDE DEF x
<1>3. /\ at' \in [Workers -> Ticks \cup {Idle}] /\ at'[w] = x
      /\ \A v \in Workers \ {w} : at'[v] = at[v]
  BY <1>0, <1>1, Moved
<1>4. PICK j \in Jobs, k \in Keys : j = at[w].job /\ k = Key(w) BY <1>0, Busy
<1>5. Key(w)' = k /\ at'[w].job = j BY <1>2, <1>3, <1>4 DEF Key
<1>6. k[1] = at[w].batch /\ InputTokens[k[1]] \in Nat
  BY <1>0, <1>4, Busy, LimitsAssumption DEF Key
<1>7. /\ state[j] = "running" /\ \A l \in Keys : steps[j][l] # "dispatched"
      /\ steps[j][k] \in {"none", "refused"} /\ attempt[j][k] < 2
      /\ calls[j] < MaxCalls
      /\ input[j] + InputTokens[k[1]] <= MaxInput /\ output[j] + OutputReserve <= MaxOutput
  BY <1>0, <1>4, <1>6
  DEF Dispatch, Leased, MayDispatch, WithinBudget, Retryable, Unresolved, Rows, StepCounts
<1>8. /\ steps' \in [Jobs -> [Keys -> StepStates]]
      /\ steps'[j][k] = "dispatched" /\ ChangesAt(steps, steps', j, k)
  <2>1. steps \in [Jobs -> [Keys -> StepStates]] BY <1>0 DEF TypeOK
  <2>2. steps' = [steps EXCEPT ![j][k] = "dispatched"] BY <1>4 DEF Dispatch
  <2> QED BY <2>1, <2>2 DEF ChangesAt, StepStates
<1>9. /\ attempt' \in [Jobs -> [Keys -> 0..2]]
      /\ attempt'[j][k] = attempt[j][k] + 1 /\ ChangesAt(attempt, attempt', j, k)
      /\ attempt[j][k] \in 0..2
  <2>1. attempt \in [Jobs -> [Keys -> 0..2]] BY <1>0 DEF TypeOK
  <2>2. attempt' = [attempt EXCEPT ![j][k] = @ + 1] BY <1>4 DEF Dispatch
  <2> QED BY <1>7, <2>1, <2>2 DEF ChangesAt
<1>10. /\ calls' \in [Jobs -> Nat] /\ calls'[j] = calls[j] + 1 /\ calls[j] \in Nat
       /\ input' \in [Jobs -> Nat] /\ input'[j] = input[j] + InputTokens[k[1]] /\ input[j] \in Nat
       /\ \A i \in Jobs \ {j} : calls'[i] = calls[i] /\ input'[i] = input[i]
  <2>1. calls \in [Jobs -> Nat] /\ input \in [Jobs -> Nat] BY <1>0 DEF TypeOK
  <2>2. calls' = [calls EXCEPT ![j] = @ + 1] /\ input' = [input EXCEPT ![j] = @ + InputTokens[k[1]]]
    BY <1>4, <1>6 DEF Dispatch
  <2> QED BY <1>6, <2>1, <2>2
<1>11. TypeOK' BY <1>0, <1>3, <1>8, <1>9, <1>10 DEF TypeOK
<1>12. sends[j][k] \in Nat /\ sends[j][k] <= attempt[j][k] /\ sends[j][k] <= refusals[j][k]
  <2>1. sends[j][k] \in Nat /\ refusals[j][k] \in Nat BY <1>0 DEF TypeOK
  <2> QED BY <1>0, <1>7, <2>1 DEF Rows, StepCounts
<1>13. StepCounts'
  <2> SUFFICES ASSUME NEW i \in Jobs, NEW l \in Keys
               PROVE  /\ sends[i][l] <= attempt'[i][l]
                      /\ sends[i][l] <= refusals[i][l] + 1
                      /\ steps'[i][l] = "none" => attempt'[i][l] = 0
                      /\ steps'[i][l] = "refused" => sends[i][l] <= refusals[i][l]
                      /\ steps'[i][l] = "completed" => sends[i][l] > 0
    BY <1>0 DEF StepCounts
  <2>1. CASE i = j /\ l = k BY <1>0, <1>8, <1>9, <1>12, <2>1 DEF Rows, StepCounts
  <2>2. CASE i # j \/ l # k BY <1>0, <1>8, <1>9, <2>2 DEF Rows, StepCounts, ChangesAt
  <2> QED BY <2>1, <2>2
<1>14. Rows'
  <2>1. calls'[j] <= MaxCalls /\ calls'[j] >= 1 /\ input'[j] >= InputTokens[k[1]]
    BY <1>6, <1>7, <1>10, LimitsAssumption
  <2>2. \A l \in Keys : steps'[j][l] = "dispatched" => l = k BY <1>7, <1>8 DEF ChangesAt
  <2>3. input'[j] <= MaxInput /\ output'[j] <= MaxOutput
    BY <1>0, <1>7, <1>10 DEF Rows, Charges
  <2> QED BY <1>0, <1>7, <1>8, <1>10, <1>13, <2>1, <2>2, <2>3, StepRows
<1>15. ASSUME NEW v \in Workers, v # w
       PROVE  WorkerOK(v)' /\ (Holds(v) => at[v].job # j \/ Key(v) # k)
  BY <1>0, <1>3, <1>4, <1>7, <1>8, <1>9, <1>15, Others DEF ChangesAt
<1>16. WorkerOK(w)'
  <2>1. ASSUME NEW b \in 1..Batches, b < at[w].batch PROVE Summarised(j, b)'
    <3>1. Summarised(j, b) BY <1>0, <1>4, <2>1 DEF WorkerOK, Progress
    <3>2. PICK t \in Targets : steps[j][<<b, t>>] = "completed" BY <3>1 DEF Summarised
    <3>3. <<b, t>> \in Keys BY DEF Keys
    <3>4. steps'[j][<<b, t>>] = "completed" BY <1>7, <1>8, <3>2, <3>3 DEF ChangesAt
    <3> QED BY <3>4 DEF Summarised
  <2>2. Progress(w)' BY <1>2, <1>3, <1>5, <2>1 DEF Progress, Summarised
  <2>3. HeldStep(w)' BY <1>2, <1>3, <1>5, <1>8 DEF HeldStep, Holds
  <2>4. HeldCounts(w)' BY <1>0, <1>2, <1>3, <1>5, <1>9, <1>12 DEF HeldCounts
  <2> QED BY <2>2, <2>3, <2>4 DEF WorkerOK
<1>17. OneHolder'
  <2>1. \A v \in Workers \ {w} : at'[v] = at[v] /\ Key(v)' = Key(v) BY <1>3 DEF Key
  <2> QED BY <1>0, <1>5, <1>15, <2>1 DEF OneHolder, Holds
<1> QED BY <1>11, <1>14, <1>15, <1>16, <1>17 DEF IInv

\* The outcome of a call is recorded, and the worker leaves the step.
LEMMA RecordStep ==
    ASSUME IInv, NEW w \in Workers, at[w].pc = "record", MayRecord(w),
           NEW j \in Jobs, NEW k \in Keys, j = at[w].job, k = Key(w),
           NEW s \in {"completed", "refused", "failed"},
           steps' = [steps EXCEPT ![j][k] = s],
           s = "completed" => sends[j][k] > 0, s = "refused" => sends[j][k] <= refusals[j][k],
           NEW x \in Ticks, at' = [at EXCEPT ![w] = x],
           x.pc \notin {"operation", "send", "sent", "record"}, WorkerOK(w)',
           calls' \in [Jobs -> Nat], input' \in [Jobs -> Nat], output' \in [Jobs -> Nat],
           \A i \in Jobs \ {j} : calls'[i] = calls[i] /\ input'[i] = input[i] /\ output'[i] = output[i],
           calls'[j] <= MaxCalls /\ input'[j] <= MaxInput /\ output'[j] <= MaxOutput,
           UNCHANGED <<state, worker, live, spent, cancelRequested, attempt, queue, sends, refusals>>
    PROVE  IInv'
<1>0. TypeOK /\ Rows /\ OneHolder /\ Holds(w) BY DEF IInv, Holds
<1>1. /\ at' \in [Workers -> Ticks \cup {Idle}] /\ at'[w] = x
      /\ \A v \in Workers \ {w} : at'[v] = at[v]
  BY <1>0, Moved
<1>2. state[j] = "running" /\ steps[j][k] = "dispatched" BY DEF MayRecord, Leased
<1>3. /\ steps' \in [Jobs -> [Keys -> StepStates]]
      /\ steps'[j][k] = s /\ ChangesAt(steps, steps', j, k)
  <2>1. steps \in [Jobs -> [Keys -> StepStates]] BY <1>0 DEF TypeOK
  <2> QED BY <2>1 DEF ChangesAt, StepStates
<1>4. TypeOK' BY <1>0, <1>1, <1>3 DEF TypeOK
<1>5. StepCounts'
  <2> SUFFICES ASSUME NEW i \in Jobs, NEW l \in Keys
               PROVE  /\ sends[i][l] <= attempt[i][l]
                      /\ sends[i][l] <= refusals[i][l] + 1
                      /\ steps'[i][l] = "none" => attempt[i][l] = 0
                      /\ steps'[i][l] = "refused" => sends[i][l] <= refusals[i][l]
                      /\ steps'[i][l] = "completed" => sends[i][l] > 0
    BY DEF StepCounts
  <2>1. CASE i = j /\ l = k BY <1>0, <1>3, <2>1 DEF Rows, StepCounts
  <2>2. CASE i # j \/ l # k BY <1>0, <1>3, <2>2 DEF Rows, StepCounts, ChangesAt
  <2> QED BY <2>1, <2>2
<1>6. Rows'
  <2>1. \A l \in Keys : steps'[j][l] # "dispatched"
    BY <1>0, <1>2, <1>3 DEF Rows, OneDispatched, ChangesAt
  <2>2. UNCHANGED <<state, queue, cancelRequested>> OBVIOUS
  <2> QED BY <1>0, <1>2, <1>3, <1>5, <2>1, <2>2, StepRows
<1>7. ASSUME NEW v \in Workers, v # w PROVE WorkerOK(v)'
  <2>1. /\ ChangesAt(attempt, attempt', j, k) /\ ChangesAt(sends, sends', j, k)
        /\ ChangesAt(refusals, refusals', j, k)
    BY DEF ChangesAt
  <2> QED BY <1>0, <1>1, <1>2, <1>3, <1>7, <2>1, Others
<1>8. OneHolder' BY <1>0, <1>1, StillOneHolder DEF Holds
<1> QED BY <1>4, <1>6, <1>7, <1>8 DEF IInv

\* complete_step: the summary of the batch is stored.
LEMMA CompleteStepStep ==
    ASSUME IInv, NEW w \in Workers, NEW tokens \in 1..OutputReserve, CompleteStep(w, tokens)
    PROVE  IInv'
<1>0. /\ TypeOK /\ Rows /\ WorkerOK(w) /\ at[w].pc = "record" /\ at[w].got = "ok"
      /\ MayRecord(w) /\ NextBatch(w)
      /\ UNCHANGED <<state, worker, live, spent, cancelRequested, attempt, calls, input, queue,
                     sends, refusals>>
  BY DEF IInv, CompleteStep
<1>1. PICK j \in Jobs, k \in Keys, b \in 1..Batches, t \in Targets :
        j = at[w].job /\ k = Key(w) /\ b = at[w].batch /\ t = at[w].target
  BY <1>0, Busy
<1>2. k = <<b, t>> BY <1>1 DEF Key
<1>3. steps' = [steps EXCEPT ![j][k] = "completed"] BY <1>1 DEF CompleteStep
<1>4. /\ steps'[j][k] = "completed"
      /\ \A i \in Jobs, l \in Keys : steps[i][l] = "completed" => steps'[i][l] = "completed"
  BY <1>0, <1>3 DEF TypeOK
<1>5. Summarised(j, b)' BY <1>2, <1>4 DEF Summarised
<1>6. PICK x \in Ticks : /\ at' = [at EXCEPT ![w] = x]
                         /\ x.pc \in {"cached", "publish"} /\ WorkerOK(w)'
  BY <1>0, <1>1, <1>4, <1>5, GoesOn
<1>7. /\ output' \in [Jobs -> Nat] /\ output'[j] = output[j] + tokens /\ output[j] \in Nat
      /\ \A i \in Jobs \ {j} : output'[i] = output[i]
  <2>1. output \in [Jobs -> Nat] BY <1>0 DEF TypeOK
  <2>2. output' = [output EXCEPT ![j] = @ + tokens] BY <1>1 DEF CompleteStep
  <2> QED BY <2>1, <2>2, LimitsAssumption
<1>8. output'[j] <= MaxOutput /\ calls[j] <= MaxCalls /\ input[j] <= MaxInput
  <2>1. output[j] + OutputReserve <= MaxOutput
    BY <1>0, <1>1 DEF MayRecord, Rows, Charges
  <2> QED BY <1>0, <1>7, <2>1, LimitsAssumption DEF Rows, Charges
<1>9. sends[j][k] > 0 BY <1>0, <1>1 DEF WorkerOK, HeldCounts
<1>10. calls' \in [Jobs -> Nat] /\ input' \in [Jobs -> Nat] BY <1>0 DEF TypeOK
<1> QED BY <1>0, <1>1, <1>3, <1>6, <1>7, <1>8, <1>9, <1>10, RecordStep

\* failed_step: a refused call may be repeated, any other may not.
LEMMA FailedStepStep ==
    ASSUME IInv, NEW w \in Workers, FailedStep(w)
    PROVE  IInv'
<1>0. /\ TypeOK /\ Rows /\ WorkerOK(w) /\ at[w].pc = "record" /\ at[w].got \in {"refused", "bad"}
      /\ MayRecord(w)
      /\ UNCHANGED <<state, worker, live, spent, cancelRequested, attempt, calls, input, queue,
                     sends, refusals>>
  BY DEF IInv, FailedStep
<1>1. PICK j \in Jobs, k \in Keys : j = at[w].job /\ k = Key(w) BY <1>0, Busy
<1> DEFINE s == IF at[w].got = "refused" THEN "refused" ELSE "failed"
           x == AfterFailure(w)
<1>2. steps' = [steps EXCEPT ![j][k] = s] BY <1>1 DEF FailedStep
<1>3. s = "refused" => sends[j][k] <= refusals[j][k] BY <1>0, <1>1 DEF WorkerOK, HeldCounts
<1>4. s \in {"completed", "refused", "failed"} /\ s # "completed" OBVIOUS
<1>5. at' = [at EXCEPT ![w] = x] BY DEF FailedStep
<1>6. at[w] \in Ticks BY <1>0, Busy
<1>7. x \in Ticks /\ (x.pc = "failing" \/ (x.pc = "cached" /\ x.batch = 1))
  <2>1. CASE at[w].got = "refused" /\ at[w].try = 0
    BY <1>0, <1>1, <2>1, AnyTargetType, LimitsAssumption DEF AfterFailure, Tick, Ticks
  <2>2. CASE ~(at[w].got = "refused" /\ at[w].try = 0)
    BY <1>6, <2>2 DEF AfterFailure, Ticks
  <2> QED BY <2>1, <2>2
<1> HIDE DEF s, x
<1>8. at'[w] = x BY <1>0, <1>5, <1>7, Moved
<1>9. WorkerOK(w)'
  BY <1>7, <1>8, LimitsAssumption DEF WorkerOK, HeldStep, HeldCounts, Progress, Holds
<1>10. /\ output' \in [Jobs -> Nat] /\ output'[j] = output[j] + OutputReserve
       /\ \A i \in Jobs \ {j} : output'[i] = output[i]
  <2>1. output \in [Jobs -> Nat] BY <1>0 DEF TypeOK
  <2>2. output' = [output EXCEPT ![j] = @ + OutputReserve] BY <1>1 DEF FailedStep
  <2> QED BY <2>1, <2>2, LimitsAssumption
<1>11. output'[j] <= MaxOutput /\ calls[j] <= MaxCalls /\ input[j] <= MaxInput
  <2>1. output[j] + OutputReserve <= MaxOutput
    BY <1>0, <1>1 DEF MayRecord, Rows, Charges
  <2> QED BY <1>0, <1>10, <2>1 DEF Rows, Charges
<1>12. calls' \in [Jobs -> Nat] /\ input' \in [Jobs -> Nat] BY <1>0 DEF TypeOK
<1>13. x.pc \notin {"operation", "send", "sent", "record"} BY <1>7
<1> QED
  BY <1>0, <1>1, <1>2, <1>3, <1>4, <1>5, <1>7, <1>9, <1>10, <1>11, <1>12, <1>13, RecordStep

\* not_sent_step: what dispatch charged is given back.
LEMMA NotSentStepStep ==
    ASSUME IInv, NEW w \in Workers, NotSentStep(w)
    PROVE  IInv'
<1>0. /\ TypeOK /\ Rows /\ WorkerOK(w) /\ at[w].pc = "record" /\ MayRecord(w)
      /\ UNCHANGED <<state, worker, live, spent, cancelRequested, attempt, output, queue,
                     sends, refusals>>
  BY DEF IInv, NotSentStep
<1>1. PICK j \in Jobs, k \in Keys : j = at[w].job /\ k = Key(w) BY <1>0, Busy
<1>2. steps' = [steps EXCEPT ![j][k] = "failed"] BY <1>1 DEF NotSentStep
<1> DEFINE x == Tick("failing", at[w].job, at[w].batch, at[w].target, at[w].try, at[w].got)
<1>3. x \in Ticks /\ at' = [at EXCEPT ![w] = x] BY <1>0, Went DEF Points, NotSentStep
<1>4. x.pc = "failing" BY DEF Tick
<1> HIDE DEF x
<1>5. at'[w] = x BY <1>0, <1>3, Moved
<1>6. WorkerOK(w)' BY <1>4, <1>5 DEF WorkerOK, HeldStep, HeldCounts, Progress, Holds
<1>7. k[1] = at[w].batch /\ InputTokens[k[1]] \in Nat
  BY <1>0, <1>1, Busy, LimitsAssumption DEF Key
<1>8. calls[j] >= 1 /\ input[j] >= InputTokens[k[1]] /\ calls[j] \in Nat /\ input[j] \in Nat
  BY <1>0, <1>1 DEF MayRecord, Rows, Charges, TypeOK
<1>9. /\ calls' \in [Jobs -> Nat] /\ calls'[j] = calls[j] - 1
      /\ input' \in [Jobs -> Nat] /\ input'[j] = input[j] - InputTokens[k[1]]
      /\ \A i \in Jobs \ {j} : calls'[i] = calls[i] /\ input'[i] = input[i]
  <2>1. calls \in [Jobs -> Nat] /\ input \in [Jobs -> Nat] BY <1>0 DEF TypeOK
  <2>2. calls' = [calls EXCEPT ![j] = @ - 1] /\ input' = [input EXCEPT ![j] = @ - InputTokens[k[1]]]
    BY <1>1, <1>7 DEF NotSentStep
  <2> QED BY <1>7, <1>8, <2>1, <2>2
<1>10. calls'[j] <= MaxCalls /\ input'[j] <= MaxInput /\ output[j] <= MaxOutput
  <2>1. calls[j] <= MaxCalls /\ input[j] <= MaxInput /\ output[j] <= MaxOutput
    BY <1>0 DEF Rows, Charges
  <2>2. MaxCalls \in Nat /\ MaxInput \in Nat BY LimitsAssumption
  <2> QED BY <1>7, <1>8, <1>9, <2>1, <2>2
<1>11. output' \in [Jobs -> Nat] BY <1>0 DEF TypeOK
<1>12. x.pc \notin {"operation", "send", "sent", "record"} BY <1>4
<1>13. "failed" \in {"completed", "refused", "failed"} OBVIOUS
<1> QED
  BY <1>0, <1>1, <1>2, <1>3, <1>6, <1>9, <1>10, <1>11, <1>12, <1>13, RecordStep

-----------------------------------------------------------------------------
(* The steps that decide about a job. *)

\* Workers that stay where they are, with the steps as they were.
LEMMA WorkersStay ==
    ASSUME IInv, UNCHANGED <<steps, attempt, sends, refusals, at>>
    PROVE  (\A w \in Workers : WorkerOK(w)') /\ OneHolder'
<1>1. ASSUME NEW v \in Workers PROVE WorkerOK(v)' BY Bystander DEF IInv
<1>2. OneHolder' BY DEF IInv, OneHolder, Holds, Key
<1> QED BY <1>1, <1>2

\* A worker whose tick is over, with the steps as they were.
LEMMA WorkerStops ==
    ASSUME IInv, NEW w \in Workers, at' = [at EXCEPT ![w] = Idle],
           UNCHANGED <<steps, attempt, sends, refusals>>
    PROVE  /\ at' \in [Workers -> Ticks \cup {Idle}]
           /\ \A v \in Workers : WorkerOK(v)'
           /\ OneHolder'
<1>1. /\ at' \in [Workers -> Ticks \cup {Idle}] /\ at'[w] = Idle
      /\ \A v \in Workers \ {w} : at'[v] = at[v]
  BY Moved DEF IInv
<1>2. at'[w].pc = "idle" BY <1>1 DEF Idle
<1>3. WorkerOK(w)' BY <1>2 DEF WorkerOK, HeldStep, HeldCounts, Progress, Holds
<1>4. ASSUME NEW v \in Workers, v # w PROVE WorkerOK(v)' BY <1>1, <1>4, Bystander DEF IInv
<1>5. OneHolder' BY <1>1, <1>2, StillOneHolder DEF IInv, Holds
<1> QED BY <1>1, <1>3, <1>4, <1>5

\* What a decision about a job has to respect.
LEMMA StateRows ==
    ASSUME Rows, UNCHANGED <<steps, attempt, calls, input, output, sends, refusals>>,
           Queued', OneOpen',
           \A i \in Jobs : /\ Unresolved(i) => state'[i] \in {"running", "needs_context"}
                           /\ state'[i] = "needs_context" => Unresolved(i)
                           /\ cancelRequested'[i] => state'[i] \in {"cancelled", "needs_context"}
                           /\ state'[i] = "ready" =>
                                \/ state[i] = "ready"
                                \/ /\ \A b \in 1..Batches : Summarised(i, b)
                                   /\ \A k \in Keys : steps[i][k] \in {"none", "completed"}
    PROVE  Rows'
<1>1. UnknownOutcomesAreHeld' /\ CancelSticks'
  BY DEF UnknownOutcomesAreHeld, CancelSticks, Unresolved
<1>2. OneDispatched' /\ StepCounts' BY DEF Rows, OneDispatched, StepCounts
<1>3. ReadySteps' BY DEF Rows, ReadySteps, Summarised
<1>4. Charges' BY DEF Rows, Charges
<1> QED BY <1>1, <1>2, <1>3, <1>4 DEF Rows

\* A decision about a job that is not queued leaves the queue as it should be.
LEMMA Decision ==
    ASSUME TypeOK, Rows, NEW j \in Jobs, NEW s \in States, state[j] # "queued", s # "queued",
           state' = [state EXCEPT ![j] = s], UNCHANGED queue,
           s \in {"running", "needs_context"} => Open(j)
    PROVE  /\ state' \in [Jobs -> States] /\ state'[j] = s
           /\ \A i \in Jobs \ {j} : state'[i] = state[i]
           /\ Queued' /\ OneOpen'
<1>1. /\ state' \in [Jobs -> States] /\ state'[j] = s
      /\ \A i \in Jobs \ {j} : state'[i] = state[i]
  BY DEF TypeOK
<1>2. \A i \in 1..Len(queue) : queue[i] \in Jobs BY DEF TypeOK
<1>3. Queued' BY <1>1, <1>2 DEF Rows, Queued
<1>4. OneOpen' BY <1>1 DEF Rows, OneOpen, Open
<1> QED BY <1>1, <1>3, <1>4

\* candidate: every batch is summarised when the job becomes ready.
LEMMA CandidateStep ==
    ASSUME IInv, NEW w \in Workers, Candidate(w)
    PROVE  IInv'
<1>0. /\ TypeOK /\ Rows /\ WorkerOK(w) /\ at[w].pc = "publish" /\ Leased(w)
      /\ at' = [at EXCEPT ![w] = Idle]
      /\ UNCHANGED <<spent, cancelRequested, steps, attempt, calls, input, output, queue, sends,
                     refusals>>
  BY DEF IInv, Candidate
<1>1. PICK j \in Jobs : j = at[w].job BY <1>0, Busy
<1>2. /\ state[j] = "running" /\ MayPublish(j) /\ Settle(j, "ready")
  BY <1>0, <1>1 DEF Candidate, Leased
<1>3. /\ state' \in [Jobs -> States] /\ state'[j] = "ready"
      /\ \A i \in Jobs \ {j} : state'[i] = state[i]
      /\ Queued' /\ OneOpen'
  BY <1>0, <1>2, Decision DEF Settle, States
<1>4. worker' \in [Jobs -> Workers \cup {NoWorker}] /\ live' \in [Jobs -> BOOLEAN]
  BY <1>0, <1>2 DEF TypeOK, Settle
<1>5. /\ at' \in [Workers -> Ticks \cup {Idle}] /\ OneHolder'
      /\ \A v \in Workers : WorkerOK(v)'
  BY <1>0, WorkerStops
<1>6. TypeOK' BY <1>0, <1>3, <1>4, <1>5 DEF TypeOK
<1>7. /\ \A b \in 1..Batches : Summarised(j, b)
      /\ \A k \in Keys : steps[j][k] \in {"none", "completed"}
  BY <1>0, <1>1, <1>2 DEF WorkerOK, Progress, MayPublish
<1>8. Rows'
  <2>1. ~Unresolved(j) BY <1>7 DEF Unresolved
  <2>2. ~cancelRequested[j] BY <1>0, <1>2 DEF Rows, CancelSticks
  <2>3. \A i \in Jobs : /\ Unresolved(i) => state'[i] \in {"running", "needs_context"}
                        /\ state'[i] = "needs_context" => Unresolved(i)
                        /\ cancelRequested'[i] => state'[i] \in {"cancelled", "needs_context"}
    BY <1>0, <1>3, <2>1, <2>2 DEF Rows, UnknownOutcomesAreHeld, CancelSticks
  <2> QED BY <1>0, <1>3, <1>7, <2>3, StateRows
<1> QED BY <1>5, <1>6, <1>8 DEF IInv

\* fail: a job with an unknown outcome is held, any other has failed.
LEMMA FailStep ==
    ASSUME IInv, NEW w \in Workers, Fail(w)
    PROVE  IInv'
<1>0. /\ TypeOK /\ Rows /\ at[w].pc = "failing"
      /\ at' = [at EXCEPT ![w] = Idle]
      /\ UNCHANGED <<spent, cancelRequested, steps, attempt, calls, input, output, queue, sends,
                     refusals>>
  BY DEF IInv, Fail
<1>1. PICK j \in Jobs : j = at[w].job BY <1>0, Busy
<1>2. /\ at' \in [Workers -> Ticks \cup {Idle}] /\ OneHolder'
      /\ \A v \in Workers : WorkerOK(v)'
  BY <1>0, WorkerStops
<1>3. CASE Leased(w)
  <2>1. state[j] = "running" /\ Settle(j, FailedState(j)) BY <1>1, <1>3 DEF Fail, Leased
  <2>2. FailedState(j) \in {"needs_context", "failed"} BY DEF FailedState
  <2>3. /\ state' \in [Jobs -> States] /\ state'[j] = FailedState(j)
        /\ \A i \in Jobs \ {j} : state'[i] = state[i]
        /\ Queued' /\ OneOpen'
    BY <1>0, <2>1, <2>2, Decision DEF Settle, States, Open
  <2>4. worker' \in [Jobs -> Workers \cup {NoWorker}] /\ live' \in [Jobs -> BOOLEAN]
    BY <1>0, <2>1 DEF TypeOK, Settle
  <2>5. TypeOK' BY <1>0, <1>2, <2>3, <2>4 DEF TypeOK
  <2>6. ~cancelRequested[j] BY <1>0, <2>1 DEF Rows, CancelSticks
  <2>7. \A i \in Jobs : /\ Unresolved(i) => state'[i] \in {"running", "needs_context"}
                        /\ state'[i] = "needs_context" => Unresolved(i)
                        /\ cancelRequested'[i] => state'[i] \in {"cancelled", "needs_context"}
                        /\ state'[i] = "ready" => state[i] = "ready"
    BY <1>0, <2>3, <2>6 DEF Rows, UnknownOutcomesAreHeld, CancelSticks, FailedState
  <2>8. Rows' BY <1>0, <2>3, <2>7, StateRows
  <2> QED BY <1>2, <2>5, <2>8 DEF IInv
<1>4. CASE ~Leased(w)
  <2>1. UNCHANGED <<state, worker, live>> BY <1>4 DEF Fail
  <2>2. TypeOK' BY <1>0, <1>2, <2>1 DEF TypeOK
  <2>3. StepCounts' BY <1>0 DEF Rows, StepCounts
  <2>4. Rows' BY <1>0, <2>1, <2>3, SameRows
  <2> QED BY <1>2, <2>2, <2>4 DEF IInv
<1> QED BY <1>3, <1>4

\* create: a new job joins the queue.
LEMMA CreateStep ==
    ASSUME IInv, NEW j \in Jobs, Create(j)
    PROVE  IInv'
<1>0. /\ TypeOK /\ Rows /\ state[j] = "absent"
      /\ UNCHANGED <<worker, live, spent, cancelRequested, steps, attempt, calls, input, output, at,
                     sends, refusals>>
  BY DEF IInv, Create
<1>1. /\ state' \in [Jobs -> States] /\ state'[j] = "queued"
      /\ \A i \in Jobs \ {j} : state'[i] = state[i]
  BY <1>0 DEF Create, TypeOK, States
<1>2. queue \in Seq(Jobs) /\ queue' = Append(queue, j) BY <1>0 DEF TypeOK, Create
<1>3. /\ queue' \in Seq(Jobs) /\ Len(queue') = Len(queue) + 1 /\ queue'[Len(queue) + 1] = j
      /\ \A i \in 1..Len(queue) : queue'[i] = queue[i] /\ queue[i] \in Jobs /\ queue[i] # j
  <2>1. \A i \in 1..Len(queue) : queue[i] \in Jobs /\ queue[i] # j
    BY <1>0, <1>2 DEF Rows, Queued
  <2> QED BY <1>2, <2>1
<1>4. Queued'
  <2>1. \A i \in 1..Len(queue') : i \in 1..Len(queue) \/ i = Len(queue) + 1 BY <1>2, <1>3
  <2> QED BY <1>0, <1>1, <1>3, <2>1 DEF Rows, Queued
<1>5. OneOpen' BY <1>0, <1>1 DEF Rows, OneOpen, Open
<1>6. \A i \in Jobs : /\ Unresolved(i) => state'[i] \in {"running", "needs_context"}
                      /\ state'[i] = "needs_context" => Unresolved(i)
                      /\ cancelRequested'[i] => state'[i] \in {"cancelled", "needs_context"}
                      /\ state'[i] = "ready" => state[i] = "ready"
  BY <1>0, <1>1 DEF Rows, UnknownOutcomesAreHeld, CancelSticks
<1>7. Rows' BY <1>0, <1>4, <1>5, <1>6, StateRows
<1>8. TypeOK' BY <1>0, <1>1, <1>3 DEF TypeOK
<1> QED BY <1>0, <1>7, <1>8, WorkersStay DEF IInv

\* cancel: the job leaves the queue for good.
LEMMA CancelStep ==
    ASSUME IInv, NEW j \in Jobs, Cancel(j)
    PROVE  IInv'
<1>0. /\ TypeOK /\ Rows /\ Settle(j, CancelledState(j)) /\ queue' = Without(queue, j)
      /\ cancelRequested' = [cancelRequested EXCEPT ![j] = TRUE]
      /\ UNCHANGED <<spent, steps, attempt, calls, input, output, at, sends, refusals>>
  BY DEF IInv, Cancel
<1>1. CancelledState(j) \in {"needs_context", "cancelled"} BY DEF CancelledState
<1>2. /\ state' \in [Jobs -> States] /\ state'[j] = CancelledState(j)
      /\ \A i \in Jobs \ {j} : state'[i] = state[i]
  BY <1>0, <1>1 DEF Settle, TypeOK, States
<1>3. /\ cancelRequested' \in [Jobs -> BOOLEAN]
      /\ \A i \in Jobs \ {j} : cancelRequested'[i] = cancelRequested[i]
      /\ worker' \in [Jobs -> Workers \cup {NoWorker}] /\ live' \in [Jobs -> BOOLEAN]
  BY <1>0 DEF TypeOK, Settle
<1>4. /\ queue \in Seq(Jobs) /\ \A i \in 1..Len(queue) : state[queue[i]] = "queued"
      /\ \A i, l \in 1..Len(queue) : queue[i] = queue[l] => i = l
  BY <1>0 DEF TypeOK, Rows, Queued
<1> DEFINE r == Without(queue, j)
<1>5. /\ queue' \in Seq(Jobs)
      /\ \A i \in 1..Len(queue') : queue'[i] # j /\ \E l \in 1..Len(queue) : queue'[i] = queue[l]
      /\ \A i, l \in 1..Len(queue') : queue'[i] = queue'[l] => i = l
  <2>1. /\ r \in Seq(Jobs)
        /\ \A i \in 1..Len(r) : r[i] # j /\ \E l \in 1..Len(queue) : r[i] = queue[l]
        /\ \A i, l \in 1..Len(r) : r[i] = r[l] => i = l
    BY <1>4, Removed
  <2>2. queue' = r BY <1>0
  <2> HIDE DEF r
  <2> QED BY <2>1, <2>2
<1>6. Queued'
  <2>1. \A i \in 1..Len(queue') : queue'[i] \in Jobs BY <1>5
  <2> QED BY <1>2, <1>4, <1>5, <2>1 DEF Queued
<1>7. OneOpen'
  <2>1. Open(j)' => Open(j)
    BY <1>0, <1>2 DEF Open, CancelledState, Rows, UnknownOutcomesAreHeld
  <2>2. \A i \in Jobs : Open(i)' => Open(i) BY <1>2, <2>1 DEF Open
  <2> QED BY <1>0, <2>2 DEF Rows, OneOpen
<1>8. \A i \in Jobs : /\ Unresolved(i) => state'[i] \in {"running", "needs_context"}
                      /\ state'[i] = "needs_context" => Unresolved(i)
                      /\ cancelRequested'[i] => state'[i] \in {"cancelled", "needs_context"}
                      /\ state'[i] = "ready" => state[i] = "ready"
  BY <1>0, <1>1, <1>2, <1>3 DEF Rows, UnknownOutcomesAreHeld, CancelSticks, CancelledState
<1>9. Rows' BY <1>0, <1>6, <1>7, <1>8, StateRows
<1>10. TypeOK' BY <1>0, <1>2, <1>3, <1>5 DEF TypeOK
<1> QED BY <1>0, <1>9, <1>10, WorkersStay DEF IInv

\* Time passing decides nothing.
LEMMA TimeStep ==
    ASSUME IInv, NEW j \in Jobs, LeaseExpires(j) \/ BudgetElapses(j)
    PROVE  IInv'
<1>0. /\ TypeOK /\ Rows
      /\ live' \in [Jobs -> BOOLEAN] /\ spent' \in [Jobs -> BOOLEAN]
      /\ UNCHANGED <<state, worker, cancelRequested, steps, attempt, calls, input, output, queue,
                     at, sends, refusals>>
  BY DEF IInv, LeaseExpires, BudgetElapses, TypeOK
<1>1. TypeOK' BY <1>0 DEF TypeOK
<1>2. StepCounts' BY <1>0 DEF Rows, StepCounts
<1>3. Rows' BY <1>0, <1>2, SameRows
<1> QED BY <1>0, <1>1, <1>3, WorkersStay DEF IInv

\* abandon_verified_operation: the only step without an outcome is given up,
\* and nobody has its call in flight.
LEMMA AbandonStep ==
    ASSUME IInv, NEW j \in Jobs, NEW k \in Keys, AbandonVerifiedOperation(j, k)
    PROVE  IInv'
<1>0. /\ TypeOK /\ Rows /\ OneHolder /\ ~InFlight(j, k) /\ state[j] = "needs_context"
      /\ steps[j][k] = "dispatched" /\ steps' = [steps EXCEPT ![j][k] = "abandoned"]
      /\ cancelRequested' = [cancelRequested EXCEPT ![j] = TRUE]
      /\ UNCHANGED <<spent, attempt, calls, input, output, queue, at, sends, refusals>>
  BY DEF IInv, AbandonVerifiedOperation
<1>1. /\ steps' \in [Jobs -> [Keys -> StepStates]]
      /\ steps'[j][k] = "abandoned" /\ ChangesAt(steps, steps', j, k)
  <2>1. steps \in [Jobs -> [Keys -> StepStates]] BY <1>0 DEF TypeOK
  <2> QED BY <1>0, <2>1 DEF ChangesAt, StepStates
<1>2. \A l \in Keys \ {k} : steps[j][l] # "dispatched" BY <1>0 DEF Rows, OneDispatched
<1>3. Settle(j, "cancelled") BY <1>2 DEF AbandonVerifiedOperation
<1>4. /\ state' \in [Jobs -> States] /\ state'[j] = "cancelled"
      /\ \A i \in Jobs \ {j} : state'[i] = state[i]
      /\ Queued' /\ OneOpen'
  BY <1>0, <1>3, Decision DEF Settle, States
<1>5. /\ worker' \in [Jobs -> Workers \cup {NoWorker}] /\ live' \in [Jobs -> BOOLEAN]
      /\ cancelRequested' \in [Jobs -> BOOLEAN]
      /\ \A i \in Jobs \ {j} : cancelRequested'[i] = cancelRequested[i]
  BY <1>0, <1>3 DEF TypeOK, Settle
<1>6. TypeOK' BY <1>0, <1>1, <1>4, <1>5 DEF TypeOK
<1>7. \A l \in Keys : steps'[j][l] # "dispatched" BY <1>1, <1>2 DEF ChangesAt
<1>8. \A i \in Jobs \ {j}, l \in Keys : steps'[i][l] = steps[i][l] BY <1>1 DEF ChangesAt
<1>9. Rows'
  <2>1. UnknownOutcomesAreHeld'
    BY <1>0, <1>4, <1>7, <1>8 DEF Rows, UnknownOutcomesAreHeld, Unresolved
  <2>2. CancelSticks' BY <1>0, <1>4, <1>5 DEF Rows, CancelSticks
  <2>3. OneDispatched' BY <1>0, <1>7, <1>8 DEF Rows, OneDispatched
  <2>4. StepCounts'
    BY <1>0, <1>1 DEF Rows, StepCounts, ChangesAt
  <2>5. ReadySteps'
    <3> SUFFICES ASSUME NEW i \in Jobs, state'[i] = "ready"
                 PROVE  /\ \A b \in 1..Batches : Summarised(i, b)'
                        /\ \A l \in Keys : steps'[i][l] \in {"none", "completed"}
      BY DEF ReadySteps
    <3>1. i # j /\ state[i] = "ready" BY <1>4
    <3>2. \A l \in Keys : steps'[i][l] = steps[i][l] BY <1>8, <3>1
    <3>3. \A b \in 1..Batches : Summarised(i, b)'
      BY <1>0, <3>1, <3>2 DEF Rows, ReadySteps, Summarised, Keys
    <3> QED BY <1>0, <3>1, <3>2, <3>3 DEF Rows, ReadySteps
  <2>6. Charges' BY <1>0, <1>7, <1>8 DEF Rows, Charges
  <2> QED BY <1>4, <2>1, <2>2, <2>3, <2>4, <2>5, <2>6 DEF Rows
<1>10. ASSUME NEW v \in Workers PROVE WorkerOK(v)'
  <2>1. WorkerOK(v) /\ at'[v] = at[v] BY <1>0 DEF IInv
  <2>2. \A i \in Jobs, l \in Keys : steps[i][l] = "completed" => steps'[i][l] = "completed"
    BY <1>0, <1>1 DEF ChangesAt
  <2>3. ASSUME Holds(v)
        PROVE  \/ steps'[at[v].job][Key(v)] = steps[at[v].job][Key(v)]
               \/ /\ steps'[at[v].job][Key(v)] = "abandoned"
                  /\ at[v].pc \notin {"send", "sent"}
    <3>1. at[v].job \in Jobs /\ Key(v) \in Keys BY <1>0, <2>3, Busy DEF Holds
    <3>2. CASE at[v].job = j /\ Key(v) = k BY <1>0, <1>1, <3>2 DEF InFlight
    <3>3. CASE at[v].job # j \/ Key(v) # k BY <1>1, <3>1, <3>3 DEF ChangesAt
    <3> QED BY <3>2, <3>3
  <2> QED BY <1>0, <2>1, <2>2, <2>3, Bystander
<1>11. OneHolder' BY <1>0 DEF OneHolder, Holds, Key
<1> QED BY <1>6, <1>9, <1>10, <1>11 DEF IInv

-----------------------------------------------------------------------------
(* claim. *)

\* The queue after the sweep: the jobs that went back to it follow the others.
LEMMA SweptQueue ==
    ASSUME TypeOK, Queued, NEW R \in SUBSET Jobs, \A j \in R : state[j] = "running",
           NEW q, q = queue \o SetToSeq(R)
    PROVE  /\ q \in Seq(Jobs)
           /\ \A i \in 1..Len(q) : state[q[i]] = "queued" \/ q[i] \in R
           /\ \A i, l \in 1..Len(q) : q[i] = q[l] => i = l
<1> DEFINE r == SetToSeq(R)
<1>1. /\ r \in Seq(Jobs)
      /\ \A i \in 1..Len(r) : r[i] \in R
      /\ \A i, l \in 1..Len(r) : r[i] = r[l] => i = l
  BY Enumerated
<1>2. queue \in Seq(Jobs) BY DEF TypeOK
<1>3. q = queue \o r OBVIOUS
<1> HIDE DEF r
<1>4. /\ q \in Seq(Jobs) /\ Len(q) = Len(queue) + Len(r)
      /\ Len(queue) \in Nat /\ Len(r) \in Nat
  BY <1>1, <1>2, <1>3
<1>5. \A i \in 1..Len(q) : q[i] = IF i <= Len(queue) THEN queue[i] ELSE r[i - Len(queue)]
  BY <1>1, <1>2, <1>3, <1>4
<1>6. ASSUME NEW i \in 1..Len(q)
      PROVE  \/ i \in 1..Len(queue) /\ q[i] = queue[i] /\ state[q[i]] = "queued"
             \/ /\ i > Len(queue) /\ i - Len(queue) \in 1..Len(r)
                /\ q[i] = r[i - Len(queue)] /\ q[i] \in R
  <2>1. CASE i <= Len(queue)
    BY <1>4, <1>5, <2>1 DEF Queued
  <2>2. CASE i > Len(queue)
    <3>1. i - Len(queue) \in 1..Len(r) BY <1>4, <2>2
    <3>2. q[i] = r[i - Len(queue)] BY <1>4, <1>5, <2>2
    <3> QED BY <1>1, <2>2, <3>1, <3>2
  <2> QED BY <1>4, <2>1, <2>2
<1>7. ASSUME NEW i \in 1..Len(q), NEW l \in 1..Len(q), q[i] = q[l]
      PROVE  i = l
  <2>1. CASE i \in 1..Len(queue) /\ l \in 1..Len(queue)
    BY <1>5, <1>7, <2>1 DEF Queued
  <2>2. CASE i \notin 1..Len(queue) /\ l \notin 1..Len(queue)
    <3>1. i - Len(queue) \in 1..Len(r) /\ l - Len(queue) \in 1..Len(r)
          /\ r[i - Len(queue)] = r[l - Len(queue)]
      BY <1>6, <1>7, <2>2
    <3>2. i - Len(queue) = l - Len(queue) BY <1>1, <3>1
    <3> QED BY <1>4, <3>2
  <2>3. CASE i \in 1..Len(queue) /\ l \notin 1..Len(queue)
    <3>1. state[q[i]] = "queued" BY <1>5, <2>3 DEF Queued
    <3>2. q[l] \in R BY <1>6, <2>3
    <3> QED BY <1>7, <3>1, <3>2
  <2>4. CASE i \notin 1..Len(queue) /\ l \in 1..Len(queue)
    <3>1. state[q[l]] = "queued" BY <1>5, <2>4 DEF Queued
    <3>2. q[i] \in R BY <1>6, <2>4
    <3> QED BY <1>7, <3>1, <3>2
  <2> QED BY <2>1, <2>2, <2>3, <2>4
<1> QED BY <1>4, <1>6, <1>7

\* The sweep decides about no job but the expired ones.
LEMMA Swept ==
    ASSUME TypeOK, Rows, NEW i \in Jobs
    PROVE  /\ SweptState(i) \in States
           /\ SweptState(i) \in {"running", "needs_context"} => Open(i)
           /\ Unresolved(i) => SweptState(i) \in {"running", "needs_context"}
           /\ SweptState(i) = "needs_context" => Unresolved(i)
           /\ cancelRequested[i] => SweptState(i) \in {"cancelled", "needs_context"}
           /\ SweptState(i) = "ready" => state[i] = "ready"
           /\ state[i] = "queued" => SweptState(i) = "queued"
BY DEF TypeOK, States, SweptState, Expired, Open, Rows, UnknownOutcomesAreHeld, CancelSticks

\* claim: the sweep, then at most one job is opened.
LEMMA ClaimStep ==
    ASSUME IInv, NEW w \in Workers, Claim(w)
    PROVE  IInv'
<1> DEFINE swept    == [j \in Jobs |-> SweptState(j)]
           requeued == {j \in Jobs : Expired(j) /\ swept[j] = "queued"}
           queued   == queue \o SetToSeq(requeued)
           freed    == [j \in Jobs |-> IF Expired(j) THEN NoWorker ELSE worker[j]]
<1>0. /\ TypeOK /\ Rows /\ at[w] = Idle
      /\ UNCHANGED <<spent, cancelRequested, steps, attempt, calls, input, output, sends, refusals>>
  BY DEF IInv, Claim
<1>1. /\ queued \in Seq(Jobs)
      /\ \A i \in 1..Len(queued) : state[queued[i]] = "queued" \/ queued[i] \in requeued
      /\ \A i, l \in 1..Len(queued) : queued[i] = queued[l] => i = l
  <2>1. \A j \in requeued : state[j] = "running" BY DEF Expired
  <2>2. requeued \in SUBSET Jobs OBVIOUS
  <2> HIDE DEF requeued
  <2> QED BY <1>0, <2>1, <2>2, SweptQueue DEF Rows
<1>2. \A i \in Jobs : swept[i] = SweptState(i) OBVIOUS
<1>3. \A i \in 1..Len(queued) : queued[i] \in Jobs /\ swept[queued[i]] = "queued"
  <2>1. \A j \in requeued : j \in Jobs /\ swept[j] = "queued" OBVIOUS
  <2>2. \A j \in Jobs : state[j] = "queued" => swept[j] = "queued" BY <1>0, <1>2, Swept
  <2> HIDE DEF swept, requeued, queued
  <2> QED BY <1>1, <2>1, <2>2
<1>4. swept \in [Jobs -> States] BY <1>0, Swept
<1>5. freed \in [Jobs -> Workers \cup {NoWorker}] BY <1>0 DEF TypeOK
<1>6. \/ state' = swept /\ worker' = freed /\ queue' = queued /\ UNCHANGED <<live, at>>
      \/ /\ ~ Blocked(swept) /\ queued # <<>> /\ worker' = freed /\ queue' = Tail(queued)
         /\ state' = [swept EXCEPT ![Head(queued)] = "failed"] /\ UNCHANGED <<live, at>>
      \/ /\ ~ Blocked(swept) /\ queued # <<>> /\ queue' = Tail(queued)
         /\ state' = [swept EXCEPT ![Head(queued)] = "running"]
         /\ worker' = [freed EXCEPT ![Head(queued)] = w]
         /\ live' = [live EXCEPT ![Head(queued)] = TRUE]
         /\ at' = [at EXCEPT ![w] = Tick("cached", Head(queued), 1, AnyTarget, 0, "none")]
  BY DEF Claim
<1> HIDE DEF swept, requeued, queued, freed
<1>7. CASE state' = swept /\ worker' = freed /\ queue' = queued /\ UNCHANGED <<live, at>>
  <2>1. Queued' BY <1>1, <1>3, <1>7 DEF Queued
  <2>2. OneOpen' BY <1>0, <1>2, <1>7, Swept DEF Rows, OneOpen, Open
  <2>3. \A i \in Jobs : /\ Unresolved(i) => state'[i] \in {"running", "needs_context"}
                        /\ state'[i] = "needs_context" => Unresolved(i)
                        /\ cancelRequested'[i] => state'[i] \in {"cancelled", "needs_context"}
                        /\ state'[i] = "ready" => state[i] = "ready"
    BY <1>0, <1>2, <1>7, Swept
  <2>4. Rows' BY <1>0, <2>1, <2>2, <2>3, StateRows
  <2>5. TypeOK' BY <1>0, <1>1, <1>4, <1>5, <1>7 DEF TypeOK
  <2> QED BY <1>0, <1>7, <2>4, <2>5, WorkersStay DEF IInv
<1>8. ASSUME ~ Blocked(swept), queued # <<>>, queue' = Tail(queued),
             NEW s \in {"failed", "running"}, state' = [swept EXCEPT ![Head(queued)] = s]
      PROVE  /\ Rows' /\ Head(queued) \in Jobs
             /\ state' \in [Jobs -> States] /\ queue' \in Seq(Jobs)
  <2> DEFINE h == Head(queued)
  <2>1. /\ h \in Jobs /\ h = queued[1] /\ queue' \in Seq(Jobs)
        /\ Len(queue') = Len(queued) - 1 /\ Len(queued) \in Nat /\ 1 \in 1..Len(queued)
        /\ \A i \in 1..Len(queue') : i + 1 \in 1..Len(queued) /\ queue'[i] = queued[i + 1]
    BY <1>1, <1>8
  <2>2. swept[h] = "queued" BY <1>3, <2>1
  <2> HIDE DEF h
  <2>3. /\ state' \in [Jobs -> States] /\ state'[h] = s
        /\ \A i \in Jobs \ {h} : state'[i] = swept[i]
    BY <1>4, <1>8, <2>1 DEF h, States
  <2>4. \A i \in 1..Len(queue') : queue'[i] \in Jobs \ {h} /\ swept[queue'[i]] = "queued"
    <3> SUFFICES ASSUME NEW i \in 1..Len(queue')
                 PROVE  queue'[i] \in Jobs \ {h} /\ swept[queue'[i]] = "queued"
      OBVIOUS
    <3>1. i + 1 \in 1..Len(queued) /\ queue'[i] = queued[i + 1] /\ i + 1 # 1 BY <2>1
    <3>2. queued[i + 1] # queued[1] BY <1>1, <2>1, <3>1
    <3> QED BY <1>3, <2>1, <3>1, <3>2
  <2>5. \A i, l \in 1..Len(queue') : queue'[i] = queue'[l] => i = l
    <3> SUFFICES ASSUME NEW i \in 1..Len(queue'), NEW l \in 1..Len(queue'), queue'[i] = queue'[l]
                 PROVE  i = l
      OBVIOUS
    <3>1. i + 1 = l + 1 BY <1>1, <2>1
    <3> QED BY <3>1
  <2>6. Queued' BY <2>3, <2>4, <2>5 DEF Queued
  <2>7. \A i \in Jobs : swept[i] \notin {"running", "needs_context"} BY <1>8 DEF Blocked
  <2>8. OneOpen' BY <2>3, <2>7 DEF OneOpen, Open
  <2>9. ~Unresolved(h) /\ ~cancelRequested[h] BY <1>0, <1>2, <2>1, <2>2, Swept
  <2>10. \A i \in Jobs : /\ Unresolved(i) => state'[i] \in {"running", "needs_context"}
                         /\ state'[i] = "needs_context" => Unresolved(i)
                         /\ cancelRequested'[i] => state'[i] \in {"cancelled", "needs_context"}
                         /\ state'[i] = "ready" => state[i] = "ready"
    BY <1>0, <1>2, <2>3, <2>9, Swept
  <2>11. Rows' BY <1>0, <2>6, <2>8, <2>10, StateRows
  <2> QED BY <2>1, <2>3, <2>11 DEF h
<1>9. CASE /\ ~ Blocked(swept) /\ queued # <<>> /\ worker' = freed /\ queue' = Tail(queued)
           /\ state' = [swept EXCEPT ![Head(queued)] = "failed"] /\ UNCHANGED <<live, at>>
  <2>1. Rows' /\ state' \in [Jobs -> States] /\ queue' \in Seq(Jobs) BY <1>8, <1>9
  <2>2. TypeOK' BY <1>0, <1>5, <1>9, <2>1 DEF TypeOK
  <2> QED BY <1>0, <1>9, <2>1, <2>2, WorkersStay DEF IInv
<1>10. CASE /\ ~ Blocked(swept) /\ queued # <<>> /\ queue' = Tail(queued)
            /\ state' = [swept EXCEPT ![Head(queued)] = "running"]
            /\ worker' = [freed EXCEPT ![Head(queued)] = w]
            /\ live' = [live EXCEPT ![Head(queued)] = TRUE]
            /\ at' = [at EXCEPT ![w] = Tick("cached", Head(queued), 1, AnyTarget, 0, "none")]
  <2>1. /\ Rows' /\ Head(queued) \in Jobs
        /\ state' \in [Jobs -> States] /\ queue' \in Seq(Jobs)
    BY <1>8, <1>10
  <2> DEFINE x == Tick("cached", Head(queued), 1, AnyTarget, 0, "none")
  <2>2. x \in Ticks /\ x.pc = "cached" /\ x.batch = 1
    BY <2>1, AnyTargetType, LimitsAssumption DEF Tick, Ticks
  <2> HIDE DEF x
  <2>3. /\ at' \in [Workers -> Ticks \cup {Idle}] /\ at'[w] = x
        /\ \A v \in Workers \ {w} : at'[v] = at[v]
    BY <1>0, <1>10, <2>2, Moved DEF x
  <2>4. worker' \in [Jobs -> Workers \cup {NoWorker}] /\ live' \in [Jobs -> BOOLEAN]
    BY <1>0, <1>5, <1>10 DEF TypeOK
  <2>5. TypeOK' BY <1>0, <2>1, <2>3, <2>4 DEF TypeOK
  <2>6. WorkerOK(w)' BY <2>2, <2>3 DEF WorkerOK, HeldStep, HeldCounts, Progress, Holds
  <2>7. ASSUME NEW v \in Workers, v # w PROVE WorkerOK(v)'
    BY <1>0, <2>3, <2>7, Bystander DEF IInv
  <2>8. OneHolder' BY <2>2, <2>3, StillOneHolder DEF IInv, Holds
  <2> QED BY <2>1, <2>5, <2>6, <2>7, <2>8 DEF IInv
<1> QED BY <1>6, <1>7, <1>9, <1>10

-----------------------------------------------------------------------------
(* The invariant. *)

\* An empty store satisfies the invariant.
LEMMA Initially == Init => IInv
<1> SUFFICES ASSUME Init PROVE IInv OBVIOUS
<1>1. TypeOK
  BY LimitsAssumption DEF Init, TypeOK, States, StepStates, Ticks, Idle
<1>2. Queued /\ OneOpen /\ UnknownOutcomesAreHeld /\ CancelSticks
  BY DEF Init, Queued, OneOpen, Open, UnknownOutcomesAreHeld, CancelSticks, Unresolved
<1>3. OneDispatched /\ StepCounts /\ ReadySteps
  BY DEF Init, OneDispatched, StepCounts, ReadySteps
<1>4. Charges BY LimitsAssumption DEF Init, Charges
<1>5. \A w \in Workers : at[w].pc = "idle" BY DEF Init, Idle
<1>6. (\A w \in Workers : WorkerOK(w)) /\ OneHolder
  BY <1>5 DEF WorkerOK, HeldStep, HeldCounts, Progress, Holds, OneHolder
<1> QED BY <1>1, <1>2, <1>3, <1>4, <1>6 DEF IInv, Rows

\* A worker that meets a conflict, an error or an interruption gives up.
LEMMA GiveUpSteps ==
    ASSUME IInv, NEW w \in Workers,
           \/ DispatchConflict(w) \/ TransportError(w) \/ RecordConflict(w)
           \/ CandidateConflict(w) \/ Interrupt(w)
    PROVE  IInv'
<1>1. /\ at[w].pc # "idle" /\ Goto(w, "failing")
      /\ UNCHANGED <<rows, sends, refusals>>
  BY DEF DispatchConflict, TransportError, RecordConflict, CandidateConflict, Interrupt
<1> QED BY <1>1, GivesUp

\* Whatever a worker does by itself.
LEMMA WorkStep ==
    ASSUME IInv, NEW w \in Workers, Work(w)
    PROVE  IInv'
<1>1. CASE \E t \in Targets : Cached(w, t) BY <1>1, CachedStep
<1>2. CASE Dispatch(w) BY <1>2, DispatchStep
<1>3. CASE Operation(w) BY <1>3, OperationStep
<1>4. CASE Send(w) BY <1>4, SendStep
<1>5. CASE NotSent(w) BY <1>5, NotSentMove
<1>6. CASE \E got \in Answers : Response(w, got) BY <1>6, ResponseStep
<1>7. CASE \E tokens \in 1..OutputReserve : CompleteStep(w, tokens) BY <1>7, CompleteStepStep
<1>8. CASE FailedStep(w) BY <1>8, FailedStepStep
<1>9. CASE NotSentStep(w) BY <1>9, NotSentStepStep
<1>10. CASE Candidate(w) BY <1>10, CandidateStep
<1>11. CASE Fail(w) BY <1>11, FailStep
<1>12. CASE \/ DispatchConflict(w) \/ TransportError(w) \/ RecordConflict(w)
            \/ CandidateConflict(w)
  BY <1>12, GiveUpSteps
<1> QED
  BY <1>1, <1>2, <1>3, <1>4, <1>5, <1>6, <1>7, <1>8, <1>9, <1>10, <1>11, <1>12 DEF Work

\* Every step keeps the invariant.
LEMMA Inductive == IInv /\ [Next]_vars => IInv'
<1> SUFFICES ASSUME IInv, [Next]_vars PROVE IInv' OBVIOUS
<1>1. ASSUME NEW j \in Jobs, Create(j) \/ Cancel(j) \/ LeaseExpires(j) \/ BudgetElapses(j)
      PROVE  IInv'
  BY <1>1, CreateStep, CancelStep, TimeStep
<1>2. ASSUME NEW j \in Jobs, NEW k \in Keys, AbandonVerifiedOperation(j, k) PROVE IInv'
  BY <1>2, AbandonStep
<1>3. ASSUME NEW w \in Workers, Claim(w) \/ Work(w) \/ Interrupt(w) \/ Crash(w) PROVE IInv'
  BY <1>3, ClaimStep, WorkStep, GiveUpSteps, CrashStep
<1>4. CASE UNCHANGED vars
  <2>1. UNCHANGED <<rows, at, sends, refusals>> BY <1>4 DEF vars
  <2>2. TypeOK' BY <2>1 DEF IInv, TypeOK, rows
  <2>3. StepCounts' BY <2>1 DEF IInv, Rows, StepCounts, rows
  <2>4. Rows' BY <2>1, <2>3, SameRows DEF IInv, rows
  <2> QED BY <2>1, <2>2, <2>4, WorkersStay DEF IInv, rows
<1> QED BY <1>1, <1>2, <1>3, <1>4 DEF Next

\* The invariant holds in every reachable state.
LEMMA Invariant == Safety => []IInv
<1>1. Init => IInv BY Initially
<1>2. IInv /\ [Next]_vars => IInv' BY Inductive
<1> QED BY <1>1, <1>2, PTL DEF Safety

-----------------------------------------------------------------------------
(* The promises of compaction_jobs.py. *)

\* The provider receives a summary call again only after it has answered every
\* earlier one with 429 or 503, and never more than twice, for any number of
\* jobs, workers, batches and deployments (CompactionJobStore.dispatch and
\* not_sent_step, with every crash, lost lease and sweep in between).
THEOREM CallsAreNeverReplayed == Safety => []NeverReplayed
<1>1. IInv => NeverReplayed
  <2> SUFFICES ASSUME IInv, NEW j \in Jobs, NEW k \in Keys
               PROVE  sends[j][k] <= 2 /\ sends[j][k] <= refusals[j][k] + 1
    BY DEF NeverReplayed
  <2>1. sends[j][k] \in Nat /\ attempt[j][k] \in 0..2 BY DEF IInv, TypeOK
  <2>2. sends[j][k] <= attempt[j][k] /\ sends[j][k] <= refusals[j][k] + 1
    BY DEF IInv, Rows, StepCounts
  <2> QED BY <2>1, <2>2
<1> QED BY <1>1, Invariant, PTL

\* One background summary call of the whole installation is in flight, whatever
\* number of router processes share the store: the job it belongs to is open,
\* claim opens one job, and dispatch leaves one step of it without an outcome.
THEOREM OneCallInFlight == Safety => []SingleFlight
<1>1. IInv => SingleFlight
  <2> SUFFICES ASSUME IInv, NEW v \in Workers, NEW w \in Workers,
                      at[v].pc \in {"send", "sent"}, at[w].pc \in {"send", "sent"}
               PROVE  v = w
    BY DEF SingleFlight
  <2>1. ASSUME NEW u \in Workers, at[u].pc \in {"send", "sent"}
        PROVE  /\ at[u].job \in Jobs /\ Key(u) \in Keys /\ Holds(u)
               /\ steps[at[u].job][Key(u)] = "dispatched" /\ Open(at[u].job)
    <3>1. at[u].job \in Jobs /\ Key(u) \in Keys BY <2>1, Busy DEF IInv
    <3>2. Holds(u) /\ steps[at[u].job][Key(u)] = "dispatched"
      BY <2>1 DEF IInv, WorkerOK, HeldStep, Holds
    <3>3. Unresolved(at[u].job) BY <3>1, <3>2 DEF Unresolved
    <3>4. Open(at[u].job) BY <3>1, <3>3 DEF IInv, Rows, UnknownOutcomesAreHeld, Open
    <3> QED BY <3>1, <3>2, <3>4
  <2>2. at[v].job = at[w].job BY <2>1 DEF IInv, Rows, OneOpen
  <2>3. Key(v) = Key(w) BY <2>1, <2>2 DEF IInv, Rows, OneDispatched
  <2> QED BY <2>1, <2>2, <2>3 DEF IInv, OneHolder
<1> QED BY <1>1, Invariant, PTL

\* Types are kept, a job is held for reconciliation exactly while a call of it
\* has an unknown outcome and nobody works on it, and a cancelled job is never
\* published, claimed or run again.
THEOREM DecisionsStay == Safety => []OutcomesHold
<1>1. IInv => OutcomesHold BY DEF IInv, Rows, OutcomesHold
<1> QED BY <1>1, Invariant, PTL

\* A published candidate rests on a summary of every batch that the provider
\* really returned, and on no call that failed or was given up
\* (candidate_ready, reached through any number of claims and retries).
THEOREM CandidatesAreComplete == Safety => []ReadyIsComplete
<1>1. IInv => ReadyIsComplete
  <2> SUFFICES ASSUME IInv, NEW j \in Jobs, state[j] = "ready"
               PROVE  /\ \A b \in 1..Batches : \E t \in Targets : steps[j][<<b, t>>] = "completed"
                      /\ \A k \in Keys : IF sends[j][k] > 0 THEN steps[j][k] = "completed"
                                                             ELSE steps[j][k] = "none"
    BY DEF ReadyIsComplete
  <2>1. /\ \A b \in 1..Batches : Summarised(j, b)
        /\ \A k \in Keys : steps[j][k] \in {"none", "completed"}
    BY DEF IInv, Rows, ReadySteps
  <2>2. ASSUME NEW k \in Keys
        PROVE  IF sends[j][k] > 0 THEN steps[j][k] = "completed" ELSE steps[j][k] = "none"
    <3>1. sends[j][k] \in Nat /\ attempt[j][k] \in 0..2 BY DEF IInv, TypeOK
    <3>2. /\ sends[j][k] <= attempt[j][k]
          /\ steps[j][k] = "none" => attempt[j][k] = 0
          /\ steps[j][k] = "completed" => sends[j][k] > 0
      BY DEF IInv, Rows, StepCounts
    <3> QED BY <2>1, <3>1, <3>2
  <2> QED BY <2>1, <2>2 DEF Summarised
<1> QED BY <1>1, Invariant, PTL

-----------------------------------------------------------------------------
(***************************************************************************)
(* Every call the provider received has been paid for. A worker that may   *)
(* still send, or has to give back the charge of a call that did not       *)
(* leave, is covered by a charge of its own: otherwise the refund of       *)
(* not_sent_step would take back the charge of a call that was sent.       *)
(***************************************************************************)
\* The worker has charged a call that the provider has not received.
Unsent(w) ==
    \/ at[w].pc \in {"operation", "send"}
    \/ at[w].pc = "record" /\ at[w].got = "notsent"

\* The charges of a job cover what the provider received, and c calls and n tokens more.
Pays(j, c, n) ==
    /\ IsFiniteSet(Received(sends[j])) /\ IsFiniteSet(ReceivedInput(sends[j]))
    /\ Cardinality(Received(sends[j])) + c <= calls[j]
    /\ Cardinality(ReceivedInput(sends[j])) + n <= input[j]

\* The charge of the call the worker has not sent, while its step is dispatched.
PaysFor(w) ==
    Unsent(w) /\ steps[at[w].job][Key(w)] = "dispatched" =>
       Pays(at[w].job, 1, InputTokens[Key(w)[1]])

Paid == (\A j \in Jobs : Pays(j, 0, 0)) /\ (\A w \in Workers : PaysFor(w))

\* The tokens of one call.
LEMMA OneCall ==
    ASSUME NEW k, NEW n, NEW m \in Nat
    PROVE  LET F == {k} \X {n} \X (1..m) IN IsFiniteSet(F) /\ Cardinality(F) = m
<1> DEFINE F == {k} \X {n} \X (1..m)
           f == [i \in 1..m |-> <<k, n, i>>]
<1>1. f \in [1..m -> F] OBVIOUS
<1>2. \A i, l \in 1..m : f[i] = f[l] => i = l OBVIOUS
<1>3. \A x \in F : \E i \in 1..m : f[i] = x OBVIOUS
<1> HIDE DEF F, f
<1>4. f \in Bijection(1..m, F)
  BY <1>1, <1>2, <1>3 DEF Bijection, Injection, Surjection, IsInjective
<1>5. ExistsBijection(1..m, F) BY <1>4 DEF ExistsBijection
<1>6. IsFiniteSet(1..m) /\ Cardinality(1..m) = m BY FS_Interval
<1> QED BY <1>5, <1>6, FS_Bijection DEF F

\* What one more call of a step adds to what the provider received.
LEMMA OneMore ==
    ASSUME NEW c \in [Keys -> Nat], NEW d \in [Keys -> Nat], NEW k \in Keys,
           d[k] = c[k] + 1, \A l \in Keys : l # k => d[l] = c[l],
           IsFiniteSet(Received(c)), IsFiniteSet(ReceivedInput(c))
    PROVE  /\ IsFiniteSet(Received(d)) /\ IsFiniteSet(ReceivedInput(d))
           /\ Cardinality(Received(d)) = Cardinality(Received(c)) + 1
           /\ Cardinality(ReceivedInput(d)) = Cardinality(ReceivedInput(c)) + InputTokens[k[1]]
<1>1. PICK n \in Nat, m \in Nat : n = c[k] + 1 /\ m = InputTokens[k[1]]
  BY LimitsAssumption DEF Keys
<1>2. Received(d) = Received(c) \cup {<<k, n>>} /\ <<k, n>> \notin Received(c)
  BY <1>1 DEF Received
<1>3. IsFiniteSet(Received(d)) /\ Cardinality(Received(d)) = Cardinality(Received(c)) + 1
  <2>1. PICK S, e : S = Received(c) /\ e = <<k, n>> OBVIOUS
  <2>2. IsFiniteSet(S) /\ e \notin S BY <1>2, <2>1
  <2>3. IsFiniteSet(S \cup {e}) /\ Cardinality(S \cup {e}) = Cardinality(S) + 1
    BY <2>2, FS_AddElement
  <2> QED BY <1>2, <2>1, <2>3
<1> DEFINE F == {k} \X {n} \X (1..m)
<1>4. ReceivedInput(d) = ReceivedInput(c) \cup F
  BY <1>1 DEF ReceivedInput
<1>5. ReceivedInput(c) \cap F = {}
  BY <1>1 DEF ReceivedInput
<1>6. IsFiniteSet(F) /\ Cardinality(F) = m BY OneCall
<1> HIDE DEF F
<1>7. IsFiniteSet(ReceivedInput(d))
      /\ Cardinality(ReceivedInput(d)) = Cardinality(ReceivedInput(c)) + m - 0
  <2>1. PICK S : S = ReceivedInput(c) OBVIOUS
  <2>2. IsFiniteSet(S) /\ S \cap F = {} /\ Cardinality({}) = 0 BY <1>5, <2>1, FS_EmptySet
  <2>3. /\ IsFiniteSet(S \cup F)
        /\ Cardinality(S \cup F) = Cardinality(S) + Cardinality(F) - Cardinality(S \cap F)
    BY <1>6, <2>2, FS_Union
  <2> QED BY <1>4, <1>6, <2>1, <2>2, <2>3
<1>8. Cardinality(ReceivedInput(c)) \in Nat BY FS_CardinalityType
<1> QED BY <1>1, <1>3, <1>7, <1>8

\* Nothing has been received.
LEMMA NothingReceived ==
    ASSUME NEW c \in [Keys -> Nat], \A k \in Keys : c[k] = 0
    PROVE  Received(c) = {} /\ ReceivedInput(c) = {}
<1>1. \A k \in Keys : 1..c[k] = {} OBVIOUS
<1>2. Received(c) = {} BY <1>1 DEF Received
<1>3. ReceivedInput(c) = {} BY <1>1 DEF ReceivedInput
<1> QED BY <1>2, <1>3

-----------------------------------------------------------------------------
(* What the steps do to the charges. *)

\* Where the workers and the steps go in every step but a dispatch: nobody comes
\* to a call that is not sent.
Onward ==
    /\ \A j \in Jobs, k \in Keys : steps'[j][k] = "dispatched" => steps[j][k] = "dispatched"
    /\ \A w \in Workers : Unsent(w)' => Unsent(w) /\ at'[w].job = at[w].job /\ Key(w)' = Key(w)

\* A step that charges nothing, gives nothing back and sends nothing.
LEMMA NoCharge ==
    ASSUME TypeOK, Paid, Onward, UNCHANGED <<sends, calls, input>>
    PROVE  Paid'
<1>1. ASSUME NEW j, NEW c, NEW n, Pays(j, c, n) PROVE Pays(j, c, n)'
  BY <1>1 DEF Pays
<1>2. \A j \in Jobs : Pays(j, 0, 0)' BY <1>1 DEF Paid
<1>3. ASSUME NEW w \in Workers PROVE PaysFor(w)'
  <2> SUFFICES ASSUME Unsent(w)', steps'[at'[w].job][Key(w)'] = "dispatched"
               PROVE  Pays(at[w].job, 1, InputTokens[Key(w)[1]])' /\ at'[w].job = at[w].job /\ Key(w)' = Key(w)
    BY DEF PaysFor, Pays
  <2>1. Unsent(w) /\ at'[w].job = at[w].job /\ Key(w)' = Key(w) BY DEF Onward
  <2>2. at[w].job \in Jobs /\ Key(w) \in Keys BY <2>1, Busy DEF Unsent
  <2>3. steps[at[w].job][Key(w)] = "dispatched" BY <2>1, <2>2 DEF Onward
  <2>4. Pays(at[w].job, 1, InputTokens[Key(w)[1]]) BY <2>1, <2>3 DEF Paid, PaysFor
  <2>5. PICK j, n : j = at[w].job /\ n = InputTokens[Key(w)[1]] OBVIOUS
  <2>6. Pays(j, 1, n)' BY <1>1, <2>4, <2>5
  <2> QED BY <2>1, <2>5, <2>6 DEF Pays
<1> QED BY <1>2, <1>3 DEF Paid

\* A worker that moves, but not to a call that is not sent.
LEMMA MovesOn ==
    ASSUME TypeOK, NEW w \in Workers, NEW x \in Ticks \cup {Idle}, at' = [at EXCEPT ![w] = x],
           x.pc \notin {"operation", "send"}, ~ (x.pc = "record" /\ x.got = "notsent"),
           \A j \in Jobs, k \in Keys : steps'[j][k] = "dispatched" => steps[j][k] = "dispatched"
    PROVE  Onward
<1>1. at'[w] = x /\ \A v \in Workers \ {w} : at'[v] = at[v] BY Moved
<1>2. ~ Unsent(w)' BY <1>1 DEF Unsent
<1>3. ASSUME NEW v \in Workers \ {w} PROVE Unsent(v)' = Unsent(v) /\ Key(v)' = Key(v)
  BY <1>1 DEF Unsent, Key
<1> QED BY <1>1, <1>2, <1>3 DEF Onward

\* The point of a worker that gives up.
LEMMA GoesFailing ==
    ASSUME TypeOK, NEW w \in Workers, at[w].pc # "idle", Goto(w, "failing"),
           \A j \in Jobs, k \in Keys : steps'[j][k] = "dispatched" => steps[j][k] = "dispatched"
    PROVE  Onward
<1> DEFINE x == Tick("failing", at[w].job, at[w].batch, at[w].target, at[w].try, at[w].got)
<1>1. x \in Ticks /\ at' = [at EXCEPT ![w] = x] BY Went DEF Points
<1>2. x.pc = "failing" BY DEF Tick
<1> HIDE DEF x
<1> QED BY <1>1, <1>2, MovesOn

\* A worker stops.
LEMMA GoesIdle ==
    ASSUME TypeOK, NEW w \in Workers, at' = [at EXCEPT ![w] = Idle], UNCHANGED steps
    PROVE  Onward
<1>1. Idle.pc = "idle" BY DEF Idle
<1> QED BY <1>1, MovesOn

\* The point of a worker that has the summary of its batch.
LEMMA GoesToNext ==
    ASSUME TypeOK, NEW w \in Workers, at[w].pc # "idle", NextBatch(w),
           \A j \in Jobs, k \in Keys : steps'[j][k] = "dispatched" => steps[j][k] = "dispatched"
    PROVE  Onward
<1> DEFINE x == IF at[w].batch = Batches
                THEN Tick("publish", at[w].job, at[w].batch, at[w].target, at[w].try, "none")
                ELSE Tick("cached", at[w].job, at[w].batch + 1, AnyTarget, at[w].try, "none")
<1>1. at' = [at EXCEPT ![w] = x] BY DEF NextBatch
<1>2. /\ at[w].job \in Jobs /\ at[w].batch \in 1..Batches /\ at[w].target \in Targets
      /\ at[w].try \in {0, 1}
  BY Busy
<1>3. x \in Ticks BY <1>2, AnyTargetType, LimitsAssumption DEF Ticks, Tick
<1>4. x.pc \in {"cached", "publish"} BY DEF Tick
<1> HIDE DEF x
<1> QED BY <1>1, <1>3, <1>4, MovesOn

\* A step gets another state than "dispatched".
LEMMA NoneDispatched ==
    ASSUME TypeOK, NEW j \in Jobs, NEW k \in Keys, NEW s, s # "dispatched",
           steps' = [steps EXCEPT ![j][k] = s]
    PROVE  \A i \in Jobs, l \in Keys : steps'[i][l] = "dispatched" => steps[i][l] = "dispatched"
BY DEF TypeOK

\* No step but those that dispatch, send or give back concerns the charges.
LEMMA OtherSteps ==
    ASSUME TypeOK, [Next]_vars,
           \A w \in Workers : ~ Dispatch(w) /\ ~ Send(w) /\ ~ NotSentStep(w)
    PROVE  Onward /\ UNCHANGED <<sends, calls, input>>
<1> DEFINE Goal == Onward /\ UNCHANGED <<sends, calls, input>>
<1> SUFFICES Goal OBVIOUS
<1>0. UNCHANGED <<steps, at>> => Onward BY DEF Onward, Unsent, Key
<1> HIDE DEF Goal
<1>1. ASSUME NEW j \in Jobs, Create(j) \/ Cancel(j) \/ LeaseExpires(j) \/ BudgetElapses(j)
      PROVE  Goal
  BY <1>0, <1>1 DEF Goal, Create, Cancel, LeaseExpires, BudgetElapses
<1>2. ASSUME NEW j \in Jobs, NEW k \in Keys, AbandonVerifiedOperation(j, k) PROVE Goal
  <2>1. /\ steps' = [steps EXCEPT ![j][k] = "abandoned"] /\ UNCHANGED <<at, sends, calls, input>>
    BY <1>2 DEF AbandonVerifiedOperation
  <2>2. \A i \in Jobs, l \in Keys : steps'[i][l] = "dispatched" => steps[i][l] = "dispatched"
    BY <2>1, NoneDispatched
  <2> QED BY <2>1, <2>2 DEF Goal, Onward, Unsent, Key
<1>3. ASSUME NEW w \in Workers, Claim(w) PROVE Goal
  <2>1. UNCHANGED <<steps, sends, calls, input>> BY <1>3 DEF Claim
  <2>2. CASE UNCHANGED at BY <1>0, <2>1, <2>2 DEF Goal
  <2>3. ASSUME NEW h \in Jobs, at' = [at EXCEPT ![w] = Tick("cached", h, 1, AnyTarget, 0, "none")]
        PROVE  Goal
    <3> DEFINE x == Tick("cached", h, 1, AnyTarget, 0, "none")
    <3>1. x \in Ticks /\ x.pc = "cached" BY AnyTargetType, LimitsAssumption DEF Tick, Ticks
    <3>2. at' = [at EXCEPT ![w] = x] BY <2>3
    <3> HIDE DEF x
    <3> QED BY <2>1, <3>1, <3>2, MovesOn DEF Goal
  <2>4. ASSUME UNCHANGED at => FALSE
        PROVE \E h \in Jobs : at' = [at EXCEPT ![w] = Tick("cached", h, 1, AnyTarget, 0, "none")]
    <3> DEFINE S == {j \in Jobs : Expired(j) /\ [i \in Jobs |-> SweptState(i)][j] = "queued"}
    <3>1. PICK q : /\ q = queue \o SetToSeq(S) /\ q # <<>>
                   /\ at' = [at EXCEPT ![w] = Tick("cached", Head(q), 1, AnyTarget, 0, "none")]
      BY <1>3, <2>4 DEF Claim
    <3>2. q \in Seq(Jobs)
      <4>1. S \in SUBSET Jobs OBVIOUS
      <4> HIDE DEF S
      <4>2. SetToSeq(S) \in Seq(Jobs) BY <4>1, Enumerated
      <4> QED BY <3>1, <4>2 DEF TypeOK
    <3>3. Head(q) \in Jobs BY <3>1, <3>2
    <3> QED BY <3>1, <3>3
  <2> QED BY <2>2, <2>3, <2>4
<1>4. ASSUME NEW w \in Workers, NEW t \in Targets, Cached(w, t) PROVE Goal
  <2>1. at[w].pc = "cached" /\ UNCHANGED <<steps, sends, calls, input>> BY <1>4 DEF Cached, rows
  <2>2. CASE NextBatch(w) BY <2>1, <2>2, GoesToNext DEF Goal
  <2>3. CASE at' = [at EXCEPT ![w] = Tick("dispatch", @.job, @.batch, t, @.try, @.got)]
    <3> DEFINE x == Tick("dispatch", at[w].job, at[w].batch, t, at[w].try, at[w].got)
    <3>1. at' = [at EXCEPT ![w] = x] BY <2>3
    <3>2. x \in Ticks BY <2>1, Busy DEF Ticks, Tick
    <3>3. x.pc = "dispatch" BY DEF Tick
    <3> HIDE DEF x
    <3> QED BY <2>1, <3>1, <3>2, <3>3, MovesOn DEF Goal
  <2>4. CASE Goto(w, "failing") BY <2>1, <2>4, GoesFailing DEF Goal
  <2> QED BY <1>4, <2>2, <2>3, <2>4 DEF Cached
<1>5. ASSUME NEW w \in Workers,
             \/ DispatchConflict(w) \/ TransportError(w) \/ RecordConflict(w)
             \/ CandidateConflict(w) \/ Interrupt(w)
      PROVE  Goal
  <2>1. at[w].pc # "idle" /\ Goto(w, "failing") /\ UNCHANGED <<steps, sends, calls, input>>
    BY <1>5 DEF DispatchConflict, TransportError, RecordConflict, CandidateConflict, Interrupt, rows
  <2> QED BY <2>1, GoesFailing DEF Goal
<1>6. ASSUME NEW w \in Workers, Operation(w) PROVE Goal
  <2>1. at[w].pc = "operation" /\ UNCHANGED <<steps, sends, calls, input>> BY <1>6 DEF Operation, rows
  <2>2. CASE Goto(w, "failing") BY <2>1, <2>2, GoesFailing DEF Goal
  <2>3. CASE Goto(w, "send")
    <3> DEFINE x == Tick("send", at[w].job, at[w].batch, at[w].target, at[w].try, at[w].got)
    <3>1. x \in Ticks /\ at' = [at EXCEPT ![w] = x] BY <2>1, <2>3, Went DEF Points
    <3>2. x.job = at[w].job /\ x.batch = at[w].batch /\ x.target = at[w].target BY DEF Tick
    <3> HIDE DEF x
    <3>3. at'[w] = x /\ \A v \in Workers \ {w} : at'[v] = at[v] BY <3>1, Moved
    <3> QED BY <2>1, <3>2, <3>3 DEF Goal, Onward, Unsent, Key
  <2> QED BY <1>6, <2>2, <2>3 DEF Operation
<1>7. ASSUME NEW w \in Workers, NotSent(w) PROVE Goal
  <2>1. at[w].pc = "send" /\ UNCHANGED <<steps, sends, calls, input>> BY <1>7 DEF NotSent, rows
  <2>2. PICK x \in Ticks : /\ at' = [at EXCEPT ![w] = x] /\ at'[w] = x
                           /\ x.job = at[w].job /\ Key(w)' = Key(w)
    BY <1>7, <2>1, WasAnswered DEF NotSent
  <2>3. \A v \in Workers \ {w} : at'[v] = at[v] BY <2>2, Moved
  <2> QED BY <2>1, <2>2, <2>3 DEF Goal, Onward, Unsent, Key
<1>8. ASSUME NEW w \in Workers, NEW got \in Answers, Response(w, got) PROVE Goal
  <2>1. at[w].pc = "sent" /\ UNCHANGED <<steps, sends, calls, input>> BY <1>8 DEF Response, rows
  <2>2. PICK x \in Ticks : at' = [at EXCEPT ![w] = x] /\ x.pc = "record" /\ x.got = got
    BY <1>8, <2>1, WasAnswered DEF Response
  <2>3. got # "notsent" BY DEF Answers
  <2> QED BY <2>1, <2>2, <2>3, MovesOn DEF Goal
<1>9. ASSUME NEW w \in Workers, NEW tokens, CompleteStep(w, tokens) PROVE Goal
  <2>1. /\ at[w].pc = "record" /\ NextBatch(w) /\ UNCHANGED <<sends, calls, input>>
        /\ steps' = [steps EXCEPT ![at[w].job][Key(w)] = "completed"]
    BY <1>9 DEF CompleteStep
  <2>2. at[w].job \in Jobs /\ Key(w) \in Keys BY <2>1, Busy
  <2>3. \A i \in Jobs, l \in Keys : steps'[i][l] = "dispatched" => steps[i][l] = "dispatched"
    BY <2>1, <2>2, NoneDispatched
  <2> QED BY <2>1, <2>3, GoesToNext DEF Goal
<1>10. ASSUME NEW w \in Workers, FailedStep(w) PROVE Goal
  <2>1. /\ at[w].pc = "record" /\ at' = [at EXCEPT ![w] = AfterFailure(w)]
        /\ UNCHANGED <<sends, calls, input>>
    BY <1>10 DEF FailedStep
  <2>2. PICK s \in {"refused", "failed"} : steps' = [steps EXCEPT ![at[w].job][Key(w)] = s]
    BY <1>10 DEF FailedStep
  <2>3. at[w] \in Ticks /\ at[w].job \in Jobs /\ Key(w) \in Keys BY <2>1, Busy
  <2>4. \A i \in Jobs, l \in Keys : steps'[i][l] = "dispatched" => steps[i][l] = "dispatched"
    BY <2>2, <2>3, NoneDispatched
  <2>5. AfterFailure(w) \in Ticks /\ AfterFailure(w).pc \in {"cached", "failing"}
    <3>1. [at[w] EXCEPT !.pc = "failing"] \in Ticks /\ [at[w] EXCEPT !.pc = "failing"].pc = "failing"
      BY <2>3 DEF Ticks
    <3>2. Tick("cached", at[w].job, 1, AnyTarget, 1, "none") \in Ticks
          /\ Tick("cached", at[w].job, 1, AnyTarget, 1, "none").pc = "cached"
      BY <2>3, AnyTargetType, LimitsAssumption DEF Ticks, Tick
    <3> QED BY <3>1, <3>2 DEF AfterFailure
  <2>6. PICK x \in Ticks : x = AfterFailure(w) BY <2>5
  <2> QED BY <2>1, <2>4, <2>5, <2>6, MovesOn DEF Goal
<1>11. ASSUME NEW w \in Workers, Candidate(w) \/ Fail(w) \/ Crash(w) PROVE Goal
  <2>1. at' = [at EXCEPT ![w] = Idle] /\ UNCHANGED <<steps, sends, calls, input>>
    BY <1>11 DEF Candidate, Fail, Crash, rows
  <2> QED BY <2>1, GoesIdle DEF Goal
<1>12. CASE UNCHANGED vars BY <1>0, <1>12 DEF Goal, vars, rows
<1> QED
  BY <1>1, <1>2, <1>3, <1>4, <1>5, <1>6, <1>7, <1>8, <1>9, <1>10, <1>11, <1>12 DEF Next, Work

\* A worker that has charged a call it has not sent is the only one of its job.
LEMMA OnlyOne ==
    ASSUME IInv, NEW v \in Workers, NEW w \in Workers, Unsent(v), Holds(w),
           steps[at[v].job][Key(v)] = "dispatched", steps[at[w].job][Key(w)] = "dispatched",
           at[v].job = at[w].job
    PROVE  v = w
<1>1. Holds(v) BY DEF Unsent, Holds
<1>2. at[v].job \in Jobs /\ Key(v) \in Keys /\ Key(w) \in Keys
  BY <1>1, Busy DEF IInv, Holds
<1>3. Key(v) = Key(w) BY <1>2 DEF IInv, Rows, OneDispatched
<1> QED BY <1>1, <1>3 DEF IInv, OneHolder

\* The other workers and jobs of a step that charges, sends or gives back one call
\* of job j.
LEMMA RestPays ==
    ASSUME TypeOK, Paid, NEW w \in Workers, NEW j \in Jobs,
           \A v \in Workers \ {w} : at'[v] = at[v] /\ Key(v)' = Key(v),
           \A i \in Jobs \ {j} : /\ sends'[i] = sends[i] /\ calls'[i] = calls[i] /\ input'[i] = input[i]
                                 /\ steps'[i] = steps[i],
           \A v \in Workers \ {w} :
              ~ (Unsent(v) /\ at[v].job = j /\ steps'[j][Key(v)] = "dispatched"),
           Pays(j, 0, 0)', PaysFor(w)'
    PROVE  Paid'
<1>1. ASSUME NEW i \in Jobs \ {j}, NEW c, NEW n, Pays(i, c, n) PROVE Pays(i, c, n)'
  BY <1>1 DEF Pays
<1>2. ASSUME NEW i \in Jobs PROVE Pays(i, 0, 0)'
  <2>1. CASE i = j BY <2>1
  <2>2. CASE i # j BY <1>1, <2>2 DEF Paid
  <2> QED BY <2>1, <2>2
<1>3. ASSUME NEW v \in Workers, v # w PROVE PaysFor(v)'
  <2> SUFFICES ASSUME Unsent(v)', steps'[at'[v].job][Key(v)'] = "dispatched"
               PROVE  Pays(at[v].job, 1, InputTokens[Key(v)[1]])'
    BY DEF PaysFor
  <2>1. Unsent(v) /\ at'[v] = at[v] /\ Key(v)' = Key(v) BY <1>3 DEF Unsent
  <2>2. PICK i \in Jobs, k \in Keys : i = at[v].job /\ k = Key(v) BY <2>1, Busy DEF Unsent
  <2>3. steps'[i][k] = "dispatched" /\ at'[v].job = i /\ Key(v)' = k BY <2>1, <2>2
  <2>4. i # j BY <1>3, <2>1, <2>2, <2>3
  <2>5. steps[i][k] = "dispatched" BY <2>3, <2>4
  <2>6. Pays(i, 1, InputTokens[k[1]]) BY <2>1, <2>2, <2>5 DEF Paid, PaysFor
  <2>7. PICK n : n = InputTokens[k[1]] OBVIOUS
  <2>8. Pays(i, 1, n)' BY <1>1, <2>4, <2>6, <2>7
  <2> QED BY <2>3, <2>7, <2>8 DEF Pays
<1> QED BY <1>2, <1>3 DEF Paid

\* dispatch charges the call that the worker may send.
LEMMA DispatchPays ==
    ASSUME IInv, Paid, NEW w \in Workers, Dispatch(w)
    PROVE  Paid'
<1>0. TypeOK /\ at[w].pc = "dispatch" /\ UNCHANGED sends BY DEF IInv, Dispatch
<1> DEFINE x == Tick("operation", at[w].job, at[w].batch, at[w].target, at[w].try, at[w].got)
<1>1. x \in Ticks /\ at' = [at EXCEPT ![w] = x] BY <1>0, Went DEF Points, Dispatch
<1>2. x.job = at[w].job /\ x.batch = at[w].batch /\ x.target = at[w].target BY DEF Tick
<1> HIDE DEF x
<1>3. at'[w] = x /\ \A v \in Workers \ {w} : at'[v] = at[v] /\ Key(v)' = Key(v)
  BY <1>0, <1>1, Moved DEF Key
<1>4. PICK j \in Jobs, k \in Keys : j = at[w].job /\ k = Key(w) BY <1>0, Busy
<1>5. Key(w)' = k /\ at'[w].job = j BY <1>2, <1>3, <1>4 DEF Key
<1>6. PICK m \in Nat : m = InputTokens[k[1]] /\ k[1] = at[w].batch
  BY <1>0, <1>4, Busy, LimitsAssumption DEF Key
<1>7. /\ calls[j] \in Nat /\ calls'[j] = calls[j] + 1
      /\ input[j] \in Nat /\ input'[j] = input[j] + m
      /\ \A i \in Jobs \ {j} : calls'[i] = calls[i] /\ input'[i] = input[i]
  <2>1. calls \in [Jobs -> Nat] /\ input \in [Jobs -> Nat] BY <1>0 DEF TypeOK
  <2>2. calls' = [calls EXCEPT ![j] = @ + 1] /\ input' = [input EXCEPT ![j] = @ + m]
    BY <1>4, <1>6 DEF Dispatch
  <2> QED BY <2>1, <2>2
<1>8. Pays(j, 1, m)' /\ Pays(j, 0, 0)'
  <2>1. Pays(j, 0, 0) BY DEF Paid
  <2>2. PICK R, T : R = Received(sends[j]) /\ T = ReceivedInput(sends[j]) OBVIOUS
  <2>3. IsFiniteSet(R) /\ IsFiniteSet(T) /\ Cardinality(R) \in Nat /\ Cardinality(T) \in Nat
    BY <2>1, <2>2, FS_CardinalityType DEF Pays
  <2>4. Cardinality(R) <= calls[j] /\ Cardinality(T) <= input[j] BY <2>1, <2>2, <2>3 DEF Pays
  <2>5. Received(sends'[j]) = R /\ ReceivedInput(sends'[j]) = T BY <1>0, <2>2
  <2> QED BY <1>7, <2>3, <2>4, <2>5 DEF Pays
<1>9. PaysFor(w)'
  <2>1. Pays(at[w].job, 1, InputTokens[Key(w)[1]])' BY <1>5, <1>6, <1>8 DEF Pays
  <2> QED BY <2>1 DEF PaysFor
<1>10. steps' = [steps EXCEPT ![j][k] = "dispatched"] BY <1>4 DEF Dispatch
<1>11. \A i \in Jobs \ {j} : steps'[i] = steps[i] BY <1>0, <1>10 DEF TypeOK
<1>12. ASSUME NEW v \in Workers \ {w}, Unsent(v), at[v].job = j, steps'[j][Key(v)] = "dispatched"
       PROVE  FALSE
  <2>1. Holds(v) BY <1>12 DEF Unsent, Holds
  <2>2. Key(v) \in Keys BY <1>0, <2>1, Busy DEF Holds
  <2>3. /\ \A l \in Keys : steps[j][l] # "dispatched"
        /\ steps[j][k] \in {"none", "refused"}
    BY <1>4 DEF Dispatch, MayDispatch, Retryable, Unresolved
  <2>4. steps[j][Key(v)] \in {"dispatched", "abandoned"}
    BY <1>12, <2>1 DEF IInv, WorkerOK, HeldStep
  <2>5. Key(v) # k BY <2>3, <2>4
  <2>6. steps'[j][Key(v)] = steps[j][Key(v)] BY <1>0, <1>10, <2>2, <2>5 DEF TypeOK
  <2> QED BY <1>12, <2>2, <2>3, <2>6
<1> QED BY <1>0, <1>3, <1>7, <1>8, <1>9, <1>11, <1>12, RestPays

\* A call that is sent has been charged.
LEMMA SendPays ==
    ASSUME IInv, Paid, NEW w \in Workers, Send(w)
    PROVE  Paid'
<1>0. TypeOK /\ at[w].pc = "send" /\ UNCHANGED <<steps, calls, input>> BY DEF IInv, Send, rows
<1> DEFINE x == Tick("sent", at[w].job, at[w].batch, at[w].target, at[w].try, at[w].got)
<1>1. x \in Ticks /\ at' = [at EXCEPT ![w] = x] BY <1>0, Went DEF Points, Send
<1>2. x.pc = "sent" BY DEF Tick
<1> HIDE DEF x
<1>3. at'[w] = x /\ \A v \in Workers \ {w} : at'[v] = at[v] /\ Key(v)' = Key(v)
  BY <1>0, <1>1, Moved DEF Key
<1>4. PICK j \in Jobs, k \in Keys : j = at[w].job /\ k = Key(w) BY <1>0, Busy
<1>5. PICK m \in Nat : m = InputTokens[k[1]] BY LimitsAssumption DEF Keys
<1>6. steps[j][k] = "dispatched" /\ Holds(w) /\ Unsent(w)
  BY <1>0, <1>4 DEF IInv, WorkerOK, HeldStep, Holds, Unsent
<1>7. Pays(j, 1, m) BY <1>4, <1>5, <1>6 DEF Paid, PaysFor
<1>8. /\ sends[j] \in [Keys -> Nat] /\ sends'[j] \in [Keys -> Nat]
      /\ sends'[j][k] = sends[j][k] + 1 /\ \A l \in Keys : l # k => sends'[j][l] = sends[j][l]
      /\ \A i \in Jobs \ {j} : sends'[i] = sends[i]
  <2>1. sends \in [Jobs -> [Keys -> Nat]] BY <1>0 DEF TypeOK
  <2>2. sends' = [sends EXCEPT ![j][k] = @ + 1] BY <1>4 DEF Send
  <2> QED BY <2>1, <2>2
<1>9. Pays(j, 0, 0)'
  <2>1. PICK c \in [Keys -> Nat], d \in [Keys -> Nat] : c = sends[j] /\ d = sends'[j] BY <1>8
  <2>2. IsFiniteSet(Received(c)) /\ IsFiniteSet(ReceivedInput(c)) BY <1>7, <2>1 DEF Pays
  <2>3. /\ IsFiniteSet(Received(d)) /\ IsFiniteSet(ReceivedInput(d))
        /\ Cardinality(Received(d)) = Cardinality(Received(c)) + 1
        /\ Cardinality(ReceivedInput(d)) = Cardinality(ReceivedInput(c)) + m
    BY <1>5, <1>8, <2>1, <2>2, OneMore
  <2>4. Cardinality(Received(c)) + 1 <= calls[j] /\ Cardinality(ReceivedInput(c)) + m <= input[j]
    BY <1>7, <2>1 DEF Pays
  <2>5. PICK p \in Nat, q \in Nat : p = Cardinality(Received(d)) /\ q = Cardinality(ReceivedInput(d))
    BY <2>3, FS_CardinalityType
  <2>6. p + 0 <= calls[j] /\ q + 0 <= input[j] BY <2>3, <2>4, <2>5
  <2> QED BY <1>0, <2>1, <2>3, <2>5, <2>6 DEF Pays
<1>10. PaysFor(w)' BY <1>2, <1>3 DEF PaysFor, Unsent
<1>11. ASSUME NEW v \in Workers \ {w}, Unsent(v), at[v].job = j, steps'[j][Key(v)] = "dispatched"
       PROVE  FALSE
  BY <1>0, <1>4, <1>6, <1>11, OnlyOne
<1> QED BY <1>0, <1>3, <1>8, <1>9, <1>10, <1>11, RestPays

\* not_sent_step gives back the charge of a call that was not sent.
LEMMA NotSentPays ==
    ASSUME IInv, Paid, NEW w \in Workers, NotSentStep(w)
    PROVE  Paid'
<1>0. /\ TypeOK /\ at[w].pc = "record" /\ at[w].got = "notsent" /\ MayRecord(w) /\ UNCHANGED sends
      /\ Goto(w, "failing")
  BY DEF IInv, NotSentStep
<1> DEFINE x == Tick("failing", at[w].job, at[w].batch, at[w].target, at[w].try, at[w].got)
<1>1. x \in Ticks /\ at' = [at EXCEPT ![w] = x] BY <1>0, Went DEF Points
<1>2. x.pc = "failing" BY DEF Tick
<1> HIDE DEF x
<1>3. at'[w] = x /\ \A v \in Workers \ {w} : at'[v] = at[v] /\ Key(v)' = Key(v)
  BY <1>0, <1>1, Moved DEF Key
<1>4. PICK j \in Jobs, k \in Keys : j = at[w].job /\ k = Key(w) BY <1>0, Busy
<1>5. PICK m \in Nat : m = InputTokens[k[1]] /\ k[1] = at[w].batch
  BY <1>0, <1>4, Busy, LimitsAssumption DEF Key
<1>6. steps[j][k] = "dispatched" /\ Holds(w) /\ Unsent(w)
  BY <1>0, <1>4 DEF MayRecord, Holds, Unsent
<1>7. Pays(j, 1, m) BY <1>4, <1>5, <1>6 DEF Paid, PaysFor
<1>8. /\ calls[j] \in Nat /\ calls'[j] = calls[j] - 1
      /\ input[j] \in Nat /\ input'[j] = input[j] - m
      /\ \A i \in Jobs \ {j} : calls'[i] = calls[i] /\ input'[i] = input[i]
  <2>1. calls \in [Jobs -> Nat] /\ input \in [Jobs -> Nat] BY <1>0 DEF TypeOK
  <2>2. calls' = [calls EXCEPT ![j] = @ - 1] /\ input' = [input EXCEPT ![j] = @ - m]
    BY <1>4, <1>5 DEF NotSentStep
  <2> QED BY <2>1, <2>2
<1>9. Pays(j, 0, 0)'
  <2>1. PICK R, T : R = Received(sends[j]) /\ T = ReceivedInput(sends[j]) OBVIOUS
  <2>2. IsFiniteSet(R) /\ IsFiniteSet(T) BY <1>7, <2>1 DEF Pays
  <2>3. PICK p \in Nat, q \in Nat : p = Cardinality(R) /\ q = Cardinality(T)
    BY <2>2, FS_CardinalityType
  <2>4. p + 1 <= calls[j] /\ q + m <= input[j] BY <1>7, <2>1, <2>3 DEF Pays
  <2>5. p + 0 <= calls'[j] /\ q + 0 <= input'[j] BY <1>8, <2>4
  <2>6. Received(sends'[j]) = R /\ ReceivedInput(sends'[j]) = T BY <1>0, <2>1
  <2> QED BY <2>2, <2>3, <2>5, <2>6 DEF Pays
<1>10. PaysFor(w)' BY <1>2, <1>3 DEF PaysFor, Unsent
<1>11. steps' = [steps EXCEPT ![j][k] = "failed"] BY <1>4 DEF NotSentStep
<1>12. \A i \in Jobs \ {j} : steps'[i] = steps[i] BY <1>0, <1>11 DEF TypeOK
<1>13. ASSUME NEW v \in Workers \ {w}, Unsent(v), at[v].job = j, steps'[j][Key(v)] = "dispatched"
       PROVE  FALSE
  <2>1. Key(v) \in Keys BY <1>0, <1>13, Busy DEF Unsent
  <2>2. steps[j][Key(v)] = "dispatched" BY <1>0, <1>11, <1>13, <2>1, NoneDispatched
  <2> QED BY <1>4, <1>6, <1>13, <2>2, OnlyOne
<1> QED BY <1>0, <1>3, <1>8, <1>9, <1>10, <1>12, <1>13, RestPays

\* An empty store has charged nothing for nothing.
LEMMA PaidInit == Init => Paid
<1> SUFFICES ASSUME Init PROVE Paid OBVIOUS
<1>1. ASSUME NEW j \in Jobs PROVE Pays(j, 0, 0)
  <2>1. sends[j] \in [Keys -> Nat] /\ \A k \in Keys : sends[j][k] = 0 BY DEF Init
  <2>2. Received(sends[j]) = {} /\ ReceivedInput(sends[j]) = {} BY <2>1, NothingReceived
  <2>3. calls[j] = 0 /\ input[j] = 0 BY DEF Init
  <2> QED BY <2>2, <2>3, FS_EmptySet DEF Pays
<1>2. \A w \in Workers : at[w].pc = "idle" BY DEF Init, Idle
<1> QED BY <1>1, <1>2 DEF Paid, PaysFor, Unsent

\* Every step keeps what was received paid for.
LEMMA PaidStep == IInv /\ Paid /\ [Next]_vars => Paid'
<1> SUFFICES ASSUME IInv, Paid, [Next]_vars PROVE Paid' OBVIOUS
<1>1. CASE \E w \in Workers : Dispatch(w) BY <1>1, DispatchPays
<1>2. CASE \E w \in Workers : Send(w) BY <1>2, SendPays
<1>3. CASE \E w \in Workers : NotSentStep(w) BY <1>3, NotSentPays
<1>4. CASE \A w \in Workers : ~ Dispatch(w) /\ ~ Send(w) /\ ~ NotSentStep(w)
  <2>1. TypeOK BY DEF IInv
  <2>2. Onward /\ UNCHANGED <<sends, calls, input>> BY <1>4, <2>1, OtherSteps
  <2> QED BY <2>1, <2>2, NoCharge
<1> QED BY <1>1, <1>2, <1>3, <1>4

\* Whatever the provider received, in calls and in input tokens, has been charged to the
\* job, and a job is never charged more than job_limits allow, although the reserve of a
\* call is added after it and a call that never left is given back (dispatch,
\* not_sent_step, with every crash and lost lease in between).
THEOREM ChargesAreComplete == Safety => []ChargedWithinLimits
<1>1. IInv /\ Paid => ChargedWithinLimits
  <2> SUFFICES ASSUME IInv, Paid, NEW j \in Jobs
               PROVE  /\ Cardinality(Received(sends[j])) <= calls[j]
                      /\ Cardinality(ReceivedInput(sends[j])) <= input[j]
                      /\ WithinLimits(j)
    BY DEF ChargedWithinLimits
  <2>1. PICK R, T : R = Received(sends[j]) /\ T = ReceivedInput(sends[j]) OBVIOUS
  <2>2. Pays(j, 0, 0) BY DEF Paid
  <2>3. PICK p \in Nat, q \in Nat : p = Cardinality(R) /\ q = Cardinality(T)
    BY <2>1, <2>2, FS_CardinalityType DEF Pays
  <2>4. p <= calls[j] /\ q <= input[j] BY <2>1, <2>2, <2>3 DEF Pays
  <2>5. WithinLimits(j) BY DEF IInv, Rows, Charges, WithinLimits
  <2> QED BY <2>1, <2>3, <2>4, <2>5
<1> QED BY <1>1, Invariant, PaidInit, PaidStep, PTL DEF Safety
=============================================================================
