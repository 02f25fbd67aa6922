--------------------------- MODULE CompactionJobs ---------------------------
(***************************************************************************)
(* Background compaction of the AI router: the job store                   *)
(* (compaction_jobs.py), the worker tick that claims one job               *)
(* (compaction_worker.py) and the checkpointed summary call                *)
(* (compaction_checkpoint.py). Every operation of the store is one SQLite  *)
(* transaction, hence one action; between two of them a worker may be      *)
(* interrupted, lose its lease or die with its process. Several router     *)
(* processes share one store.                                              *)
(*                                                                         *)
(* A job summarises the batches 1..Batches one after the other. The key of *)
(* a step is the digest of the request and of the deployment it goes to.   *)
(***************************************************************************)
EXTENDS Integers, Sequences, FiniteSets, SequencesExt

CONSTANTS
    Jobs,          \* distinct compaction requests (deduplicated by create)
    Workers,       \* worker loops of the router processes
    Batches,       \* summary calls one job needs
    Targets,       \* deployments a call may be routed to
    NoWorker,      \* NULL in the worker column
    InputTokens,   \* input tokens of the call of each batch
    OutputReserve, \* summary_output_tokens
    MaxCalls, MaxInput, MaxOutput   \* job_limits

ASSUME LimitsAssumption ==
    /\ Batches \in Nat \ {0}
    /\ InputTokens \in [1..Batches -> Nat]
    /\ OutputReserve \in Nat \ {0}
    /\ MaxCalls \in Nat /\ MaxInput \in Nat /\ MaxOutput \in Nat
    /\ NoWorker \notin Workers
    /\ IsFiniteSet(Jobs)
    /\ Targets # {}

Keys == (1..Batches) \X Targets

VARIABLES
    state,     \* the state column
    worker,    \* the worker column
    live,      \* lease_until lies in the future
    spent,     \* elapsed_seconds has reached max_seconds
    cancelRequested,
    steps,     \* the state of every step; a failed one is "refused" if retryable
    attempt,   \* the attempt of every step, 0 before the first
    calls, input, output,
    queue,     \* the queued jobs in the order of updated_at
    at         \* what every worker is doing, and for which call

VARIABLES
    sends,     \* calls the provider received, per step
    refusals   \* calls the provider answered with 429 or 503

rows == <<state, worker, live, spent, cancelRequested, steps, attempt, calls,
          input, output, queue>>
vars == <<rows, at, sends, refusals>>

Idle == [pc |-> "idle"]
Tick(pc, j, b, t, try, got) ==
    [pc |-> pc, job |-> j, batch |-> b, target |-> t, try |-> try, got |-> got]

Key(w) == <<at[w].batch, at[w].target>>
Unresolved(j) == \E k \in Keys : steps[j][k] = "dispatched"

\* A job is queued at most once.
Without(s, j) == RemoveFirst(s, j)

AnyTarget == CHOOSE t \in Targets : TRUE

Init ==
    /\ state = [j \in Jobs |-> "absent"]
    /\ worker = [j \in Jobs |-> NoWorker]
    /\ live = [j \in Jobs |-> FALSE]
    /\ spent = [j \in Jobs |-> FALSE]
    /\ cancelRequested = [j \in Jobs |-> FALSE]
    /\ steps = [j \in Jobs |-> [k \in Keys |-> "none"]]
    /\ attempt = [j \in Jobs |-> [k \in Keys |-> 0]]
    /\ calls = [j \in Jobs |-> 0]
    /\ input = [j \in Jobs |-> 0]
    /\ output = [j \in Jobs |-> 0]
    /\ queue = <<>>
    /\ at = [w \in Workers |-> Idle]
    /\ sends = [j \in Jobs |-> [k \in Keys |-> 0]]
    /\ refusals = [j \in Jobs |-> [k \in Keys |-> 0]]

\* _save with the default worker and lease: the row is nobody's.
Settle(j, s) ==
    /\ state' = [state EXCEPT ![j] = s]
    /\ worker' = [worker EXCEPT ![j] = NoWorker]
    /\ live' = [live EXCEPT ![j] = FALSE]

-----------------------------------------------------------------------------
(* Requests of clients and of the operator *)

\* A second create of the same request returns the stored job.
Create(j) ==
    /\ state[j] = "absent"
    /\ state' = [state EXCEPT ![j] = "queued"]
    /\ queue' = Append(queue, j)
    /\ UNCHANGED <<worker, live, spent, cancelRequested, steps, attempt, calls,
                   input, output, at, sends, refusals>>

CancelledState(j) == IF Unresolved(j) THEN "needs_context" ELSE "cancelled"

Cancel(j) ==
    /\ state[j] # "absent"
    /\ cancelRequested' = [cancelRequested EXCEPT ![j] = TRUE]
    /\ Settle(j, CancelledState(j))
    /\ queue' = Without(queue, j)
    /\ UNCHANGED <<spent, steps, attempt, calls, input, output, at, sends, refusals>>

\* The provider may still receive or answer the call of step k.
InFlight(j, k) ==
    \E w \in Workers : at[w].pc \in {"send", "sent"} /\ at[w].job = j /\ Key(w) = k

\* The operator has confirmed that the operation is over upstream.
AbandonVerifiedOperation(j, k) ==
    /\ ~ InFlight(j, k)
    /\ state[j] = "needs_context"
    /\ steps[j][k] = "dispatched"
    /\ steps' = [steps EXCEPT ![j][k] = "abandoned"]
    /\ cancelRequested' = [cancelRequested EXCEPT ![j] = TRUE]
    /\ Settle(j, IF \E i \in Keys \ {k} : steps[j][i] = "dispatched"
                   THEN "needs_context" ELSE "cancelled")
    /\ UNCHANGED <<spent, attempt, calls, input, output, queue, at, sends, refusals>>

-----------------------------------------------------------------------------
(* Time *)

LeaseExpires(j) ==
    /\ live[j]
    /\ live' = [live EXCEPT ![j] = FALSE]
    /\ UNCHANGED <<state, worker, spent, cancelRequested, steps, attempt, calls,
                   input, output, queue, at, sends, refusals>>

\* Time is charged to a job while it is running.
BudgetElapses(j) ==
    /\ state[j] = "running"
    /\ ~ spent[j]
    /\ spent' = [spent EXCEPT ![j] = TRUE]
    /\ UNCHANGED <<state, worker, live, cancelRequested, steps, attempt, calls,
                   input, output, queue, at, sends, refusals>>

-----------------------------------------------------------------------------
(* claim *)

Expired(j) == state[j] = "running" /\ ~ live[j]
SweptState_Requeued(j) == IF Expired(j) THEN "queued" ELSE state[j]
SweptState_Never(j) == state[j]
SweptState(j) ==
    IF Expired(j) THEN IF Unresolved(j) THEN "needs_context" ELSE "queued"
                  ELSE state[j]

\* claim looks for a running or unresolved job of any account.
Blocked_ByRunning(s) == \E j \in Jobs : s[j] = "running"
Blocked(s) == \E j \in Jobs : s[j] \in {"running", "needs_context"}

Claim(w) ==
    LET swept    == [j \in Jobs |-> SweptState(j)]
        requeued == {j \in Jobs : Expired(j) /\ swept[j] = "queued"}
        queued   == queue \o SetToSeq(requeued)
        freed    == [j \in Jobs |-> IF Expired(j) THEN NoWorker ELSE worker[j]]
    IN
    /\ at[w] = Idle
    /\ \/ /\ Blocked(swept) \/ queued = <<>>
          /\ swept # state
          /\ state' = swept
          /\ worker' = freed
          /\ queue' = queued
          /\ UNCHANGED <<live, at>>
       \/ /\ ~ Blocked(swept)
          /\ queued # <<>>
          /\ spent[Head(queued)]
          /\ state' = [swept EXCEPT ![Head(queued)] = "failed"]
          /\ worker' = freed
          /\ queue' = Tail(queued)
          /\ UNCHANGED <<live, at>>
       \/ /\ ~ Blocked(swept)
          /\ queued # <<>>
          /\ ~ spent[Head(queued)]
          /\ state' = [swept EXCEPT ![Head(queued)] = "running"]
          /\ worker' = [freed EXCEPT ![Head(queued)] = w]
          /\ live' = [live EXCEPT ![Head(queued)] = TRUE]
          /\ queue' = Tail(queued)
          /\ at' = [at EXCEPT ![w] = Tick("cached", Head(queued), 1, AnyTarget, 0, "none")]
    /\ UNCHANGED <<spent, cancelRequested, steps, attempt, calls, input, output,
                   sends, refusals>>

-----------------------------------------------------------------------------
(* The worker *)

Leased(w) ==
    /\ state[at[w].job] = "running"
    /\ worker[at[w].job] = w
    /\ live[at[w].job]

Goto(w, pc) == at' = [at EXCEPT ![w].pc = pc]

\* The summary of a batch is at hand.
NextBatch(w) ==
    at' = [at EXCEPT ![w] =
             IF @.batch = Batches
             THEN Tick("publish", @.job, @.batch, @.target, @.try, "none")
             ELSE Tick("cached", @.job, @.batch + 1, AnyTarget, @.try, "none")]

Retryable_AnyFailure(j, k) == steps[j][k] \in {"refused", "failed"} /\ attempt[j][k] < 2
Retryable(j, k) == steps[j][k] = "refused" /\ attempt[j][k] < 2

\* RoutedCompactor: admission picks the deployment, then cached_step.
Cached(w, t) ==
    LET j == at[w].job
        k == <<at[w].batch, t>>
    IN
    /\ at[w].pc = "cached"
    /\ \/ /\ Leased(w)
          /\ steps[j][k] = "completed"
          /\ NextBatch(w)
       \/ /\ Leased(w)
          /\ steps[j][k] = "none" \/ Retryable(j, k)
          /\ at' = [at EXCEPT ![w] = Tick("dispatch", @.job, @.batch, t, @.try, @.got)]
       \/ /\ ~ Leased(w) \/ (steps[j][k] \notin {"none", "completed"} /\ ~ Retryable(j, k))
          /\ Goto(w, "failing")
    /\ UNCHANGED <<rows, sends, refusals>>

\* What dispatch accepts besides a completed step.
MayDispatch(j, k) ==
    /\ steps[j][k] = "none" \/ Retryable(j, k)
    /\ ~ Unresolved(j)

WithinBudget_CallsPlusOne(j, b) ==
    /\ ~ spent[j]
    /\ calls[j] <= MaxCalls
    /\ input[j] + InputTokens[b] <= MaxInput
    /\ output[j] + OutputReserve <= MaxOutput
WithinBudget(j, b) ==
    /\ ~ spent[j]
    /\ calls[j] < MaxCalls
    /\ input[j] + InputTokens[b] <= MaxInput
    /\ output[j] + OutputReserve <= MaxOutput

Dispatch(w) ==
    LET j == at[w].job
        k == Key(w)
    IN
    /\ at[w].pc = "dispatch"
    /\ Leased(w)
    /\ MayDispatch(j, k)
    /\ WithinBudget(j, at[w].batch)
    /\ steps' = [steps EXCEPT ![j][k] = "dispatched"]
    /\ attempt' = [attempt EXCEPT ![j][k] = @ + 1]
    /\ calls' = [calls EXCEPT ![j] = @ + 1]
    /\ input' = [input EXCEPT ![j] = @ + InputTokens[at[w].batch]]
    /\ Goto(w, "operation")
    /\ UNCHANGED <<state, worker, live, spent, cancelRequested, output, queue,
                   sends, refusals>>

DispatchConflict(w) ==
    /\ at[w].pc = "dispatch"
    /\ ~ Leased(w) \/ ~ MayDispatch(at[w].job, Key(w))
         \/ ~ WithinBudget(at[w].job, at[w].batch)
    /\ Goto(w, "failing")
    /\ UNCHANGED <<rows, sends, refusals>>

Operation(w) ==
    /\ at[w].pc = "operation"
    /\ Goto(w, IF Leased(w) /\ steps[at[w].job][Key(w)] = "dispatched"
                 THEN "send" ELSE "failing")
    /\ UNCHANGED <<rows, sends, refusals>>

\* _before_summary_send accepts, and the request leaves.
Send(w) ==
    /\ at[w].pc = "send"
    /\ sends' = [sends EXCEPT ![at[w].job][Key(w)] = @ + 1]
    /\ Goto(w, "sent")
    /\ UNCHANGED <<rows, refusals>>

\* The call is over, and its outcome is to be recorded.
Answered(w, got) ==
    at' = [at EXCEPT ![w] = Tick("record", @.job, @.batch, @.target, @.try, got)]

\* _before_summary_send raises SummaryNotSentError.
NotSent(w) ==
    /\ at[w].pc = "send"
    /\ Answered(w, "notsent")
    /\ UNCHANGED <<rows, sends, refusals>>

\* A response with a valid summary, one with status 429 or 503, or another that
\* fails validation.
Response(w, got) ==
    /\ at[w].pc = "sent"
    /\ Answered(w, got)
    /\ refusals' = IF got = "refused"
                     THEN [refusals EXCEPT ![at[w].job][Key(w)] = @ + 1]
                     ELSE refusals
    /\ UNCHANGED <<rows, sends>>

TransportError(w) ==
    /\ at[w].pc = "sent"
    /\ Goto(w, "failing")
    /\ UNCHANGED <<rows, sends, refusals>>

MayRecord(w) == Leased(w) /\ steps[at[w].job][Key(w)] = "dispatched"

CompleteStep(w, tokens) ==
    LET j == at[w].job IN
    /\ at[w].pc = "record" /\ at[w].got = "ok"
    /\ MayRecord(w)
    /\ steps' = [steps EXCEPT ![j][Key(w)] = "completed"]
    /\ output' = [output EXCEPT ![j] = @ + tokens]
    /\ NextBatch(w)
    /\ UNCHANGED <<state, worker, live, spent, cancelRequested, attempt, calls,
                   input, queue, sends, refusals>>

\* The execute loop compacts a second time after the first retryable response.
AfterFailure(w) ==
    IF at[w].got = "refused" /\ at[w].try = 0
      THEN Tick("cached", at[w].job, 1, AnyTarget, 1, "none")
      ELSE [at[w] EXCEPT !.pc = "failing"]

FailedStep(w) ==
    LET j == at[w].job IN
    /\ at[w].pc = "record" /\ at[w].got \in {"refused", "bad"}
    /\ MayRecord(w)
    /\ steps' = [steps EXCEPT ![j][Key(w)] =
                   IF at[w].got = "refused" THEN "refused" ELSE "failed"]
    /\ output' = [output EXCEPT ![j] = @ + OutputReserve]
    /\ at' = [at EXCEPT ![w] = AfterFailure(w)]
    /\ UNCHANGED <<state, worker, live, spent, cancelRequested, attempt, calls,
                   input, queue, sends, refusals>>

\* The budget of a call that never left is given back.
NotSentStep(w) ==
    LET j == at[w].job IN
    /\ at[w].pc = "record" /\ at[w].got = "notsent"
    /\ MayRecord(w)
    /\ steps' = [steps EXCEPT ![j][Key(w)] = "failed"]
    /\ calls' = [calls EXCEPT ![j] = @ - 1]
    /\ input' = [input EXCEPT ![j] = @ - InputTokens[at[w].batch]]
    /\ Goto(w, "failing")
    /\ UNCHANGED <<state, worker, live, spent, cancelRequested, attempt, output,
                   queue, sends, refusals>>

RecordConflict(w) ==
    /\ at[w].pc = "record"
    /\ ~ MayRecord(w)
    /\ Goto(w, "failing")
    /\ UNCHANGED <<rows, sends, refusals>>

MayPublish_Resolved(j) == ~ spent[j] /\ ~ Unresolved(j)
MayPublish(j) == ~ spent[j] /\ \A k \in Keys : steps[j][k] \in {"none", "completed"}

Candidate(w) ==
    /\ at[w].pc = "publish"
    /\ Leased(w)
    /\ MayPublish(at[w].job)
    /\ Settle(at[w].job, "ready")
    /\ at' = [at EXCEPT ![w] = Idle]
    /\ UNCHANGED <<spent, cancelRequested, steps, attempt, calls, input, output,
                   queue, sends, refusals>>

CandidateConflict(w) ==
    /\ at[w].pc = "publish"
    /\ ~ Leased(w) \/ ~ MayPublish(at[w].job)
    /\ Goto(w, "failing")
    /\ UNCHANGED <<rows, sends, refusals>>

\* Admission fails, the settings change, a heartbeat finds the lease gone, the
\* time budget ends or the process shuts down. A transaction that has begun is
\* waited for, so a response at hand is recorded first.
Interrupt(w) ==
    /\ at[w].pc \in {"cached", "dispatch", "operation", "send", "sent", "publish"}
    /\ Goto(w, "failing")
    /\ UNCHANGED <<rows, sends, refusals>>

FailedState(j) == IF Unresolved(j) THEN "needs_context" ELSE "failed"

Fail(w) ==
    /\ at[w].pc = "failing"
    /\ IF Leased(w) THEN Settle(at[w].job, FailedState(at[w].job))
                    ELSE UNCHANGED <<state, worker, live>>
    /\ at' = [at EXCEPT ![w] = Idle]
    /\ UNCHANGED <<spent, cancelRequested, steps, attempt, calls, input, output,
                   queue, sends, refusals>>

\* The process dies. What it sent stays sent.
Crash(w) ==
    /\ at[w] # Idle
    /\ at' = [at EXCEPT ![w] = Idle]
    /\ UNCHANGED <<rows, sends, refusals>>

-----------------------------------------------------------------------------
Answers == {"ok", "refused", "bad"}

\* What a worker does by itself.
Work(w) ==
    \/ \E t \in Targets : Cached(w, t)
    \/ Dispatch(w) \/ DispatchConflict(w) \/ Operation(w)
    \/ Send(w) \/ NotSent(w)
    \/ \E got \in Answers : Response(w, got)
    \/ TransportError(w)
    \/ \E tokens \in 1..OutputReserve : CompleteStep(w, tokens)
    \/ FailedStep(w) \/ NotSentStep(w) \/ RecordConflict(w)
    \/ Candidate(w) \/ CandidateConflict(w)
    \/ Fail(w)

Next ==
    \/ \E j \in Jobs : Create(j) \/ Cancel(j) \/ LeaseExpires(j) \/ BudgetElapses(j)
    \/ \E j \in Jobs, k \in Keys : AbandonVerifiedOperation(j, k)
    \/ \E w \in Workers : Claim(w) \/ Work(w) \/ Interrupt(w) \/ Crash(w)

Safety == Init /\ [][Next]_vars

\* Worker loops tick for ever and their calls end by a response or a timeout of
\* the HTTP client; a lease that is not renewed lapses; the time of a job adds
\* up over all its runs.
Fairness ==
    /\ \A w \in Workers : WF_vars(Claim(w)) /\ WF_vars(Work(w))
    /\ \A j \in Jobs :
          /\ WF_vars(LeaseExpires(j) /\ at[worker[j]] = Idle)
          /\ SF_vars(BudgetElapses(j))

Spec == Safety /\ Fairness
-----------------------------------------------------------------------------
States == {"absent", "queued", "running", "needs_context", "ready", "failed", "cancelled"}
StepStates == {"none", "dispatched", "completed", "refused", "failed", "abandoned"}
Ticks == [pc : {"cached", "dispatch", "operation", "send", "sent", "record", "publish",
                "failing"},
          job : Jobs, batch : 1..Batches, target : Targets, try : {0, 1},
          got : {"none", "notsent"} \cup Answers]

\* Type invariant.
TypeOK ==
    /\ state \in [Jobs -> States]
    /\ worker \in [Jobs -> Workers \cup {NoWorker}]
    /\ live \in [Jobs -> BOOLEAN]
    /\ spent \in [Jobs -> BOOLEAN]
    /\ cancelRequested \in [Jobs -> BOOLEAN]
    /\ steps \in [Jobs -> [Keys -> StepStates]]
    /\ attempt \in [Jobs -> [Keys -> 0..2]]
    /\ calls \in [Jobs -> Nat]
    /\ input \in [Jobs -> Nat]
    /\ output \in [Jobs -> Nat]
    /\ queue \in Seq(Jobs)
    /\ at \in [Workers -> Ticks \cup {Idle}]
    /\ sends \in [Jobs -> [Keys -> Nat]]
    /\ refusals \in [Jobs -> [Keys -> Nat]]

\* The provider receives a summary call again only after it has answered every
\* earlier one with 429 or 503, and never more than twice, whatever leases
\* expire and processes die in between (the promise of compaction_jobs.py:3-4).
NeverReplayed ==
    \A j \in Jobs, k \in Keys : sends[j][k] <= 2 /\ sends[j][k] <= refusals[j][k] + 1

\* At most one worker of all processes holds an operation id it may send or has
\* sent: the whole installation has one background summary call in flight.
SingleFlight ==
    \A v, w \in Workers : at[v].pc \in {"send", "sent"} /\ at[w].pc \in {"send", "sent"} => v = w

\* A job waits for reconciliation exactly when a call with an unknown outcome is
\* left and nobody works on it: an unknown outcome is neither forgotten by a
\* finished job nor reported where there is none.
UnknownOutcomesAreHeld ==
    \A j \in Jobs :
       /\ Unresolved(j) => state[j] \in {"running", "needs_context"}
       /\ state[j] = "needs_context" => Unresolved(j)

\* A published candidate rests on a summary of every batch, each returned by the
\* provider, and on no call that failed or was given up.
ReadyIsComplete ==
    \A j \in Jobs : state[j] = "ready" =>
       /\ \A b \in 1..Batches : \E t \in Targets : steps[j][<<b, t>>] = "completed"
       /\ \A k \in Keys : IF sends[j][k] > 0 THEN steps[j][k] = "completed"
                                              ELSE steps[j][k] = "none"

\* The charges of a job stay within job_limits.
WithinLimits(j) ==
    calls[j] <= MaxCalls /\ input[j] <= MaxInput /\ output[j] <= MaxOutput

\* The calls the provider received, when c counts them per step, and the input
\* tokens it received with them, one by one.
Received(c) == UNION {{k} \X (1..c[k]) : k \in Keys}
ReceivedInput(c) == UNION {{k} \X (1..c[k]) \X (1..InputTokens[k[1]]) : k \in Keys}

\* Whatever the provider received was charged first, and the charges stay within
\* the job's limits, although a call that never left is given back.
ChargedWithinLimits ==
    \A j \in Jobs :
       /\ Cardinality(Received(sends[j])) <= calls[j]
       /\ Cardinality(ReceivedInput(sends[j])) <= input[j]
       /\ WithinLimits(j)

\* A job somebody cancelled is never published, claimed or run again, whatever
\* its worker was doing at that moment.
CancelSticks ==
    \A j \in Jobs : cancelRequested[j] => state[j] \in {"cancelled", "needs_context"}

\* What the owner and the provider decided stays decided: neither a worker that
\* lost its lease nor a sweep forgets an unknown outcome or revives a cancelled
\* job (compaction_jobs.py:154-172, 298-317).
OutcomesHold ==
    /\ TypeOK
    /\ UnknownOutcomesAreHeld
    /\ CancelSticks

\* A queued job is decided, unless a call with an unknown outcome waits for the
\* operator: no crash, lost lease or endless retry keeps it undecided.
Decided ==
    \A j \in Jobs :
       (state[j] = "queued") ~> \/ state[j] \in {"ready", "failed", "cancelled"}
                               \/ \E i \in Jobs : state[i] = "needs_context"
=============================================================================
