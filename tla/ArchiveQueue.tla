---------------------------- MODULE ArchiveQueue ----------------------------
(***************************************************************************)
(* The encrypted Redis outbox of the AI router and everything that touches *)
(* it: the API processes that enqueue archive events, the Lua scripts that *)
(* run atomically in Redis, the single archive worker that drains the      *)
(* per-request lists, and the SQLite archive with its receipts.            *)
(*                                                                         *)
(* Sources: deploy/ai-router/ai_router/archive_queue.py, archive_worker.py *)
(* and the transactions of training_archive.py.                            *)
(*                                                                         *)
(* A command whose reply never arrives may still be executed by Redis      *)
(* later, after its sender timed out, retried or died: such commands are   *)
(* kept in the set `late'.                                                 *)
(***************************************************************************)
EXTENDS Integers, Sequences, FiniteSets, Functions

CONSTANTS
    Tokens,        \* request hashes: one list per token
    Bodies,        \* digests of bodies large enough to be stored apart
    UpdateOps,     \* the non-terminal operations a request may record
    EventBytes,    \* bytes of one encrypted envelope
    BodyBytes,     \* bytes of one encrypted body
    MaxBytes,      \* AI_ROUTER_ARCHIVE_QUEUE_MAX_BYTES
    QuarantineAt,  \* failures before a poison head is quarantined (5)
    DeferredBegin, \* TRUE when DirectedArchive fronts the queue
    MaxEvents,     \* bound: events one request may create
    MaxFaults      \* bound: lost replies, crashes and transient failures

ASSUME ConstantsAssumption ==
    /\ IsFiniteSet(Tokens) /\ IsFiniteSet(Bodies)
    /\ UpdateOps \subseteq {"set_effective_context", "mark_routed", "record_pipeline"}
    /\ EventBytes \in Nat \ {0}
    /\ BodyBytes \in Nat \ {0}
    /\ MaxBytes \in Nat
    /\ QuarantineAt \in Nat \ {0}
    /\ DeferredBegin \in BOOLEAN
    /\ MaxEvents \in Nat
    /\ MaxFaults \in Nat

VARIABLES
    \* Redis
    queue,       \* request:<token>, the FIFO list of encrypted events
    bodies,      \* bodies:<token>, the digests stored for the token
    eventIds,    \* event-ids:<token>, the ids that were accepted
    used,        \* bytes
    ready,       \* the ready index: not a member, due now, or due later
    oldest,      \* the index of tokens with pending events
    quarantine,  \* tokens set aside until an operator retries them
    retries,     \* failures of the present head, saturated at QuarantineAt
    errors,      \* tokens with a recorded error
    admission,   \* the worker's advice about new requests
    late,        \* commands sent whose sender no longer waits for them
    \* SQLite
    rec,         \* state of the training record
    receipts,    \* ids of training_applied_events
    \* the processes
    api,         \* the request's side, one per token
    worker,      \* the archive worker
    operators,   \* tokens whose --retry has passed its check
    \* environment
    diskLow,     \* free space below min_free_bytes
    broken,      \* tokens whose stored data cannot be decoded or published
    faults,      \* faults left
    \* history variables
    accepted,    \* ids in the order in which Redis accepted them
    popped,      \* how many accepted events were removed from the list
    committed,   \* positions committed together with their receipt, in order
    published    \* positions of the history events published, in order

redisVars == <<queue, bodies, eventIds, used, ready, oldest, quarantine,
               retries, errors>>
indexVars == <<ready, oldest, quarantine, retries, errors>>
archiveVars == <<rec, receipts, committed, published>>
envVars == <<diskLow, broken>>
logVars == <<accepted, popped>>
vars == <<redisVars, admission, late, archiveVars, api, worker, operators,
          envVars, faults, logVars>>

TERMINAL_STATES == {"completed", "failed"}
RecordStates == {"none", "received", "prepared", "routed"} \cup TERMINAL_STATES
OPERATIONS == {"begin", "complete", "fail"} \cup UpdateOps
Ops == OPERATIONS \cup {"history"}
Poison == {TRUE, FALSE}

\* What the API submits, what the list holds (with its place in the order of
\* acceptance), and the absence of either.
Event == [n : 1..MaxEvents, op : Ops, body : SUBSET Bodies]
Entry == [n : 1..MaxEvents, op : Ops, body : SUBSET Bodies, pos : Nat \ {0}]
NoEvent == [n |-> 0]

Saturated(count) == IF count < QuarantineAt THEN count ELSE QuarantineAt

Command ==
    [script : {"ENQUEUE"}, tok : Tokens, ev : Event]
        \cup [script : {"ACK"}, tok : Tokens, ent : Entry]
        \cup [script : {"FAILED"}, tok : Tokens, ent : Entry, poison : Poison]
        \cup [script : {"CLEAN"}, tok : Tokens]

-----------------------------------------------------------------------------
(***************************************************************************)
(* The Lua scripts. Each runs atomically in Redis.                         *)
(***************************************************************************)

\* A body already stored for the token costs nothing.
EnqueueSize(t, e) == EventBytes + BodyBytes * Cardinality(e.body \ bodies[t])

EnqueueResult(t, e) ==
    CASE e.n \in eventIds[t] -> 2
      [] e.n \notin eventIds[t] /\ e.op = "begin" /\ admission = "blocked" -> -1
      [] OTHER -> IF used + EnqueueSize(t, e) > MaxBytes THEN 0 ELSE 1

ENQUEUE(t, e) ==
    IF EnqueueResult(t, e) # 1
    THEN UNCHANGED <<redisVars, logVars>>
    ELSE /\ queue' = [queue EXCEPT ![t] = Append(@,
                        [n |-> e.n, op |-> e.op, body |-> e.body,
                         pos |-> Len(accepted[t]) + 1])]
         /\ bodies' = [bodies EXCEPT ![t] = @ \cup e.body]
         /\ eventIds' = [eventIds EXCEPT ![t] = @ \cup {e.n}]
         /\ used' = used + EnqueueSize(t, e)
         /\ oldest' = oldest \cup {t}
         /\ ready' = IF t \in quarantine \/ ready[t] # "no"
                     THEN ready ELSE [ready EXCEPT ![t] = "due"]
         /\ accepted' = [accepted EXCEPT ![t] = Append(@, e.n)]
         /\ UNCHANGED <<quarantine, retries, errors, popped>>

\* LINDEX = the ciphertext the caller holds.
AckResult_AnyHead(t, ent) == queue[t] # <<>>
AckResult(t, ent) == queue[t] # <<>> /\ Head(queue[t]) = ent

\* Bodies are deleted with the last event of the request.
BodiesAfterAck(t) == IF Len(queue[t]) = 1 THEN {} ELSE bodies[t]

\* What the removal of the head gives back.
AckBytes(t) == EventBytes + BodyBytes * Cardinality(bodies[t] \ BodiesAfterAck(t))

ACK(t, ent) ==
    IF ~ AckResult(t, ent)
    THEN UNCHANGED <<redisVars, logVars>>
    ELSE /\ queue' = [queue EXCEPT ![t] = Tail(@)]
         /\ retries' = [retries EXCEPT ![t] = 0]
         /\ errors' = errors \ {t}
         /\ bodies' = [bodies EXCEPT ![t] = BodiesAfterAck(t)]
         /\ used' = used - AckBytes(t)
         /\ IF Len(queue[t]) = 1
            THEN /\ ready' = [ready EXCEPT ![t] = "no"]
                 /\ oldest' = oldest \ {t}
            ELSE /\ ready' = [ready EXCEPT ![t] = "due"]
                 /\ UNCHANGED oldest
         /\ popped' = [popped EXCEPT ![t] = @ + 1]
         /\ UNCHANGED <<eventIds, quarantine, accepted>>

\* "Never retry its successor": the failure belongs to the head it was read from.
RetryApplies(t, ent) == queue[t] # <<>> /\ Head(queue[t]) = ent

RetryCount(t, poison) == Saturated(retries[t] + 1)

Quarantines_Never(count, poison) == FALSE
Quarantines(count, poison) == count >= QuarantineAt /\ poison

RETRY_FAILED(t, ent, poison) ==
    IF ~ RetryApplies(t, ent)
    THEN UNCHANGED <<redisVars, logVars>>
    ELSE /\ retries' = [retries EXCEPT ![t] = RetryCount(t, poison)]
         /\ errors' = errors \cup {t}
         /\ IF Quarantines(RetryCount(t, poison), poison)
            THEN /\ quarantine' = quarantine \cup {t}
                 /\ ready' = [ready EXCEPT ![t] = "no"]
            ELSE /\ ready' = [ready EXCEPT ![t] = "later"]
                 /\ UNCHANGED quarantine
         /\ UNCHANGED <<queue, bodies, eventIds, used, oldest, accepted, popped>>

\* The list is read again inside the script.
CleanApplies_NoRecheck(t) == TRUE
CleanApplies(t) == queue[t] = <<>>

CLEAN_EMPTY_INDEX(t) ==
    IF ~ CleanApplies(t)
    THEN UNCHANGED <<redisVars, logVars>>
    ELSE /\ ready' = [ready EXCEPT ![t] = "no"]
         /\ oldest' = oldest \ {t}
         /\ retries' = [retries EXCEPT ![t] = 0]
         /\ errors' = errors \ {t}
         /\ UNCHANGED <<queue, bodies, eventIds, used, quarantine, logVars>>

-----------------------------------------------------------------------------
Init ==
    /\ queue = [t \in Tokens |-> <<>>]
    /\ bodies = [t \in Tokens |-> {}]
    /\ eventIds = [t \in Tokens |-> {}]
    /\ used = 0
    /\ ready = [t \in Tokens |-> "no"]
    /\ oldest = {}
    /\ quarantine = {}
    /\ retries = [t \in Tokens |-> 0]
    /\ errors = {}
    /\ admission = "none"
    /\ late = {}
    /\ rec = [t \in Tokens |-> "none"]
    /\ receipts = [t \in Tokens |-> {}]
    /\ api = [t \in Tokens |-> [pc |-> "new", n |-> 0, ev |-> NoEvent, last |-> "none"]]
    /\ worker = [pc |-> "down"]
    /\ operators = {}
    /\ diskLow = FALSE
    /\ broken \in SUBSET Tokens
    /\ faults = MaxFaults
    /\ accepted = [t \in Tokens |-> <<>>]
    /\ popped = [t \in Tokens |-> 0]
    /\ committed = [t \in Tokens |-> <<>>]
    /\ published = [t \in Tokens |-> <<>>]

-----------------------------------------------------------------------------
(***************************************************************************)
(* The API side of one request. It waits for each enqueue, at most one     *)
(* second; an answer that does not come in time leaves the outcome unknown.*)
(***************************************************************************)
SpendFault == faults > 0 /\ faults' = faults - 1

Call(t, n, op, body) ==
    api' = [api EXCEPT ![t] = [pc |-> "calling", n |-> n, last |-> @.last,
                               ev |-> [n |-> n, op |-> op, body |-> body]]]

Begin(t) ==
    /\ api[t].pc = "new"
    /\ MaxEvents > 0
    /\ \E body \in SUBSET Bodies : Call(t, 1, "begin", body)
    /\ UNCHANGED <<redisVars, admission, late, archiveVars, worker, operators,
                   envVars, faults, logVars>>

\* A request ends with complete or fail, and fail may follow at any time, alone
\* after an event that was given up. History is submitted when the end was
\* confirmed: after a failure too, if only the public output was replaced.
MayRecord(t, op) ==
    CASE op = "history" -> api[t].pc = "idle" /\ api[t].last \in {"complete", "fail"}
      [] op = "fail"    -> api[t].pc \in {"idle", "failing"}
      [] op = "begin"   -> FALSE
      [] OTHER          -> api[t].pc = "idle"
                           /\ api[t].last \notin {"complete", "fail", "history"}

Record(t, op) ==
    /\ MayRecord(t, op)
    /\ api[t].n < MaxEvents
    /\ \E body \in SUBSET Bodies : Call(t, api[t].n + 1, op, body)
    /\ UNCHANGED <<redisVars, admission, late, archiveVars, worker, operators,
                   envVars, faults, logVars>>

EnqueueCall(t) ==
    /\ api[t].pc = "calling"
    /\ ENQUEUE(t, api[t].ev)
    /\ api' = [api EXCEPT ![t] =
                 IF EnqueueResult(t, api[t].ev) \in {1, 2}
                 THEN [@ EXCEPT !.pc = "idle", !.last = api[t].ev.op]
                 ELSE [@ EXCEPT !.pc = "unconfirmed"]]
    /\ UNCHANGED <<admission, late, archiveVars, worker, operators, envVars, faults>>

EnqueueTimeout(t) ==
    /\ api[t].pc = "calling"
    /\ SpendFault
    /\ late' = late \cup {[script |-> "ENQUEUE", tok |-> t, ev |-> api[t].ev]}
    /\ api' = [api EXCEPT ![t].pc = "unconfirmed"]
    /\ UNCHANGED <<redisVars, admission, archiveVars, worker, operators, envVars, logVars>>

\* DirectedArchive retries the same id; a request handler gives up and, where
\* it still holds the token, records the failure under a new id.
RetryEnqueue(t) ==
    /\ api[t].pc = "unconfirmed"
    /\ api' = [api EXCEPT ![t].pc = "calling"]
    /\ UNCHANGED <<redisVars, admission, late, archiveVars, worker, operators,
                   envVars, faults, logVars>>

GiveUp(t) ==
    /\ api[t].pc = "unconfirmed"
    /\ api' = [api EXCEPT ![t].pc =
                 CASE api[t].ev.op = "begin" -> IF DeferredBegin THEN "failing" ELSE "closed"
                   [] api[t].ev.op \in {"fail", "history"} -> "closed"
                   [] OTHER -> "failing"]
    /\ UNCHANGED <<redisVars, admission, late, archiveVars, worker, operators,
                   envVars, faults, logVars>>

\* The ids of a request expire 24 hours after its last event; enqueue calls
\* and their late copies are resolved long before.
ExpireEventIds(t) ==
    /\ eventIds[t] # {}
    /\ api[t].pc \in {"idle", "closed"}
    /\ \A c \in late : ~ (c.script = "ENQUEUE" /\ c.tok = t)
    /\ eventIds' = [eventIds EXCEPT ![t] = {}]
    /\ UNCHANGED <<queue, bodies, used, indexVars, admission, late, archiveVars,
                   api, worker, operators, envVars, faults, logVars>>

-----------------------------------------------------------------------------
(***************************************************************************)
(* The worker. A host file lock allows one at a time.                      *)
(***************************************************************************)
WorkerOnly == UNCHANGED <<redisVars, admission, late, archiveVars, api,
                          operators, envVars, faults, logVars>>

Start ==
    /\ worker.pc = "down"
    /\ worker' = [pc |-> "idle"]
    /\ WorkerOnly

\* head(): the due token, then its first entry; two round trips.
PickToken(t) ==
    /\ worker.pc = "idle"
    /\ ready[t] = "due"
    /\ worker' = [pc |-> "head", tok |-> t]
    /\ WorkerOnly

ReadHead ==
    /\ worker.pc = "head"
    /\ worker' = IF queue[worker.tok] = <<>>
                 THEN [pc |-> "clean", tok |-> worker.tok]
                 ELSE [pc |-> "decode", tok |-> worker.tok, ent |-> Head(queue[worker.tok])]
    /\ WorkerOnly

Clean ==
    /\ worker.pc = "clean"
    /\ CLEAN_EMPTY_INDEX(worker.tok)
    /\ worker' = [pc |-> "idle"]
    /\ UNCHANGED <<admission, late, archiveVars, api, operators, envVars, faults>>

ToFailed(poison) ==
    worker' = [pc |-> "failed", tok |-> worker.tok, ent |-> worker.ent, poison |-> poison]

\* A damaged event, or one whose body is no longer stored, is poison.
Undecodable(t, ent) == t \in broken \/ ~ (ent.body \subseteq bodies[t])

Decode ==
    /\ worker.pc = "decode"
    /\ IF diskLow THEN ToFailed(FALSE)
       ELSE IF Undecodable(worker.tok, worker.ent) THEN ToFailed(TRUE)
       ELSE worker' = [worker EXCEPT !.pc = "apply"]
    /\ WorkerOnly

\* A locked database, a failed write: nothing is committed.
TransientFailure ==
    /\ worker.pc = "apply"
    /\ SpendFault
    /\ ToFailed(FALSE)
    /\ UNCHANGED <<redisVars, admission, late, archiveVars, api, operators,
                   envVars, logVars>>

Updated(state, op) ==
    CASE op = "set_effective_context" -> "prepared"
      [] op = "mark_routed" -> "routed"
      [] op = "complete" -> "completed"
      [] op = "fail" -> "failed"
      [] OTHER -> state

\* _event_applied: a receipt of this event id exists.
EventApplied_NoReceipts(t, ent) == FALSE
EventApplied(t, ent) == ent.n \in receipts[t]

\* INSERT OR IGNORE for begin; a merge leaves a terminal record alone.
Merged_OverTerminal(state, op) ==
    IF op = "begin" THEN (IF state = "none" THEN "received" ELSE state) ELSE Updated(state, op)
Merged(state, op) ==
    CASE op = "begin" -> IF state = "none" THEN "received" ELSE state
      [] op # "begin" /\ state \in TERMINAL_STATES -> state
      [] OTHER -> Updated(state, op)

\* One SQLite transaction: the change and its receipt, or neither.
Commit(t, ent) ==
    IF EventApplied(t, ent)
    THEN UNCHANGED <<rec, receipts, committed>>
    ELSE /\ rec' = [rec EXCEPT ![t] = Merged(@, ent.op)]
         /\ receipts' = [receipts EXCEPT ![t] = @ \cup {ent.n}]
         /\ committed' = [committed EXCEPT ![t] = Append(@, ent.pos)]

\* _merge_sync raises when there is no record to merge into.
RecordMissing(t, ent) ==
    /\ ent.op \notin {"begin", "history"}
    /\ ~ EventApplied(t, ent)
    /\ rec[t] = "none"

ApplyEvent ==
    /\ worker.pc = "apply"
    /\ worker.ent.op # "history"
    /\ IF RecordMissing(worker.tok, worker.ent)
       THEN ToFailed(FALSE) /\ UNCHANGED <<rec, receipts, committed>>
       ELSE worker' = [worker EXCEPT !.pc = "ack"] /\ Commit(worker.tok, worker.ent)
    /\ UNCHANGED <<redisVars, admission, late, published, api, operators, envVars,
                   faults, logVars>>

\* validate_archive raises a ValueError when the record is not complete: of its
\* reasons, the one that follows from the state...
RefuseHistory ==
    /\ worker.pc = "apply"
    /\ worker.ent.op = "history"
    /\ rec[worker.tok] # "completed"
    /\ ToFailed(TRUE)
    /\ WorkerOnly

\* ...which is not looked at when the conversation has expired.
PublishHistory ==
    /\ worker.pc = "apply"
    /\ worker.ent.op = "history"
    /\ worker' = [worker EXCEPT !.pc = "ack"]
    /\ published' = [published EXCEPT ![worker.tok] = Append(@, worker.ent.pos)]
    /\ UNCHANGED <<redisVars, admission, late, rec, receipts, committed, api, operators,
                   envVars, faults, logVars>>

Acknowledge ==
    /\ worker.pc = "ack"
    /\ ACK(worker.tok, worker.ent)
    /\ worker' = IF AckResult(worker.tok, worker.ent)
                 THEN [worker EXCEPT !.pc = "forget"] ELSE [pc |-> "idle"]
    /\ UNCHANGED <<admission, late, archiveVars, api, operators, envVars, faults>>

\* The reply of the acknowledgement is lost: the worker records a failure.
AcknowledgeTimeout ==
    /\ worker.pc = "ack"
    /\ SpendFault
    /\ late' = late \cup {[script |-> "ACK", tok |-> worker.tok, ent |-> worker.ent]}
    /\ ToFailed(FALSE)
    /\ UNCHANGED <<redisVars, admission, archiveVars, api, operators, envVars, logVars>>

\* Keeping the receipt when the deletion fails is the crash at this point.
ForgetEvent ==
    /\ worker.pc = "forget"
    /\ receipts' = [receipts EXCEPT ![worker.tok] = @ \ {worker.ent.n}]
    /\ worker' = [pc |-> "idle"]
    /\ UNCHANGED <<redisVars, admission, late, rec, committed, published, api,
                   operators, envVars, faults, logVars>>

Failed ==
    /\ worker.pc = "failed"
    /\ RETRY_FAILED(worker.tok, worker.ent, worker.poison)
    /\ worker' = [pc |-> "idle"]
    /\ UNCHANGED <<admission, late, archiveVars, api, operators, envVars, faults>>

\* The command the worker is about to send, if any.
Sending ==
    CASE worker.pc = "clean"  -> {[script |-> "CLEAN", tok |-> worker.tok]}
      [] worker.pc = "ack"    -> {[script |-> "ACK", tok |-> worker.tok, ent |-> worker.ent]}
      [] worker.pc = "failed" -> {[script |-> "FAILED", tok |-> worker.tok,
                                   ent |-> worker.ent, poison |-> worker.poison]}
      [] OTHER -> {}

\* The process is killed, or leaves run() on a Redis error outside the handler;
\* the command it had sent may be executed later.
Crash ==
    /\ worker.pc # "down"
    /\ SpendFault
    /\ late' \in {late, late \cup Sending}
    /\ worker' = [pc |-> "down"]
    /\ UNCHANGED <<redisVars, admission, archiveVars, api, operators, envVars, logVars>>

LateCommand(c) ==
    /\ c \in late
    /\ late' = late \ {c}
    /\ CASE c.script = "ENQUEUE" -> ENQUEUE(c.tok, c.ev)
         [] c.script = "ACK"     -> ACK(c.tok, c.ent)
         [] c.script = "FAILED"  -> RETRY_FAILED(c.tok, c.ent, c.poison)
         [] c.script = "CLEAN"   -> CLEAN_EMPTY_INDEX(c.tok)
    /\ UNCHANGED <<admission, archiveVars, api, worker, operators, envVars, faults>>

-----------------------------------------------------------------------------
(***************************************************************************)
(* Time, the operator and the disk.                                        *)
(***************************************************************************)
BackoffElapses(t) ==
    /\ ready[t] = "later"
    /\ ready' = [ready EXCEPT ![t] = "due"]
    /\ UNCHANGED <<queue, bodies, eventIds, used, oldest, quarantine, retries, errors,
                   admission, late, archiveVars, api, worker, operators, envVars,
                   faults, logVars>>

Heartbeat ==
    /\ worker.pc # "down"
    /\ admission' = IF diskLow THEN "blocked" ELSE "ready"
    /\ UNCHANGED <<redisVars, late, archiveVars, api, worker, operators, envVars,
                   faults, logVars>>

AdmissionExpires ==
    /\ worker.pc = "down"
    /\ admission' = "none"
    /\ UNCHANGED <<redisVars, late, archiveVars, api, worker, operators, envVars,
                   faults, logVars>>

\* --retry <token>: the check, then the transaction.
RetryCheck(t) ==
    /\ t \in quarantine
    /\ operators' = operators \cup {t}
    /\ UNCHANGED <<redisVars, admission, late, archiveVars, api, worker, envVars,
                   faults, logVars>>

Retry(t) ==
    /\ t \in operators
    /\ operators' = operators \ {t}
    /\ quarantine' = quarantine \ {t}
    /\ retries' = [retries EXCEPT ![t] = 0]
    /\ errors' = errors \ {t}
    /\ ready' = [ready EXCEPT ![t] = "due"]
    /\ UNCHANGED <<queue, bodies, eventIds, used, oldest, admission, late, archiveVars,
                   api, worker, envVars, faults, accepted, popped>>

Repair(t) ==
    /\ t \in broken
    /\ broken' = broken \ {t}
    /\ UNCHANGED <<redisVars, admission, late, archiveVars, api, worker, operators,
                   diskLow, faults, logVars>>

DiskFills ==
    /\ ~ diskLow
    /\ SpendFault
    /\ diskLow' = TRUE
    /\ UNCHANGED <<redisVars, admission, late, archiveVars, api, worker, operators,
                   broken, logVars>>

DiskFreed ==
    /\ diskLow
    /\ diskLow' = FALSE
    /\ UNCHANGED <<redisVars, admission, late, archiveVars, api, worker, operators,
                   broken, faults, logVars>>

-----------------------------------------------------------------------------
WorkerStep == \/ Start \/ ReadHead \/ Clean \/ Decode \/ ApplyEvent
              \/ RefuseHistory \/ PublishHistory \/ Acknowledge \/ ForgetEvent \/ Failed

ApiStep(t) == \/ Begin(t) \/ (\E op \in Ops : Record(t, op))
              \/ EnqueueCall(t) \/ EnqueueTimeout(t) \/ RetryEnqueue(t)
              \/ GiveUp(t) \/ ExpireEventIds(t)

Next ==
    \/ WorkerStep
    \/ TransientFailure \/ AcknowledgeTimeout \/ Crash
    \/ Heartbeat \/ AdmissionExpires \/ DiskFills \/ DiskFreed
    \/ \E c \in late : LateCommand(c)
    \/ \E t \in Tokens : \/ ApiStep(t) \/ PickToken(t) \/ BackoffElapses(t)
                         \/ RetryCheck(t) \/ Retry(t) \/ Repair(t)

\* The worker loop runs and is restarted by its container; head() serves the
\* lowest score, so no due token is passed over for ever; the disk is freed.
Fairness ==
    /\ WF_vars(WorkerStep)
    /\ WF_vars(DiskFreed)
    /\ \A t \in Tokens : SF_vars(PickToken(t)) /\ WF_vars(BackoffElapses(t))

Safety == Init /\ [][Next]_vars
Spec == Safety /\ Fairness

-----------------------------------------------------------------------------
(***************************************************************************)
(* Properties                                                              *)
(***************************************************************************)
WorkerState ==
    [pc : {"down", "idle"}]
        \cup [pc : {"head", "clean"}, tok : Tokens]
        \cup [pc : {"decode", "apply", "ack", "forget"}, tok : Tokens, ent : Entry]
        \cup [pc : {"failed"}, tok : Tokens, ent : Entry, poison : BOOLEAN]

\* Type invariant: the Redis keys, the archive, the in-flight commands and the
\* processes hold values of their types.
TypeOK ==
    /\ queue \in [Tokens -> Seq(Entry)]
    /\ bodies \in [Tokens -> SUBSET Bodies]
    /\ eventIds \in [Tokens -> SUBSET (1..MaxEvents)]
    /\ used \in Int
    /\ ready \in [Tokens -> {"no", "due", "later"}]
    /\ oldest \in SUBSET Tokens
    /\ quarantine \in SUBSET Tokens
    /\ retries \in [Tokens -> 0..QuarantineAt]
    /\ errors \in SUBSET Tokens
    /\ admission \in {"none", "ready", "blocked"}
    /\ late \in SUBSET Command
    /\ rec \in [Tokens -> RecordStates]
    /\ receipts \in [Tokens -> SUBSET (1..MaxEvents)]
    /\ api \in [Tokens -> [pc : {"new", "idle", "calling", "unconfirmed", "failing", "closed"},
                           n : 0..MaxEvents, ev : Event \cup {NoEvent},
                           last : Ops \cup {"none"}]]
    /\ worker \in WorkerState
    /\ operators \in SUBSET Tokens
    /\ diskLow \in BOOLEAN
    /\ broken \in SUBSET Tokens
    /\ faults \in 0..MaxFaults
    /\ accepted \in [Tokens -> Seq(1..MaxEvents)]
    /\ popped \in [Tokens -> Nat]
    /\ committed \in [Tokens -> Seq(Nat)]
    /\ published \in [Tokens -> Seq(Nat)]

\* A token with pending events can always be found again: by the worker through
\* the ready index, or by the operator in quarantine. Every script edits list
\* and index together, and head() removes an index entry only after rechecking
\* the list inside CLEAN_EMPTY_INDEX.
NoStrandedEvents ==
    \A t \in Tokens : queue[t] # <<>> => ready[t] # "no" \/ t \in quarantine

\* The byte counter that ENQUEUE compares with the limit equals what is stored:
\* the envelopes in the lists and one copy of each body.
StoredEvents == UNION {{t} \X (1..Len(queue[t])) : t \in Tokens}
StoredBodies == UNION {{t} \X bodies[t] : t \in Tokens}
BytesAreAccounted ==
    used = EventBytes * Cardinality(StoredEvents) + BodyBytes * Cardinality(StoredBodies)

\* The queue never grows beyond AI_ROUTER_ARCHIVE_QUEUE_MAX_BYTES.
WithinLimit == used <= MaxBytes

\* Bodies are shared between the events of a request and deleted together: no
\* pending event refers to a body that is gone.
BodiesOutliveTheirEvents ==
    \A t \in Tokens : \A i \in 1..Len(queue[t]) : queue[t][i].body \subseteq bodies[t]

\* Every event is committed to the archive at most once, and the events of a
\* request in the order in which Redis accepted them, in spite of crashes
\* between commit and acknowledgement, lost replies and replays.
CommittedOnceInOrder ==
    \A t \in Tokens : \A i, j \in 1..Len(committed[t]) :
        i < j => committed[t][i] < committed[t][j]

\* "Recreating a retry entry without a payload" is what the worker must not do:
\* failures are only recorded against the head they belong to.
NoPayloadlessRetry ==
    \A t \in Tokens : queue[t] = <<>> => retries[t] = 0 /\ t \notin errors

\* History is published only when the record of its request is finished, although
\* the events that finish it are themselves still on their way when it is sent.
HistoryAfterArchive ==
    \A t \in Tokens : published[t] # <<>> => rec[t] \in TERMINAL_STATES

\* What the four scripts keep together in Redis (archive_queue.py:18-97) fits
\* together after every step, lost reply and late command: nothing pending is
\* out of reach, the counter is exact and within its limit, no body is missing
\* and no failure is booked on an empty list.
OutboxIsConsistent ==
    /\ TypeOK
    /\ NoStrandedEvents
    /\ BytesAreAccounted
    /\ WithinLimit
    /\ BodiesOutliveTheirEvents
    /\ NoPayloadlessRetry

\* What the worker brings into the archive (archive_worker.py:45-70) arrives once
\* and in order, and history only after its record.
ArchiveIsOrdered ==
    /\ CommittedOnceInOrder
    /\ HistoryAfterArchive

\* The record of a finished request never changes again, whatever events a
\* timed-out handler, a late command or a replay still delivers.
TerminalIsFinal ==
    [][\A t \in Tokens : rec[t] \in TERMINAL_STATES => rec'[t] = rec[t]]_vars

\* docs/archive-queue.md:34 waits for the queue to become empty once the APIs are
\* drained. What was accepted is eventually archived and removed, or set aside for the
\* operator: neither a crash nor a lost reply leaves it pending for ever.
Drains ==
    \A t \in Tokens : (queue[t] # <<>>) ~> (queue[t] = <<>> \/ t \in quarantine)

(***************************************************************************)
(* The promise of the queue: see RequestLog.                               *)
(***************************************************************************)
Archived == [t \in Tokens |-> Range(committed[t]) \cup Range(published[t])]

Log == INSTANCE RequestLog WITH Ids <- 1..MaxEvents, archived <- Archived, removed <- popped

\* The outbox implements an in-order log: an id is accepted once, events take
\* effect in acceptance order, and leave the outbox only after taking effect.
ImplementsRequestLog == Log!Spec
=============================================================================
