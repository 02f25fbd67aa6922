# A TLA+ model of 1Panel's stateful protocols and of its AI router's shared resources

The repository holds a server panel (a Go core and a Go agent with a Vue
interface) and, under `deploy/`, an AI router with its satellites (Python). This
directory models the parts whose correctness depends on the order of concurrent
steps, on failures and on restarts, checks them with TLC on small instances and
proves their safety properties with TLAPS for every instance.

## Inventory

| Part | State it keeps | Operations | What is hard | What makes it correct |
|---|---|---|---|---|
| Archive outbox (`ai_router/archive_queue.py`) | per request: a FIFO list of encrypted events, shared bodies, accepted ids; globally: a ready index, byte counter, quarantine, retry counters, errors | the Lua scripts ENQUEUE, ACK, RETRY_FAILED, CLEAN_EMPTY_INDEX; operator retry | replies get lost and commands run late; readers act on a stale head; a body is shared by several events | accepted events take effect once and in order, are never stranded, are counted exactly |
| Archive worker (`archive_worker.py`) | the head it is working on | head, decode, apply, acknowledge, forget, failed; heartbeat | it may die at every await; disk full; bad data | a commit and its receipt are one transaction, so that a replay has no effect |
| Training archive (`training_archive.py`) | a record per request, receipts | insert, merge, forget receipt | late events on finished records | a terminal record is final |
| Directed archive (`directed_archive.py`) | a local queue in front of the outbox, a mode per request | begin, select_mode, submit, fallback, flush | a begin that is deferred and then refused; sync overtaking async | modelled only as far as the outbox sees it |
| Background compaction (`compaction_jobs.py`, `compaction_worker.py`, `compaction_checkpoint.py`) | a row per job: state, lease, steps with their outcome, budgets | create, claim, heartbeat, dispatch, complete/failed/not_sent step, candidate, cancel, fail, abandon | leases expire under a live worker; processes die with a call in flight; cancellation at any moment | no call is paid twice, unknown outcomes are kept, limits hold |
| Core task engine (`core/app/task/task.go`) | a task, its subtasks, its rollbacks, its record | Task.Execute, SubTask.Execute, executeAttempt, canRetry | cancellation and deadlines race with actions; writes fail silently | actions never overlap; a failure is undone completely, or frozen when its end is unconfirmed |
| Agent task engine (`agent/app/task/task.go`, `agent/global/global.go`) | the same, and a registry of cancel functions | Task.Execute, SubTask.Execute, RegisterTaskCancel, ... | timed-out actions are abandoned while they run | what still holds beside stragglers |
| Agent task table (`agent/app/repo/task.go`, `agent/init/business/business.go`) | a record per task | save, update, delete, UpdateRunningTaskToFailed | crash between two writes; synchronisation beside a running server; several engines of one id; services that write and delete | records end; outcomes are kept |
| Scheduler (`scheduler.py`, `store.py`) | a queue and a semaphore per admission group, leases | try, wait in line, release, cleanup at a boot | leases expire under live requests; cancellation while acquiring | capacity holds; nothing stays behind |
| Cloud budget (`budget.py`) | a monthly ledger and its lock | reserve, settle, release, two-hour sweep | read-modify-write under a lock that expires; settlements that come late | nothing is charged twice, calls are covered, the budget holds |
| Request pipeline (`api.py`) | the lease and the reservation of each request | attempt, call, answer, stream, recover, fail, retry, reject, cancel | each way out gives back both in its own order | the same, for both together |
| Terminal sessions (`agent/utils/terminal`) | shells, the attachment of each, a grace timer | attach, detach, kick, revalidate, close | timers race with reattaching; two tabs want one shell | no shell without an owner or a timer; a served terminal is the attached one |
| Terminal component (`frontend/.../components/terminal/index.vue`, `store/modules/terminal-session.ts`) | the session id and websocket of each entry | open, reconnect, reload, interpret close codes | lost hellos, silent cuts | the initial command runs once; a session is given up only when it is gone |
| Chunked upload, agent (`agent/app/api/v2/file.go`) | part files, the active, completed and cancelled uploads | chunk, link or rename, roll back, stop, expire | late and repeated chunks, short writes, removals that fail, restart | the destination is whole; a failed upload is undone; a stop is final; parts are reclaimed |
| Chunked upload, drawer (`frontend/.../upload/index.vue`) | the chunk, retries and controller of each upload | submit, send, retry, cancel, close | lost answers, a stop that races with a chunk | success is true; an upload ends |
| H3 fleet, studio and MCP bridge (`deploy/h3-*`) | media jobs and nodes | admission, dispatch, polling | lost nodes, late results | not modelled |
| Routing policy, health, affinity, history, memory, accounts (`ai_router/*.py`) | configuration, measurements, indexes | pure computations; one transaction each | little concurrency | not modelled |
| Panel services (`core/app/service`, `agent/app/service`) | database rows, files, containers | request handlers | long ones run as tasks | through the task engines |
| Rest of the interface (`frontend/`), packaging (`deploy/runtime-release`), labs, vendored kernels | - | - | - | not modelled |

How they interact: the router's API calls the archive (directly or through
DirectedArchive), which enqueues into Redis; the worker process drains Redis into
SQLite and publishes history. Compaction workers are loops inside the router
processes; they share one SQLite job store and call model deployments. Panel
services hand lists of subtasks to the task engine of their process; the engine
writes the task table, which a restarted agent repairs. The interface talks to the
agent through websockets (terminals) and requests (uploads); both ends keep state
that has to agree although messages are lost and tabs and agents go away.

## Modules

| Module | Models | Uses |
|---|---|---|
| `RequestLog` | abstract: what the outbox promises to one request | |
| `ArchiveQueue` | outbox, worker, archive transactions, API side, operator | implements `RequestLog` |
| `CompactionJobs` | job store, worker tick, checkpointed call | |
| `TaskLifecycle` | abstract: what both task engines promise | |
| `CoreTask` | the engine of the core | implements `TaskLifecycle` |
| `AgentTask` | the engine of the agent and its cancel registry | implements `TaskLifecycle` |
| `TaskTable` | the agent's records across crashes; composes the writes of the engine with the process and `syncTask` | |
| `RouterRequests` | the requests that share the router's resources | |
| `Scheduler` | slots and the queue for them | |
| `CloudBudget` | the monthly ledger | |
| `RouterLeases` | the pipeline of a request | composes `Scheduler` and `CloudBudget` |
| `TerminalLink` | websockets that may be cut silently | |
| `TerminalAgent` | sessions and attachments of the agent | over `TerminalLink` |
| `TerminalClient` | the terminal component and its store | over `TerminalLink` |
| `Terminal` | both ends together | composes the two |
| `UploadLink` | requests that may be executed late and answers that get lost | |
| `UploadAgent` | part files and the handlers of the agent | over `UploadLink` |
| `UploadPage` | the upload drawer | over `UploadLink` |
| `ChunkUpload` | both ends together, and others who write to the same place | composes the two |
| `CoreTask_proofs`, `AgentTask_proofs`, `TaskTable_proofs`, `CompactionJobs_proofs`, `Terminal_proofs`, `ChunkUpload_proofs`, `ArchiveQueue_proofs` | theorems | the module they are named after |
| `RouterLeases_proofs` | theorems about the ledger by itself and about the pipeline | `CloudBudget`, `RouterLeases` |
| `MC*` | option sets, symmetry | |

Definitions named `X_Something` next to a definition `X` are plausible mistakes
in `X`; each is used to show that some property notices it.

### ArchiveQueue

One variable per Redis key, SQLite table and process. Each Lua script is one
action operator, as Redis runs it atomically; every client call is split into
sending, execution and reply: a call whose reply is lost moves its command to
`late`, from where it may be executed at any later time. The worker's `step` is
one action per await. Payloads are abstracted to a number, an operation and a set
of body digests; encryption to the question whether a token's data can be
decoded (`broken`). `DeferredBegin` tells whether `DirectedArchive` fronts the
queue: then a refused begin does not stop the request's later events. The
worker's file lock is taken as granted: there is one worker. `accepted`,
`popped`, `committed` and `published` only record history. History is also enqueued
after a failure; the worker refuses it as poison then, unless the conversation has
expired. `RequestLog` brings into effect the first accepted event that is not in effect
yet.

### CompactionJobs

Every method of `CompactionJobs` is one transaction and one action. `at[w]` is the
position of worker loop `w` between two of them. A lease is `live` or not, and may
expire whenever the code does not renew it in the same transaction; likewise
`spent` says that the time budget is used up. Steps are keyed by batch and
deployment, as `step_key` digests both. `sends` and `refusals` record what the
provider saw. That an operator attests an outcome only when the call is over
(`abandon_verified_operation` asks for evidence) is an assumption: the guard
`~ InFlight`. The identity of a worker slot is reused after a crash, which is
sound since `claim` succeeds only when no row is running. A retry that is routed
to another deployment leaves the first key refused; `candidate` then refuses, and
the job fails: the model keeps that.

### CoreTask and AgentTask

`pc` is the position in `Task.Execute` and `SubTask.Execute`. An error is the set
of causes that `errors.Is` finds in it and `errors.Join` is union, which is all
that the code asks of errors. The context may end at any time. Actions run beside
the engine (`running`); the core's engine waits for them after a deadline, the
agent's does not: there the action moves to `abandoned` and ends up `stuck` on
its unbuffered channel. `updateTask` may fail silently at each write. Subtasks
are fixed before Execute, as in all callers. `ReNewTask` leaves the task without a
registered cancel function, hence `registered` may be false initially. A stop request
loads the cancel function under the registry's lock and calls it later (`loaded`): the
subtask may return in between, so a cancellation may land in any later subtask.

### TaskTable

The record of each task, the engines' copies of it, and the agent process. Nothing in
the code keeps a task id to one engine: a task is reopened without asking for its status
(`ReNewTask`) and a new one may take an id that has a record, so each id has several
`Engines`, whose number is a bound. The services write the record themselves before
(`Announce`) and after (`Amend`) an engine does and delete records under it
(`DeleteRecords`); saving a record that is gone inserts it again. Any write may fail;
`lost` remembers the records whose first save or whose outcome was not written, `carry`
the engines whose copy holds the message of an earlier restart.

### Scheduler, CloudBudget and RouterLeases

Every call of the store is one step, because every call is an `await`. `stage` is the
position in an acquisition: between `granted` (the semaphore counts the request) and
`leased` (the lease names the slot) a cancellation leaves the slot to its expiry, and
`cut` remembers that. `overdue` remembers leases whose slot expired first, `outlived`
that some operation outlived its five-second lock; the properties state exactly these
exceptions and nothing more. In the ledger, `bills` and `overrun` are kept by the model
only. Reading computes the ledger that will be written, as the code does between two
awaits; writing does not look at the lock. Prices are one estimate `Amount` and a set
`Charges`. One admission group stands for the candidate list, the change of month and
the rate windows are left out. A cancelled `await` may or may not have taken effect.
One router is assumed to use the store, so that the cleanup at a boot, which removes the
tokens of its own instance, removes all. A stream that is read to its end frees its slot
and then settles, as a whole answer does (`Answered`); an abandoned one settles first
(`Streamed`). An empty answer is settled and tried again under the same id (`Recover`), so
a charge of an earlier attempt must not count as cover of a later one: `CallsAreCovered`
accepts a charge only of a reservation that has aged since.

### Terminal

`at` is the position of the handler of each websocket, an action is one critical section
of `Session.mu` or one step of a goroutine. A websocket that the network cuts loses what
was not read, and each end notices in its own time. `grace` distinguishes the full
period from the short one after a revalidation. `reconnecting` and the window of the
component decide nondeterministically when it gives up. A single login is modelled, so
the ownership test of the registry always succeeds. A panic that `Run` recovers from
(`attachment.go:44-49`) is not modelled: it would close a live websocket with 1000 while
the shell waits out its grace period.

### ChunkUpload

A file is a sequence of cells, a part may have fewer than it should or a hole. A request
is `sent` until the agent handles it, even when the page has stopped waiting for it. The
lock of an upload makes a chunk's write and the finalization steps of one holder, while
a stop first marks and then takes the lock. A file that may be overwritten is placed by a
rename, any other by a link and the removal of the part, with a roll back when that fails:
`linked` is between the two, and `strays` remembers the links whose roll back failed or
which a restart cut short. Discarding and expiring forget the upload first and then remove
its part, which may fail; a restart clears the three maps. The parts left either way are
`orphans`: nobody knows them until another chunk of their upload arrives. Several uploads
and drawers may share a destination; empty files, files sent whole and the older merge path are not modelled. The drawer looks for
an existing file before its dialog, `StartUpload` when the upload starts; since others may
write to the destination at once, the model has the orders in between.

## Runs

| Run | Question | Instance |
|---|---|---|
| `archive_safety` | do index, bodies, counter, history and records stay consistent, and do events take effect once and in order, through refusals, a full disk, poison data, quarantine, operator retries and a fault? | one request, up to 3 events (enough for begin, terminal, history), one shared body, limit 4 bytes so that it is hit, one lost reply or crash |
| `archive_drains` | is everything accepted archived or quarantined? | with confirmed begins, fairness |
| `archive_orphan` | the same behind DirectedArchive | violated, see Findings |
| `compaction_one` | no replay, complete candidates, budgets, unknown outcomes and cancellations kept | one job, two workers, two batches, two deployments |
| `compaction_two` | one call in flight; is every queued job decided? | two jobs, two workers, fairness |
| `core_task` | overlap, rollback, cancellation, saved status, lifecycle, termination | two subtasks, all options |
| `agent_task` | what holds beside stragglers, termination | two subtasks, all options |
| `task_table` | records end, outcomes are kept | one task id with two engines, two crashes |
| `task_table_restart` | does "restart causes failure" mean what it says? | violated, see Findings |
| `router_leases` | capacity, budget and charges through retries, rejections, recoveries, cancellations, expiries and a restart | two requests with two attempts each, one slot, a budget of two estimates, one crash |
| `terminal` | leaked shells, who is served, the initial command, close codes | two terminals, two websockets, one shell |
| `chunk_upload` | whole files, true success, final stops, failed uploads undone, uploads end, parts are reclaimed | one file of two chunks, the second one short, two requests at a time, one retry, one restart |

Why these bounds: requests share only the byte counter in the outbox and every
script touches one request, so one request with several events meets the
interesting orders; three events are the longest chain the code orders (begin,
terminal, history). One retry per subtask and two subtasks let every pair of
outcomes meet, with a completed subtask before a failing one. In compaction the
code allows two attempts per step, so two deployments and two batches reach every
combination of cached, refused and completed steps; two jobs show the global
exclusion. The bounds `MaxEvents`, `MaxFaults` and `MaxCrashes` are constants and
appear in guards. Two websockets and two terminals are enough for a
kick to race with the departure of the one it kicks; a reload or a second tab is the
second terminal. A task id meets only its own engines, and two of them are enough for
one to overwrite what the other wrote. Two requests at a time let a retried chunk meet
its late original, and a short second chunk makes offsets and lengths differ. In the router two requests meet
in every step of the queue and the ledger, and an expired slot or a released one lets
both be at the ledger at once. `Attempts`, `MaxCrashes` and `MaxRestarts` are bounds.
Symmetry is used for workers, terminals, websockets and requests, only where no
liveness is checked.

An invariant such as `OutboxIsConsistent` is a conjunction of named parts, each with its
own comment in its module.

Fairness:
- ArchiveQueue: the worker loop keeps running (`WF` on its steps; its supervisor
  restarts it), the disk is freed some day, back-offs elapse; a due token is
  picked again and again because the index is ordered by time (`SF` on `PickToken`).
- CompactionJobs: worker loops keep ticking; the lease of a worker that no
  longer works on the job expires; the time budget of a job that is claimed again
  and again is consumed (`SF`).
- CoreTask: the engine's goroutine runs, and actions return: the engine waits for
  them without limit, so this is an obligation on the actions.
- AgentTask: the engine runs and timers fire; only actions without a timeout are
  assumed to return.
- TaskTable: tasks end (checked in AgentTask), the service manager restarts the
  agent, `syncTask` is started by each boot.

- ChunkUpload: the agent handles a request or the network drops it, an answer is read
  when it comes and the loss of one is noticed in the end, the 24-hour timer of a part
  fires. Chunk requests have no timeout of their own (`timeout: 0`, `index.vue:592`): that
  a lost answer is noticed rests on the browser's and the network's.
- Terminal and RouterLeases are checked for safety only.

Tasks and the requests of `router_leases` end, so their runs do not check deadlock; all
others do.

## Findings

1. `archive_orphan`: behind `DirectedArchive` a request whose begin was refused
   may still enqueue its failure. No record exists to merge it into; the error is
   not classified as poison, so the event is retried for ever and the queue that
   `docs/archive-queue.md:34` waits for never becomes empty.
2. `task_table_restart`: `syncTask` runs beside the server after a boot, so that
   tasks started after the boot are recorded as "1Panel restart causes failure".

### Observations

Met while modelling, and not the subject of a run:

- Quarantine: `docs/archive-queue.md:23` promises it after five consecutive failures on
  bad data; the script counts failures of any kind and looks only at the kind of the
  last, so one poison failure after transient ones quarantines a request.
- Terminal, grace period: `session.go:19-22` promises the full period (30 minutes) to a
  shell whose websocket drops. `revalidateLoop` marks every attachment after 60 seconds
  and a silent websocket is noticed after 75, so such a shell is detached as if it had
  failed to revalidate and is closed after 30 seconds. On the model: mark, cut, detach.
- Terminal: a grace timer that has fired closes a shell although a terminal reattaches at
  that moment; after a lost hello the two ends disagree whether the output buffer was
  already replayed (`index.vue:440`, `session.go:232`).
- Upload: `submit` is not locked while `batchCheckFiles` is awaited. A second click starts
  a second run in the drawer; if one fails it stops the upload of the other
  (`index.vue:605`) and its `finally` (459) unlocks the drawer.
- Upload: after a restart of the agent a part is reclaimed only if another chunk of its
  upload arrives; a retried last chunk may then be reported as a failure although the
  file is in place. The same holds of a part whose removal failed after its upload was
  forgotten (`file.go:990-996`, `1017-1022`): a later stop of that upload returns success
  and the part stays (the exception `orphans` in `PartsAreConsistent`).
- Upload: the roll back of `finalizeUploadedFile` (945) removes whatever is at the
  destination by then, another writer's file included; when it fails too, or the agent
  stops between the link and the removal, an upload that never succeeded has its file at
  the destination (the exception `strays` in `FailedIsUndone`).
- Agent tasks: two engines of one id (a snapshot recreated while it is made) overwrite
  each other's outcome; `OutcomeIsKept` is about records without an engine.
- Router: the limits "one stream" and "concurrent requests do not pass the budget" of the
  router's README hold only while calls are shorter than the slot's TTL and ledger
  operations shorter than five seconds (`overdue` and `outlived` in the properties). A
  slot taken by a request that is cancelled before its lease names it stays taken for
  the whole TTL. A refused reservation does not keep the charges its sweep made; the
  next successful one makes them.
- A stop request finds an agent task only during its first subtask
  (`StopOnlyDuringFirstSubTask`), since `SubTask.Execute` removes the registry entry
  when it returns; the cancellation may land later. An ignored subtask with invalid
  options lets a core task succeed after its context ended (the exception stated in `CancelIsHonoured`); a failed last write
  leaves an agent record Executing until the next boot (the exception in
  `ExecutingIsTrue`).

## Proofs

Every safety property that a passing run checks is also proved with TLAPS, for every
value of the constants. The assumptions on the constants are the named `ASSUME`s of the
modules: numbers are natural, options have their types, capacities, budgets and chunk
sizes are positive, the sets a cardinality is taken of are finite, and a value that
stands for "nothing" is not one of the things it stands beside. Bounds such as
`MaxCrashes` or `MaxEvents` are arbitrary natural numbers.

**Task engines.** `CoreTask_proofs` proves, for any number of subtasks and any options,
`TypeCorrect`, `ActionsNeverOverlap` (inductive with the types), `SavedStatusIsTrue`,
`UnconfirmedIsFrozen`, `FailureUndoesCompletely` and `EngineImplementsLifecycle` (from
the inductive invariant `Ledger`), `OnlyOrdinaryErrorsIgnored` and
`CancellationIsHonoured`. None of those from `Ledger` is inductive alone: that a failed
task is undone completely when it ends depends on the list of rollbacks being exactly the
completed subtasks that have one, without repetition, while the task runs, and on the
rest of that list plus what was undone being all of them while the failure path works it
off. `Ledger` says this for each stage (`RollbackLedger`), together with the order of
subtasks (`OrderLedger`: the current one has neither completed nor been undone) and of
the status (`StatusLedger`: nothing is settled early, an unconfirmed error means Failed).
Each part is preserved by each action; the refinement maps the variables to themselves,
and `Ledger` supplies the guards of `TaskLifecycle`. `CancellationIsHonoured` is of the
form "once this, always that": `Doomed` lists every place from a context that ended
inside a subtask to the failure of the task and no step leaves it; it needs
`AttemptContext`, that a running action has been told of the end.

`AgentTask_proofs` follows the same lines for the agent: `EngineCorrect`,
`StopWindow` and `AgentImplementsLifecycle`. Its `StatusLedger` also says that a
registered cancel function means that the first subtask has not returned; that only
actions that timed out run beside the engine is inductive with the types.

`TaskTable_proofs` proves, for any set of tasks, any engines and any number of crashes,
`TableTypeCorrect`, `ExecutingRecordsHaveAnEngine` (inductive with the types, since
a crash clears `sync` with `up` and a boot sets both) and `OutcomesAreKept`.

**Compaction.** `CompactionJobs_proofs` proves `CallsAreNeverReplayed`,
`OneCallInFlight`, `DecisionsStay`, `CandidatesAreComplete` and `ChargesAreComplete` for
any jobs, workers, batches, deployments and limits. The inductive invariant has three
layers. `Rows` is about the store: one open job, one dispatched step, what each step's
state says of its calls (`StepCounts`), what a ready job rests on (`ReadySteps`).
`WorkerOK` relates the store to a worker between two transactions: the step it dispatched
is still dispatched or was abandoned by the operator, and what the provider has seen of
it follows from where the worker is. `OneHolder` says that no two workers have dispatched
the same step, although a lease may expire under a live worker: the sweep holds a job
with a dispatched step instead of queueing it again, and `claim` refuses while one is held. The charges need
more (`Paid`): a worker whose call was charged and has not left is covered by a charge of
its own, so that the refund of `not_sent_step` never takes back the charge of a call that
was sent. What the provider received is a set
of calls and a set of tokens rather than a sum, as sums are recursive and the library's
facts are about cardinality.

**Router.** `RouterLeases_proofs` begins with the ledger by itself (`BudgetSpec`), for any
finite set of requests, any positive budget, any estimate and any charges: `BudgetTypes`,
`BilledOnceHolds` and `BudgetHolds`. Neither invariant is inductive alone, since a step
writes what an earlier step prepared. The strengthening has two parts: an operation
between its read and its write holds the lock (`Holding`), so what it read is still the
ledger when it writes; and what it will write satisfies the property already
(`ViewsCovered` with the reservation it will have made, `ViewsWithin`). `LedgerStep`
reduces the eleven actions to the three things a step may do to the ledger: nothing,
prepare, write. All three hold only while no operation has outlived its lock, and the
properties say so. The pipeline refines the ledger (`PipelineUsesLedger`, with the
variables mapped to themselves), which carries both results over to it
(`PipelineBilledOnce`, `PipelineBudgetHolds`).

`CapacityIsHonoured` and `NothingIsLeftBehind` rest on `SlotsInv`: slots stay within the
capacity, whoever was granted one or leases one has it unless the lease outlasted it,
nobody is in the queue twice, and each stage of the pipeline holds what it should (`StageFits`); `Tidy`
names the one exception, a cancellation inside the acquisition. `CallsStayCovered` rests
on `CallsInv`: the reservation of a request that is upstream is in the ledger and in
whatever another request is about to write, or has aged and been charged there; only the
request itself, reserving anew, stops being aged (`StaysAged`).

**Terminal.** `Terminal_proofs` proves `ShellsAreKept`, `SessionsAndTerminalsAgree`,
`CommandRunsOnce` and `ClosesAreTrue` for any number of entries, websockets and shells.
`AgentInv` is about the agent's own state, websocket by websocket (`ConnOK`) and session by
session (`SessionOK`); it gives the first three. That a close code tells the truth spans
both ends and the frames between them (`ClientInv`): a websocket belongs to one entry and
is silent once its entry has left it, a handler is through when it has sent a close frame,
an entry and the handler of its websocket mean the same session, and a frame that says
"gone" is on its way only when the shell is.

**Upload.** `ChunkUpload_proofs` proves `PlacedFilesAreWhole`, `SuccessesAreTrue`,
`PartsStayKnown` and `FailedUploadsAreUndone` for any size of file and chunk and any number
of uploads, requests and restarts. The invariant: a part is a prefix of the file without
a hole, whatever is repeated or late, and the agent knows it or inherited it (`PartOK`);
a handler that holds an upload's lock, between its write and the end of the finalization,
is alone and has the whole part (`LockOK`); an answer on its way is true
(`AnswerOK`); a stop leaves its mark (`StopOK`); the drawer waits for its own request
(`WaitOK`).

**Archive.** `ArchiveQueue_proofs` proves `OutboxCorrect`, `ArchiveCorrect`,
`FinishedRecordsStay` and `OutboxImplementsLog`, for any finite sets of requests and
bodies and any number of events and faults. `RedisInv` is what the scripts keep among
the keys and is preserved by what each does to them (accept, remove, reorder the index).
The rest relates Redis to SQLite and to the processes: the list is what was accepted
after what was popped, each id once (`LogsOK`); the archive is ahead of the list by at
most its head, and then a receipt says so (`ArchivesOK`); the command of a call in flight
(`ApiOK`) or of one whose reply was lost (`LateOK`) is new or recognised by its id; the
entry the worker holds is the head or is archived already (`WorkerInv`), so that a second
acknowledgement removes nothing and a second application changes nothing. The refinement
maps `accepted` and `popped` to themselves and "in effect" to `Archived`, what was committed or
published.

Only model-checked, as the prover does not reason about fairness: the liveness properties
`Drains`, `Decided`, `Terminates` (of both engines), `NoZombie`, `UploadsEnd` and
`PartsAreReclaimed`. The two expected violations are counterexamples of TLC. The type
invariants of CoreTask, TaskTable and the ledger, `NothingSeriousSwallowed` and
`PipelineUsesLedger` are proved and have no run of their own.

## Plan

Done: the modules above, their runs, and a theorem for every safety property a run
checks. Next, in this order:

1. `DirectedArchive`: the local queue, fallback and flush in front of the outbox, with the
   question whether a synchronous event may overtake a queued one.
2. H3 fleet admission and dispatch.
3. Proofs of what these add, and shorter forms of the longest proofs (`CompactionJobs`,
   `ArchiveQueue`), where several actions repeat the same argument.

## Not modelled

- Most of `frontend/`: by lines it is the largest part of the repository. A third of it is
  translations (`src/lang`); nearly all the rest is request types and thin wrappers
  (`src/api`) and forms and tables that show what a request returned. It keeps no state
  that outlives a page or that another part relies on. Its protocols that span several
  messages, the terminal and the chunked upload, are modelled.
- The process monitor's store (`store/modules/process.ts`): a websocket that replaces what
  is shown; a lost or late message is corrected by the next.
- The routing policy and the measurements it uses: long pure functions of configuration
  without shared state. Accounts, history and memory: one transaction per operation.
- The rate windows of the limiter (a counter per minute), the panel's handlers beyond the
  tasks they start, H3 fleet and its clients, packaging and laboratories.
