# MetaBot in TLA+

A verification development of MetaBot, the TypeScript bridge between chat platforms
(Feishu, Telegram, Slack, WeChat, web) and coding agents (Claude, Codex, Kimi), and of
the Worker Runner service beside it. The modules model the parts of the program that
keep promises over time: jobs that must be reported, events that must reach a chat,
tasks that must fire, work that must survive a restart. Paths below are relative to
the repository; `PROJECT.json` maps every definition to the lines it stands for.

How to run, in this directory:

    tlc -workers 2 -config WorkerRunner.cfg MCWorkerRunner.tla
    tlapm WorkerRunnerProofs.tla

## 1. Inventory

| Component | State | Operations | Hard behaviour | What makes it correct |
|---|---|---|---|---|
| Worker runner (`packages/worker-runner-mcp`: `service.ts`, `store.ts`, `process-runner.ts`) | SQLite rows of jobs with a notification state; in memory the launches, wall and idle timers, callback timers; detached process groups | dispatch, abort, launch, exit, expire, deliver the callback, recover at startup | aborts and timeouts racing a launch and an exit; crash between spawn and its record; retries with backoff; quota and dedupe | one live job per key, quota, no stray process, every outcome reported, terminal is final |
| Completion notifier (`notifier.ts`) | none | one HTTP POST with a timeout | lost answers, late requests | at-least-once delivery, recognised by the receiver |
| Terminal event inbox (`src/services/terminal-event-store.ts`, `src/api/routes/worker-events-routes.ts`) | SQLite rows of events with a lease and an attempt counter; a sweep flag; a rate window | insert, lease, wake, defer, fail, exhaust; interval timer and immediate sweeps | leases that expire under a running wake; crash during a wake; a notify swallowed by a running sweep | budget counts real failures only, no double wake in one process, every event resolves |
| Task scheduler (`src/scheduler`) | maps of one-time and recurring tasks, a timer per task, one JSON file | schedule, schedule durably, update, cancel, pause, resume, fire, reload | awaits inside a recurring occurrence, deferral on busy chats, swallowed save errors, crash during execution, `setTimeout` limits | nothing pending is stranded or unsaved, a recurrence never falls silent for another's fault, at most one execution |
| Controlled restart (`src/bridge/restart-*.ts`, `src/runtime/restart-store.ts`, `bin/metabot`) | a plan file, a breadcrumb file, a ledger in SQLite, a quiesce flag and a lease in memory; a CLI process | claim, prepare, notify, lease, cancel, breadcrumb, switch, health check, recovery, continuation | three processes and three files; a CLI or a bridge that dies between any two steps; replays | the checkpoint is complete, interrupted work is continued, failed restarts continue nothing, the bridge unfreezes |
| Message bridge (`src/bridge/message-bridge.ts`) | per chat: starting and running task, a queue, a media batch with its timer, open questions inside and between turns | message, command, API task, answer, stop, flush, quiesce | a stopped task winds down beside its successor; awaits while a task is set up; a batch that meets a full queue; queue against quiesce | one task per chat, the queue is served, no message vanishes |
| Executor pool (`src/engines/claude/executor-registry.ts`, `persistent-executor.ts`) | per chat an entry with a long-lived process, its turn in flight, a park for respawns; releases under way; the bridge's subscriptions | acquire, respawn, release, evict, shut down; turn, abort, drain, crash, restart in place | a pool that changes during each await of acquire; results of aborted turns; a process that never answers; background turns | one executor per chat, no turn ended by another's result, every call ends, every executor is listened to |
| Agent team supervisor (`src/agent-teams/team-supervisor.ts`, `team-store.ts`, `run-budget.ts`) | SQLite tables of agents, tasks, mail, runs; in memory the runs in flight | tick, run, settle, stop a run or an agent, recover; the board's routes | answers that come after a stop; lanes that share a chat; refusals by a busy or quiesced bridge, by quotas, by a bot that is away; a launch that fails half-way; statuses set by hand; a crash between run and task | no task stranded, lanes isolated, late answers change nothing, every task is decided |
| Agent team governance (`src/agent-teams/governance-extension.ts`) | a second SQLite database: instances, leases of agents, audit | resolve, stop, reactivate, delete, create and dismiss agents, reap, reconcile | every operation writes to two databases in turn; loss of one of them; a reaper that one instance stops for all | the halves agree, nobody lives unleased, guests leave |
| ARC coordinator and detached supervisor (`packages/arc-mcp`: `coordinator.ts`, `official-supervisor*.ts`) | an SQLite row per run; in memory the launches and collections; files of the run: state, request, control, envelope, gates; a detached process group | start, pause, resume, cancel, decide a gate; launch, collect, recover; register, run, finalize, end on SIGTERM | two processes that write one state file; signals that follow a write; a pipeline that outlives the service; recovery by files alone | one pipeline per run, processes follow the row, the recorded end is true and stays, an end is collected |
| Engines of Codex and Kimi, session registry, async task and activity stores, peer manager, capabilities, memory and document sync, chat adapters, MetaClaw server, ARC releases and provenance, RulesPack, core server, CLI, skill hub, web UI | their own tables or none | see `PROJECT.json` | mostly input and output | not modelled, reasons in `PROJECT.json` |

How they interact:

- A chat's agent dispatches a job at the runner. The runner posts the outcome to the
  bridge's worker events route. The route commits an event; the dispatcher wakes the
  chat through `executeApiTask`; a busy chat defers the wake.
- The scheduler fires through the same `executeApiTask`. It calls `isBusy` first and
  defers; a refusal after that fails the task.
- The team supervisor starts runs through it as well, each in a chat of its own or in the
  one chat of a governed agent; a refusal is a failed run.
- Whatever has the chat runs its turn on the executor that the pool keeps for the chat,
  and stops, timeouts and evictions reach that executor from outside.
- A controlled restart sets the quiesce flag of every message bridge, which refuses
  all of these, and the new process continues the interrupted chats through
  `scheduleTaskDurably`.
- ARC's service drives its pipelines by files and signals only, so that each may outlive the
  other.
- Stops: the runner, the bridge and the CLI are separate operating system processes,
  and each may die alone.

The hazards that follow from this, with their lines and the properties that cover
them, are the "hazards" of `PROJECT.json`.

## 2. Modules

| Module | Models | Instances | Proofs |
|---|---|---|---|
| `JobPromise` | abstract promise of a dispatched job: one outcome, final, told once | | |
| `WorkerRunner` | the runner service, its store and the processes; implements `JobPromise` | `MCWorkerRunner` | `WorkerRunnerProofs` |
| `TerminalInbox` | the event store, its dispatcher, the route's limiter and the wake | `MCTerminalInbox` | `WorkerCallbackProofs` |
| `WorkerCallback` | `WorkerRunner` and `TerminalInbox` composed over an unreliable HTTP call; implements both | `MCWorkerCallback` | `WorkerCallbackProofs` |
| `TaskScheduler` | one-time and recurring tasks, timers, the file | `MCTaskScheduler` | `TaskSchedulerProofs` |
| `ControlledRestart` | CLI, bridge process, plan, breadcrumb, ledger, recovery | `MCControlledRestart` | `ControlledRestartProofs` |
| `MessageBridge` | one chat: arrivals, queue, batch, questions, executions, stops, quiesce | `MCMessageBridge` | `MessageBridgeProofs` |
| `ExecutorPool` | the registry, the executors it keeps, and `runOneTurn` on them | `MCExecutorPool` | `ExecutorPoolProofs` |
| `AgentTeams` | supervisor, run budget, team store and the bridge's answers | `MCAgentTeams` | `AgentTeamsProofs` |
| `TeamGovernance` | operations of a governed team as writes to two databases | `MCTeamGovernance` | `AgentTeamsProofs` |
| `ArcRuns` | the coordinator, the client of the detached supervisor, the supervisor and its pipeline | `MCArcRuns` | `ArcRunsProofs` |

Conventions. The services are single-threaded JavaScript, so **one action is one
synchronous stretch**: from a call, timer or promise callback to the next `await` or
return, every save and database statement included. Two stretches interleave freely,
and a crash may come between any two of them. Inside a stretch there is no crash; where
one handler saves several times the model keeps the last save. A definition whose
name ends in `_Bug` (or contains `Bug`) is not part of the specification: it is a
plausible mistake, and the runs find every property violated when it replaces the
definition after it. A variable marked "history" is read by properties only.

### WorkerRunner

`row` is the table `worker_jobs`, `launch` the coroutines of `launchWorker` with the
process they created, `active` and `timers` the maps of `WorkerService`, `sending`
the calls of `deliverNotification` that are under way, `accepted` and `posted` what the
receiver has committed and been sent. `Dispatch` is `createWorker` with its dedupe and
quota checks and the start of the launch; `Spawn`, `MarkRunning`, `AbandonProcess` and
`LaunchFails` are the stretches of `launchWorker` between its awaits; `ProcessExited`,
`ExpireRunning`, `AbortQueued` and `AbortRunning` race to settle a row; `Crash` forgets
the memory and leaves the processes; `Restart`, `RecoverJob` and `Listen` are
`startAll`, row by row, because `dispatch` is only reachable after it. Time is
abstracted: a timer that is armed may fire at any moment. The ARC scope's suppressed
report is settled together with its row. A graceful `dispose` is treated like a crash:
it clears the same timers and leaves the same rows.

### TerminalInbox

`event` is `terminal_events` with `spent` and `fresh` as history, `waking` the wake that
a sweep awaits (a set, because nothing but the sweep's own flag keeps it single: the
mutant without the flag has two), `wakeScheduled` the flag of `notify`, `recent` the rate
window. A lease runs or is over its deadline (`due`, `DeadlinePasses`), also while its
wake is awaited; rows with the same `received_at` are ordered by insertion.

### WorkerCallback

The composition. It extends `TerminalInbox` and has the runner as an instance, whose receiver
is the inbox: `Spec` is the inbox's, `CallbackSpec` that of both. `Accept` of the runner becomes `Arrive`, which is the whole route:
duplicate check, limiter, commit, answer. `answered` holds the answers on their way.
Requests and answers may be lost, delayed past the runner's timeout and repeated. The
limiter's 429 is a rejected promise for the runner.

### TaskScheduler

`tasks`, `recurring`, `timers`, `live` and `mapped` are the scheduler's maps (a
recurring task may own a timer the map no longer knows), `awaiting` the suspended
`fireRecurringInstance` calls, `disk` the JSON file. The clock is reduced to where
`executeAt` lies: reached, later, or beyond `2^31 - 1` ms. The executions of one chat
are answered nondeterministically: busy, refused, accepted. A history is shorter than
the seven days after which finished tasks are pruned. A time zone is validated by nobody:
`valid` says whether `nextCronOccurrence` finds an occurrence of a recurring task, and where
it does not, each handler ends at the statement that throws. `UpdateRecurring` and
`ResumeRecurring` have then changed memory and not saved, `LoadFromDisk` ends its loop (ids of
recurring tasks are numbers in the order of their creation, which is the order of the file),
and the continuation of an occurrence rejects a promise that nobody handles: the process is
"dying", does nothing more and goes down, with what `fireTask` had saved. Keys are given to
`scheduleTaskDurably` only, as in the repository; a call that is deduplicated changes nothing.
Skipping a task that is a day late is a nondeterministic choice; `Recheck` may find a long recurring delay over or not.

### ControlledRestart

`plan` and `crumb` are the files `controlled-restart.json` and `last-restart.json`;
`record` and `decided` are the ledger; `cont` the continuations the scheduler has
saved, by dedupe key; `cli` where each CLI is in `metabot restart`. `quiesce`, `leases`,
`notifying` and `busy` are memory of the bridge, lost with it. `fin` is the call of
`finalizeControlledRestartAfterStartup` in this process, with the recovery's own copy of
the plan (`fin.next`), which it writes back after each await. The API serves prepare
and cancel only from the finalization on (`Serving`), because `main` starts the server
and the finalization in one stretch. A notice and a card update together are one
`delivered` flag, a bot that is not registered is one that delivers and saves nothing,
and the health check is one answer. A plan expires (`PlanExpired`) only when nothing of
it is under way, because a day is longer than any of its steps. Left out: queued
messages (`processQueue` after a cancel is a `StartTask`), callers that use the API
without the CLI, requests that are prepared twice (the claim refuses a known id), and
the legacy breadcrumb without a request id.

### MessageBridge

One chat, because chats share nothing but the quiesce. `starting` and `running` are the
entries of `startingTasks` and `runningTasks`, `phase` every execution that has not
reached the end of its finally block (stopped ones included), `queue`, `batch`,
`question` and `between` the maps of the same names. `Register` and `EndSetup` are the
two ways out of the awaits of a set up, each asking `isTaskStartActive` or
`releaseTaskStart`; `Finish` is the finally block with its `ownsChat` test; whoever frees
the chat performs `processQueue` in the same step, which may reserve it for the head of
the queue. `fate` tells what became of each message: two fates are losses
the code has, and the properties name them (`dropped` by `flushBatch`) or except them
(`stranded` by `stopChatTask`). The commands other than `/stop` and `/reset` (with the pickers that ask for their
arguments), goals, cards and the clicks on them (a click answers a question as a text does,
but is no message), and the timeouts' lengths are left out; a timeout is one of the reasons for
`Finish`.

### ExecutorPool

`call` is a call of `runOneTurn`, `exec` an executor, `slot` an entry and `pool` the
registry's map in its LRU order. A call creates at most one executor and one entry,
so both bear its name. `acquire`, `Wake`, `respawnCrashed` and `Enter` are the stretches
of `acquire()` between its awaits. The microtask after `start()` comes before any timer or
message (`Quiet`); several calls of one chat exist at once because `/stop` frees the chat
while the stopped call is still being set up (`raced` remembers that, and
`OneExecutorPerChat` excepts it). `inbox` is what the process has been told or will say:
a `result` carries no turn id in the code, so `Result` ends the turn in flight, whichever
it is, and `strays` collects those it should not have ended. A retry with a fresh session
and a change of rules are `release`. A process counts as gone ten seconds after its
shutdown began, which is when the code stops waiting. An aborted turn is drained in two
stages: `InterruptEnds` is the return of the `interrupt()` that `abort()` awaits, and only
then does the timer of `drainWithTimeout` run (`timed`). Left out: questions and cards of
continuation turns, approvals, hooks. The branch of `respawnCrashed` for a spent budget
is unreachable, because no entry is parked with a spent budget. The budget is no bound on
`respawns` all the same: two calls that wait for the backoff of one parked entry each
respawn it, so the count passes `maxRespawnAttempts` (section 4).

### AgentTeams

A lane is a task, or the mail of an agent; a run is a lane and a number. `runs`, `task`,
`agent` and `unread` are tables and survive `Exit`; `calls` holds the `executeApiTask` calls
that are awaited, with what the bridge has been told of them. `StartRuns` is one agent's share
of `tick` up to the awaits, with the answers a busy or quiesced bridge gives at once;
`RecordAnswer` and `DropAnswer` are the continuation of `runAgent`, and `DieBetween` the
same with a death between its two transactions (`orphaned`). A tick gives an agent only the
runs that are `Admitted`, one lane after the other, by the quotas of its instance, and none while
it is `barred`: its team is stopped, no bot is registered for it, or the tick ends in an
exception before it. `LeakRuns` is a launch that throws between the creation of the run row and
the `try` of `runAgent`. Budgets are one decision (`ExceedBudget`). The lead and the teammates
act through the routes: `CreateTask`, `Reassign`, `SetStatus` (any status, at any time; a task
put in progress by hand is `orphaned` as well), `SendMail`, `StopRun`, `StopAgent`,
`SpawnAgent`. Left out: tasks blocked by others, digests and the lead's own inbox, and the
routes by which an administrator of an ungoverned team writes run rows.

### TeamGovernance

Every operation is the sequence of its writes, in the code's order, computed from the
databases when it begins (`Perform`) and continued write by write (`Continue`); nothing
else runs in between, but the process may die (`Crash`), also together with the loss of
the upstream database. `StartUp` and `HotReload` reconcile. `asked` remembers which status
the commands allow, `unleased` the agents that a crash left without their first lease.
The reaper asks the upstream store for the runs of every lease that ran out, of all instances
in one pass, and throws if a team is not there (`CanReap`). Of other instances the model keeps
that they can be in this state (`neighbourLost`) until somebody reactivates or deletes them
(`RestoreNeighbour`).
Names that `AgentTeams` has too differ (`StopGovernedAgent`, `GovernanceSpec`), because
one module proves facts about both; nothing else joins the two.
Left out: rules, publication of templates, authority, audit, writes that fail.

### ArcRuns

One run, because runs share nothing but the service's thread. `row` is the row of
`arc_runs`, `task` the asynchronous functions of the service (the launch, the collection,
the recovery and two tool calls), `file` the files of the run that both sides read, `gate`
the gate of the pipeline as its four files tell, `sup` the supervisor with the status that
`writeState` has read and not yet written, `group` whether the process group has been stopped
or terminated. Here one action is one write, not one stretch: inside a stretch of the
service (`Midway`) no other function of the service runs (`Turn`), but the supervisor does,
and the service may die. `Finish` is the end of each function, with `ensureCollection`.
`WriteControl` and `signalGroup` are the writes and the signals of pause, resume and cancel,
in their order. `cut` remembers a death of the service between the removal of a file and its
signal. `Readable` is `readOutput`: the envelope counts while its validation passes
(`intact`); `EnvelopeSpoiled` removes something it refers to, and the run that is then read is
failed. Left out: listing, refused parameters (one branch, `Refused`), process identity
after the reuse of a process number (the run counts as lost in both), bounded budgets.

## 3. Runs

Distinct states with the bounds below; every run is exhaustive.

| Run | States | Bounds | What it shows |
|---|---|---|---|
| `runner` | 932 000 | 2 jobs, 4 launches, quota 1, 1 crash | quota, processes, reports, dedupe, finality, and the refinement of `JobPromise` |
| `inbox` | 908 000 | 3 events, window 1, 3 attempts, 2 stops | exact retry budget, wake and lease, no fresh event waits, finality |
| `callback` | 146 000 | 1 job, 2 launches, 1 attempt, 1 crash, 1 stop of the inbox | no outcome lost, the inbox is refined by the composition, every job settles, its report is closed, its outcome reaches the chat or a visible failed event |
| `scheduler` | 1 480 000 | 2 task ids, 1 recurring task, 1 key, 2 timers, 1 failing save, 2 stops and every process end that a throw causes | nothing pending stranded, recurrences go on, promises survive, one execution |
| `restart` | 3 720 000 | 2 requests (one forced), 2 chats (one internal), 2 tasks, 1 crash besides the switches | complete checkpoint, interrupted is continued, failed is not |
| `restart_frozen` | violation | as above | finding 1 |
| `bridge` | 344 000 | 2 texts, 1 medium, 1 direct command, 1 API task, queue of 1, 2 stops | one task per chat, the queue is served, every message is served, refused visibly, or lost in a known way |
| `executors` | 455 000 | 2 calls, 2 chats, 2 versions, pool of 1, 1 respawn, 1 restart in place, 2 crashes, 1 failing start, 1 burst, 1 release | one executor per chat, turns isolated, every call ends |
| `executor_deaf` | violation | 3 calls on 1 chat | finding 2 |
| `teams` | 196 000 | 2 agents (one governed and gated), 2 tasks, 3 lanes, quotas of 2, 1 act, failed launch or death | nothing stranded, lanes isolated, no late overwrite, every task is decided |
| `governance` | 153 000 | 3 agents (one from the template), 2 crashes | halves agree, nobody unleased, guests leave |
| `arc` | 179 000 | 1 run, 2 tool calls at a time, 3 faults | one pipeline, processes follow the row, ends are true, every end is collected |

Why the bounds are enough to be interesting. Two jobs are what quota, dedupe and
ownership conflicts are about, and four launches leave room for a relaunch of each after
the crash; a third job of a key, the case in which an older row hides behind the
latest, is covered by the proof of `OneLiveJobHolds`. Three events and a window of one leave
two to be refused; three attempts separate the first, a middle and the last. Two requests
of a restart are needed for one to overwrite the other's plan, one of them forced so that
an unprepared restart happens too; two tasks so that one can start after the other's
checkpoint; one crash on top of the switches so that a recovery is replayed. In the
bridge, a queue of one makes it full behind a running task, and two stops leave two
executions winding down beside a third. A pool of one makes two chats evict each other,
two versions make an acquire release first. Two tasks give an agent parallel lanes, and the
single bounded event may be any stop, message, reassignment, quiesce or death, a status set by
hand, a launch that fails or a bot that leaves, at any moment; unbounded are the answers and the
ticks. Quotas of two under three lanes refuse a run after a launch that failed; with a finite
number of tasks the one that waits gets its turn when nothing else is pending, so the run does
not tell whether an endless supply of tasks for one agent starves another. One recurring task is
enough for what may silence it; what one that throws does to another in `loadFromDisk` is covered
by the proof of `RecurrenceHolds`. Two crashes in governance let an
operation die, and the reconciliation of the next start die as well. Two tool calls of ARC
let a cancel wait beside a resume or a second cancel, and three faults let the service die
twice around the death of its supervisor. Deadlock is not
checked anywhere: with their bounds used up and all work done these systems may stop.
Symmetry (jobs, launches, tasks) is used in runs without liveness only.

Fairness, assumed only in the runs with liveness: timers, immediates and promise callbacks
of a living process eventually run (weak fairness of one action each), a stopped service is
started again by its supervisor, and launches are answered. It is *not* assumed that a
job's or an agent's process exits or answers by itself, that anybody aborts, or that
services stop. By module:

- `WorkerCallback`. Strong fairness in two places: a callback that is
  made again and again is one time committed and its answer heard (the peer is not down
  for ever), and a wake that is made again and again does not find its chat busy each
  time. Both are statements about the outside world the code's endless retries rely
  on; without the first, `EveryOutcomeReported` fails, and rightly.
- `MessageBridge`. A set up ends, a stream ends (wall and idle timeout), the debounce timer
  fires, a prepared restart that does not come is cancelled (its lease).
- `ExecutorPool`. The timers of backoff, shutdown and drain, and the bridge's timeout that
  aborts a turn. Of the Claude process nothing is assumed: it may stay silent for ever, and
  leave an interrupt unanswered.
- `AgentTeams`. The tick, the end of each call of the bridge, exit and start. Nothing of
  the lead, of who sets statuses by hand, or of a bot that left.
- `TeamGovernance`. An operation that began goes on, a dead process is started, and the
  supervisor's timer comes round between commands (strong, because each command disables
  it for as long as it runs). Nothing of whoever could repair another instance.

- `ArcRuns`. Timers and promises of the service, its next start, and the supervisor while it
  is not stopped. Nothing of the pipeline, which may run for ever, and nothing of the users.

## 4. Findings

1. `restart_frozen`: the recovery writes its copy of the plan over the plan of a request
   that was prepared after the first one's CLI had cancelled. The lease of the second
   request then finds a foreign plan and returns, and nothing is left to release the
   quiesce.
2. `executor_deaf`: an executor that replaces one whose idle shutdown is under way, or that
   is respawned after a crash, gets no handlers for what its agent does between turns,
   because the chat still counts as subscribed.

Seen while modelling, without a run of their own (the models have the behaviour, and the
properties that it touches except it by name):

- `abortDrainTimeoutMs` calls itself "the safety net that keeps a missing result from wedging
  all future turns" (`persistent-executor.ts:191`), but the timer that clears an aborted turn by
  force is started only when `interrupt()` has returned (lines 676 and 736). A process that
  answers nothing at all pins the turn, and its chat is refused every next one.
- A recurring task takes any time zone (`task-routes.ts:644`), and `nextCronOccurrence` throws
  for one that does not exist, after `updateRecurring` has cleared the timer
  (`task-scheduler.ts:319`) or `resumeRecurring` has set the status (line 349): the task is
  active and silent. An occurrence of it that is under way ends the process (line 579, in a
  promise that nobody handles). The loop of `loadFromDisk` ends there too (lines 685 and 698),
  so that a restart does not restore the recurring tasks created later, which a test says it
  does (`task-scheduler-recurring.test.ts:247`), and the next save removes them from the file.
- The teams' guide says that the supervisor marks crashed executions as failed, stores the error
  and returns the agent to idle (`docs/features/agent-teams.md:62`). A launch that throws after
  its run row was created (`team-supervisor.ts:280`: a pinned RuleSet that is gone or changed)
  is only logged. The row stays running, the task pending, and each tick adds a row, until the
  agent's runs or the quota of the instance are used up (`Clogged`).
- After the loss of the upstream database an instance that was stopped is not recreated
  (`governance-extension.ts:748`), although the guide says of startup that it "recreates missing
  upstream rows" (`agent-team-governance-extension.md:46`). A lease of it that ran out makes
  `reapExpired` throw (line 966), for every instance, until somebody reactivates or deletes it.
  The supervisor's tick begins with the reaper, so no agent of any team gets a run either.
- `cancelRecurring` promises to "also cancel any pending child task"
  (`task-scheduler.ts:369`), but a child that a busy chat deferred has been unlinked from its
  recurring task by the continuation of `fireRecurringInstance` (line 576), and is executed
  later. `TaskScheduler` has that behaviour.
- ARC's `arc_run_cancel` is described as "Idempotently cancel a queued, running, or paused"
  run (`server.ts:119`). A cancel of a queued run while its start is awaited closes the row;
  `startQueued` then returns (`coordinator.ts:322`) and the pipeline it has started runs on,
  with no handle to stop it. `ArcRuns` has that behaviour; `PipelineFollowsRow` is about rows
  with a handle.
- The same module has these: a service that dies between the removal of the control file and
  SIGCONT leaves a pipeline stopped that the next resume does not continue
  (`official-supervisor.ts:253`); a supervisor that dies without a terminal state leaves a row
  that can neither end nor be cancelled, because `status` throws in both; a run whose
  supervisor was never registered can never be started again (line 355); a recovery at a
  gate makes the row paused and collects nothing until somebody resumes; a registration that
  comes late and a second start of the run end as "cancelled" although nobody asked.
- `maxRespawnAttempts` is documented as "Max registry-level respawns of a crashed executor
  before its pool slot is truly removed" (`executor-registry.ts:69`). The limit is looked at
  before the backoff (line 404) and the count raised after it (line 423), so that two calls
  of a chat that both wait may pass it; the entry is then in use with more respawns than
  the maximum. `ExecutorPool` has that behaviour.
- `setTimer` (`task-scheduler.ts:409`) does not clamp its delay as `setRecurringTimer` does;
  a one-time task more than 2^31 - 1 ms ahead is executed at once. `TaskScheduler` has
  that step.
- The branch of `recoverControlledRestartAfterStartup` (`restart-recovery.ts:56`) for a CLI
  that died before its breadcrumb is never reached, because its only caller returns first
  when there is no breadcrumb. The interrupted work is not continued, and the plan stays
  prepared, which refuses other requests until it is a day old. `ControlledRestart` has
  that behaviour; its properties are about requests that reach the recovery.
- Losses that properties except by name: a media batch flushed into a full queue or into a
  quiesced bridge, the queue behind a task that `stopChatTask` stops, a task whose run was
  closed by a process that died before it closed the task or that a hand put in progress, an
  agent whose `createAgent` was
  cut short before its lease.

## 5. Theorems

All proofs are for arbitrary constants: any numbers of jobs, launches, scopes, keys,
requests, chats, crashes, and any quota. They rest on the modules' named assumptions
(an absent id is not an id, bounds are numbers, a request's chat is a chat).

- `WorkerRunnerProofs`. `TypeOKHolds`; `QuotaHolds`; `OneLiveJobHolds`; `IdempotenceHolds`.
  Dispatch consults only the row with the highest rowid of a key, so `OneLiveJobPerKey`
  is not inductive: `KeyInv` adds that rowids grow (`RowidsBounded`) and that a live row is
  the latest of its key (`LiveIsLatest`), so that every older one is terminal. The quota
  is a cardinality argument on the rows of one scope.
  `NoReportStranded`, `ReportsHold`, `TerminalHolds`: while the service restarts, `todo`
  holds the rows that recovery has still to visit. `RecoveryInv` says that nothing in
  memory refers to them, and `ReportInv` makes its claim, every outstanding report has a
  timer or a call, of the others. `TerminalHolds` is an action property from the same
  invariant. `NoStrayHolds` and `RunningOwnedHolds` rest on `OwnershipInv`: a job has one
  launch per lifetime of the service (`OneLaunchPerService`), every living process is watched, just created or
  being killed (`ProcessesHeld`), and the launch in memory is that of the row, but for rows
  recovery has still to visit (`MemoryAgrees`). `PromiseHolds` is the
  refinement of `JobPromise`, step by step (`PromiseStep`): a step of the runner opens a
  job, closes it, records its report or does none of these, never two.
- `WorkerCallbackProofs`. The composition implements both parts: `InboxHolds` (the
  specification of the inbox) and `RunnerImplemented` (that of the runner, whose receiver is
  the route). A step of one part is a step of the other or none of its business; the
  exception is `Arrive`, which is `Accept` for one and `Insert` for the other. `AnsweredInv`,
  an answer under way belongs to a call under way that was accepted, is what makes a late or
  lost answer a step of the runner's `sending`. `OutcomesHold` then needs no induction of its
  own: it is `ReportsHold`, carried over by the refinement.
  The module proves first what the inbox does by itself, from `Spec` of `TerminalInbox`
  alone: `BudgetHolds`, `WakeHolds`, `FreshHolds`, `ResolvedHolds` and
  the type invariant, from one invariant. It has two levels: each statement of the store keeps a
  row `Sound` (its budget counted, a fresh row untouched), and a sweep, which changes many
  rows and leases one, keeps the table sound and the new wake on its lease
  (`LeaseNextStep`). `WakeHoldsLease` needs `OneWake`; `NoFreshEventWaits` needs that a fresh
  row is leasable, so that a sweep that ends leaves none. With `InboxHolds` they are true of
  the composition too.
- `TaskSchedulerProofs`. `TimerInv` is inductive: besides the two claims about timers it
  needs `Linked` (an occurrence that is awaited is a task in memory, `live` counts timers of
  recurring tasks in memory only, a scheduler that is down has no memory; ids of tasks in
  memory and in the file were given out once and carry their key). Every step is a change of
  the tables with one save, or with none where a handler throws (`Writes`), or touches neither
  (`StepKinds`), so the claims about the file are one lemma each: `RecurrenceHolds` and
  `SavedHolds` except the recurring tasks that made something throw, and only those; `SavedInv`
  and `PromisedInv` add nothing to what they claim; `ExecutionInv` needs `KeyInv`, that table
  and file alike keep one task per key and remember what has begun, so that a reload after a
  crash runs nothing again.
- `ExecutorPoolProofs`. Three invariants, each on top of the one before. `PoolInv`: an entry
  holds an executor whose call has had it, the pool has one entry per chat (`Apart`), a
  call before its start has no executor. `IsolationInv`: until it gives up on a drain or a
  background task speaks up, a process has been told of the turn in flight and of nothing
  else (`Isolated`), so the result that comes is the turn's own. `SingleInv`: of a chat whose
  calls did not race, at most one call acquires, its executor is in the pool or about to
  be put there, and `Waits` says what that call may rely on at each of its awaits. Most steps
  give a chat nothing (`Untouched`, `SingleKept`); for the chat of the call that acquires,
  the call itself says it all (`OwnSingle`). The steps of `acquire()` share one lemma for the
  executor it creates (`CreateSingle`), the end of each wait being one use of it.
- `ControlledRestartProofs`. `TypeOKHolds` needs `Linked`: who is in a file or in the
  finalization has a CLI past its prepare, so that a decided request never gets a
  breadcrumb again. `CheckpointHolds` needs `AwaitCovers`: the list a waiting prepare
  holds still has every busy chat, and a request that is being finalized does not hold
  the quiesce. `FailedHolds` shows that a verdict of the ledger is never taken back
  (`LedgerStep`) and that only a healthy one continues anything.
  `InterruptedHolds`: the invariant `Handoff` is about *a copy* of
  a plan (its active chats contain what its request interrupted, a recovered chat has a
  verdict and, if that is healthy, its continuation) and holds of the file and of the
  recovery's copy alike, so that either may overwrite the other. It needs the three
  results before it.
- `MessageBridgeProofs`. `TypeOKHolds`, `OneTaskHolds`, `QueueHolds`. The three are inductive
  together; the argument is in `Reservation` and `Handover`: a chat is only ever given to a
  task while every other execution has been stopped, and whoever frees it either serves the
  queue or finds it empty.
- `ArcRunsProofs`. `PipelineHolds`, `EndsHold` and the type invariant, for any number of
  tool calls at a time and of faults. The service and the supervisor see each other through
  files only, so the invariant says what the files tell: `OneSupervisor` (nothing of a run
  exists before its one supervisor, and a directory with a request is not opened again),
  `EndsMatch` (a finished state file means that the supervisor is gone, and the envelope was
  written before), `Signalled` (a file that asks for a signal has been followed by it, or a
  call is about to send it, or `cut`). `EndsHold` says what the validation allows: a run fails
  against its envelope only if that does not validate any more. The invariant is inductive because only one function of the
  service is in the middle of a turn (`CallMoves`, `NoneMidway`); a step of the supervisor
  is one lemma (`SupervisorGoesOn`), whatever it writes. That an end stays needs no
  invariant (`OverStays`): it is the first thing `synchronizeRunnerState` looks at.
- `AgentTeamsProofs`. `TypeOKHolds`, `StrandedHolds`, `IsolationHolds`, `LateHolds`, from
  `TeamInv`, for any number of agents, tasks and parallel runs. `NoTaskStranded` is about a
  process that is up; `Worked` makes its claim of every mode, so that the next start, which
  closes the running rows and puts their tasks back, finds a row for each task in progress that
  is not `orphaned`. A row that a failed launch left harms neither.
  `Linked` says that a call that executes is that of a running row: a stop of the run
  stops the chat in the same stretch, hence an agent without running rows has a free chat
  (`AnswerBusy`). An agent without a chat per lane starts one lane (`LoneLane`), so that no two
  of one tick meet either. `NoLateOverwrite` follows from the same steps (`Decided`).
- `AgentTeamsProofs`, second part: `GovernanceTypeOKHolds`, `AgreeHolds`, `UnleasedHolds`,
  for any template, any finite set of names, any quotas and any number of crashes. Both claims
  are about a process with nothing left to do, so neither is inductive. What is left of an
  operation has one of eleven forms (`Plan`), and each says what the databases must be like
  for the rest to end well: a stop is past its team or not, a new instance is founded on a team in
  which nobody but its template lives, and every lease that will be recycled is that of an agent that
  is halted before. One lemma per form shows that its first write leaves a plan
  (`PlanGoesOn`), one per action that what it begins is a plan. Two things hold in the
  middle of every plan, because a crash may leave it there: an active row was
  asked for (`Guarded`), and whoever lives without a lease is on the list (`Covered`; in the
  form `Leases`, between the agent and its lease, all but that agent). They are
  all that `reconcile` needs (`Reconciling`). TLC checked the invariant first.

Only model-checked: liveness. Liveness and ENABLED are beyond the prover. The type invariants
of the modules (but for `JobPromise` and `WorkerCallback`, which state none of their
own) are theorems and not part of a run. `RunningIsOwned` and `PendingIsSaved` are theorems and not part of a run.

The attempt to prove the type invariant of `ExecutorPool` corrected it: it claimed a bound on
respawns that two racing calls exceed.

## 6. Not modelled

- Contents: prompts, cards, outputs, labels, error texts, signatures, capabilities.
- Lengths of time: backoffs, leases and timeouts are armed or over.
- Failures of SQLite itself, and the lock on the runner's data directory.
- The arithmetic of the busy-retry policy and of cron expressions (plan, step 2).
- Of the modelled components, what their sections above leave out.
- The components `PROJECT.json` lists as not modelled, with the reason for each. They are
  most of the repository by size: request handlers and queries of the core server and its
  memory store, the web UI, the CLI, the translation of engine streams, adapters of chat
  platforms, RulesPack compilation. They hold little state that outlives a call or meets a
  second actor, and a model of them would restate their statements. The modules here cover
  the parts whose order of events matters.

## 7. Plan

Done: runner, inbox, their composition, scheduler, controlled restart, message bridge,
executor pool, agent teams, governance, ARC runs; the proofs above.

1. An abstract specification of a durable handoff (work is interrupted, then continued
   or given up visibly) that `ControlledRestart` implements, and a run for "queues
   exactly one continuation turn" (`docs/reference/cli-metabot.md`): two key formats
   (`restart-resume:<request>` and the same with a participant) let the requester be
   continued twice after a partial recovery, a cancel, the plan of another request and a
   crash.
2. A module of pure operators for `busy-retry-policy.ts` and `cron-utils.ts`, checked
   against reference definitions.
3. `MessageBridge` composed with `ControlledRestart` and with `TaskScheduler`: a scheduled
   task that a quiesced bridge refuses.
