---------------------------- MODULE WorkerRunner ----------------------------
(***************************************************************************)
(* The durable job runner of packages/worker-runner-mcp.                   *)
(*                                                                         *)
(* A job is a row of the SQLite table worker_jobs.  WorkerService.dispatch *)
(* inserts it as "queued" and starts the asynchronous launchWorker, which  *)
(* spawns a detached CLI process and then marks the row "running".  Abort, *)
(* timeout, exit of the process and restart of the service race to make    *)
(* the row terminal, and the terminal row is reported to the bridge by a   *)
(* retried callback.                                                       *)
(*                                                                         *)
(* One action is one synchronous stretch of the service's event loop: the  *)
(* code between two awaits, or one timer or event handler.  `row' survives *)
(* a crash of the service, operating-system processes survive it too, and  *)
(* everything else is memory that the crash clears.                        *)
(***************************************************************************)
EXTENDS Naturals, FiniteSets

CONSTANTS
    Worker,      \* job ids (randomUUID): every dispatch takes a fresh one
    Launch,      \* launch ids (randomUUID): every launchWorker call takes a fresh one
    NoLaunch,    \* the NULL of column launch_id, and an id without an active launch
    Scope,       \* bot/chat pairs
    ArcScope,    \* the scopes of the ARC service principal
    Key,         \* dedupe keys, each with the digest of its RulesPack grant
    NoKey,       \* a dispatch without a dedupe key
    Request,     \* the inputs that callers of dispatch may present
    MaxConcurrentPerScope,
    MaxCrashes   \* bound on the stops of the service, for model checking only

ASSUME NoLaunchAssumption == NoLaunch \notin Launch
ASSUME QuotaAssumption    == MaxConcurrentPerScope \in Nat
ASSUME CrashAssumption    == MaxCrashes \in Nat
ASSUME RequestAssumption  ==
    Request \subseteq [scope : Scope, key : Key \cup {NoKey},
                       relaunch : BOOLEAN, retryTerminal : BOOLEAN]

VARIABLES
    row,        \* table worker_jobs, a function on the ids inserted so far
    launch,     \* launchWorker calls and their processes, on the launch ids made so far
    active,     \* WorkerService.active: the launch this service owns for a job
    killing,    \* launches whose process group is being signalled by safeAbort
    timers,     \* WorkerService.notificationTimers
    sending,    \* deliverNotification calls suspended in notifier.notify
    posted,     \* jobs for which a callback request was made (external: the network)
    accepted,   \* jobs whose callback the receiver has committed (external)
    mode,       \* "up", "down" or "recovering"
    todo,       \* rows that startAll has still to reconcile
    crashes

memory == <<active, killing, timers, sending>>
receiver == <<posted, accepted>>
service == <<mode, todo, crashes>>
vars == <<row, launch, memory, receiver, service>>

-----------------------------------------------------------------------------

Live     == {"queued", "running"}
Terminal == {"completed", "failed", "timed_out", "aborted", "recovery_required"}

Row == [request : Request, rowid : Nat, status : Live \cup Terminal,
        launchId : Launch \cup {NoLaunch},
        notification : {"pending", "sending", "delivered", "failed"}]

\* "starting": awaiting rulesPackProvider.prepare or runner.launch; "spawned":
\* runner.launch has a pid; "watching": completion.then is registered; "ended":
\* returned, or caught its error; "lost": the service that made the call has stopped.
LaunchRecord == [worker : Worker,
                 coroutine : {"starting", "spawned", "watching", "ended", "lost"},
                 process : {"none", "alive", "exited"}]

Jobs         == DOMAIN row
Launches     == DOMAIN launch
IsLive(w)    == row[w].status \in Live
IsArc(w)     == row[w].request.scope \in ArcScope
LiveIn(s)    == {w \in Jobs : IsLive(w) /\ row[w].request.scope = s}

\* Every row, launch record and set of ids has its type; a callback is committed only
\* if it was sent.
TypeOK ==
    /\ Jobs \subseteq Worker     /\ row \in [Jobs -> Row]
    /\ Launches \subseteq Launch /\ launch \in [Launches -> LaunchRecord]
    /\ active \in [Worker -> Launch \cup {NoLaunch}]
    /\ killing \subseteq Launches
    /\ timers \subseteq Jobs
    /\ sending \subseteq Jobs
    /\ posted \subseteq Jobs
    /\ accepted \subseteq posted
    /\ mode \in {"up", "down", "recovering"}
    /\ todo \subseteq Jobs
    /\ crashes \in Nat

Init ==
    /\ row = [w \in {} |-> {}]
    /\ launch = [l \in {} |-> {}]
    /\ active = [w \in Worker |-> NoLaunch]
    /\ killing = {}
    /\ timers = {}
    /\ sending = {}
    /\ posted = {}
    /\ accepted = {}
    /\ mode = "up"
    /\ todo = {}
    /\ crashes = 0

-----------------------------------------------------------------------------
(* Steps shared by the handlers.  A definition whose name ends in _Bug is  *)
(* not part of the model: it is the plausible mistake that the property it *)
(* is paired with must catch, and stands before the definition it changes. *)

\* launchWorker up to its first await: a fresh launch id, and the call is suspended.
StartLaunch(w) ==
    \E l \in Launch \ Launches :
        launch' = [m \in Launches \cup {l} |->
                     IF m = l THEN [worker |-> w, coroutine |-> "starting", process |-> "none"]
                              ELSE launch[m]]

\* scheduleNotification of a row whose report is outstanding: an ARC job is
\* suppressed at once, any other gets a timer.
Scheduled(w, state) == IF IsArc(w) THEN "delivered" ELSE state

ScheduleTimer_Bug(w) == UNCHANGED timers
ScheduleTimer(w) == timers' = IF IsArc(w) THEN timers ELSE timers \cup {w}

\* markTerminal or markRecoveryRequired, and the scheduleNotification after it.
Settle(w, status) ==
    /\ row' = [row EXCEPT ![w].status = status, ![w].launchId = NoLaunch,
                          ![w].notification = Scheduled(w, "pending")]
    /\ ScheduleTimer(w)

\* finishQueued and finishRunning: the conditional UPDATE of markTerminal.
FinishQueued_Bug(w, status) == UNCHANGED <<row, timers>>
FinishQueued(w, status) ==
    IF row[w].status = "queued" THEN Settle(w, status) ELSE UNCHANGED <<row, timers>>

Owns_Bug(w, l) == launch[l].worker = w
Owns(w, l) == row[w].status = "running" /\ row[w].launchId = l

FinishRunning(w, l, status) ==
    IF Owns(w, l) THEN Settle(w, status) ELSE UNCHANGED <<row, timers>>

-----------------------------------------------------------------------------
(* Dispatch: one SQLite transaction, then launchWorker.                     *)

Matching(r) == {w \in Jobs : /\ row[w].request.scope = r.scope
                             /\ row[w].request.key = r.key}

\* ORDER BY created_at DESC, rowid DESC: rows get their created_at in the order of their rowids.
Latest(r) == CHOOSE w \in Matching(r) : \A v \in Matching(r) : row[v].rowid <= row[w].rowid

\* shouldReuseDedupe on the latest row of the key.  Whether a completed result is
\* younger than the caller's TTL is the clock's answer, withinTtl.
Reuses_TtlFirstBug(r, withinTtl) ==
    /\ r.key # NoKey
    /\ Matching(r) # {}
    /\ \/ IsLive(Latest(r))
       \/ IF row[Latest(r)].status = "completed" THEN withinTtl ELSE ~r.retryTerminal

Reuses(r, withinTtl) ==
    /\ r.key # NoKey
    /\ Matching(r) # {}
    /\ \/ IsLive(Latest(r))
       \/ ~r.retryTerminal
       \/ row[Latest(r)].status = "completed" /\ withinTtl

HasQuota_Bug(s) ==
    Cardinality({w \in LiveIn(s) : row[w].status = "running"}) < MaxConcurrentPerScope
HasQuota(s) == Cardinality(LiveIn(s)) < MaxConcurrentPerScope

NewRow(r) == [request |-> r, rowid |-> Cardinality(Jobs) + 1, status |-> "queued",
              launchId |-> NoLaunch, notification |-> "pending"]

Dispatch(w, r, withinTtl) ==
    /\ mode = "up"
    /\ w \notin Jobs
    /\ ~Reuses(r, withinTtl)
    /\ HasQuota(r.scope)
    /\ row' = [v \in Jobs \cup {w} |-> IF v = w THEN NewRow(r) ELSE row[v]]
    /\ StartLaunch(w)
    /\ UNCHANGED <<memory, receiver, service>>

-----------------------------------------------------------------------------
(* launchWorker after its awaits.                                           *)

\* The operating system has started the detached process; runner.launch resolves.
Spawn(l) ==
    /\ launch[l].coroutine = "starting"
    /\ launch' = [launch EXCEPT ![l].coroutine = "spawned", ![l].process = "alive"]
    /\ UNCHANGED <<row, memory, receiver, service>>

\* prepare or launch rejects, and catch calls finishQueued.
LaunchFails(l) ==
    /\ launch[l].coroutine = "starting"
    /\ launch' = [launch EXCEPT ![l].coroutine = "ended"]
    /\ FinishQueued(launch[l].worker, "failed")
    /\ UNCHANGED <<active, killing, sending, receiver, service>>

\* markRunning, conditional on the row still being queued and unowned; the loser
\* of the race kills the process it has just created.
ClaimsRow(w) == row[w].status = "queued" /\ row[w].launchId = NoLaunch

AbandonProcess_Bug(l) == UNCHANGED killing
AbandonProcess(l) == killing' = killing \cup {l}

MarkRunning(l) ==
    LET w == launch[l].worker IN
    /\ launch[l].coroutine = "spawned"
    /\ IF ClaimsRow(w)
         THEN /\ row' = [row EXCEPT ![w].status = "running", ![w].launchId = l]
              /\ active' = [active EXCEPT ![w] = l]
              /\ launch' = [launch EXCEPT ![l].coroutine = "watching"]
              /\ UNCHANGED killing
         ELSE /\ launch' = [launch EXCEPT ![l].coroutine = "ended"]
              /\ AbandonProcess(l)
              /\ UNCHANGED <<row, active>>
    /\ UNCHANGED <<timers, sending, receiver, service>>

-----------------------------------------------------------------------------
(* The four ways out of running.                                            *)

\* processExited: a late completion finds another status or launch id, and only
\* clears what is its own.
ProcessExited(l, status) ==
    LET w == launch[l].worker IN
    /\ launch[l].coroutine = "watching"
    /\ launch[l].process = "exited"
    /\ launch' = [launch EXCEPT ![l].coroutine = "ended"]
    /\ active' = [active EXCEPT ![w] = IF @ = l THEN NoLaunch ELSE @]
    /\ FinishRunning(w, l, status)
    /\ UNCHANGED <<killing, sending, receiver, service>>

\* expireRunning: the wall or the idle timer, which exist while the launch is active.
ExpireRunning(w) ==
    /\ active[w] # NoLaunch
    /\ active' = [active EXCEPT ![w] = NoLaunch]
    /\ killing' = killing \cup {active[w]}
    /\ FinishRunning(w, active[w], "timed_out")
    /\ UNCHANGED <<launch, sending, receiver, service>>

AbortQueued(w) ==
    /\ mode = "up"
    /\ w \in Jobs /\ row[w].status = "queued"
    /\ FinishQueued(w, "aborted")
    /\ UNCHANGED <<launch, active, killing, sending, receiver, service>>

\* abort of a running row: an owned launch is stopped, one that this service does
\* not own is never signalled and needs manual recovery.
AbortRunning(w) ==
    /\ mode = "up"
    /\ w \in Jobs /\ row[w].status = "running"
    /\ IF active[w] = row[w].launchId
         THEN /\ active' = [active EXCEPT ![w] = NoLaunch]
              /\ killing' = killing \cup {active[w]}
              /\ Settle(w, "aborted")
         ELSE /\ Settle(w, "recovery_required")
              /\ UNCHANGED <<active, killing>>
    /\ UNCHANGED <<launch, sending, receiver, service>>

\* safeAbort: SIGTERM, then SIGKILL after the grace period, to the process group.
Kill(l) ==
    /\ l \in killing
    /\ killing' = killing \ {l}
    /\ launch' = [launch EXCEPT ![l].process = "exited"]
    /\ UNCHANGED <<row, active, timers, sending, receiver, service>>

\* A process ends on its own, whether or not the service is there to see it.
Exit(l) ==
    /\ launch[l].process = "alive"
    /\ launch' = [launch EXCEPT ![l].process = "exited"]
    /\ UNCHANGED <<row, memory, receiver, service>>

-----------------------------------------------------------------------------
(* Reporting the outcome: deliverNotification.                              *)

Outstanding(w) == ~IsLive(w) /\ row[w].notification \in {"pending", "failed"}

\* The timer fires and claimNotification marks the row; a missed claim schedules again.
ClaimNotification(w) ==
    /\ w \in timers
    /\ IF Outstanding(w)
         THEN /\ row' = [row EXCEPT ![w].notification = "sending"]
              /\ timers' = timers \ {w}
              /\ sending' = sending \cup {w}
              /\ posted' = posted \cup {w}
         ELSE /\ timers' = IF row[w].notification \in {"pending", "failed"}
                           THEN timers ELSE timers \ {w}
              /\ UNCHANGED <<row, sending, posted>>
    /\ UNCHANGED <<launch, active, killing, accepted, service>>

\* The receiver commits the callback: a request that was made may arrive at any later
\* time, after its sender has timed out or stopped.
Accept(w) ==
    /\ w \in posted
    /\ w \notin accepted
    /\ accepted' = accepted \cup {w}
    /\ UNCHANGED <<row, launch, memory, posted, service>>

\* notifier.notify resolves on a 2xx answer, which the receiver sends after its commit.
NotifyResolves_Bug(w) == w \in sending
NotifyResolves(w) == w \in sending /\ w \in accepted

RecordDelivered(w) ==
    /\ row' = [row EXCEPT ![w].notification = "delivered"]
    /\ sending' = sending \ {w}
    /\ UNCHANGED <<launch, active, killing, timers, receiver, service>>

MarkDelivered(w) == NotifyResolves(w) /\ RecordDelivered(w)

\* notify rejects: the retry is due after the backoff, whose length is abstracted.
MarkFailed(w) ==
    /\ w \in sending
    /\ row' = [row EXCEPT ![w].notification = Scheduled(w, "failed")]
    /\ ScheduleTimer(w)
    /\ sending' = sending \ {w}
    /\ UNCHANGED <<launch, active, killing, receiver, service>>

-----------------------------------------------------------------------------
(* Stop and restart of the service.                                         *)

\* A crash, or dispose: memory is gone, detached processes and rows stay.
Crash ==
    /\ mode # "down"
    /\ crashes < MaxCrashes
    /\ mode' = "down"
    /\ crashes' = crashes + 1
    /\ active' = [w \in Worker |-> NoLaunch]
    /\ killing' = {}
    /\ timers' = {}
    /\ sending' = {}
    /\ todo' = {}
    /\ launch' = [l \in Launches |-> [launch[l] EXCEPT !.coroutine = "lost"]]
    /\ UNCHANGED <<row, receiver>>

Restart ==
    /\ mode = "down"
    /\ mode' = "recovering"
    /\ todo' = Jobs
    /\ UNCHANGED <<row, launch, memory, receiver, crashes>>

RestartCandidate_FailedBug(w) == row[w].status # "completed"
RestartCandidate(w) == IsLive(w)

\* resetInterruptedNotifications turns an interrupted "sending" into "failed".
ResetInterrupted_Bug(state) == state
ResetInterrupted(state) == IF state = "sending" THEN "failed" ELSE state

\* recoverScope on one row.
RecoverJob(w) ==
    /\ mode = "recovering"
    /\ w \in todo
    /\ todo' = todo \ {w}
    /\ \/ /\ RestartCandidate(w) /\ row[w].request.relaunch
          /\ row' = [row EXCEPT ![w].status = "queued", ![w].launchId = NoLaunch]
          /\ StartLaunch(w)
          /\ UNCHANGED timers
       \/ /\ RestartCandidate(w) /\ ~row[w].request.relaunch
          /\ Settle(w, "recovery_required")
          /\ UNCHANGED launch
       \/ /\ ~RestartCandidate(w)
          /\ LET state == ResetInterrupted(row[w].notification) IN
             IF ~IsLive(w) /\ state \in {"pending", "failed"}
               THEN /\ row' = [row EXCEPT ![w].notification = Scheduled(w, state)]
                    /\ ScheduleTimer(w)
               ELSE UNCHANGED <<row, timers>>
          /\ UNCHANGED launch
    /\ UNCHANGED <<active, killing, sending, receiver, mode, crashes>>

\* startAll has returned and the server listens.
Listen ==
    /\ mode = "recovering"
    /\ todo = {}
    /\ mode' = "up"
    /\ UNCHANGED <<row, launch, memory, receiver, todo, crashes>>

-----------------------------------------------------------------------------

LaunchStep(l) ==
    \/ Spawn(l)
    \/ LaunchFails(l)
    \/ MarkRunning(l)
    \/ \E status \in {"completed", "failed"} : ProcessExited(l, status)
    \/ Kill(l)
    \/ Exit(l)

JobStep(w) ==
    \/ \E r \in Request, withinTtl \in BOOLEAN : Dispatch(w, r, withinTtl)
    \/ AbortQueued(w)
    \/ AbortRunning(w)
    \/ ExpireRunning(w)
    \/ ClaimNotification(w)
    \/ RecoverJob(w)

CallbackStep(w) ==
    \/ Accept(w)
    \/ MarkDelivered(w)
    \/ MarkFailed(w)

Next ==
    \/ \E l \in Launches : LaunchStep(l)
    \/ \E w \in Worker : JobStep(w) \/ CallbackStep(w)
    \/ Crash
    \/ Restart
    \/ Listen

Spec == Init /\ [][Next]_vars

-----------------------------------------------------------------------------
(* What must hold.                                                          *)

\* The queued and running jobs of a bot/chat never exceed its quota, through
\* dispatches that race launches, aborts, restarts and relaunches (createWorker).
QuotaRespected ==
    \A s \in Scope : Cardinality(LiveIn(s)) <= MaxConcurrentPerScope

\* At most one job of a dedupe key is queued or running at any time, although
\* only the latest row of the key is consulted (createWorker, shouldReuseDedupe).
OneLiveJobPerKey ==
    \A v, w \in Jobs :
        /\ row[v].request.scope = row[w].request.scope
        /\ row[v].request.key = row[w].request.key
        /\ row[v].request.key # NoKey
        /\ IsLive(v) /\ IsLive(w)
        => v = w

\* A caller that declares retryTerminal = false never creates a second job for
\* its key, whatever became of the first (the comment in shouldReuseDedupe).
DurableIdempotence ==
    \A v, w \in Jobs :
        /\ row[v].request.scope = row[w].request.scope
        /\ row[v].request.key = row[w].request.key
        /\ row[v].request.key # NoKey
        /\ row[v].rowid < row[w].rowid
        => row[w].request.retryTerminal

\* Once the service listens, it holds every running job's launch, with its timers
\* and its completion callback: no running row can occupy the quota for ever, and
\* abort never has to refuse (abort, processExited, recoverScope).
RunningIsOwned ==
    mode = "up" =>
        \A w \in Jobs : row[w].status = "running" =>
            /\ active[w] = row[w].launchId
            /\ active[w] \in Launches
            /\ launch[active[w]].coroutine = "watching"
            /\ launch[active[w]].worker = w

\* A process started by the present service is supervised, just created, or being
\* killed; and two processes of one job only coexist when one of them outlived an
\* earlier service and the caller declared the job idempotent (launchWorker, abort).
NoStrayProcess ==
    \A l \in Launches : launch[l].process = "alive" =>
        /\ \/ launch[l].coroutine \in {"spawned", "lost"}
           \/ active[launch[l].worker] = l
           \/ l \in killing
        /\ \A m \in Launches :
              launch[m].process = "alive" /\ launch[m].worker = launch[l].worker =>
                  \/ m = l
                  \/ /\ row[launch[l].worker].request.relaunch
                     /\ "lost" \in {launch[l].coroutine, launch[m].coroutine}

\* While the service runs, an outcome that is not yet reported has a timer armed
\* or a call in flight, so that no report waits for the next restart
\* (scheduleNotification, deliverNotification, resetInterruptedNotifications).
NoStrandedReport ==
    mode = "up" =>
        \A w \in Jobs :
            /\ Outstanding(w) => w \in timers
            /\ row[w].notification = "sending" => w \in sending

\* A job is recorded as delivered only if the receiver has committed its callback,
\* the callback is sent for terminal jobs only, and never for ARC's jobs.
ReportsAreTrue ==
    \A w \in Jobs :
        /\ row[w].notification = "delivered" /\ ~IsArc(w) => w \in accepted
        /\ w \in posted => ~IsLive(w) /\ ~IsArc(w)

\* A terminal status is final: a late exit, timeout, abort or restart never
\* changes it, and a delivered report is never sent again (markTerminal).
TerminalIsFinal ==
    [][\A w \in Jobs :
          /\ ~IsLive(w) => row'[w].status = row[w].status
          /\ row[w].notification = "delivered" => row'[w].notification = "delivered"]_vars

-----------------------------------------------------------------------------
(* Refinement: the runner keeps the promise of JobPromise.                  *)

PromiseState == [w \in Worker |-> IF w \notin Jobs THEN "none"
                                  ELSE IF IsLive(w) THEN "open" ELSE row[w].status]

PromiseTold == {w \in Jobs : ~IsArc(w) /\ row[w].notification = "delivered"}

Promise == INSTANCE JobPromise WITH
    Job <- Worker, Outcome <- Terminal, state <- PromiseState, told <- PromiseTold

\* Whatever the order of launches, exits, timeouts, aborts, restarts and retries,
\* a job gets one outcome, keeps it, and is then reported (WorkerService as a whole).
PromiseKept == Promise!Spec
=============================================================================
