--------------------------- MODULE WorkerCallback ---------------------------
(***************************************************************************)
(* The job runner and the bridge's inbox, joined by the callback request   *)
(* POST /api/worker-events (HttpCompletionNotifier and                     *)
(* handleWorkerEventsRoutes): two processes with two databases that crash  *)
(* and restart independently.                                              *)
(*                                                                         *)
(* The network keeps a request that was made for ever: it may arrive once, *)
(* several times or never, after its sender has timed out or stopped.  An  *)
(* answer may be lost.  A refusal (429, 503, no connection) and a timeout  *)
(* change nothing at the bridge; the runner sees them as MarkFailed.       *)
(***************************************************************************)
EXTENDS TerminalInbox

CONSTANTS
    Launch, NoLaunch, Scope, ArcScope, Key, NoKey, Request,
    MaxConcurrentPerScope, MaxCrashes

\* The inbox is extended, the runner an instance: its receiver is the inbox.  These are the
\* assumptions of WorkerRunner, which INSTANCE leaves to this module to make.
ASSUME NoLaunchAssumption == NoLaunch \notin Launch
ASSUME BoundsAssumption   == MaxConcurrentPerScope \in Nat /\ MaxCrashes \in Nat
ASSUME RequestAssumption  ==
    Request \subseteq [scope : Scope, key : Key \cup {NoKey},
                       relaunch : BOOLEAN, retryTerminal : BOOLEAN]

VARIABLES
    row, launch, active, killing, timers, sending, posted, mode, todo, crashes,
    answered    \* jobs whose pending notify call has been answered with 200

\* The event id is a function of the worker id ("worker:<id>:terminal:v1"), so the job
\* stands for its event, and what the runner's receiver has committed is the inbox.
Worker   == Event
accepted == Known

Runner == INSTANCE WorkerRunner

inbox        == vars
runner       == <<row, launch, active, killing, timers, sending, posted, mode, todo, crashes>>
callbackVars == <<runner, inbox, answered>>

CallbackInit ==
    /\ Init
    /\ Runner!Init
    /\ answered = {}

-----------------------------------------------------------------------------

\* store.has, or the INSERT OR IGNORE that changed nothing: answered as a duplicate.
Duplicate_Bug(w) == TRUE
Duplicate(w) == w \in accepted

\* INSERT OR IGNORE: a callback that is sent again leaves the stored event alone.
Commits_Bug(w) ==
    \/ Insert(w)
    \/ /\ Duplicate(w)
       /\ event' = [event EXCEPT ![w] = Received]
       /\ UNCHANGED <<recent, wakeScheduled, waking, up, stops>>
Commits(w) == Insert(w) \/ (Duplicate(w) /\ UNCHANGED inbox)

\* A request for w reaches the route.  The answer follows the commit, and may be lost.
Arrive(w) ==
    /\ w \in posted
    /\ up
    /\ Commits(w)
    /\ answered' \in {answered, answered \cup ({w} \cap sending)}
    /\ UNCHANGED runner

\* notifier.notify resolves on response.ok.
MarkDelivered(w) ==
    /\ w \in answered
    /\ answered' = answered \ {w}
    /\ UNCHANGED inbox
    /\ Runner!RecordDelivered(w)

\* It rejects on a refusal, a lost answer or the timeout; also when the bridge has
\* committed the event.
MarkFailed(w) ==
    /\ UNCHANGED inbox
    /\ Runner!MarkFailed(w)
    /\ answered' = answered \ {w}

RunnerStops ==
    /\ UNCHANGED inbox
    /\ Runner!Crash
    /\ answered' = {}

RunnerStep ==
    /\ UNCHANGED <<inbox, answered>>
    /\ \/ \E l \in DOMAIN launch : Runner!LaunchStep(l)
       \/ \E w \in Worker : Runner!JobStep(w)
       \/ Runner!Restart
       \/ Runner!Listen

InboxStep ==
    /\ UNCHANGED <<runner, answered>>
    /\ \/ \E w \in Worker : WindowSlides(w) \/ DeadlinePasses(w)
       \/ \E c \in waking : WakeStep(c)
       \/ Tick
       \/ Sweep
       \/ Stop
       \/ Start

CallbackNext ==
    \/ \E w \in Worker : Arrive(w) \/ MarkDelivered(w) \/ MarkFailed(w)
    \/ RunnerStops
    \/ RunnerStep
    \/ InboxStep

CallbackSpec == CallbackInit /\ [][CallbackNext]_callbackVars

-----------------------------------------------------------------------------

RunnerAlone == UNCHANGED <<inbox, answered>>
InboxAlone  == UNCHANGED <<runner, answered>>

\* Timers, promise callbacks and the supervisors of both services eventually run.  That a
\* process exits by itself, that anyone aborts, or that a service stops, is not assumed.
\* The network does not lose every request or every answer, and a chat is not busy at every
\* attempt: a callback that is made again and again is one time answered and heard, a wake
\* that is made again and again does not end in a deferral each time.
CallbackFairness ==
    /\ \A l \in Launch :
          /\ WF_callbackVars(RunnerAlone /\ l \in DOMAIN launch /\ (Runner!Spawn(l) \/ Runner!LaunchFails(l)))
          /\ WF_callbackVars(RunnerAlone /\ l \in DOMAIN launch /\ Runner!MarkRunning(l))
    /\ \A w \in Worker :
          /\ WF_callbackVars(RunnerAlone /\ Runner!ExpireRunning(w))
          /\ WF_callbackVars(RunnerAlone /\ Runner!ClaimNotification(w))
          /\ WF_callbackVars(MarkDelivered(w) \/ MarkFailed(w))
          /\ SF_callbackVars(MarkDelivered(w))
          /\ SF_callbackVars(Arrive(w) /\ w \in answered')
          /\ WF_callbackVars(RunnerAlone /\ Runner!RecoverJob(w))
          /\ WF_callbackVars(InboxAlone /\ WindowSlides(w))
          /\ WF_callbackVars(InboxAlone /\ DeadlinePasses(w))
          /\ SF_callbackVars(InboxAlone /\ \E c \in waking : c.event = w /\ (WakeSucceeds(c) \/ WakeFails(c)))
    /\ WF_callbackVars(RunnerAlone /\ Runner!Restart)
    /\ WF_callbackVars(RunnerAlone /\ Runner!Listen)
    /\ WF_callbackVars(InboxAlone /\ \E c \in waking : WakeStep(c))
    /\ WF_callbackVars(InboxAlone /\ Tick)
    /\ WF_callbackVars(InboxAlone /\ Sweep)
    /\ WF_callbackVars(InboxAlone /\ Start)

CallbackFairSpec == CallbackSpec /\ CallbackFairness

-----------------------------------------------------------------------------
(* What must hold.                                                          *)

\* No outcome is lost between the two databases, whichever side crashes between the
\* commit of the event, its answer and the update of the row: the runner forgets a
\* report only when the bridge has it, and the bridge only knows finished jobs of
\* ordinary bots (markNotificationDelivered, insert).
NoOutcomeLost ==
    \A w \in DOMAIN row :
        /\ row[w].notification = "delivered" /\ ~Runner!IsArc(w) => w \in DOMAIN event
        /\ w \in DOMAIN event => ~Runner!IsLive(w) /\ ~Runner!IsArc(w)

\* The inbox fed by retried, late and duplicated callbacks behaves as TerminalInbox
\* says: a job enters it once, and a chat that was woken is not woken again.
InboxImplemented == Spec

\* Every dispatched job reaches a terminal status, across a bounded number of stops: silent
\* work cannot occupy the quota for ever (expireRunning, recoverScope).
EveryJobSettles ==
    \A w \in Worker : (w \in DOMAIN row) ~> (w \in DOMAIN row /\ ~Runner!IsLive(w))

\* The runner closes every terminal job's report: the bridge has answered for it, or the
\* report is suppressed for ARC (deliverNotification, scheduleNotification).
EveryOutcomeReported ==
    \A w \in Worker :
        (w \in DOMAIN row /\ ~Runner!IsLive(w))
            ~> (w \in DOMAIN row /\ row[w].notification = "delivered")

\* End to end: the chat of every finished job of an ordinary bot is woken, or the
\* operator sees the failed event, across stops of both services.
EveryOutcomeReachesChat ==
    \A w \in Worker :
        (w \in DOMAIN row /\ ~Runner!IsLive(w) /\ ~Runner!IsArc(w))
            ~> (w \in DOMAIN event /\ event[w].state \in {"woken", "failed"})
=============================================================================
