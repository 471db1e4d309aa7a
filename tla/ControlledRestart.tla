-------------------------- MODULE ControlledRestart --------------------------
(***************************************************************************)
(* One controlled restart of the bridge, from the CLI that asks for it     *)
(* (bin/metabot) to the process that takes over: prepare and cancel        *)
(* (restart-coordinator.ts), the quiesce of the message bridges, the       *)
(* breadcrumb (restart-notice.ts), the request ledger (restart-store.ts)   *)
(* and the finalization at startup (restart-recovery.ts).                  *)
(*                                                                         *)
(* Three things survive the bridge: controlled-restart.json (plan),        *)
(* last-restart.json (crumb) and the ledger (record, decided); so do the   *)
(* continuations that scheduleTaskDurably saved.  The quiesce, the leases, *)
(* the prepare and recovery coroutines and the running tasks die with it.  *)
(* One action is one synchronous stretch of the bridge or one command of   *)
(* a CLI; a CLI may die between any two of its commands.                   *)
(***************************************************************************)
EXTENDS Naturals, FiniteSets

CONSTANTS
    Req,            \* request ids, one CLI each: claim refuses an id it knows
    Chat,           \* the chats of all registered bots
    None,           \* no request, no chat
    Requester,      \* the requesterChat of a request, or None
    Forced,         \* the requests of --force
    Resumed,        \* the requests not of --no-resume
    Internal,       \* the chats of isInternalExecutionChat
    MaxTasks,       \* bounds for model checking only: on the tasks started
    MaxCrashes      \* and on the crashes of the bridge

ASSUME NoneAssumption == None \notin Req \cup Chat
ASSUME RequestAssumption ==
    /\ Requester \in [Req -> Chat \cup {None}]
    /\ Forced \subseteq Req /\ Resumed \subseteq Req /\ Internal \subseteq Chat
ASSUME BoundsAssumption == MaxTasks \in Nat /\ MaxCrashes \in Nat

VARIABLES
    plan,           \* the file controlled-restart.json
    crumb,          \* the file last-restart.json: a request or None
    record,         \* the ledger's status of each request
    decided,        \* requests with continuation_decided_at
    cont,           \* the continuations the scheduler holds, by dedupe key
    cli,            \* where the CLI of each request is
    quiesce,        \* restartQuiesceRequestId of the message bridges
    leases,         \* preparationLeases whose timer has not fired
    notifying,      \* prepare calls that await their notices
    busy,           \* chats with a starting or running task
    fin,            \* finalizeControlledRestartAfterStartup of this process
    interrupted,    \* history: the work a request stopped while it held the quiesce
    tasks, crashes  \* tasks started and crashes so far

files  == <<plan, crumb>>
ledger == <<record, decided, cont>>
memory == <<quiesce, leases, notifying, busy>>
history == <<interrupted, tasks, crashes>>
vars == <<files, ledger, cli, memory, fin, history>>

Status == {"none", "claimed", "restarting", "healthy", "failed"}
Plan == [id : Req \cup {None}, parts : SUBSET Chat, active : SUBSET Chat, recovered : SUBSET Chat,
         status : {"none", "preparing", "prepared", "cancelled", "completed"}]
NoPlan == [id |-> None, parts |-> {}, active |-> {}, recovered |-> {}, status |-> "none"]

\* The dedupe keys restart-resume:<request>:<chat> and restart-resume:<request>.
Continuation == [req : Req, chat : Chat, by : {"participant", "requester"}]

\* cli[r].prepared is the script's variable of that name.
Controller == [pc : {"idle", "claimed", "asking", "prepared", "refused", "crumbed", "marked",
                     "failing", "cleanup", "closing", "over"}, prepared : BOOLEAN]

\* The finalization: the breadcrumb loaded at startup, recovery's copy `next' of the plan,
\* the chat whose notice it awaits and whether its continuation was saved.
Finalization == [at : {"down", "loaded", "health", "recover", "report", "done"},
                 req : Req \cup {None}, next : Plan, chat : Chat \cup {None},
                 saved : BOOLEAN, todo : SUBSET Chat]
At(where, r) == [at |-> where, req |-> r, next |-> NoPlan, chat |-> None, saved |-> FALSE, todo |-> {}]

Up == fin.at # "down"

\* main() starts the HTTP server and calls the finalization in one stretch.
Serving == fin.at \notin {"down", "loaded"}

\* Every variable has its type; a plan recovers only its participants, what lives in memory
\* needs a process, and a decided request has no breadcrumb left.
TypeOK ==
    /\ plan \in Plan /\ plan.recovered \subseteq plan.parts
    /\ crumb \in Req \cup {None}
    /\ record \in [Req -> Status]
    /\ decided \subseteq Req /\ crumb \notin decided
    /\ cont \subseteq Continuation
    /\ cli \in [Req -> Controller]
    /\ quiesce \in Req \cup {None}
    /\ leases \subseteq Req
    /\ notifying \subseteq [id : Req, parts : SUBSET Chat]
    /\ busy \subseteq Chat
    /\ fin \in Finalization
    /\ ~Up => quiesce = None /\ leases = {} /\ notifying = {} /\ busy = {}
    /\ interrupted \in [Req -> SUBSET Chat]
    /\ tasks \in Nat /\ crashes \in Nat

Init ==
    /\ plan = NoPlan /\ crumb = None
    /\ record = [r \in Req |-> "none"] /\ decided = {} /\ cont = {}
    /\ cli = [r \in Req |-> [pc |-> "idle", prepared |-> FALSE]]
    /\ quiesce = None /\ leases = {} /\ notifying = {} /\ busy = {}
    /\ fin = At("done", None)
    /\ interrupted = [r \in Req |-> {}] /\ tasks = 0 /\ crashes = 0

-----------------------------------------------------------------------------
(* The work of the bridge.  A definition whose name ends in _Bug is not    *)
(* part of the model: it is the plausible mistake a property must catch.   *)

\* handleMessage, executeApiTask and processQueue all reserve the chat first.
Reservable_Bug(c) == c \notin busy
Reservable(c) == quiesce = None /\ c \notin busy

StartTask(c) ==
    /\ Up /\ Reservable(c)
    /\ tasks < MaxTasks /\ tasks' = tasks + 1
    /\ busy' = busy \cup {c}
    /\ UNCHANGED <<files, ledger, cli, quiesce, leases, notifying, fin, interrupted, crashes>>

EndTask(c) ==
    /\ c \in busy
    /\ busy' = busy \ {c}
    /\ UNCHANGED <<files, ledger, cli, quiesce, leases, notifying, fin, history>>

-----------------------------------------------------------------------------
(* Prepare and cancel.                                                     *)

Open(p) == p.status \in {"preparing", "prepared"}
Goto(r, pc) == [cli EXCEPT ![r].pc = pc]
Released(r) == IF quiesce = r THEN None ELSE quiesce
Cleared(r)  == IF crumb = r THEN None ELSE crumb

\* PLAN_TTL_MS, a day, is long after every timeout of a prepare, a CLI or a recovery.
PlanExpired ==
    /\ plan.id \notin leases /\ fin.at = "done"
    /\ \A n \in notifying : n.id # plan.id
    /\ cli[plan.id].pc = "over"

PrepareAccepted(r) ==
    /\ Open(plan) => PlanExpired
    /\ quiesce' = r
    /\ LET parts == busy \cup ({Requester[r]} \ {None}) IN
       /\ plan' = [id |-> r, parts |-> parts, active |-> busy, recovered |-> {},
                   status |-> "preparing"]
       /\ notifying' = notifying \cup {[id |-> r, parts |-> parts]}
    /\ cli' = Goto(r, "asking")

PrepareRefused(r) ==
    /\ Open(plan)
    /\ cli' = Goto(r, "refused")
    /\ UNCHANGED <<plan, quiesce, notifying>>

Prepare(r) ==
    /\ Serving /\ cli[r].pc = "claimed"
    /\ PrepareAccepted(r) \/ PrepareRefused(r)
    /\ UNCHANGED <<crumb, ledger, leases, busy, fin, history>>

\* refreshParticipants: only what still runs when the notices are answered is active.
Refreshed(n) == n.parts \cap busy

Prepared(n) ==
    /\ plan' = [id |-> n.id, parts |-> n.parts, active |-> Refreshed(n), recovered |-> {},
                status |-> "prepared"]
    /\ leases' = leases \cup {n.id}
    /\ cli' = IF cli[n.id].pc = "asking"
              THEN [cli EXCEPT ![n.id] = [pc |-> "prepared", prepared |-> TRUE]] ELSE cli
    /\ UNCHANGED quiesce

NotPrepared(n) ==
    /\ n.parts # {} /\ n.id \notin Forced
    /\ plan' = [id |-> n.id, parts |-> n.parts, active |-> Refreshed(n), recovered |-> {},
                status |-> "cancelled"]
    /\ quiesce' = Released(n.id)
    /\ cli' = IF cli[n.id].pc = "asking" THEN Goto(n.id, "refused") ELSE cli
    /\ UNCHANGED leases

\* The second half of prepareControlledRestart, after Promise.all of the notices.
FinishPrepare(n) ==
    /\ notifying' = notifying \ {n}
    /\ Prepared(n) \/ NotPrepared(n)
    /\ UNCHANGED <<crumb, ledger, busy, fin, history>>

CancelControlledRestart(r) ==
    /\ leases' = leases \ {r}
    /\ quiesce' = Released(r)
    /\ plan' = IF plan.id = r /\ plan.status # "completed"
               THEN [plan EXCEPT !.status = "cancelled"] ELSE plan

LeaseExpires(r) ==
    /\ r \in leases
    /\ \/ /\ plan.id = r /\ Open(plan)
          /\ CancelControlledRestart(r)
          /\ crumb' = Cleared(r)
       \/ /\ plan.id # r \/ ~Open(plan)
          /\ leases' = leases \ {r}
          /\ UNCHANGED <<plan, crumb, quiesce>>
    /\ UNCHANGED <<ledger, cli, notifying, busy, fin, history>>

-----------------------------------------------------------------------------
(* The process: stopped by PM2 for a CLI, or crashing on its own.          *)

\* A prepare call that is cut off is a refusal to its CLI (prepare_rc=2).
CutOff(q) == IF cli[q].pc = "asking" THEN "refused" ELSE cli[q].pc

BridgeDown ==
    /\ quiesce' = None /\ leases' = {} /\ notifying' = {} /\ busy' = {}
    /\ fin' = At("down", None)

Crash ==
    /\ Up /\ crashes < MaxCrashes /\ crashes' = crashes + 1
    /\ BridgeDown
    /\ cli' = [q \in Req |-> [cli[q] EXCEPT !.pc = CutOff(q)]]
    /\ UNCHANGED <<files, ledger, interrupted, tasks>>

\* PM2 starts the process again: loadRestartBreadcrumb, then the rest of main().  A stale
\* breadcrumb is loaded too, because its request is undecided while the file is there.
Start ==
    /\ ~Up
    /\ fin' = IF crumb = None THEN At("done", None) ELSE At("loaded", crumb)
    /\ UNCHANGED <<files, ledger, cli, memory, history>>

-----------------------------------------------------------------------------
(* The CLI of a request.                                                   *)

Claim(r) ==
    /\ cli[r].pc = "idle"
    /\ record' = [record EXCEPT ![r] = "claimed"]
    /\ cli' = Goto(r, "claimed")
    /\ UNCHANGED <<files, decided, cont, memory, fin, history>>

PrepareUnreachable(r) ==
    /\ ~Serving /\ cli[r].pc = "claimed"
    /\ cli' = Goto(r, "refused")
    /\ UNCHANGED <<files, ledger, memory, fin, history>>

\* Without --force an unprepared restart ends in MarkFailed.  The write itself may fail.
WriteBreadcrumb(r) ==
    /\ cli[r].pc = "prepared" \/ (cli[r].pc = "refused" /\ r \in Forced)
    /\ \/ crumb' = r /\ cli' = Goto(r, "crumbed")
       \/ UNCHANGED crumb /\ cli' = Goto(r, "failing")
    /\ UNCHANGED <<plan, ledger, memory, fin, history>>

MarkRestarting(r) ==
    /\ cli[r].pc = "crumbed"
    /\ \/ /\ record[r] = "claimed"
          /\ record' = [record EXCEPT ![r] = "restarting"]
          /\ cli' = Goto(r, "marked")
       \/ /\ record[r] # "claimed"
          /\ cli' = Goto(r, "failing")
          /\ UNCHANGED record
    /\ UNCHANGED <<files, decided, cont, memory, fin, history>>

\* PM2 may reject the switch, or stop the bridge and fail to verify the new one.
SwitchRejected(r) ==
    /\ cli[r].pc = "marked"
    /\ cli' = Goto(r, "failing")
    /\ UNCHANGED <<files, ledger, memory, fin, history>>

Switch(r) ==
    /\ cli[r].pc = "marked"
    /\ interrupted' = [interrupted EXCEPT ![r] = IF quiesce = r THEN busy ELSE {}]
    /\ BridgeDown
    /\ \E verified \in BOOLEAN :
         cli' = [q \in Req |-> [cli[q] EXCEPT
                   !.pc = IF q # r THEN CutOff(q) ELSE IF verified THEN "over" ELSE "failing"]]
    /\ UNCHANGED <<files, ledger, tasks, crashes>>

\* A failed switch: cancel (when prepared, and the bridge answers), clear-breadcrumb and
\* mark-failed, three commands.
CliCancel(r) ==
    /\ cli[r].pc = "failing"
    /\ cli' = Goto(r, "cleanup")
    /\ \/ cli[r].prepared /\ Serving /\ CancelControlledRestart(r)
       \/ ~(cli[r].prepared /\ Serving) /\ UNCHANGED <<plan, quiesce, leases>>
    /\ UNCHANGED <<crumb, ledger, notifying, busy, fin, history>>

ClearBreadcrumb(r) ==
    /\ cli[r].pc = "cleanup"
    /\ crumb' = Cleared(r)
    /\ cli' = Goto(r, "closing")
    /\ UNCHANGED <<plan, ledger, memory, fin, history>>

MarkFailed(r) ==
    /\ cli[r].pc = "closing" \/ (cli[r].pc = "refused" /\ r \notin Forced)
    /\ record' = IF record[r] \in {"healthy", "failed"} THEN record
                 ELSE [record EXCEPT ![r] = "failed"]
    /\ cli' = Goto(r, "over")
    /\ UNCHANGED <<files, decided, cont, memory, fin, history>>

CliDies(r) ==
    /\ cli[r].pc \notin {"idle", "over"}
    /\ cli' = Goto(r, "over")
    /\ UNCHANGED <<files, ledger, memory, fin, history>>

-----------------------------------------------------------------------------
(* The finalization in the new process, for the request fin.req.           *)

\* continuationRequired, for a request the ledger calls healthy or not.
Required_Bug(r, p, c, healthy) == r \in Resumed /\ c \in p.active \ Internal
Required(r, p, c, healthy) == healthy /\ r \in Resumed /\ c \in p.active \ Internal

Decide(r) ==
    /\ decided' = decided \cup {r}
    /\ crumb' = Cleared(r)
    /\ fin' = At("done", r)

Incomplete(r) ==
    /\ fin' = At("done", r)
    /\ UNCHANGED <<decided, crumb>>

\* The next turn of the recovery loop, up to its await, or what follows the loop.
RecoverNext(r, next, todo, healthy) ==
    \/ \E c \in todo, saved \in BOOLEAN :
         /\ saved => Required(r, next, c, healthy)
         /\ cont' = IF saved THEN cont \cup {[req |-> r, chat |-> c, by |-> "participant"]} ELSE cont
         /\ fin' = [at |-> "recover", req |-> r, next |-> next, chat |-> c, saved |-> saved,
                    todo |-> todo \ {c}]
         /\ plan' = next
         /\ UNCHANGED <<decided, crumb>>
    \/ /\ todo = {}
       /\ \/ /\ next.recovered = next.parts
             /\ plan' = [next EXCEPT !.status = "completed"]
             /\ Decide(r)
          \/ /\ next.recovered # next.parts
             /\ plan' = next
             /\ Incomplete(r)
       /\ UNCHANGED cont

\* recoverControlledRestartAfterStartup up to its first await.
Recover(r, healthy) ==
    \/ /\ plan.id = r /\ Open(plan)
       /\ leases' = leases \ {r}
       /\ RecoverNext(r, plan, plan.parts \ plan.recovered, healthy)
    \/ /\ plan.id = r /\ plan.status = "completed"
       /\ leases' = leases \ {r}
       /\ Decide(r)
       /\ UNCHANGED <<plan, cont>>
    \/ /\ plan.id = r /\ plan.status = "cancelled"
       /\ Incomplete(r)
       /\ UNCHANGED <<plan, cont, leases>>
    \/ /\ plan.id # r
       /\ fin' = At("report", r)
       /\ UNCHANGED <<plan, cont, leases, decided, crumb>>

BeginFinalization ==
    /\ fin.at = "loaded"
    /\ LET r == fin.req IN
       \/ /\ record[r] = "restarting"
          /\ fin' = At("health", r)
          /\ UNCHANGED <<files, ledger, leases>>
       \/ /\ record[r] = "claimed"
          /\ record' = [record EXCEPT ![r] = "failed"]
          /\ Recover(r, FALSE)
       \/ /\ record[r] \in {"healthy", "failed"}
          /\ Recover(r, record[r] = "healthy")
          /\ UNCHANGED record
    /\ UNCHANGED <<cli, quiesce, notifying, busy, history>>

HealthChecked ==
    /\ fin.at = "health" /\ record[fin.req] = "restarting"
    /\ \E ok \in BOOLEAN :
         /\ record' = [record EXCEPT ![fin.req] = IF ok THEN "healthy" ELSE "failed"]
         /\ Recover(fin.req, ok)
    /\ UNCHANGED <<cli, quiesce, notifying, busy, history>>

\* The CLI marked the request failed meanwhile: markStartupHealthy throws, and so does the
\* markFailed of its catch; main() rejects and the process exits.
FinalizationThrows ==
    /\ fin.at = "health" /\ record[fin.req] # "restarting"
    /\ BridgeDown
    /\ cli' = [q \in Req |-> [cli[q] EXCEPT !.pc = CutOff(q)]]
    /\ UNCHANGED <<files, ledger, history>>

\* recoveredAt is set when the continuation is saved, if one is due, and the notice delivered.
Recovered_Bug(delivered, required) == delivered
Recovered(delivered, required) == delivered /\ (required => fin.saved)

ChatRecovered ==
    /\ fin.at = "recover"
    /\ LET r == fin.req
           c == fin.chat
           healthy == record[r] = "healthy" IN
       \E delivered \in BOOLEAN :
         LET next == IF Recovered(delivered, Required(r, fin.next, c, healthy))
                     THEN [fin.next EXCEPT !.recovered = @ \cup {c}] ELSE fin.next
         IN RecoverNext(r, next, fin.todo, healthy)
    /\ UNCHANGED <<record, cli, memory, history>>

\* decideContinuationOnce, for the requester of a request that has no plan of its own.
DecideContinuation ==
    /\ fin.at = "report"
    /\ LET r == fin.req
           c == Requester[r]
           wanted == record[r] = "healthy" /\ r \in Resumed /\ c \notin Internal \cup {None} IN
       \/ /\ wanted
          /\ cont' = cont \cup {[req |-> r, chat |-> c, by |-> "requester"]}
          /\ Decide(r)
       \/ wanted /\ Incomplete(r) /\ UNCHANGED cont
       \/ ~wanted /\ Decide(r) /\ UNCHANGED cont
    /\ UNCHANGED <<plan, record, cli, memory, history>>

-----------------------------------------------------------------------------
Next ==
    \/ \E c \in Chat : StartTask(c) \/ EndTask(c)
    \/ \E n \in notifying : FinishPrepare(n)
    \/ \E r \in Req :
         \/ Claim(r) \/ Prepare(r) \/ PrepareUnreachable(r) \/ WriteBreadcrumb(r)
         \/ MarkRestarting(r) \/ SwitchRejected(r) \/ Switch(r) \/ CliCancel(r)
         \/ ClearBreadcrumb(r) \/ MarkFailed(r) \/ CliDies(r) \/ LeaseExpires(r)
    \/ Crash \/ Start \/ BeginFinalization \/ HealthChecked \/ FinalizationThrows
    \/ ChatRecovered \/ DecideContinuation

Spec == Init /\ [][Next]_vars

-----------------------------------------------------------------------------
(* What a controlled restart promises.                                     *)

\* While a request holds the quiesce and the plan is its own, whatever PM2 would interrupt is
\* in its checkpoint: the snapshot taken before the notices is still complete after them.
CheckpointCovers ==
    quiesce # None /\ plan.id = quiesce => busy \subseteq plan.active

\* A restart that the ledger calls healthy and whose handoff is completed has queued a
\* continuation for every chat it interrupted, however often the handoff was replayed.
InterruptedIsContinued ==
    \A r \in Resumed :
      plan.id = r /\ plan.status = "completed" /\ record[r] = "healthy"
        => \A c \in interrupted[r] \ Internal :
             [req |-> r, chat |-> c, by |-> "participant"] \in cont

\* A request that ends failed, by the CLI or by the new process, has continued nothing: the
\* health check, the CLI's cleanup and a replay race for the same ledger row.
FailedIsNotContinued ==
    \A k \in cont : record[k.req] = "healthy" /\ k.req \in Resumed

\* "A two-minute preparation lease also unfreezes the Bridge" (docs/reference/cli-metabot.md):
\* the bridge is never quiesced with neither a prepare under way nor a lease to end it.
FreezeHasLease ==
    quiesce # None => quiesce \in leases \/ \E n \in notifying : n.id = quiesce
==============================================================================
