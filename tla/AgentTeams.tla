----------------------------- MODULE AgentTeams -----------------------------
(***************************************************************************)
(* The Agent Team supervisor (team-supervisor.ts) over the team store      *)
(* (team-store.ts): a timer looks for pending tasks and unread mail of one *)
(* team's agents, opens a run for each lane of work and executes it in the *)
(* bridge; the call is awaited, and meanwhile the lead stops runs, moves   *)
(* tasks, stops agents, and the bridge quiesces, stops or dies.            *)
(*                                                                         *)
(* A lane is a task, or the mail of an agent.  A run is <<lane, k>>, the   *)
(* k-th of its lane.  The store survives the process; calls do not.  Tasks *)
(* that are blocked by others, the digests sent to the lead and the routes *)
(* by which an administrator of an ungoverned team writes run rows are     *)
(* left out.                                                               *)
(***************************************************************************)
EXTENDS Naturals, Sequences, FiniteSets

CONSTANTS
    Agent,             \* the members of the team
    Governed,          \* those of a governed instance: one stable chat for all their runs
    Gated,             \* those whose bot requires the RulesPack: a preflight may reject their engine
    Task,              \* task ids, in the order of their creation
    NoTask,            \* what a message that names no task refers to
    MaxParallel,       \* runs of one agent at a time
    MaxActiveRuns,     \* quotas of the governed instance: runs of all its agents at a time,
    MaxRunsPerAgent,   \* and of each
    SameFailureLimit, FailedRunLimit,
    MaxEvents          \* bound: messages sent, acts of the lead, statuses set by hand, launches
                       \* that fail, bots that leave and stops of the process, together

ASSUME TeamAssumption ==
    /\ Agent # {}
    /\ Governed \subseteq Agent
    /\ Gated \subseteq Agent
    /\ Task \subseteq Nat
    /\ Task \cap Agent = {}
    /\ NoTask \notin Task
    /\ MaxParallel \in Nat \ {0}
    /\ MaxActiveRuns \in Nat \ {0}
    /\ MaxRunsPerAgent \in Nat \ {0}
    /\ SameFailureLimit \in Nat \ {0}
    /\ FailedRunLimit \in Nat \ {0}
    /\ MaxEvents \in Nat

VARIABLES
    agent,      \* the agents' status rows
    task,       \* the task rows
    unread,     \* unread mail: <<recipient, the task it refers to>>
    runs,       \* per lane, its run rows in the order of their creation
    calls,      \* runs whose executeApiTask has not been answered, and what the bridge does
    quiesced,   \* the bridge prepares a controlled restart
    mode,       \* the process: up, stopping (destroy was called) or down
    orphaned,   \* tasks put in progress by hand, or whose run was closed by a process that died
                \* before it closed the task; until a status is set by hand
    barred,     \* agents that get no run: their team is stopped, no bot can execute them, or
                \* the tick ends before it reaches them
    events      \* how many of the bounded events have happened

vars == <<agent, task, unread, runs, calls, quiesced, mode, orphaned, barred, events>>

Lane == Task \cup Agent
Run(id) == runs[id[1]][id[2]]
RunIds == UNION {{<<l, k>> : k \in DOMAIN runs[l]} : l \in Lane}

RunStatus  == {"running", "completed", "failed", "stopped"}
Fault      == {"none", "error", "policy", "busy", "quiesced", "restart"}
TaskStatus == {"none", "pending", "in_progress", "completed", "failed", "deleted"}
Decision   == {"completed", "failed", "deleted"}
\* What the bridge does with a call: runs it, has been told to stop it, has been told to
\* stop it by the run's budget, or has refused it.
CallState  == {"executing", "aborted", "over", "busy", "quiesced"}

RunRow == [agent : Agent, shared : BOOLEAN, status : RunStatus, fault : Fault]

\* Rows are well formed, a call belongs to a run row, and a process that is down has none.
TypeOK ==
    /\ agent \in [Agent -> {"idle", "working", "stopped"}]
    /\ task \in [Task -> [status : TaskStatus, owner : Agent]]
    /\ unread \subseteq Agent \X (Task \cup {NoTask})
    /\ runs \in [Lane -> Seq(RunRow)]
    /\ DOMAIN calls \subseteq RunIds
    /\ \A id \in DOMAIN calls : calls[id] \in CallState
    /\ quiesced \in BOOLEAN
    /\ mode \in {"up", "stopping", "down"}
    /\ mode = "down" => calls = <<>> /\ ~quiesced
    /\ orphaned \subseteq Task
    /\ barred \subseteq Agent
    /\ events \in 0..MaxEvents

Init ==
    /\ agent = [a \in Agent |-> "idle"]
    /\ task = [t \in Task |-> [status |-> "none", owner |-> CHOOSE a \in Agent : TRUE]]
    /\ unread = {}
    /\ runs = [l \in Lane |-> <<>>]
    /\ calls = <<>>
    /\ quiesced = FALSE
    /\ mode = "up"
    /\ orphaned = {}
    /\ barred = {}
    /\ events = 0

-----------------------------------------------------------------------------
(* The lanes of an agent (findRunnableAgents).                              *)

RunningOf(a) == {id \in RunIds : Run(id).agent = a /\ Run(id).status = "running"}

\* The supervisor's inFlight keys: this agent's lane has a runAgent that has not ended.
InFlight(a, l) == \E id \in DOMAIN calls : id[1] = l /\ Run(id).agent = a

\* Array.slice(0, n) of tasks in the order of their ids.
Lowest(S, n) == {t \in S : Cardinality({u \in S : u < t}) < n}

Pending(a) == {t \in Task : task[t].status = "pending" /\ task[t].owner = a}
TaskLanes(a) == Lowest(Pending(a), MaxParallel - Cardinality(RunningOf(a)))

\* Mail that no task lane takes along waits until the agent has no work at all.
Lanes(a) ==
    IF Cardinality(RunningOf(a)) >= MaxParallel THEN {}
    ELSE IF TaskLanes(a) = {} /\ RunningOf(a) = {} /\ (\E m \in unread : m[1] = a) THEN {a}
    ELSE TaskLanes(a)

Startable(a) == {l \in Lanes(a) : ~InFlight(a, l)}

\* assertCanStartRun, asked for one lane after the other: what the quotas of a governed
\* instance let through.  The rest throws, and is asked again at the next tick.
GovernedRunning == UNION {RunningOf(a) : a \in Governed}

Admitted(a) ==
    {l \in Startable(a) :
        a \in Governed =>
            LET before == Cardinality({m \in Startable(a) \ {l} : m < l})
            IN /\ Cardinality(GovernedRunning) + before < MaxActiveRuns
               /\ Cardinality(RunningOf(a)) + before < MaxRunsPerAgent}

Isolated_Bug(a) == Cardinality(Lanes(a)) > 1
Isolated(a) == RunningOf(a) # {} \/ Cardinality(Lanes(a)) > 1

\* The mail that a set of lanes takes along and marks read.
MailFor(a, L) == {m \in unread : m[1] = a /\ (a \in L \/ m[2] \in L)}

SharesChat(a) == a \in Governed \/ ~Isolated(a)
ChatHolders(a) ==
    {id \in DOMAIN calls : calls[id] = "executing" /\ Run(id).shared /\ Run(id).agent = a}

\* executeApiTask: refused while the bridge quiesces or the chat has a task.  The lanes of
\* one tick start one after the other, so of several on one chat the first gets it.
Answer(a, l, L) ==
    IF quiesced THEN "quiesced"
    ELSE IF SharesChat(a) /\ (ChatHolders(a) # {} \/ \E m \in L \ {l} : m < l) THEN "busy"
    ELSE "executing"

Event == events < MaxEvents /\ events' = events + 1

SetTasks(S, status) ==
    task' = [t \in Task |-> IF t \in S THEN [task[t] EXCEPT !.status = status] ELSE task[t]]

-----------------------------------------------------------------------------
(* The tick, agent by agent (tick, runAgent up to its await).               *)

\* An unavailable bot, a stopped team and a full quota leave everything as it is.
MayTick(a) == mode = "up" /\ agent[a] # "stopped" /\ a \notin barred /\ Admitted(a) # {}

\* createRun for a set of lanes of an agent.
NewRow(a) == [agent |-> a, shared |-> SharesChat(a), status |-> "running", fault |-> "none"]
CreateRuns(a, L) ==
    runs' = [l \in Lane |-> IF l \in L THEN Append(runs[l], NewRow(a)) ELSE runs[l]]

StartRuns(a) ==
    /\ MayTick(a)
    /\ LET L   == Admitted(a)
           new == {<<l, Len(runs[l]) + 1>> : l \in L}
       IN /\ CreateRuns(a, L)
          /\ calls' = [id \in DOMAIN calls \cup new |->
                          IF id \in new THEN Answer(a, id[1], L) ELSE calls[id]]
          /\ SetTasks(L, "in_progress")
          /\ unread' = unread \ MailFor(a, L)
    /\ agent' = [agent EXCEPT ![a] = "working"]
    /\ UNCHANGED <<quiesced, mode, orphaned, barred, events>>

\* buildRulesContext throws when a pinned RuleSet is gone or changed, after createRun and
\* outside the try: the row stays "running", nothing is called and the task stays pending.
LeakRuns(a) ==
    /\ MayTick(a) /\ a \in Governed
    /\ Event
    /\ CreateRuns(a, Admitted(a))
    /\ UNCHANGED <<agent, task, unread, calls, quiesced, mode, orphaned, barred>>

\* The preflight asks for the engine the chat has now; it fails the tasks before a run
\* exists.  A lane of mail is not preflighted.
RejectTasks(a) ==
    /\ MayTick(a)
    /\ a \in Gated /\ a \notin Lanes(a)
    /\ SetTasks(Startable(a), "failed")
    /\ unread' = unread \ MailFor(a, Startable(a))
    /\ UNCHANGED <<agent, runs, calls, quiesced, mode, orphaned, barred, events>>

\* The run's budget (AgentTeamRunBudget.observe in onUpdate) asks the bridge to stop the
\* chat's task.
ExceedBudget(id) ==
    /\ mode = "up"
    /\ calls[id] = "executing" /\ Run(id).status = "running"
    /\ calls' = [calls EXCEPT ![id] = "over"]
    /\ UNCHANGED <<agent, task, unread, runs, quiesced, mode, orphaned, barred, events>>

-----------------------------------------------------------------------------
(* The continuation of runAgent, when executeApiTask is answered.           *)

Answered(id) ==
    /\ mode \in {"up", "stopping"}
    /\ calls' = [i \in DOMAIN calls \ {id} |-> calls[i]]

\* How the answer reads: "none" is success.
Outcomes(state) ==
    CASE state = "over" -> {"policy"}
      [] state \in {"busy", "quiesced"} -> {state}
      [] OTHER -> {"none", "error", "policy"}

Close(id, fault) ==
    [Run(id) EXCEPT !.status = IF fault = "none" THEN "completed" ELSE "failed", !.fault = fault]

\* settleFailedTasks, with the failed run already counted.
CircuitOpens(l, fault) ==
    LET failures == {k \in DOMAIN runs[l] : runs[l][k].status = "failed"}
        same     == {k \in failures : runs[l][k].fault = fault}
    IN \/ fault = "policy"
       \/ Cardinality(same) + 1 >= SameFailureLimit
       \/ Cardinality(failures) + 1 >= FailedRunLimit

Settled(l, fault) ==
    IF fault = "none" THEN "completed" ELSE IF CircuitOpens(l, fault) THEN "failed" ELSE "pending"

InProgress(S) == {t \in S \cap Task : task[t].status = "in_progress"}

\* setAgentIdleIfNoRunningRuns, once the runs in S are closed.
Rested(a, S) ==
    IF agent[a] = "stopped" \/ RunningOf(a) \ S # {} THEN agent ELSE [agent EXCEPT ![a] = "idle"]

WasStopped_Bug(id) == FALSE
WasStopped(id) == Run(id).status = "stopped"

\* A stopped run's late answer is dropped; its task goes back if it is in progress.
DropAnswer(id) ==
    /\ Answered(id)
    /\ WasStopped(id)
    /\ SetTasks(InProgress({id[1]}), "pending")
    /\ agent' = Rested(Run(id).agent, {})
    /\ UNCHANGED <<unread, runs, quiesced, mode, orphaned, barred, events>>

Settles_Bug(id, fault) == IF fault = "busy" THEN {} ELSE InProgress({id[1]})
Settles(id, fault) == InProgress({id[1]})

RecordAnswer(id) ==
    /\ Answered(id)
    /\ ~WasStopped(id)
    /\ \E fault \in Outcomes(calls[id]) :
          /\ runs' = [runs EXCEPT ![id[1]][id[2]] = Close(id, fault)]
          /\ SetTasks(Settles(id, fault), Settled(id[1], fault))
    /\ agent' = Rested(Run(id).agent, {id})
    /\ UNCHANGED <<unread, quiesced, mode, orphaned, barred, events>>

\* updateRun and updateTask are two transactions: the process dies between them.
DieBetween(id) ==
    /\ mode \in {"up", "stopping"} /\ Event
    /\ ~WasStopped(id)
    /\ \E fault \in Outcomes(calls[id]) :
          runs' = [runs EXCEPT ![id[1]][id[2]] = Close(id, fault)]
    /\ orphaned' = orphaned \cup InProgress({id[1]})
    /\ calls' = <<>> /\ quiesced' = FALSE /\ mode' = "down"
    /\ UNCHANGED <<agent, task, unread, barred>>

-----------------------------------------------------------------------------
(* What the lead and the teammates do through the routes.                   *)

CreateTask(t, a) ==
    /\ mode = "up" /\ task[t].status = "none"
    /\ \A u \in Task : u < t => task[u].status # "none"
    /\ task' = [task EXCEPT ![t] = [status |-> "pending", owner |-> a]]
    /\ UNCHANGED <<agent, unread, runs, calls, quiesced, mode, orphaned, barred, events>>

SendMail(a, t) ==
    /\ mode = "up" /\ Event
    /\ unread' = unread \cup {<<a, t>>}
    /\ UNCHANGED <<agent, task, runs, calls, quiesced, mode, orphaned, barred>>

\* PATCH tasks/:id, by anybody who may coordinate the team, asks for no status.  A teammate
\* that records its result during its turn is the expected use and needs no bound.
SetStatus(t, status) ==
    /\ mode = "up" /\ task[t].status # "none"
    /\ status \notin {"none", task[t].status}
    /\ (task[t].status = "in_progress" /\ status = "completed" /\ UNCHANGED events) \/ Event
    /\ SetTasks({t}, status)
    /\ orphaned' = IF status = "in_progress" THEN orphaned \cup {t} ELSE orphaned \ {t}
    /\ UNCHANGED <<agent, unread, runs, calls, quiesced, mode, barred>>

Act == mode = "up" /\ Event

Reassign(t, a) ==
    /\ Act
    /\ task[t].status \in {"pending", "in_progress"} /\ task[t].owner # a
    /\ task' = [task EXCEPT ![t].owner = a]
    /\ UNCHANGED <<agent, unread, runs, calls, quiesced, mode, orphaned, barred>>

\* bridge.stopChatTask(chatId) stops whatever has that chat now.
SameChat(i, j) == i = j \/ (Run(i).shared /\ Run(j).shared /\ Run(i).agent = Run(j).agent)

StopChats(S) ==
    calls' = [j \in DOMAIN calls |->
                 IF calls[j] = "executing" /\ \E i \in S \cap DOMAIN calls : SameChat(i, j)
                 THEN "aborted" ELSE calls[j]]

CloseStopped(S) ==
    runs' = [l \in Lane |-> [k \in DOMAIN runs[l] |->
                IF <<l, k>> \in S THEN [runs[l][k] EXCEPT !.status = "stopped"] ELSE runs[l][k]]]

\* Also of a run that has ended, or was stopped before: updateRun asks for no status.
StopRun(id) ==
    /\ Act
    /\ CloseStopped({id})
    /\ StopChats({id})
    /\ SetTasks(InProgress({id[1]}), "pending")
    /\ UNCHANGED <<agent, unread, quiesced, mode, orphaned, barred>>

\* The route of an agent, and the reaper of expired leases.  Only those of a governed
\* instance stop its running runs as well.
StopAgent(a) ==
    /\ Act
    /\ agent' = [agent EXCEPT ![a] = "stopped"]
    /\ IF a \in Governed
       THEN /\ CloseStopped(RunningOf(a))
            /\ StopChats(RunningOf(a))
            /\ SetTasks(InProgress({id[1] : id \in RunningOf(a)}), "pending")
       ELSE UNCHANGED <<runs, calls, task>>
    /\ UNCHANGED <<unread, quiesced, mode, orphaned, barred>>

SpawnAgent(a) ==
    /\ mode = "up" /\ agent[a] = "stopped"
    /\ agent' = [agent EXCEPT ![a] = "idle"]
    /\ UNCHANGED <<task, unread, runs, calls, quiesced, mode, orphaned, barred, events>>

\* The team is stopped, no bot is registered or the reaper of leases throws, which ends the
\* tick; or the pinned bot of the governed instance is not registered.
Bar(S) ==
    /\ Act
    /\ barred' = S /\ S # barred
    /\ UNCHANGED <<agent, task, unread, runs, calls, quiesced, mode, orphaned>>

Unbar ==
    /\ mode = "up" /\ barred # {}
    /\ barred' = {}
    /\ UNCHANGED <<agent, task, unread, runs, calls, quiesced, mode, orphaned, events>>

-----------------------------------------------------------------------------
(* The process.                                                             *)

Quiesce ==
    /\ Act /\ ~quiesced
    /\ quiesced' = TRUE
    /\ UNCHANGED <<agent, task, unread, runs, calls, mode, orphaned, barred>>

Unquiesce ==
    /\ mode = "up" /\ quiesced
    /\ quiesced' = FALSE
    /\ UNCHANGED <<agent, task, unread, runs, calls, mode, orphaned, barred, events>>

\* destroy: no more ticks, every chat is told to stop; answers may still arrive.
Destroy ==
    /\ mode = "up" /\ Event
    /\ mode' = "stopping"
    /\ calls' = [id \in DOMAIN calls |-> IF calls[id] = "executing" THEN "aborted" ELSE calls[id]]
    /\ UNCHANGED <<agent, task, unread, runs, quiesced, orphaned, barred>>

Exit ==
    /\ (mode = "stopping" /\ UNCHANGED events) \/ (mode = "up" /\ Event)
    /\ mode' = "down" /\ calls' = <<>> /\ quiesced' = FALSE
    /\ UNCHANGED <<agent, task, unread, runs, orphaned, barred>>

\* recoverStaleRunningRuns: a run left running fails, whatever its task has been through
\* before, and the task starts over.
Stale == {id \in RunIds : Run(id).status = "running"}

Requeued_Bug == {}
Requeued == InProgress({id[1] : id \in Stale})

Start ==
    /\ mode = "down"
    /\ mode' = "up"
    /\ runs' = [l \in Lane |-> [k \in DOMAIN runs[l] |->
                   IF <<l, k>> \in Stale THEN Close(<<l, k>>, "restart") ELSE runs[l][k]]]
    /\ SetTasks(Requeued, "pending")
    /\ agent' = [a \in Agent |->
                    IF RunningOf(a) # {} /\ agent[a] # "stopped" THEN "idle" ELSE agent[a]]
    /\ UNCHANGED <<unread, calls, quiesced, orphaned, barred, events>>

-----------------------------------------------------------------------------

CallStep(id) == ExceedBudget(id) \/ DropAnswer(id) \/ RecordAnswer(id) \/ DieBetween(id)

LeadStep ==
    \/ \E t \in Task, a \in Agent : CreateTask(t, a) \/ Reassign(t, a)
    \/ \E a \in Agent, t \in Task \cup {NoTask} : SendMail(a, t)
    \/ \E t \in Task, status \in TaskStatus : SetStatus(t, status)
    \/ \E id \in RunIds : StopRun(id)
    \/ \E a \in Agent : StopAgent(a) \/ SpawnAgent(a)
    \/ Bar(Agent) \/ Bar(Governed) \/ Unbar

Next ==
    \/ \E a \in Agent : StartRuns(a) \/ LeakRuns(a) \/ RejectTasks(a)
    \/ \E id \in DOMAIN calls : CallStep(id)
    \/ LeadStep
    \/ Quiesce \/ Unquiesce
    \/ Destroy \/ Exit \/ Start

Spec == Init /\ [][Next]_vars

\* The timer ticks, every call of the bridge ends (it has a wall and an idle timeout), a
\* stopping process exits and a stopped one is started again, a restart that was prepared
\* is done or cancelled.  Nothing is assumed of the lead, of who sets statuses by hand, or of
\* a bot that left.
Fairness ==
    /\ \A a \in Agent : WF_vars(StartRuns(a) \/ RejectTasks(a))
    /\ \A l \in Lane :
          WF_vars(\E id \in DOMAIN calls : id[1] = l /\ (DropAnswer(id) \/ RecordAnswer(id)))
    /\ WF_vars(Unquiesce) /\ WF_vars(mode = "stopping" /\ Exit) /\ WF_vars(Start)

FairSpec == Spec /\ Fairness

-----------------------------------------------------------------------------
(* What must hold.                                                          *)

\* The supervisor leaves no task "in progress" that nobody works on: a run that will settle
\* it is in flight, unless the process died between the two writes that close a run or
\* somebody put the task in progress by hand (requeueInProgressTasks, settleFailedTasks,
\* recoverStaleRunningRuns, PATCH tasks/:id).
NoTaskStranded ==
    mode = "up" =>
        \A t \in Task : task[t].status = "in_progress" =>
            \/ t \in orphaned
            \/ \E id \in DOMAIN calls : id[1] = t /\ Run(id).status = "running"

\* The lanes of an agent that is not governed never meet in one chat, whatever was
\* stopped and is still winding down: none of its runs is refused because the chat is
\* busy (shouldIsolateSessions).
LanesAreIsolated ==
    \A id \in RunIds : Run(id).fault = "busy" => Run(id).agent \in Governed

\* The late answer of an executor changes nothing that was decided: a stopped run stays
\* stopped, a completed, failed or deleted task stays so, also when the run that answers is
\* not the one that has the task now.  Only a hand changes it (updateTask by PATCH).
NoLateOverwrite ==
    [][/\ \A id \in RunIds : Run(id).status = "stopped" => runs'[id[1]][id[2]].status = "stopped"
       /\ \A t \in Task :
             \/ task[t].status \notin Decision
             \/ task'[t].status = task[t].status
             \/ \E status \in TaskStatus : SetStatus(t, status)
      ]_vars

\* Rows that say a run is running which nobody executes: a launch failed half-way.
Leaked == {id \in RunIds : Run(id).status = "running" /\ id \notin DOMAIN calls}

\* Such rows alone take all the runs that an agent may have; a restart or a stop clears them.
Clogged(a) ==
    /\ mode = "up"
    /\ \/ Cardinality(Leaked \cap RunningOf(a)) >= MaxParallel
       \/ a \in Governed /\ Cardinality(Leaked \cap RunningOf(a)) >= MaxRunsPerAgent
       \/ a \in Governed /\ Cardinality(Leaked \cap GovernedRunning) >= MaxActiveRuns

\* Every task that waits for its owner is decided, across failures, refusals, full quotas,
\* stops and restarts, unless its owner is stopped, or gets no run as long as its team is
\* stopped, its bot away, the tick throws or its runs have all leaked, or the task is left in
\* progress by a hand or by a process that died half-way.
EveryTaskSettles ==
    \A t \in Task :
        (task[t].status = "pending")
            ~> \/ task[t].status \in Decision
               \/ task[t].status = "in_progress" /\ t \in orphaned
               \/ agent[task[t].owner] = "stopped"
               \/ task[t].owner \in barred
               \/ Clogged(task[t].owner)
=============================================================================
