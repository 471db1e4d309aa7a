-------------------------- MODULE AgentTeamsProofs --------------------------
(***************************************************************************)
(* The agent teams: first what their supervisor (AgentTeams) never does,   *)
(* for any number of agents and tasks and any limits, then what the two    *)
(* databases of a governed team (TeamGovernance) agree on, for any         *)
(* template and any crashes.  The two parts share nothing.                 *)
(*                                                                         *)
(* The three claims about the supervisor rest on one invariant.  A task in *)
(* progress has a run that is running and, while there is a process, in    *)
(* flight, unless a hand or a death orphaned it (`Worked').  A call that   *)
(* executes belongs to a run that has not been stopped, and only a         *)
(* governed agent is ever told that its chat is busy (`Linked').  Another  *)
(* agent shares its chat only when nothing of it runs and one lane starts  *)
(* (`LoneLane'), so that the chat is free (`AnswerBusy').                  *)
(*                                                                         *)
(* There is one lemma per action.  Closing a run, one statement in the     *)
(* code, is a change of a few rows; the lemmas before the steps say what   *)
(* it leaves of types, statuses and faults.                                *)
(***************************************************************************)
EXTENDS AgentTeams, TeamGovernance, FiniteSetTheorems, SequenceTheorems, TLAPS

\* A task that is in progress has a run that will settle it: one that is running, in flight
\* as long as there is a process.
Worked(t) ==
    \/ task[t].status # "in_progress" \/ t \in orphaned
    \/ \E k \in DOMAIN runs[t] :
          runs[t][k].status = "running" /\ (mode # "down" => <<t, k>> \in DOMAIN calls)

\* The chat of a call that executes has not been stopped, nor has its run; a chat that is
\* busy is the stable one of a governed agent.
Linked(id) ==
    /\ calls[id] = "executing" => Run(id).status = "running"
    /\ calls[id] = "busy" => Run(id).agent \in Governed

TeamInv ==
    /\ TypeOK
    /\ \A t \in Task : Worked(t)
    /\ \A id \in DOMAIN calls : Linked(id)
    /\ LanesAreIsolated

\* What a step may never do to a run that was stopped or a task that was decided.
Decided ==
    /\ \A id \in RunIds : Run(id).status = "stopped" => runs'[id[1]][id[2]].status = "stopped"
    /\ \A t \in Task :
          \/ task[t].status \notin Decision
          \/ task'[t].status = task[t].status
          \/ \E status \in TaskStatus : SetStatus(t, status)

-----------------------------------------------------------------------------
(* Run ids, and the types of the parts that an action changes.              *)

IdsOf(r) == UNION {{<<l, k>> : k \in DOMAIN r[l]} : l \in Lane}

LEMMA Ids ==
  ASSUME NEW r
  PROVE  /\ \A l \in Lane : \A k \in DOMAIN r[l] : <<l, k>> \in IdsOf(r)
         /\ \A id \in IdsOf(r) : /\ id[1] \in Lane /\ id[2] \in DOMAIN r[id[1]]
                                 /\ id = <<id[1], id[2]>>
BY DEF IdsOf

LEMMA RunIdsAre == RunIds = IdsOf(runs) /\ RunIds' = IdsOf(runs')
BY DEF RunIds, IdsOf

LEMMA RowsTyped ==
  ASSUME TypeOK
  PROVE  /\ \A l \in Lane : \A k \in DOMAIN runs[l] : runs[l][k] \in RunRow
         /\ \A l \in Lane : DOMAIN runs[l] = 1..Len(runs[l]) /\ Len(runs[l]) \in Nat
         /\ \A id \in RunIds : Run(id) \in RunRow
<1>1. \A l \in Lane : runs[l] \in Seq(RunRow)
  BY DEF TypeOK
<1>2. \A l \in Lane : DOMAIN runs[l] = 1..Len(runs[l]) /\ Len(runs[l]) \in Nat
  BY <1>1
<1>3. \A l \in Lane : \A k \in DOMAIN runs[l] : runs[l][k] \in RunRow
  BY <1>1, <1>2, ElementOfSeq
<1> QED
  BY <1>2, <1>3, Ids, RunIdsAre DEF Run

\* Rows that are changed where they are stay a table.
LEMMA RowsInPlace ==
  ASSUME TypeOK, NEW R, runs' = R,
         R = [l \in Lane |-> [k \in DOMAIN runs[l] |-> R[l][k]]],
         \A l \in Lane : \A k \in DOMAIN runs[l] : R[l][k] \in RunRow
  PROVE  /\ runs' \in [Lane -> Seq(RunRow)]
         /\ \A l \in Lane : DOMAIN runs'[l] = DOMAIN runs[l]
         /\ RunIds' = RunIds
<1>1. \A l \in Lane : runs'[l] = [k \in DOMAIN runs[l] |-> R[l][k]]
  OBVIOUS
<1>2. ASSUME NEW l \in Lane PROVE runs'[l] \in Seq(RunRow)
  <2> DEFINE n == Len(runs[l])
  <2>1. DOMAIN runs[l] = 1..n /\ n \in Nat
    BY RowsTyped, Zenon
  <2> HIDE DEF n
  <2>2. runs'[l] = [k \in 1..n |-> R[l][k]]
    BY <1>1, <2>1, Zenon
  <2>3. \A k \in 1..n : R[l][k] \in RunRow
    BY <2>1, Zenon
  <2>4. [k \in 1..n |-> R[l][k]] \in [1..n -> RunRow]
    BY <2>3, Zenon
  <2> QED
    BY <2>1, <2>2, <2>4, SeqDef, Zenon
<1>3. \A l \in Lane : DOMAIN runs'[l] = DOMAIN runs[l]
  BY <1>1
<1>4. RunIds' = RunIds
  BY <1>3 DEF RunIds
<1> QED
  BY <1>2, <1>3, <1>4

LEMMA SetTasksType ==
  ASSUME TypeOK, NEW S, NEW status \in TaskStatus, SetTasks(S, status)
  PROVE  /\ task' \in [Task -> [status : TaskStatus, owner : Agent]]
         /\ \A t \in Task : task'[t].status = IF t \in S THEN status ELSE task[t].status
         /\ \A t \in Task : task'[t].owner = task[t].owner
BY DEF TypeOK, SetTasks

LEMMA CloseStoppedType ==
  ASSUME TypeOK, NEW S, CloseStopped(S)
  PROVE  /\ runs' \in [Lane -> Seq(RunRow)]
         /\ RunIds' = RunIds
         /\ \A l \in Lane : DOMAIN runs'[l] = DOMAIN runs[l]
         /\ \A l \in Lane : \A k \in DOMAIN runs[l] :
               /\ runs'[l][k].status = IF <<l, k>> \in S THEN "stopped" ELSE runs[l][k].status
               /\ runs'[l][k].agent = runs[l][k].agent
               /\ runs'[l][k].fault = runs[l][k].fault
<1>1. \A l \in Lane : \A k \in DOMAIN runs[l] : runs'[l][k] =
         IF <<l, k>> \in S THEN [runs[l][k] EXCEPT !.status = "stopped"] ELSE runs[l][k]
  BY DEF CloseStopped
<1>2. ASSUME NEW row \in RunRow
      PROVE  /\ [row EXCEPT !.status = "stopped"] \in RunRow
             /\ [row EXCEPT !.status = "stopped"].status = "stopped"
             /\ [row EXCEPT !.status = "stopped"].agent = row.agent
             /\ [row EXCEPT !.status = "stopped"].fault = row.fault
  BY DEF RunRow, RunStatus
<1>6. \A l \in Lane : \A k \in DOMAIN runs[l] : runs[l][k] \in RunRow
  BY RowsTyped
<1>5. \A l \in Lane : \A k \in DOMAIN runs[l] : runs'[l][k] \in RunRow
  BY <1>1, <1>2, <1>6, Zenon
<1>3. runs' = [l \in Lane |-> [k \in DOMAIN runs[l] |-> runs'[l][k]]]
  BY DEF CloseStopped
<1>4. /\ runs' \in [Lane -> Seq(RunRow)] /\ RunIds' = RunIds
      /\ \A l \in Lane : DOMAIN runs'[l] = DOMAIN runs[l]
  BY <1>5, <1>3, RowsInPlace
<1>7. ASSUME NEW l \in Lane, NEW k \in DOMAIN runs[l]
      PROVE  /\ runs'[l][k].status = IF <<l, k>> \in S THEN "stopped" ELSE runs[l][k].status
             /\ runs'[l][k].agent = runs[l][k].agent
             /\ runs'[l][k].fault = runs[l][k].fault
  <2>1. CASE <<l, k>> \in S
    <3> DEFINE row == runs[l][k]
               next == [row EXCEPT !.status = "stopped"]
    <3>1. runs'[l][k] = next
      BY <1>1, <2>1, Zenon
    <3>2. row \in RunRow
      BY <1>6, Zenon
    <3>3. next.status = "stopped" /\ next.agent = row.agent /\ next.fault = row.fault
      BY <1>2, <3>2, Zenon
    <3> HIDE DEF row, next
    <3>4. /\ runs'[l][k].status = "stopped" /\ runs'[l][k].agent = row.agent
          /\ runs'[l][k].fault = row.fault
      BY <3>1, <3>3, Zenon
    <3> QED
      BY <2>1, <3>4, Zenon DEF row
  <2>2. CASE <<l, k>> \notin S
    BY <1>1, <2>2, Zenon
  <2> QED
    BY <2>1, <2>2
<1> QED
  BY <1>4, <1>7

LEMMA ClosedRow ==
  ASSUME NEW row \in RunRow, NEW s, NEW fault
  PROVE  [row EXCEPT !.status = s, !.fault = fault]
            = [agent |-> row.agent, shared |-> row.shared, status |-> s, fault |-> fault]
<1>1. [row EXCEPT !.status = s]
         = [agent |-> row.agent, shared |-> row.shared, status |-> s, fault |-> row.fault]
  BY DEF RunRow
<1>2. \A x : x = [agent |-> row.agent, shared |-> row.shared, status |-> s, fault |-> row.fault]
         => [x EXCEPT !.fault = fault]
               = [agent |-> row.agent, shared |-> row.shared, status |-> s, fault |-> fault]
  OBVIOUS
<1> QED
  BY <1>1, <1>2, Zenon

LEMMA CloseType ==
  ASSUME TypeOK, NEW id \in RunIds, NEW fault \in Fault,
         runs' = [runs EXCEPT ![id[1]][id[2]] = Close(id, fault)]
  PROVE  /\ runs' \in [Lane -> Seq(RunRow)]
         /\ RunIds' = RunIds
         /\ \A l \in Lane : DOMAIN runs'[l] = DOMAIN runs[l]
         /\ \A l \in Lane : \A k \in DOMAIN runs[l] :
               <<l, k>> # id => runs'[l][k] = runs[l][k]
         /\ runs'[id[1]][id[2]].status \in {"completed", "failed"}
         /\ runs'[id[1]][id[2]].agent = Run(id).agent
         /\ runs'[id[1]][id[2]].fault = fault
<1>1. id[1] \in Lane /\ id[2] \in DOMAIN runs[id[1]] /\ id = <<id[1], id[2]>>
  BY Ids, RunIdsAre
<1>2. Close(id, fault) \in RunRow
  BY RowsTyped DEF Close, RunRow, RunStatus
<1>3. \A l \in Lane : runs'[l] =
         IF l = id[1] THEN [runs[l] EXCEPT ![id[2]] = Close(id, fault)] ELSE runs[l]
  BY <1>1 DEF TypeOK
<1>4. \A l \in Lane : DOMAIN runs'[l] = DOMAIN runs[l]
  BY <1>3
<1>5. \A l \in Lane : \A k \in DOMAIN runs[l] :
         runs'[l][k] = IF <<l, k>> = id THEN Close(id, fault) ELSE runs[l][k]
  BY <1>1, <1>3
<1>6. \A l \in Lane : runs'[l] \in Seq(RunRow)
  BY <1>1, <1>2, <1>3, ExceptSeq, RowsTyped DEF TypeOK
<1>7. runs' \in [Lane -> Seq(RunRow)]
  BY <1>6 DEF TypeOK
<1>8. RunIds' = RunIds
  BY <1>4 DEF RunIds
<1>9. runs'[id[1]][id[2]] = Close(id, fault)
  BY <1>1, <1>5
<1>10. Close(id, fault) = [agent |-> Run(id).agent, shared |-> Run(id).shared,
                          status |-> IF fault = "none" THEN "completed" ELSE "failed",
                          fault |-> fault]
  <2>1. Run(id) \in RunRow
    BY RowsTyped
  <2> QED
    BY ClosedRow, <2>1, Zenon DEF Close
<1> QED
  BY <1>4, <1>5, <1>7, <1>8, <1>9, <1>10

-----------------------------------------------------------------------------
(* The steps that close no run and open none.                               *)

\* What such a step does to the calls and the tasks: a call may be told to stop, or all may
\* end with the process; no task is taken up and none that was decided changes.
Quiet ==
    /\ UNCHANGED <<runs, orphaned>>
    /\ mode' = "down" \/ (mode # "down" /\ DOMAIN calls' = DOMAIN calls)
    /\ DOMAIN calls' \subseteq DOMAIN calls
    /\ \A id \in DOMAIN calls' : calls'[id] \in {"executing", "busy"} => calls'[id] = calls[id]
    /\ \A t \in Task : task'[t].status # task[t].status =>
          task[t].status \notin Decision /\ task'[t].status # "in_progress"

LEMMA QuietStep ==
  ASSUME TeamInv, TypeOK', Quiet
  PROVE  TeamInv' /\ Decided
<1>1. \A t \in Task : Worked(t)'
  BY DEF TeamInv, Quiet, Worked
<1>2. \A id \in DOMAIN calls' : Linked(id)'
  BY DEF TeamInv, Quiet, Linked, Run
<1>3. LanesAreIsolated'
  BY DEF TeamInv, Quiet, LanesAreIsolated, RunIds, Run
<1>4. Decided
  BY DEF Quiet, Decided, Run
<1> QED
  BY <1>1, <1>2, <1>3, <1>4 DEF TeamInv

LEMMA NextEvent ==
  ASSUME TeamAssumption, TypeOK, Event \/ UNCHANGED events
  PROVE  events' \in 0..MaxEvents
BY DEF TeamAssumption, TypeOK, Event

LEMMA RejectStep ==
  ASSUME TeamAssumption, TeamInv, NEW a \in Agent, RejectTasks(a)
  PROVE  TeamInv' /\ Decided
<1>1. Startable(a) \subseteq Pending(a)
  BY DEF RejectTasks, Startable, Lanes, TaskLanes, Lowest
<1>2. SetTasks(Startable(a), "failed")
  BY DEF RejectTasks
<1>3. TypeOK'
  BY <1>2, SetTasksType DEF TeamInv, TypeOK, RejectTasks, TaskStatus, RunIds
<1>4. Quiet
  BY <1>1, <1>2, SetTasksType DEF TeamInv, RejectTasks, MayTick, Quiet, Pending, TaskStatus, Decision
<1> QED
  BY <1>3, <1>4, QuietStep

LEMMA BudgetStep ==
  ASSUME TeamAssumption, TeamInv, NEW id \in DOMAIN calls, ExceedBudget(id)
  PROVE  TeamInv' /\ Decided
<1>1. TypeOK'
  BY DEF TeamInv, TypeOK, ExceedBudget, CallState, RunIds
<1>2. Quiet
  BY DEF ExceedBudget, Quiet
<1> QED
  BY <1>1, <1>2, QuietStep

LEMMA TaskStep ==
  ASSUME TeamAssumption, TeamInv, NEW t \in Task, NEW a \in Agent,
         CreateTask(t, a) \/ Reassign(t, a)
  PROVE  TeamInv' /\ Decided
<1>1. CASE CreateTask(t, a)
  <2>1. TypeOK'
    BY <1>1 DEF TeamInv, TypeOK, CreateTask, TaskStatus, RunIds
  <2>2. Quiet
    BY <1>1 DEF TeamInv, TypeOK, CreateTask, Quiet, Decision
  <2> QED
    BY <2>1, <2>2, QuietStep
<1>2. CASE Reassign(t, a)
  <2>1. TypeOK'
    BY <1>2, NextEvent DEF TeamInv, TypeOK, Reassign, Act, RunIds
  <2>2. Quiet
    BY <1>2 DEF TeamInv, TypeOK, Reassign, Act, Quiet
  <2> QED
    BY <2>1, <2>2, QuietStep
<1> QED
  BY <1>1, <1>2

\* A status set by hand: only this step puts a task in progress without a run, and it says so.
LEMMA SetStatusStep ==
  ASSUME TeamAssumption, TeamInv, NEW t \in Task, NEW status \in TaskStatus, SetStatus(t, status)
  PROVE  TeamInv' /\ Decided
<1>1. /\ SetTasks({t}, status) /\ (Event \/ UNCHANGED events)
      /\ UNCHANGED <<agent, unread, runs, calls, quiesced, mode, barred>>
      /\ orphaned' = IF status = "in_progress" THEN orphaned \cup {t} ELSE orphaned \ {t}
  BY DEF SetStatus
<1>2. /\ task' \in [Task -> [status : TaskStatus, owner : Agent]]
      /\ \A u \in Task : task'[u].status = IF u \in {t} THEN status ELSE task[u].status
  BY <1>1, SetTasksType DEF TeamInv
<1>3. TypeOK'
  BY <1>1, <1>2, NextEvent DEF TeamInv, TypeOK, RunIds
<1>4. ASSUME NEW u \in Task PROVE Worked(u)'
  <2>1. CASE u = t
    BY <1>1, <1>2, <2>1 DEF Worked
  <2>2. CASE u # t
    <3>1. task'[u].status = task[u].status /\ (u \in orphaned' <=> u \in orphaned) /\ Worked(u)
      BY <1>1, <1>2, <2>2 DEF TeamInv
    <3> QED
      BY <1>1, <3>1 DEF Worked
  <2> QED
    BY <2>1, <2>2
<1>5. /\ \A id \in DOMAIN calls' : Linked(id)'
      /\ LanesAreIsolated'
  BY <1>1 DEF TeamInv, Linked, LanesAreIsolated, RunIds, Run
<1>6. \A u \in Task : u # t => task'[u].status = task[u].status
  BY <1>2
<1>7. \A u \in Task : task'[u].status = task[u].status \/ \E s \in TaskStatus : SetStatus(u, s)
  BY <1>6, Zenon
<1>8. \A id \in RunIds : Run(id).status = "stopped" => runs'[id[1]][id[2]].status = "stopped"
  BY <1>1 DEF Run
<1>9. Decided
  BY <1>7, <1>8, Zenon DEF Decided
<1> QED
  BY <1>3, <1>4, <1>5, <1>9 DEF TeamInv

LEMMA BarStep ==
  ASSUME TeamAssumption, TeamInv, Bar(Agent) \/ Bar(Governed) \/ Unbar
  PROVE  TeamInv' /\ Decided
<1>1. /\ UNCHANGED <<agent, task, unread, runs, calls, quiesced, mode, orphaned>>
      /\ barred' \subseteq Agent /\ mode = "up" /\ (Event \/ UNCHANGED events)
  BY DEF TeamAssumption, Bar, Unbar, Act
<1>2. TypeOK'
  BY <1>1, NextEvent DEF TeamInv, TypeOK, RunIds
<1>3. Quiet
  BY <1>1 DEF Quiet
<1> QED
  BY <1>2, <1>3, QuietStep

LEMMA MailStep ==
  ASSUME TeamAssumption, TeamInv, NEW a \in Agent, NEW t \in Task \cup {NoTask}, SendMail(a, t)
  PROVE  TeamInv' /\ Decided
<1>1. TypeOK'
  BY NextEvent DEF TeamInv, TypeOK, SendMail, RunIds
<1>2. Quiet
  BY DEF SendMail, Quiet
<1> QED
  BY <1>1, <1>2, QuietStep

LEMMA SpawnStep ==
  ASSUME TeamAssumption, TeamInv, NEW a \in Agent, SpawnAgent(a)
  PROVE  TeamInv' /\ Decided
<1>1. TypeOK'
  BY DEF TeamInv, TypeOK, SpawnAgent, RunIds
<1>2. Quiet
  BY DEF SpawnAgent, Quiet
<1> QED
  BY <1>1, <1>2, QuietStep

LEMMA ProcessStep ==
  ASSUME TeamAssumption, TeamInv, Quiesce \/ Unquiesce \/ Destroy \/ Exit
  PROVE  TeamInv' /\ Decided
<1>1. UNCHANGED <<agent, task, unread, runs, orphaned, barred>> /\ (Event \/ UNCHANGED events)
  BY DEF Quiesce, Unquiesce, Destroy, Exit, Act
<1>2. /\ quiesced' \in BOOLEAN /\ mode' \in {"up", "stopping", "down"}
      /\ mode' = "down" => calls' = <<>> /\ ~quiesced'
      /\ mode' = "down" \/ (mode # "down" /\ DOMAIN calls' = DOMAIN calls)
      /\ DOMAIN calls' \subseteq DOMAIN calls
      /\ \A id \in DOMAIN calls' : calls'[id] = calls[id] \/ calls'[id] = "aborted"
  <2>1. CASE Quiesce \/ Unquiesce
    BY <2>1 DEF TeamInv, TypeOK, Quiesce, Unquiesce, Act
  <2>2. CASE Destroy
    BY <2>2 DEF TeamInv, TypeOK, Destroy
  <2>3. CASE Exit
    <3>1. calls' = <<>> /\ mode' = "down" /\ quiesced' = FALSE
      BY <2>3 DEF Exit
    <3>2. DOMAIN calls' = {}
      BY <3>1
    <3> QED
      BY <3>1, <3>2
  <2> QED
    BY <2>1, <2>2, <2>3
<1>3. TypeOK'
  BY <1>1, <1>2, NextEvent DEF TeamInv, TypeOK, CallState, RunIds
<1>4. Quiet
  BY <1>1, <1>2 DEF Quiet
<1> QED
  BY <1>3, <1>4, QuietStep

-----------------------------------------------------------------------------
(* The continuation of a run.                                               *)

LEMMA RestedType ==
  ASSUME TypeOK, NEW a \in Agent, NEW S
  PROVE  Rested(a, S) \in [Agent -> {"idle", "working", "stopped"}]
BY DEF TypeOK, Rested

LEMMA AnsweredCalls ==
  ASSUME TypeOK, NEW id \in DOMAIN calls, Answered(id)
  PROVE  /\ id \in RunIds /\ Run(id) \in RunRow
         /\ id[1] \in Lane /\ id[2] \in DOMAIN runs[id[1]] /\ id = <<id[1], id[2]>>
         /\ DOMAIN calls' = DOMAIN calls \ {id}
         /\ \A i \in DOMAIN calls' : i \in DOMAIN calls /\ calls'[i] = calls[i]
         /\ mode # "down"
<1>1. id \in RunIds
  BY DEF TypeOK
<1>2. Run(id) \in RunRow
  BY <1>1, RowsTyped
<1>3. id[1] \in Lane /\ id[2] \in DOMAIN runs[id[1]] /\ id = <<id[1], id[2]>>
  BY <1>1, Ids, RunIdsAre
<1> QED
  BY <1>1, <1>2, <1>3 DEF Answered

LEMMA DropStep ==
  ASSUME TeamAssumption, TeamInv, NEW id \in DOMAIN calls, DropAnswer(id)
  PROVE  TeamInv' /\ Decided
<1>1. TypeOK /\ Answered(id) /\ WasStopped(id) /\ SetTasks(InProgress({id[1]}), "pending")
  BY DEF TeamInv, DropAnswer
<1>2. UNCHANGED <<unread, runs, quiesced, mode, orphaned, barred, events>>
  BY DEF DropAnswer
<1>3. \A t \in Task : t \in InProgress({id[1]}) <=> t = id[1] /\ task[t].status = "in_progress"
  BY DEF InProgress
<1>4. agent' \in [Agent -> {"idle", "working", "stopped"}]
  BY <1>1, AnsweredCalls, RestedType DEF DropAnswer, RunRow
<1>5. TypeOK'
  <2>1. task' \in [Task -> [status : TaskStatus, owner : Agent]]
    BY <1>1, SetTasksType DEF TaskStatus
  <2>2. RunIds' = RunIds
    BY <1>2 DEF RunIds
  <2>3. DOMAIN calls' \subseteq RunIds' /\ \A i \in DOMAIN calls' : calls'[i] \in CallState
    BY <1>1, <2>2, AnsweredCalls DEF TypeOK
  <2> QED
    BY <1>1, <1>2, <1>4, <2>1, <2>3, AnsweredCalls DEF TypeOK
<1>10. \A t \in Task :
          task'[t].status = IF t \in InProgress({id[1]}) THEN "pending" ELSE task[t].status
  BY <1>1, SetTasksType DEF TaskStatus
<1>6. ASSUME NEW t \in Task PROVE Worked(t)'
  <2>1. CASE t = id[1] /\ task[t].status = "in_progress"
    BY <1>3, <1>10, <2>1 DEF Worked
  <2>2. CASE ~(t = id[1] /\ task[t].status = "in_progress")
    <3>1. task'[t].status = task[t].status
      BY <1>3, <1>10, <2>2
    <3>2. CASE task[t].status # "in_progress" \/ t \in orphaned
      BY <1>2, <3>1, <3>2 DEF Worked
    <3>3. CASE task[t].status = "in_progress" /\ t \notin orphaned
      <4>1. PICK k \in DOMAIN runs[t] :
               runs[t][k].status = "running" /\ (mode # "down" => <<t, k>> \in DOMAIN calls)
        BY <3>3 DEF TeamInv, Worked
      <4>2. <<t, k>> # id
        BY <2>2, <3>3
      <4> QED
        BY <1>1, <1>2, <4>1, <4>2, AnsweredCalls DEF Worked
    <3> QED
      BY <3>2, <3>3
  <2> QED
    BY <2>1, <2>2
<1>7. \A i \in DOMAIN calls' : Linked(i)'
  BY <1>1, <1>2, AnsweredCalls DEF TeamInv, Linked, Run
<1>8. LanesAreIsolated'
  BY <1>2 DEF TeamInv, LanesAreIsolated, RunIds, Run
<1>9. Decided
  BY <1>2, <1>3, <1>10 DEF Decided, Decision, Run
<1> QED
  BY <1>5, <1>6, <1>7, <1>8, <1>9 DEF TeamInv

LEMMA OutcomesAre ==
  /\ Outcomes("executing") = {"none", "error", "policy"}
  /\ Outcomes("aborted") = {"none", "error", "policy"}
  /\ Outcomes("over") = {"policy"}
  /\ Outcomes("busy") = {"busy"}
  /\ Outcomes("quiesced") = {"quiesced"}
BY DEF Outcomes

\* What the answer writes into the row, also of a process that dies with it.
LEMMA FaultOfAnswer ==
  ASSUME TeamInv, NEW id \in DOMAIN calls, NEW fault \in Outcomes(calls[id])
  PROVE  fault \in Fault /\ (fault = "busy" => Run(id).agent \in Governed)
<1>1. calls[id] \in CallState /\ (calls[id] = "busy" => Run(id).agent \in Governed)
  BY DEF TeamInv, TypeOK, Linked
<1>2. \/ fault \in Outcomes("executing") \/ fault \in Outcomes("aborted")
      \/ fault \in Outcomes("over") \/ fault \in Outcomes("quiesced")
      \/ calls[id] = "busy" /\ fault \in Outcomes("busy")
  BY <1>1 DEF CallState
<1>3. fault \in {"none", "error", "policy", "busy", "quiesced"}
  BY <1>2, OutcomesAre
<1>4. fault = "busy" => calls[id] = "busy"
  BY <1>2, OutcomesAre
<1> QED
  BY <1>1, <1>3, <1>4 DEF Fault

LEMMA ClosedIsolated ==
  ASSUME TeamInv, NEW id \in DOMAIN calls, NEW fault \in Outcomes(calls[id]),
         runs' = [runs EXCEPT ![id[1]][id[2]] = Close(id, fault)]
  PROVE  LanesAreIsolated'
<1>1. /\ id \in RunIds /\ fault \in Fault
      /\ id[1] \in Lane /\ id[2] \in DOMAIN runs[id[1]] /\ id = <<id[1], id[2]>>
  BY FaultOfAnswer, Ids, RunIdsAre DEF TeamInv, TypeOK
<1>2. RunIds' = RunIds
  BY <1>1, CloseType DEF TeamInv
<1>3. SUFFICES ASSUME NEW i \in RunIds, runs'[i[1]][i[2]].fault = "busy"
               PROVE  runs'[i[1]][i[2]].agent \in Governed
  BY <1>2 DEF LanesAreIsolated, Run
<1>4. i[1] \in Lane /\ i[2] \in DOMAIN runs[i[1]] /\ i = <<i[1], i[2]>>
  BY Ids, RunIdsAre
<1>5. CASE i = id
  <2>1. runs'[i[1]][i[2]].agent = Run(id).agent /\ runs'[i[1]][i[2]].fault = fault
    BY <1>1, <1>5, CloseType DEF TeamInv
  <2> QED
    BY <1>3, <2>1, FaultOfAnswer
<1>6. CASE i # id
  <2>1. runs'[i[1]][i[2]] = runs[i[1]][i[2]]
    BY <1>1, <1>4, <1>6, CloseType DEF TeamInv
  <2> QED
    BY <1>3, <2>1 DEF TeamInv, LanesAreIsolated, Run
<1> QED
  BY <1>5, <1>6

LEMMA RecordStep ==
  ASSUME TeamAssumption, TeamInv, NEW id \in DOMAIN calls, RecordAnswer(id)
  PROVE  TeamInv' /\ Decided
<1>1. PICK fault \in Outcomes(calls[id]) :
         /\ runs' = [runs EXCEPT ![id[1]][id[2]] = Close(id, fault)]
         /\ SetTasks(Settles(id, fault), Settled(id[1], fault))
  BY DEF RecordAnswer
<1>2. /\ TypeOK /\ Answered(id) /\ ~WasStopped(id)
      /\ UNCHANGED <<unread, quiesced, mode, orphaned, barred, events>>
  BY DEF TeamInv, RecordAnswer
<1>3. \A t \in Task : t \in Settles(id, fault) <=> t = id[1] /\ task[t].status = "in_progress"
  BY DEF Settles, InProgress
<1>4. Settled(id[1], fault) \in TaskStatus /\ Settled(id[1], fault) # "in_progress"
  BY DEF Settled, TaskStatus
<1>5. id \in RunIds /\ fault \in Fault
  BY <1>2, FaultOfAnswer, AnsweredCalls
<1>6. agent' \in [Agent -> {"idle", "working", "stopped"}]
  BY <1>2, AnsweredCalls, RestedType DEF RecordAnswer, RunRow
<1>7. runs' \in [Lane -> Seq(RunRow)] /\ RunIds' = RunIds
  BY <1>1, <1>2, <1>5, CloseType
<1>8. /\ task' \in [Task -> [status : TaskStatus, owner : Agent]]
      /\ \A t \in Task : task'[t].status = IF t \in Settles(id, fault) THEN Settled(id[1], fault)
                                           ELSE task[t].status
  BY <1>1, <1>2, <1>4, SetTasksType
<1>9. TypeOK'
  <2>1. DOMAIN calls' \subseteq RunIds' /\ \A i \in DOMAIN calls' : calls'[i] \in CallState
    BY <1>2, <1>7, AnsweredCalls DEF TypeOK
  <2>2. mode' # "down"
    BY <1>2, AnsweredCalls
  <2> QED
    BY <1>2, <1>6, <1>7, <1>8, <2>1, <2>2 DEF TypeOK
<1>10. \A l \in Lane : DOMAIN runs'[l] = DOMAIN runs[l]
  BY <1>1, <1>2, <1>5, CloseType
<1>11. \A l \in Lane : \A k \in DOMAIN runs[l] : <<l, k>> # id => runs'[l][k] = runs[l][k]
  BY <1>1, <1>2, <1>5, CloseType
<1>12. ASSUME NEW t \in Task, task'[t].status = "in_progress", t \notin orphaned PROVE Worked(t)'
  <2>1. task[t].status = "in_progress" /\ t # id[1]
    BY <1>3, <1>4, <1>8, <1>12
  <2>2. PICK k \in DOMAIN runs[t] :
           runs[t][k].status = "running" /\ (mode # "down" => <<t, k>> \in DOMAIN calls)
    BY <1>12, <2>1 DEF TeamInv, Worked
  <2>3. <<t, k>> # id /\ t \in Lane
    BY <2>1 DEF Lane
  <2>4. k \in DOMAIN runs'[t] /\ runs'[t][k].status = "running"
    BY <1>10, <1>11, <2>2, <2>3
  <2>5. mode' # "down" => <<t, k>> \in DOMAIN calls'
    BY <1>2, <2>2, <2>3, AnsweredCalls
  <2> QED
    BY <2>4, <2>5 DEF Worked
<1>13. \A t \in Task : Worked(t)'
  BY <1>2, <1>12 DEF Worked
<1>14. ASSUME NEW i \in DOMAIN calls' PROVE Linked(i)'
  <2>1. i \in DOMAIN calls /\ i # id /\ calls'[i] = calls[i]
    BY <1>2, AnsweredCalls
  <2>2. i[1] \in Lane /\ i[2] \in DOMAIN runs[i[1]] /\ i = <<i[1], i[2]>>
    BY <1>2, <2>1, Ids, RunIdsAre DEF TypeOK
  <2>3. runs'[i[1]][i[2]] = runs[i[1]][i[2]]
    BY <1>11, <2>1, <2>2
  <2> QED
    BY <2>1, <2>3 DEF TeamInv, Linked, Run
<1>15. LanesAreIsolated'
  BY <1>1, ClosedIsolated
<1>16. Decided
  <2>1. ASSUME NEW i \in RunIds, Run(i).status = "stopped"
        PROVE  runs'[i[1]][i[2]].status = "stopped"
    <3>1. i # id
      BY <1>2, <2>1 DEF WasStopped
    <3>2. i[1] \in Lane /\ i[2] \in DOMAIN runs[i[1]] /\ i = <<i[1], i[2]>>
      BY Ids, RunIdsAre
    <3> QED
      BY <1>11, <2>1, <3>1, <3>2 DEF Run
  <2> QED
    BY <1>3, <1>8, <2>1 DEF Decided, Decision
<1> QED
  BY <1>9, <1>13, <1>14, <1>15, <1>16 DEF TeamInv

LEMMA DieStep ==
  ASSUME TeamAssumption, TeamInv, NEW id \in DOMAIN calls, DieBetween(id)
  PROVE  TeamInv' /\ Decided
<1>1. PICK fault \in Outcomes(calls[id]) :
         runs' = [runs EXCEPT ![id[1]][id[2]] = Close(id, fault)]
  BY DEF DieBetween
<1>2. /\ TypeOK /\ Event /\ ~WasStopped(id) /\ orphaned' = orphaned \cup InProgress({id[1]})
      /\ calls' = <<>> /\ quiesced' = FALSE /\ mode' = "down"
      /\ UNCHANGED <<agent, task, unread, barred>>
  BY DEF TeamInv, DieBetween
<1>3. id \in RunIds /\ fault \in Fault /\ id = <<id[1], id[2]>>
  BY <1>2, FaultOfAnswer, Ids, RunIdsAre DEF TypeOK
<1>4. /\ runs' \in [Lane -> Seq(RunRow)] /\ RunIds' = RunIds
      /\ \A l \in Lane : DOMAIN runs'[l] = DOMAIN runs[l]
      /\ \A l \in Lane : \A k \in DOMAIN runs[l] : <<l, k>> # id => runs'[l][k] = runs[l][k]
  BY <1>1, <1>2, <1>3, CloseType
<1>5. DOMAIN calls' = {}
  BY <1>2
<1>6. TypeOK'
  <2>1. orphaned' \subseteq Task
    BY <1>2 DEF TypeOK, InProgress
  <2> QED
    BY <1>2, <1>4, <1>5, <2>1, NextEvent DEF TypeOK
<1>7. ASSUME NEW t \in Task, task[t].status = "in_progress", t \notin orphaned' PROVE Worked(t)'
  <2>1. t # id[1] /\ t \notin orphaned
    BY <1>2, <1>7 DEF InProgress
  <2>2. PICK k \in DOMAIN runs[t] : runs[t][k].status = "running"
    BY <1>7, <2>1 DEF TeamInv, Worked
  <2>3. <<t, k>> # id /\ t \in Lane
    BY <1>3, <2>1 DEF Lane
  <2>4. k \in DOMAIN runs'[t] /\ runs'[t][k].status = "running"
    BY <1>4, <2>2, <2>3
  <2> QED
    BY <1>2, <2>4 DEF Worked
<1>8. \A t \in Task : Worked(t)'
  BY <1>2, <1>7 DEF Worked
<1>9. LanesAreIsolated'
  BY <1>1, ClosedIsolated
<1>10. Decided
  <2>1. ASSUME NEW i \in RunIds, Run(i).status = "stopped"
        PROVE  runs'[i[1]][i[2]].status = "stopped"
    <3>1. i # id
      BY <1>2, <2>1 DEF WasStopped
    <3>2. i[1] \in Lane /\ i[2] \in DOMAIN runs[i[1]] /\ i = <<i[1], i[2]>>
      BY Ids, RunIdsAre
    <3> QED
      BY <1>4, <2>1, <3>1, <3>2 DEF Run
  <2> QED
    BY <1>2, <2>1 DEF Decided, Decision
<1> QED
  BY <1>5, <1>6, <1>8, <1>9, <1>10 DEF TeamInv

-----------------------------------------------------------------------------
(* What the lead stops, and a process that starts.                          *)

\* A stop of the running runs in S, whatever it does to the chats.
LEMMA StoppedRuns ==
  ASSUME TeamInv, TypeOK', NEW S, CloseStopped(S), UNCHANGED <<mode, orphaned, barred>>,
         DOMAIN calls' = DOMAIN calls,
         \A id \in DOMAIN calls : calls'[id] \in {"executing", "busy"} => calls'[id] = calls[id],
         \A id \in DOMAIN calls \cap S : calls'[id] # "executing",
         \A t \in Task : task[t].status = "in_progress" =>
            \/ task'[t].status = "pending"
            \/ task'[t].status = "in_progress" /\ \A k \in DOMAIN runs[t] :
                  runs[t][k].status = "running" => <<t, k>> \notin S,
         \A t \in Task : task[t].status # "in_progress" => task'[t].status = task[t].status
  PROVE  TeamInv' /\ Decided
<1>1. TypeOK
  BY DEF TeamInv
<1>2. /\ RunIds' = RunIds
      /\ \A l \in Lane : DOMAIN runs'[l] = DOMAIN runs[l]
      /\ \A l \in Lane : \A k \in DOMAIN runs[l] :
            /\ runs'[l][k].status = IF <<l, k>> \in S THEN "stopped" ELSE runs[l][k].status
            /\ runs'[l][k].agent = runs[l][k].agent
            /\ runs'[l][k].fault = runs[l][k].fault
  BY <1>1, CloseStoppedType
<1>3. \A id \in RunIds :
         /\ runs'[id[1]][id[2]].status = IF id \in S THEN "stopped" ELSE Run(id).status
         /\ runs'[id[1]][id[2]].agent = Run(id).agent
         /\ runs'[id[1]][id[2]].fault = Run(id).fault
  BY <1>2, Ids, RunIdsAre DEF Run
<1>4. ASSUME NEW t \in Task, task'[t].status = "in_progress", t \notin orphaned PROVE Worked(t)'
  <2>1. /\ task[t].status = "in_progress"
        /\ \A k \in DOMAIN runs[t] : runs[t][k].status = "running" => <<t, k>> \notin S
    BY <1>4
  <2>2. PICK k \in DOMAIN runs[t] :
           runs[t][k].status = "running" /\ (mode # "down" => <<t, k>> \in DOMAIN calls)
    BY <1>4, <2>1 DEF TeamInv, Worked
  <2>3. k \in DOMAIN runs'[t] /\ runs'[t][k].status = "running"
    BY <1>2, <2>1, <2>2 DEF Lane
  <2> QED
    BY <2>2, <2>3 DEF Worked
<1>5. \A t \in Task : Worked(t)'
  BY <1>4 DEF Worked
<1>6. ASSUME NEW id \in DOMAIN calls' PROVE Linked(id)'
  <2>1. id \in RunIds /\ Linked(id)
    BY <1>1 DEF TeamInv, TypeOK
  <2> QED
    BY <1>3, <2>1 DEF Linked, Run
<1>7. LanesAreIsolated'
  BY <1>2, <1>3 DEF TeamInv, LanesAreIsolated, Run
<1>8. Decided
  BY <1>3 DEF Decided, Decision
<1> QED
  BY <1>5, <1>6, <1>7, <1>8 DEF TeamInv

LEMMA StopChatsEffect ==
  ASSUME NEW S, StopChats(S)
  PROVE  /\ DOMAIN calls' = DOMAIN calls
         /\ \A id \in DOMAIN calls : calls'[id] = calls[id] \/ calls'[id] = "aborted"
         /\ \A id \in DOMAIN calls \cap S : calls'[id] # "executing"
BY DEF StopChats, SameChat

LEMMA StoppedType ==
  ASSUME TeamAssumption, TeamInv, NEW S, NEW T, CloseStopped(S), StopChats(S), SetTasks(T, "pending"),
         agent' \in [Agent -> {"idle", "working", "stopped"}], Act,
         UNCHANGED <<unread, quiesced, mode, orphaned, barred>>
  PROVE  TypeOK'
<1>1. TypeOK
  BY DEF TeamInv
<1>2. task' \in [Task -> [status : TaskStatus, owner : Agent]]
  BY <1>1, SetTasksType DEF TaskStatus
<1>3. runs' \in [Lane -> Seq(RunRow)] /\ RunIds' = RunIds
  BY <1>1, CloseStoppedType
<1>4. DOMAIN calls' \subseteq RunIds' /\ \A id \in DOMAIN calls' : calls'[id] \in CallState
  BY <1>1, <1>3, StopChatsEffect DEF TypeOK, CallState
<1>5. mode' = "up" /\ events' \in 0..MaxEvents
  BY <1>1, NextEvent DEF Act
<1> QED
  BY <1>1, <1>2, <1>3, <1>4, <1>5 DEF TypeOK

LEMMA StopRunStep ==
  ASSUME TeamAssumption, TeamInv, NEW id \in RunIds, StopRun(id)
  PROVE  TeamInv' /\ Decided
<1>1. /\ CloseStopped({id}) /\ StopChats({id}) /\ SetTasks(InProgress({id[1]}), "pending")
      /\ Act /\ UNCHANGED <<agent, unread, quiesced, mode, orphaned, barred>>
  BY DEF StopRun
<1>2. TypeOK /\ agent' \in [Agent -> {"idle", "working", "stopped"}]
  BY <1>1 DEF TeamInv, TypeOK
<1>3. TypeOK'
  BY <1>1, <1>2, StoppedType
<1>4. id = <<id[1], id[2]>>
  BY Ids, RunIdsAre
<1>5. \A t \in Task : task'[t].status = IF t \in InProgress({id[1]}) THEN "pending" ELSE task[t].status
  BY <1>1, <1>2, SetTasksType DEF TaskStatus
<1>6. \A t \in Task : t \in InProgress({id[1]}) <=> t = id[1] /\ task[t].status = "in_progress"
  BY DEF InProgress
<1>7. \A t \in Task : task[t].status = "in_progress" =>
         \/ task'[t].status = "pending"
         \/ task'[t].status = "in_progress" /\ \A k \in DOMAIN runs[t] :
               runs[t][k].status = "running" => <<t, k>> \notin {id}
  <2>1. \A t \in Task : t # id[1] => \A k \in DOMAIN runs[t] : <<t, k>> \notin {id}
    BY <1>4
  <2> QED
    BY <1>5, <1>6, <2>1
<1>8. \A t \in Task : task[t].status # "in_progress" => task'[t].status = task[t].status
  BY <1>5, <1>6
<1>9. /\ DOMAIN calls' = DOMAIN calls
      /\ \A i \in DOMAIN calls : calls'[i] = calls[i] \/ calls'[i] = "aborted"
      /\ \A i \in DOMAIN calls \cap {id} : calls'[i] # "executing"
  BY <1>1, StopChatsEffect
<1>10. \A i \in DOMAIN calls : calls'[i] \in {"executing", "busy"} => calls'[i] = calls[i]
  BY <1>9
<1>11. CloseStopped({id}) /\ UNCHANGED <<mode, orphaned, barred>>
  BY <1>1
<1> QED
  BY ONLY TeamInv, <1>3, <1>7, <1>8, <1>9, <1>10, <1>11, StoppedRuns

LEMMA StopAgentStep ==
  ASSUME TeamAssumption, TeamInv, NEW a \in Agent, StopAgent(a)
  PROVE  TeamInv' /\ Decided
<1>1. /\ Act /\ UNCHANGED <<unread, quiesced, mode, orphaned, barred>> /\ TypeOK
      /\ agent' \in [Agent -> {"idle", "working", "stopped"}]
  BY DEF TeamInv, TypeOK, StopAgent
<1>2. CASE a \notin Governed
  <2>1. UNCHANGED <<runs, calls, task>>
    BY <1>2 DEF StopAgent
  <2>2. TypeOK'
    BY <1>1, <2>1, NextEvent DEF TypeOK, Act, RunIds
  <2>3. Quiet
    BY <1>1, <2>1 DEF Quiet, Act
  <2> QED
    BY <2>2, <2>3, QuietStep
<1>3. CASE a \in Governed
  <2> DEFINE T == InProgress({id[1] : id \in RunningOf(a)})
  <2>1. CloseStopped(RunningOf(a)) /\ StopChats(RunningOf(a)) /\ SetTasks(T, "pending")
    BY <1>3 DEF StopAgent
  <2>2. \A t \in T : task[t].status = "in_progress"
    BY DEF InProgress
  <2>3. ASSUME NEW t \in Task, task[t].status = "in_progress", NEW k \in DOMAIN runs[t],
               <<t, k>> \in RunningOf(a)
        PROVE  t \in T
    BY <2>3 DEF InProgress
  <2> HIDE DEF T
  <2>4. TypeOK'
    BY <1>1, <2>1, StoppedType
  <2>5. \A t \in Task : task'[t].status = IF t \in T THEN "pending" ELSE task[t].status
    BY <1>1, <2>1, SetTasksType DEF TaskStatus
  <2>6. \A t \in Task : task[t].status = "in_progress" =>
           \/ task'[t].status = "pending"
           \/ task'[t].status = "in_progress" /\ \A k \in DOMAIN runs[t] :
                 runs[t][k].status = "running" => <<t, k>> \notin RunningOf(a)
    BY <2>3, <2>5
  <2>7. \A t \in Task : task[t].status # "in_progress" => task'[t].status = task[t].status
    BY <2>2, <2>5
  <2> QED
    BY <1>1, <2>1, <2>4, <2>6, <2>7, StopChatsEffect, StoppedRuns
<1> QED
  BY <1>2, <1>3

LEMMA StartStep ==
  ASSUME TeamAssumption, TeamInv, Start
  PROVE  TeamInv' /\ Decided
<1>1. /\ mode = "down" /\ mode' = "up" /\ SetTasks(Requeued, "pending") /\ TypeOK
      /\ UNCHANGED <<unread, calls, quiesced, orphaned, barred, events>>
  BY DEF Start, TeamInv
<1>2. calls = <<>> /\ DOMAIN calls = {}
  BY <1>1 DEF TypeOK
<1>3. \A l \in Lane : \A k \in DOMAIN runs[l] :
         <<l, k>> \in Stale <=> runs[l][k].status = "running"
  BY Ids, RunIdsAre DEF Stale, Run
<1>4. \A l \in Lane : \A k \in DOMAIN runs[l] :
         runs'[l][k] = IF <<l, k>> \in Stale THEN Close(<<l, k>>, "restart") ELSE runs[l][k]
  BY Zenon DEF Start
<1>5. ASSUME NEW l \in Lane, NEW k \in DOMAIN runs[l]
      PROVE  Close(<<l, k>>, "restart")
                = [agent |-> runs[l][k].agent, shared |-> runs[l][k].shared,
                   status |-> "failed", fault |-> "restart"]
  <2>1. runs[l][k] \in RunRow /\ Run(<<l, k>>) = runs[l][k]
    BY <1>1, RowsTyped DEF Run
  <2>2. (IF "restart" = "none" THEN "completed" ELSE "failed") = "failed"
    OBVIOUS
  <2> QED
    BY <2>1, <2>2, ClosedRow, Zenon DEF Close
<1>6. ASSUME NEW l \in Lane, NEW k \in DOMAIN runs[l]
      PROVE  /\ runs'[l][k] \in RunRow
             /\ runs[l][k].status = "stopped" => runs'[l][k].status = "stopped"
             /\ runs'[l][k].agent = runs[l][k].agent
             /\ runs'[l][k].fault = "busy" => runs[l][k].fault = "busy"
  <2>1. runs[l][k] \in RunRow
    BY <1>1, RowsTyped
  <2>2. CASE <<l, k>> \in Stale
    <3>1. runs[l][k].status = "running"
      BY <1>3, <2>2
    <3>2. runs'[l][k] = [agent |-> runs[l][k].agent, shared |-> runs[l][k].shared,
                         status |-> "failed", fault |-> "restart"]
      BY <1>4, <1>5, <2>2, Zenon
    <3> QED
      BY <2>1, <3>1, <3>2 DEF RunRow, RunStatus, Fault
  <2>3. CASE <<l, k>> \notin Stale
    BY <1>4, <2>1, <2>3, Zenon
  <2> QED
    BY <2>2, <2>3
<1>7. /\ runs' \in [Lane -> Seq(RunRow)] /\ RunIds' = RunIds
      /\ \A l \in Lane : DOMAIN runs'[l] = DOMAIN runs[l]
  <2>1. runs' = [l \in Lane |-> [k \in DOMAIN runs[l] |-> runs'[l][k]]]
    BY <1>4, Zenon DEF Start
  <2> QED
    BY <1>1, <1>6, <2>1, RowsInPlace
<1>8. /\ task' \in [Task -> [status : TaskStatus, owner : Agent]]
      /\ \A t \in Task : task'[t].status = IF t \in Requeued THEN "pending" ELSE task[t].status
  BY <1>1, SetTasksType DEF TaskStatus
<1>9. \A t \in Requeued : task[t].status = "in_progress"
  BY DEF Requeued, InProgress
<1>10. TypeOK'
  <2>1. agent' \in [Agent -> {"idle", "working", "stopped"}]
    BY <1>1 DEF Start, TypeOK
  <2> QED
    BY <1>1, <1>2, <1>7, <1>8, <2>1 DEF TypeOK
<1>11. ASSUME NEW t \in Task, task'[t].status = "in_progress", t \notin orphaned PROVE FALSE
  <2>1. task[t].status = "in_progress" /\ t \notin Requeued
    BY <1>8, <1>11
  <2>2. PICK k \in DOMAIN runs[t] : runs[t][k].status = "running"
    BY <1>11, <2>1 DEF TeamInv, Worked
  <2>3. <<t, k>> \in Stale
    BY <1>3, <2>2 DEF Lane
  <2>4. <<t, k>>[1] = t
    OBVIOUS
  <2>5. t \in {id[1] : id \in Stale}
    BY <2>3, <2>4
  <2> QED
    BY <2>1, <2>5 DEF Requeued, InProgress
<1>12. \A t \in Task : Worked(t)'
  BY <1>1, <1>11 DEF Worked
<1>13. \A id \in RunIds :
          /\ Run(id).status = "stopped" => runs'[id[1]][id[2]].status = "stopped"
          /\ runs'[id[1]][id[2]].agent = Run(id).agent
          /\ runs'[id[1]][id[2]].fault = "busy" => Run(id).fault = "busy"
  BY <1>6, Ids, RunIdsAre DEF Run
<1>14. LanesAreIsolated'
  BY <1>7, <1>13 DEF TeamInv, LanesAreIsolated, Run
<1>15. Decided
  BY <1>8, <1>9, <1>13 DEF Decided, Decision
<1> QED
  BY <1>1, <1>2, <1>10, <1>12, <1>14, <1>15 DEF TeamInv

-----------------------------------------------------------------------------
(* A tick opens runs.                                                       *)

\* There are never more than n lowest of any set of tasks: each has a rank of its own.
LEMMA LowestFinite ==
  ASSUME NEW S \in SUBSET Nat, NEW n \in Nat
  PROVE  IsFiniteSet(Lowest(S, n))
<1> DEFINE Below(t) == {u \in S : u < t}
           rank == [t \in Lowest(S, n) |-> Cardinality(Below(t))]
<1>1. Lowest(S, n) \subseteq S /\ \A t \in Lowest(S, n) : Cardinality(Below(t)) < n
  BY DEF Lowest
<1>2. ASSUME NEW t \in S
      PROVE  IsFiniteSet(Below(t)) /\ Cardinality(Below(t)) \in Nat
  <2>1. t \in Nat
    OBVIOUS
  <2>2. Below(t) \in SUBSET Nat
    OBVIOUS
  <2>3. \A s \in Below(t) : s <= t
    BY <2>1, <2>2
  <2> HIDE DEF Below
  <2>4. IsFiniteSet(Below(t))
    BY <2>1, <2>2, <2>3, FS_BoundedSetOfNaturals
  <2> QED
    BY <2>4, FS_CardinalityType
<1>3. ASSUME NEW t \in S, NEW u \in S, t < u
      PROVE  Cardinality(Below(t)) # Cardinality(Below(u))
  <2>1. t \in Below(u) /\ t \notin Below(t)
    BY <1>3
  <2>2. t \in Nat /\ u \in Nat /\ S \subseteq Nat
    OBVIOUS
  <2>3. ASSUME NEW s \in Below(t) PROVE s \in Below(u)
    <3>1. s \in S /\ s \in Nat /\ s < t
      BY <2>2
    <3>2. s < u
      BY <1>3, <2>2, <3>1
    <3> QED
      BY <3>1, <3>2
  <2>4. Below(t) \in SUBSET Below(u)
    BY <2>3
  <2> HIDE DEF Below
  <2> QED
    BY <1>2, <2>1, <2>4, FS_Subset
<1>4. ASSUME NEW t \in S, NEW u \in S, Cardinality(Below(t)) = Cardinality(Below(u))
      PROVE  t = u
  <2>1. t \in Nat /\ u \in Nat
    OBVIOUS
  <2>2. t < u \/ u < t \/ t = u
    BY <2>1
  <2> HIDE DEF Below
  <2> QED
    BY <1>3, <1>4, <2>2
<1> HIDE DEF Below
<1>5. ASSUME NEW t \in Lowest(S, n)
      PROVE  Cardinality(Below(t)) \in 0..(n - 1)
  <2>1. Cardinality(Below(t)) \in Nat /\ Cardinality(Below(t)) < n
    BY <1>1, <1>2
  <2> QED
    BY <2>1
<1>6. rank \in Injection(Lowest(S, n), 0..(n - 1))
  <2>1. rank \in [Lowest(S, n) -> 0..(n - 1)]
    BY <1>5
  <2>2. \A t, u \in Lowest(S, n) : rank[t] = rank[u] => t = u
    BY <1>1, <1>4
  <2> QED
    BY <2>1, <2>2 DEF Injection, IsInjective
<1>7. IsFiniteSet(0..(n - 1))
  BY FS_Interval
<1> HIDE DEF rank
<1> QED
  BY <1>6, <1>7, FS_Injection

LEMMA TwoAreMany ==
  ASSUME NEW S, IsFiniteSet(S), NEW x \in S, NEW y \in S, x # y
  PROVE  Cardinality(S) > 1
<1>1. IsFiniteSet({x}) /\ Cardinality({x}) = 1
  BY FS_Singleton, Zenon
<1>2. IsFiniteSet({x} \cup {y}) /\ Cardinality({x} \cup {y}) = 2
  <2> DEFINE one == {x}
  <2>1. y \notin one /\ IsFiniteSet(one) /\ Cardinality(one) = 1
    BY <1>1
  <2> HIDE DEF one
  <2>2. IsFiniteSet(one \cup {y}) /\ Cardinality(one \cup {y}) = Cardinality(one) + 1
    BY <2>1, FS_AddElement
  <2> QED
    BY <2>1, <2>2 DEF one
<1>3. {x} \cup {y} \in SUBSET S
  OBVIOUS
<1>4. 2 <= Cardinality(S)
  BY <1>2, <1>3, FS_Subset
<1>5. Cardinality(S) \in Nat
  BY FS_CardinalityType
<1> QED
  BY <1>4, <1>5

\* An agent that is not isolated has no run and at most one lane.
LEMMA LoneLane ==
  ASSUME TeamAssumption, NEW a \in Agent, ~Isolated(a), NEW l \in Lanes(a), NEW m \in Lanes(a)
  PROVE  l = m
<1>1. RunningOf(a) = {} /\ ~(Cardinality(Lanes(a)) > 1)
  BY DEF Isolated
<1>2. Cardinality(RunningOf(a)) = 0 /\ MaxParallel \in Nat
  BY <1>1, FS_EmptySet DEF TeamAssumption
<1>3. CASE Lanes(a) = {a}
  BY <1>3
<1>4. CASE Lanes(a) = TaskLanes(a)
  <2>1. TaskLanes(a) = Lowest(Pending(a), MaxParallel)
    BY <1>2 DEF TaskLanes
  <2>2. Pending(a) \in SUBSET Nat
    BY DEF Pending, TeamAssumption
  <2>3. IsFiniteSet(Lanes(a))
    BY <1>2, <1>4, <2>1, <2>2, LowestFinite
  <2> QED
    BY <1>1, <2>3, TwoAreMany
<1> QED
  BY <1>3, <1>4 DEF Lanes

\* A run of an agent that is not governed is not refused because its chat is busy.
LEMMA AnswerBusy ==
  ASSUME TeamAssumption, TeamInv, NEW a \in Agent, NEW l \in Startable(a),
         NEW L \in SUBSET Startable(a), Answer(a, l, L) = "busy"
  PROVE  a \in Governed
<1> SUFFICES ASSUME a \notin Governed PROVE FALSE
  OBVIOUS
<1>1. SharesChat(a) /\ (ChatHolders(a) # {} \/ \E m \in L \ {l} : m < l)
  BY DEF Answer
<1>2. ~Isolated(a)
  BY <1>1 DEF SharesChat
<1>3. ChatHolders(a) = {}
  <2> SUFFICES ASSUME NEW id \in ChatHolders(a) PROVE FALSE
    OBVIOUS
  <2>1. id \in DOMAIN calls /\ calls[id] = "executing" /\ Run(id).agent = a
    BY DEF ChatHolders
  <2>2. id \in RunIds /\ Run(id).status = "running"
    BY <2>1 DEF TeamInv, TypeOK, Linked
  <2>3. id \in RunningOf(a)
    BY <2>1, <2>2 DEF RunningOf
  <2> QED
    BY <1>2, <2>3 DEF Isolated
<1>4. PICK m \in Startable(a) : m # l
  BY <1>1, <1>3
<1>5. m \in Lanes(a) /\ l \in Lanes(a)
  BY DEF Startable
<1> QED
  BY <1>2, <1>4, <1>5, LoneLane

\* The rows that createRun appends for some lanes of an agent.
NewIds(L) == {<<l, Len(runs[l]) + 1>> : l \in L}

LEMMA CreatedRuns ==
  ASSUME TypeOK, NEW a \in Agent, NEW L \in SUBSET Lane, CreateRuns(a, L)
  PROVE  /\ runs' \in [Lane -> Seq(RunRow)]
         /\ \A l \in Lane : /\ DOMAIN runs[l] \subseteq DOMAIN runs'[l]
                            /\ \A k \in DOMAIN runs[l] : runs'[l][k] = runs[l][k]
         /\ \A l \in L : /\ Len(runs[l]) + 1 \in DOMAIN runs'[l]
                         /\ runs'[l][Len(runs[l]) + 1] = NewRow(a)
                         /\ <<l, Len(runs[l]) + 1>> \in NewIds(L)
         /\ RunIds' = RunIds \cup NewIds(L)
         /\ \A id \in RunIds : id \notin NewIds(L) /\ runs'[id[1]][id[2]] = Run(id)
         /\ \A id \in NewIds(L) : id[1] \in L /\ runs'[id[1]][id[2]] = NewRow(a)
<1> DEFINE row == NewRow(a)
           new == NewIds(L)
<1>1. runs' = [l \in Lane |-> IF l \in L THEN Append(runs[l], row) ELSE runs[l]]
  BY DEF CreateRuns
<1>3. row \in RunRow
  BY DEF NewRow, RunRow, RunStatus, Fault, SharesChat, Isolated
<1> HIDE DEF row
<1>5. ASSUME NEW l \in Lane
      PROVE  /\ runs'[l] \in Seq(RunRow)
             /\ DOMAIN runs[l] \subseteq DOMAIN runs'[l]
             /\ \A k \in DOMAIN runs[l] : runs'[l][k] = runs[l][k]
             /\ Len(runs[l]) + 1 \notin DOMAIN runs[l]
             /\ l \in L => /\ DOMAIN runs'[l] = DOMAIN runs[l] \cup {Len(runs[l]) + 1}
                           /\ runs'[l][Len(runs[l]) + 1] = row
             /\ l \notin L => runs'[l] = runs[l]
  <2>1. runs[l] \in Seq(RunRow) /\ DOMAIN runs[l] = 1..Len(runs[l]) /\ Len(runs[l]) \in Nat
    BY RowsTyped DEF TypeOK
  <2>2. CASE l \in L
    <3>1. runs'[l] = Append(runs[l], row)
      BY <1>1, <2>2
    <3> QED
      BY <1>3, <2>1, <2>2, <3>1
  <2>3. CASE l \notin L
    <3>1. runs'[l] = runs[l]
      BY <1>1, <2>3
    <3> QED
      BY <2>1, <2>3, <3>1
  <2> QED
    BY <2>2, <2>3
<1>6. runs' \in [Lane -> Seq(RunRow)]
  BY <1>1, <1>5
<1>7. \A id \in new : /\ id[1] \in L /\ id[1] \in Lane /\ id = <<id[1], Len(runs[id[1]]) + 1>>
                      /\ id[2] = Len(runs[id[1]]) + 1
  BY DEF NewIds
<1>8. \A l \in L : <<l, Len(runs[l]) + 1>> \in new
  BY DEF NewIds
<1> HIDE DEF new
<1>9. RunIds \subseteq RunIds' /\ new \subseteq RunIds'
  <2>1. \A id \in RunIds : id[1] \in Lane /\ id[2] \in DOMAIN runs[id[1]] /\ id = <<id[1], id[2]>>
    BY Ids, RunIdsAre
  <2>2. \A l \in Lane : \A k \in DOMAIN runs'[l] : <<l, k>> \in RunIds'
    BY Ids, RunIdsAre
  <2> QED
    BY <1>5, <1>7, <2>1, <2>2
<1>10. ASSUME NEW id \in RunIds
       PROVE  id \notin new /\ runs'[id[1]][id[2]] = Run(id)
  <2>1. id[1] \in Lane /\ id[2] \in DOMAIN runs[id[1]]
    BY Ids, RunIdsAre
  <2> QED
    BY <1>5, <1>7, <2>1 DEF Run
<1>11. \A id \in new : runs'[id[1]][id[2]] = row
  BY <1>5, <1>7
<1>12. \A id \in RunIds' : id \in RunIds \/ id \in new
  <2> SUFFICES ASSUME NEW id \in RunIds' PROVE id \in RunIds \/ id \in new
    OBVIOUS
  <2>1. id[1] \in Lane /\ id[2] \in DOMAIN runs'[id[1]] /\ id = <<id[1], id[2]>>
    BY Ids, RunIdsAre
  <2>2. CASE id[2] \in DOMAIN runs[id[1]]
    BY <2>1, <2>2, Ids, RunIdsAre
  <2>3. CASE id[2] \notin DOMAIN runs[id[1]]
    BY <1>5, <1>8, <2>1, <2>3
  <2> QED
    BY <2>2, <2>3
<1>13. RunIds' = RunIds \cup new
  BY <1>9, <1>12
<1> QED
  BY <1>5, <1>6, <1>7, <1>8, <1>10, <1>11, <1>13 DEF row, new

\* The new rows are running and of a run that nobody has refused.
LEMMA NewRowIs ==
  ASSUME NEW a
  PROVE  NewRow(a).status = "running" /\ NewRow(a).agent = a /\ NewRow(a).fault = "none"
BY DEF NewRow

LEMMA CreatedIsolated ==
  ASSUME TeamInv, NEW a \in Agent, NEW L \in SUBSET Lane, CreateRuns(a, L)
  PROVE  LanesAreIsolated'
<1> SUFFICES ASSUME NEW id \in RunIds', runs'[id[1]][id[2]].fault = "busy"
             PROVE  runs'[id[1]][id[2]].agent \in Governed
  BY DEF LanesAreIsolated, Run
<1>1. id \notin NewIds(L)
  BY CreatedRuns, NewRowIs DEF TeamInv
<1>2. id \in RunIds /\ runs'[id[1]][id[2]] = Run(id)
  BY <1>1, CreatedRuns DEF TeamInv
<1> QED
  BY <1>2 DEF TeamInv, LanesAreIsolated

LEMMA AdmittedLanes ==
  ASSUME TeamAssumption, NEW a \in Agent
  PROVE  /\ Admitted(a) \subseteq Startable(a) /\ Admitted(a) \in SUBSET Lane
         /\ \A t \in Task : t \in Admitted(a) => task[t].status = "pending"
<1>1. Startable(a) \subseteq Pending(a) \cup {a}
  BY DEF Startable, Lanes, TaskLanes, Lowest
<1>2. a \notin Task
  BY DEF TeamAssumption
<1>3. Admitted(a) \subseteq Startable(a)
  BY DEF Admitted
<1> QED
  BY <1>1, <1>2, <1>3 DEF Pending, Lane

LEMMA StartRunsStep ==
  ASSUME TeamAssumption, TeamInv, NEW a \in Agent, StartRuns(a)
  PROVE  TeamInv' /\ Decided
<1> DEFINE L   == Admitted(a)
           row == NewRow(a)
           new == NewIds(L)
<1>1. /\ CreateRuns(a, L)
      /\ calls' = [id \in DOMAIN calls \cup new |->
                      IF id \in new THEN Answer(a, id[1], L) ELSE calls[id]]
      /\ SetTasks(L, "in_progress") /\ unread' = unread \ MailFor(a, L)
      /\ agent' = [agent EXCEPT ![a] = "working"]
      /\ UNCHANGED <<quiesced, mode, orphaned, barred, events>>
      /\ mode = "up" /\ TypeOK
  BY DEF StartRuns, MayTick, TeamInv, NewIds
<1>2. L \in SUBSET Lane /\ L \subseteq Startable(a) /\ \A t \in Task : t \in L => task[t].status = "pending"
  BY AdmittedLanes
<1>4. \A l \in L : Answer(a, l, L) \in CallState /\ (Answer(a, l, L) = "busy" => a \in Governed)
  BY <1>2, AnswerBusy DEF Answer, CallState
<1>3. row.status = "running" /\ row.agent = a
  BY NewRowIs
<1> HIDE DEF L, row
<1>5. \A l \in Lane : /\ DOMAIN runs[l] \subseteq DOMAIN runs'[l]
                     /\ \A k \in DOMAIN runs[l] : runs'[l][k] = runs[l][k]
  BY <1>1, <1>2, CreatedRuns
<1>6. runs' \in [Lane -> Seq(RunRow)] /\ RunIds' = RunIds \cup new
  BY <1>1, <1>2, CreatedRuns
<1>8. \A l \in L : /\ Len(runs[l]) + 1 \in DOMAIN runs'[l] /\ runs'[l][Len(runs[l]) + 1] = row
                  /\ <<l, Len(runs[l]) + 1>> \in new
  BY <1>1, <1>2, CreatedRuns DEF row
<1>10. \A id \in RunIds : id \notin new /\ runs'[id[1]][id[2]] = Run(id)
  BY <1>1, <1>2, CreatedRuns
<1>11. \A id \in new : id[1] \in L /\ runs'[id[1]][id[2]] = row
  BY <1>1, <1>2, CreatedRuns DEF row
<1> HIDE DEF new
<1>13. /\ DOMAIN calls' = DOMAIN calls \cup new
       /\ \A id \in DOMAIN calls : id \in RunIds /\ calls'[id] = calls[id]
       /\ \A id \in new : calls'[id] = Answer(a, id[1], L)
  BY <1>1, <1>10 DEF TypeOK
<1>14. /\ task' \in [Task -> [status : TaskStatus, owner : Agent]]
       /\ \A t \in Task : task'[t].status = IF t \in L THEN "in_progress" ELSE task[t].status
  BY <1>1, SetTasksType DEF TaskStatus
<1>15. TypeOK'
  <2>1. DOMAIN calls' \subseteq RunIds' /\ \A id \in DOMAIN calls' : calls'[id] \in CallState
    BY <1>1, <1>4, <1>6, <1>11, <1>13 DEF TypeOK
  <2>2. agent' \in [Agent -> {"idle", "working", "stopped"}] /\ unread' \subseteq Agent \X (Task \cup {NoTask})
    BY <1>1 DEF TypeOK
  <2> QED
    BY <1>1, <1>6, <1>14, <2>1, <2>2 DEF TypeOK
<1>16. ASSUME NEW t \in Task PROVE Worked(t)'
  <2>1. CASE t \in L
    <3>1. Len(runs[t]) + 1 \in DOMAIN runs'[t] /\ runs'[t][Len(runs[t]) + 1] = row
      BY <1>8, <2>1
    <3>2. <<t, Len(runs[t]) + 1>> \in DOMAIN calls'
      BY <1>8, <1>13, <2>1
    <3> QED
      BY <1>3, <3>1, <3>2 DEF Worked
  <2>2. CASE t \notin L
    <3>1. task'[t].status = task[t].status /\ Worked(t) /\ t \in Lane
      BY <1>14, <2>2 DEF TeamInv, Lane
    <3>2. UNCHANGED <<mode, orphaned>>
      BY <1>1
    <3>3. CASE \E k \in DOMAIN runs[t] :
                  runs[t][k].status = "running" /\ (mode # "down" => <<t, k>> \in DOMAIN calls)
      BY <1>5, <1>13, <3>1, <3>2, <3>3 DEF Worked
    <3> QED
      BY <3>1, <3>2, <3>3 DEF Worked
  <2> QED
    BY <2>1, <2>2
<1>17. ASSUME NEW id \in DOMAIN calls' PROVE Linked(id)'
  <2>1. CASE id \in DOMAIN calls
    <3>1. calls'[id] = calls[id] /\ runs'[id[1]][id[2]] = Run(id) /\ Linked(id)
      BY <1>10, <1>13, <2>1 DEF TeamInv
    <3> QED
      BY <3>1 DEF Linked, Run
  <2>2. CASE id \in new
    <3>1. calls'[id] = Answer(a, id[1], L) /\ runs'[id[1]][id[2]] = row /\ id[1] \in L
      BY <1>11, <1>13, <2>2
    <3> QED
      BY <1>3, <1>4, <3>1 DEF Linked, Run
  <2> QED
    BY <1>13, <2>1, <2>2
<1>18. LanesAreIsolated'
  BY <1>1, <1>2, CreatedIsolated
<1>19. Decided
  BY <1>2, <1>10, <1>14 DEF Decided, Decision
<1> QED
  BY <1>15, <1>16, <1>17, <1>18, <1>19 DEF TeamInv

\* A launch that fails half-way adds rows and changes nothing else.
LEMMA LeakStep ==
  ASSUME TeamAssumption, TeamInv, NEW a \in Agent, LeakRuns(a)
  PROVE  TeamInv' /\ Decided
<1>1. /\ CreateRuns(a, Admitted(a)) /\ Event /\ mode = "up" /\ TypeOK
      /\ UNCHANGED <<agent, task, unread, calls, quiesced, mode, orphaned, barred>>
  BY DEF LeakRuns, MayTick, TeamInv
<1>2. Admitted(a) \in SUBSET Lane
  BY AdmittedLanes
<1>3. /\ runs' \in [Lane -> Seq(RunRow)] /\ RunIds \subseteq RunIds'
      /\ \A l \in Lane : /\ DOMAIN runs[l] \subseteq DOMAIN runs'[l]
                         /\ \A k \in DOMAIN runs[l] : runs'[l][k] = runs[l][k]
      /\ \A id \in RunIds : runs'[id[1]][id[2]] = Run(id)
  BY <1>1, <1>2, CreatedRuns
<1>4. TypeOK'
  <2>1. DOMAIN calls' \subseteq RunIds'
    BY <1>1, <1>3 DEF TypeOK
  <2> QED
    BY <1>1, <1>3, <2>1, NextEvent DEF TypeOK
<1>5. ASSUME NEW t \in Task PROVE Worked(t)'
  <2>1. Worked(t) /\ t \in Lane
    BY DEF TeamInv, Lane
  <2> QED
    BY <1>1, <1>3, <2>1 DEF Worked
<1>6. ASSUME NEW id \in DOMAIN calls' PROVE Linked(id)'
  <2>1. id \in RunIds /\ Linked(id)
    BY <1>1 DEF TeamInv, TypeOK
  <2> QED
    BY <1>1, <1>3, <2>1 DEF Linked, Run
<1>7. LanesAreIsolated'
  BY <1>1, <1>2, CreatedIsolated
<1>8. Decided
  BY <1>1, <1>3 DEF Decided, Decision
<1> QED
  BY <1>4, <1>5, <1>6, <1>7, <1>8 DEF TeamInv

-----------------------------------------------------------------------------

LEMMA InitInv == TeamAssumption /\ Init => TeamInv
<1> SUFFICES ASSUME TeamAssumption, Init PROVE TeamInv
  OBVIOUS
<1>1. RunIds = {}
  BY DEF Init, RunIds
<1>2. DOMAIN calls = {}
  BY DEF Init
<1>3. runs \in [Lane -> Seq(RunRow)]
  BY DEF Init
<1>4. task \in [Task -> [status : TaskStatus, owner : Agent]]
  BY DEF Init, TaskStatus, TeamAssumption
<1>5. TypeOK
  <2>1. agent \in [Agent -> {"idle", "working", "stopped"}] /\ unread \subseteq Agent \X (Task \cup {NoTask})
    BY DEF Init
  <2>2. mode = "up" /\ quiesced \in BOOLEAN /\ orphaned \subseteq Task /\ barred \subseteq Agent
    BY DEF Init
  <2>3. events \in 0..MaxEvents
    BY DEF Init, TeamAssumption
  <2> QED
    BY <1>1, <1>2, <1>3, <1>4, <2>1, <2>2, <2>3 DEF TypeOK
<1>6. \A t \in Task : Worked(t)
  BY DEF Init, Worked
<1> QED
  BY <1>1, <1>2, <1>5, <1>6 DEF TeamInv, LanesAreIsolated

LEMMA NextInv == TeamAssumption /\ TeamInv /\ [Next]_vars => TeamInv' /\ (Decided \/ UNCHANGED vars)
<1> SUFFICES ASSUME TeamAssumption, TeamInv, [Next]_vars PROVE TeamInv' /\ (Decided \/ UNCHANGED vars)
  OBVIOUS
<1>1. ASSUME NEW a \in Agent, StartRuns(a) \/ LeakRuns(a) PROVE TeamInv' /\ Decided
  BY <1>1, StartRunsStep, LeakStep
<1>2. ASSUME NEW a \in Agent, RejectTasks(a) PROVE TeamInv' /\ Decided
  BY <1>2, RejectStep
<1>3. ASSUME NEW id \in DOMAIN calls, CallStep(id) PROVE TeamInv' /\ Decided
  BY <1>3, BudgetStep, DropStep, RecordStep, DieStep DEF CallStep
<1>4. CASE LeadStep
  <2>1. ASSUME NEW t \in Task, NEW a \in Agent, CreateTask(t, a) \/ Reassign(t, a)
        PROVE  TeamInv' /\ Decided
    BY <2>1, TaskStep
  <2>2. ASSUME NEW t \in Task, NEW status \in TaskStatus, SetStatus(t, status)
        PROVE  TeamInv' /\ Decided
    BY <2>2, SetStatusStep
  <2>3. ASSUME NEW a \in Agent, NEW t \in Task \cup {NoTask}, SendMail(a, t)
        PROVE  TeamInv' /\ Decided
    BY <2>3, MailStep
  <2>4. ASSUME NEW id \in RunIds, StopRun(id) PROVE TeamInv' /\ Decided
    BY <2>4, StopRunStep
  <2>5. ASSUME NEW a \in Agent, StopAgent(a) \/ SpawnAgent(a) PROVE TeamInv' /\ Decided
    BY <2>5, StopAgentStep, SpawnStep
  <2>6. CASE Bar(Agent) \/ Bar(Governed) \/ Unbar
    BY <2>6, BarStep
  <2> QED
    BY <1>4, <2>1, <2>2, <2>3, <2>4, <2>5, <2>6 DEF LeadStep
<1>5. CASE Quiesce \/ Unquiesce \/ Destroy \/ Exit
  BY <1>5, ProcessStep
<1>6. CASE Start
  BY <1>6, StartStep
<1>7. CASE UNCHANGED vars
  <2>1. UNCHANGED <<agent, task, unread, runs, calls, quiesced, mode, orphaned, barred, events>>
    BY <1>7 DEF vars
  <2>2. TypeOK'
    BY <2>1 DEF TeamInv, TypeOK, RunIds
  <2>3. (\A t \in Task : Worked(t)') /\ (\A id \in DOMAIN calls' : Linked(id)') /\ LanesAreIsolated'
    BY <2>1 DEF TeamInv, Worked, Linked, LanesAreIsolated, RunIds, Run
  <2> QED
    BY <1>7, <2>2, <2>3 DEF TeamInv
<1> QED
  BY <1>1, <1>2, <1>3, <1>4, <1>5, <1>6, <1>7 DEF Next

\* Every reachable state satisfies the invariant: each statement of the supervisor, the
\* store and the routes keeps it (tick, runAgent, settleFailedTasks, recoverStaleRunningRuns).
THEOREM InvHolds == Spec => []TeamInv
<1>1. Init => TeamInv
  BY InitInv, TeamAssumption
<1>2. TeamInv /\ [Next]_vars => TeamInv'
  BY NextInv, TeamAssumption
<1> QED
  BY <1>1, <1>2, PTL DEF Spec

\* Every reachable state is well typed; in particular a call in flight is that of a run row.
THEOREM TypeOKHolds == Spec => []TypeOK
<1>1. TeamInv => TypeOK
  BY DEF TeamInv
<1> QED
  BY <1>1, InvHolds, PTL

\* The supervisor leaves no task in progress without a run that will settle it, whatever is
\* stopped, refused, reassigned, set by hand or restarted: a run is only closed together with
\* its task, by the answer, by a stop or by the next start (requeueInProgressTasks,
\* settleFailedTasks).  What a hand puts in progress, or a process that dies between the two
\* writes, is named in `orphaned'.
THEOREM StrandedHolds == Spec => []NoTaskStranded
<1>1. TeamInv => NoTaskStranded
  <2> SUFFICES ASSUME TeamInv, mode = "up", NEW t \in Task, task[t].status = "in_progress", t \notin orphaned
               PROVE  \E id \in DOMAIN calls : id[1] = t /\ Run(id).status = "running"
    BY DEF NoTaskStranded
  <2>1. PICK k \in DOMAIN runs[t] : runs[t][k].status = "running" /\ <<t, k>> \in DOMAIN calls
    BY DEF TeamInv, Worked
  <2> QED
    BY <2>1 DEF Run
<1> QED
  BY <1>1, InvHolds, PTL

\* No run of an agent that is not governed is refused because its chat is busy: each lane
\* has a chat of its own (shouldIsolateSessions), and a stopped run that winds down has
\* freed it.
THEOREM IsolationHolds == Spec => []LanesAreIsolated
<1>1. TeamInv => LanesAreIsolated
  BY DEF TeamInv
<1> QED
  BY <1>1, InvHolds, PTL

\* The late answer of an executor does not change what was decided: a stopped run stays
\* stopped, a task that is completed, failed or deleted stays so until a hand changes it
\* (runAgent after its await, PATCH tasks/:id).
THEOREM LateHolds == Spec => NoLateOverwrite
<1>1. TeamInv /\ [Next]_vars => [Decided]_vars
  BY NextInv, TeamAssumption
<1> QED
  BY <1>1, InvHolds, PTL DEF Spec, NoLateOverwrite, Decided

-----------------------------------------------------------------------------
(***************************************************************************)
(* Governance.  An operation is a sequence of writes, and what is left of  *)
(* it (`todo') has one of a few forms (`Plan'), each of which says what    *)
(* the databases must be like for the rest to end well.  The invariant is  *)
(* that the rest is a plan (`GovernanceInv'); the two claims are about a   *)
(* rest that is empty (`IdlePlan').                                        *)
(*                                                                         *)
(* There is one lemma per form, that its first write leaves a plan         *)
(* (`PlanGoesOn'), and one per action, that what it begins is a plan.  A   *)
(* crash may leave any rest behind, so `Guarded' and `Covered' hold in the *)
(* middle of a plan too: they are all that reconcile needs                 *)
(* (`Reconciling').                                                        *)
(***************************************************************************)

(* What a write does.                                                       *)

LEMMA WrittenIs ==
  /\ \A s : Written(SetTeam(s)) = IF db.team = "none" THEN db ELSE [db EXCEPT !.team = s]
  /\ Written(CreateTeam) = [db EXCEPT !.team = "active"]
  /\ Written(DeleteTeam) = [db EXCEPT !.team = "none", !.agent = [a \in Name |-> "none"]]
  /\ \A a : Written(Upsert(a)) = [db EXCEPT !.agent[a] = "live"]
  /\ \A a : Written(Halt(a)) = IF db.agent[a] = "none" THEN db
                             ELSE [db EXCEPT !.agent[a] = "stopped"]
  /\ \A a : Written(Drop(a)) = [db EXCEPT !.agent[a] = "none"]
  /\ Written(InsertRow) = [db EXCEPT !.instance = "active",
                                     !.lease = [a \in Name |-> IF a \in Template
                                                                THEN "template" ELSE "none"]]
  /\ \A s : Written(SetRow(s)) = [db EXCEPT !.instance = s]
  /\ Written(DeleteRow) = [NoLease(Name) EXCEPT !.instance = "none"]
  /\ \A a, k : Written(Lease(a, k)) = [db EXCEPT !.lease[a] = k]
  /\ \A S : Written(Recycle(S)) = NoLease(S)
  /\ \A s : Written(Return(s)) = db
<1>1. \A s : Written(SetTeam(s)) = IF db.team = "none" THEN db ELSE [db EXCEPT !.team = s]
  BY DEF Written, SetTeam
<1>2. Written(CreateTeam) = [db EXCEPT !.team = "active"]
  BY DEF Written, CreateTeam
<1>3. Written(DeleteTeam) = [db EXCEPT !.team = "none", !.agent = [a \in Name |-> "none"]]
  BY DEF Written, DeleteTeam
<1>4. \A a : Written(Upsert(a)) = [db EXCEPT !.agent[a] = "live"]
  BY DEF Written, Upsert
<1>5. \A a : Written(Halt(a)) = IF db.agent[a] = "none" THEN db
                             ELSE [db EXCEPT !.agent[a] = "stopped"]
  BY DEF Written, Halt
<1>6. \A a : Written(Drop(a)) = [db EXCEPT !.agent[a] = "none"]
  BY DEF Written, Drop
<1>7. Written(InsertRow) = [db EXCEPT !.instance = "active",
                                     !.lease = [a \in Name |-> IF a \in Template
                                                                THEN "template" ELSE "none"]]
  BY DEF Written, InsertRow
<1>8. \A s : Written(SetRow(s)) = [db EXCEPT !.instance = s]
  BY DEF Written, SetRow
<1>9. Written(DeleteRow) = [NoLease(Name) EXCEPT !.instance = "none"]
  BY DEF Written, DeleteRow
<1>10. \A a, k : Written(Lease(a, k)) = [db EXCEPT !.lease[a] = k]
  BY DEF Written, Lease
<1>11. \A S : Written(Recycle(S)) = NoLease(S)
  BY DEF Written, Recycle
<1>12. \A s : Written(Return(s)) = db
  BY DEF Written, Return
<1> QED
  BY <1>1, <1>2, <1>3, <1>4, <1>5, <1>6, <1>7, <1>8, <1>9, <1>10, <1>11, <1>12, Zenon

\* The columns of the two databases after each write.
Rest(d, changed) ==
    /\ "instance" \notin changed => d.instance = db.instance
    /\ "team" \notin changed => d.team = db.team
    /\ "agent" \notin changed => d.agent = db.agent
    /\ "lease" \notin changed => d.lease = db.lease
    /\ "due" \notin changed => d.due = db.due

LEMMA TeamWrites ==
  ASSUME db \in Database
  PROVE  /\ \A s \in Status : LET d == Written(SetTeam(s))
                              IN  /\ d \in Database /\ Rest(d, {"team"})
                                  /\ d.team = IF db.team = "none" THEN "none" ELSE s
         /\ LET d == Written(CreateTeam)
            IN  d \in Database /\ Rest(d, {"team"}) /\ d.team = "active"
         /\ LET d == Written(DeleteTeam)
            IN  /\ d \in Database /\ Rest(d, {"team", "agent"})
                /\ d.team = "none" /\ \A a \in Name : d.agent[a] = "none"
<1>1. ASSUME NEW s \in Status
      PROVE  /\ [db EXCEPT !.team = s] \in Database
             /\ Rest([db EXCEPT !.team = s], {"team"})
             /\ [db EXCEPT !.team = s].team = s
  BY DEF Database, Rest
<1>2. Rest(db, {"team"})
  BY DEF Rest
<1>3. "active" \in Status
  BY DEF Status
<1>4. /\ [db EXCEPT !.team = "none", !.agent = [a \in Name |-> "none"]] \in Database
      /\ Rest([db EXCEPT !.team = "none", !.agent = [a \in Name |-> "none"]], {"team", "agent"})
      /\ [db EXCEPT !.team = "none", !.agent = [a \in Name |-> "none"]].team = "none"
      /\ [db EXCEPT !.team = "none", !.agent = [a \in Name |-> "none"]].agent
            = [a \in Name |-> "none"]
  BY DEF Database, Rest, Status
<1>5. ASSUME NEW s \in Status
      PROVE  LET d == Written(SetTeam(s))
             IN  /\ d \in Database /\ Rest(d, {"team"})
                 /\ d.team = IF db.team = "none" THEN "none" ELSE s
  <2>1. CASE db.team = "none"
    <3>1. Written(SetTeam(s)) = db
      BY <2>1, WrittenIs
    <3> QED
      BY <1>2, <2>1, <3>1
  <2>2. CASE db.team # "none"
    <3>1. Written(SetTeam(s)) = [db EXCEPT !.team = s]
      BY <2>2, WrittenIs
    <3> QED
      BY <1>1, <2>2, <3>1
  <2> QED
    BY <2>1, <2>2
<1>6. LET d == Written(CreateTeam) IN d \in Database /\ Rest(d, {"team"}) /\ d.team = "active"
  BY <1>1, <1>3, WrittenIs
<1>7. LET d == Written(DeleteTeam)
      IN  /\ d \in Database /\ Rest(d, {"team", "agent"})
          /\ d.team = "none" /\ \A a \in Name : d.agent[a] = "none"
  BY <1>4, WrittenIs
<1> QED
  BY <1>5, <1>6, <1>7

LEMMA AgentWrites ==
  ASSUME db \in Database, NEW a \in Name
  PROVE  /\ LET d == Written(Upsert(a))
            IN  /\ d \in Database /\ Rest(d, {"agent"})
                /\ \A b \in Name : d.agent[b] = IF b = a THEN "live" ELSE db.agent[b]
         /\ LET d == Written(Halt(a))
            IN  /\ d \in Database /\ Rest(d, {"agent"})
                /\ d.agent[a] # "live" /\ (db.agent[a] = "none" => d.agent[a] = "none")
                /\ \A b \in Name : b # a => d.agent[b] = db.agent[b]
         /\ LET d == Written(Drop(a))
            IN  /\ d \in Database /\ Rest(d, {"agent"})
                /\ \A b \in Name : d.agent[b] = IF b = a THEN "none" ELSE db.agent[b]
<1>1. ASSUME NEW v \in {"none", "live", "stopped"}, NEW d, d = [db EXCEPT !.agent[a] = v]
      PROVE  /\ d \in Database /\ Rest(d, {"agent"})
             /\ \A b \in Name : d.agent[b] = IF b = a THEN v ELSE db.agent[b]
  <2>1. /\ [db EXCEPT !.agent[a] = v] \in Database
        /\ Rest([db EXCEPT !.agent[a] = v], {"agent"})
    BY DEF Database, Rest
  <2>2. \A b \in Name : [db EXCEPT !.agent[a] = v].agent[b] = IF b = a THEN v ELSE db.agent[b]
    BY DEF Database
  <2> QED
    BY <1>1, <2>1, <2>2, Zenon
<1>2. Rest(db, {"agent"})
  BY DEF Rest
<1>3. LET d == Written(Upsert(a))
      IN  /\ d \in Database /\ Rest(d, {"agent"})
          /\ \A b \in Name : d.agent[b] = IF b = a THEN "live" ELSE db.agent[b]
  <2>1. Written(Upsert(a)) = [db EXCEPT !.agent[a] = "live"]
    BY WrittenIs, Zenon
  <2> QED
    BY <1>1, <2>1, Zenon
<1>4. LET d == Written(Drop(a))
      IN  /\ d \in Database /\ Rest(d, {"agent"})
          /\ \A b \in Name : d.agent[b] = IF b = a THEN "none" ELSE db.agent[b]
  <2>1. Written(Drop(a)) = [db EXCEPT !.agent[a] = "none"]
    BY WrittenIs, Zenon
  <2> QED
    BY <1>1, <2>1, Zenon
<1>5. LET d == Written(Halt(a))
      IN  /\ d \in Database /\ Rest(d, {"agent"})
          /\ d.agent[a] # "live" /\ (db.agent[a] = "none" => d.agent[a] = "none")
          /\ \A b \in Name : b # a => d.agent[b] = db.agent[b]
  <2>1. CASE db.agent[a] = "none"
    <3>1. Written(Halt(a)) = db
      BY <2>1, WrittenIs
    <3> QED
      BY <1>2, <2>1, <3>1
  <2>2. CASE db.agent[a] # "none"
    <3> DEFINE d == Written(Halt(a))
    <3>1. d = [db EXCEPT !.agent[a] = "stopped"]
      BY <2>2, WrittenIs, Zenon
    <3> HIDE DEF d
    <3>2. /\ d \in Database /\ Rest(d, {"agent"})
          /\ \A b \in Name : d.agent[b] = IF b = a THEN "stopped" ELSE db.agent[b]
      BY <1>1, <3>1, Zenon
    <3>3. d.agent[a] = "stopped" /\ \A b \in Name : b # a => d.agent[b] = db.agent[b]
      BY <3>2, Zenon
    <3> QED
      BY <2>2, <3>2, <3>3 DEF d
  <2> QED
    BY <2>1, <2>2
<1> QED
  BY <1>3, <1>4, <1>5

LEMMA LeaseWrites ==
  ASSUME db \in Database
  PROVE  /\ \A a \in Name, k \in Kind :
               LET d == Written(Lease(a, k))
               IN  /\ d \in Database /\ Rest(d, {"lease"})
                   /\ \A b \in Name : d.lease[b] = IF b = a THEN k ELSE db.lease[b]
         /\ \A S \in SUBSET Name :
               LET d == Written(Recycle(S))
               IN  /\ d \in Database /\ Rest(d, {"lease", "due"})
                   /\ \A b \in Name : /\ d.lease[b] = IF b \in S THEN "none" ELSE db.lease[b]
                                      /\ d.due[b] = IF b \in S THEN "no" ELSE db.due[b]
<1>1. ASSUME NEW a \in Name, NEW k \in Kind
      PROVE  LET d == Written(Lease(a, k))
             IN  /\ d \in Database /\ Rest(d, {"lease"})
                 /\ \A b \in Name : d.lease[b] = IF b = a THEN k ELSE db.lease[b]
  <2> DEFINE next == [db EXCEPT !.lease[a] = k]
  <2>1. Written(Lease(a, k)) = next
    BY WrittenIs
  <2>2. next \in Database /\ Rest(next, {"lease"})
    BY DEF Database, Rest
  <2>3. \A b \in Name : next.lease[b] = IF b = a THEN k ELSE db.lease[b]
    BY DEF Database
  <2> HIDE DEF next
  <2> QED
    BY <2>1, <2>2, <2>3, Zenon
<1>2. ASSUME NEW l \in [Name -> Kind], NEW u \in [Name -> {"no", "idle", "ttl"}], NEW d,
             d = [db EXCEPT !.lease = l, !.due = u]
      PROVE  d \in Database /\ Rest(d, {"lease", "due"}) /\ d.lease = l /\ d.due = u
  <2>1. /\ [db EXCEPT !.lease = l, !.due = u] \in Database
        /\ Rest([db EXCEPT !.lease = l, !.due = u], {"lease", "due"})
        /\ [db EXCEPT !.lease = l, !.due = u].lease = l
        /\ [db EXCEPT !.lease = l, !.due = u].due = u
    BY DEF Database, Rest
  <2> QED
    BY <2>1, <1>2
<1>3. ASSUME NEW S \in SUBSET Name
      PROVE  LET d == Written(Recycle(S))
             IN  /\ d \in Database /\ Rest(d, {"lease", "due"})
                 /\ \A b \in Name : /\ d.lease[b] = IF b \in S THEN "none" ELSE db.lease[b]
                                    /\ d.due[b] = IF b \in S THEN "no" ELSE db.due[b]
  <2> DEFINE l == [a \in Name |-> IF a \in S THEN "none" ELSE db.lease[a]]
             u == [a \in Name |-> IF a \in S THEN "no" ELSE db.due[a]]
  <2>1. l \in [Name -> Kind] /\ u \in [Name -> {"no", "idle", "ttl"}]
    BY DEF Database, Kind
  <2>2. Written(Recycle(S)) = [db EXCEPT !.lease = l, !.due = u]
    BY WrittenIs DEF NoLease
  <2>3. \A b \in Name : /\ l[b] = IF b \in S THEN "none" ELSE db.lease[b]
                        /\ u[b] = IF b \in S THEN "no" ELSE db.due[b]
    OBVIOUS
  <2> HIDE DEF l, u
  <2> DEFINE d == Written(Recycle(S))
  <2> HIDE DEF d
  <2>4. \A e : e = [db EXCEPT !.lease = l, !.due = u] =>
          e \in Database /\ Rest(e, {"lease", "due"}) /\ e.lease = l /\ e.due = u
    BY <1>2, <2>1, Zenon
  <2>5. d = [db EXCEPT !.lease = l, !.due = u]
    BY <2>2, Zenon DEF d
  <2>6. d \in Database /\ Rest(d, {"lease", "due"}) /\ d.lease = l /\ d.due = u
    BY <2>4, <2>5, Zenon
  <2>7. \A b \in Name : /\ d.lease[b] = IF b \in S THEN "none" ELSE db.lease[b]
                        /\ d.due[b] = IF b \in S THEN "no" ELSE db.due[b]
    BY <2>3, <2>6, Zenon
  <2> QED
    BY <2>6, <2>7, Zenon DEF d
<1> QED
  BY <1>1, <1>3

LEMMA RowWrites ==
  ASSUME db \in Database
  PROVE  /\ \A s \in Status : LET d == Written(SetRow(s))
                              IN  d \in Database /\ Rest(d, {"instance"}) /\ d.instance = s
         /\ LET d == Written(InsertRow)
            IN  /\ d \in Database /\ Rest(d, {"instance", "lease"}) /\ d.instance = "active"
                /\ \A a \in Name : d.lease[a] = IF a \in Template THEN "template" ELSE "none"
         /\ LET d == Written(DeleteRow)
            IN  /\ d \in Database /\ Rest(d, {"instance", "lease", "due"}) /\ d.instance = "none"
                /\ \A a \in Name : d.lease[a] = "none" /\ d.due[a] = "no"
<1>1. ASSUME NEW e \in Database, NEW s \in Status, NEW d, d = [e EXCEPT !.instance = s]
      PROVE  /\ d \in Database /\ d.instance = s /\ d.team = e.team
             /\ d.agent = e.agent /\ d.lease = e.lease /\ d.due = e.due
  <2>1. /\ [e EXCEPT !.instance = s] \in Database
        /\ [e EXCEPT !.instance = s].instance = s
        /\ [e EXCEPT !.instance = s].team = e.team
        /\ [e EXCEPT !.instance = s].agent = e.agent
        /\ [e EXCEPT !.instance = s].lease = e.lease
        /\ [e EXCEPT !.instance = s].due = e.due
    BY DEF Database
  <2> QED
    BY <2>1, <1>1
<1>2. ASSUME NEW l \in [Name -> Kind], NEW d, d = [db EXCEPT !.instance = "active", !.lease = l]
      PROVE  /\ d \in Database /\ Rest(d, {"instance", "lease"})
             /\ d.instance = "active" /\ d.lease = l
  <2>1. /\ [db EXCEPT !.instance = "active", !.lease = l] \in Database
        /\ Rest([db EXCEPT !.instance = "active", !.lease = l], {"instance", "lease"})
        /\ [db EXCEPT !.instance = "active", !.lease = l].instance = "active"
        /\ [db EXCEPT !.instance = "active", !.lease = l].lease = l
    BY DEF Database, Rest, Status
  <2> QED
    BY <2>1, <1>2
<1>3. LET d == Written(InsertRow)
      IN  /\ d \in Database /\ Rest(d, {"instance", "lease"}) /\ d.instance = "active"
          /\ \A a \in Name : d.lease[a] = IF a \in Template THEN "template" ELSE "none"
  <2> DEFINE l == [a \in Name |-> IF a \in Template THEN "template" ELSE "none"]
  <2>1. l \in [Name -> Kind]
    BY DEF Kind
  <2>2. Written(InsertRow) = [db EXCEPT !.instance = "active", !.lease = l]
    BY WrittenIs
  <2>3. \A a \in Name : l[a] = IF a \in Template THEN "template" ELSE "none"
    OBVIOUS
  <2> HIDE DEF l
  <2>4. /\ Written(InsertRow) \in Database /\ Rest(Written(InsertRow), {"instance", "lease"})
        /\ Written(InsertRow).instance = "active" /\ Written(InsertRow).lease = l
    BY <1>2, <2>1, <2>2, Zenon
  <2> QED
    BY <2>3, <2>4
<1>4. LET d == Written(DeleteRow)
      IN  /\ d \in Database /\ Rest(d, {"instance", "lease", "due"}) /\ d.instance = "none"
          /\ \A a \in Name : d.lease[a] = "none" /\ d.due[a] = "no"
  <2>1. /\ NoLease(Name) \in Database /\ Rest(NoLease(Name), {"lease", "due"})
        /\ \A a \in Name : NoLease(Name).lease[a] = "none" /\ NoLease(Name).due[a] = "no"
    BY LeaseWrites, WrittenIs
  <2>2. Written(DeleteRow) = [NoLease(Name) EXCEPT !.instance = "none"] /\ "none" \in Status
    BY WrittenIs DEF Status
  <2> QED
    BY <1>1, <2>1, <2>2 DEF Rest
<1>5. ASSUME NEW s \in Status
      PROVE  LET d == Written(SetRow(s))
             IN  d \in Database /\ Rest(d, {"instance"}) /\ d.instance = s
  BY <1>1, WrittenIs DEF Rest
<1> QED
  BY <1>3, <1>4, <1>5
-----------------------------------------------------------------------------
(* The invariant.                                                           *)

\* The records of GovernanceTypeOK, of any state of the databases.
Sane(d) ==
    /\ d \in Database
    /\ d.team = "none" => \A a \in Name : d.agent[a] = "none"
    /\ d.instance = "none" => \A a \in Name : d.lease[a] = "none"
    /\ \A a \in Name : d.due[a] # "no" => d.lease[a] = "temporary"

\* The two claims, of the databases d, when the commands allow `may' and `lost' are unleased.
Agreed(d, may) ==
    /\ d.instance # "none" => d.team \in {d.instance, "none"}
    /\ d.instance = "active" => d.team = "active"
    /\ d.team = "active" => "active" \in may

Covered(d, lost) ==
    d.instance # "none" =>
        \A a \in Name \ (Template \cup lost) : d.agent[a] = "live" => d.lease[a] # "none"

Guarded(d, may) == d.instance = "active" => "active" \in may

\* s adds members of the template, and then is e.
Added(s, e) == \E u \in Seq({Upsert(a) : a \in Template}) : s = u \o e

\* s makes the team active first.
Opens(d, s, e) ==
    /\ s # <<>> /\ Added(Tail(s), e)
    /\ Head(s) = CreateTeam \/ (Head(s) = SetTeam("active") /\ d.team # "none")

\* A repair of an active instance, or nothing left to do (reconcile).
Repairs(d, s, may) ==
    \/ Added(s, <<>>) /\ Agreed(d, may) /\ (s # <<>> => d.team # "none")
    \/ Opens(d, s, <<>>) /\ d.instance = "active" /\ "active" \in may

\* reactivateInstance, from its first write or after the team is active.
Revival == <<SetRow("active"), Return("active")>>
Revives(d, s, may) ==
    /\ d.instance # "none" /\ "active" \in may
    /\ Opens(d, s, Revival) \/ (Added(s, Revival) /\ d.team = "active")

\* A new instance, whose row comes last: nobody but its template lives in the team that
\* it finds there (resolveInstance).
Founding == <<InsertRow, Return("active")>>
Founds(d, s, may) ==
    /\ d.instance = "none" /\ "active" \in may
    /\ \/ /\ s # <<>> /\ Head(s) = DeleteTeam /\ Tail(s) # <<>>
          /\ Head(Tail(s)) = CreateTeam /\ Added(Tail(Tail(s)), Founding)
       \/ /\ \A a \in Name : d.agent[a] = "live" => a \in Template
          /\ \/ s # <<>> /\ Head(s) = CreateTeam /\ Added(Tail(s), Founding)
             \/ Added(s, Founding) /\ d.team = "active"

\* One write: a team without an active row is stopped, or the route of an ungoverned team.
Corrects(d, s, may) ==
    \/ s = <<SetTeam("stopped")>> /\ d.instance # "active"
    \/ s = <<SetTeam("active")>> /\ d.instance = "none" /\ "active" \in may
    \/ s = <<DeleteTeam>> /\ d.instance = "none"

\* The row is stopped after its team, deleted before it (stopInstance, deleteInstance).
Stops(d, s) ==
    /\ d.instance # "none"
    /\ \/ s = <<SetTeam("stopped"), SetRow("stopped"), Return("stopped")>>
       \/ s = <<SetRow("stopped"), Return("stopped")>> /\ d.team # "active"

Deletes(d, s) ==
    \/ s = Deletion
    \/ s = <<DeleteTeam, Return("none")>> /\ d.instance = "none"

Answers(d, s) == \E status \in Status : s = <<Return(status)>> /\ Agreed(d, {status})

\* createAgent, up to the agent.
Hires(d, s, may) ==
    /\ Agreed(d, may) /\ d.instance = "active"
    /\ \E a \in Name, kind \in {"custom", "temporary"} :
          \/ s = <<Recycle({a}), Upsert(a), Lease(a, kind)>> /\ d.agent[a] # "live"
          \/ s = <<Upsert(a), Lease(a, kind)>> /\ d.lease[a] = "none"

\* Only here an agent may live that has no lease: the next write is that of its lease.
Leases(d, s, may, lost) ==
    /\ Agreed(d, may) /\ d.instance = "active"
    /\ \E a \in Name, kind \in {"custom", "temporary"} :
          /\ s = <<Lease(a, kind)>> /\ d.lease[a] = "none" /\ d.agent[a] = "live"
          /\ Covered(d, lost \cup {a})

\* Every agent whose lease will be recycled is halted before (reapExpired, stopAgent).
Reaps(d, s, may) ==
    /\ Agreed(d, may)
    /\ \E h \in Seq({Halt(a) : a \in Name}) :
          \/ s = h
          \/ \E S \in SUBSET Name :
                /\ s = h \o <<Recycle(S)>>
                /\ \A a \in S : d.agent[a] = "live" => Halt(a) \in Range(h)

\* deleteAgent.
Drops(d, s, may) ==
    /\ Agreed(d, may)
    /\ \E a \in Name : s = <<Drop(a)>> \/ s = <<Drop(a), Recycle({a})>>

\* What is left of an operation.
Plan(d, s, may, lost) ==
    \/ /\ Covered(d, lost)
       /\ \/ Repairs(d, s, may) \/ Revives(d, s, may) \/ Founds(d, s, may) \/ Corrects(d, s, may)
          \/ Stops(d, s) \/ Deletes(d, s) \/ Answers(d, s)
          \/ Hires(d, s, may) \/ Drops(d, s, may) \/ Reaps(d, s, may)
    \/ Leases(d, s, may, lost)

Write ==
    [do : {"setTeam", "setRow", "return"}, to : Status]
      \cup [do : {"createTeam", "deleteTeam", "insertRow", "deleteRow"}]
      \cup [do : {"upsert", "halt", "drop"}, of : Name]
      \cup [do : {"lease"}, of : Name, kind : Kind]
      \cup [do : {"recycle"}, of : SUBSET Name]

GovernanceInv ==
    /\ GovernanceTypeOK
    /\ todo \in Seq(Write)
    /\ Guarded(db, asked)
    /\ up => Plan(db, todo, asked, unleased)
    /\ ~up => Covered(db, unleased)

-----------------------------------------------------------------------------
(* Sequences of writes.                                                     *)

LEMMA WritesAre ==
  /\ \A s \in Status : SetTeam(s) \in Write /\ SetRow(s) \in Write /\ Return(s) \in Write
  /\ CreateTeam \in Write /\ DeleteTeam \in Write /\ InsertRow \in Write /\ DeleteRow \in Write
  /\ \A a \in Name : Upsert(a) \in Write /\ Halt(a) \in Write /\ Drop(a) \in Write
  /\ \A a \in Name, k \in Kind : Lease(a, k) \in Write
  /\ \A S \in SUBSET Name : Recycle(S) \in Write
BY DEF Write, SetTeam, SetRow, Return, CreateTeam, DeleteTeam, InsertRow, DeleteRow, Upsert,
       Halt, Drop, Lease, Recycle

LEMMA LeaseOfAgent == \A w \in Write : w.do = "lease" => w.of \in Name
BY DEF Write

LEMMA HeadTail ==
  /\ \A x : <<x>> # <<>> /\ Head(<<x>>) = x /\ Tail(<<x>>) = <<>>
  /\ \A x, y : <<x, y>> # <<>> /\ Head(<<x, y>>) = x /\ Tail(<<x, y>>) = <<y>>
  /\ \A x, y, z : <<x, y, z>> # <<>> /\ Head(<<x, y, z>>) = x /\ Tail(<<x, y, z>>) = <<y, z>>
OBVIOUS

LEMMA Joined ==
  /\ \A x, y : <<x>> \o <<y>> = <<x, y>>
  /\ \A x, y, z : <<x>> \o <<y, z>> = <<x, y, z>>
<1>1. ASSUME NEW x, NEW y PROVE <<x>> \o <<y>> = <<x, y>>
  <2> DEFINE S == {x, y}
  <2>1. <<x>> \in Seq(S) /\ <<y>> \in Seq(S) /\ <<x, y>> \in Seq(S)
    OBVIOUS
  <2> HIDE DEF S
  <2>2. /\ Len(<<x>> \o <<y>>) = 2 /\ <<x>> \o <<y>> \in Seq(S)
        /\ \A i \in 1..2 : (<<x>> \o <<y>>)[i] = IF i <= 1 THEN <<x>>[i] ELSE <<y>>[i - 1]
    BY <2>1, ConcatProperties
  <2>3. \A i \in 1..2 : (<<x>> \o <<y>>)[i] = <<x, y>>[i]
    BY <2>2
  <2> QED
    BY <2>1, <2>2, <2>3, SeqEqual
<1>2. ASSUME NEW x, NEW y, NEW z PROVE <<x>> \o <<y, z>> = <<x, y, z>>
  <2> DEFINE S == {x, y, z}
  <2>1. <<x>> \in Seq(S) /\ <<y, z>> \in Seq(S) /\ <<x, y, z>> \in Seq(S)
    OBVIOUS
  <2> HIDE DEF S
  <2>2. /\ Len(<<x>> \o <<y, z>>) = 3 /\ <<x>> \o <<y, z>> \in Seq(S)
        /\ \A i \in 1..3 : (<<x>> \o <<y, z>>)[i] = IF i <= 1 THEN <<x>>[i] ELSE <<y, z>>[i - 1]
    BY <2>1, ConcatProperties
  <2>3. \A i \in 1..3 : (<<x>> \o <<y, z>>)[i] = <<x, y, z>>[i]
    BY <2>2
  <2> QED
    BY <2>1, <2>2, <2>3, SeqEqual
<1> QED
  BY <1>1, <1>2

LEMMA ConsOf ==
  ASSUME NEW x \in Write, NEW s \in Seq(Write)
  PROVE  /\ <<x>> \o s \in Seq(Write) /\ <<x>> \o s # <<>>
         /\ Head(<<x>> \o s) = x /\ Tail(<<x>> \o s) = s
<1>1. <<x>> \in Seq(Write)
  OBVIOUS
<1>2. <<x>> \o s \in Seq(Write) /\ Len(<<x>> \o s) = 1 + Len(s)
  BY <1>1, ConcatProperties
<1>3. (<<x>> \o s)[1] = x /\ \A i \in 1..Len(s) : (<<x>> \o s)[i + 1] = s[i]
  BY <1>1, ConcatProperties
<1> QED
  BY <1>2, <1>3

Adding == {Upsert(a) : a \in Template}

LEMMA ConcatHead ==
  ASSUME NEW u \in Seq(Write), u # <<>>, NEW e \in Seq(Write)
  PROVE  u \o e # <<>> /\ Head(u \o e) = Head(u) /\ Tail(u \o e) = Tail(u) \o e
<1>1. /\ Tail(u) \in Seq(Write) /\ Len(Tail(u)) = Len(u) - 1 /\ Len(u) \in Nat /\ Len(u) >= 1
      /\ \A i \in 1..Len(Tail(u)) : Tail(u)[i] = u[i + 1]
  BY HeadTailProperties, EmptySeq
<1>2. Len(u \o e) = Len(u) + Len(e) /\ u \o e \in Seq(Write) /\ (u \o e)[1] = u[1]
  BY <1>1, ConcatProperties
<1>3. u \o e # <<>> /\ Head(u \o e) = Head(u)
  BY <1>1, <1>2
<1>4. /\ Tail(u) \o e \in Seq(Write) /\ Tail(u \o e) \in Seq(Write)
      /\ Len(Tail(u \o e)) = Len(Tail(u) \o e)
  BY <1>1, <1>2, ConcatProperties
<1>5. \A i \in 1..Len(Tail(u) \o e) : Tail(u \o e)[i] = (Tail(u) \o e)[i]
  <2> SUFFICES ASSUME NEW i \in 1..Len(Tail(u) \o e) PROVE Tail(u \o e)[i] = (Tail(u) \o e)[i]
    OBVIOUS
  <2>1. i \in 1..(Len(u) + Len(e) - 1) /\ Tail(u \o e)[i] = (u \o e)[i + 1]
    BY <1>1, <1>2, ConcatProperties
  <2>2. (u \o e)[i + 1] = IF i + 1 <= Len(u) THEN u[i + 1] ELSE e[i + 1 - Len(u)]
    BY <2>1, ConcatProperties
  <2>3. (Tail(u) \o e)[i] = IF i <= Len(u) - 1 THEN u[i + 1] ELSE e[i - (Len(u) - 1)]
    BY <1>1, <2>1, ConcatProperties
  <2> QED
    BY <2>1, <2>2, <2>3
<1> QED
  BY <1>3, <1>4, <1>5, SeqEqual

\* SetToSeq lists a finite set, each member once.
LEMMA Listed ==
  ASSUME NEW S, IsFiniteSet(S)
  PROVE  /\ Cardinality(S) \in Nat
         /\ SetToSeq(S) \in [1..Cardinality(S) -> S]
         /\ \A x \in S : \E i \in 1..Cardinality(S) : SetToSeq(S)[i] = x
<1> DEFINE n == Cardinality(S)
<1>1. n \in Nat /\ ExistsBijection(1..n, S)
  BY FS_CardinalityType
<1>2. PICK f : f \in Bijection(1..n, S)
  BY <1>1 DEF ExistsBijection
<1>3. f \in [1..n -> S] /\ IsInjective(f)
  BY <1>2 DEF Bijection, Injection
<1>4. SetToSeq(S) \in [1..n -> S] /\ IsInjective(SetToSeq(S))
  BY <1>3 DEF SetToSeq
<1>5. SetToSeq(S) \in Injection(1..n, S)
  BY <1>4 DEF Injection
<1>6. IsFiniteSet(1..n) /\ Cardinality(1..n) = n
  <2>1. 1 \in Int /\ n \in Int
    BY <1>1
  <2>2. IsFiniteSet(1..n) /\ Cardinality(1..n) = IF 1 > n THEN 0 ELSE n - 1 + 1
    BY <2>1, FS_Interval
  <2> QED
    BY <1>1, <2>2
<1>7. SetToSeq(S) \in Surjection(1..n, S)
  BY <1>5, <1>6, FS_Injection
<1> QED
  BY <1>1, <1>4, <1>7 DEF Surjection

LEMMA MembersAre ==
  ASSUME NEW S \in SUBSET Template
  PROVE  Members(S) \in Seq(Adding)
<1>1. IsFiniteSet(S)
  BY FS_Subset, GovernanceAssumption
<1> DEFINE s == SetToSeq(S)
<1>2. Cardinality(S) \in Nat /\ s \in [1..Cardinality(S) -> S]
  BY <1>1, Listed
<1>3. Members(S) = [i \in 1..Cardinality(S) |-> Upsert(s[i])]
  BY <1>2 DEF Members
<1>4. \A i \in 1..Cardinality(S) : Upsert(s[i]) \in Adding
  BY <1>2 DEF Adding
<1> HIDE DEF s
<1> QED
  BY <1>2, <1>3, <1>4, SeqDef

Halting == {Halt(a) : a \in Name}

LEMMA HaltsAre ==
  ASSUME NEW S \in SUBSET Name
  PROVE  Halts(S) \in Seq(Halting) /\ \A a \in S : Halt(a) \in Range(Halts(S))
<1>1. IsFiniteSet(S)
  BY FS_Subset, GovernanceAssumption
<1> DEFINE s == SetToSeq(S)
<1>2. /\ Cardinality(S) \in Nat /\ s \in [1..Cardinality(S) -> S]
      /\ \A x \in S : \E i \in 1..Cardinality(S) : s[i] = x
  BY <1>1, Listed
<1>3. Halts(S) = [i \in 1..Cardinality(S) |-> Halt(s[i])]
  BY <1>2 DEF Halts
<1>4. \A i \in 1..Cardinality(S) : Halt(s[i]) \in Halting
  BY <1>2 DEF Halting
<1> HIDE DEF s
<1>5. Halts(S) \in Seq(Halting)
  BY <1>2, <1>3, <1>4, SeqDef
<1>6. ASSUME NEW a \in S PROVE Halt(a) \in Range(Halts(S))
  <2>1. PICK i \in 1..Cardinality(S) : s[i] = a
    BY <1>2
  <2>2. i \in DOMAIN Halts(S) /\ Halts(S)[i] = Halt(a)
    BY <1>3, <2>1
  <2> QED
    BY <2>2 DEF Range
<1> QED
  BY <1>5, <1>6

LEMMA AddedStep ==
  ASSUME NEW e \in Seq(Write), NEW s, Added(s, e)
  PROVE  /\ s \in Seq(Write)
         /\ \/ s = e
            \/ s # <<>> /\ \E a \in Template : Head(s) = Upsert(a) /\ Added(Tail(s), e)
<1>1. PICK u \in Seq(Adding) : s = u \o e
  BY DEF Added, Adding
<1>2. Adding \subseteq Write
  BY WritesAre, GovernanceAssumption DEF Adding
<1>3. u \in Seq(Write)
  BY <1>2, SeqMonotonic
<1>4. s \in Seq(Write)
  BY <1>1, <1>3, ConcatProperties
<1>5. CASE u = <<>>
  BY <1>1, <1>4, <1>5, ConcatEmptySeq
<1>6. CASE u # <<>>
  <2>1. s # <<>> /\ Head(s) = Head(u) /\ Tail(s) = Tail(u) \o e
    BY <1>1, <1>3, <1>6, ConcatHead
  <2>2. Head(u) \in Adding /\ Tail(u) \in Seq(Adding)
    BY <1>6, HeadTailProperties
  <2>3. Added(Tail(s), e)
    BY <2>1, <2>2 DEF Added, Adding
  <2> QED
    BY <1>4, <2>1, <2>2, <2>3 DEF Adding
<1> QED
  BY <1>5, <1>6

LEMMA AddedMembers ==
  ASSUME NEW S \in SUBSET Template, NEW e \in Seq(Write)
  PROVE  Added(Members(S) \o e, e) /\ Added(Members(S), <<>>) /\ Members(S) \in Seq(Write)
<1>1. Members(S) \in Seq(Adding)
  BY MembersAre
<1>2. Adding \subseteq Write
  BY WritesAre, GovernanceAssumption DEF Adding
<1>3. Members(S) \in Seq(Write)
  BY <1>1, <1>2, SeqMonotonic
<1>4. Members(S) = Members(S) \o <<>>
  BY <1>3, ConcatEmptySeq
<1> QED
  BY <1>1, <1>3, <1>4 DEF Added, Adding

-----------------------------------------------------------------------------
(* What a write does to well-formed databases.                              *)

LEMMA TeamSane ==
  ASSUME Sane(db)
  PROVE  /\ \A s \in {"active", "stopped"} : Sane(Written(SetTeam(s)))
         /\ Sane(Written(CreateTeam)) /\ Sane(Written(DeleteTeam))
<1> USE DEF Sane, Rest
<1>1. ASSUME NEW s \in {"active", "stopped"} PROVE Sane(Written(SetTeam(s)))
  <2>1. s \in Status
    BY DEF Status
  <2> QED
    BY <2>1, TeamWrites
<1>2. Sane(Written(CreateTeam))
  BY TeamWrites
<1>3. Sane(Written(DeleteTeam))
  BY TeamWrites
<1> QED
  BY <1>1, <1>2, <1>3

LEMMA AgentSane ==
  ASSUME Sane(db), NEW a \in Name
  PROVE  /\ db.team # "none" => Sane(Written(Upsert(a)))
         /\ Sane(Written(Halt(a))) /\ Sane(Written(Drop(a)))
<1> USE AgentWrites DEF Sane, Rest
<1>1. db.team # "none" => Sane(Written(Upsert(a)))
  OBVIOUS
<1>2. Sane(Written(Halt(a)))
  OBVIOUS
<1>3. Sane(Written(Drop(a)))
  OBVIOUS
<1> QED
  BY <1>1, <1>2, <1>3

LEMMA LeaseSane ==
  ASSUME Sane(db)
  PROVE  /\ \A a \in Name, k \in {"custom", "temporary"} :
               db.instance # "none" /\ db.lease[a] = "none" => Sane(Written(Lease(a, k)))
         /\ \A S \in SUBSET Name : Sane(Written(Recycle(S)))
<1> USE DEF Sane, Rest
<1>1. ASSUME NEW a \in Name, NEW k \in {"custom", "temporary"},
             db.instance # "none", db.lease[a] = "none"
      PROVE  Sane(Written(Lease(a, k)))
  <2>1. k \in Kind
    BY DEF Kind
  <2>2. db.due[a] = "no"
    BY <1>1
  <2> QED
    BY <1>1, <2>1, <2>2, LeaseWrites
<1>2. ASSUME NEW S \in SUBSET Name PROVE Sane(Written(Recycle(S)))
  BY LeaseWrites
<1> QED
  BY <1>1, <1>2

LEMMA RowSane ==
  ASSUME Sane(db)
  PROVE  /\ \A s \in {"active", "stopped"} : db.instance # "none" => Sane(Written(SetRow(s)))
         /\ db.instance = "none" => Sane(Written(InsertRow))
         /\ Sane(Written(DeleteRow))
<1> USE DEF Sane, Rest
<1>1. ASSUME NEW s \in {"active", "stopped"}, db.instance # "none" PROVE Sane(Written(SetRow(s)))
  <2>1. s \in Status
    BY DEF Status
  <2> QED
    BY <1>1, <2>1, RowWrites
<1>2. ASSUME db.instance = "none" PROVE Sane(Written(InsertRow))
  <2>1. \A a \in Name : db.due[a] = "no"
    BY <1>2
  <2> QED
    BY <2>1, RowWrites
<1>3. Sane(Written(DeleteRow))
  BY RowWrites
<1> QED
  BY <1>1, <1>2, <1>3

-----------------------------------------------------------------------------
(* A plan goes on.  One lemma per kind of operation.                        *)

\* What Continue makes of the history when it performs w.
MayAfter(w, may)   == IF w.do = "return" THEN {w.to} ELSE may
LostAfter(w, lost) == IF w.do = "lease" THEN lost \ {w.of} ELSE lost

GoesOn(s, may, lost) ==
    LET w == Head(s)
        d == Written(w)
    IN  /\ Sane(d) /\ Guarded(d, MayAfter(w, may))
        /\ Plan(d, Tail(s), MayAfter(w, may), LostAfter(w, lost))

LEMMA HistoryAfter ==
  ASSUME NEW may, NEW lost
  PROVE  /\ \A s : /\ MayAfter(SetTeam(s), may) = may /\ LostAfter(SetTeam(s), lost) = lost
                   /\ MayAfter(SetRow(s), may) = may /\ LostAfter(SetRow(s), lost) = lost
                   /\ MayAfter(Return(s), may) = {s} /\ LostAfter(Return(s), lost) = lost
                   /\ MayAfter(Recycle(s), may) = may /\ LostAfter(Recycle(s), lost) = lost
         /\ MayAfter(CreateTeam, may) = may /\ LostAfter(CreateTeam, lost) = lost
         /\ MayAfter(DeleteTeam, may) = may /\ LostAfter(DeleteTeam, lost) = lost
         /\ MayAfter(InsertRow, may) = may /\ LostAfter(InsertRow, lost) = lost
         /\ MayAfter(DeleteRow, may) = may /\ LostAfter(DeleteRow, lost) = lost
         /\ \A a : /\ MayAfter(Upsert(a), may) = may /\ LostAfter(Upsert(a), lost) = lost
                   /\ MayAfter(Halt(a), may) = may /\ LostAfter(Halt(a), lost) = lost
                   /\ MayAfter(Drop(a), may) = may /\ LostAfter(Drop(a), lost) = lost
         /\ \A a, k : MayAfter(Lease(a, k), may) = may /\ LostAfter(Lease(a, k), lost) = lost \ {a}
BY DEF MayAfter, LostAfter, SetTeam, SetRow, Return, Recycle, CreateTeam, DeleteTeam, InsertRow,
       DeleteRow, Upsert, Halt, Drop, Lease

\* Nothing left to do.
LEMMA AtRest ==
  ASSUME NEW d, NEW may, NEW lost, Agreed(d, may), Covered(d, lost)
  PROVE  Plan(d, <<>>, may, lost)
<1>1. <<>> \in Seq(Adding) /\ <<>> \o <<>> = <<>>
  OBVIOUS
<1>2. Added(<<>>, <<>>)
  BY <1>1 DEF Added, Adding
<1> QED
  BY <1>2 DEF Plan, Repairs

\* An upsert of a member of the template changes no claim.
LEMMA AddsMember ==
  ASSUME Sane(db), db.team # "none", NEW a \in Template,
         NEW may, NEW lost, Covered(db, lost), Guarded(db, may)
  PROVE  LET d == Written(Upsert(a))
         IN  /\ Sane(d) /\ d.team = db.team /\ d.instance = db.instance /\ Covered(d, lost)
             /\ Guarded(d, may) /\ (Agreed(db, may) => Agreed(d, may))
             /\ \A b \in Name : d.agent[b] = "live" => db.agent[b] = "live" \/ b \in Template
<1>1. a \in Name
  BY GovernanceAssumption
<1>2. Sane(Written(Upsert(a)))
  BY <1>1, AgentSane
<1> QED
  BY <1>1, <1>2, AgentWrites DEF Sane, Rest, Covered, Guarded, Agreed

\* The team is made active, with the agents it has.
LEMMA OpensTeam ==
  ASSUME Sane(db), NEW w, w = CreateTeam \/ (w = SetTeam("active") /\ db.team # "none"),
         NEW may, NEW lost, Covered(db, lost), Guarded(db, may)
  PROVE  LET d == Written(w)
         IN  /\ Sane(d) /\ d.team = "active" /\ d.instance = db.instance /\ d.agent = db.agent
             /\ Covered(d, lost) /\ Guarded(d, may)
             /\ MayAfter(w, may) = may /\ LostAfter(w, lost) = lost
<1>1. "active" \in Status /\ "active" \in {"active", "stopped"}
  BY DEF Status
<1>2. db \in Database
  BY DEF Sane
<1>3. /\ Sane(Written(w)) /\ Rest(Written(w), {"team"}) /\ Written(w).team = "active"
      /\ MayAfter(w, may) = may /\ LostAfter(w, lost) = lost
  <2>1. CASE w = CreateTeam
    <3>1. Sane(Written(CreateTeam))
      BY TeamSane
    <3>2. Rest(Written(CreateTeam), {"team"}) /\ Written(CreateTeam).team = "active"
      BY <1>2, TeamWrites
    <3> QED
      BY <2>1, <3>1, <3>2, HistoryAfter
  <2>2. CASE w = SetTeam("active") /\ db.team # "none"
    <3>1. Sane(Written(SetTeam("active")))
      BY <1>1, TeamSane
    <3>2. Rest(Written(SetTeam("active")), {"team"}) /\ Written(SetTeam("active")).team = "active"
      BY <1>1, <1>2, <2>2, TeamWrites
    <3> QED
      BY <2>2, <3>1, <3>2, HistoryAfter
  <2> QED
    BY <2>1, <2>2
<1>4. /\ Written(w).instance = db.instance /\ Written(w).agent = db.agent
      /\ Written(w).lease = db.lease
  BY <1>3 DEF Rest
<1> QED
  BY <1>3, <1>4 DEF Covered, Guarded

LEMMA GoingOn ==
  ASSUME NEW s, NEW w, Head(s) = w, NEW may, NEW lost,
         MayAfter(w, may) = may, LostAfter(w, lost) = lost,
         Sane(Written(w)), Guarded(Written(w), may), Plan(Written(w), Tail(s), may, lost)
  PROVE  GoesOn(s, may, lost)
BY DEF GoesOn

LEMMA RepairsGoOn ==
  ASSUME Sane(db), NEW may, NEW lost, Guarded(db, may), Covered(db, lost),
         NEW s, s # <<>>, Repairs(db, s, may)
  PROVE  GoesOn(s, may, lost)
<1>1. <<>> \in Seq(Write)
  OBVIOUS
<1>2. CASE Added(s, <<>>) /\ Agreed(db, may) /\ db.team # "none"
  <2>1. PICK a \in Template : Head(s) = Upsert(a) /\ Added(Tail(s), <<>>)
    BY <1>1, <1>2, AddedStep
  <2> DEFINE d == Written(Upsert(a))
  <2>2. /\ Sane(d) /\ d.team = db.team /\ Covered(d, lost)
        /\ Guarded(d, may) /\ Agreed(d, may)
    BY <1>2, AddsMember
  <2> HIDE DEF d
  <2>3. Repairs(d, Tail(s), may)
    BY <1>2, <2>1, <2>2 DEF Repairs
  <2>4. Plan(d, Tail(s), may, lost)
    BY <2>2, <2>3 DEF Plan
  <2>5. MayAfter(Upsert(a), may) = may /\ LostAfter(Upsert(a), lost) = lost
    BY HistoryAfter
  <2> QED
    BY <2>1, <2>2, <2>4, <2>5, GoingOn DEF d
<1>3. CASE Opens(db, s, <<>>) /\ db.instance = "active" /\ "active" \in may
  <2> DEFINE w == Head(s)
             d == Written(w)
  <2>1. (w = CreateTeam \/ (w = SetTeam("active") /\ db.team # "none")) /\ Added(Tail(s), <<>>)
    BY <1>3 DEF Opens
  <2> HIDE DEF w
  <2>2. /\ Sane(d) /\ d.team = "active" /\ d.instance = db.instance
        /\ Covered(d, lost) /\ Guarded(d, may)
        /\ MayAfter(w, may) = may /\ LostAfter(w, lost) = lost
    BY <2>1, OpensTeam
  <2> HIDE DEF d
  <2>3. Agreed(d, may)
    BY <1>3, <2>2 DEF Agreed
  <2>4. Repairs(d, Tail(s), may)
    BY <2>1, <2>2, <2>3 DEF Repairs
  <2>5. Plan(d, Tail(s), may, lost)
    BY <2>2, <2>4 DEF Plan
  <2> QED
    BY <2>2, <2>5, GoingOn DEF d, w
<1> QED
  BY <1>2, <1>3 DEF Repairs

LEMMA RevivesGoOn ==
  ASSUME Sane(db), NEW may, NEW lost, Guarded(db, may), Covered(db, lost),
         NEW s, s # <<>>, Revives(db, s, may)
  PROVE  GoesOn(s, may, lost)
<1>1. /\ Revival \in Seq(Write) /\ Head(Revival) = SetRow("active")
      /\ Tail(Revival) = <<Return("active")>>
  BY WritesAre DEF Revival, Status
<1>2. db.instance # "none" /\ "active" \in may
  BY DEF Revives
<1>3. CASE Opens(db, s, Revival)
  <2> DEFINE w == Head(s)
             d == Written(w)
  <2>1. (w = CreateTeam \/ (w = SetTeam("active") /\ db.team # "none")) /\ Added(Tail(s), Revival)
    BY <1>3 DEF Opens
  <2> HIDE DEF w
  <2>2. /\ Sane(d) /\ d.team = "active" /\ d.instance = db.instance
        /\ Covered(d, lost) /\ Guarded(d, may)
        /\ MayAfter(w, may) = may /\ LostAfter(w, lost) = lost
    BY <2>1, OpensTeam
  <2> HIDE DEF d
  <2>4. Revives(d, Tail(s), may)
    BY <1>2, <2>1, <2>2 DEF Revives
  <2>5. Plan(d, Tail(s), may, lost)
    BY <2>2, <2>4 DEF Plan
  <2> QED
    BY <2>2, <2>5, GoingOn DEF d, w
<1>4. CASE Added(s, Revival) /\ db.team = "active" /\ s # Revival
  <2>1. PICK a \in Template : Head(s) = Upsert(a) /\ Added(Tail(s), Revival)
    BY <1>1, <1>4, AddedStep
  <2> DEFINE d == Written(Upsert(a))
  <2>2. /\ Sane(d) /\ d.team = db.team /\ d.instance = db.instance /\ Covered(d, lost)
        /\ Guarded(d, may)
    BY <1>4, AddsMember
  <2> HIDE DEF d
  <2>3. Revives(d, Tail(s), may)
    BY <1>2, <1>4, <2>1, <2>2 DEF Revives
  <2>4. Plan(d, Tail(s), may, lost)
    BY <2>2, <2>3 DEF Plan
  <2>5. MayAfter(Upsert(a), may) = may /\ LostAfter(Upsert(a), lost) = lost
    BY HistoryAfter
  <2> QED
    BY <2>1, <2>2, <2>4, <2>5, GoingOn DEF d
<1>5. CASE db.team = "active" /\ s = Revival
  <2> DEFINE d == Written(SetRow("active"))
  <2>1. Sane(d)
    BY <1>2, RowSane
  <2>2. Rest(d, {"instance"}) /\ d.instance = "active"
    BY RowWrites DEF Sane, Status
  <2> HIDE DEF d
  <2>3. d.team = "active" /\ d.agent = db.agent /\ d.lease = db.lease
    BY <1>5, <2>2 DEF Rest
  <2>4. Covered(d, lost) /\ Guarded(d, may) /\ Agreed(d, {"active"})
    BY <1>2, <2>2, <2>3 DEF Covered, Guarded, Agreed
  <2>5. Answers(d, Tail(s))
    BY <1>1, <1>5, <2>4 DEF Answers, Status
  <2>6. Plan(d, Tail(s), may, lost)
    BY <2>4, <2>5 DEF Plan
  <2>7. MayAfter(SetRow("active"), may) = may /\ LostAfter(SetRow("active"), lost) = lost
    BY HistoryAfter
  <2> QED
    BY <1>1, <1>5, <2>1, <2>4, <2>6, <2>7, GoingOn DEF d
<1> QED
  BY <1>3, <1>4, <1>5 DEF Revives

LEMMA FoundsGoOn ==
  ASSUME Sane(db), NEW may, NEW lost, Guarded(db, may), Covered(db, lost),
         NEW s, s # <<>>, Founds(db, s, may)
  PROVE  GoesOn(s, may, lost)
<1>1. /\ Founding \in Seq(Write) /\ Head(Founding) = InsertRow
      /\ Tail(Founding) = <<Return("active")>>
  BY WritesAre DEF Founding, Status
<1>2. db.instance = "none" /\ "active" \in may /\ db \in Database
  BY DEF Founds, Sane
<1>3. ASSUME NEW d, d.instance = "none" PROVE Covered(d, lost) /\ Guarded(d, may)
  BY <1>3 DEF Covered, Guarded
<1>4. CASE /\ Head(s) = DeleteTeam /\ Tail(s) # <<>>
           /\ Head(Tail(s)) = CreateTeam /\ Added(Tail(Tail(s)), Founding)
  <2> DEFINE d == Written(DeleteTeam)
  <2>1. Sane(d)
    BY TeamSane
  <2>2. Rest(d, {"team", "agent"}) /\ \A a \in Name : d.agent[a] = "none"
    BY <1>2, TeamWrites
  <2>3. MayAfter(DeleteTeam, may) = may /\ LostAfter(DeleteTeam, lost) = lost
    BY HistoryAfter
  <2> HIDE DEF d
  <2>4. d.instance = "none"
    BY <1>2, <2>2 DEF Rest
  <2>5. Founds(d, Tail(s), may)
    BY <1>2, <1>4, <2>2, <2>4 DEF Founds
  <2>6. Covered(d, lost) /\ Guarded(d, may)
    BY <1>3, <2>4
  <2>7. Plan(d, Tail(s), may, lost)
    BY <2>5, <2>6 DEF Plan
  <2> QED
    BY <1>4, <2>1, <2>3, <2>6, <2>7, GoingOn DEF d
<1>5. CASE /\ \A a \in Name : db.agent[a] = "live" => a \in Template
           /\ Head(s) = CreateTeam /\ Added(Tail(s), Founding)
  <2> DEFINE d == Written(CreateTeam)
  <2>1. /\ Sane(d) /\ d.team = "active" /\ d.instance = db.instance /\ d.agent = db.agent
        /\ Covered(d, lost) /\ Guarded(d, may)
        /\ MayAfter(CreateTeam, may) = may /\ LostAfter(CreateTeam, lost) = lost
    BY OpensTeam
  <2> HIDE DEF d
  <2>2. Founds(d, Tail(s), may)
    BY <1>2, <1>5, <2>1 DEF Founds
  <2>3. Plan(d, Tail(s), may, lost)
    BY <2>1, <2>2 DEF Plan
  <2> QED
    BY <1>5, <2>1, <2>3, GoingOn DEF d
<1>6. CASE /\ \A a \in Name : db.agent[a] = "live" => a \in Template
           /\ Added(s, Founding) /\ db.team = "active" /\ s # Founding
  <2>1. PICK a \in Template : Head(s) = Upsert(a) /\ Added(Tail(s), Founding)
    BY <1>1, <1>6, AddedStep
  <2> DEFINE d == Written(Upsert(a))
  <2>2. /\ Sane(d) /\ d.team = db.team /\ d.instance = db.instance /\ Covered(d, lost)
        /\ Guarded(d, may)
        /\ \A b \in Name : d.agent[b] = "live" => db.agent[b] = "live" \/ b \in Template
    BY <1>6, AddsMember
  <2>3. MayAfter(Upsert(a), may) = may /\ LostAfter(Upsert(a), lost) = lost
    BY HistoryAfter
  <2> HIDE DEF d
  <2>4. Founds(d, Tail(s), may)
    BY <1>2, <1>6, <2>1, <2>2 DEF Founds
  <2>5. Plan(d, Tail(s), may, lost)
    BY <2>2, <2>4 DEF Plan
  <2> QED
    BY <2>1, <2>2, <2>3, <2>5, GoingOn DEF d
<1>7. CASE /\ \A a \in Name : db.agent[a] = "live" => a \in Template
           /\ s = Founding /\ db.team = "active"
  <2> DEFINE d == Written(InsertRow)
  <2>1. Sane(d)
    BY <1>2, RowSane
  <2>2. Rest(d, {"instance", "lease"}) /\ d.instance = "active"
    BY <1>2, RowWrites
  <2>3. MayAfter(InsertRow, may) = may /\ LostAfter(InsertRow, lost) = lost
    BY HistoryAfter
  <2> HIDE DEF d
  <2>4. d.team = "active" /\ d.agent = db.agent
    BY <1>7, <2>2 DEF Rest
  <2>5. Covered(d, lost) /\ Guarded(d, may) /\ Agreed(d, {"active"})
    BY <1>2, <1>7, <2>2, <2>4 DEF Covered, Guarded, Agreed
  <2>6. Answers(d, Tail(s))
    BY <1>1, <1>7, <2>5 DEF Answers, Status
  <2>7. Plan(d, Tail(s), may, lost)
    BY <2>5, <2>6 DEF Plan
  <2> QED
    BY <1>1, <1>7, <2>1, <2>3, <2>5, <2>7, GoingOn DEF d
<1> QED
  BY <1>4, <1>5, <1>6, <1>7 DEF Founds

LEMMA CorrectsGoOn ==
  ASSUME Sane(db), NEW may, NEW lost, Guarded(db, may), Covered(db, lost),
         NEW s, Corrects(db, s, may)
  PROVE  GoesOn(s, may, lost)
<1>1. db \in Database
  BY DEF Sane
<1>2. ASSUME NEW status \in {"active", "stopped"}, s = <<SetTeam(status)>>,
             status = "stopped" => db.instance # "active",
             status = "active" => db.instance = "none" /\ "active" \in may
      PROVE  GoesOn(s, may, lost)
  <2> DEFINE d == Written(SetTeam(status))
  <2>1. Head(s) = SetTeam(status) /\ Tail(s) = <<>>
    BY <1>2, HeadTail
  <2>2. Sane(d)
    BY TeamSane
  <2>3. Rest(d, {"team"}) /\ d.team \in {"none", status}
    BY <1>1, TeamWrites DEF Status
  <2>4. MayAfter(SetTeam(status), may) = may /\ LostAfter(SetTeam(status), lost) = lost
    BY HistoryAfter
  <2> HIDE DEF d
  <2>5. d.instance = db.instance /\ d.agent = db.agent /\ d.lease = db.lease
    BY <2>3 DEF Rest
  <2>6. Covered(d, lost) /\ Guarded(d, may)
    BY <2>5 DEF Covered, Guarded
  <2>7. Agreed(d, may)
    BY <1>1, <1>2, <2>3, <2>5 DEF Agreed, Database, Status
  <2>8. Plan(d, <<>>, may, lost)
    BY <2>6, <2>7, AtRest
  <2> QED
    BY <2>1, <2>2, <2>4, <2>6, <2>8, GoingOn DEF d
<1>3. CASE s = <<DeleteTeam>> /\ db.instance = "none"
  <2> DEFINE d == Written(DeleteTeam)
  <2>1. Head(s) = DeleteTeam /\ Tail(s) = <<>>
    BY <1>3, HeadTail
  <2>2. Sane(d)
    BY TeamSane
  <2>3. Rest(d, {"team", "agent"}) /\ d.team = "none"
    BY <1>1, TeamWrites
  <2>4. MayAfter(DeleteTeam, may) = may /\ LostAfter(DeleteTeam, lost) = lost
    BY HistoryAfter
  <2> HIDE DEF d
  <2>5. d.instance = "none"
    BY <1>3, <2>3 DEF Rest
  <2>6. Covered(d, lost) /\ Guarded(d, may) /\ Agreed(d, may)
    BY <2>3, <2>5 DEF Covered, Guarded, Agreed
  <2>7. Plan(d, <<>>, may, lost)
    BY <2>6, AtRest
  <2> QED
    BY <2>1, <2>2, <2>4, <2>6, <2>7, GoingOn DEF d
<1> QED
  BY <1>2, <1>3 DEF Corrects

LEMMA StopsGoOn ==
  ASSUME Sane(db), NEW may, NEW lost, Guarded(db, may), Covered(db, lost),
         NEW s, Stops(db, s)
  PROVE  GoesOn(s, may, lost)
<1>1. db \in Database /\ db.instance # "none"
  BY DEF Sane, Stops
<1>2. CASE s = <<SetTeam("stopped"), SetRow("stopped"), Return("stopped")>>
  <2> DEFINE d == Written(SetTeam("stopped"))
  <2>1. Head(s) = SetTeam("stopped") /\ Tail(s) = <<SetRow("stopped"), Return("stopped")>>
    BY <1>2, HeadTail
  <2>2. Sane(d)
    BY TeamSane
  <2>3. Rest(d, {"team"}) /\ d.team # "active"
    BY <1>1, TeamWrites DEF Status
  <2>4. MayAfter(SetTeam("stopped"), may) = may /\ LostAfter(SetTeam("stopped"), lost) = lost
    BY HistoryAfter
  <2> HIDE DEF d
  <2>5. d.instance = db.instance /\ d.agent = db.agent /\ d.lease = db.lease
    BY <2>3 DEF Rest
  <2>6. Covered(d, lost) /\ Guarded(d, may)
    BY <2>5 DEF Covered, Guarded
  <2>7. Stops(d, Tail(s))
    BY <1>1, <2>1, <2>3, <2>5 DEF Stops
  <2>8. Plan(d, Tail(s), may, lost)
    BY <2>6, <2>7 DEF Plan
  <2> QED
    BY <2>1, <2>2, <2>4, <2>6, <2>8, GoingOn DEF d
<1>3. CASE s = <<SetRow("stopped"), Return("stopped")>> /\ db.team # "active"
  <2> DEFINE d == Written(SetRow("stopped"))
  <2>1. Head(s) = SetRow("stopped") /\ Tail(s) = <<Return("stopped")>>
    BY <1>3, HeadTail
  <2>2. Sane(d)
    BY <1>1, RowSane
  <2>3. Rest(d, {"instance"}) /\ d.instance = "stopped"
    BY <1>1, RowWrites DEF Status
  <2>4. MayAfter(SetRow("stopped"), may) = may /\ LostAfter(SetRow("stopped"), lost) = lost
    BY HistoryAfter
  <2> HIDE DEF d
  <2>5. d.team = db.team /\ d.agent = db.agent /\ d.lease = db.lease
    BY <2>3 DEF Rest
  <2>6. Covered(d, lost) /\ Guarded(d, may)
    BY <1>1, <2>3, <2>5 DEF Covered, Guarded
  <2>7. Agreed(d, {"stopped"})
    BY <1>1, <1>3, <2>3, <2>5 DEF Agreed, Database, Status
  <2>8. Answers(d, Tail(s))
    BY <2>1, <2>7 DEF Answers, Status
  <2>9. Plan(d, Tail(s), may, lost)
    BY <2>6, <2>8 DEF Plan
  <2> QED
    BY <2>1, <2>2, <2>4, <2>6, <2>9, GoingOn DEF d
<1> QED
  BY <1>2, <1>3 DEF Stops

\* The row is deleted first: from then on nothing may run, whatever was asked before.
LEMMA DeletesGoOn ==
  ASSUME Sane(db), NEW may, NEW lost, NEW s, Deletes(db, s)
  PROVE  GoesOn(s, may, lost)
<1>1. db \in Database
  BY DEF Sane
<1>2. CASE s = Deletion
  <2> DEFINE d == Written(DeleteRow)
  <2>1. Head(s) = DeleteRow /\ Tail(s) = <<DeleteTeam, Return("none")>>
    BY <1>2, HeadTail DEF Deletion
  <2>2. Sane(d) /\ d.instance = "none"
    BY <1>1, RowSane, RowWrites
  <2>3. MayAfter(DeleteRow, may) = may /\ LostAfter(DeleteRow, lost) = lost
    BY HistoryAfter
  <2> HIDE DEF d
  <2>4. Covered(d, lost) /\ Guarded(d, may)
    BY <2>2 DEF Covered, Guarded
  <2>5. Deletes(d, Tail(s))
    BY <2>1, <2>2 DEF Deletes
  <2>6. Plan(d, Tail(s), may, lost)
    BY <2>4, <2>5 DEF Plan
  <2> QED
    BY <2>1, <2>2, <2>3, <2>4, <2>6, GoingOn DEF d
<1>3. CASE s = <<DeleteTeam, Return("none")>> /\ db.instance = "none"
  <2> DEFINE d == Written(DeleteTeam)
  <2>1. Head(s) = DeleteTeam /\ Tail(s) = <<Return("none")>>
    BY <1>3, HeadTail
  <2>2. Sane(d)
    BY TeamSane
  <2>3. Rest(d, {"team", "agent"}) /\ d.team = "none"
    BY <1>1, TeamWrites
  <2>4. MayAfter(DeleteTeam, may) = may /\ LostAfter(DeleteTeam, lost) = lost
    BY HistoryAfter
  <2> HIDE DEF d
  <2>5. d.instance = "none"
    BY <1>3, <2>3 DEF Rest
  <2>6. Covered(d, lost) /\ Guarded(d, may) /\ Agreed(d, {"none"})
    BY <2>3, <2>5 DEF Covered, Guarded, Agreed
  <2>7. Answers(d, Tail(s))
    BY <2>1, <2>6 DEF Answers, Status
  <2>8. Plan(d, Tail(s), may, lost)
    BY <2>6, <2>7 DEF Plan
  <2> QED
    BY <2>1, <2>2, <2>4, <2>6, <2>8, GoingOn DEF d
<1> QED
  BY <1>2, <1>3 DEF Deletes

LEMMA AnswersGoOn ==
  ASSUME Sane(db), NEW may, NEW lost, Covered(db, lost), NEW s, Answers(db, s)
  PROVE  GoesOn(s, may, lost)
<1>1. PICK status \in Status : s = <<Return(status)>> /\ Agreed(db, {status})
  BY DEF Answers
<1>2. Head(s) = Return(status) /\ Tail(s) = <<>>
  BY <1>1, HeadTail
<1>3. Written(Return(status)) = db
  BY WrittenIs
<1>4. MayAfter(Return(status), may) = {status} /\ LostAfter(Return(status), lost) = lost
  BY HistoryAfter
<1>5. Guarded(db, {status})
  BY <1>1 DEF Guarded, Agreed
<1>6. Plan(db, <<>>, {status}, lost)
  BY <1>1, AtRest
<1> QED
  BY <1>2, <1>3, <1>4, <1>5, <1>6 DEF GoesOn

\* Recycling the leases of agents that do not live.
LEMMA Recycles ==
  ASSUME Sane(db), NEW S \in SUBSET Name, \A a \in S : db.agent[a] # "live",
         NEW may, NEW lost, Guarded(db, may), Covered(db, lost), Agreed(db, may)
  PROVE  LET d == Written(Recycle(S))
         IN  /\ Sane(d) /\ Covered(d, lost) /\ Guarded(d, may) /\ Agreed(d, may)
             /\ d.instance = db.instance /\ \A a \in S : d.lease[a] = "none"
             /\ MayAfter(Recycle(S), may) = may /\ LostAfter(Recycle(S), lost) = lost
<1> DEFINE d == Written(Recycle(S))
<1>1. Sane(d)
  BY LeaseSane
<1>2. /\ Rest(d, {"lease", "due"})
      /\ \A b \in Name : d.lease[b] = IF b \in S THEN "none" ELSE db.lease[b]
  BY LeaseWrites DEF Sane
<1>3. MayAfter(Recycle(S), may) = may /\ LostAfter(Recycle(S), lost) = lost
  BY HistoryAfter
<1> HIDE DEF d
<1>4. d.instance = db.instance /\ d.team = db.team /\ d.agent = db.agent
  BY <1>2 DEF Rest
<1>5. Covered(d, lost)
  BY <1>2, <1>4 DEF Covered
<1>6. Guarded(d, may) /\ Agreed(d, may)
  BY <1>4 DEF Guarded, Agreed
<1>7. \A a \in S : d.lease[a] = "none"
  BY <1>2
<1> QED
  BY <1>1, <1>3, <1>4, <1>5, <1>6, <1>7 DEF d

LEMMA HiresGoOn ==
  ASSUME Sane(db), NEW may, NEW lost, Guarded(db, may), Covered(db, lost),
         NEW s, Hires(db, s, may)
  PROVE  GoesOn(s, may, lost)
<1>1. Agreed(db, may) /\ db.instance = "active" /\ db.team # "none"
  BY DEF Hires, Agreed
<1>2. PICK a \in Name, kind \in {"custom", "temporary"} :
         \/ s = <<Recycle({a}), Upsert(a), Lease(a, kind)>> /\ db.agent[a] # "live"
         \/ s = <<Upsert(a), Lease(a, kind)>> /\ db.lease[a] = "none"
  BY DEF Hires
<1>3. CASE s = <<Recycle({a}), Upsert(a), Lease(a, kind)>> /\ db.agent[a] # "live"
  <2> DEFINE d == Written(Recycle({a}))
  <2>1. Head(s) = Recycle({a}) /\ Tail(s) = <<Upsert(a), Lease(a, kind)>>
    BY <1>3, HeadTail
  <2>2. {a} \in SUBSET Name /\ \A b \in {a} : db.agent[b] # "live"
    BY <1>3
  <2>3. /\ Sane(d) /\ Covered(d, lost) /\ Guarded(d, may) /\ Agreed(d, may)
        /\ d.instance = db.instance /\ d.lease[a] = "none"
        /\ MayAfter(Recycle({a}), may) = may /\ LostAfter(Recycle({a}), lost) = lost
    BY <1>1, <2>2, Recycles
  <2> HIDE DEF d
  <2>4. Hires(d, Tail(s), may)
    BY <1>1, <2>1, <2>3 DEF Hires
  <2>5. Plan(d, Tail(s), may, lost)
    BY <2>3, <2>4 DEF Plan
  <2> QED
    BY <2>1, <2>3, <2>5, GoingOn DEF d
<1>4. CASE s = <<Upsert(a), Lease(a, kind)>> /\ db.lease[a] = "none"
  <2> DEFINE d == Written(Upsert(a))
  <2>1. Head(s) = Upsert(a) /\ Tail(s) = <<Lease(a, kind)>>
    BY <1>4, HeadTail
  <2>2. Sane(d)
    BY <1>1, AgentSane
  <2>3. /\ Rest(d, {"agent"})
        /\ \A b \in Name : d.agent[b] = IF b = a THEN "live" ELSE db.agent[b]
    BY AgentWrites DEF Sane
  <2>4. MayAfter(Upsert(a), may) = may /\ LostAfter(Upsert(a), lost) = lost
    BY HistoryAfter
  <2> HIDE DEF d
  <2>5. d.instance = db.instance /\ d.team = db.team /\ d.lease = db.lease
    BY <2>3 DEF Rest
  <2>6. Guarded(d, may) /\ Agreed(d, may)
    BY <1>1, <2>5 DEF Guarded, Agreed
  <2>7. Covered(d, lost \cup {a})
    BY <1>1, <2>3, <2>5 DEF Covered
  <2>8. Leases(d, Tail(s), may, lost)
    BY <1>1, <1>4, <2>1, <2>3, <2>5, <2>6, <2>7 DEF Leases
  <2>9. Plan(d, Tail(s), may, lost)
    BY <2>8 DEF Plan
  <2> QED
    BY <2>1, <2>2, <2>4, <2>6, <2>9, GoingOn DEF d
<1> QED
  BY <1>2, <1>3, <1>4

\* With the lease an agent is covered that a crash before it would have unleased.
LEMMA LeasesGoOn ==
  ASSUME Sane(db), NEW may, NEW lost, Guarded(db, may), NEW s, Leases(db, s, may, lost)
  PROVE  GoesOn(s, may, lost)
<1>1. Agreed(db, may) /\ db.instance = "active"
  BY DEF Leases
<1>2. PICK a \in Name, kind \in {"custom", "temporary"} :
         /\ s = <<Lease(a, kind)>> /\ db.lease[a] = "none" /\ db.agent[a] = "live"
         /\ Covered(db, lost \cup {a})
  BY DEF Leases
<1> DEFINE d == Written(Lease(a, kind))
<1>3. Head(s) = Lease(a, kind) /\ Tail(s) = <<>>
  BY <1>2, HeadTail
<1>4. Sane(d)
  BY <1>1, <1>2, LeaseSane
<1>5. /\ Rest(d, {"lease"})
      /\ \A b \in Name : d.lease[b] = IF b = a THEN kind ELSE db.lease[b]
  BY LeaseWrites DEF Sane, Kind
<1>6. MayAfter(Lease(a, kind), may) = may /\ LostAfter(Lease(a, kind), lost) = lost \ {a}
  BY DEF MayAfter, LostAfter, Lease
<1> HIDE DEF d
<1>7. d.instance = db.instance /\ d.team = db.team /\ d.agent = db.agent
  BY <1>5 DEF Rest
<1>8. Guarded(d, may) /\ Agreed(d, may)
  BY <1>1, <1>7 DEF Guarded, Agreed
<1>9. Covered(d, lost \ {a})
  BY <1>1, <1>2, <1>5, <1>7 DEF Covered
<1>10. Plan(d, <<>>, may, lost \ {a})
  BY <1>8, <1>9, AtRest
<1> QED
  BY <1>3, <1>4, <1>6, <1>8, <1>10 DEF GoesOn, d

\* An agent that does not live any more, halted or dropped.
LEMMA Dismisses ==
  ASSUME Sane(db), NEW a \in Name, NEW w \in {Halt(a), Drop(a)},
         NEW may, NEW lost, Guarded(db, may), Covered(db, lost), Agreed(db, may)
  PROVE  LET d == Written(w)
         IN  /\ Sane(d) /\ Covered(d, lost) /\ Guarded(d, may) /\ Agreed(d, may)
             /\ d.agent[a] # "live"
             /\ \A b \in Name : b # a => d.agent[b] = db.agent[b]
             /\ MayAfter(w, may) = may /\ LostAfter(w, lost) = lost
<1> DEFINE d == Written(w)
<1>1. Sane(d)
  BY AgentSane
<1>2. /\ Rest(d, {"agent"}) /\ d.agent[a] # "live"
      /\ \A b \in Name : b # a => d.agent[b] = db.agent[b]
  BY AgentWrites DEF Sane
<1>3. MayAfter(w, may) = may /\ LostAfter(w, lost) = lost
  BY DEF MayAfter, LostAfter, Halt, Drop
<1> HIDE DEF d
<1>4. d.instance = db.instance /\ d.team = db.team /\ d.lease = db.lease
  BY <1>2 DEF Rest
<1>5. Covered(d, lost)
  BY <1>2, <1>4 DEF Covered
<1>6. Guarded(d, may) /\ Agreed(d, may)
  BY <1>4 DEF Guarded, Agreed
<1> QED
  BY <1>1, <1>2, <1>3, <1>5, <1>6 DEF d

LEMMA HaltInRest ==
  ASSUME NEW h \in Seq(Halting), h # <<>>, NEW a, Halt(a) \in Range(h), Halt(a) # Head(h)
  PROVE  Halt(a) \in Range(Tail(h))
<1>1. PICK i \in DOMAIN h : h[i] = Halt(a)
  BY DEF Range
<1>2. /\ Tail(h) \in Seq(Halting) /\ Len(Tail(h)) = Len(h) - 1 /\ Len(h) \in Nat
      /\ \A j \in 1..Len(Tail(h)) : Tail(h)[j] = h[j + 1]
  BY HeadTailProperties, EmptySeq
<1>3. i \in 2..Len(h)
  BY <1>1, <1>2
<1>4. i - 1 \in 1..Len(Tail(h)) /\ i - 1 + 1 = i
  BY <1>2, <1>3
<1>5. i - 1 \in DOMAIN Tail(h) /\ Tail(h)[i - 1] = Halt(a)
  BY <1>1, <1>2, <1>4
<1> QED
  BY <1>5 DEF Range

\* Reaping halts before it recycles: a lease that goes belongs to an agent that does not live.
LEMMA ReapsGoOn ==
  ASSUME Sane(db), NEW may, NEW lost, Guarded(db, may), Covered(db, lost),
         NEW s, s # <<>>, Reaps(db, s, may)
  PROVE  GoesOn(s, may, lost)
<1>1. Agreed(db, may)
  BY DEF Reaps
<1>2. PICK h \in Seq(Halting) :
         \/ s = h
         \/ \E S \in SUBSET Name :
               /\ s = h \o <<Recycle(S)>>
               /\ \A a \in S : db.agent[a] = "live" => Halt(a) \in Range(h)
  BY DEF Reaps, Halting
<1>3. Halting \subseteq Write
  BY WritesAre DEF Halting
<1>4. h \in Seq(Write)
  BY <1>3, SeqMonotonic
<1>5. ASSUME h # <<>>
      PROVE  \E b \in Name : Head(h) = Halt(b) /\ Tail(h) \in Seq(Halting)
  <2>1. Head(h) \in Halting /\ Tail(h) \in Seq(Halting)
    BY <1>5, HeadTailProperties
  <2> QED
    BY <2>1 DEF Halting
<1>6. CASE s = h
  <2>1. PICK b \in Name : Head(h) = Halt(b) /\ Tail(h) \in Seq(Halting)
    BY <1>5, <1>6
  <2> DEFINE d == Written(Halt(b))
  <2>2. /\ Sane(d) /\ Covered(d, lost) /\ Guarded(d, may) /\ Agreed(d, may)
        /\ MayAfter(Halt(b), may) = may /\ LostAfter(Halt(b), lost) = lost
    BY <1>1, Dismisses
  <2> HIDE DEF d
  <2>3. Reaps(d, Tail(s), may)
    BY <1>6, <2>1, <2>2 DEF Reaps, Halting
  <2>4. Plan(d, Tail(s), may, lost)
    BY <2>2, <2>3 DEF Plan
  <2> QED
    BY <1>6, <2>1, <2>2, <2>4, GoingOn DEF d
<1>7. ASSUME NEW S \in SUBSET Name, s = h \o <<Recycle(S)>>,
             \A a \in S : db.agent[a] = "live" => Halt(a) \in Range(h)
      PROVE  GoesOn(s, may, lost)
  <2>1. <<Recycle(S)>> \in Seq(Write)
    BY WritesAre
  <2>2. CASE h = <<>>
    <3> DEFINE d == Written(Recycle(S))
    <3>1. s = <<Recycle(S)>>
      BY <1>7, <2>1, <2>2, ConcatEmptySeq
    <3>2. Head(s) = Recycle(S) /\ Tail(s) = <<>>
      BY <3>1, HeadTail
    <3>3. \A a \in S : db.agent[a] # "live"
      BY <1>7, <2>2 DEF Range
    <3>4. /\ Sane(d) /\ Covered(d, lost) /\ Guarded(d, may) /\ Agreed(d, may)
          /\ MayAfter(Recycle(S), may) = may /\ LostAfter(Recycle(S), lost) = lost
      BY <1>1, <3>3, Recycles
    <3> HIDE DEF d
    <3>5. Plan(d, <<>>, may, lost)
      BY <3>4, AtRest
    <3> QED
      BY <3>2, <3>4, <3>5, GoingOn DEF d
  <2>3. CASE h # <<>>
    <3>1. PICK b \in Name : Head(h) = Halt(b) /\ Tail(h) \in Seq(Halting)
      BY <1>5, <2>3
    <3>2. Head(s) = Halt(b) /\ Tail(s) = Tail(h) \o <<Recycle(S)>>
      BY <1>4, <1>7, <2>1, <2>3, <3>1, ConcatHead
    <3> DEFINE d == Written(Halt(b))
    <3>3. /\ Sane(d) /\ Covered(d, lost) /\ Guarded(d, may) /\ Agreed(d, may)
          /\ d.agent[b] # "live" /\ \A c \in Name : c # b => d.agent[c] = db.agent[c]
          /\ MayAfter(Halt(b), may) = may /\ LostAfter(Halt(b), lost) = lost
      BY <1>1, Dismisses
    <3> HIDE DEF d
    <3>4. ASSUME NEW a \in S, d.agent[a] = "live" PROVE Halt(a) \in Range(Tail(h))
      <4>1. a # b /\ db.agent[a] = "live"
        BY <3>3, <3>4
      <4>2. Halt(a) # Head(h)
        BY <3>1, <4>1 DEF Halt
      <4>3. Halt(a) \in Range(h)
        BY <1>7, <4>1
      <4> QED
        BY <2>3, <4>2, <4>3, HaltInRest
    <3>5. Reaps(d, Tail(s), may)
      BY <3>1, <3>2, <3>3, <3>4 DEF Reaps, Halting
    <3>6. Plan(d, Tail(s), may, lost)
      BY <3>3, <3>5 DEF Plan
    <3> QED
      BY <3>2, <3>3, <3>6, GoingOn DEF d
  <2> QED
    BY <2>2, <2>3
<1> QED
  BY <1>2, <1>6, <1>7

LEMMA DropsGoOn ==
  ASSUME Sane(db), NEW may, NEW lost, Guarded(db, may), Covered(db, lost),
         NEW s, Drops(db, s, may)
  PROVE  GoesOn(s, may, lost)
<1>1. Agreed(db, may)
  BY DEF Drops
<1>2. PICK a \in Name : s = <<Drop(a)>> \/ s = <<Drop(a), Recycle({a})>>
  BY DEF Drops
<1> DEFINE d == Written(Drop(a))
<1>3. Head(s) = Drop(a) /\ (Tail(s) = <<>> \/ Tail(s) = <<Recycle({a})>>)
  BY <1>2, HeadTail
<1>4. /\ Sane(d) /\ Covered(d, lost) /\ Guarded(d, may) /\ Agreed(d, may) /\ d.agent[a] # "live"
      /\ MayAfter(Drop(a), may) = may /\ LostAfter(Drop(a), lost) = lost
  BY <1>1, Dismisses
<1> HIDE DEF d
<1>5. CASE Tail(s) = <<>>
  <2>1. Plan(d, Tail(s), may, lost)
    BY <1>4, <1>5, AtRest
  <2> QED
    BY <1>3, <1>4, <2>1, GoingOn DEF d
<1>6. CASE Tail(s) = <<Recycle({a})>>
  <2>1. Recycle({a}) \in Write
    BY WritesAre
  <2>2. <<>> \o <<Recycle({a})>> = <<Recycle({a})>> /\ <<>> \in Seq(Halting)
    BY <2>1, ConcatEmptySeq
  <2>3. \A b \in {a} : d.agent[b] = "live" => Halt(b) \in Range(<<>>)
    BY <1>4
  <2>4. {a} \in SUBSET Name /\ Tail(s) = <<>> \o <<Recycle({a})>>
    BY <1>6, <2>2
  <2>5. Reaps(d, Tail(s), may)
    BY <1>4, <2>2, <2>3, <2>4 DEF Reaps, Halting
  <2>6. Plan(d, Tail(s), may, lost)
    BY <1>4, <2>5 DEF Plan
  <2> QED
    BY <1>3, <1>4, <2>6, GoingOn DEF d
<1> QED
  BY <1>3, <1>5, <1>6

LEMMA PlanGoesOn ==
  ASSUME Sane(db), NEW may, NEW lost, Guarded(db, may),
         NEW s, s # <<>>, Plan(db, s, may, lost)
  PROVE  GoesOn(s, may, lost)
BY RepairsGoOn, RevivesGoOn, FoundsGoOn, CorrectsGoOn, StopsGoOn, DeletesGoOn, AnswersGoOn,
   HiresGoOn, DropsGoOn, ReapsGoOn, LeasesGoOn DEF Plan

-----------------------------------------------------------------------------
(* The steps.                                                               *)

\* A team without agents to be done with is at rest.
LEMMA IdlePlan ==
  ASSUME GovernanceInv, up, todo = <<>>
  PROVE  Sane(db) /\ Agreed(db, asked) /\ Covered(db, unleased) /\ Guarded(db, asked)
<1>1. Sane(db) /\ Guarded(db, asked) /\ Plan(db, <<>>, asked, unleased)
  BY DEF GovernanceInv, GovernanceTypeOK, Sane
<1>2. ASSUME NEW e \in Seq(Write), e # <<>> PROVE ~Added(<<>>, e)
  BY <1>2, AddedStep
<1>3. Revival \in Seq(Write) /\ Revival # <<>> /\ Founding \in Seq(Write) /\ Founding # <<>>
  BY WritesAre DEF Revival, Founding, Status
<1>4. ~Revives(db, <<>>, asked) /\ ~Founds(db, <<>>, asked)
  BY <1>2, <1>3 DEF Revives, Founds, Opens
<1>5. /\ ~Corrects(db, <<>>, asked) /\ ~Stops(db, <<>>) /\ ~Deletes(db, <<>>)
      /\ ~Answers(db, <<>>) /\ ~Leases(db, <<>>, asked, unleased)
  BY DEF Corrects, Stops, Deletes, Deletion, Answers, Leases
<1>6. Repairs(db, <<>>, asked) => Agreed(db, asked)
  BY DEF Repairs, Opens
<1> QED
  BY <1>1, <1>4, <1>5, <1>6 DEF Plan, Hires, Drops, Reaps

\* An operation performs its first write.
LEMMA Performs ==
  ASSUME GovernanceInv, NEW ws \in Seq(Write), Perform(ws), NEW may \in SUBSET Status, asked' = may,
         Head(ws).do # "return", Head(ws).do # "lease", GoesOn(ws, may, unleased)
  PROVE  GovernanceInv'
<1> DEFINE d == Written(Head(ws))
<1>1. Sane(d) /\ Guarded(d, may) /\ Plan(d, Tail(ws), may, unleased)
  BY DEF GoesOn, MayAfter, LostAfter
<1>2. /\ up /\ ws # <<>> /\ db' = d /\ todo' = Tail(ws)
      /\ up' = up /\ unleased' = unleased /\ neighbourLost' = neighbourLost /\ crashes' = crashes
  BY DEF Perform
<1>3. Tail(ws) \in Seq(Write)
  BY <1>2, HeadTailProperties
<1> HIDE DEF d
<1>4. GovernanceTypeOK'
  BY <1>1, <1>2 DEF GovernanceInv, GovernanceTypeOK, Sane
<1>5. Guarded(db', asked') /\ Plan(db', todo', asked', unleased')
  BY <1>1, <1>2
<1> QED
  BY <1>2, <1>3, <1>4, <1>5 DEF GovernanceInv

LEMMA Opening ==
  ASSUME NEW x \in Write, NEW S \in SUBSET Template, NEW e \in Seq(Write)
  PROVE  /\ LET s == <<x>> \o Members(S)
            IN  s \in Seq(Write) /\ s # <<>> /\ Head(s) = x /\ Added(Tail(s), <<>>)
         /\ LET s == <<x>> \o Members(S) \o e
            IN  s \in Seq(Write) /\ s # <<>> /\ Head(s) = x /\ Added(Tail(s), e)
<1> DEFINE m == Members(S)
<1>1. m \in Seq(Write) /\ Added(m, <<>>) /\ Added(m \o e, e)
  BY AddedMembers
<1> HIDE DEF m
<1>2. <<x>> \in Seq(Write) /\ m \o e \in Seq(Write)
  BY <1>1, ConcatProperties
<1>3. <<x>> \o m \o e = <<x>> \o (m \o e)
  BY <1>1, <1>2, ConcatAssociative
<1>4. /\ <<x>> \o m \in Seq(Write) /\ <<x>> \o m # <<>>
      /\ Head(<<x>> \o m) = x /\ Tail(<<x>> \o m) = m
  BY <1>1, ConsOf
<1>5. /\ <<x>> \o (m \o e) \in Seq(Write) /\ <<x>> \o (m \o e) # <<>>
      /\ Head(<<x>> \o (m \o e)) = x /\ Tail(<<x>> \o (m \o e)) = m \o e
  BY <1>2, ConsOf
<1> QED
  BY <1>1, <1>3, <1>4, <1>5 DEF m

LEMMA TemplateWrites ==
  /\ \A s \in Status : SetTeam(s) \in Write /\ SetTeam(s).do = "setTeam"
  /\ CreateTeam \in Write /\ CreateTeam.do = "createTeam"
  /\ DeleteTeam \in Write /\ DeleteTeam.do = "deleteTeam"
  /\ Missing \in SUBSET Template /\ Template \in SUBSET Template
BY WritesAre DEF SetTeam, CreateTeam, DeleteTeam, Missing

\* A revival, of any instance.
LEMMA RevivalBegins ==
  ASSUME GovernanceInv, up, todo = <<>>, db.instance # "none",
         Perform(Revived), asked' = asked \cup {"active"}
  PROVE  GovernanceInv'
<1> DEFINE may == asked \cup {"active"}
<1>1. Sane(db) /\ Covered(db, unleased) /\ Guarded(db, may)
  BY IdlePlan DEF Guarded
<1>2. may \in SUBSET Status /\ "active" \in may
  BY DEF GovernanceInv, GovernanceTypeOK, Status
<1>3. Revival \in Seq(Write)
  BY WritesAre DEF Revival, Status
<1>4. /\ Revived \in Seq(Write) /\ Revived # <<>> /\ Opens(db, Revived, Revival)
      /\ Head(Revived).do # "return" /\ Head(Revived).do # "lease"
  <2>1. CASE db.team = "none"
    <3>1. Revived = <<CreateTeam>> \o Members(Template) \o Revival
      BY <2>1 DEF Revived, FromTemplate, Revival
    <3>2. /\ Revived \in Seq(Write) /\ Revived # <<>> /\ Head(Revived) = CreateTeam
          /\ Added(Tail(Revived), Revival)
      BY <1>3, <3>1, TemplateWrites, Opening
    <3> QED
      BY <3>2, TemplateWrites DEF Opens
  <2>2. CASE db.team # "none"
    <3>1. Revived = <<SetTeam("active")>> \o Members(Missing) \o Revival
      BY <2>2 DEF Revived, RepairMembers, Revival
    <3>2. SetTeam("active") \in Write /\ SetTeam("active").do = "setTeam"
      BY TemplateWrites DEF Status
    <3>3. /\ Revived \in Seq(Write) /\ Revived # <<>> /\ Head(Revived) = SetTeam("active")
          /\ Added(Tail(Revived), Revival)
      BY <1>3, <3>1, <3>2, TemplateWrites, Opening
    <3> QED
      BY <2>2, <3>2, <3>3 DEF Opens
  <2> QED
    BY <2>1, <2>2
<1> HIDE DEF may
<1>5. Revives(db, Revived, may)
  BY <1>2, <1>4 DEF Revives
<1>6. GoesOn(Revived, may, unleased)
  BY <1>1, <1>4, <1>5, RevivesGoOn
<1> QED
  BY <1>2, <1>4, <1>6, Performs DEF may

LEMMA ResolveStep == GovernanceInv /\ Resolve => GovernanceInv'
<1> SUFFICES ASSUME GovernanceInv, Resolve PROVE GovernanceInv'
  OBVIOUS
<1> DEFINE ws == Leftover \o FromTemplate \o <<InsertRow, Return("active")>>
<1>1. /\ up /\ todo = <<>> /\ db.instance # "active" /\ asked' = asked \cup {"active"}
      /\ db.instance = "stopped" => Perform(Revived)
      /\ db.instance # "stopped" => Perform(ws)
  BY DEF Resolve, Perform
<1>2. CASE db.instance = "stopped"
  BY <1>1, <1>2, RevivalBegins
<1>3. CASE db.instance = "none"
  <2> DEFINE may == asked \cup {"active"}
  <2>1. Sane(db) /\ Covered(db, unleased) /\ Guarded(db, may)
    BY <1>1, IdlePlan DEF Guarded
  <2>2. may \in SUBSET Status /\ "active" \in may
    BY DEF GovernanceInv, GovernanceTypeOK, Status
  <2>3. Founding \in Seq(Write)
    BY WritesAre DEF Founding, Status
  <2> DEFINE f == <<CreateTeam>> \o Members(Template)
  <2>4. /\ f \in Seq(Write)
        /\ f \o Founding \in Seq(Write) /\ f \o Founding # <<>>
        /\ Head(f \o Founding) = CreateTeam /\ Added(Tail(f \o Founding), Founding)
    BY <2>3, TemplateWrites, Opening
  <2>5. ws = Leftover \o f \o Founding
    BY DEF FromTemplate, Founding
  <2> HIDE DEF f, ws, may
  <2>6. /\ ws \in Seq(Write) /\ ws # <<>> /\ Founds(db, ws, may)
        /\ Head(ws).do # "return" /\ Head(ws).do # "lease"
    <3>1. CASE db.team = "none"
      <4>1. Leftover = <<>> /\ <<>> \o f = f
        BY <2>4, <3>1, ConcatEmptySeq DEF Leftover
      <4>2. ws = f \o Founding
        BY <2>5, <4>1
      <4>3. \A a \in Name : db.agent[a] # "live"
        BY <2>1, <3>1 DEF Sane
      <4>4. Founds(db, ws, may)
        BY <1>3, <2>2, <2>4, <4>2, <4>3 DEF Founds
      <4> QED
        BY <2>4, <4>2, <4>4, TemplateWrites
    <3>2. CASE db.team # "none"
      <4>1. Leftover = <<DeleteTeam>> /\ <<DeleteTeam>> \in Seq(Write)
        BY <3>2, TemplateWrites DEF Leftover
      <4>2. ws = <<DeleteTeam>> \o (f \o Founding)
        BY <2>3, <2>4, <2>5, <4>1, ConcatAssociative
      <4>3. /\ ws \in Seq(Write) /\ ws # <<>> /\ Head(ws) = DeleteTeam
            /\ Tail(ws) = f \o Founding
        BY <2>4, <4>2, TemplateWrites, ConsOf
      <4>4. Founds(db, ws, may)
        BY <1>3, <2>2, <2>4, <4>3 DEF Founds
      <4> QED
        BY <4>3, <4>4, TemplateWrites
    <3> QED
      BY <3>1, <3>2
  <2>7. GoesOn(ws, may, unleased)
    BY <2>1, <2>6, FoundsGoOn
  <2> QED
    BY <1>1, <1>3, <2>2, <2>6, <2>7, Performs DEF may
<1> QED
  BY <1>1, <1>2, <1>3 DEF GovernanceInv, GovernanceTypeOK, Database, Status

LEMMA ReactivateStep == GovernanceInv /\ Reactivate => GovernanceInv'
BY RevivalBegins DEF Reactivate, Perform

LEMMA StopInstanceStep == GovernanceInv /\ StopInstance => GovernanceInv'
<1> SUFFICES ASSUME GovernanceInv, StopInstance PROVE GovernanceInv'
  OBVIOUS
<1> DEFINE ws == <<SetTeam("stopped"), SetRow("stopped"), Return("stopped")>>
           may == asked \cup {"stopped"}
<1>1. up /\ todo = <<>> /\ db.instance # "none" /\ Perform(ws) /\ asked' = may
  BY DEF StopInstance, Perform
<1>2. Sane(db) /\ Covered(db, unleased) /\ Guarded(db, may) /\ may \in SUBSET Status
  BY <1>1, IdlePlan DEF Guarded, GovernanceInv, GovernanceTypeOK, Status
<1>3. ws \in Seq(Write) /\ Head(ws).do = "setTeam"
  BY WritesAre DEF Status, SetTeam
<1>4. Stops(db, ws)
  BY <1>1 DEF Stops
<1> HIDE DEF ws, may
<1>5. GoesOn(ws, may, unleased)
  BY <1>2, <1>4, StopsGoOn
<1> QED
  BY <1>1, <1>2, <1>3, <1>5, Performs

LEMMA DeleteInstanceStep == GovernanceInv /\ DeleteInstance => GovernanceInv'
<1> SUFFICES ASSUME GovernanceInv, DeleteInstance PROVE GovernanceInv'
  OBVIOUS
<1>1. up /\ todo = <<>> /\ Perform(Deletion) /\ asked' = {"none"}
  BY DEF DeleteInstance, Perform
<1>2. Sane(db) /\ {"none"} \in SUBSET Status
  BY <1>1, IdlePlan DEF Status
<1>3. Deletion \in Seq(Write) /\ Head(Deletion).do = "deleteRow"
  BY WritesAre DEF Status, Deletion, DeleteRow
<1>4. GoesOn(Deletion, {"none"}, unleased)
  BY <1>2, DeletesGoOn DEF Deletes
<1> QED
  BY <1>1, <1>2, <1>3, <1>4, Performs

\* The commands of one agent, and the reaper, leave `asked' alone.
LEMMA AgentPlan ==
  ASSUME GovernanceInv, up, todo = <<>>, NEW ws \in Seq(Write), Perform(ws), asked' = asked,
         Head(ws).do # "return", Head(ws).do # "lease",
         \/ Hires(db, ws, asked) \/ Drops(db, ws, asked) \/ Reaps(db, ws, asked)
         \/ Repairs(db, ws, asked) \/ Corrects(db, ws, asked)
  PROVE  GovernanceInv'
<1>1. Sane(db) /\ Covered(db, unleased) /\ Guarded(db, asked) /\ asked \in SUBSET Status
  BY IdlePlan DEF GovernanceInv, GovernanceTypeOK
<1>2. ws # <<>>
  BY DEF Perform
<1>3. GoesOn(ws, asked, unleased)
  BY <1>1, <1>2, HiresGoOn, DropsGoOn, ReapsGoOn, RepairsGoOn, CorrectsGoOn
<1> QED
  BY <1>1, <1>3, Performs

LEMMA CreateAgentStep ==
  ASSUME GovernanceInv, NEW a \in Name, NEW kind \in {"custom", "temporary"}, CreateAgent(a, kind)
  PROVE  GovernanceInv'
<1>1. /\ up /\ todo = <<>> /\ Perform(Hiring(a, kind)) /\ asked' = asked
      /\ db.instance = "active" /\ db.agent[a] # "live"
  BY DEF CreateAgent, Perform
<1>2. Agreed(db, asked)
  BY <1>1, IdlePlan
<1>3. Upsert(a) \in Write /\ Lease(a, kind) \in Write /\ Recycle({a}) \in Write
  BY WritesAre DEF Kind
<1>4. CASE db.lease[a] = "none"
  <2>1. Hiring(a, kind) = <<Upsert(a), Lease(a, kind)>>
    <3>1. <<Upsert(a), Lease(a, kind)>> \in Seq(Write)
      BY <1>3
    <3>2. Hiring(a, kind) = <<>> \o <<Upsert(a), Lease(a, kind)>>
      BY <1>4 DEF Hiring
    <3> QED
      BY <3>1, <3>2, ConcatEmptySeq, Zenon
  <2>2. Hiring(a, kind) \in Seq(Write) /\ Head(Hiring(a, kind)).do = "upsert"
    BY <1>3, <2>1 DEF Upsert
  <2>3. Hires(db, Hiring(a, kind), asked)
    BY <1>1, <1>2, <1>4, <2>1 DEF Hires
  <2> QED
    BY <1>1, <2>2, <2>3, AgentPlan
<1>5. CASE db.lease[a] # "none"
  <2>1. Hiring(a, kind) = <<Recycle({a}), Upsert(a), Lease(a, kind)>>
    <3>1. Hiring(a, kind) = <<Recycle({a})>> \o <<Upsert(a), Lease(a, kind)>>
      BY <1>5 DEF Hiring
    <3> QED
      BY <3>1, Joined
  <2>2. Hiring(a, kind) \in Seq(Write) /\ Head(Hiring(a, kind)).do = "recycle"
    BY <1>3, <2>1 DEF Recycle
  <2>3. Hires(db, Hiring(a, kind), asked)
    BY <1>1, <1>2, <2>1 DEF Hires
  <2> QED
    BY <1>1, <2>2, <2>3, AgentPlan
<1> QED
  BY <1>4, <1>5

LEMMA DismissalIs ==
  ASSUME NEW a \in Name, NEW w \in Write
  PROVE  /\ Dismissal(a, w) \in Seq(Write) /\ Head(Dismissal(a, w)) = w
         /\ Dismissal(a, w) = <<w>> \/ Dismissal(a, w) = <<w, Recycle({a})>>
<1>1. Recycle({a}) \in Write
  BY WritesAre
<1>2. CASE db.lease[a] = "none"
  <2>1. Dismissal(a, w) = <<w>>
    <3>1. <<w>> \in Seq(Write)
      OBVIOUS
    <3>2. Dismissal(a, w) = <<w>> \o <<>>
      BY <1>2 DEF Dismissal
    <3> QED
      BY <3>1, <3>2, ConcatEmptySeq, Zenon
  <2> QED
    BY <2>1
<1>3. CASE db.lease[a] # "none"
  <2>1. Dismissal(a, w) = <<w, Recycle({a})>>
    <3>1. Dismissal(a, w) = <<w>> \o <<Recycle({a})>>
      BY <1>3 DEF Dismissal
    <3> QED
      BY <3>1, Joined
  <2> QED
    BY <1>1, <2>1
<1> QED
  BY <1>2, <1>3

LEMMA StopGovernedAgentStep ==
  ASSUME GovernanceInv, NEW a \in Name, StopGovernedAgent(a)
  PROVE  GovernanceInv'
<1> DEFINE ws == Dismissal(a, Halt(a))
           h  == <<Halt(a)>>
<1>1. up /\ todo = <<>> /\ Perform(ws) /\ asked' = asked
  BY DEF StopGovernedAgent, Perform
<1>2. Agreed(db, asked)
  BY <1>1, IdlePlan
<1>3. Halt(a) \in Write /\ Halt(a) \in Halting /\ Halt(a).do = "halt"
  BY WritesAre DEF Halting, Halt
<1>4. /\ ws \in Seq(Write) /\ Head(ws) = Halt(a)
      /\ ws = <<Halt(a)>> \/ ws = <<Halt(a), Recycle({a})>>
  BY <1>3, DismissalIs
<1>5. h \in Seq(Halting) /\ h \o <<Recycle({a})>> = <<Halt(a), Recycle({a})>>
  BY <1>3, Joined
<1>6. \A b \in {a} : Halt(b) \in Range(h)
  <2>1. 1 \in DOMAIN h /\ h[1] = Halt(a)
    OBVIOUS
  <2> QED
    BY <2>1 DEF Range
<1> HIDE DEF ws, h
<1>7. ws = h \/ (ws = h \o <<Recycle({a})>> /\ {a} \in SUBSET Name)
  BY <1>4, <1>5 DEF h
<1>8. Reaps(db, ws, asked)
  BY <1>2, <1>5, <1>6, <1>7 DEF Reaps, Halting
<1> QED
  BY <1>1, <1>3, <1>4, <1>8, AgentPlan

LEMMA DeleteAgentStep ==
  ASSUME GovernanceInv, NEW a \in Name, DeleteAgent(a)
  PROVE  GovernanceInv'
<1> DEFINE ws == Dismissal(a, Drop(a))
<1>1. up /\ todo = <<>> /\ Perform(ws) /\ asked' = asked
  BY DEF DeleteAgent, Perform
<1>2. Agreed(db, asked)
  BY <1>1, IdlePlan
<1>3. Drop(a) \in Write /\ Drop(a).do = "drop"
  BY WritesAre DEF Drop
<1>4. /\ ws \in Seq(Write) /\ Head(ws) = Drop(a)
      /\ ws = <<Drop(a)>> \/ ws = <<Drop(a), Recycle({a})>>
  BY <1>3, DismissalIs
<1> HIDE DEF ws
<1>5. Drops(db, ws, asked)
  BY <1>2, <1>4 DEF Drops
<1> QED
  BY <1>1, <1>3, <1>4, <1>5, AgentPlan

LEMMA ReapStep == GovernanceInv /\ Reap => GovernanceInv'
<1> SUFFICES ASSUME GovernanceInv, Reap PROVE GovernanceInv'
  OBVIOUS
<1> DEFINE h == Halts(Due)
           ws == h \o <<Recycle(Due)>>
<1>1. up /\ todo = <<>> /\ Perform(ws) /\ asked' = asked /\ Due # {}
  BY DEF Reap, Perform, Reaping
<1>2. Agreed(db, asked)
  BY <1>1, IdlePlan
<1>3. Due \in SUBSET Name
  BY DEF Due
<1>4. h \in Seq(Halting) /\ \A a \in Due : Halt(a) \in Range(h)
  BY <1>3, HaltsAre
<1>5. Halting \subseteq Write /\ <<Recycle(Due)>> \in Seq(Write)
  BY <1>3, WritesAre DEF Halting
<1> HIDE DEF h
<1>6. h \in Seq(Write)
  BY <1>4, <1>5, SeqMonotonic
<1>7. h # <<>>
  BY <1>1, <1>4 DEF Range
<1>8. ws \in Seq(Write) /\ Head(ws) = Head(h)
  <2>1. Head(h \o <<Recycle(Due)>>) = Head(h)
    BY <1>5, <1>6, <1>7, ConcatHead
  <2>2. h \o <<Recycle(Due)>> \in Seq(Write)
    BY <1>5, <1>6, ConcatProperties
  <2> QED
    BY <2>1, <2>2
<1>9. Head(h) \in Halting
  BY <1>4, <1>7, HeadTailProperties
<1>10. Head(ws).do = "halt"
  <2>1. PICK a \in Name : Head(h) = Halt(a)
    BY <1>9 DEF Halting
  <2>2. Halt(a).do = "halt"
    BY DEF Halt
  <2> QED
    BY <1>8, <2>1, <2>2
<1>11. Reaps(db, ws, asked)
  BY <1>2, <1>3, <1>4 DEF Reaps, Halting
<1> HIDE DEF ws
<1> QED
  BY <1>1, <1>8, <1>10, <1>11, AgentPlan

\* What reconcile does, from whatever an operation that died has left.
LEMMA Reconciling ==
  ASSUME Sane(db), Guarded(db, asked), Covered(db, unleased)
  PROVE  /\ Reconciliation \in Seq(Write)
         /\ Reconciliation # <<>> =>
               Head(Reconciliation).do # "return" /\ Head(Reconciliation).do # "lease"
         /\ Repairs(db, Reconciliation, asked) \/ Corrects(db, Reconciliation, asked)
<1> DEFINE r == Reconciliation
           Fit(s) == /\ s \in Seq(Write)
                     /\ s # <<>> => Head(s).do # "return" /\ Head(s).do # "lease"
                     /\ Repairs(db, s, asked) \/ Corrects(db, s, asked)
<1>1. ASSUME NEW x \in Write, x.do # "return", x.do # "lease", NEW S \in SUBSET Template,
             x = CreateTeam \/ (x = SetTeam("active") /\ db.team # "none"),
             db.instance = "active", NEW s, s = <<x>> \o Members(S)
      PROVE  Fit(s)
  <2>1. <<>> \in Seq(Write)
    OBVIOUS
  <2>2. s \in Seq(Write) /\ s # <<>> /\ Head(s) = x /\ Added(Tail(s), <<>>)
    BY <1>1, <2>1, Opening
  <2>3. Opens(db, s, <<>>)
    BY <1>1, <2>2 DEF Opens
  <2>4. Repairs(db, s, asked)
    BY <1>1, <2>3 DEF Repairs, Guarded
  <2> QED
    BY <1>1, <2>2, <2>4
<1>3. CASE db.instance = "active" /\ db.team = "none"
  <2>1. r = <<CreateTeam>> \o Members(Template)
    BY <1>3 DEF Reconciliation, FromTemplate
  <2> HIDE DEF r, Fit
  <2>2. Fit(r)
    BY <1>1, <1>3, <2>1, TemplateWrites
  <2> QED
    BY <2>2 DEF r, Fit
<1>4. CASE db.instance = "active" /\ db.team \notin {"none", "active"}
  <2>1. r = <<SetTeam("active")>> \o Members(Missing)
    BY <1>4 DEF Reconciliation, RepairMembers
  <2>2. SetTeam("active") \in Write /\ SetTeam("active").do = "setTeam"
    BY TemplateWrites DEF Status
  <2> HIDE DEF r, Fit
  <2>3. Fit(r)
    BY <1>1, <1>4, <2>1, <2>2, TemplateWrites
  <2> QED
    BY <2>3 DEF r, Fit
<1>5. CASE db.instance = "active" /\ db.team = "active"
  <2>1. r = <<>> \o Members(Missing)
    BY <1>5 DEF Reconciliation, RepairMembers
  <2>2. /\ Members(Missing) \in Seq(Adding) /\ Members(Missing) \in Seq(Write)
        /\ Added(Members(Missing), <<>>)
    <3>1. <<>> \in Seq(Write) /\ Missing \in SUBSET Template
      BY TemplateWrites
    <3> QED
      BY <3>1, MembersAre, AddedMembers
  <2>3. r = Members(Missing)
    BY <2>1, <2>2, ConcatEmptySeq
  <2>4. Agreed(db, asked)
    BY <1>5 DEF Guarded, Agreed
  <2> HIDE DEF r
  <2>5. Repairs(db, r, asked)
    BY <1>5, <2>2, <2>3, <2>4 DEF Repairs
  <2>6. ASSUME r # <<>> PROVE Head(r).do = "upsert"
    <3>1. Head(r) \in Adding
      BY <2>2, <2>3, <2>6, HeadTailProperties
    <3>2. PICK a \in Template : Head(r) = Upsert(a)
      BY <3>1 DEF Adding
    <3>3. Upsert(a).do = "upsert"
      BY DEF Upsert
    <3> QED
      BY <3>2, <3>3
  <2> QED
    BY <2>2, <2>3, <2>5, <2>6 DEF r
<1>6. CASE db.instance # "active" /\ db.team = "active"
  <2>1. r = <<SetTeam("stopped")>>
    BY <1>6 DEF Reconciliation
  <2>2. SetTeam("stopped") \in Write /\ SetTeam("stopped").do = "setTeam"
    BY TemplateWrites DEF Status
  <2>3. Corrects(db, r, asked)
    BY <1>6, <2>1 DEF Corrects
  <2>4. r \in Seq(Write) /\ Head(r) = SetTeam("stopped")
    BY <2>1, <2>2
  <2> HIDE DEF r
  <2> QED
    BY <2>2, <2>3, <2>4 DEF r
<1>7. CASE db.instance # "active" /\ db.team # "active"
  <2>1. r = <<>>
    BY <1>7 DEF Reconciliation
  <2>2. Agreed(db, asked)
    BY <1>7 DEF Agreed, Sane, Database, Status
  <2>3. <<>> \in Seq(Adding) /\ <<>> \o <<>> = <<>> /\ <<>> \in Seq(Write)
    OBVIOUS
  <2>4. Repairs(db, r, asked)
    BY <2>1, <2>2, <2>3 DEF Repairs, Added, Adding
  <2> QED
    BY <2>1, <2>3, <2>4
<1> QED
  BY <1>3, <1>4, <1>5, <1>6, <1>7

LEMMA HotReloadStep == GovernanceInv /\ HotReload => GovernanceInv'
<1> SUFFICES ASSUME GovernanceInv, HotReload PROVE GovernanceInv'
  OBVIOUS
<1>1. up /\ todo = <<>> /\ Perform(Reconciliation) /\ asked' = asked /\ Reconciliation # <<>>
  BY DEF HotReload, Perform
<1>2. Sane(db) /\ Guarded(db, asked) /\ Covered(db, unleased)
  BY <1>1, IdlePlan
<1> QED
  BY <1>1, <1>2, Reconciling, AgentPlan

LEMMA StartUpStep == GovernanceInv /\ StartUp => GovernanceInv'
<1> SUFFICES ASSUME GovernanceInv, StartUp PROVE GovernanceInv'
  OBVIOUS
<1>1. ~up /\ up' = TRUE /\ todo' = Reconciliation
  BY DEF StartUp
<1>2. /\ db' = db /\ asked' = asked /\ unleased' = unleased
      /\ neighbourLost' = neighbourLost /\ crashes' = crashes
  BY DEF StartUp
<1>3. Sane(db) /\ Guarded(db, asked) /\ Covered(db, unleased)
  BY <1>1 DEF GovernanceInv, GovernanceTypeOK, Sane
<1> DEFINE r == Reconciliation
<1>4. r \in Seq(Write) /\ (Repairs(db, r, asked) \/ Corrects(db, r, asked))
  BY <1>3, Reconciling
<1> HIDE DEF r
<1>5. todo' = r
  BY <1>1 DEF r
<1>6. Plan(db, r, asked, unleased)
  BY <1>3, <1>4 DEF Plan
<1>7. Plan(db', todo', asked', unleased') /\ Guarded(db', asked')
  BY <1>2, <1>3, <1>5, <1>6
<1>8. GovernanceTypeOK'
  BY <1>1, <1>2 DEF GovernanceInv, GovernanceTypeOK
<1> QED
  BY <1>1, <1>4, <1>5, <1>7, <1>8 DEF GovernanceInv

LEMMA UngovernedStep == GovernanceInv /\ UngovernedRoute => GovernanceInv'
<1> SUFFICES ASSUME GovernanceInv, UngovernedRoute PROVE GovernanceInv'
  OBVIOUS
<1>1. /\ db.instance = "none"
      /\ \/ \E status \in {"active", "stopped"} :
               Perform(<<SetTeam(status)>>) /\ asked' = {status}
         \/ Perform(<<DeleteTeam>>) /\ asked' = {"none"}
  BY DEF UngovernedRoute
<1>2. up /\ todo = <<>>
  BY <1>1 DEF Perform
<1>3. Sane(db) /\ Covered(db, unleased) /\ \A may : Guarded(db, may)
  BY <1>1, <1>2, IdlePlan DEF Guarded
<1>4. ASSUME NEW status \in {"active", "stopped"}, Perform(<<SetTeam(status)>>), asked' = {status}
      PROVE  GovernanceInv'
  <2> DEFINE ws == <<SetTeam(status)>>
  <2>1. SetTeam(status) \in Write /\ SetTeam(status).do = "setTeam" /\ {status} \in SUBSET Status
    BY TemplateWrites DEF Status
  <2>2. ws \in Seq(Write) /\ Head(ws) = SetTeam(status)
    BY <2>1
  <2>3. Corrects(db, ws, {status})
    BY <1>1 DEF Corrects
  <2> HIDE DEF ws
  <2>4. GoesOn(ws, {status}, unleased)
    BY <1>3, <2>3, CorrectsGoOn
  <2> QED
    BY <1>4, <2>1, <2>2, <2>4, Performs DEF ws
<1>5. ASSUME Perform(<<DeleteTeam>>), asked' = {"none"}
      PROVE  GovernanceInv'
  <2> DEFINE ws == <<DeleteTeam>>
  <2>1. DeleteTeam \in Write /\ DeleteTeam.do = "deleteTeam" /\ {"none"} \in SUBSET Status
    BY TemplateWrites DEF Status
  <2>2. ws \in Seq(Write) /\ Head(ws) = DeleteTeam
    BY <2>1
  <2>3. Corrects(db, ws, {"none"})
    BY <1>1 DEF Corrects
  <2> HIDE DEF ws
  <2>4. GoesOn(ws, {"none"}, unleased)
    BY <1>3, <2>3, CorrectsGoOn
  <2> QED
    BY <1>5, <2>1, <2>2, <2>4, Performs DEF ws
<1> QED
  BY <1>1, <1>4, <1>5

LEMMA DueStep ==
  ASSUME GovernanceInv, NEW a \in Name, Expire(a) \/ Touch(a)
  PROVE  GovernanceInv'
<1>1. PICK how \in {"no", "idle", "ttl"} : db' = [db EXCEPT !.due[a] = how]
  BY DEF Expire, Touch
<1>2. /\ up /\ todo = <<>> /\ todo' = todo /\ up' = up /\ asked' = asked /\ unleased' = unleased
      /\ neighbourLost' = neighbourLost /\ crashes' = crashes
  BY DEF Expire, Touch
<1>3. Sane(db) /\ Agreed(db, asked) /\ Covered(db, unleased) /\ Guarded(db, asked)
  BY <1>2, IdlePlan
<1> DEFINE d == [db EXCEPT !.due[a] = how]
<1>4. db.lease[a] = "temporary"
  BY <1>3 DEF Expire, Touch, Sane
<1>5. /\ d \in Database /\ d.instance = db.instance /\ d.team = db.team /\ d.agent = db.agent
      /\ d.lease = db.lease /\ \A b \in Name : b # a => d.due[b] = db.due[b]
  BY <1>3 DEF Sane, Database
<1> HIDE DEF d
<1>6. Sane(d) /\ Agreed(d, asked) /\ Covered(d, unleased) /\ Guarded(d, asked)
  BY <1>3, <1>4, <1>5 DEF Sane, Agreed, Covered, Guarded
<1>7. Plan(d, <<>>, asked, unleased)
  BY <1>6, AtRest
<1>8. db' = d
  BY <1>1 DEF d
<1>9. GovernanceTypeOK'
  BY <1>2, <1>6, <1>8 DEF GovernanceInv, GovernanceTypeOK, Sane
<1>10. Plan(db', todo', asked', unleased') /\ Guarded(db', asked')
  BY <1>2, <1>6, <1>7, <1>8
<1> QED
  BY <1>2, <1>9, <1>10 DEF GovernanceInv

LEMMA ContinueStep == GovernanceInv /\ Continue => GovernanceInv'
<1> SUFFICES ASSUME GovernanceInv, Continue PROVE GovernanceInv'
  OBVIOUS
<1> DEFINE w == Head(todo)
           d == Written(w)
<1>1. /\ todo # <<>> /\ db' = d /\ todo' = Tail(todo) /\ up' = up /\ crashes' = crashes
      /\ neighbourLost' = neighbourLost
      /\ asked' = MayAfter(w, asked) /\ unleased' = LostAfter(w, unleased)
  BY DEF Continue, MayAfter, LostAfter
<1>2. up
  BY <1>1 DEF GovernanceInv, GovernanceTypeOK
<1>3. Sane(db) /\ Guarded(db, asked) /\ Plan(db, todo, asked, unleased) /\ todo \in Seq(Write)
  BY <1>2 DEF GovernanceInv, GovernanceTypeOK, Sane
<1>4. GoesOn(todo, asked, unleased)
  BY <1>1, <1>3, PlanGoesOn
<1>5. w \in Write /\ Tail(todo) \in Seq(Write)
  BY <1>1, <1>3, HeadTailProperties
<1>6. Sane(d) /\ Guarded(d, asked') /\ Plan(d, todo', asked', unleased')
  BY <1>1, <1>4 DEF GoesOn
<1> HIDE DEF w, d
<1>7. w.do = "return" => w.to \in Status
  BY <1>5 DEF Write
<1>8. asked' \subseteq Status /\ unleased' \subseteq Name
  BY <1>1, <1>7 DEF MayAfter, LostAfter, GovernanceInv, GovernanceTypeOK
<1>9. GovernanceTypeOK'
  BY <1>1, <1>2, <1>6, <1>8 DEF GovernanceInv, GovernanceTypeOK, Sane
<1>10. Plan(db', todo', asked', unleased') /\ Guarded(db', asked')
  BY <1>1, <1>6
<1> QED
  BY <1>1, <1>2, <1>5, <1>9, <1>10 DEF GovernanceInv

\* A crash: an agent that lives without its lease is on the list, and only the one whose
\* lease was the next write.
LEMMA CrashStep == GovernanceInv /\ Crash => GovernanceInv'
<1> SUFFICES ASSUME GovernanceInv, Crash PROVE GovernanceInv'
  OBVIOUS
<1>1. /\ up /\ crashes < MaxCrashes /\ up' = FALSE /\ todo' = <<>>
      /\ unleased' = unleased \cup Unleased
      /\ crashes' = crashes + 1 /\ asked' = asked
      /\ neighbourLost \in BOOLEAN => neighbourLost' \in BOOLEAN
      /\ db' = db \/ db' = Written(DeleteTeam)
  BY DEF Crash
<1>2. Sane(db) /\ Guarded(db, asked) /\ Plan(db, todo, asked, unleased) /\ todo \in Seq(Write)
  BY <1>1 DEF GovernanceInv, GovernanceTypeOK, Sane
<1>3. Unleased \subseteq Name
  <2>1. Range(todo) \subseteq Write
    BY <1>2 DEF Range
  <2> QED
    BY <2>1, LeaseOfAgent DEF Unleased
<1>4. Covered(db, unleased \cup Unleased)
  <2>1. CASE Covered(db, unleased)
    BY <2>1 DEF Covered
  <2>2. CASE Leases(db, todo, asked, unleased)
    <3>1. PICK a \in Name, kind \in {"custom", "temporary"} :
             /\ todo = <<Lease(a, kind)>> /\ db.agent[a] = "live" /\ Covered(db, unleased \cup {a})
      BY <2>2 DEF Leases
    <3>2. Lease(a, kind) \in Range(todo)
      <4>1. 1 \in DOMAIN todo /\ todo[1] = Lease(a, kind)
        BY <3>1
      <4> QED
        BY <4>1 DEF Range
    <3>3. Lease(a, kind).do = "lease" /\ Lease(a, kind).of = a
      BY DEF Lease
    <3>4. a \in Unleased
      BY <3>1, <3>2, <3>3 DEF Unleased
    <3> QED
      BY <3>1, <3>4 DEF Covered
  <2> QED
    BY <1>2, <2>1, <2>2 DEF Plan
<1> DEFINE e == Written(DeleteTeam)
<1>5. Sane(e) /\ Rest(e, {"team", "agent"}) /\ \A a \in Name : e.agent[a] = "none"
  BY <1>2, TeamSane, TeamWrites DEF Sane
<1> HIDE DEF e
<1>6. e.instance = db.instance
  BY <1>5 DEF Rest
<1>7. Guarded(e, asked) /\ Covered(e, unleased \cup Unleased)
  BY <1>2, <1>5, <1>6 DEF Guarded, Covered
<1>8. PICK d \in {db, e} : db' = d
  BY <1>1 DEF e
<1>9. Sane(d) /\ Guarded(d, asked) /\ Covered(d, unleased \cup Unleased)
  BY <1>2, <1>4, <1>5, <1>7
<1>10. crashes' \in 0..MaxCrashes
  BY <1>1, GovernanceAssumption DEF GovernanceInv, GovernanceTypeOK
<1>11. GovernanceTypeOK'
  BY <1>1, <1>3, <1>8, <1>9, <1>10 DEF GovernanceInv, GovernanceTypeOK, Sane
<1>12. Guarded(db', asked') /\ Covered(db', unleased')
  BY <1>1, <1>8, <1>9
<1>13. todo' \in Seq(Write)
  BY <1>1
<1> QED
  BY <1>1, <1>11, <1>12, <1>13 DEF GovernanceInv

LEMMA GovernanceInvInit == GovernanceInit => GovernanceInv
<1> SUFFICES ASSUME GovernanceInit PROVE GovernanceInv
  OBVIOUS
<1>1. GovernanceTypeOK
  <2>1. db \in Database
    BY DEF GovernanceInit, Database, Status, Kind
  <2>2. up = TRUE /\ neighbourLost = FALSE /\ asked = {"none"} /\ unleased = {} /\ crashes = 0
    BY DEF GovernanceInit
  <2>3. \A a \in Name : db.agent[a] = "none" /\ db.lease[a] = "none" /\ db.due[a] = "no"
    BY DEF GovernanceInit
  <2>4. up \in BOOLEAN /\ neighbourLost \in BOOLEAN /\ (~up => todo = <<>>)
    BY <2>2
  <2>5. asked \subseteq Status /\ unleased \subseteq Name /\ crashes \in 0..MaxCrashes
    BY <2>2, GovernanceAssumption DEF Status
  <2>6. \A a \in Name : db.due[a] # "no" => db.lease[a] = "temporary"
    BY <2>3
  <2> QED
    BY <2>1, <2>3, <2>4, <2>5, <2>6, Zenon DEF GovernanceTypeOK
<1>2. db.instance = "none" /\ db.team = "none" /\ todo = <<>> /\ up = TRUE
  BY DEF GovernanceInit
<1>3. Agreed(db, asked) /\ Covered(db, unleased) /\ Guarded(db, asked)
  BY <1>2 DEF Agreed, Covered, Guarded
<1>4. Plan(db, <<>>, asked, unleased)
  BY <1>3, AtRest
<1> QED
  BY <1>1, <1>2, <1>3, <1>4 DEF GovernanceInv

LEMMA GovernanceInvStep == GovernanceInv /\ [GovernanceNext]_governanceVars => GovernanceInv'
<1> SUFFICES ASSUME GovernanceInv, [GovernanceNext]_governanceVars PROVE GovernanceInv'
  OBVIOUS
<1>1. CASE Resolve
  BY <1>1, ResolveStep
<1>2. CASE Reactivate
  BY <1>2, ReactivateStep
<1>3. CASE StopInstance
  BY <1>3, StopInstanceStep
<1>4. CASE DeleteInstance
  BY <1>4, DeleteInstanceStep
<1>5. CASE UngovernedRoute
  BY <1>5, UngovernedStep
<1>6. ASSUME NEW a \in Name, AgentStep(a) PROVE GovernanceInv'
  <2>1. CASE \E kind \in {"custom", "temporary"} : CreateAgent(a, kind)
    BY <2>1, CreateAgentStep
  <2>2. CASE StopGovernedAgent(a)
    BY <2>2, StopGovernedAgentStep
  <2>3. CASE DeleteAgent(a)
    BY <2>3, DeleteAgentStep
  <2>4. CASE Expire(a) \/ Touch(a)
    BY <2>4, DueStep
  <2> QED
    BY <1>6, <2>1, <2>2, <2>3, <2>4 DEF AgentStep
<1>7. CASE Reap
  BY <1>7, ReapStep
<1>8. CASE Continue
  BY <1>8, ContinueStep
<1>9. CASE Crash
  BY <1>9, CrashStep
<1>10. CASE StartUp
  BY <1>10, StartUpStep
<1>11. CASE HotReload
  BY <1>11, HotReloadStep
<1>13. CASE RestoreNeighbour
  <2>1. /\ db' = db /\ todo' = todo /\ up' = up /\ asked' = asked /\ unleased' = unleased
        /\ neighbourLost' \in BOOLEAN /\ crashes' = crashes
    BY <1>13 DEF RestoreNeighbour
  <2>2. GovernanceTypeOK'
    BY <2>1 DEF GovernanceInv, GovernanceTypeOK
  <2>3. /\ Guarded(db', asked') /\ (up' => Plan(db', todo', asked', unleased'))
        /\ (~up' => Covered(db', unleased'))
    BY <2>1 DEF GovernanceInv
  <2> QED
    BY <2>1, <2>2, <2>3 DEF GovernanceInv
<1>12. CASE UNCHANGED governanceVars
  <2>1. /\ db' = db /\ todo' = todo /\ up' = up /\ asked' = asked /\ unleased' = unleased
        /\ neighbourLost' = neighbourLost /\ crashes' = crashes
    BY <1>12 DEF governanceVars
  <2>2. GovernanceTypeOK'
    BY <2>1 DEF GovernanceInv, GovernanceTypeOK
  <2>3. /\ Guarded(db', asked') /\ (up' => Plan(db', todo', asked', unleased'))
        /\ (~up' => Covered(db', unleased'))
    BY <2>1 DEF GovernanceInv
  <2> QED
    BY <2>1, <2>2, <2>3 DEF GovernanceInv
<1> QED
  BY <1>1, <1>2, <1>3, <1>4, <1>5, <1>6, <1>7, <1>8, <1>9, <1>10, <1>11, <1>12, <1>13
     DEF GovernanceNext

-----------------------------------------------------------------------------
(* The theorems.                                                            *)

\* What is left of an operation always leads to databases that agree (governance-extension.ts).
THEOREM GovernanceInvHolds == GovernanceSpec => []GovernanceInv
BY GovernanceInvInit, GovernanceInvStep, PTL DEF GovernanceSpec

\* Every row is well formed: no agents without their team, no lease without its instance,
\* and only a temporary lease runs out.
THEOREM GovernanceTypeOKHolds == GovernanceSpec => []GovernanceTypeOK
<1>1. GovernanceInv => GovernanceTypeOK
  BY DEF GovernanceInv
<1> QED
  BY <1>1, GovernanceInvHolds, PTL

\* Between two operations the upstream team is as its governance row says, and a team whose
\* stop was confirmed or whose deletion was begun does not run again (stopInstance,
\* deleteInstance, resolveInstance, reconcile).
THEOREM AgreeHolds == GovernanceSpec => []HalvesAgree
<1>1. GovernanceInv => HalvesAgree
  BY IdlePlan DEF HalvesAgree, Idle, Agreed
<1> QED
  BY <1>1, GovernanceInvHolds, PTL

\* Between two operations every living agent that is not of the template has a lease, or
\* was left behind by a crash in createAgent (reapExpired, stopAgent, deleteAgent).
THEOREM UnleasedHolds == GovernanceSpec => []NobodyUnleased
<1>1. GovernanceInv => NobodyUnleased
  BY IdlePlan DEF NobodyUnleased, Idle, Covered
<1> QED
  BY <1>1, GovernanceInvHolds, PTL
=============================================================================
