----------------------- MODULE ControlledRestartProofs -----------------------
(***************************************************************************)
(* Proofs about ControlledRestart for every set of requests and chats.     *)
(*                                                                         *)
(* TypeInv adds to the type invariant where a request must be for the      *)
(* bridge to know it: only a CLI that is past its prepare has a breadcrumb *)
(* or a decision.  CheckpointInv carries the coverage of the snapshot      *)
(* across the await of the notices.                                        *)
(***************************************************************************)
EXTENDS ControlledRestart, TLAPS

\* The CLI has written its breadcrumb, or tried to.
Past == {"crumbed", "marked", "failing", "cleanup", "closing", "over"}

\* Whoever is in the files, or in the finalization, is past its breadcrumb; the recovery
\* works on a copy of the plan that has the chats it names.
Linked ==
    /\ fin.at \in {"loaded", "health", "recover", "report"} => fin.req \in Req
    /\ fin.at = "recover" =>
         /\ fin.next.id = fin.req
         /\ fin.next.recovered \subseteq fin.next.parts
         /\ fin.chat \in fin.next.parts
         /\ fin.todo \subseteq fin.next.parts
    /\ \A r \in Req : crumb = r \/ fin.req = r \/ r \in decided => cli[r].pc \in Past

TypeInv == TypeOK /\ Linked

USE DEF files, ledger, memory, history

-----------------------------------------------------------------------------
(* The pieces of the finalization.                                         *)

\* Any finalization record between two steps is typed.
LEMMA AtType ==
    ASSUME NEW where \in {"down", "loaded", "health", "report", "done"}, NEW r \in Req \cup {None}
    PROVE  At(where, r) \in Finalization
BY DEF At, Finalization, NoPlan, Plan

\* Stopping the process leaves typed, empty memory and a CLI's prepare refused.
LEMMA DownType ==
    ASSUME TypeInv, BridgeDown, UNCHANGED <<files, ledger>>,
           cli' \in [Req -> Controller],
           \A r \in Req : cli[r].pc \in Past => cli'[r].pc \in Past,
           interrupted' \in [Req -> SUBSET Chat], tasks' = tasks,
           crashes' \in Nat
    PROVE  TypeInv'
<1>1. fin' \in Finalization /\ fin'.at = "down" /\ fin'.req = None
  BY AtType DEF BridgeDown, At
<1>2. TypeOK'
  BY <1>1 DEF TypeInv, TypeOK, BridgeDown, Up, Plan
<1>3. Linked'
  BY <1>1, NoneAssumption DEF TypeInv, Linked, TypeOK
<1> QED BY <1>2, <1>3 DEF TypeInv

\* A turn of the recovery loop.
LEMMA RecoverNextType ==
    ASSUME TypeInv, NEW r \in Req, fin.req = r, NEW next \in Plan, NEW todo, NEW healthy,
           next.id = r, next.recovered \subseteq next.parts, todo \subseteq next.parts,
           RecoverNext(r, next, todo, healthy)
    PROVE  /\ plan' \in Plan /\ plan'.recovered \subseteq plan'.parts
           /\ crumb' \in Req \cup {None} /\ decided' \subseteq Req /\ crumb' \notin decided'
           /\ cont' \subseteq Continuation
           /\ fin' \in Finalization /\ fin'.at \in {"recover", "done"} /\ fin'.req = r
           /\ fin'.at = "recover" =>
                /\ fin'.next.id = r
                /\ fin'.next.recovered \subseteq fin'.next.parts
                /\ fin'.chat \in fin'.next.parts
                /\ fin'.todo \subseteq fin'.next.parts
           /\ \A q \in Req : crumb' = q \/ q \in decided' => crumb = q \/ q \in decided \/ q = r
<1> USE DEF TypeInv, TypeOK
<1>1. next.parts \subseteq Chat
  BY DEF Plan
<1>2. CASE \E c \in todo, saved \in BOOLEAN :
         /\ saved => Required(r, next, c, healthy)
         /\ cont' = IF saved THEN cont \cup {[req |-> r, chat |-> c, by |-> "participant"]} ELSE cont
         /\ fin' = [at |-> "recover", req |-> r, next |-> next, chat |-> c, saved |-> saved,
                    todo |-> todo \ {c}]
         /\ plan' = next
         /\ UNCHANGED <<decided, crumb>>
  BY <1>1, <1>2 DEF Continuation, Finalization
<1>3. CASE Decide(r) /\ plan' = [next EXCEPT !.status = "completed"] /\ UNCHANGED cont
  <2>1. plan' \in Plan /\ plan'.recovered \subseteq plan'.parts
    BY <1>3 DEF Plan
  <2>2. crumb' \in Req \cup {None} /\ decided' = decided \cup {r} /\ crumb' \notin decided'
    BY <1>3, NoneAssumption DEF Decide, Cleared
  <2>3. fin' \in Finalization /\ fin'.at = "done" /\ fin'.req = r
    BY <1>3, AtType DEF Decide, At
  <2> QED BY <1>3, <2>1, <2>2, <2>3, NoneAssumption DEF Decide, Cleared
<1>4. CASE Incomplete(r) /\ plan' = next /\ UNCHANGED cont
  <2>1. fin' \in Finalization /\ fin'.at = "done" /\ fin'.req = r
    BY <1>4, AtType DEF Incomplete, At
  <2> QED BY <1>4, <2>1 DEF Incomplete
<1> QED BY <1>2, <1>3, <1>4 DEF RecoverNext

\* The recovery up to its first await.
LEMMA RecoverType ==
    ASSUME TypeInv, NEW r \in Req, fin.req = r, NEW healthy, Recover(r, healthy)
    PROVE  /\ plan' \in Plan /\ plan'.recovered \subseteq plan'.parts
           /\ crumb' \in Req \cup {None} /\ decided' \subseteq Req /\ crumb' \notin decided'
           /\ cont' \subseteq Continuation /\ leases' \subseteq leases
           /\ fin' \in Finalization /\ fin'.at \in {"recover", "report", "done"} /\ fin'.req = r
           /\ fin'.at = "recover" =>
                /\ fin'.next.id = r
                /\ fin'.next.recovered \subseteq fin'.next.parts
                /\ fin'.chat \in fin'.next.parts
                /\ fin'.todo \subseteq fin'.next.parts
           /\ \A q \in Req : crumb' = q \/ q \in decided' => crumb = q \/ q \in decided \/ q = r
<1>1. CASE leases' = leases \ {r} /\ plan.id = r /\ RecoverNext(r, plan, plan.parts \ plan.recovered, healthy)
  BY <1>1, RecoverNextType DEF TypeInv, TypeOK
<1>2. CASE leases' = leases \ {r} /\ Decide(r) /\ UNCHANGED <<plan, cont>>
  <2>1. crumb' \in Req \cup {None} /\ decided' = decided \cup {r} /\ crumb' \notin decided'
    BY <1>2, NoneAssumption DEF Decide, Cleared, TypeInv, TypeOK
  <2>2. fin' \in Finalization /\ fin'.at = "done" /\ fin'.req = r
    BY <1>2, AtType DEF Decide, At
  <2> QED BY <1>2, <2>1, <2>2, NoneAssumption DEF Decide, Cleared, TypeInv, TypeOK
<1>3. CASE UNCHANGED <<plan, cont, leases, decided, crumb>> /\ fin' \in {At("done", r), At("report", r)}
  <2>1. fin' \in Finalization /\ fin'.at \in {"done", "report"} /\ fin'.req = r
    BY <1>3, AtType DEF At
  <2> QED BY <1>3, <2>1 DEF TypeInv, TypeOK
<1> QED BY <1>1, <1>2, <1>3 DEF Recover, Incomplete

-----------------------------------------------------------------------------
(* The steps, by actor.                                                    *)

LEMMA InitType == Init => TypeInv
<1> SUFFICES ASSUME Init PROVE TypeInv
  OBVIOUS
<1>1. fin \in Finalization /\ fin.at = "done" /\ fin.req = None
  BY AtType DEF Init, At
<1>2. TypeOK
  BY <1>1, NoneAssumption, BoundsAssumption
  DEF Init, TypeOK, NoPlan, Plan, Status, Controller, Up
<1>3. Linked
  BY <1>1, NoneAssumption DEF Init, Linked
<1> QED BY <1>2, <1>3 DEF TypeInv

LEMMA TaskType ==
    ASSUME TypeInv, NEW c \in Chat, StartTask(c) \/ EndTask(c)
    PROVE  TypeInv'
BY DEF TypeInv, TypeOK, Linked, StartTask, EndTask, Up

\* Commands of a CLI that leave the files and the process alone.
LEMMA CommandType ==
    ASSUME TypeInv, NEW r \in Req,
           \/ Claim(r) \/ PrepareUnreachable(r) \/ MarkRestarting(r) \/ SwitchRejected(r)
           \/ MarkFailed(r) \/ CliDies(r)
    PROVE  TypeInv'
<1>1. UNCHANGED <<plan, crumb, decided, cont, quiesce, leases, notifying, busy, fin,
                  interrupted, tasks, crashes>>
  BY DEF Claim, PrepareUnreachable, MarkRestarting, SwitchRejected, MarkFailed, CliDies
<1>2. record' \in [Req -> Status]
  BY DEF Claim, PrepareUnreachable, MarkRestarting, SwitchRejected, MarkFailed, CliDies,
         TypeInv, TypeOK, Status
<1>3. cli' \in [Req -> Controller] /\ \A q \in Req : cli[q].pc \in Past => cli'[q].pc \in Past
  BY DEF Claim, PrepareUnreachable, MarkRestarting, SwitchRejected, MarkFailed, CliDies,
         TypeInv, TypeOK, Controller, Goto, Past
<1> QED BY <1>1, <1>2, <1>3 DEF TypeInv, TypeOK, Linked, Up

LEMMA BreadcrumbType ==
    ASSUME TypeInv, NEW r \in Req, WriteBreadcrumb(r) \/ ClearBreadcrumb(r)
    PROVE  TypeInv'
<1>1. /\ UNCHANGED <<plan, record, decided, cont, quiesce, leases, notifying, busy, fin,
                     interrupted, tasks, crashes>>
      /\ crumb' \in {crumb, None} \/ (crumb' = r /\ cli[r].pc \in {"prepared", "refused"})
  BY DEF WriteBreadcrumb, ClearBreadcrumb, Cleared
<1>2. /\ cli' \in [Req -> Controller] /\ cli'[r].pc \in Past
      /\ \A q \in Req : cli[q].pc \in Past => cli'[q].pc \in Past
  BY DEF WriteBreadcrumb, ClearBreadcrumb, TypeInv, TypeOK, Controller, Goto, Past
<1>3. crumb' \in Req \cup {None} /\ crumb' \notin decided'
  BY <1>1, NoneAssumption DEF TypeInv, TypeOK, Linked, Past
<1> QED BY <1>1, <1>2, <1>3, NoneAssumption DEF TypeInv, TypeOK, Linked, Up

\* Cancelling keeps the type of the files and of the memory.
LEMMA CancelType ==
    ASSUME TypeInv, NEW r \in Req, CancelControlledRestart(r)
    PROVE  /\ plan' \in Plan /\ plan'.recovered \subseteq plan'.parts
           /\ quiesce' \in Req \cup {None} /\ leases' \subseteq leases
           /\ quiesce = None => quiesce' = None
BY DEF CancelControlledRestart, Released, TypeInv, TypeOK, Plan

LEMMA LeaseType ==
    ASSUME TypeInv, NEW r \in Req, LeaseExpires(r) \/ CliCancel(r)
    PROVE  TypeInv'
<1>1. /\ UNCHANGED <<record, decided, cont, notifying, busy, fin, interrupted, tasks, crashes>>
      /\ crumb' \in {crumb, None}
  BY DEF LeaseExpires, CliCancel, Cleared
<1>2. cli' \in [Req -> Controller] /\ \A q \in Req : cli[q].pc \in Past => cli'[q].pc \in Past
  BY DEF LeaseExpires, CliCancel, TypeInv, TypeOK, Controller, Goto, Past
<1>3. /\ plan' \in Plan /\ plan'.recovered \subseteq plan'.parts
      /\ quiesce' \in Req \cup {None} /\ leases' \subseteq leases
      /\ quiesce = None => quiesce' = None
  BY CancelType DEF LeaseExpires, CliCancel, TypeInv, TypeOK
<1> QED BY <1>1, <1>2, <1>3, NoneAssumption DEF TypeInv, TypeOK, Linked, Up

LEMMA PrepareType ==
    ASSUME TypeInv, NEW r \in Req, Prepare(r)
    PROVE  TypeInv'
<1>1. cli' \in [Req -> Controller] /\ \A q \in Req : cli[q].pc \in Past => cli'[q].pc \in Past
  <2>1. PICK to \in {"asking", "refused"} : cli' = [cli EXCEPT ![r].pc = to]
    BY DEF Prepare, PrepareAccepted, PrepareRefused, Goto
  <2>2. cli \in [Req -> Controller] /\ cli[r].pc \notin Past
    BY DEF Prepare, TypeInv, TypeOK, Past
  <2> QED BY ONLY <2>1, <2>2, r \in Req DEF Controller
<1>2. busy \cup ({Requester[r]} \ {None}) \subseteq Chat
  BY RequestAssumption DEF TypeInv, TypeOK
<1>3. /\ plan' \in Plan /\ plan'.recovered \subseteq plan'.parts
      /\ quiesce' \in Req \cup {None}
      /\ notifying' \subseteq [id : Req, parts : SUBSET Chat]
  BY <1>2 DEF Prepare, PrepareAccepted, PrepareRefused, TypeInv, TypeOK, Plan
<1> QED BY <1>1, <1>3 DEF Prepare, Serving, TypeInv, TypeOK, Linked, Up

LEMMA FinishPrepareType ==
    ASSUME TypeInv, NEW n \in notifying, FinishPrepare(n)
    PROVE  TypeInv'
<1>1. n \in [id : Req, parts : SUBSET Chat] /\ n.id \in Req /\ n.parts \subseteq Chat
  BY DEF TypeInv, TypeOK
<1>2. cli' \in [Req -> Controller] /\ \A q \in Req : cli[q].pc \in Past => cli'[q].pc \in Past
  <2>1. \/ cli' = cli
        \/ /\ cli[n.id].pc = "asking"
           /\ \E k \in Controller : cli' = [cli EXCEPT ![n.id] = k]
    <3>1. [cli[n.id] EXCEPT !.pc = "refused"] \in Controller
          /\ [pc |-> "prepared", prepared |-> TRUE] \in Controller
      BY <1>1 DEF TypeInv, TypeOK, Controller
    <3> QED BY <3>1 DEF FinishPrepare, Prepared, NotPrepared, Goto
  <2> QED BY <1>1, <2>1 DEF TypeInv, TypeOK, Past
<1>3. /\ plan' \in Plan /\ plan'.recovered \subseteq plan'.parts
      /\ quiesce' \in Req \cup {None} /\ leases' \subseteq Req
      /\ notifying' \subseteq notifying
  BY <1>1 DEF FinishPrepare, Prepared, NotPrepared, Refreshed, Released, TypeInv, TypeOK, Plan
<1>4. Up
  BY DEF TypeInv, TypeOK
<1> QED BY <1>2, <1>3, <1>4 DEF FinishPrepare, TypeInv, TypeOK, Linked, Up

\* The steps that stop or start the process.
LEMMA ProcessType ==
    ASSUME TypeInv, \/ Crash \/ Start \/ FinalizationThrows \/ \E r \in Req : Switch(r)
    PROVE  TypeInv'
<1> DEFINE Kept == cli' \in [Req -> Controller]
                   /\ \A q \in Req : cli[q].pc \in Past => cli'[q].pc \in Past
<1>1. CASE Crash
  <2>1. Kept
    BY <1>1 DEF Crash, CutOff, TypeInv, TypeOK, Controller, Past
  <2>2. crashes' \in Nat
    BY <1>1 DEF Crash, TypeInv, TypeOK
  <2>3. interrupted' \in [Req -> SUBSET Chat]
    BY <1>1 DEF Crash, TypeInv, TypeOK
  <2> QED BY <1>1, <2>1, <2>2, <2>3, DownType DEF Crash
<1>2. CASE FinalizationThrows
  <2>1. Kept
    BY <1>2 DEF FinalizationThrows, CutOff, TypeInv, TypeOK, Controller, Past
  <2> QED BY <1>2, <2>1, DownType DEF FinalizationThrows, TypeInv, TypeOK
<1>3. ASSUME NEW r \in Req, Switch(r) PROVE TypeInv'
  <2>1. Kept
    BY <1>3 DEF Switch, CutOff, TypeInv, TypeOK, Controller, Past
  <2> QED BY <1>3, <2>1, DownType DEF Switch, TypeInv, TypeOK
<1>4. CASE Start
  <2>1. fin' \in Finalization /\ fin'.at # "recover" /\ fin'.req = crumb
        /\ (fin'.at # "done" => crumb # None)
    BY <1>4, AtType DEF Start, At, TypeInv, TypeOK
  <2> QED BY <1>4, <2>1 DEF Start, TypeInv, TypeOK, Linked, Up
<1> QED BY <1>1, <1>2, <1>3, <1>4

\* The steps of the finalization.
LEMMA FinalizeType ==
    ASSUME TypeInv, BeginFinalization \/ HealthChecked \/ ChatRecovered \/ DecideContinuation
    PROVE  TypeInv'
<1>0. PICK r \in Req : r = fin.req
  BY DEF BeginFinalization, HealthChecked, ChatRecovered, DecideContinuation, TypeInv, Linked
<1>1. Up /\ UNCHANGED <<cli, quiesce, notifying, busy, interrupted, tasks, crashes>>
  BY DEF BeginFinalization, HealthChecked, ChatRecovered, DecideContinuation, Up
<1> DEFINE Good ==
      /\ plan' \in Plan /\ plan'.recovered \subseteq plan'.parts
      /\ crumb' \in Req \cup {None} /\ decided' \subseteq Req /\ crumb' \notin decided'
      /\ cont' \subseteq Continuation /\ leases' \subseteq leases
      /\ fin' \in Finalization /\ fin'.at \in {"recover", "report", "done", "health"}
      /\ fin'.req = r
      /\ fin'.at = "recover" =>
           /\ fin'.next.id = r
           /\ fin'.next.recovered \subseteq fin'.next.parts
           /\ fin'.chat \in fin'.next.parts
           /\ fin'.todo \subseteq fin'.next.parts
      /\ \A q \in Req : crumb' = q \/ q \in decided' => crumb = q \/ q \in decided \/ q = r
<1>2. record' \in [Req -> Status]
  BY <1>0, <1>1 DEF BeginFinalization, HealthChecked, ChatRecovered, DecideContinuation, TypeInv,
              TypeOK, Status
<1>3. ASSUME BeginFinalization PROVE Good
  <2>1. CASE fin' = At("health", r) /\ UNCHANGED <<files, ledger, leases>>
    <3>1. fin' \in Finalization /\ fin'.at = "health" /\ fin'.req = r
      BY <1>0, <1>1, <2>1, AtType DEF At
    <3> QED BY <2>1, <3>1 DEF TypeInv, TypeOK
  <2>2. ASSUME NEW healthy, Recover(r, healthy) PROVE Good
    BY <1>0, <1>1, <2>2, RecoverType
  <2> HIDE DEF Good
  <2> QED BY <1>0, <1>3, <2>1, <2>2 DEF BeginFinalization
<1>4. ASSUME HealthChecked PROVE Good
  BY <1>0, <1>1, <1>4, RecoverType DEF HealthChecked
<1>5. ASSUME ChatRecovered PROVE Good
  <2>1. /\ fin.at = "recover" /\ fin.next.id = r /\ fin.next \in Plan /\ UNCHANGED leases
        /\ fin.next.recovered \subseteq fin.next.parts /\ fin.chat \in fin.next.parts
        /\ fin.todo \subseteq fin.next.parts
    BY <1>0, <1>5 DEF ChatRecovered, TypeInv, TypeOK, Linked, Finalization
  <2>2. PICK next : /\ \/ next = fin.next
                       \/ next = [fin.next EXCEPT !.recovered = @ \cup {fin.chat}]
                    /\ RecoverNext(r, next, fin.todo, record[r] = "healthy")
    BY <1>0, <1>5 DEF ChatRecovered
  <2>3. next \in Plan /\ next.id = r /\ next.recovered \subseteq next.parts
        /\ next.parts = fin.next.parts
    BY <2>1, <2>2 DEF Plan
  <2> QED BY <1>0, <1>1, <2>1, <2>2, <2>3, RecoverNextType
<1>6. ASSUME DecideContinuation PROVE Good
  <2>1. CASE Incomplete(r) /\ UNCHANGED cont
    <3>1. fin' \in Finalization /\ fin'.at = "done" /\ fin'.req = r
      BY <1>0, <1>1, <2>1, AtType DEF At, Incomplete
    <3> QED BY <1>0, <1>6, <2>1, <3>1 DEF TypeInv, TypeOK, DecideContinuation, Incomplete
  <2>2. CASE Decide(r) /\ cont' \subseteq Continuation
    <3>1. fin' \in Finalization /\ fin'.at = "done" /\ fin'.req = r
      BY <1>0, <1>1, <2>2, AtType DEF At, Decide
    <3>2. crumb' \in Req \cup {None} /\ decided' = decided \cup {r} /\ crumb' \notin decided'
      BY <1>0, <1>1, <2>2, NoneAssumption DEF Decide, Cleared, TypeInv, TypeOK
    <3> QED BY <1>0, <1>1, <1>6, <2>2, <3>1, <3>2, NoneAssumption
            DEF TypeInv, TypeOK, DecideContinuation, Decide, Cleared
  <2>3. CASE Requester[r] \notin Internal \cup {None} /\ Decide(r)
            /\ cont' = cont \cup {[req |-> r, chat |-> Requester[r], by |-> "requester"]}
    <3>1. Requester[r] \in Chat
      BY <1>0, <1>1, <2>3, RequestAssumption
    <3>2. cont' \subseteq Continuation
      BY <1>0, <1>1, <2>3, <3>1 DEF Continuation, TypeInv, TypeOK
    <3> QED BY <2>2, <2>3, <3>2
  <2>4. cont \subseteq Continuation
    BY DEF TypeInv, TypeOK
  <2> HIDE DEF Good
  <2> QED BY <1>0, <1>6, <2>1, <2>2, <2>3, <2>4 DEF DecideContinuation
<1>7. Good
  <2> HIDE DEF Good
  <2> QED BY <1>3, <1>4, <1>5, <1>6
<1>8. TypeOK'
  BY <1>0, <1>1, <1>2, <1>7 DEF TypeInv, TypeOK, Up
<1>9. Linked'
  BY <1>0, <1>1, <1>7, NoneAssumption DEF TypeInv, Linked, TypeOK
<1> QED BY <1>8, <1>9 DEF TypeInv

LEMMA NextType == TypeInv /\ [Next]_vars => TypeInv'
<1> SUFFICES ASSUME TypeInv, [Next]_vars PROVE TypeInv'
  OBVIOUS
<1>1. CASE UNCHANGED vars
  BY <1>1 DEF vars, TypeInv, TypeOK, Linked, Up
<1>2. CASE Next
  BY <1>2, TaskType, CommandType, BreadcrumbType, LeaseType, PrepareType, FinishPrepareType,
     ProcessType, FinalizeType DEF Next
<1> QED BY <1>1, <1>2

\* Every reachable state of a controlled restart is well typed, and a decided request has
\* lost its breadcrumb: startup never replays what is settled.
THEOREM TypeOKHolds == Spec => []TypeOK
<1>1. Spec => []TypeInv
  BY InitType, NextType, PTL DEF Spec
<1> QED BY <1>1, PTL DEF TypeInv

-----------------------------------------------------------------------------
(* The checkpoint.                                                         *)

\* What the await of the notices needs: the prepare's list still has every busy chat, its
\* CLI waits, and a request that is being finalized does not hold the quiesce.
AwaitCovers ==
    /\ \A n \in notifying :
         /\ quiesce = n.id => busy \subseteq n.parts
         /\ cli[n.id].pc \notin {"idle", "claimed"}
    /\ fin.req # None => quiesce # fin.req

CheckpointInv == CheckpointCovers /\ AwaitCovers

\* A step of the finalization writes only the plan of its own request.
LEMMA FinalizePlan ==
    ASSUME TypeInv, BeginFinalization \/ HealthChecked \/ ChatRecovered \/ DecideContinuation
    PROVE  /\ fin.req \in Req /\ fin'.req = fin.req
           /\ plan' = plan \/ plan'.id = fin.req
           /\ leases' \subseteq leases
           /\ UNCHANGED <<cli, quiesce, notifying, busy>>
<1>1. fin.req \in Req
  BY DEF BeginFinalization, HealthChecked, ChatRecovered, DecideContinuation, TypeInv, Linked
<1>2. ASSUME NEW r \in Req, NEW next, NEW todo, NEW healthy, RecoverNext(r, next, todo, healthy)
      PROVE  fin'.req = r /\ (plan' = next \/ plan' = [next EXCEPT !.status = "completed"])
  BY <1>2 DEF RecoverNext, Decide, Incomplete, At
<1>3. ASSUME NEW r \in Req, NEW healthy, Recover(r, healthy)
      PROVE  /\ fin'.req = r /\ leases' \subseteq leases
             /\ plan' = plan \/ plan'.id = r
  <2>1. CASE plan.id = r /\ leases' = leases \ {r}
               /\ RecoverNext(r, plan, plan.parts \ plan.recovered, healthy)
    <3>1. [plan EXCEPT !.status = "completed"].id = plan.id
      BY DEF TypeInv, TypeOK, Plan
    <3> QED BY <1>2, <2>1, <3>1
  <2>2. CASE UNCHANGED plan /\ leases' \subseteq leases /\ (Decide(r) \/ Incomplete(r) \/ fin' = At("report", r))
    BY <2>2 DEF Decide, Incomplete, At
  <2> QED BY <1>3, <2>1, <2>2 DEF Recover
<1>4. CASE BeginFinalization
  <2>1. CASE fin' = At("health", fin.req) /\ UNCHANGED <<files, ledger, leases>>
    BY <1>1, <1>4, <2>1 DEF BeginFinalization, At
  <2>2. ASSUME NEW healthy, Recover(fin.req, healthy)
        PROVE  fin'.req = fin.req /\ leases' \subseteq leases /\ (plan' = plan \/ plan'.id = fin.req)
    BY <1>1, <1>3, <2>2
  <2> QED BY <1>1, <1>4, <2>1, <2>2 DEF BeginFinalization
<1>5. CASE HealthChecked
  BY <1>1, <1>3, <1>5 DEF HealthChecked
<1>6. CASE ChatRecovered
  <2>1. fin.next.id = fin.req /\ fin.next \in Plan
    BY <1>6 DEF ChatRecovered, TypeInv, TypeOK, Linked, Finalization
  <2>2. PICK next : /\ \/ next = fin.next
                       \/ next = [fin.next EXCEPT !.recovered = @ \cup {fin.chat}]
                    /\ RecoverNext(fin.req, next, fin.todo, record[fin.req] = "healthy")
    BY <1>6 DEF ChatRecovered
  <2>3. next.id = fin.req /\ [next EXCEPT !.status = "completed"].id = fin.req
    BY <2>1, <2>2 DEF Plan
  <2> QED BY <1>1, <1>2, <1>6, <2>2, <2>3 DEF ChatRecovered
<1>7. CASE DecideContinuation
  BY <1>1, <1>7 DEF DecideContinuation, Decide, Incomplete, At
<1> QED BY <1>4, <1>5, <1>6, <1>7

LEMMA CheckpointInit == Init => CheckpointInv
BY DEF Init, CheckpointInv, CheckpointCovers, AwaitCovers, At, NoPlan

\* While neither the quiesce nor the notices change hands, coverage is kept when the work
\* only shrinks and the plan is the finalization's or keeps its snapshot.
LEMMA CheckpointKept ==
    ASSUME TypeInv, CheckpointInv, notifying' \subseteq notifying, leases' \subseteq leases,
           quiesce' \in {quiesce, None}, fin'.req = fin.req,
           busy' \subseteq busy \/ quiesce = None,
           \/ plan' = plan
           \/ plan'.id = plan.id /\ plan'.active = plan.active
           \/ fin.req \in Req /\ plan'.id = fin.req,
           \A q \in Req : cli[q].pc \notin {"idle", "claimed"} => cli'[q].pc \notin {"idle", "claimed"}
    PROVE  CheckpointInv'
<1>1. \A n \in notifying : n.id \in Req
  BY DEF TypeInv, TypeOK
<1>2. CheckpointCovers'
  BY NoneAssumption DEF CheckpointInv, CheckpointCovers, AwaitCovers
<1>3. AwaitCovers'
  BY <1>1, NoneAssumption DEF CheckpointInv, AwaitCovers
<1> QED BY <1>2, <1>3 DEF CheckpointInv

LEMMA CheckpointDown ==
    ASSUME BridgeDown
    PROVE  CheckpointInv'
BY DEF BridgeDown, CheckpointInv, CheckpointCovers, AwaitCovers, At

LEMMA CheckpointNext == TypeInv /\ CheckpointInv /\ [Next]_vars => CheckpointInv'
<1> SUFFICES ASSUME TypeInv, CheckpointInv, [Next]_vars PROVE CheckpointInv'
  OBVIOUS
<1>t. cli \in [Req -> Controller] /\ plan \in Plan
  BY DEF TypeInv, TypeOK
<1> DEFINE Waits == \A q \in Req :
      cli[q].pc \notin {"idle", "claimed"} => cli'[q].pc \notin {"idle", "claimed"}
<1>1. CASE UNCHANGED vars
  BY <1>1 DEF vars, CheckpointInv, CheckpointCovers, AwaitCovers
<1>2. ASSUME NEW c \in Chat, StartTask(c) \/ EndTask(c) PROVE CheckpointInv'
  BY <1>2, CheckpointKept DEF StartTask, EndTask, Reservable
<1>3. ASSUME NEW n \in notifying, FinishPrepare(n) PROVE CheckpointInv'
  <2>1. n.id \in Req /\ n.parts \subseteq Chat /\ busy \subseteq Chat
    BY DEF TypeInv, TypeOK
  <2>2. Waits
    BY <1>t, <1>3, <2>1 DEF FinishPrepare, Prepared, NotPrepared, Goto, Controller
  <2>3. AwaitCovers'
    <3>1. quiesce' \in {quiesce, None} /\ UNCHANGED <<busy, fin>> /\ notifying' \subseteq notifying
      BY <1>3 DEF FinishPrepare, Prepared, NotPrepared, Released
    <3>2. \A k \in notifying : k.id \in Req
      BY DEF TypeInv, TypeOK
    <3> QED BY <2>2, <3>1, <3>2, NoneAssumption DEF CheckpointInv, AwaitCovers
  <2>4. CASE Prepared(n)
    <3>1. quiesce = n.id => busy \subseteq Refreshed(n)
      BY DEF CheckpointInv, AwaitCovers, Refreshed
    <3>2. CheckpointCovers'
      BY <1>3, <2>4, <3>1 DEF Prepared, FinishPrepare, CheckpointCovers
    <3> QED BY <2>3, <3>2 DEF CheckpointInv
  <2>5. CASE NotPrepared(n)
    <3>1. CheckpointCovers'
      BY <2>5, <2>1, NoneAssumption DEF NotPrepared, Released, CheckpointCovers
    <3> QED BY <2>3, <3>1 DEF CheckpointInv
  <2> QED BY <1>3, <2>4, <2>5 DEF FinishPrepare
<1>4. ASSUME NEW r \in Req,
             \/ Claim(r) \/ PrepareUnreachable(r) \/ WriteBreadcrumb(r) \/ MarkRestarting(r)
             \/ SwitchRejected(r) \/ ClearBreadcrumb(r) \/ MarkFailed(r) \/ CliDies(r)
      PROVE  CheckpointInv'
  <2>1. UNCHANGED <<plan, quiesce, leases, notifying, busy, fin>>
    BY <1>4 DEF Claim, PrepareUnreachable, WriteBreadcrumb, MarkRestarting, SwitchRejected,
                ClearBreadcrumb, MarkFailed, CliDies
  <2>2. Waits
    BY <1>t, <1>4 DEF Claim, PrepareUnreachable, WriteBreadcrumb, MarkRestarting, SwitchRejected,
                      ClearBreadcrumb, MarkFailed, CliDies, Goto, Controller
  <2> QED BY <2>1, <2>2, CheckpointKept
<1>5. ASSUME NEW r \in Req, LeaseExpires(r) \/ CliCancel(r) PROVE CheckpointInv'
  <2>1. Waits
    BY <1>t, <1>5 DEF LeaseExpires, CliCancel, Goto, Controller
  <2>2. ASSUME CancelControlledRestart(r)
        PROVE  /\ leases' \subseteq leases /\ quiesce' \in {quiesce, None}
               /\ plan'.id = plan.id /\ plan'.active = plan.active
    BY <1>t, <2>2 DEF CancelControlledRestart, Released, Plan
  <2>3. /\ UNCHANGED <<notifying, busy, fin>>
        /\ leases' \subseteq leases /\ quiesce' \in {quiesce, None}
        /\ plan' = plan \/ (plan'.id = plan.id /\ plan'.active = plan.active)
    BY <1>5, <2>2 DEF LeaseExpires, CliCancel
  <2> QED BY <2>1, <2>3, CheckpointKept
<1>6. ASSUME NEW r \in Req, Prepare(r) PROVE CheckpointInv'
  <2>1. cli[r].pc = "claimed" /\ UNCHANGED <<leases, busy, fin>>
    BY <1>6 DEF Prepare
  <2>2. Waits /\ cli'[r].pc \notin {"idle", "claimed"}
    BY <1>t, <1>6 DEF Prepare, PrepareAccepted, PrepareRefused, Goto, Controller
  <2>3. CASE PrepareRefused(r)
    BY <2>1, <2>2, <2>3, CheckpointKept DEF PrepareRefused
  <2>4. CASE PrepareAccepted(r)
    <3>1. CheckpointCovers'
      BY <2>1, <2>4 DEF PrepareAccepted, CheckpointCovers
    <3>2. fin.req # r
      BY <2>1 DEF TypeInv, Linked, Past
    <3>3. \A n \in notifying : n.id \in Req /\ n.id # r
      BY <2>1 DEF TypeInv, TypeOK, CheckpointInv, AwaitCovers
    <3>4. AwaitCovers'
      BY <2>1, <2>2, <2>4, <3>2, <3>3 DEF PrepareAccepted, CheckpointInv, AwaitCovers
    <3> QED BY <3>1, <3>4 DEF CheckpointInv
  <2> QED BY <1>6, <2>3, <2>4 DEF Prepare
<1>7. CASE Crash \/ FinalizationThrows \/ \E r \in Req : Switch(r)
  BY <1>7, CheckpointDown DEF Crash, FinalizationThrows, Switch
<1>8. CASE Start
  <2>1. quiesce' = None /\ notifying' = {}
    BY <1>8 DEF Start, TypeInv, TypeOK
  <2> QED BY <2>1 DEF CheckpointInv, CheckpointCovers, AwaitCovers
<1>9. CASE BeginFinalization \/ HealthChecked \/ ChatRecovered \/ DecideContinuation
  BY <1>9, FinalizePlan, CheckpointKept
<1> QED BY <1>1, <1>2, <1>3, <1>4, <1>5, <1>6, <1>7, <1>8, <1>9 DEF Next

\* The snapshot taken before the notices is complete after them, for any numbers of chats,
\* requests, tasks and crashes (prepareControlledRestart, refreshParticipants).
THEOREM CheckpointHolds == Spec => []CheckpointCovers
<1>1. Spec => [](TypeInv /\ CheckpointInv)
  BY InitType, NextType, CheckpointInit, CheckpointNext, PTL DEF Spec
<1> QED BY <1>1, PTL DEF CheckpointInv


-----------------------------------------------------------------------------
(* The ledger.                                                             *)

FailedInv ==
    /\ FailedIsNotContinued
    /\ \A r \in Req : cli[r].pc = "idle" => record[r] = "none"

\* A finalization continues only its own request, and only when the ledger calls it healthy.
LEMMA FinalizeCont ==
    ASSUME TypeInv, BeginFinalization \/ HealthChecked \/ ChatRecovered \/ DecideContinuation
    PROVE  /\ cont \subseteq cont'
           /\ \A k \in cont' \ cont :
                k.req = fin.req /\ record'[k.req] = "healthy" /\ k.req \in Resumed
<1>1. fin.req \in Req /\ record \in [Req -> Status]
  BY FinalizePlan DEF TypeInv, TypeOK
<1> DEFINE Adds(healthy) == /\ cont \subseteq cont'
                            /\ \A k \in cont' \ cont : k.req = fin.req /\ healthy /\ k.req \in Resumed
<1>2. ASSUME NEW next, NEW todo, NEW healthy \in BOOLEAN, RecoverNext(fin.req, next, todo, healthy)
      PROVE  Adds(healthy)
  BY <1>2 DEF RecoverNext, Required
<1>3. ASSUME NEW healthy \in BOOLEAN, Recover(fin.req, healthy)
      PROVE  Adds(healthy)
  <2>1. CASE UNCHANGED cont
    BY <2>1
  <2>2. CASE RecoverNext(fin.req, plan, plan.parts \ plan.recovered, healthy)
    BY <1>2, <2>2
  <2> QED BY <1>3, <2>1, <2>2 DEF Recover
<1>4. CASE BeginFinalization
  <2>1. CASE UNCHANGED cont
    BY <2>1
  <2>2. CASE Recover(fin.req, FALSE)
    BY <1>3, <2>2
  <2>3. CASE Recover(fin.req, record[fin.req] = "healthy") /\ UNCHANGED record
    BY <1>3, <2>3
  <2> QED BY <1>4, <2>1, <2>2, <2>3 DEF BeginFinalization
<1>5. CASE HealthChecked
  <2>1. PICK ok \in BOOLEAN :
          /\ record' = [record EXCEPT ![fin.req] = IF ok THEN "healthy" ELSE "failed"]
          /\ Recover(fin.req, ok)
    BY <1>5 DEF HealthChecked
  <2>2. ok => record'[fin.req] = "healthy"
    BY <1>1, <2>1
  <2> QED BY <1>3, <2>1, <2>2
<1>6. CASE ChatRecovered
  <2>1. PICK next : RecoverNext(fin.req, next, fin.todo, record[fin.req] = "healthy")
    BY <1>6 DEF ChatRecovered
  <2>2. UNCHANGED record
    BY <1>6 DEF ChatRecovered
  <2> QED BY <1>2, <2>1, <2>2
<1>7. CASE DecideContinuation
  BY <1>7 DEF DecideContinuation
<1> QED BY <1>4, <1>5, <1>6, <1>7

\* No step but a finalization's changes the continuations, and none takes a verdict back.
LEMMA LedgerStep ==
    ASSUME TypeInv, FailedInv, [Next]_vars
    PROVE  /\ \A q \in Req : record[q] \in {"healthy", "failed"} => record'[q] = record[q]
           /\ cont \subseteq cont'
           /\ \A k \in cont' \ cont : record'[k.req] = "healthy" /\ k.req \in Resumed
           /\ \A q \in Req : cli'[q].pc = "idle" => cli[q].pc = "idle" /\ record'[q] = record[q]
<1>t. cli \in [Req -> Controller] /\ record \in [Req -> Status]
  BY DEF TypeInv, TypeOK
<1> DEFINE Late == \A q \in Req : cli'[q].pc = "idle" => cli[q].pc = "idle"
<1>1. CASE UNCHANGED vars
  BY <1>1 DEF vars
<1>2. CASE \E c \in Chat : StartTask(c) \/ EndTask(c)
  BY <1>2 DEF StartTask, EndTask
<1>3. ASSUME NEW n \in notifying, FinishPrepare(n)
      PROVE  UNCHANGED ledger /\ Late
  <2>1. n.id \in Req
    BY DEF TypeInv, TypeOK
  <2> QED BY <1>t, <1>3, <2>1 DEF FinishPrepare, Prepared, NotPrepared, Goto, Controller
<1>4. ASSUME NEW r \in Req,
             Claim(r) \/ MarkRestarting(r) \/ MarkFailed(r)
      PROVE  /\ \A q \in Req : record[q] \in {"healthy", "failed"} => record'[q] = record[q]
             /\ UNCHANGED cont /\ Late
             /\ \A q \in Req : cli'[q].pc = "idle" => record'[q] = record[q]
  BY <1>t, <1>4 DEF Claim, MarkRestarting, MarkFailed, Goto, Controller, FailedInv
<1>5. ASSUME NEW r \in Req,
             \/ Prepare(r) \/ PrepareUnreachable(r) \/ WriteBreadcrumb(r) \/ SwitchRejected(r)
             \/ Switch(r) \/ CliCancel(r) \/ ClearBreadcrumb(r) \/ CliDies(r) \/ LeaseExpires(r)
      PROVE  UNCHANGED ledger /\ Late
  <2>1. UNCHANGED ledger
    BY <1>5 DEF Prepare, PrepareUnreachable, WriteBreadcrumb, SwitchRejected, Switch, CliCancel,
                ClearBreadcrumb, CliDies, LeaseExpires
  <2>2. CASE Prepare(r) \/ PrepareUnreachable(r) \/ WriteBreadcrumb(r) \/ SwitchRejected(r)
    BY <1>t, <2>2 DEF Prepare, PrepareAccepted, PrepareRefused, PrepareUnreachable,
                      WriteBreadcrumb, SwitchRejected, Goto, Controller
  <2>3. CASE Switch(r) \/ CliCancel(r) \/ ClearBreadcrumb(r) \/ CliDies(r) \/ LeaseExpires(r)
    BY <1>t, <2>3 DEF Switch, CutOff, CliCancel, ClearBreadcrumb, CliDies, LeaseExpires, Goto,
                      Controller
  <2> QED BY <1>5, <2>1, <2>2, <2>3
<1>6. CASE Crash \/ Start \/ FinalizationThrows
  <2>1. Late
    BY <1>t, <1>6 DEF Crash, Start, FinalizationThrows, CutOff, Controller
  <2> QED BY <1>6, <2>1 DEF Crash, Start, FinalizationThrows
<1>7. CASE BeginFinalization \/ HealthChecked \/ ChatRecovered \/ DecideContinuation
  <2>1. fin.req \in Req /\ UNCHANGED cli /\ cli[fin.req].pc # "idle"
    BY <1>7, FinalizePlan DEF TypeInv, Linked, Past
  <2>2. /\ \A q \in Req : record[q] \in {"healthy", "failed"} => record'[q] = record[q]
        /\ \A q \in Req : q # fin.req => record'[q] = record[q]
    BY <1>t, <1>7 DEF BeginFinalization, HealthChecked, ChatRecovered, DecideContinuation
  <2> QED BY <1>7, <2>1, <2>2, FinalizeCont
<1> QED BY <1>1, <1>2, <1>3, <1>4, <1>5, <1>6, <1>7 DEF Next

LEMMA FailedInit == Init => FailedInv
BY DEF Init, FailedInv, FailedIsNotContinued

LEMMA FailedNext == TypeInv /\ FailedInv /\ [Next]_vars => FailedInv'
<1> SUFFICES ASSUME TypeInv, FailedInv, [Next]_vars PROVE FailedInv'
  OBVIOUS
<1>1. \A k \in cont : k.req \in Req
  BY DEF TypeInv, TypeOK, Continuation
<1> QED BY <1>1, LedgerStep DEF FailedInv, FailedIsNotContinued

\* A request that ends failed has continued nothing, whatever the order in which its CLI, the
\* health check and the replays of its finalization reach the ledger.
THEOREM FailedHolds == Spec => []FailedIsNotContinued
<1>1. Spec => [](TypeInv /\ FailedInv)
  BY InitType, NextType, FailedInit, FailedNext, PTL DEF Spec
<1> QED BY <1>1, PTL DEF FailedInv

-----------------------------------------------------------------------------
(* A completed handoff has continued what it interrupted.  The inductive    *)
(* invariant follows one plan through its copies, the file and the one the  *)
(* recovery works on: each lists every chat its request interrupted among   *)
(* its active ones, and marks a chat recovered only after a verdict of the  *)
(* ledger and, if that is healthy, after the continuation is saved.         *)

Verdict == {"healthy", "failed"}
Key(r, c) == [req |-> r, chat |-> c, by |-> "participant"]

\* A copy p of a plan, against the ledger rec, the continuations co and the work int that
\* its request interrupted.
Handoff(p, rec, co, int) ==
    /\ p.active \subseteq p.parts
    /\ int[p.id] \subseteq p.active
    /\ p.recovered # {} => rec[p.id] \in Verdict
    /\ rec[p.id] = "healthy" /\ p.id \in Resumed =>
         \A c \in (p.active \cap p.recovered) \ Internal : Key(p.id, c) \in co
    /\ p.status = "completed" => p.recovered = p.parts

\* The recovery works on an open plan, after the verdict, and knows what it has saved.
Replaying ==
    fin.at = "recover" =>
      /\ Handoff(fin.next, record, cont, interrupted)
      /\ fin.next.status # "completed"
      /\ record[fin.req] \in Verdict
      /\ fin.saved => Key(fin.req, fin.chat) \in cont

\* Only a CLI past its prepare has interrupted anything, and no prepare follows that.
Fresh ==
    /\ \A r \in Req : cli[r].pc \in {"idle", "claimed"} => interrupted[r] = {}
    /\ \A n \in notifying : interrupted[n.id] = {}

HandoffInv ==
    /\ plan.id \in Req => Handoff(plan, record, cont, interrupted)
    /\ Replaying
    /\ Fresh

Inv == TypeInv /\ CheckpointInv /\ FailedInv /\ HandoffInv

-----------------------------------------------------------------------------
\* A copy stays good while verdicts and continuations are kept and nothing is interrupted.
LEMMA HandoffKept ==
    ASSUME NEW p \in Plan, NEW rec, NEW co, NEW int, NEW rec2, NEW co2, NEW int2,
           Handoff(p, rec, co, int), co \subseteq co2, int2[p.id] = int[p.id],
           rec[p.id] \in Verdict => rec2[p.id] = rec[p.id]
    PROVE  Handoff(p, rec2, co2, int2)
BY DEF Handoff, Verdict

\* A copy nobody has recovered from yet needs only its snapshot.
LEMMA HandoffFresh ==
    ASSUME NEW p \in Plan, NEW rec, NEW co, NEW int, p.recovered = {}, p.status # "completed",
           p.active \subseteq p.parts, int[p.id] = {}
    PROVE  Handoff(p, rec, co, int)
BY DEF Handoff

\* What every step but Switch keeps of the ledger and the history.
LEMMA Quiet ==
    ASSUME Inv, [Next]_vars, UNCHANGED interrupted
    PROVE  /\ \A q \in Req : record[q] \in Verdict => record'[q] = record[q]
           /\ cont \subseteq cont'
           /\ plan.id \in Req => Handoff(plan, record', cont', interrupted')
           /\ fin.at = "recover" => Handoff(fin.next, record', cont', interrupted')
<1>1. /\ \A q \in Req : record[q] \in Verdict => record'[q] = record[q]
      /\ cont \subseteq cont'
  BY LedgerStep DEF Inv, Verdict
<1>2. plan \in Plan /\ (fin.at = "recover" => fin.next \in Plan /\ fin.next.id \in Req)
  BY DEF Inv, TypeInv, TypeOK, Linked, Finalization
<1>3. plan.id \in Req => Handoff(plan, record', cont', interrupted')
  <2> SUFFICES ASSUME plan.id \in Req PROVE Handoff(plan, record', cont', interrupted')
    OBVIOUS
  <2>1. Handoff(plan, record, cont, interrupted)
    BY DEF Inv, HandoffInv
  <2> HIDE DEF Inv
  <2> QED BY <1>1, <1>2, <2>1, HandoffKept
<1>4. fin.at = "recover" => Handoff(fin.next, record', cont', interrupted')
  <2> SUFFICES ASSUME fin.at = "recover" PROVE Handoff(fin.next, record', cont', interrupted')
    OBVIOUS
  <2>1. Handoff(fin.next, record, cont, interrupted)
    BY DEF Inv, HandoffInv, Replaying
  <2> QED BY <1>1, <1>2, <2>1, HandoffKept
<1> QED BY <1>1, <1>3, <1>4

\* A turn of the recovery loop over a good copy.
LEMMA TurnHands ==
    ASSUME Inv, [Next]_vars, UNCHANGED interrupted, NEW r \in Req, NEW next \in Plan, NEW todo,
           next.id = r, next.recovered \subseteq next.parts, next.status # "completed",
           record'[r] \in Verdict,
           Handoff(next, record', cont', interrupted'),
           RecoverNext(r, next, todo, record'[r] = "healthy")
    PROVE  /\ Handoff(plan', record', cont', interrupted')
           /\ Replaying'
<1>1. CASE \E c \in todo, saved \in BOOLEAN :
         /\ saved => Required(r, next, c, record'[r] = "healthy")
         /\ cont' = IF saved THEN cont \cup {[req |-> r, chat |-> c, by |-> "participant"]} ELSE cont
         /\ fin' = [at |-> "recover", req |-> r, next |-> next, chat |-> c, saved |-> saved,
                    todo |-> todo \ {c}]
         /\ plan' = next
         /\ UNCHANGED <<decided, crumb>>
  BY <1>1 DEF Replaying, Key
<1>2. CASE next.recovered = next.parts /\ plan' = [next EXCEPT !.status = "completed"] /\ Decide(r)
  <2>1. Handoff(plan', record', cont', interrupted')
    BY <1>2 DEF Handoff, Plan
  <2> QED BY <1>2, <2>1 DEF Replaying, Decide, At
<1>3. CASE plan' = next /\ Incomplete(r)
  BY <1>3 DEF Replaying, Incomplete, At
<1> QED BY <1>1, <1>2, <1>3 DEF RecoverNext

\* The recovery up to its first await, once the ledger has its verdict.
LEMMA RecoverHands ==
    ASSUME Inv, [Next]_vars, UNCHANGED interrupted, NEW r \in Req, fin.req = r,
           record'[r] \in Verdict,
           Recover(r, record'[r] = "healthy")
    PROVE  /\ plan'.id \in Req => Handoff(plan', record', cont', interrupted')
           /\ Replaying'
<1>1. plan.id \in Req => Handoff(plan, record', cont', interrupted')
  BY Quiet
<1>2. CASE /\ plan.id = r /\ Open(plan)
           /\ RecoverNext(r, plan, plan.parts \ plan.recovered, record'[r] = "healthy")
  <2>1. plan \in Plan /\ plan.recovered \subseteq plan.parts /\ plan.status # "completed"
    BY <1>2 DEF Inv, TypeInv, TypeOK, Open
  <2> QED BY <1>1, <1>2, <2>1, TurnHands
<1>3. CASE UNCHANGED plan /\ (Decide(r) \/ Incomplete(r) \/ fin' = At("report", r))
  BY <1>1, <1>3 DEF Replaying, Decide, Incomplete, At
<1> QED BY <1>2, <1>3 DEF Recover

LEMMA FinalizeHands ==
    ASSUME Inv, [Next]_vars, BeginFinalization \/ HealthChecked \/ ChatRecovered \/ DecideContinuation
    PROVE  HandoffInv'
<1>1. /\ fin.req \in Req /\ UNCHANGED <<cli, notifying, interrupted>>
      /\ record \in [Req -> Status]
  <2>1. TypeInv /\ record \in [Req -> Status]
    BY DEF Inv, TypeInv, TypeOK
  <2>2. UNCHANGED interrupted
    BY DEF BeginFinalization, HealthChecked, ChatRecovered, DecideContinuation
  <2> QED BY <2>1, <2>2, FinalizePlan
<1>2. Fresh'
  BY <1>1 DEF Inv, HandoffInv, Fresh
<1> DEFINE Good == /\ plan'.id \in Req => Handoff(plan', record', cont', interrupted')
                   /\ Replaying'
<1>3. ASSUME BeginFinalization PROVE Good
  <2>1. CASE fin' = At("health", fin.req) /\ UNCHANGED files
    BY <1>1, <2>1, Quiet DEF Replaying, At
  <2>2. CASE record' = [record EXCEPT ![fin.req] = "failed"] /\ Recover(fin.req, FALSE)
    <3>1. record'[fin.req] = "failed" /\ (record'[fin.req] = "healthy") = FALSE
      BY <1>1, <2>2
    <3>2. Recover(fin.req, record'[fin.req] = "healthy")
      BY <2>2, <3>1
    <3> QED BY <1>1, <3>1, <3>2, RecoverHands DEF Verdict
  <2>3. CASE /\ record[fin.req] \in {"healthy", "failed"} /\ UNCHANGED record
             /\ Recover(fin.req, record[fin.req] = "healthy")
    BY <1>1, <2>3, RecoverHands DEF Verdict
  <2> QED BY <1>3, <2>1, <2>2, <2>3 DEF BeginFinalization
<1>4. ASSUME HealthChecked PROVE Good
  <2>1. PICK ok \in BOOLEAN :
          /\ record' = [record EXCEPT ![fin.req] = IF ok THEN "healthy" ELSE "failed"]
          /\ Recover(fin.req, ok)
    BY <1>4 DEF HealthChecked
  <2>2. record'[fin.req] \in Verdict /\ (record'[fin.req] = "healthy") = ok
    BY <1>1, <2>1 DEF Verdict
  <2>3. Recover(fin.req, record'[fin.req] = "healthy")
    BY <2>1, <2>2
  <2> QED BY <1>1, <2>2, <2>3, RecoverHands
<1>5. ASSUME ChatRecovered PROVE Good
  <2> DEFINE r == fin.req
             c == fin.chat
             marked == [fin.next EXCEPT !.recovered = @ \cup {c}]
  <2>1. /\ fin.at = "recover" /\ fin.next \in Plan /\ fin.next.id = r /\ UNCHANGED record
        /\ fin.next.recovered \subseteq fin.next.parts /\ c \in fin.next.parts
        /\ fin.next.status # "completed" /\ record[r] \in Verdict
        /\ fin.saved => Key(r, c) \in cont
    BY <1>5 DEF ChatRecovered, Inv, TypeInv, TypeOK, Linked, Finalization, HandoffInv, Replaying
  <2>2. Handoff(fin.next, record', cont', interrupted') /\ cont \subseteq cont'
    BY <1>1, <2>1, Quiet
  <2>m. /\ marked \in Plan /\ marked.id = r /\ marked.active = fin.next.active
        /\ marked.parts = fin.next.parts /\ marked.status = fin.next.status
        /\ marked.recovered = fin.next.recovered \cup {c}
    BY <2>1 DEF Plan
  <2> HIDE DEF marked
  <2>3. ASSUME Recovered(TRUE, Required(r, fin.next, c, record[r] = "healthy"))
        PROVE  Handoff(marked, record', cont', interrupted')
    <3>1. record[r] = "healthy" /\ r \in Resumed /\ c \in fin.next.active \ Internal => Key(r, c) \in cont'
      BY <2>1, <2>2, <2>3 DEF Recovered, Required
    <3> QED BY <2>1, <2>2, <2>m, <3>1 DEF Handoff
  <2>4. PICK next : /\ \/ next = fin.next
                       \/ /\ next = marked
                          /\ Recovered(TRUE, Required(r, fin.next, c, record[r] = "healthy"))
                    /\ RecoverNext(r, next, fin.todo, record[r] = "healthy")
    BY <1>5 DEF ChatRecovered, Recovered, marked
  <2>5. /\ next \in Plan /\ next.id = r /\ next.recovered \subseteq next.parts
        /\ next.status # "completed" /\ Handoff(next, record', cont', interrupted')
    <3>1. CASE next = fin.next
      BY <2>1, <2>2, <3>1
    <3>2. CASE next = marked /\ Recovered(TRUE, Required(r, fin.next, c, record[r] = "healthy"))
      <4>1. Handoff(marked, record', cont', interrupted')
        BY <2>3, <3>2
      <4> QED BY <2>1, <2>m, <3>2, <4>1
    <3> QED BY <2>4, <3>1, <3>2
  <2>6. /\ Handoff(plan', record', cont', interrupted') /\ Replaying'
    BY <1>1, <2>1, <2>4, <2>5, TurnHands
  <2> QED BY <2>6
<1>6. ASSUME DecideContinuation PROVE Good
  <2>1. UNCHANGED plan /\ fin'.at = "done"
    BY <1>6 DEF DecideContinuation, Decide, Incomplete, At
  <2> QED BY <1>1, <2>1, Quiet DEF Replaying
<1> HIDE DEF Good
<1>7. Good
  BY <1>3, <1>4, <1>5, <1>6
<1> QED BY <1>2, <1>7 DEF Good, HandoffInv

-----------------------------------------------------------------------------
\* A new plan: its request has interrupted nothing yet.
LEMMA PrepareHands ==
    ASSUME Inv, [Next]_vars, (\E r \in Req : Prepare(r)) \/ \E n \in notifying : FinishPrepare(n)
    PROVE  HandoffInv'
<1>t. /\ cli \in [Req -> Controller] /\ busy \subseteq Chat
      /\ notifying \subseteq [id : Req, parts : SUBSET Chat] /\ plan' \in Plan
  BY NextType DEF Inv, TypeInv, TypeOK
<1>1. UNCHANGED <<interrupted, fin, record, cont>>
  BY DEF Prepare, FinishPrepare
<1>2. Replaying'
  BY <1>1 DEF Inv, HandoffInv, Replaying
<1>3. ASSUME NEW r \in Req, Prepare(r)
      PROVE  Fresh' /\ (plan'.id \in Req => Handoff(plan', record', cont', interrupted'))
  <2>1. interrupted[r] = {}
    BY <1>3 DEF Prepare, Inv, HandoffInv, Fresh
  <2>2. \A q \in Req : cli'[q].pc \in {"idle", "claimed"} => cli[q].pc \in {"idle", "claimed"}
    BY <1>t, <1>3 DEF Prepare, PrepareAccepted, PrepareRefused, Goto, Controller
  <2>3. Fresh'
    BY <1>1, <1>3, <2>1, <2>2 DEF Prepare, PrepareAccepted, PrepareRefused, Inv, HandoffInv, Fresh
  <2>4. CASE PrepareAccepted(r)
    <3>1. /\ plan'.id = r /\ plan'.active \subseteq plan'.parts
          /\ plan'.recovered = {} /\ plan'.status # "completed"
      BY <2>4 DEF PrepareAccepted
    <3> QED BY <1>t, <1>1, <2>1, <2>3, <3>1, HandoffFresh
  <2>5. CASE PrepareRefused(r)
    BY <1>1, <2>3, <2>5 DEF PrepareRefused, Inv, HandoffInv
  <2> QED BY <1>3, <2>4, <2>5 DEF Prepare
<1>4. ASSUME NEW n \in notifying, FinishPrepare(n)
      PROVE  Fresh' /\ (plan'.id \in Req => Handoff(plan', record', cont', interrupted'))
  <2>1. interrupted[n.id] = {} /\ n.id \in Req
    BY <1>t DEF Inv, HandoffInv, Fresh
  <2>2. \A q \in Req : cli'[q].pc \in {"idle", "claimed"} => cli[q].pc \in {"idle", "claimed"}
    BY <1>t, <1>4, <2>1 DEF FinishPrepare, Prepared, NotPrepared, Goto, Controller
  <2>3. Fresh'
    BY <1>1, <1>4, <2>1, <2>2 DEF FinishPrepare, Inv, HandoffInv, Fresh
  <2>4. /\ plan'.id = n.id /\ plan'.active \subseteq plan'.parts
        /\ plan'.recovered = {} /\ plan'.status # "completed"
    BY <1>4 DEF FinishPrepare, Prepared, NotPrepared, Refreshed
  <2> QED BY <1>t, <1>1, <2>1, <2>3, <2>4, HandoffFresh
<1> QED BY <1>2, <1>3, <1>4 DEF HandoffInv

\* Cancelling changes only the status of a plan that is not completed.
LEMMA CancelHands ==
    ASSUME Inv, [Next]_vars, NEW r \in Req, LeaseExpires(r) \/ CliCancel(r)
    PROVE  HandoffInv'
<1>t. cli \in [Req -> Controller] /\ plan \in Plan
  BY DEF Inv, TypeInv, TypeOK
<1>1. UNCHANGED <<interrupted, fin, record, cont, notifying>>
  BY DEF LeaseExpires, CliCancel
<1>2. Replaying'
  BY <1>1 DEF Inv, HandoffInv, Replaying
<1>3. Fresh'
  <2>1. \A q \in Req : cli'[q].pc \in {"idle", "claimed"} => cli[q].pc \in {"idle", "claimed"}
    BY <1>t DEF LeaseExpires, CliCancel, Goto, Controller
  <2> QED BY <1>1, <2>1 DEF Inv, HandoffInv, Fresh
<1>4. plan' = plan \/ plan' = [plan EXCEPT !.status = "cancelled"]
  BY DEF LeaseExpires, CliCancel, CancelControlledRestart
<1>5. plan'.id \in Req => Handoff(plan', record', cont', interrupted')
  <2>1. plan.id \in Req => Handoff(plan, record', cont', interrupted')
    BY <1>1 DEF Inv, HandoffInv
  <2>2. CASE plan' = plan
    BY <2>1, <2>2
  <2>3. CASE plan' = [plan EXCEPT !.status = "cancelled"]
    <3>1. /\ plan'.id = plan.id /\ plan'.active = plan.active /\ plan'.parts = plan.parts
          /\ plan'.recovered = plan.recovered /\ plan'.status = "cancelled"
      BY <1>t, <2>3 DEF Plan
    <3> QED BY <2>1, <3>1 DEF Handoff
  <2> QED BY <1>4, <2>2, <2>3
<1> QED BY <1>2, <1>3, <1>5 DEF HandoffInv

\* The switch interrupts what is busy: all of it is in the plan of a request that holds the
\* quiesce, and no other request has a stake in the busy chats.
LEMMA SwitchHands ==
    ASSUME Inv, [Next]_vars, NEW r \in Req, Switch(r)
    PROVE  HandoffInv'
<1>t. /\ cli \in [Req -> Controller] /\ interrupted \in [Req -> SUBSET Chat]
      /\ plan \in Plan /\ None \notin Req
  BY NoneAssumption DEF Inv, TypeInv, TypeOK
<1>1. /\ UNCHANGED <<plan, record, cont>> /\ notifying' = {} /\ fin'.at = "down"
      /\ cli[r].pc = "marked"
      /\ interrupted' = [interrupted EXCEPT ![r] = IF quiesce = r THEN busy ELSE {}]
  BY DEF Switch, BridgeDown, At
<1>2. Replaying'
  BY <1>1 DEF Replaying
<1>3. Fresh'
  <2>1. \A q \in Req : cli'[q].pc \in {"idle", "claimed"} => q # r /\ cli[q].pc \in {"idle", "claimed"}
    BY <1>t, <1>1 DEF Switch, CutOff, Controller
  <2> QED BY <1>t, <1>1, <2>1 DEF Inv, HandoffInv, Fresh
<1>4. plan'.id \in Req => Handoff(plan', record', cont', interrupted')
  <2> SUFFICES ASSUME plan.id \in Req PROVE Handoff(plan, record, cont, interrupted')
    BY <1>1
  <2>1. Handoff(plan, record, cont, interrupted)
    BY DEF Inv, HandoffInv
  <2>2. CASE plan.id # r
    BY <1>t, <1>1, <2>1, <2>2 DEF Handoff
  <2>3. CASE plan.id = r
    <3>1. interrupted'[r] \subseteq plan.active
      BY <1>t, <1>1, <2>3 DEF Inv, CheckpointInv, CheckpointCovers
    <3> QED BY <2>1, <2>3, <3>1 DEF Handoff
  <2> QED BY <2>2, <2>3
<1> QED BY <1>2, <1>3, <1>4 DEF HandoffInv

\* The steps that touch neither the plan nor the recovery's copy.
LEMMA OtherHands ==
    ASSUME Inv, [Next]_vars, UNCHANGED <<plan, interrupted>>, notifying' \subseteq notifying,
           fin' = fin \/ fin'.at # "recover",
           \A q \in Req : cli'[q].pc \in {"idle", "claimed"} => cli[q].pc \in {"idle", "claimed"}
    PROVE  HandoffInv'
<1>1. plan.id \in Req => Handoff(plan', record', cont', interrupted')
  BY Quiet
<1>2. Replaying'
  <2>1. CASE fin'.at # "recover"
    BY <2>1 DEF Replaying
  <2>2. CASE fin' = fin
    <3>1. fin.at = "recover" => fin.req \in Req /\ Handoff(fin.next, record', cont', interrupted')
      BY Quiet DEF Inv, TypeInv, Linked
    <3>2. /\ \A q \in Req : record[q] \in Verdict => record'[q] = record[q]
          /\ cont \subseteq cont'
      BY Quiet
    <3> QED BY <2>2, <3>1, <3>2 DEF Inv, HandoffInv, Replaying
  <2> QED BY <2>1, <2>2
<1>3. Fresh'
  BY DEF Inv, HandoffInv, Fresh
<1> QED BY <1>1, <1>2, <1>3 DEF HandoffInv

LEMMA HandoffInit == Init => HandoffInv
<1> SUFFICES ASSUME Init PROVE HandoffInv
  OBVIOUS
<1>1. plan.id \notin Req /\ fin.at # "recover"
  BY NoneAssumption DEF Init, NoPlan, At
<1> QED BY <1>1 DEF Init, HandoffInv, Replaying, Fresh

LEMMA HandoffNext == Inv /\ [Next]_vars => HandoffInv'
<1> SUFFICES ASSUME Inv, [Next]_vars PROVE HandoffInv'
  OBVIOUS
<1>t. cli \in [Req -> Controller]
  BY DEF Inv, TypeInv, TypeOK
<1> DEFINE Late == \A q \in Req : cli'[q].pc \in {"idle", "claimed"} => cli[q].pc \in {"idle", "claimed"}
<1>1. CASE UNCHANGED vars
  BY <1>1, OtherHands DEF vars
<1>2. CASE \E c \in Chat : StartTask(c) \/ EndTask(c)
  BY <1>2, OtherHands DEF StartTask, EndTask
<1>3. CASE (\E r \in Req : Prepare(r)) \/ \E n \in notifying : FinishPrepare(n)
  BY <1>3, PrepareHands
<1>4. CASE \E r \in Req : LeaseExpires(r) \/ CliCancel(r)
  BY <1>4, CancelHands
<1>5. CASE \E r \in Req : Switch(r)
  BY <1>5, SwitchHands
<1>6. ASSUME NEW r \in Req,
             \/ Claim(r) \/ PrepareUnreachable(r) \/ WriteBreadcrumb(r) \/ MarkRestarting(r)
             \/ SwitchRejected(r) \/ ClearBreadcrumb(r) \/ MarkFailed(r) \/ CliDies(r)
      PROVE  HandoffInv'
  <2>1. UNCHANGED <<plan, interrupted, notifying, fin>>
    BY <1>6 DEF Claim, PrepareUnreachable, WriteBreadcrumb, MarkRestarting, SwitchRejected,
                ClearBreadcrumb, MarkFailed, CliDies
  <2>2. Late
    BY <1>t, <1>6 DEF Claim, PrepareUnreachable, WriteBreadcrumb, MarkRestarting, SwitchRejected,
                      ClearBreadcrumb, MarkFailed, CliDies, Goto, Controller
  <2> QED BY <2>1, <2>2, OtherHands
<1>7. CASE Crash \/ Start \/ FinalizationThrows
  <2>1. /\ UNCHANGED <<plan, interrupted>> /\ notifying' \subseteq notifying
        /\ fin'.at # "recover"
    BY <1>7 DEF Crash, Start, FinalizationThrows, BridgeDown, At
  <2>2. Late
    BY <1>t, <1>7 DEF Crash, Start, FinalizationThrows, CutOff, Controller
  <2> QED BY <2>1, <2>2, OtherHands
<1>8. CASE BeginFinalization \/ HealthChecked \/ ChatRecovered \/ DecideContinuation
  BY <1>8, FinalizeHands
<1> QED BY <1>1, <1>2, <1>3, <1>4, <1>5, <1>6, <1>7, <1>8 DEF Next

\* A completed handoff of a healthy restart has queued a continuation for every chat the
\* restart interrupted, after any number of crashes, refused saves and replays of the recovery
\* (recoverControlledRestartAfterStartup).
THEOREM InterruptedHolds == Spec => []InterruptedIsContinued
<1>1. Init => Inv
  BY InitType, CheckpointInit, FailedInit, HandoffInit DEF Inv
<1>2. Inv /\ [Next]_vars => Inv'
  <2> SUFFICES ASSUME Inv, [Next]_vars PROVE Inv'
    OBVIOUS
  <2>1. TypeInv /\ CheckpointInv /\ FailedInv
    BY DEF Inv
  <2>2. TypeInv' /\ CheckpointInv' /\ FailedInv'
    BY <2>1, NextType, CheckpointNext, FailedNext
  <2> QED BY <2>2, HandoffNext DEF Inv
<1>3. Inv => InterruptedIsContinued
  <2> SUFFICES ASSUME Inv, NEW r \in Resumed, plan.id = r, plan.status = "completed",
                      record[r] = "healthy", NEW c \in interrupted[r] \ Internal
               PROVE  Key(r, c) \in cont
    BY DEF InterruptedIsContinued, Key
  <2>1. Handoff(plan, record, cont, interrupted)
    BY RequestAssumption DEF Inv, HandoffInv
  <2> QED BY <2>1 DEF Handoff
<1> QED BY <1>1, <1>2, <1>3, PTL DEF Spec

==============================================================================
