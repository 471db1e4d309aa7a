------------------------- MODULE WorkerRunnerProofs -------------------------
(***************************************************************************)
(* Proofs about WorkerRunner for every value of its constants.             *)
(*                                                                         *)
(* TypeInv is the type invariant with the links between the tables that    *)
(* typing needs.  KeyInv says that the live job of a dedupe key is the     *)
(* key's latest row, which is why createWorker may look at the latest row  *)
(* only.  RecoveryInv says that a row which startAll has yet to reconcile  *)
(* is touched by nothing else; ReportInv relates the notification column   *)
(* to the timers, the calls in flight and the receiver; OwnershipInv says  *)
(* which launch may still act on a row and who ends its process.  The last *)
(* theorem is the refinement of JobPromise.                                *)
(***************************************************************************)
EXTENDS WorkerRunner, FiniteSetTheorems, TLAPS

-----------------------------------------------------------------------------
(* Types.                                                                   *)

\* Every launch belongs to an inserted job, an active launch to its own, and a running
\* row names a launch.
Linked ==
    /\ IsFiniteSet(Jobs)
    /\ \A l \in Launches : launch[l].worker \in Jobs
    /\ \A w \in Worker : active[w] # NoLaunch =>
          /\ w \in Jobs
          /\ active[w] \in Launches
          /\ launch[active[w]].worker = w
    /\ \A w \in Jobs : row[w].status = "running" => row[w].launchId \in Launches

\* A step makes no row running, and moves no running row to another launch.
NoneStarts ==
    \A w \in Jobs : row'[w].status = "running" =>
        row[w].status = "running" /\ row'[w].launchId = row[w].launchId

TypeInv == TypeOK /\ Linked

\* Settling a job of the table leaves a well-typed table.
LEMMA SettleType ==
    ASSUME TypeOK, NEW w \in Jobs, NEW status \in Terminal, Settle(w, status)
    PROVE  row' \in [Jobs -> Row] /\ Jobs' = Jobs /\ timers' \subseteq Jobs /\ NoneStarts
BY DEF NoneStarts, TypeOK, Settle, ScheduleTimer, Scheduled, Jobs, Row, Terminal, Live

\* So do the conditional updates of finishQueued and finishRunning.
LEMMA FinishType ==
    ASSUME TypeOK, NEW w \in Jobs, NEW status \in Terminal, NEW l,
           FinishQueued(w, status) \/ FinishRunning(w, l, status)
    PROVE  row' \in [Jobs -> Row] /\ Jobs' = Jobs /\ timers' \subseteq Jobs /\ NoneStarts
<1>1. CASE Settle(w, status)
  BY <1>1, SettleType
<1>2. CASE UNCHANGED <<row, timers>>
  BY <1>2 DEF TypeOK, Jobs, NoneStarts
<1> QED BY <1>1, <1>2 DEF FinishQueued, FinishRunning

\* launchWorker adds a launch of the given job.
LEMMA StartLaunchType ==
    ASSUME TypeOK, Linked, NEW w \in Worker, StartLaunch(w), Jobs' = Jobs \cup {w}
    PROVE  /\ Launches' \subseteq Launch /\ launch' \in [Launches' -> LaunchRecord]
           /\ Launches \subseteq Launches'
           /\ \A l \in Launches : launch'[l] = launch[l]
           /\ \A l \in Launches' : launch'[l].worker \in Jobs'
<1>1. PICK l \in Launch \ Launches :
        launch' = [m \in Launches \cup {l} |->
                     IF m = l THEN [worker |-> w, coroutine |-> "starting", process |-> "none"]
                              ELSE launch[m]]
  BY DEF StartLaunch
<1>2. Launches' = Launches \cup {l}
  BY <1>1 DEF Launches
<1> QED BY <1>1, <1>2 DEF TypeOK, Linked, LaunchRecord

\* Inserting a row makes a well-typed table.
LEMMA DispatchType ==
    ASSUME TypeInv, NEW w \in Worker, NEW r \in Request, NEW ttl, Dispatch(w, r, ttl)
    PROVE  /\ row' \in [Jobs' -> Row] /\ Jobs' = Jobs \cup {w} /\ IsFiniteSet(Jobs')
           /\ Cardinality(Jobs') = Cardinality(Jobs) + 1 /\ Cardinality(Jobs) \in Nat
           /\ row'[w] = NewRow(r) /\ \A v \in Jobs : row'[v] = row[v]
<1>1. Jobs' = Jobs \cup {w} /\ w \notin Jobs
  BY DEF Dispatch, Jobs
<1>2. /\ IsFiniteSet(Jobs') /\ Cardinality(Jobs) \in Nat
      /\ Cardinality(Jobs') = Cardinality(Jobs) + 1
  BY <1>1, FS_AddElement, FS_CardinalityType DEF TypeInv, Linked
<1>3. NewRow(r) \in Row
  BY <1>2 DEF NewRow, Row, Live
<1> QED BY <1>1, <1>2, <1>3 DEF Dispatch, TypeInv, TypeOK

\* A step that leaves rows, launches and owners alone leaves Linked alone.
LEMMA LinkedKept ==
    ASSUME Linked, Jobs' = Jobs, NoneStarts, Launches' = Launches, NEW w \in Worker,
           \A l \in Launches : launch'[l].worker = launch[l].worker,
           active \in [Worker -> Launch \cup {NoLaunch}],
           active' = active \/ active' = [active EXCEPT ![w] = NoLaunch]
    PROVE  Linked'
BY DEF Linked, NoneStarts

LEMMA LaunchStepType ==
    ASSUME TypeInv, NEW l \in Launches, LaunchStep(l)
    PROVE  TypeInv'
<1> DEFINE w == launch[l].worker
<1>0. w \in Jobs /\ w \in Worker /\ l \in Launch
  BY DEF TypeInv, TypeOK, Linked
<1> USE <1>0 DEF TypeInv
<1> HIDE DEF w
<1>1. CASE Spawn(l)
  <2>1. TypeOK'
    BY <1>1 DEF Spawn, TypeOK, Jobs, Launches, LaunchRecord, memory, receiver, service
  <2>2. Linked'
    BY <1>1, LinkedKept DEF Spawn, NoneStarts, TypeOK, Jobs, Launches, LaunchRecord, memory
  <2> QED BY <2>1, <2>2
<1>2. CASE LaunchFails(l)
  <2>1. row' \in [Jobs -> Row] /\ Jobs' = Jobs /\ timers' \subseteq Jobs /\ NoneStarts
    BY <1>2, FinishType DEF LaunchFails, w, Terminal
  <2>2. TypeOK'
    BY <1>2, <2>1 DEF LaunchFails, TypeOK, Launches, LaunchRecord, receiver, service
  <2>3. Linked'
    BY <1>2, <2>1, LinkedKept DEF LaunchFails, TypeOK, Launches, LaunchRecord
  <2> QED BY <2>2, <2>3
<1>3. CASE MarkRunning(l)
  <2>1. row' \in [Jobs -> Row] /\ Jobs' = Jobs
    BY <1>3 DEF MarkRunning, w, TypeOK, Jobs, Row, Live
  <2>2. Launches' = Launches /\ \A m \in Launches : launch'[m].worker = launch[m].worker
    BY <1>3 DEF MarkRunning, TypeOK, Launches, LaunchRecord
  <2>3. active' = active \/ active' = [active EXCEPT ![w] = l]
    BY <1>3 DEF MarkRunning, w
  <2>4. TypeOK'
    <3>1. launch' \in [Launches -> LaunchRecord]
      BY <1>3 DEF MarkRunning, TypeOK, Launches, LaunchRecord
    <3>2. active' \in [Worker -> Launch \cup {NoLaunch}]
      BY <2>3 DEF TypeOK
    <3>3. killing' \subseteq Launches
      BY <1>3 DEF MarkRunning, AbandonProcess, TypeOK
    <3> QED BY <1>3, <2>1, <2>2, <3>1, <3>2, <3>3
            DEF MarkRunning, TypeOK, receiver, service
  <2>5. Linked'
    <3>1. \A v \in Jobs : row'[v].status = "running" =>
             row'[v].launchId = l \/ (row[v].status = "running" /\ row'[v].launchId = row[v].launchId)
      <4>1. row' = row \/ row' = [row EXCEPT ![w].status = "running", ![w].launchId = l]
        BY <1>3 DEF MarkRunning, w
      <4> QED BY <4>1 DEF TypeOK, Jobs, Row
    <3> QED BY <2>1, <2>2, <2>3, <3>1 DEF TypeOK, Linked, w
  <2> QED BY <2>4, <2>5
<1>4. ASSUME NEW status \in {"completed", "failed"}, ProcessExited(l, status)
      PROVE  TypeInv'
  <2>1. row' \in [Jobs -> Row] /\ Jobs' = Jobs /\ timers' \subseteq Jobs /\ NoneStarts
    BY <1>4, FinishType DEF ProcessExited, w, Terminal
  <2>2. Launches' = Launches /\ launch' \in [Launches -> LaunchRecord]
        /\ \A m \in Launches : launch'[m].worker = launch[m].worker
    BY <1>4 DEF ProcessExited, TypeOK, Launches, LaunchRecord
  <2>3. active' = active \/ active' = [active EXCEPT ![w] = NoLaunch]
    BY <1>4 DEF ProcessExited, w, TypeOK
  <2>4. TypeOK'
    BY <1>4, <2>1, <2>2, <2>3 DEF ProcessExited, TypeOK, receiver, service
  <2>5. Linked'
    BY <2>1, <2>2, <2>3, LinkedKept DEF TypeOK
  <2> QED BY <2>4, <2>5
<1>5. CASE Kill(l)
  <2>1. TypeOK'
    BY <1>5 DEF Kill, TypeOK, Jobs, Launches, LaunchRecord, receiver, service
  <2>2. Linked'
    BY <1>5, LinkedKept DEF Kill, NoneStarts, TypeOK, Jobs, Launches, LaunchRecord
  <2> QED BY <2>1, <2>2
<1>6. CASE Exit(l)
  <2>1. TypeOK'
    BY <1>6 DEF Exit, TypeOK, Jobs, Launches, LaunchRecord, memory, receiver, service
  <2>2. Linked'
    BY <1>6, LinkedKept DEF Exit, NoneStarts, TypeOK, Jobs, Launches, LaunchRecord, memory
  <2> QED BY <2>1, <2>2
<1> QED BY <1>1, <1>2, <1>3, <1>4, <1>5, <1>6 DEF LaunchStep

LEMMA JobStepType ==
    ASSUME TypeInv, NEW w \in Worker, JobStep(w) \/ CallbackStep(w)
    PROVE  TypeInv'
<1> USE DEF TypeInv
<1>1. ASSUME NEW r \in Request, NEW ttl \in BOOLEAN, Dispatch(w, r, ttl)
      PROVE  TypeInv'
  <2>1. row' \in [Jobs' -> Row] /\ Jobs' = Jobs \cup {w} /\ IsFiniteSet(Jobs')
    BY <1>1, DispatchType
  <2>2. /\ Launches' \subseteq Launch /\ launch' \in [Launches' -> LaunchRecord]
        /\ Launches \subseteq Launches'
        /\ \A l \in Launches : launch'[l] = launch[l]
        /\ \A l \in Launches' : launch'[l].worker \in Jobs'
    BY <1>1, <2>1, StartLaunchType DEF Dispatch
  <2>3. UNCHANGED <<memory, receiver, service>>
    BY <1>1 DEF Dispatch
  <2>4. TypeOK'
    BY <2>1, <2>2, <2>3 DEF TypeOK, memory, receiver, service
  <2>5. Linked'
    <3>1. \A v \in Jobs' : row'[v].status = "running" => v \in Jobs /\ row'[v] = row[v]
      <4>1. row'[w] = NewRow(r) /\ \A v \in Jobs : row'[v] = row[v]
        BY <1>1, DispatchType
      <4>2. NewRow(r).status = "queued"
        BY DEF NewRow
      <4> QED BY <2>1, <4>1, <4>2
    <3> QED BY <2>1, <2>2, <2>3, <3>1 DEF Linked, TypeOK, memory
  <2> QED BY <2>4, <2>5
<1>2. ASSUME AbortQueued(w) \/ AbortRunning(w) \/ ExpireRunning(w) PROVE TypeInv'
  <2>0. w \in Jobs
    BY <1>2 DEF AbortQueued, AbortRunning, ExpireRunning, Linked
  <2>1. row' \in [Jobs -> Row] /\ Jobs' = Jobs /\ timers' \subseteq Jobs /\ NoneStarts
    <3>1. CASE AbortQueued(w)
      BY <2>0, <3>1, FinishType DEF AbortQueued, Terminal
    <3>2. CASE AbortRunning(w)
      BY <2>0, <3>2, SettleType DEF AbortRunning, Terminal
    <3>3. CASE ExpireRunning(w)
      BY <2>0, <3>3, FinishType DEF ExpireRunning, Terminal
    <3> QED BY <1>2, <3>1, <3>2, <3>3
  <2>2. /\ active' = active \/ active' = [active EXCEPT ![w] = NoLaunch]
        /\ killing' = killing
             \/ (active[w] # NoLaunch /\ killing' = killing \cup {active[w]})
             \/ (row[w].status = "running" /\ active[w] = row[w].launchId /\ killing' = killing \cup {active[w]})
        /\ UNCHANGED <<launch, sending, receiver, service>>
    BY <1>2 DEF AbortQueued, AbortRunning, ExpireRunning
  <2>3. TypeOK'
    <3>1. killing' \subseteq Launches /\ Launches' = Launches
      BY <2>0, <2>2 DEF TypeOK, Linked, Launches
    <3>2. active' \in [Worker -> Launch \cup {NoLaunch}]
      BY <2>2 DEF TypeOK
    <3> QED BY <2>1, <2>2, <3>1, <3>2 DEF TypeOK, receiver, service
  <2>4. Linked'
    BY <2>1, <2>2, LinkedKept DEF TypeOK, Launches
  <2> QED BY <2>3, <2>4
<1>3. CASE ClaimNotification(w)
  <2>1. w \in Jobs
    BY <1>3 DEF ClaimNotification, TypeOK
  <2>2. row' \in [Jobs -> Row] /\ Jobs' = Jobs /\ NoneStarts
    BY <1>3, <2>1 DEF ClaimNotification, TypeOK, Jobs, Row, NoneStarts
  <2>3. TypeOK'
    BY <1>3, <2>1, <2>2 DEF ClaimNotification, TypeOK, Launches, service
  <2>4. Linked'
    BY <1>3, <2>2, LinkedKept DEF ClaimNotification, TypeOK, Launches
  <2> QED BY <2>3, <2>4
<1>4. CASE Accept(w)
  <2>1. TypeOK'
    BY <1>4 DEF Accept, TypeOK, Jobs, Launches, memory, service
  <2>2. Linked'
    BY <1>4, LinkedKept DEF Accept, TypeOK, Jobs, Launches, memory, NoneStarts
  <2> QED BY <2>1, <2>2
<1>5. CASE MarkDelivered(w) \/ MarkFailed(w)
  <2>1. w \in Jobs
    BY <1>5 DEF MarkDelivered, NotifyResolves, MarkFailed, TypeOK
  <2>2. row' \in [Jobs -> Row] /\ Jobs' = Jobs /\ NoneStarts
    BY <1>5, <2>1 DEF MarkDelivered, RecordDelivered, MarkFailed, Scheduled, TypeOK, Jobs, Row, NoneStarts
  <2>3. UNCHANGED <<launch, active, killing, receiver, service>> /\ sending' \subseteq sending
        /\ timers' \subseteq timers \cup {w}
    BY <1>5 DEF MarkDelivered, RecordDelivered, MarkFailed, ScheduleTimer
  <2>4. TypeOK'
    BY <2>1, <2>2, <2>3 DEF TypeOK, Launches, receiver, service
  <2>5. Linked'
    BY <2>2, <2>3, LinkedKept DEF TypeOK, Launches
  <2> QED BY <2>4, <2>5
<1>6. CASE RecoverJob(w)
  <2>1. w \in Jobs
    BY <1>6 DEF RecoverJob, TypeOK
  <2>2. UNCHANGED <<active, killing, sending, receiver, mode, crashes>> /\ todo' \subseteq todo
    BY <1>6 DEF RecoverJob
  <2>3. row' \in [Jobs -> Row] /\ Jobs' = Jobs /\ timers' \subseteq Jobs /\ NoneStarts
    <3>1. CASE Settle(w, "recovery_required")
      BY <2>1, <3>1, SettleType DEF Terminal
    <3>2. CASE /\ row' = [row EXCEPT ![w].status = "queued", ![w].launchId = NoLaunch]
               /\ UNCHANGED timers
      BY <2>1, <3>2 DEF TypeOK, Jobs, Row, Live, NoneStarts
    <3>3. CASE UNCHANGED <<row, timers>>
      BY <3>3 DEF TypeOK, Jobs, NoneStarts
    <3>4. ASSUME NEW state \in {"pending", "failed"},
                 row' = [row EXCEPT ![w].notification = Scheduled(w, state)], ScheduleTimer(w)
          PROVE  row' \in [Jobs -> Row] /\ Jobs' = Jobs /\ timers' \subseteq Jobs /\ NoneStarts
      BY <2>1, <3>4 DEF TypeOK, Jobs, Row, NoneStarts, Scheduled, ScheduleTimer
    <3> QED BY <1>6, <3>1, <3>2, <3>3, <3>4 DEF RecoverJob
  <2>4. /\ Launches' \subseteq Launch /\ launch' \in [Launches' -> LaunchRecord]
        /\ Launches \subseteq Launches'
        /\ \A l \in Launches : launch'[l] = launch[l]
        /\ \A l \in Launches' : launch'[l].worker \in Jobs'
    <3>1. Jobs' = Jobs \cup {w}
      BY <2>1, <2>3
    <3>2. CASE StartLaunch(w)
      BY <3>1, <3>2, StartLaunchType
    <3>3. CASE UNCHANGED launch
      BY <3>1, <3>3 DEF TypeOK, Linked, Launches
    <3> QED BY <1>6, <3>2, <3>3 DEF RecoverJob
  <2>5. TypeOK'
    BY <2>2, <2>3, <2>4 DEF TypeOK, receiver
  <2>6. Linked'
    BY <2>2, <2>3, <2>4 DEF TypeOK, Linked, NoneStarts
  <2> QED BY <2>5, <2>6
<1> QED BY <1>1, <1>2, <1>3, <1>4, <1>5, <1>6 DEF JobStep, CallbackStep

LEMMA ServiceStepType ==
    ASSUME TypeInv, Crash \/ Restart \/ Listen \/ UNCHANGED vars
    PROVE  TypeInv'
<1>1. UNCHANGED <<row, receiver>> /\ Launches' = Launches /\ launch' \in [Launches -> LaunchRecord]
      /\ \A l \in Launches : launch'[l].worker = launch[l].worker
  BY DEF TypeInv, TypeOK, Launches, LaunchRecord, Crash, Restart, Listen, vars, memory
<1>2. /\ active' = active \/ active' = [w \in Worker |-> NoLaunch]
      /\ killing' \subseteq killing /\ timers' \subseteq timers /\ sending' \subseteq sending
      /\ todo' \subseteq todo \cup Jobs
      /\ mode' \in {"up", "down", "recovering"} /\ crashes' \in Nat
  BY DEF TypeInv, TypeOK, Crash, Restart, Listen, vars, memory, service
<1>3. TypeOK'
  BY <1>1, <1>2 DEF TypeInv, TypeOK, Jobs, receiver
<1>4. Linked'
  BY <1>1, <1>2 DEF TypeInv, TypeOK, Linked, Jobs
<1> QED BY <1>3, <1>4 DEF TypeInv

\* The type invariant of the runner: tables, memory and network stay well-typed, and
\* every launch, owner and running row refers to an existing one.
THEOREM TypeCorrect == Spec => []TypeInv
<1>1. Init => TypeInv
  BY FS_EmptySet DEF Init, TypeInv, TypeOK, Linked, Jobs, Launches
<1>2. TypeInv /\ [Next]_vars => TypeInv'
  BY LaunchStepType, JobStepType, ServiceStepType DEF Next
<1> QED BY <1>1, <1>2, PTL DEF Spec

\* TypeOK alone, as the runs check it.
THEOREM TypeOKHolds == Spec => []TypeOK
<1>1. TypeInv => TypeOK
  BY DEF TypeInv
<1> QED BY <1>1, TypeCorrect, PTL

-----------------------------------------------------------------------------
(* What any step but a dispatch does to the rows.                           *)

RowsKept ==
    /\ Jobs' = Jobs
    /\ \A v \in Jobs :
          /\ row'[v].request = row[v].request
          /\ row'[v].rowid = row[v].rowid
          /\ row'[v].status \in Live => row[v].status \in Live
          /\ row[v].status \notin Live => row'[v].status = row[v].status

LEMMA SettleRows ==
    ASSUME TypeInv, NEW w \in Jobs, NEW status \in Terminal, Settle(w, status), IsLive(w)
    PROVE  RowsKept
BY DEF RowsKept, TypeInv, TypeOK, Settle, Jobs, Row, Live, Terminal, IsLive

LEMMA FinishRows ==
    ASSUME TypeInv, NEW w \in Jobs, NEW status \in Terminal, NEW l,
           FinishQueued(w, status) \/ FinishRunning(w, l, status)
    PROVE  RowsKept
<1>1. CASE UNCHANGED <<row, timers>>
  BY <1>1 DEF RowsKept, Jobs
<1>2. CASE Settle(w, status) /\ row[w].status \in Live
  BY <1>2, SettleRows DEF IsLive
<1> QED BY <1>1, <1>2 DEF FinishQueued, FinishRunning, Owns, Live

LEMMA StepRows ==
    ASSUME TypeInv, [Next]_vars
    PROVE  \/ RowsKept
           \/ \E w \in Worker, r \in Request, ttl \in BOOLEAN : Dispatch(w, r, ttl)
<1>1. ASSUME UNCHANGED row PROVE RowsKept
  BY <1>1 DEF RowsKept, Jobs
<1>2. ASSUME NEW l \in Launches, LaunchStep(l) PROVE RowsKept
  <2> DEFINE w == launch[l].worker
  <2>0. w \in Jobs
    BY DEF TypeInv, Linked
  <2> HIDE DEF w
  <2>1. CASE LaunchFails(l)
    BY <2>0, <2>1, FinishRows DEF LaunchFails, w, Terminal
  <2>2. CASE MarkRunning(l)
    <3>1. row' = row \/ (row[w].status = "queued"
                         /\ row' = [row EXCEPT ![w].status = "running", ![w].launchId = l])
      BY <2>2 DEF MarkRunning, ClaimsRow, w
    <3> QED BY <2>0, <3>1 DEF RowsKept, TypeInv, TypeOK, Jobs, Row, Live
  <2>3. ASSUME NEW status \in {"completed", "failed"}, ProcessExited(l, status) PROVE RowsKept
    BY <2>0, <2>3, FinishRows DEF ProcessExited, w, Terminal
  <2> QED BY <1>1, <1>2, <2>1, <2>2, <2>3 DEF LaunchStep, Spawn, Kill, Exit
<1>3. ASSUME NEW w \in Worker, JobStep(w), ~ \E r \in Request, ttl \in BOOLEAN : Dispatch(w, r, ttl)
      PROVE  RowsKept
  <2>1. CASE AbortQueued(w)
    BY <2>1, FinishRows DEF AbortQueued, Terminal
  <2>2. CASE AbortRunning(w)
    BY <2>2, SettleRows DEF AbortRunning, Terminal, IsLive, Live
  <2>3. CASE ExpireRunning(w)
    BY <2>3, FinishRows DEF ExpireRunning, Terminal, TypeInv, Linked
  <2>4. CASE ClaimNotification(w)
    <3>1. w \in Jobs /\ (row' = row \/ row' = [row EXCEPT ![w].notification = "sending"])
      BY <2>4 DEF ClaimNotification, TypeInv, TypeOK
    <3> QED BY <3>1 DEF RowsKept, TypeInv, TypeOK, Jobs, Row
  <2>5. CASE RecoverJob(w)
    <3>0. w \in Jobs
      BY <2>5 DEF RecoverJob, TypeInv, TypeOK
    <3>1. CASE IsLive(w) /\ Settle(w, "recovery_required")
      BY <3>0, <3>1, SettleRows DEF Terminal
    <3>2. CASE IsLive(w) /\ row' = [row EXCEPT ![w].status = "queued", ![w].launchId = NoLaunch]
      BY <3>0, <3>2 DEF RowsKept, TypeInv, TypeOK, Jobs, Row, Live, IsLive
    <3>3. ASSUME NEW state, row' = [row EXCEPT ![w].notification = state]
          PROVE  RowsKept
      BY <3>0, <3>3 DEF RowsKept, TypeInv, TypeOK, Jobs, Row
    <3> QED BY <1>1, <2>5, <3>1, <3>2, <3>3 DEF RecoverJob, RestartCandidate
  <2> QED BY <1>3, <2>1, <2>2, <2>3, <2>4, <2>5 DEF JobStep
<1>4. ASSUME NEW w \in Worker, CallbackStep(w) PROVE RowsKept
  <2>1. w \in Jobs
    BY <1>4 DEF CallbackStep, Accept, MarkDelivered, NotifyResolves, MarkFailed, TypeInv, TypeOK
  <2>2. \/ row' = row
        \/ \E state : row' = [row EXCEPT ![w].notification = state]
    BY <1>4 DEF CallbackStep, Accept, MarkDelivered, RecordDelivered, MarkFailed
  <2> QED BY <2>1, <2>2 DEF RowsKept, TypeInv, TypeOK, Jobs, Row
<1> QED BY <1>1, <1>2, <1>3, <1>4 DEF Next, Crash, Restart, Listen, vars

-----------------------------------------------------------------------------
(* The quota.                                                               *)

LEMMA DispatchQuota ==
    ASSUME TypeInv, QuotaRespected, NEW w \in Worker, NEW r \in Request, NEW ttl,
           Dispatch(w, r, ttl), NEW s \in Scope
    PROVE  Cardinality(LiveIn(s))' <= MaxConcurrentPerScope
<1>1. /\ Jobs' = Jobs \cup {w} /\ row'[w] = NewRow(r)
      /\ \A v \in Jobs : row'[v] = row[v]
  BY DispatchType
<1>2. w \notin Jobs /\ HasQuota(r.scope)
  BY DEF Dispatch
<1>3. IsFiniteSet(LiveIn(s)) /\ Cardinality(LiveIn(s)) \in Nat /\ w \notin LiveIn(s)
  BY <1>2, FS_Subset, FS_CardinalityType DEF LiveIn, TypeInv, Linked
<1>4. row'[w].request = r /\ row'[w].status = "queued"
  BY <1>1 DEF NewRow
<1>5. CASE s = r.scope
  <2>1. LiveIn(s)' = LiveIn(s) \cup {w}
    BY <1>1, <1>4, <1>5 DEF LiveIn, IsLive, Live
  <2>2. Cardinality(LiveIn(s))' = Cardinality(LiveIn(s)) + 1
    BY <1>3, <2>1, FS_AddElement
  <2> QED BY <1>2, <1>3, <1>5, <2>2, QuotaAssumption DEF HasQuota
<1>6. CASE s # r.scope
  <2>1. LiveIn(s)' = LiveIn(s)
    BY <1>1, <1>4, <1>6 DEF LiveIn, IsLive
  <2> QED BY <2>1 DEF QuotaRespected
<1> QED BY <1>5, <1>6

\* No interleaving of dispatches, launches, aborts, restarts and relaunches exceeds the
\* quota of a bot/chat (createWorker counts queued and running rows in its transaction).
THEOREM QuotaHolds == Spec => []QuotaRespected
<1>1. Init => QuotaRespected
  <2> SUFFICES ASSUME Init, NEW s \in Scope PROVE Cardinality(LiveIn(s)) <= MaxConcurrentPerScope
    BY DEF QuotaRespected
  <2>1. LiveIn(s) = {}
    BY DEF Init, LiveIn, Jobs
  <2> QED BY <2>1, FS_EmptySet, QuotaAssumption
<1>2. TypeInv /\ QuotaRespected /\ [Next]_vars => QuotaRespected'
  <2> SUFFICES ASSUME TypeInv, QuotaRespected, [Next]_vars, NEW s \in Scope
               PROVE  Cardinality(LiveIn(s))' <= MaxConcurrentPerScope
    BY DEF QuotaRespected
  <2>1. CASE RowsKept
    <3>1. LiveIn(s)' \subseteq LiveIn(s)
      BY <2>1 DEF RowsKept, LiveIn, IsLive
    <3>2. IsFiniteSet(LiveIn(s))
      BY FS_Subset DEF LiveIn, TypeInv, Linked
    <3>3. /\ Cardinality(LiveIn(s))' <= Cardinality(LiveIn(s))
          /\ Cardinality(LiveIn(s))' \in Nat /\ Cardinality(LiveIn(s)) \in Nat
      BY <3>1, <3>2, FS_Subset, FS_CardinalityType
    <3> QED BY <3>3, QuotaAssumption DEF QuotaRespected
  <2>2. CASE \E w \in Worker, r \in Request, ttl \in BOOLEAN : Dispatch(w, r, ttl)
    BY <2>2, DispatchQuota
  <2> QED BY <2>1, <2>2, StepRows
<1> QED BY <1>1, <1>2, TypeCorrect, PTL DEF Spec

-----------------------------------------------------------------------------
(* Dedupe keys.  createWorker looks at the latest row of a key only; that is  *)
(* enough because a live job is always its key's latest.                    *)

SameKey(v, w) == /\ row[v].request.scope = row[w].request.scope
                 /\ row[v].request.key = row[w].request.key
                 /\ row[v].request.key # NoKey

RowidsBounded == \A w \in Jobs : row[w].rowid <= Cardinality(Jobs)

LiveIsLatest ==
    \A v, w \in Jobs : SameKey(v, w) /\ v # w /\ IsLive(w) => row[v].rowid < row[w].rowid

KeyInv == RowidsBounded /\ LiveIsLatest /\ DurableIdempotence

\* A live job of the key is the one that the query of createWorker finds, so that no
\* dispatch of the key goes through.
LEMMA LiveIsFound ==
    ASSUME TypeInv, KeyInv, NEW r \in Request, NEW ttl, r.key # NoKey, ~Reuses(r, ttl),
           NEW v \in Matching(r)
    PROVE  ~IsLive(v) /\ r.retryTerminal
<1>1. ~IsLive(v)
  <2> SUFFICES ASSUME IsLive(v) PROVE FALSE
    OBVIOUS
  <2>1. \A u \in Matching(r) : u \in Jobs /\ row[u].rowid \in Nat /\ (u # v => SameKey(u, v))
    BY DEF Matching, SameKey, TypeInv, TypeOK, Row
  <2>2. \A u \in Matching(r) : row[u].rowid <= row[v].rowid
    BY <2>1 DEF KeyInv, LiveIsLatest
  <2>3. Latest(r) \in Matching(r) /\ row[v].rowid <= row[Latest(r)].rowid
    BY <2>2 DEF Latest
  <2>4. Latest(r) = v
    BY <2>1, <2>3 DEF KeyInv, LiveIsLatest
  <2> QED BY <2>4 DEF Reuses
<1>2. r.retryTerminal
  BY RequestAssumption DEF Reuses
<1> QED BY <1>1, <1>2

LEMMA DispatchKeys ==
    ASSUME TypeInv, KeyInv, NEW w \in Worker, NEW r \in Request, NEW ttl, Dispatch(w, r, ttl)
    PROVE  KeyInv'
<1>1. /\ Jobs' = Jobs \cup {w} /\ row'[w] = NewRow(r)
      /\ \A v \in Jobs : row'[v] = row[v]
      /\ Cardinality(Jobs') = Cardinality(Jobs) + 1 /\ Cardinality(Jobs) \in Nat
  BY DispatchType
<1>2. /\ row'[w].request = r /\ row'[w].status = "queued"
      /\ row'[w].rowid = Cardinality(Jobs) + 1
  BY <1>1 DEF NewRow
<1>3. w \notin Jobs /\ ~Reuses(r, ttl)
  BY DEF Dispatch
<1>4. \A v \in Jobs : row[v].rowid \in Nat /\ row[v].rowid <= Cardinality(Jobs)
  BY DEF KeyInv, RowidsBounded, TypeInv, TypeOK, Row
<1>5. \A v \in Jobs : row[v].request.scope = r.scope /\ row[v].request.key = r.key /\ r.key # NoKey
                      => ~IsLive(v) /\ r.retryTerminal
  BY <1>3, LiveIsFound DEF Matching
<1>6. RowidsBounded'
  BY <1>1, <1>2, <1>4 DEF RowidsBounded
<1>7. LiveIsLatest'
  <2> SUFFICES ASSUME NEW u \in Jobs', NEW v \in Jobs', SameKey(u, v)', u # v, IsLive(v)'
               PROVE  row'[u].rowid < row'[v].rowid
    BY DEF LiveIsLatest
  <2>1. CASE v = w
    BY <1>1, <1>2, <1>4, <2>1
  <2>2. CASE u = w
    BY <1>1, <1>2, <1>5, <2>2 DEF SameKey, IsLive
  <2>3. CASE u # w /\ v # w
    BY <1>1, <2>3 DEF SameKey, IsLive, KeyInv, LiveIsLatest
  <2> QED BY <2>1, <2>2, <2>3
<1>8. DurableIdempotence'
  <2> SUFFICES ASSUME NEW u \in Jobs', NEW v \in Jobs', SameKey(u, v)',
                      row'[u].rowid < row'[v].rowid
               PROVE  row'[v].request.retryTerminal
    BY DEF DurableIdempotence, SameKey
  <2>1. CASE v = w
    BY <1>1, <1>2, <1>5, <2>1 DEF SameKey
  <2>2. CASE u = w /\ v # w
    BY <1>1, <1>2, <1>4, <2>2
  <2>3. CASE u # w /\ v # w
    BY <1>1, <2>3 DEF SameKey, KeyInv, DurableIdempotence
  <2> QED BY <2>1, <2>2, <2>3
<1> QED BY <1>6, <1>7, <1>8 DEF KeyInv

LEMMA KeyInvInductive == TypeInv /\ KeyInv /\ [Next]_vars => KeyInv'
<1> SUFFICES ASSUME TypeInv, KeyInv, [Next]_vars PROVE KeyInv'
  OBVIOUS
<1>1. CASE RowsKept
  <2>1. \A v, w \in Jobs : SameKey(v, w)' = SameKey(v, w)
    BY <1>1 DEF RowsKept, SameKey
  <2>2. RowidsBounded'
    BY <1>1 DEF RowsKept, KeyInv, RowidsBounded
  <2>3. LiveIsLatest'
    BY <1>1, <2>1 DEF RowsKept, KeyInv, LiveIsLatest, IsLive
  <2>4. DurableIdempotence'
    BY <1>1 DEF RowsKept, KeyInv, DurableIdempotence
  <2> QED BY <2>2, <2>3, <2>4 DEF KeyInv
<1>2. CASE \E w \in Worker, r \in Request, ttl \in BOOLEAN : Dispatch(w, r, ttl)
  BY <1>2, DispatchKeys
<1> QED BY <1>1, <1>2, StepRows

LEMMA KeyInvHolds == Spec => []KeyInv
<1>1. Init => KeyInv
  BY DEF Init, KeyInv, RowidsBounded, LiveIsLatest, DurableIdempotence, Jobs
<1> QED BY <1>1, KeyInvInductive, TypeCorrect, PTL DEF Spec

\* A dedupe key never has two live jobs, although createWorker consults its latest row only.
THEOREM OneLiveJobHolds == Spec => []OneLiveJobPerKey
<1>1. TypeInv /\ KeyInv => OneLiveJobPerKey
  <2> SUFFICES ASSUME TypeInv, KeyInv, NEW v \in Jobs, NEW w \in Jobs,
                      SameKey(v, w), IsLive(v), IsLive(w), v # w
               PROVE  FALSE
    BY DEF OneLiveJobPerKey, SameKey
  <2>1. row[v].rowid < row[w].rowid /\ row[w].rowid < row[v].rowid
    BY DEF KeyInv, LiveIsLatest, SameKey
  <2> QED BY <2>1 DEF TypeInv, TypeOK, Row
<1> QED BY <1>1, KeyInvHolds, TypeCorrect, PTL

\* retryTerminal = false is a durable promise: the key never gets another job from such a
\* caller, whatever became of the first one.
THEOREM IdempotenceHolds == Spec => []DurableIdempotence
<1>1. KeyInv => DurableIdempotence
  BY DEF KeyInv
<1> QED BY <1>1, KeyInvHolds, PTL
-----------------------------------------------------------------------------
(* A row that waits for startAll is touched by nothing else.                *)

\* Nothing in this service's memory refers to w.
Idle(w) ==
    /\ w \notin timers
    /\ w \notin sending
    /\ active[w] = NoLaunch
    /\ \A l \in Launches : launch[l].worker = w => launch[l].coroutine = "lost"

RecoveryInv ==
    /\ mode # "recovering" => todo = {}
    /\ \A w \in todo : Idle(w)
    /\ mode = "down" => \A w \in Worker : Idle(w)

\* A step that concerns the job w only.
Touches(w) ==
    /\ mode' = mode
    /\ timers' \subseteq timers \cup {w}
    /\ sending' \subseteq sending \cup {w}
    /\ \A v \in Worker : v # w => active'[v] = active[v]
    /\ \A m \in Launches' : launch'[m].worker # w =>
          /\ m \in Launches
          /\ launch'[m].worker = launch[m].worker
          /\ launch'[m].coroutine = launch[m].coroutine

LEMMA OthersStayIdle ==
    ASSUME NEW w, Touches(w), NEW v \in Worker, v # w, Idle(v)
    PROVE  Idle(v)'
BY DEF Touches, Idle

LEMMA RecoveryKept ==
    ASSUME TypeInv, RecoveryInv, NEW w \in Worker, Touches(w),
           \/ ~Idle(w) /\ todo' = todo
           \/ mode = "up" /\ todo' = todo
           \/ w \in todo /\ todo' = todo \ {w}
    PROVE  RecoveryInv'
<1>1. \A v \in Worker \ {w} : Idle(v) => Idle(v)'
  BY OthersStayIdle
<1>2. mode' # "down" \/ ~Idle(w) \/ todo # {}
  BY DEF Touches
<1> QED BY <1>1, <1>2 DEF RecoveryInv, Touches, TypeInv, TypeOK

\* startLaunch, settle and the conditional updates touch their job only.
LEMMA StartLaunchTouches ==
    ASSUME TypeOK, NEW w \in Worker, StartLaunch(w), NEW m \in Launches', launch'[m].worker # w
    PROVE  m \in Launches /\ launch'[m] = launch[m]
BY DEF StartLaunch, Launches

LEMMA FinishTouches ==
    ASSUME NEW w, NEW status, NEW l,
           Settle(w, status) \/ FinishQueued(w, status) \/ FinishRunning(w, l, status)
    PROVE  timers' \subseteq timers \cup {w}
BY DEF Settle, FinishQueued, FinishRunning, ScheduleTimer

LEMMA LaunchStepTouches ==
    ASSUME TypeInv, NEW l \in Launches, LaunchStep(l), ~Kill(l), ~Exit(l)
    PROVE  Touches(launch[l].worker) /\ ~Idle(launch[l].worker) /\ todo' = todo
<1> DEFINE w == launch[l].worker
<1>0. w \in Worker
  BY DEF TypeInv, TypeOK, LaunchRecord
<1>1. launch[l].coroutine \in {"starting", "spawned", "watching"} /\ UNCHANGED <<sending, service>>
  BY DEF LaunchStep, Spawn, LaunchFails, MarkRunning, ProcessExited, memory
<1>2. ~Idle(w)
  BY <1>1 DEF Idle
<1>3. Launches' = Launches /\ \A m \in Launches : launch'[m].worker = launch[m].worker
                              /\ (m # l => launch'[m].coroutine = launch[m].coroutine)
  BY DEF TypeInv, TypeOK, LaunchStep, Spawn, LaunchFails, MarkRunning, ProcessExited, Launches, LaunchRecord
<1>4. \A v \in Worker : v # w => active'[v] = active[v]
  BY DEF TypeInv, TypeOK, LaunchStep, Spawn, LaunchFails, MarkRunning, ProcessExited, memory
<1>5. timers' \subseteq timers \cup {w}
  <2>1. CASE Spawn(l) \/ MarkRunning(l)
    BY <2>1 DEF Spawn, MarkRunning, memory
  <2>2. CASE LaunchFails(l)
    BY <2>2, FinishTouches DEF LaunchFails
  <2>3. CASE \E status \in {"completed", "failed"} : ProcessExited(l, status)
    BY <2>3, FinishTouches DEF ProcessExited
  <2> QED BY <2>1, <2>2, <2>3 DEF LaunchStep
<1> QED BY <1>0, <1>1, <1>2, <1>3, <1>4, <1>5 DEF Touches, service

LEMMA JobStepTouches ==
    ASSUME TypeInv, RecoveryInv, NEW w \in Worker, JobStep(w) \/ CallbackStep(w), ~Accept(w)
    PROVE  /\ Touches(w)
           /\ \/ ~Idle(w) /\ todo' = todo
              \/ mode = "up" /\ todo' = todo
              \/ w \in todo /\ todo' = todo \ {w}
<1>1. ASSUME NEW r \in Request, NEW ttl \in BOOLEAN, Dispatch(w, r, ttl)
      PROVE  Touches(w) /\ mode = "up" /\ todo' = todo
  BY <1>1, StartLaunchTouches DEF Dispatch, Touches, memory, service, TypeInv
<1>2. CASE AbortQueued(w) \/ AbortRunning(w) \/ ExpireRunning(w)
  <2>1. timers' \subseteq timers \cup {w}
    BY <1>2, FinishTouches DEF AbortQueued, AbortRunning, ExpireRunning
  <2>2. \A v \in Worker : v # w => active'[v] = active[v]
    BY <1>2 DEF AbortQueued, AbortRunning, ExpireRunning, TypeInv, TypeOK
  <2>3. UNCHANGED <<launch, sending, service>> /\ (mode = "up" \/ ~Idle(w))
    BY <1>2 DEF AbortQueued, AbortRunning, ExpireRunning, Idle
  <2> QED BY <2>1, <2>2, <2>3 DEF Touches, Launches, service
<1>3. CASE ClaimNotification(w) \/ MarkDelivered(w) \/ MarkFailed(w)
  <2>1. ~Idle(w) /\ UNCHANGED <<launch, active, service>>
    BY <1>3 DEF ClaimNotification, MarkDelivered, NotifyResolves, RecordDelivered, MarkFailed, Idle
  <2>2. timers' \subseteq timers \cup {w} /\ sending' \subseteq sending \cup {w}
    BY <1>3 DEF ClaimNotification, MarkDelivered, RecordDelivered, MarkFailed, ScheduleTimer
  <2> QED BY <2>1, <2>2 DEF Touches, Launches, service
<1>4. CASE RecoverJob(w)
  <2>1. w \in todo /\ todo' = todo \ {w} /\ UNCHANGED <<active, sending, mode>>
    BY <1>4 DEF RecoverJob
  <2>2. timers' \subseteq timers \cup {w}
    BY <1>4, FinishTouches DEF RecoverJob, ScheduleTimer
  <2>3. \A m \in Launches' : launch'[m].worker # w => m \in Launches /\ launch'[m] = launch[m]
    <3>1. CASE StartLaunch(w)
      BY <3>1, StartLaunchTouches DEF TypeInv
    <3>2. CASE UNCHANGED launch
      BY <3>2 DEF Launches
    <3> QED BY <1>4, <3>1, <3>2 DEF RecoverJob
  <2> QED BY <2>1, <2>2, <2>3 DEF Touches
<1> QED BY <1>1, <1>2, <1>3, <1>4 DEF JobStep, CallbackStep

\* A row that waits for startAll is touched by nothing else, and nothing runs while the
\* service is down.
LEMMA RecoveryInvInductive == TypeInv /\ RecoveryInv /\ [Next]_vars => RecoveryInv'
<1> SUFFICES ASSUME TypeInv, RecoveryInv, [Next]_vars PROVE RecoveryInv'
  OBVIOUS
<1>1. ASSUME UNCHANGED <<active, timers, sending, mode, todo>>, Launches' = Launches,
             \A l \in Launches : launch'[l].worker = launch[l].worker
                                 /\ launch'[l].coroutine = launch[l].coroutine
      PROVE  RecoveryInv'
  BY <1>1 DEF RecoveryInv, Idle
<1>2. ASSUME NEW l \in Launches, LaunchStep(l) PROVE RecoveryInv'
  <2>1. CASE Kill(l) \/ Exit(l)
    BY <1>1, <2>1 DEF Kill, Exit, memory, service, TypeInv, TypeOK, Launches, LaunchRecord
  <2>2. CASE ~Kill(l) /\ ~Exit(l)
    BY <1>2, <2>2, LaunchStepTouches, RecoveryKept DEF TypeInv, TypeOK, LaunchRecord
  <2> QED BY <2>1, <2>2
<1>3. ASSUME NEW w \in Worker, JobStep(w) \/ CallbackStep(w) PROVE RecoveryInv'
  <2>1. CASE Accept(w)
    BY <1>1, <2>1 DEF Accept, memory, service, Launches
  <2>2. CASE ~Accept(w)
    BY <1>3, <2>2, JobStepTouches, RecoveryKept
  <2> QED BY <2>1, <2>2
<1>4. CASE Crash
  <2>1. todo' = {} /\ mode' = "down" /\ timers' = {} /\ sending' = {}
        /\ active' = [w \in Worker |-> NoLaunch] /\ Launches' = Launches
        /\ \A l \in Launches : launch'[l].coroutine = "lost"
    BY <1>4 DEF Crash, Launches, TypeInv, TypeOK, LaunchRecord
  <2> QED BY <2>1 DEF RecoveryInv, Idle
<1>5. CASE Restart
  BY <1>5 DEF Restart, RecoveryInv, Idle, memory, Launches, TypeInv, TypeOK
<1>6. CASE Listen
  BY <1>6 DEF Listen, RecoveryInv, Idle, memory, Launches
<1>7. CASE UNCHANGED vars
  BY <1>1, <1>7 DEF vars, memory, service, Launches
<1> QED BY <1>2, <1>3, <1>4, <1>5, <1>6, <1>7 DEF Next

-----------------------------------------------------------------------------
(* The notification column against the timers, the calls and the receiver.  *)

ReportInv ==
    /\ \A w \in Jobs : IsLive(w) => row[w].notification = "pending"
    /\ \A w \in timers : ~IsLive(w) /\ ~IsArc(w)
    /\ \A w \in sending : row[w].notification = "sending"
    /\ \A w \in posted : ~IsLive(w) /\ ~IsArc(w)
    /\ sending \subseteq posted
    /\ \A w \in Jobs : row[w].notification = "delivered" /\ ~IsArc(w) => w \in accepted
    /\ mode # "down" => \A w \in Jobs \ todo :
          /\ Outstanding(w) => w \in timers
          /\ row[w].notification = "sending" => w \in sending

DeliveredStays ==
    \A w \in Jobs : row[w].notification = "delivered" => row'[w].notification = "delivered"

ReportStep == ReportInv' /\ DeliveredStays

\* A step that leaves notifications, liveness and the reporting state alone, or makes a
\* live row another live row.
LEMMA QuietReport ==
    ASSUME TypeInv, ReportInv, UNCHANGED <<timers, sending, receiver, mode>>,
           Jobs' = Jobs, todo' = todo \/ \E w \in Jobs : IsLive(w) /\ todo' = todo \ {w},
           \A v \in Jobs : /\ row'[v].request = row[v].request
                           /\ row'[v].notification = row[v].notification
                           /\ IsLive(v)' = IsLive(v)
    PROVE  ReportStep
BY DEF ReportStep, DeliveredStays, ReportInv, Outstanding, IsArc, TypeInv, TypeOK, receiver

\* Settling a live job arms its report, or suppresses it for ARC.
LEMMA SettleReport ==
    ASSUME TypeInv, ReportInv, NEW w \in Jobs, IsLive(w), NEW status \in Terminal,
           Settle(w, status), UNCHANGED <<sending, receiver, mode>>,
           todo' = todo \/ todo' = todo \ {w}
    PROVE  ReportStep
<1>1. /\ Jobs' = Jobs /\ \A v \in Jobs \ {w} : row'[v] = row[v]
      /\ row'[w].request = row[w].request /\ row'[w].status = status
      /\ row'[w].notification = Scheduled(w, "pending")
  BY DEF Settle, TypeInv, TypeOK, Jobs, Row
<1>2. timers' = IF IsArc(w) THEN timers ELSE timers \cup {w}
  BY DEF Settle, ScheduleTimer
<1>3. status \notin Live
  BY DEF Terminal, Live
<1>4. w \notin sending /\ w \notin posted /\ row[w].notification = "pending"
  BY DEF ReportInv
<1> QED BY <1>1, <1>2, <1>3, <1>4
        DEF ReportStep, DeliveredStays, ReportInv, Outstanding, IsArc, IsLive, Scheduled, TypeInv, TypeOK, receiver

LEMMA FinishReport ==
    ASSUME TypeInv, ReportInv, NEW w \in Jobs, NEW status \in Terminal, NEW l,
           FinishQueued(w, status) \/ FinishRunning(w, l, status),
           UNCHANGED <<sending, receiver, mode, todo>>
    PROVE  ReportStep
<1>1. CASE UNCHANGED <<row, timers>>
  BY <1>1, QuietReport DEF Jobs, IsLive
<1>2. CASE Settle(w, status) /\ IsLive(w)
  BY <1>2, SettleReport
<1> QED BY <1>1, <1>2 DEF FinishQueued, FinishRunning, Owns, IsLive, Live

LEMMA LaunchStepReport ==
    ASSUME TypeInv, ReportInv, NEW l \in Launches, LaunchStep(l)
    PROVE  ReportStep
<1> DEFINE w == launch[l].worker
<1>0. w \in Jobs
  BY DEF TypeInv, Linked
<1> HIDE DEF w
<1>1. CASE Spawn(l) \/ Kill(l) \/ Exit(l)
  BY <1>1, QuietReport DEF Spawn, Kill, Exit, memory, receiver, service, Jobs, IsLive
<1>2. CASE LaunchFails(l)
  BY <1>0, <1>2, FinishReport DEF LaunchFails, w, service, Terminal
<1>3. CASE MarkRunning(l)
  <2>1. row' = row \/ (row[w].status = "queued"
                       /\ row' = [row EXCEPT ![w].status = "running", ![w].launchId = l])
    BY <1>3 DEF MarkRunning, ClaimsRow, w
  <2>2. Jobs' = Jobs /\ \A v \in Jobs : /\ row'[v].request = row[v].request
                                        /\ row'[v].notification = row[v].notification
                                        /\ IsLive(v)' = IsLive(v)
    BY <1>0, <2>1 DEF TypeInv, TypeOK, Jobs, Row, IsLive, Live
  <2> QED BY <1>3, <2>2, QuietReport DEF MarkRunning, receiver, service
<1>4. ASSUME NEW status \in {"completed", "failed"}, ProcessExited(l, status)
      PROVE  ReportStep
  BY <1>0, <1>4, FinishReport DEF ProcessExited, w, service, Terminal
<1> QED BY <1>1, <1>2, <1>3, <1>4 DEF LaunchStep

LEMMA JobStepReport ==
    ASSUME TypeInv, RecoveryInv, ReportInv, NEW w \in Worker, JobStep(w)
    PROVE  ReportStep
<1>1. ASSUME NEW r \in Request, NEW ttl \in BOOLEAN, Dispatch(w, r, ttl)
      PROVE  ReportStep
  <2>1. /\ Jobs' = Jobs \cup {w} /\ \A v \in Jobs : row'[v] = row[v]
        /\ row'[w] = NewRow(r) /\ w \notin Jobs
    BY <1>1, DispatchType DEF Dispatch
  <2>2. row'[w].status = "queued" /\ row'[w].notification = "pending"
    BY <2>1 DEF NewRow
  <2>3. UNCHANGED <<timers, sending, receiver, mode, todo>>
    BY <1>1 DEF Dispatch, memory, service
  <2> QED BY <2>1, <2>2, <2>3 DEF ReportStep, DeliveredStays, ReportInv, Outstanding,
                                  IsArc, IsLive, Live, TypeInv, TypeOK, receiver
<1>2. CASE AbortQueued(w)
  BY <1>2, FinishReport DEF AbortQueued, service, Terminal
<1>3. CASE AbortRunning(w)
  BY <1>3, SettleReport DEF AbortRunning, service, Terminal, IsLive, Live
<1>4. CASE ExpireRunning(w)
  BY <1>4, FinishReport DEF ExpireRunning, service, Terminal, TypeInv, Linked
<1>5. CASE ClaimNotification(w)
  <2>0. w \in Jobs /\ w \in timers /\ UNCHANGED <<accepted, service>>
    BY <1>5 DEF ClaimNotification, TypeInv, TypeOK
  <2>1. CASE Outstanding(w)
    <3>1. /\ Jobs' = Jobs /\ \A v \in Jobs \ {w} : row'[v] = row[v]
          /\ row'[w].request = row[w].request /\ row'[w].status = row[w].status
          /\ row'[w].notification = "sending" /\ row[w].notification # "delivered"
      BY <1>5, <2>0, <2>1 DEF ClaimNotification, Outstanding, TypeInv, TypeOK, Jobs, Row
    <3>2. timers' = timers \ {w} /\ sending' = sending \cup {w} /\ posted' = posted \cup {w}
      BY <1>5, <2>1 DEF ClaimNotification
    <3> QED BY <2>0, <3>1, <3>2 DEF ReportStep, DeliveredStays, ReportInv, Outstanding,
                                    IsArc, IsLive, TypeInv, TypeOK, service
  <2>2. CASE ~Outstanding(w)
    <3>1. UNCHANGED <<row, sending, posted>> /\ timers' \in {timers, timers \ {w}}
      BY <1>5, <2>2 DEF ClaimNotification
    <3> QED BY <2>0, <2>2, <3>1 DEF ReportStep, DeliveredStays, ReportInv, Outstanding,
                                    IsArc, IsLive, Jobs, service
  <2> QED BY <2>1, <2>2
<1>6. CASE RecoverJob(w)
  <2>0. /\ w \in Jobs /\ w \in todo /\ todo' = todo \ {w}
        /\ UNCHANGED <<sending, receiver, mode>> /\ w \notin sending
    BY <1>6 DEF RecoverJob, TypeInv, TypeOK, RecoveryInv, Idle
  <2>1. CASE IsLive(w) /\ Settle(w, "recovery_required")
    BY <2>0, <2>1, SettleReport DEF Terminal
  <2>2. CASE /\ IsLive(w) /\ UNCHANGED timers
             /\ row' = [row EXCEPT ![w].status = "queued", ![w].launchId = NoLaunch]
    <3>1. Jobs' = Jobs /\ \A v \in Jobs : /\ row'[v].request = row[v].request
                                          /\ row'[v].notification = row[v].notification
                                          /\ IsLive(v)' = IsLive(v)
      BY <2>0, <2>2 DEF TypeInv, TypeOK, Jobs, Row, IsLive, Live
    <3> QED BY <2>0, <2>2, <3>1, QuietReport
  <2>3. ASSUME NEW state \in {"pending", "failed"}, ~IsLive(w), ScheduleTimer(w),
               row[w].notification # "delivered",
               row' = [row EXCEPT ![w].notification = Scheduled(w, state)]
        PROVE  ReportStep
    <3>1. /\ Jobs' = Jobs /\ \A v \in Jobs \ {w} : row'[v] = row[v]
          /\ row'[w].request = row[w].request /\ row'[w].status = row[w].status
          /\ row'[w].notification = Scheduled(w, state)
      BY <2>0, <2>3 DEF TypeInv, TypeOK, Jobs, Row
    <3>2. timers' = IF IsArc(w) THEN timers ELSE timers \cup {w}
      BY <2>3 DEF ScheduleTimer
    <3> QED BY <2>0, <2>3, <3>1, <3>2 DEF ReportStep, DeliveredStays, ReportInv, Outstanding,
                                    IsArc, IsLive, Scheduled, TypeInv, TypeOK, receiver
  <2>4. CASE ~IsLive(w) /\ row[w].notification = "delivered" /\ UNCHANGED <<row, timers>>
    BY <2>0, <2>4 DEF ReportStep, DeliveredStays, ReportInv, Outstanding, IsArc, IsLive, Jobs, receiver
  <2>5. row[w].notification \in {"pending", "sending", "delivered", "failed"}
    BY <2>0 DEF TypeInv, TypeOK, Row
  <2> QED BY <1>6, <2>1, <2>2, <2>3, <2>4, <2>5 DEF RecoverJob, RestartCandidate, ResetInterrupted
<1> QED BY <1>1, <1>2, <1>3, <1>4, <1>5, <1>6 DEF JobStep

LEMMA CallbackStepReport ==
    ASSUME TypeInv, ReportInv, NEW w \in Worker, CallbackStep(w)
    PROVE  ReportStep
<1>1. CASE Accept(w)
  BY <1>1 DEF Accept, ReportStep, DeliveredStays, ReportInv, Outstanding, IsArc, IsLive, Jobs, memory, service
<1>2. CASE MarkDelivered(w) \/ MarkFailed(w)
  <2>0. w \in Jobs /\ w \in sending /\ sending' = sending \ {w} /\ UNCHANGED <<receiver, service>>
    BY <1>2 DEF MarkDelivered, NotifyResolves, RecordDelivered, MarkFailed, TypeInv, TypeOK
  <2>1. row[w].notification = "sending" /\ ~IsLive(w) /\ ~IsArc(w)
    BY <2>0 DEF ReportInv
  <2>2. \/ w \in accepted /\ row' = [row EXCEPT ![w].notification = "delivered"] /\ timers' = timers
        \/ row' = [row EXCEPT ![w].notification = "failed"] /\ timers' = timers \cup {w}
    BY <1>2, <2>1 DEF MarkDelivered, NotifyResolves, RecordDelivered, MarkFailed, Scheduled, ScheduleTimer
  <2>3. /\ Jobs' = Jobs /\ \A v \in Jobs \ {w} : row'[v] = row[v]
        /\ row'[w].request = row[w].request /\ row'[w].status = row[w].status
        /\ \/ w \in accepted /\ row'[w].notification = "delivered" /\ timers' = timers
           \/ row'[w].notification = "failed" /\ timers' = timers \cup {w}
    BY <2>0, <2>2 DEF TypeInv, TypeOK, Jobs, Row
  <2> QED BY <2>0, <2>1, <2>3 DEF ReportStep, DeliveredStays, ReportInv, Outstanding,
                                  IsArc, IsLive, TypeInv, TypeOK, receiver, service
<1> QED BY <1>1, <1>2 DEF CallbackStep

LEMMA ReportInvInductive ==
    TypeInv /\ RecoveryInv /\ ReportInv /\ [Next]_vars => ReportInv' /\ DeliveredStays
<1> SUFFICES ASSUME TypeInv, RecoveryInv, ReportInv, [Next]_vars PROVE ReportStep
  BY DEF ReportStep
<1>1. CASE Crash
  BY <1>1 DEF Crash, ReportStep, DeliveredStays, ReportInv, Outstanding, IsArc, IsLive, Jobs, receiver
<1>2. CASE Restart
  BY <1>2 DEF Restart, ReportStep, DeliveredStays, ReportInv, Outstanding, IsArc, IsLive, Jobs, receiver, memory
<1>3. CASE Listen \/ UNCHANGED vars
  BY <1>3 DEF Listen, vars, ReportStep, DeliveredStays, ReportInv, Outstanding, IsArc, IsLive, Jobs,
              receiver, memory, service
<1> QED BY <1>1, <1>2, <1>3, LaunchStepReport, JobStepReport, CallbackStepReport DEF Next

LEMMA ReportInvHolds == Spec => [](TypeInv /\ RecoveryInv /\ ReportInv)
<1>1. Init => RecoveryInv /\ ReportInv
  BY DEF Init, RecoveryInv, Idle, ReportInv, Jobs, Launches
<1> QED BY <1>1, RecoveryInvInductive, ReportInvInductive, TypeCorrect, PTL DEF Spec

\* While the service runs, no outcome waits for the next restart to be reported.
THEOREM NoReportStranded == Spec => []NoStrandedReport
<1>1. RecoveryInv /\ ReportInv => NoStrandedReport
  BY DEF RecoveryInv, ReportInv, NoStrandedReport
<1> QED BY <1>1, ReportInvHolds, PTL

\* What is recorded as delivered has been committed by the receiver, and only outcomes
\* of ordinary bots are ever sent.
THEOREM ReportsHold == Spec => []ReportsAreTrue
<1>1. TypeInv /\ ReportInv => ReportsAreTrue
  BY DEF TypeInv, TypeOK, ReportInv, ReportsAreTrue
<1> QED BY <1>1, ReportInvHolds, PTL

\* No late exit, timeout, abort, restart or retry changes a terminal status or takes a
\* delivered report back.
THEOREM TerminalHolds == Spec => TerminalIsFinal
<1>1. TypeInv /\ RecoveryInv /\ ReportInv /\ [Next]_vars =>
        [\A w \in Jobs :
            /\ ~IsLive(w) => row'[w].status = row[w].status
            /\ row[w].notification = "delivered" => row'[w].notification = "delivered"]_vars
  <2> SUFFICES ASSUME TypeInv, RecoveryInv, ReportInv, [Next]_vars, NEW w \in Jobs
               PROVE  /\ ~IsLive(w) => row'[w].status = row[w].status
                      /\ row[w].notification = "delivered" => row'[w].notification = "delivered"
    OBVIOUS
  <2>1. CASE RowsKept
    BY <2>1, ReportInvInductive DEF RowsKept, DeliveredStays, IsLive
  <2>2. CASE \E v \in Worker, r \in Request, ttl \in BOOLEAN : Dispatch(v, r, ttl)
    BY <2>2, DispatchType
  <2> QED BY <2>1, <2>2, StepRows
<1> QED BY <1>1, ReportInvHolds, PTL DEF Spec, TerminalIsFinal
-----------------------------------------------------------------------------
(* Who owns a job and its processes.                                        *)

\* A second launch of a job exists only because a restart relaunched it.
OneLaunchPerService ==
    \A l, m \in Launches : launch[l].worker = launch[m].worker /\ l # m =>
        /\ "lost" \in {launch[l].coroutine, launch[m].coroutine}
        /\ row[launch[l].worker].request.relaunch

\* A process that lives is being watched by the owner of its row, or somebody ends it.
ProcessesHeld ==
    \A l \in Launches :
        /\ launch[l].coroutine = "starting" => launch[l].process = "none" /\ l \notin killing
        /\ launch[l].process = "alive" =>
              \/ launch[l].coroutine \in {"spawned", "lost"}
              \/ active[launch[l].worker] = l
              \/ l \in killing

\* The launch in memory is the one of the row, except for a row that a stopped service
\* has left running.
MemoryAgrees ==
    /\ \A w \in Worker : active[w] # NoLaunch =>
          /\ Owns(w, active[w])
          /\ launch[active[w]].coroutine = "watching"
    /\ mode # "down" =>
          \A w \in Jobs \ todo : row[w].status = "running" => active[w] = row[w].launchId

OwnershipInv == OneLaunchPerService /\ ProcessesHeld /\ MemoryAgrees

\* A step that concerns the job w only keeps what memory knows of the other jobs.
LEMMA MemoryKept ==
    ASSUME TypeInv, MemoryAgrees, NEW w \in Worker, mode' = mode,
           Jobs \subseteq Jobs', Jobs' \subseteq Jobs \cup {w},
           todo' = todo \/ todo' = todo \ {w},
           \A v \in Jobs \ {w} : row'[v] = row[v],
           \A v \in Worker \ {w} : active'[v] = active[v],
           \A m \in Launches : launch[m].worker # w => launch'[m].coroutine = launch[m].coroutine,
           active'[w] # NoLaunch =>
               /\ row'[w].status = "running" /\ row'[w].launchId = active'[w]
               /\ launch'[active'[w]].coroutine = "watching",
           row'[w].status = "running" =>
               active'[w] = row'[w].launchId \/ mode = "down" \/ w \in todo'
    PROVE  MemoryAgrees'
<1>1. ASSUME NEW v \in Worker, v # w, active'[v] # NoLaunch
      PROVE  /\ row'[v].status = "running" /\ row'[v].launchId = active'[v]
             /\ launch'[active'[v]].coroutine = "watching"
  <2>1. v \in Jobs /\ active'[v] = active[v] /\ row'[v] = row[v]
        /\ active[v] \in Launches /\ launch[active[v]].worker = v
    BY <1>1 DEF TypeInv, Linked
  <2> QED BY <1>1, <2>1 DEF MemoryAgrees, Owns
<1>2. mode' # "down" =>
         \A v \in Jobs' \ todo' : row'[v].status = "running" => active'[v] = row'[v].launchId
  BY DEF MemoryAgrees, TypeInv, TypeOK
<1> QED BY <1>1, <1>2 DEF MemoryAgrees, Owns

\* What the conditional updates leave of a row.
LEMMA SettledRow ==
    ASSUME TypeInv, NEW w \in Jobs, NEW status \in Terminal, Settle(w, status)
    PROVE  /\ \A v \in Jobs \ {w} : row'[v] = row[v]
           /\ row'[w].status = status /\ row'[w].launchId = NoLaunch
           /\ row'[w].request = row[w].request
           /\ status # "running"
<1> DEFINE sent == Scheduled(w, "pending")
           next == [row[w] EXCEPT !.status = status, !.launchId = NoLaunch, !.notification = sent]
<1>1. row \in [Jobs -> Row]
  BY DEF TypeInv, TypeOK
<1>2. row' = [row EXCEPT ![w] = next]
  BY <1>1 DEF Settle
<1> HIDE DEF sent
<1>3. next.status = status /\ next.launchId = NoLaunch /\ next.request = row[w].request
  BY <1>1 DEF Row
<1> HIDE DEF next
<1>4. row'[w] = next /\ \A v \in Jobs \ {w} : row'[v] = row[v]
  BY <1>1, <1>2
<1>5. status # "running"
  BY DEF Terminal
<1> QED BY <1>3, <1>4, <1>5

\* A launch that changes its coroutine and leaves the processes and the rows' requests.
LEMMA LaunchesKept ==
    ASSUME TypeInv, OneLaunchPerService, Jobs' = Jobs, Launches' = Launches,
           \A v \in Jobs : row'[v].request = row[v].request,
           \A m \in Launches : /\ launch'[m].worker = launch[m].worker
                               /\ launch[m].coroutine = "lost" => launch'[m].coroutine = "lost"
    PROVE  OneLaunchPerService'
BY DEF OneLaunchPerService, TypeInv, Linked

\* A job that is not running has no launch in memory.
LEMMA QueuedIsUnowned ==
    ASSUME TypeInv, MemoryAgrees, NEW w \in Jobs, row[w].status # "running"
    PROVE  active[w] = NoLaunch
BY DEF MemoryAgrees, Owns, TypeInv, TypeOK

\* What a conditional update does to the row: it closes it, or leaves it.
LEMMA FinishedRow ==
    ASSUME TypeInv, NEW w \in Jobs, NEW status \in Terminal, NEW l,
           FinishQueued(w, status) \/ FinishRunning(w, l, status)
    PROVE  /\ Jobs' = Jobs
           /\ \A v \in Jobs \ {w} : row'[v] = row[v]
           /\ row'[w].request = row[w].request
           /\ row' = row \/ row'[w].status # "running"
<1>1. CASE Settle(w, status)
  BY <1>1, SettledRow, SettleType DEF TypeInv
<1>2. CASE UNCHANGED row
  BY <1>2 DEF Jobs
<1> QED BY <1>1, <1>2 DEF FinishQueued, FinishRunning

LEMMA LaunchStepOwnership ==
    ASSUME TypeInv, RecoveryInv, OwnershipInv, NEW l \in Launches, LaunchStep(l)
    PROVE  OwnershipInv'
<1> DEFINE w == launch[l].worker
<1>0. w \in Jobs /\ w \in Worker /\ l \in Launch /\ l # NoLaunch
  BY NoLaunchAssumption DEF TypeInv, TypeOK, Linked
<1>1. /\ Launches' = Launches /\ mode' = mode /\ todo' = todo
      /\ \A m \in Launches : /\ launch'[m].worker = launch[m].worker
                             /\ m # l => launch'[m] = launch[m]
                             /\ launch[m].coroutine = "lost" => launch'[m].coroutine = "lost"
  <2>1. launch' \in {[launch EXCEPT ![l].coroutine = "spawned", ![l].process = "alive"],
                     [launch EXCEPT ![l].coroutine = "ended"],
                     [launch EXCEPT ![l].coroutine = "watching"],
                     [launch EXCEPT ![l].process = "exited"]}
    BY DEF LaunchStep, Spawn, LaunchFails, MarkRunning, ProcessExited, Kill, Exit
  <2>2. launch[l].coroutine = "lost" => launch' = [launch EXCEPT ![l].process = "exited"]
    BY DEF LaunchStep, Spawn, LaunchFails, MarkRunning, ProcessExited, Kill, Exit
  <2>3. Launches' = Launches /\ \A m \in Launches :
           /\ launch'[m].worker = launch[m].worker /\ (m # l => launch'[m] = launch[m])
           /\ launch[m].coroutine = "lost" => launch'[m].coroutine = "lost"
    BY <2>1, <2>2 DEF TypeInv, TypeOK, Launches, LaunchRecord
  <2> QED BY <2>3 DEF LaunchStep, Spawn, LaunchFails, MarkRunning, ProcessExited, Kill, Exit, service
<1>2. \A m \in Launches : launch[m].worker # w => launch'[m].coroutine = launch[m].coroutine
  BY <1>1 DEF w
<1> HIDE DEF w
<1>3. active[w] # NoLaunch => /\ row[w].status = "running" /\ row[w].launchId = active[w]
                              /\ launch[active[w]].coroutine = "watching" /\ active[w] \in Launches
  BY <1>0 DEF OwnershipInv, MemoryAgrees, Owns, TypeInv, Linked
<1>4. row[w].status = "running" => active[w] = row[w].launchId \/ mode = "down" \/ w \in todo
  BY <1>0 DEF OwnershipInv, MemoryAgrees
<1>5. ASSUME Jobs' = Jobs, \A v \in Jobs : row'[v].request = row[v].request,
             ProcessesHeld', MemoryAgrees'
      PROVE  OwnershipInv'
  BY <1>1, <1>5, LaunchesKept DEF OwnershipInv
<1>6. CASE Spawn(l)
  <2>1. /\ launch[l].coroutine = "starting" /\ UNCHANGED <<row, active, killing>>
        /\ launch'[l].coroutine = "spawned" /\ Jobs' = Jobs
    BY <1>6 DEF Spawn, memory, TypeInv, TypeOK, Launches, LaunchRecord, Jobs
  <2>2. MemoryAgrees'
    BY <1>0, <1>1, <1>2, <1>3, <1>4, <2>1, MemoryKept DEF OwnershipInv
  <2>3. ProcessesHeld'
    BY <1>1, <2>1 DEF OwnershipInv, ProcessesHeld
  <2> QED BY <1>5, <2>1, <2>2, <2>3
<1>7. CASE LaunchFails(l)
  <2>1. /\ launch[l].coroutine = "starting" /\ UNCHANGED <<active, killing>>
        /\ launch'[l].coroutine = "ended" /\ launch'[l].process = launch[l].process
        /\ FinishQueued(w, "failed")
    BY <1>7 DEF LaunchFails, w, TypeInv, TypeOK, Launches, LaunchRecord
  <2>2. /\ Jobs' = Jobs /\ \A v \in Jobs \ {w} : row'[v] = row[v]
        /\ row'[w].request = row[w].request
        /\ row[w].status = "running" => row' = row
        /\ row' = row \/ row'[w].status # "running"
    BY <1>0, <2>1, FinishedRow DEF Terminal, FinishQueued
  <2>3. MemoryAgrees'
    BY <1>0, <1>1, <1>2, <1>3, <1>4, <2>1, <2>2, MemoryKept DEF OwnershipInv
  <2>4. ProcessesHeld'
    BY <1>1, <2>1 DEF OwnershipInv, ProcessesHeld
  <2> QED BY <1>5, <2>2, <2>3, <2>4
<1>8. CASE MarkRunning(l) /\ ClaimsRow(w)
  <2>1. /\ row' = [row EXCEPT ![w].status = "running", ![w].launchId = l]
        /\ active' = [active EXCEPT ![w] = l] /\ UNCHANGED killing
        /\ launch'[l].coroutine = "watching" /\ row[w].status = "queued"
    BY <1>8 DEF MarkRunning, ClaimsRow, w, TypeInv, TypeOK, Launches, LaunchRecord
  <2>2. /\ Jobs' = Jobs /\ \A v \in Jobs \ {w} : row'[v] = row[v]
        /\ row'[w].request = row[w].request
        /\ row'[w].status = "running" /\ row'[w].launchId = l
    BY <1>0, <2>1 DEF TypeInv, TypeOK, Jobs, Row
  <2>3. active'[w] = l /\ active[w] = NoLaunch /\ \A v \in Worker \ {w} : active'[v] = active[v]
    BY <1>0, <1>3, <2>1 DEF TypeInv, TypeOK
  <2>4. MemoryAgrees'
    <3>1. /\ row'[w].status = "running" /\ row'[w].launchId = active'[w]
          /\ launch'[active'[w]].coroutine = "watching"
      BY <2>1, <2>2, <2>3
    <3> QED BY <1>0, <1>1, <1>2, <2>2, <2>3, <3>1, MemoryKept DEF OwnershipInv
  <2>5. ProcessesHeld'
    <3>1. \A m \in Launches : m # l /\ active[launch[m].worker] = m => active'[launch[m].worker] = m
      BY <2>3, NoLaunchAssumption DEF TypeInv, TypeOK, LaunchRecord
    <3> QED BY <1>0, <1>1, <2>1, <2>3, <3>1 DEF OwnershipInv, ProcessesHeld, w
  <2> QED BY <1>5, <2>2, <2>4, <2>5
<1>9. CASE MarkRunning(l) /\ ~ClaimsRow(w)
  <2>1. /\ UNCHANGED <<row, active>> /\ killing' = killing \cup {l} /\ Jobs' = Jobs
        /\ launch[l].coroutine = "spawned" /\ launch'[l].coroutine = "ended"
    BY <1>9 DEF MarkRunning, AbandonProcess, w, TypeInv, TypeOK, Launches, LaunchRecord, Jobs
  <2>2. MemoryAgrees'
    BY <1>0, <1>1, <1>2, <1>3, <1>4, <2>1, MemoryKept DEF OwnershipInv
  <2>3. ProcessesHeld'
    BY <1>1, <2>1 DEF OwnershipInv, ProcessesHeld
  <2> QED BY <1>5, <2>1, <2>2, <2>3
<1>10. ASSUME NEW status \in {"completed", "failed"}, ProcessExited(l, status)
       PROVE  OwnershipInv'
  <2>1. /\ launch[l].coroutine = "watching" /\ launch[l].process = "exited"
        /\ launch'[l].coroutine = "ended" /\ launch'[l].process = "exited"
        /\ active' = [active EXCEPT ![w] = IF @ = l THEN NoLaunch ELSE @]
        /\ FinishRunning(w, l, status) /\ UNCHANGED killing
    BY <1>10 DEF ProcessExited, w, TypeInv, TypeOK, Launches, LaunchRecord
  <2>2. /\ Jobs' = Jobs /\ \A v \in Jobs \ {w} : row'[v] = row[v]
        /\ row'[w].request = row[w].request
        /\ row' = row \/ row'[w].status # "running"
    BY <1>0, <2>1, FinishedRow DEF Terminal
  <2>3. active[w] = l => Owns(w, l) /\ row'[w].status # "running"
    <3>1. ASSUME active[w] = l PROVE Owns(w, l) /\ Settle(w, status)
      BY <1>0, <2>1, <3>1 DEF OwnershipInv, MemoryAgrees, FinishRunning
    <3> QED BY <1>0, <3>1, SettledRow DEF Terminal
  <2>4. active[w] # l => row' = row
    <3>1. Idle(w) => FALSE
      BY <2>1 DEF Idle, w
    <3>2. w \notin todo /\ mode # "down"
      BY <1>0, <3>1 DEF RecoveryInv
    <3> QED BY <1>0, <1>4, <2>1, <3>2 DEF FinishRunning, Owns
  <2>5. \A v \in Worker : active'[v] = IF v = w /\ active[w] = l THEN NoLaunch ELSE active[v]
    BY <1>0, <2>1 DEF TypeInv, TypeOK
  <2>6. MemoryAgrees'
    BY <1>0, <1>1, <1>2, <1>3, <1>4, <2>2, <2>3, <2>4, <2>5, MemoryKept DEF OwnershipInv, MemoryAgrees, Owns
  <2>7. ProcessesHeld'
    <3>1. \A m \in Launches : m # l /\ active[launch[m].worker] = m => active'[launch[m].worker] = m
      BY <2>5 DEF TypeInv, TypeOK, LaunchRecord
    <3> QED BY <1>0, <1>1, <2>1, <3>1 DEF OwnershipInv, ProcessesHeld
  <2> QED BY <1>5, <2>2, <2>6, <2>7
<1>11. CASE Kill(l) \/ Exit(l)
  <2>1. /\ launch'[l].process = "exited" /\ launch'[l].coroutine = launch[l].coroutine
        /\ UNCHANGED <<row, active>> /\ Jobs' = Jobs
        /\ killing \ {l} \subseteq killing' /\ killing' \subseteq killing
    BY <1>11 DEF Kill, Exit, memory, TypeInv, TypeOK, Launches, LaunchRecord, Jobs
  <2>2. launch[l].coroutine # "starting"
    BY <1>11 DEF Kill, Exit, OwnershipInv, ProcessesHeld
  <2>3. MemoryAgrees'
    BY <1>0, <1>1, <1>2, <1>3, <1>4, <2>1, MemoryKept DEF OwnershipInv, MemoryAgrees, Owns
  <2>4. ProcessesHeld'
    BY <1>1, <2>1, <2>2 DEF OwnershipInv, ProcessesHeld
  <2> QED BY <1>5, <2>1, <2>3, <2>4
<1> QED BY <1>6, <1>7, <1>8, <1>9, <1>10, <1>11 DEF LaunchStep, w, MarkRunning

\* A fresh launch of a job whose other launches are lost to an earlier service.
LEMMA FreshLaunchOwnership ==
    ASSUME TypeInv, OwnershipInv, NEW w \in Worker, StartLaunch(w),
           UNCHANGED <<active, killing, mode>>, todo' = todo \/ todo' = todo \ {w},
           Jobs' = Jobs \cup {w}, \A v \in Jobs \ {w} : row'[v] = row[v],
           \A v \in Jobs : row'[v].request = row[v].request,
           row'[w].status = "queued", active[w] = NoLaunch,
           \A l \in Launches : launch[l].worker = w =>
               launch[l].coroutine = "lost" /\ row'[w].request.relaunch
    PROVE  OwnershipInv'
<1>1. PICK n \in Launch \ Launches :
        launch' = [m \in Launches \cup {n} |->
                     IF m = n THEN [worker |-> w, coroutine |-> "starting", process |-> "none"]
                              ELSE launch[m]]
  BY DEF StartLaunch
<1>2. /\ Launches' = Launches \cup {n} /\ n \notin Launches /\ n \notin killing
      /\ \A m \in Launches : launch'[m] = launch[m] /\ launch[m].worker \in Jobs
      /\ launch'[n].worker = w /\ launch'[n].coroutine = "starting" /\ launch'[n].process = "none"
  BY <1>1 DEF Launches, TypeInv, TypeOK, Linked
<1>3. OneLaunchPerService'
  <2> SUFFICES ASSUME NEW l \in Launches', NEW m \in Launches', launch'[l].worker = launch'[m].worker, l # m
               PROVE  /\ "lost" \in {launch'[l].coroutine, launch'[m].coroutine}
                      /\ row'[launch'[l].worker].request.relaunch
    BY DEF OneLaunchPerService
  <2>1. CASE l \in Launches /\ m \in Launches
    BY <1>2, <2>1 DEF OwnershipInv, OneLaunchPerService
  <2>2. CASE l = n /\ m \in Launches
    BY <1>2, <2>2
  <2>3. CASE m = n /\ l \in Launches
    BY <1>2, <2>3
  <2> QED BY <1>2, <2>1, <2>2, <2>3
<1>4. ProcessesHeld'
  BY <1>2 DEF OwnershipInv, ProcessesHeld
<1>5. MemoryAgrees'
  <2>1. \A m \in Launches : launch[m].worker # w => launch'[m].coroutine = launch[m].coroutine
    BY <1>2
  <2> QED BY <2>1, MemoryKept DEF OwnershipInv
<1> QED BY <1>3, <1>4, <1>5 DEF OwnershipInv

\* A job is closed, and its launch, if memory has it, is handed to safeAbort.
LEMMA ReleaseOwnership ==
    ASSUME TypeInv, OwnershipInv, NEW w \in Jobs, UNCHANGED <<launch, mode>>,
           todo' = todo \/ todo' = todo \ {w},
           Jobs' = Jobs, \A v \in Jobs \ {w} : row'[v] = row[v],
           row'[w].request = row[w].request, row'[w].status # "running",
           \A v \in Worker \ {w} : active'[v] = active[v], active'[w] = NoLaunch,
           killing \subseteq killing', active[w] # NoLaunch => active[w] \in killing',
           killing' \subseteq killing \cup {active[w]}
    PROVE  OwnershipInv'
<1>1. w \in Worker /\ Launches' = Launches
  BY DEF TypeInv, TypeOK, Launches
<1>2. OneLaunchPerService'
  BY <1>1, LaunchesKept DEF OwnershipInv
<1>3. ProcessesHeld'
  <2> SUFFICES ASSUME NEW l \in Launches
               PROVE  /\ launch[l].coroutine = "starting" => launch[l].process = "none" /\ l \notin killing'
                      /\ launch[l].process = "alive" =>
                            \/ launch[l].coroutine \in {"spawned", "lost"}
                            \/ active'[launch[l].worker] = l
                            \/ l \in killing'
    BY <1>1 DEF ProcessesHeld
  <2>1. l # NoLaunch /\ launch[l].worker \in Worker
    BY NoLaunchAssumption DEF TypeInv, TypeOK, LaunchRecord
  <2>2. active[w] # NoLaunch => launch[active[w]].coroutine = "watching"
    BY <1>1 DEF OwnershipInv, MemoryAgrees
  <2>3. launch[l].coroutine = "starting" => launch[l].process = "none" /\ l \notin killing'
    BY <2>1, <2>2 DEF OwnershipInv, ProcessesHeld
  <2>4. active[launch[l].worker] = l => active'[launch[l].worker] = l \/ l \in killing'
    BY <2>1
  <2> QED BY <2>3, <2>4 DEF OwnershipInv, ProcessesHeld
<1>4. MemoryAgrees'
  BY <1>1, MemoryKept DEF OwnershipInv
<1> QED BY <1>2, <1>3, <1>4 DEF OwnershipInv

\* A step that leaves status, owner and request of every row alone.
LEMMA QuietOwnership ==
    ASSUME TypeInv, OwnershipInv, UNCHANGED <<launch, active, killing, mode>>, todo' \subseteq todo,
           Jobs' = Jobs,
           \A v \in Jobs : /\ row'[v].request = row[v].request
                           /\ row'[v].status = row[v].status
                           /\ row'[v].launchId = row[v].launchId,
           \A v \in todo \ todo' : row[v].status # "running"
    PROVE  OwnershipInv'
<1>1. OneLaunchPerService'
  BY LaunchesKept DEF OwnershipInv, Launches
<1>2. ProcessesHeld'
  BY DEF OwnershipInv, ProcessesHeld, Launches
<1>3. MemoryAgrees'
  BY DEF OwnershipInv, MemoryAgrees, Owns, TypeInv, TypeOK, Linked
<1> QED BY <1>1, <1>2, <1>3 DEF OwnershipInv

LEMMA JobStepOwnership ==
    ASSUME TypeInv, RecoveryInv, OwnershipInv, NEW w \in Worker, JobStep(w)
    PROVE  OwnershipInv'
<1>1. ASSUME NEW r \in Request, NEW ttl \in BOOLEAN, Dispatch(w, r, ttl)
      PROVE  OwnershipInv'
  <2>1. /\ Jobs' = Jobs \cup {w} /\ row'[w] = NewRow(r) /\ w \notin Jobs
        /\ \A v \in Jobs : row'[v] = row[v]
        /\ StartLaunch(w) /\ UNCHANGED <<active, killing, mode, todo>>
    BY <1>1, DispatchType DEF Dispatch, memory, service
  <2>2. row'[w].status = "queued"
    BY <2>1 DEF NewRow
  <2>3. active[w] = NoLaunch /\ \A l \in Launches : launch[l].worker # w
    BY <2>1 DEF TypeInv, Linked
  <2> QED BY <2>1, <2>2, <2>3, FreshLaunchOwnership
<1>2. CASE AbortQueued(w)
  <2>1. w \in Jobs /\ Settle(w, "aborted") /\ row[w].status = "queued"
        /\ UNCHANGED <<launch, active, killing, mode, todo>>
    BY <1>2 DEF AbortQueued, FinishQueued, service
  <2>2. /\ Jobs' = Jobs /\ \A v \in Jobs \ {w} : row'[v] = row[v]
        /\ row'[w].request = row[w].request /\ row'[w].status # "running"
    BY <2>1, SettledRow, SettleType DEF Terminal, TypeInv
  <2>3. active[w] = NoLaunch
    BY <2>1, QueuedIsUnowned DEF OwnershipInv
  <2> QED BY <2>1, <2>2, <2>3, ReleaseOwnership
<1>3. CASE AbortRunning(w)
  <2>1. /\ w \in Jobs /\ mode = "up" /\ row[w].status = "running"
        /\ UNCHANGED <<launch, mode, todo>>
    BY <1>3 DEF AbortRunning, service
  <2>2. active[w] = row[w].launchId
    BY <2>1 DEF OwnershipInv, MemoryAgrees, RecoveryInv
  <2>3. /\ active' = [active EXCEPT ![w] = NoLaunch] /\ killing' = killing \cup {active[w]}
        /\ Settle(w, "aborted")
    BY <1>3, <2>2 DEF AbortRunning
  <2>4. /\ Jobs' = Jobs /\ \A v \in Jobs \ {w} : row'[v] = row[v]
        /\ row'[w].request = row[w].request /\ row'[w].status # "running"
    BY <2>1, <2>3, SettledRow, SettleType DEF Terminal, TypeInv
  <2>5. active'[w] = NoLaunch /\ \A v \in Worker \ {w} : active'[v] = active[v]
    BY <2>3 DEF TypeInv, TypeOK
  <2> QED BY <2>1, <2>3, <2>4, <2>5, ReleaseOwnership
<1>4. CASE ExpireRunning(w)
  <2>1. /\ active[w] # NoLaunch /\ active' = [active EXCEPT ![w] = NoLaunch]
        /\ killing' = killing \cup {active[w]} /\ UNCHANGED <<launch, mode, todo>>
        /\ FinishRunning(w, active[w], "timed_out")
    BY <1>4 DEF ExpireRunning, service
  <2>2. w \in Jobs /\ Owns(w, active[w])
    BY <2>1 DEF OwnershipInv, MemoryAgrees, TypeInv, Linked
  <2>3. /\ Jobs' = Jobs /\ \A v \in Jobs \ {w} : row'[v] = row[v]
        /\ row'[w].request = row[w].request /\ row'[w].status # "running"
    BY <2>1, <2>2, SettledRow, SettleType DEF Terminal, TypeInv, FinishRunning
  <2>4. active'[w] = NoLaunch /\ \A v \in Worker \ {w} : active'[v] = active[v]
    BY <2>1 DEF TypeInv, TypeOK
  <2> QED BY <2>1, <2>2, <2>3, <2>4, ReleaseOwnership
<1>5. CASE ClaimNotification(w)
  <2>1. /\ w \in Jobs /\ UNCHANGED <<launch, active, killing, mode, todo>>
        /\ row' = row \/ row' = [row EXCEPT ![w].notification = "sending"]
    BY <1>5 DEF ClaimNotification, TypeInv, TypeOK, service
  <2>2. Jobs' = Jobs /\ \A v \in Jobs : /\ row'[v].request = row[v].request
                                        /\ row'[v].status = row[v].status
                                        /\ row'[v].launchId = row[v].launchId
    BY <2>1 DEF TypeInv, TypeOK, Jobs, Row
  <2> QED BY <2>1, <2>2, QuietOwnership
<1>6. CASE RecoverJob(w)
  <2>1. /\ w \in todo /\ w \in Jobs /\ todo' = todo \ {w} /\ Idle(w)
        /\ UNCHANGED <<active, killing, mode>>
    BY <1>6 DEF RecoverJob, RecoveryInv, TypeInv, TypeOK
  <2>2. CASE /\ row[w].request.relaunch /\ StartLaunch(w)
             /\ row' = [row EXCEPT ![w].status = "queued", ![w].launchId = NoLaunch]
    <3>1. Jobs' = Jobs \cup {w} /\ (\A v \in Jobs \ {w} : row'[v] = row[v])
          /\ row'[w].request = row[w].request /\ row'[w].status = "queued"
      BY <2>1, <2>2 DEF TypeInv, TypeOK, Jobs, Row
    <3> QED BY <2>1, <2>2, <3>1, FreshLaunchOwnership DEF Idle
  <2>3. CASE Settle(w, "recovery_required") /\ UNCHANGED launch
    <3>1. /\ Jobs' = Jobs /\ \A v \in Jobs \ {w} : row'[v] = row[v]
          /\ row'[w].request = row[w].request /\ row'[w].status # "running"
      BY <2>1, <2>3, SettledRow, SettleType DEF Terminal, TypeInv
    <3> QED BY <2>1, <2>3, <3>1, ReleaseOwnership DEF Idle
  <2>4. CASE /\ ~RestartCandidate(w) /\ UNCHANGED launch
             /\ row' = row \/ \E state : row' = [row EXCEPT ![w].notification = state]
    <3>1. Jobs' = Jobs /\ \A v \in Jobs : /\ row'[v].request = row[v].request
                                          /\ row'[v].status = row[v].status
                                          /\ row'[v].launchId = row[v].launchId
      BY <2>1, <2>4 DEF TypeInv, TypeOK, Jobs, Row
    <3>2. row[w].status # "running"
      BY <2>4 DEF RestartCandidate, IsLive, Live
    <3> QED BY <2>1, <2>4, <3>1, <3>2, QuietOwnership
  <2> QED BY <1>6, <2>2, <2>3, <2>4 DEF RecoverJob
<1> QED BY <1>1, <1>2, <1>3, <1>4, <1>5, <1>6 DEF JobStep

LEMMA OwnershipInvInductive == TypeInv /\ RecoveryInv /\ OwnershipInv /\ [Next]_vars => OwnershipInv'
<1> SUFFICES ASSUME TypeInv, RecoveryInv, OwnershipInv, [Next]_vars PROVE OwnershipInv'
  OBVIOUS
<1>1. ASSUME NEW w \in Worker, CallbackStep(w) PROVE OwnershipInv'
  <2>1. w \in Jobs /\ UNCHANGED <<launch, active, killing, mode, todo>>
    BY <1>1 DEF CallbackStep, Accept, MarkDelivered, NotifyResolves, RecordDelivered, MarkFailed,
                memory, service, TypeInv, TypeOK
  <2>2. row' = row \/ \E state : row' = [row EXCEPT ![w].notification = state]
    BY <1>1 DEF CallbackStep, Accept, MarkDelivered, RecordDelivered, MarkFailed
  <2>3. Jobs' = Jobs /\ \A v \in Jobs : /\ row'[v].request = row[v].request
                                        /\ row'[v].status = row[v].status
                                        /\ row'[v].launchId = row[v].launchId
    BY <2>1, <2>2 DEF TypeInv, TypeOK, Jobs, Row
  <2> QED BY <2>1, <2>3, QuietOwnership
<1>2. CASE Crash
  <2>1. /\ mode' = "down" /\ active' = [w \in Worker |-> NoLaunch] /\ UNCHANGED row
        /\ Launches' = Launches /\ Jobs' = Jobs
        /\ \A l \in Launches : /\ launch'[l].worker = launch[l].worker
                               /\ launch'[l].coroutine = "lost"
                               /\ launch'[l].process = launch[l].process
    BY <1>2 DEF Crash, Launches, Jobs, TypeInv, TypeOK, LaunchRecord
  <2>2. OneLaunchPerService'
    BY <2>1, LaunchesKept DEF OwnershipInv
  <2> QED BY <2>1, <2>2 DEF OwnershipInv, ProcessesHeld, MemoryAgrees
<1>3. CASE Restart
  <2>1. todo' = Jobs /\ Jobs' = Jobs /\ Launches' = Launches /\ UNCHANGED <<row, launch, active, killing>>
    BY <1>3 DEF Restart, memory, Jobs, Launches
  <2> QED BY <2>1 DEF OwnershipInv, OneLaunchPerService, ProcessesHeld, MemoryAgrees, Owns
<1>4. CASE Listen \/ UNCHANGED vars
  <2>1. Jobs' = Jobs /\ Launches' = Launches /\ UNCHANGED <<row, launch, active, killing, todo>>
        /\ (mode' # "down" => mode # "down")
    BY <1>4 DEF Listen, vars, memory, service, Jobs, Launches
  <2> QED BY <2>1 DEF OwnershipInv, OneLaunchPerService, ProcessesHeld, MemoryAgrees, Owns
<1> QED BY <1>1, <1>2, <1>3, <1>4, LaunchStepOwnership, JobStepOwnership DEF Next

LEMMA OwnershipInvHolds == Spec => [](TypeInv /\ RecoveryInv /\ OwnershipInv)
<1>1. Init => OwnershipInv
  BY DEF Init, OwnershipInv, OneLaunchPerService, ProcessesHeld, MemoryAgrees, Jobs, Launches
<1> QED BY <1>1, OwnershipInvInductive, ReportInvHolds, PTL DEF Spec

\* No process of the present service is left unsupervised, and a job only has two processes
\* when one of them outlived an earlier service and the caller declared it idempotent.
THEOREM NoStrayHolds == Spec => []NoStrayProcess
<1>1. TypeInv /\ OwnershipInv => NoStrayProcess
  BY DEF OwnershipInv, OneLaunchPerService, ProcessesHeld, NoStrayProcess
<1> QED BY <1>1, OwnershipInvHolds, PTL

\* Once the service listens, every running job has its launch, its timers and its completion
\* callback in memory: none can occupy the quota for ever, and abort never has to refuse.
THEOREM RunningOwnedHolds == Spec => []RunningIsOwned
<1>1. TypeInv /\ RecoveryInv /\ OwnershipInv => RunningIsOwned
  <2> SUFFICES ASSUME TypeInv, RecoveryInv, OwnershipInv, mode = "up",
                      NEW w \in Jobs, row[w].status = "running"
               PROVE  /\ active[w] = row[w].launchId /\ active[w] \in Launches
                      /\ launch[active[w]].coroutine = "watching"
                      /\ launch[active[w]].worker = w
    BY DEF RunningIsOwned
  <2>1. active[w] = row[w].launchId /\ w \in Worker /\ row[w].launchId \in Launches
    BY DEF RecoveryInv, OwnershipInv, MemoryAgrees, TypeInv, TypeOK, Linked
  <2>2. active[w] # NoLaunch
    BY <2>1, NoLaunchAssumption DEF TypeInv, TypeOK
  <2> QED BY <2>1, <2>2 DEF OwnershipInv, MemoryAgrees, TypeInv, Linked
<1> QED BY <1>1, OwnershipInvHolds, PTL

-----------------------------------------------------------------------------
(* The refinement of JobPromise.                                            *)

\* A step changes one row at most, and none while the receiver commits.
LEMMA OneRowChanges ==
    ASSUME TypeInv, [Next]_vars
    PROVE  \/ row' = row
           \/ /\ accepted' = accepted
              /\ \E w \in Worker : /\ Jobs \subseteq Jobs' /\ Jobs' \subseteq Jobs \cup {w}
                                   /\ \A v \in Jobs \ {w} : row'[v] = row[v]
<1> DEFINE Only(w) == /\ accepted' = accepted
                      /\ Jobs \subseteq Jobs' /\ Jobs' \subseteq Jobs \cup {w}
                      /\ \A v \in Jobs \ {w} : row'[v] = row[v]
<1>1. ASSUME NEW w \in Jobs, NEW status, Settle(w, status), accepted' = accepted PROVE Only(w)
  BY <1>1 DEF Settle, TypeInv, TypeOK, Jobs
<1>2. ASSUME NEW l \in Launches, LaunchStep(l) PROVE row' = row \/ \E w \in Worker : Only(w)
  <2> DEFINE w == launch[l].worker
  <2>0. w \in Jobs /\ w \in Worker
    BY DEF TypeInv, TypeOK, Linked
  <2>1. accepted' = accepted
    BY <1>2 DEF LaunchStep, Spawn, LaunchFails, MarkRunning, ProcessExited, Kill, Exit, receiver
  <2>2. \/ row' = row \/ (\E status : Settle(w, status))
        \/ row' = [row EXCEPT ![w].status = "running", ![w].launchId = l]
    BY <1>2 DEF LaunchStep, Spawn, LaunchFails, MarkRunning, ProcessExited, Kill, Exit,
                FinishQueued, FinishRunning
  <2> HIDE DEF w
  <2>3. row' = [row EXCEPT ![w].status = "running", ![w].launchId = l] => Only(w)
    BY <2>0, <2>1 DEF TypeInv, TypeOK, Jobs
  <2> QED BY <1>1, <2>0, <2>1, <2>2, <2>3
<1>3. ASSUME NEW w \in Worker, JobStep(w) \/ CallbackStep(w), ~Accept(w) PROVE row' = row \/ Only(w)
  <2>1. accepted' = accepted
    BY <1>3 DEF JobStep, CallbackStep, Dispatch, AbortQueued, AbortRunning, ExpireRunning,
                ClaimNotification, RecoverJob, MarkDelivered, RecordDelivered, MarkFailed, receiver
  <2>2. CASE \E r \in Request, ttl \in BOOLEAN : Dispatch(w, r, ttl)
    BY <2>1, <2>2, DispatchType
  <2>3. \/ row' = row \/ (\E status : Settle(w, status))
        \/ (\E state : row' = [row EXCEPT ![w].notification = state])
        \/ row' = [row EXCEPT ![w].status = "queued", ![w].launchId = NoLaunch]
        \/ \E r \in Request, ttl \in BOOLEAN : Dispatch(w, r, ttl)
    BY <1>3 DEF JobStep, CallbackStep, AbortQueued, AbortRunning, ExpireRunning, FinishQueued,
                FinishRunning, ClaimNotification, RecoverJob, MarkDelivered, RecordDelivered, MarkFailed
  <2>4. row' # row => w \in Jobs \/ \E r \in Request, ttl \in BOOLEAN : Dispatch(w, r, ttl)
    BY <1>3 DEF JobStep, CallbackStep, AbortQueued, AbortRunning, ExpireRunning, ClaimNotification,
                RecoverJob, MarkDelivered, NotifyResolves, MarkFailed, TypeInv, TypeOK, Linked
  <2>5. ASSUME w \in Jobs, NEW state, row' = [row EXCEPT ![w].notification = state] PROVE Only(w)
    BY <2>1, <2>5 DEF TypeInv, TypeOK, Jobs
  <2>6. ASSUME w \in Jobs, row' = [row EXCEPT ![w].status = "queued", ![w].launchId = NoLaunch]
        PROVE  Only(w)
    BY <2>1, <2>6 DEF TypeInv, TypeOK, Jobs
  <2> QED BY <1>1, <2>1, <2>2, <2>3, <2>4, <2>5, <2>6
<1>4. ASSUME (\E w \in Worker : Accept(w)) \/ Crash \/ Restart \/ Listen \/ UNCHANGED vars
      PROVE  row' = row
  BY <1>4 DEF Accept, Crash, Restart, Listen, vars
<1> QED BY <1>2, <1>3, <1>4 DEF Next

\* Opening a job, closing it, or recording its report: each is one step of the promise, and
\* no step does two of them.
LEMMA PromiseStep ==
    ASSUME TypeInv, RecoveryInv, ReportInv, [Next]_vars
    PROVE  [Promise!Next]_(Promise!vars)
<1>0. TypeInv' /\ ReportInv' /\ DeliveredStays
  BY ReportInvInductive, LaunchStepType, JobStepType, ServiceStepType DEF Next
<1>1. CASE row' = row
  BY <1>1 DEF PromiseState, PromiseTold, IsLive, IsArc, Jobs, Promise!vars
<1>2. ASSUME NEW w \in Worker, NEW r \in Request, NEW ttl \in BOOLEAN, Dispatch(w, r, ttl)
      PROVE  Promise!Submit(w)
  <2>1. /\ Jobs' = Jobs \cup {w} /\ w \notin Jobs /\ \A v \in Jobs : row'[v] = row[v]
        /\ row'[w].status = "queued" /\ row'[w].notification = "pending"
    BY <1>2, DispatchType DEF Dispatch, NewRow
  <2>2. PromiseState' = [PromiseState EXCEPT ![w] = "open"] /\ PromiseState[w] = "none"
    BY <2>1 DEF PromiseState, IsLive, Live
  <2>3. PromiseTold' = PromiseTold
    BY <2>1 DEF PromiseTold, IsArc
  <2> QED BY <2>2, <2>3 DEF Promise!Submit
<1>3. CASE RowsKept /\ row' # row
  <2>1. PICK w \in Worker : \A v \in Jobs \ {w} : row'[v] = row[v]
    BY <1>3, OneRowChanges
  <2>2. accepted' = accepted /\ Jobs' = Jobs
    BY <1>3, OneRowChanges DEF RowsKept
  <2>3. ASSUME w \in Jobs, PromiseState'[w] = PromiseState[w] PROVE PromiseState' = PromiseState
    BY <2>1, <2>2, <2>3 DEF PromiseState, IsLive
  <2>4. ASSUME w \in PromiseTold <=> w \in PromiseTold' PROVE PromiseTold' = PromiseTold
    BY <2>1, <2>2, <2>4 DEF PromiseTold, IsArc
  <2>5. CASE w \notin Jobs
    BY <2>1, <2>2, <2>5 DEF PromiseState, PromiseTold, IsLive, IsArc, Promise!vars
  <2>6. CASE w \in Jobs /\ IsLive(w) /\ IsLive(w)'
    <3>1. w \notin PromiseTold /\ w \notin PromiseTold'
      BY <1>0, <2>2, <2>6 DEF PromiseTold, ReportInv
    <3>2. PromiseState'[w] = PromiseState[w]
      BY <2>2, <2>6 DEF PromiseState, TypeInv, TypeOK
    <3> QED BY <2>3, <2>4, <2>6, <3>1, <3>2 DEF Promise!vars
  <2>7. CASE w \in Jobs /\ IsLive(w) /\ ~IsLive(w)'
    <3>1. w \notin PromiseTold /\ w \notin PromiseTold'
      <4>1. w \notin accepted'
        BY <2>2, <2>7 DEF ReportInv, TypeInv, TypeOK
      <4> QED BY <1>0, <2>2, <2>7, <4>1 DEF PromiseTold, ReportInv
    <3>2. row'[w].status \in Terminal
      BY <1>0, <2>2, <2>7 DEF TypeInv, TypeOK, Row, IsLive
    <3>3. PromiseState[w] = "open" /\ PromiseState' = [PromiseState EXCEPT ![w] = row'[w].status]
      <4>1. PromiseState[w] = "open" /\ PromiseState'[w] = row'[w].status
        BY <2>2, <2>7 DEF PromiseState
      <4>2. \A v \in Worker \ {w} : PromiseState'[v] = PromiseState[v]
        BY <2>1, <2>2 DEF PromiseState, IsLive
      <4>3. PromiseState' = [v \in Worker |-> PromiseState'[v]] /\ DOMAIN PromiseState = Worker
        BY DEF PromiseState
      <4> QED BY <4>1, <4>2, <4>3
    <3>4. Promise!Close(w, row'[w].status)
      BY <2>4, <3>1, <3>3 DEF Promise!Close
    <3> QED BY <3>2, <3>4 DEF Promise!Next
  <2>8. CASE w \in Jobs /\ ~IsLive(w)
    <3>1. row'[w].status = row[w].status /\ row'[w].request = row[w].request
      BY <1>3, <2>8 DEF RowsKept, IsLive
    <3>2. PromiseState'[w] = PromiseState[w] /\ PromiseState[w] \in Terminal
      BY <2>2, <2>8, <3>1 DEF PromiseState, IsLive, TypeInv, TypeOK, Row
    <3>3. PromiseState' = PromiseState
      BY <2>3, <2>8, <3>2
    <3>4. CASE w \in PromiseTold
      <4>1. w \in PromiseTold'
        BY <1>0, <2>2, <3>1, <3>4 DEF PromiseTold, IsArc, DeliveredStays
      <4> QED BY <2>4, <3>3, <3>4, <4>1 DEF Promise!vars
    <3>5. CASE w \notin PromiseTold /\ w \in PromiseTold'
      <4>1. \A v \in Jobs \ {w} : v \in PromiseTold' <=> v \in PromiseTold
        BY <2>1, <2>2 DEF PromiseTold, IsArc
      <4>2. PromiseTold \subseteq Jobs /\ PromiseTold' \subseteq Jobs
        BY <2>2 DEF PromiseTold
      <4>3. PromiseTold' = PromiseTold \cup {w}
        BY <3>5, <4>1, <4>2
      <4>4. Promise!Tell(w)
        BY <3>2, <3>3, <3>5, <4>3 DEF Promise!Tell
      <4> QED BY <4>4 DEF Promise!Next
    <3>6. CASE w \notin PromiseTold /\ w \notin PromiseTold'
      BY <2>4, <3>3, <3>6 DEF Promise!vars
    <3> QED BY <3>4, <3>5, <3>6
  <2> QED BY <2>5, <2>6, <2>7, <2>8
<1> QED BY <1>1, <1>2, <1>3, StepRows DEF Promise!Next

\* Whatever the order of launches, exits, timeouts, aborts, restarts and retries, a job gets
\* one outcome, keeps it, and is then reported: the runner implements JobPromise.
THEOREM PromiseHolds == Spec => PromiseKept
<1>1. Init => Promise!Init
  BY DEF Init, PromiseState, PromiseTold, Jobs, Promise!Init
<1>2. TypeInv /\ RecoveryInv /\ ReportInv /\ [Next]_vars => [Promise!Next]_(Promise!vars)
  BY PromiseStep
<1> QED BY <1>1, <1>2, ReportInvHolds, PTL DEF Spec, PromiseKept, Promise!Spec
=============================================================================
