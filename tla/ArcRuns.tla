------------------------------ MODULE ArcRuns ------------------------------
(***************************************************************************)
(* The life of one ARC run: the coordinator of arc-mcp-service             *)
(* (coordinator.ts, run-store.ts), which keeps the row of the run; the     *)
(* client of the detached supervisor (official-supervisor.ts), which knows *)
(* it by its files and signals only; and the supervisor itself             *)
(* (official-supervisor-cli.ts) with the official pipeline, its child.     *)
(*                                                                         *)
(* The service is one thread.  Its code between two awaits that wait for   *)
(* time is a turn; inside a turn the supervisor may run, and the service   *)
(* may die, between any two writes, which are the steps.  The supervisor   *)
(* and the pipeline survive the service.  Requests for another run, or     *)
(* with a used key, change nothing and are left out.                       *)
(***************************************************************************)
EXTENDS Naturals

CONSTANTS
    Calls,        \* slots for tool calls that are in progress
    MaxFaults     \* bound: deaths, reboots, late registrations and failed writes, together

ASSUME ArcAssumption ==
    /\ Calls \cap {"launch", "collect", "recover"} = {}
    /\ MaxFaults \in Nat

VARIABLES
    daemon,   \* arc-mcp-service: down, recovering (it does not listen yet) or up
    row,      \* the run's row: its status, and whether it has a runner_handle
    task,     \* where each asynchronous function of the service is
    file,     \* the files of the run
    gate,     \* the gate the pipeline waits at, as its files tell
    sup,      \* the detached supervisor, and the status writeState has read
    child,    \* the pipeline
    group,    \* the supervisor's process group: stopped (SIGSTOP), termed (SIGTERM was sent)
    spawns,   \* supervisors spawned so far (history)
    cut,      \* the service died after it changed a file and before its signal (history)
    faults

vars == <<daemon, row, task, file, gate, sup, child, group, spawns, cut, faults>>
service == <<daemon, row, task>>
processes == <<sup, child, group>>
history == <<spawns, cut, faults>>

Tasks == {"launch", "collect", "recover"} \cup Calls

Ended == {"completed", "partial", "failed"}
Terminal == Ended \cup {"cancelled"}
Over == row.status \in Terminal

\* Where a turn goes on after a write; elsewhere a task waits.
Midway == {"request", "spawn", "control", "stop", "stopped", "uncontrol", "cont", "resumed",
           "mark", "signal", "wake", "term"}

Init ==
    /\ daemon = "up"
    /\ row = [status |-> "none", handle |-> FALSE]
    /\ task = [t \in Tasks |-> "idle"]
    /\ file = [status |-> "none", registered |-> FALSE, request |-> FALSE, control |-> FALSE,
               output |-> "none", intact |-> TRUE]
    /\ gate = "none"
    /\ sup = [pc |-> "none", seen |-> "none"]
    /\ child = "none"
    /\ group = [stopped |-> FALSE, termed |-> FALSE]
    /\ spawns = 0
    /\ cut = FALSE
    /\ faults = 0

-----------------------------------------------------------------------------

\* The task has the service's only thread.
Turn(t) == daemon # "down" /\ \A u \in Tasks \ {t} : task[u] \notin Midway
Called(c) == daemon = "up" /\ task[c] = "idle" /\ Turn(c)

Fault == faults < MaxFaults /\ faults' = faults + 1

Alive == sup.pc \notin {"none", "dead"}
Waiting == gate \notin {"none", "passed"}

FileEnd == IF file.status = "cancelled" THEN "cancelled" ELSE "finished"

\* status(): the state file first, then the process, then what may hold it.  (A state that
\* is terminal after the settle delay is read in one with the first look.)
Status ==
    CASE file.status \in Terminal -> FileEnd
      [] ~(file.status \in Terminal) /\ ~Alive -> "lost"
      [] ~(file.status \in Terminal) /\ Alive /\ (file.control \/ Waiting) -> "paused"
      [] OTHER -> "running"

\* ensureCollection, with the tasks as they are in tk and the row in r.
ensureCollection(tk, r) ==
    IF r.status = "running" /\ tk["collect"] = "idle"
    THEN [tk EXCEPT !["collect"] = "polling"] ELSE tk

Goto(t, pc) == task' = [task EXCEPT ![t] = pc] /\ UNCHANGED <<daemon, row>>

\* The task ends and leaves the row r.  The service listens once its recovery is over.
Finish(t, r) ==
    /\ row' = r
    /\ task' = ensureCollection([task EXCEPT ![t] = "idle"], r)
    /\ daemon' = IF t \in {"launch", "recover"} THEN "up" ELSE daemon

Become(status) == [row EXCEPT !.status = status]

\* Mutant: synchronizeRunnerState does not look whether the run is over.
Decided_Bug == FALSE
Decided == Over

\* readOutput: the status of the envelope, if there is one and it still passes its validation:
\* its contract, its size, and that every artifact it refers to is there.
Readable == IF file.intact THEN file.output ELSE "none"

\* What the runner said of the run reaches its row.  A finished run is read from its
\* output, which is waited for as long as something is missing; an output that is there and
\* does not validate makes the run failed.
synchronizeRunnerState(t, result) ==
    CASE Decided -> Finish(t, row)
      [] ~Decided /\ result = "finished" ->
            \/ Readable # "none" /\ Finish(t, Become(Readable))
            \/ Readable = "none" /\ Goto(t, "finalizing")
            \/ Readable = "none" /\ file.output # "none" /\ Finish(t, Become("failed"))
      [] ~Decided /\ result = "cancelled" -> Finish(t, Become("cancelled"))
      [] ~Decided /\ result = "paused" ->
            Finish(t, IF row.status = "running" THEN Become("paused") ELSE row)
      [] ~Decided /\ result = "running" ->
            Finish(t, IF row.status = "paused" THEN Become("running") ELSE row)

\* waitForOutput has found the output, or given up after two seconds.
finalizeFinished(t) ==
    /\ Turn(t) /\ task[t] = "finalizing"
    /\ Finish(t, IF Over THEN row
                 ELSE Become(IF Readable = "none" THEN "failed" ELSE Readable))
    /\ UNCHANGED <<file, gate, processes, history>>

-----------------------------------------------------------------------------
(* The start of a run.                                                      *)

\* arc_run_start, for the first time or again: a queued run is launched once at a time.
start ==
    /\ daemon = "up" /\ Turn("launch") /\ task["launch"] = "idle"
    /\ row.status \in {"none", "queued"}
    /\ row' = Become("queued")
    /\ task' = [task EXCEPT !["launch"] = "verifying"]
    /\ UNCHANGED <<daemon, file, gate, processes, history>>

\* The handle has been returned.  A run that is not queued any more is left as it is.
Launched ==
    Finish("launch", IF row.status = "queued" THEN [status |-> "running", handle |-> TRUE]
                     ELSE row)

\* The release does not verify, or the run's parameters or configuration are refused.
Refused ==
    /\ Turn("launch") /\ task["launch"] = "verifying"
    /\ Finish("launch", row)
    /\ UNCHANGED <<file, gate, processes, history>>

\* Mutant: a run directory that is in use is not noticed.
HasRequest_Bug == FALSE
HasRequest == file.request

\* start() of the supervisor's client, from its look at the directory.
OpenRun ==
    /\ Turn("launch") /\ task["launch"] = "verifying"
    /\ \/ /\ HasRequest
          /\ IF file.registered THEN Launched ELSE Finish("launch", row)
          /\ UNCHANGED file
       \/ /\ ~HasRequest
          /\ file' = [file EXCEPT !.status = "starting", !.registered = FALSE]
          /\ Goto("launch", "request")
    /\ UNCHANGED <<gate, processes, history>>

WriteRequest ==
    /\ Turn("launch") /\ task["launch"] = "request"
    /\ file' = [file EXCEPT !.request = TRUE]
    /\ Goto("launch", "spawn")
    /\ UNCHANGED <<gate, processes, history>>

spawnDetachedSupervisor ==
    /\ Turn("launch") /\ task["launch"] = "spawn"
    /\ sup' = [pc |-> "booting", seen |-> "none"]
    /\ spawns' = spawns + 1
    /\ Goto("launch", "registering")
    /\ UNCHANGED <<file, gate, child, group, cut, faults>>

awaitRegistration ==
    /\ Turn("launch") /\ task["launch"] = "registering"
    /\ \/ file.registered /\ Launched /\ UNCHANGED <<group, faults>>
       \/ /\ ~file.registered
          /\ \/ Alive /\ Fault            \* it takes longer than registrationTimeoutMs
             \/ ~Alive /\ UNCHANGED faults
          /\ group' = [group EXCEPT !.termed = Alive]
          /\ Finish("launch", row)
    /\ UNCHANGED <<file, gate, sup, child, spawns, cut>>

-----------------------------------------------------------------------------
(* Collection and recovery.                                                 *)

\* settle: collect() polls until the run has ended.  If the supervisor is gone it throws,
\* and is called again unless the row has left "running".
settle ==
    /\ Turn("collect") /\ task["collect"] = "polling"
    /\ \/ Status \in {"finished", "cancelled"} /\ synchronizeRunnerState("collect", Status)
       \/ Status = "lost" /\ (Over \/ row.status = "paused") /\ Finish("collect", row)
    /\ UNCHANGED <<file, gate, processes, history>>

recoverRunning ==
    /\ Turn("recover") /\ task["recover"] = "probing"
    /\ IF Status = "lost" THEN Finish("recover", row)
       ELSE synchronizeRunnerState("recover", Status)
    /\ UNCHANGED <<file, gate, processes, history>>

\* Mutant: a run that was running is not recovered.
Recoverable_Bug == {"queued"}
Recoverable == {"queued", "running"}

\* The service starts, and recovers what was left before it listens: queued and running rows only.
performRecovery ==
    /\ daemon = "down"
    /\ daemon' = IF row.status \in Recoverable THEN "recovering" ELSE "up"
    /\ task' = CASE row.status \notin Recoverable -> task
                 [] row.status = "queued" -> [task EXCEPT !["launch"] = "verifying"]
                 [] row.status = "running" -> [task EXCEPT !["recover"] = "probing"]
    /\ UNCHANGED <<row, file, gate, processes, history>>

-----------------------------------------------------------------------------
(* Pause, resume and cancel.  A call that finds the run "lost" throws.       *)

pause(c) ==
    /\ Called(c) /\ row.status = "running" /\ Status # "lost"
    /\ IF Status = "running" THEN Goto(c, "control") ELSE synchronizeRunnerState(c, Status)
    /\ UNCHANGED <<file, gate, processes, history>>

resume(c) ==
    /\ Called(c) /\ row.status = "paused"
    /\ CASE file.status \in Terminal -> synchronizeRunnerState(c, FileEnd)
         [] ~(file.status \in Terminal) /\ file.control -> Goto(c, "uncontrol")
         [] OTHER -> synchronizeRunnerState(c, "running")
    /\ UNCHANGED <<file, gate, processes, history>>

cancel(c) ==
    /\ Called(c) /\ row.status # "none" /\ ~Over
    /\ \/ ~row.handle /\ Finish(c, Become("cancelled"))
       \/ row.handle /\ Status \in {"finished", "cancelled"} /\ synchronizeRunnerState(c, Status)
       \/ row.handle /\ Status \in {"running", "paused"} /\ Goto(c, "mark")
    /\ UNCHANGED <<file, gate, processes, history>>

\* The files these calls write, whatever the supervisor has written meanwhile.
WriteControl(c) ==
    /\ Turn(c)
    /\ \/ /\ task[c] = "control"   /\ file' = [file EXCEPT !.control = TRUE]
          /\ Goto(c, "stop")
       \/ /\ task[c] = "uncontrol" /\ file' = [file EXCEPT !.control = FALSE]
          /\ Goto(c, "cont")
       \/ /\ task[c] = "mark"      /\ file' = [file EXCEPT !.status = "cancelled"]
          /\ Goto(c, "signal")
       \/ /\ task[c] = "signal"    /\ file.control /\ file' = [file EXCEPT !.control = FALSE]
          /\ Goto(c, "wake")
    /\ UNCHANGED <<gate, processes, history>>

\* The signals that follow.  A group whose control file was there is continued before it is
\* ended.
signalGroup(c) ==
    /\ Turn(c)
    /\ \/ /\ task[c] = "stop"
          /\ group' = [group EXCEPT !.stopped = Alive \/ child = "running"]
          /\ Goto(c, "stopped")
       \/ /\ task[c] = "cont" /\ group' = [group EXCEPT !.stopped = FALSE]
          /\ Goto(c, "resumed")
       \/ /\ task[c] = "wake" /\ group' = [group EXCEPT !.stopped = FALSE]
          /\ Goto(c, "term")
       \/ /\ task[c] = "term" \/ (task[c] = "signal" /\ ~file.control)
          /\ group' = [group EXCEPT !.termed = TRUE]
          /\ Goto(c, "wait")
    /\ UNCHANGED <<file, gate, sup, child, history>>

Answered(c) ==
    /\ Turn(c)
    /\ \/ task[c] = "stopped" /\ synchronizeRunnerState(c, "paused")
       \/ task[c] = "resumed" /\ synchronizeRunnerState(c, "running")
    /\ UNCHANGED <<file, gate, processes, history>>

\* The supervisor is gone, or is killed with its group after stopTimeoutMs.
Stopped(c) ==
    /\ Turn(c) /\ task[c] = "wait"
    /\ IF Alive
       THEN /\ sup' = [pc |-> "dead", seen |-> "none"]
            /\ child' = IF child = "running" THEN "failed" ELSE child
            /\ group' = [group EXCEPT !.stopped = FALSE]
       ELSE UNCHANGED processes
    /\ synchronizeRunnerState(c, "cancelled")
    /\ UNCHANGED <<file, gate, history>>

\* arc_hitl_submit: a gate is decided once.
submitHitl ==
    /\ daemon = "up" /\ Turn("launch") /\ gate = "published"
    /\ gate' = "decided"
    /\ UNCHANGED <<service, file, processes, history>>

-----------------------------------------------------------------------------
(* The detached supervisor.                                                 *)

Runs(pc) == sup.pc = pc /\ ~group.stopped
At(pc) == sup' = [pc |-> pc, seen |-> "none"]

Register ==
    /\ Runs("booting") /\ At("registered")
    /\ file' = [file EXCEPT !.status = "starting", !.registered = TRUE]
    /\ UNCHANGED <<service, gate, child, group, history>>

launchOfficialChild ==
    /\ Runs("registered") /\ At("launched") /\ child' = "running"
    /\ UNCHANGED <<service, file, gate, group, history>>

\* writeState reads the file, then replaces it: "cancelled" is kept if it was read.
readRunnerState ==
    /\ Runs("launched") \/ Runs("finalizing")
    /\ sup.seen = "none" /\ sup' = [sup EXCEPT !.seen = file.status]
    /\ UNCHANGED <<service, file, gate, child, group, history>>

writeState ==
    /\ sup.seen # "none"
    /\ \/ Runs("launched") /\ At("serving")
          /\ file' = IF sup.seen = "cancelled" THEN file ELSE [file EXCEPT !.status = "running"]
       \/ Runs("finalizing") /\ At("dead")
          /\ file' = IF sup.seen = "cancelled" THEN file
                     ELSE [file EXCEPT !.status =
                              IF child = "failed" \/ file.output = "none" THEN "failed"
                              ELSE "completed"]
    /\ UNCHANGED <<service, gate, child, group, history>>

\* The child has ended.  The envelope may fail: then the state is failed and there is none.
finalize ==
    /\ Runs("serving") /\ child \in Ended /\ At("finalizing")
    /\ \/ file' = [file EXCEPT !.output = child] /\ UNCHANGED faults
       \/ Fault /\ UNCHANGED file
    /\ UNCHANGED <<service, gate, child, group, spawns, cut>>

\* SIGTERM: the handler, or the default before there is one.
Terminated ==
    /\ group.termed /\ ~group.stopped
    /\ \/ sup.pc \in {"booting", "registered"} /\ UNCHANGED file
       \/ /\ sup.pc = "serving"
          /\ file' = IF file.status \in {"starting", "running"}
                     THEN [file EXCEPT !.status = "cancelled"] ELSE file
    /\ At("dead")
    /\ UNCHANGED <<service, gate, child, group, history>>

pumpHitlBridge ==
    /\ Runs("serving")
    /\ \/ gate = "waiting" /\ gate' = "published"
       \/ gate = "decided" /\ gate' = "forwarded"
    /\ UNCHANGED <<service, file, processes, history>>

-----------------------------------------------------------------------------
(* The pipeline, and what fails.                                            *)

ChildEnds ==
    /\ child = "running" /\ ~group.stopped
    /\ \/ gate \in {"none", "passed"} /\ child' \in Ended
       \/ group.termed /\ child' = "failed"
    /\ UNCHANGED <<service, file, gate, sup, group, history>>

Gate ==
    /\ child = "running" /\ ~group.stopped
    /\ \/ gate = "none" /\ gate' = "waiting"
       \/ gate = "forwarded" /\ gate' = "passed"
    /\ UNCHANGED <<service, file, processes, history>>

\* Something the envelope refers to is removed, or a service with other limits reads it.
EnvelopeSpoiled ==
    /\ file.output # "none" /\ file.intact /\ Fault
    /\ file' = [file EXCEPT !.intact = FALSE]
    /\ UNCHANGED <<service, gate, processes, spawns, cut>>

ServiceGone ==
    /\ daemon # "down" /\ daemon' = "down"
    /\ task' = [t \in Tasks |-> "idle"]
    /\ cut' = (cut \/ \E c \in Calls : task[c] \in {"cont", "signal", "wake", "term"})

\* The service stops or dies; the supervisor and the pipeline do not notice.
Crash ==
    /\ ServiceGone /\ Fault
    /\ UNCHANGED <<row, file, gate, processes, spawns>>

SupervisorDies ==
    /\ Alive /\ At("dead") /\ Fault
    /\ UNCHANGED <<service, file, gate, child, group, spawns, cut>>

Reboot ==
    /\ ServiceGone /\ Fault
    /\ sup' = [pc |-> IF Alive THEN "dead" ELSE sup.pc, seen |-> "none"]
    /\ child' = IF child = "running" THEN "failed" ELSE child
    /\ group' = [stopped |-> FALSE, termed |-> FALSE]
    /\ UNCHANGED <<row, file, gate, spawns>>

-----------------------------------------------------------------------------

Launch == OpenRun \/ WriteRequest \/ spawnDetachedSupervisor \/ awaitRegistration
Proceed(c) == WriteControl(c) \/ signalGroup(c) \/ Answered(c) \/ Stopped(c)
Supervisor ==
    Register \/ launchOfficialChild \/ readRunnerState \/ writeState \/ finalize \/ Terminated

Next ==
    \/ start \/ Refused \/ Launch \/ settle \/ recoverRunning \/ performRecovery \/ submitHitl
    \/ \E t \in Tasks : finalizeFinished(t)
    \/ \E c \in Calls : pause(c) \/ resume(c) \/ cancel(c) \/ Proceed(c)
    \/ Supervisor \/ pumpHitlBridge
    \/ ChildEnds \/ Gate \/ EnvelopeSpoiled
    \/ Crash \/ SupervisorDies \/ Reboot

\* Timers and microtasks of the service run, the service is started again, and a process
\* that is not stopped is scheduled.  What users do and what the pipeline does is not fair.
Fairness ==
    /\ WF_vars(performRecovery) /\ WF_vars(Launch) /\ WF_vars(settle) /\ WF_vars(recoverRunning)
    /\ \A t \in Tasks : WF_vars(finalizeFinished(t))
    /\ \A c \in Calls : WF_vars(Proceed(c))
    /\ WF_vars(Supervisor)

Spec == Init /\ [][Next]_vars /\ Fairness

-----------------------------------------------------------------------------

Places == Midway \cup {"idle", "verifying", "registering", "polling", "probing", "finalizing",
                       "wait"}
Rows == [status : {"none", "queued", "running", "paused"} \cup Terminal, handle : BOOLEAN]
FileStatus == {"none", "starting", "running", "completed", "failed", "cancelled"}
Files == [status : FileStatus, registered : BOOLEAN, request : BOOLEAN, control : BOOLEAN,
          output : {"none"} \cup Ended, intact : BOOLEAN]

\* Type correctness.
TypeOK ==
    /\ daemon \in {"down", "recovering", "up"}
    /\ row \in Rows
    /\ task \in [Tasks -> Places]
    /\ file \in Files
    /\ gate \in {"none", "waiting", "published", "decided", "forwarded", "passed"}
    /\ sup \in [pc : {"none", "booting", "registered", "launched", "serving", "finalizing", "dead"},
                seen : FileStatus]
    /\ child \in {"none", "running"} \cup Ended
    /\ group \in [stopped : BOOLEAN, termed : BOOLEAN]
    /\ spawns \in Nat /\ faults \in 0..MaxFaults /\ cut \in BOOLEAN

\* The processes follow the row although the service knows them by files and signals only.
\* Whatever is started again, and after any death, a run has one supervisor; when its row is
\* over its supervisor is gone or has been told to go; and no group is stopped that a resume
\* or a cancel would not continue.  The last two fail if the service dies between the removal
\* of a file and the signal that goes with it (cut).
PipelineFollowsRow ==
    /\ spawns <= 1
    /\ Over /\ row.handle /\ Alive => group.termed \/ cut
    /\ group.stopped => file.control \/ cut \/ \E c \in Calls : task[c] \in {"cont", "wake"}

\* An end that was recorded stays, and says what the pipeline did: a run is completed or
\* partial only as its envelope says, and never failed against an envelope that validates, in
\* whatever order the collector, the calls, a recovery and the supervisor reach the row and
\* the files.
EndIsTrue ==
    [][/\ Over => row' = row
       /\ row'.status \in {"completed", "partial"} => file'.output = row'.status
       /\ row'.status = "failed" => file'.output \in {"none", "failed"} \/ ~file'.intact]_vars

\* A running run whose pipeline has ended gets an end, also over a restart of the service,
\* unless its supervisor died without a word or its group is left stopped.  (A recovery at a
\* gate makes the row paused: then a resume has to come first.)
EveryEndIsCollected ==
    (child \in Ended /\ row.status = "running")
        ~> (row.status # "running" \/ group.stopped \/ (~Alive /\ file.status \notin Terminal))

=============================================================================
