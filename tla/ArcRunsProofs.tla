---------------------------- MODULE ArcRunsProofs ----------------------------
(***************************************************************************)
(* One run of ARC, proved for any number of tool calls at a time and any   *)
(* number of faults: it has one supervisor, its processes follow its row,  *)
(* and its end is true.  The invariant says what the files and the places  *)
(* of the service's tasks tell about the supervisor.                       *)
(***************************************************************************)
EXTENDS ArcRuns, TLAPS

\* A supervisor is spawned once: a run directory with a request is never opened again.
OneSupervisor ==
    /\ spawns = IF sup.pc = "none" THEN 0 ELSE 1
    /\ sup.pc # "none" => file.request
    /\ file.registered \/ row.handle => sup.pc # "none"
    /\ task["launch"] \in {"request", "spawn"} => sup.pc = "none"
    /\ task["launch"] = "spawn" => file.request
    /\ sup.pc = "none" => file.status \in {"none", "starting"}
    /\ \A c \in Calls : task[c] = "mark" => sup.pc # "none"

\* The envelope is written last but one, and a finished run has no supervisor.
EndsMatch ==
    /\ file.output # "none" => sup.pc \in {"finalizing", "dead"}
    /\ file.status \in {"completed", "failed"} => sup.pc = "dead"
    /\ \A t \in Tasks : task[t] = "finalizing" => sup.pc = "dead"
    /\ row.status \in {"completed", "partial"} => file.output = row.status
    /\ row.status = "failed" => /\ sup.pc = "dead"
                                /\ file.output \in {"none", "failed"} \/ ~file.intact

\* What the service has begun to do to the supervisor, as its files tell.
Signalled ==
    /\ file.status = "cancelled" /\ Alive =>
          group.termed \/ cut \/ \E c \in Calls : task[c] \in {"signal", "wake", "term"}
    /\ Over /\ row.handle /\ Alive => group.termed \/ cut
    /\ \A c \in Calls : task[c] = "stop" => file.control
    /\ group.stopped => file.control \/ cut \/ \E c \in Calls : task[c] \in {"cont", "wake"}

Inv == TypeOK /\ OneSupervisor /\ EndsMatch /\ Signalled

LEMMA InitInv == ArcAssumption /\ Init => Inv
<1> SUFFICES ASSUME ArcAssumption, Init PROVE Inv
  OBVIOUS
<1>1. \A t \in Tasks : task[t] = "idle"
  BY DEF Init
<1>2. task["launch"] = "idle" /\ \A c \in Calls : task[c] = "idle"
  BY <1>1 DEF Tasks
<1>3. task \in [Tasks -> Places]
  BY DEF Init, Places
<1>4. TypeOK
  <2>1. row \in Rows
    BY DEF Init, Rows
  <2>2. file \in Files
    BY DEF Init, Files, FileStatus
  <2>3. /\ sup \in [pc : {"none", "booting", "registered", "launched", "serving", "finalizing",
                         "dead"}, seen : FileStatus]
        /\ group \in [stopped : BOOLEAN, termed : BOOLEAN]
    BY DEF Init, FileStatus
  <2>4. spawns \in Nat /\ faults \in 0..MaxFaults /\ cut \in BOOLEAN
    <3>1. MaxFaults \in Nat
      BY DEF ArcAssumption
    <3>2. faults = 0 /\ spawns = 0
      BY DEF Init
    <3>3. faults \in 0..MaxFaults /\ spawns \in Nat
      BY <3>1, <3>2, SMT
    <3>4. cut \in BOOLEAN
      BY DEF Init
    <3> QED
      BY <3>3, <3>4
  <2>5. /\ daemon \in {"down", "recovering", "up"}
        /\ gate \in {"none", "waiting", "published", "decided", "forwarded", "passed"}
        /\ child \in {"none", "running"} \cup Ended
    BY DEF Init
  <2> QED
    BY <1>3, <2>1, <2>2, <2>3, <2>4, <2>5 DEF TypeOK
<1>5. OneSupervisor
  BY <1>2 DEF Init, OneSupervisor
<1>6. EndsMatch
  BY <1>1 DEF Init, EndsMatch
<1>7. Signalled
  BY <1>2 DEF Init, Signalled, Over, Terminal, Ended, Alive
<1> QED
  BY <1>4, <1>5, <1>6, <1>7 DEF Inv

\* The end of a function of the service: its task is idle or collects, the others stay,
\* but for a collection that begins.
LEMMA FinishStep ==
  ASSUME ArcAssumption, TypeOK, NEW t \in Tasks, NEW r \in Rows, Finish(t, r)
  PROVE  /\ row' = r
         /\ daemon' \in {"down", "recovering", "up"}
         /\ task' \in [Tasks -> Places]
         /\ task'[t] \in {"idle", "polling"}
         /\ \A u \in Tasks : u # t => task'[u] = task[u] \/ (u = "collect" /\ task'[u] = "polling")
  BY DEF Finish, ensureCollection, TypeOK, Tasks, Places, Midway

LEMMA GotoStep ==
  ASSUME TypeOK, NEW t \in Tasks, NEW pc \in Places, Goto(t, pc)
  PROVE  /\ row' = row /\ daemon' = daemon
         /\ task' \in [Tasks -> Places]
         /\ task'[t] = pc
         /\ \A u \in Tasks : u # t => task'[u] = task[u]
  BY DEF Goto, TypeOK

\* What a function of the service may do to the row and to the tasks, in one formula.
Moves(t) ==
    /\ daemon' \in {"down", "recovering", "up"}
    /\ row' \in Rows
    /\ task' \in [Tasks -> Places]
    /\ \A u \in Tasks : u # t => task'[u] = task[u] \/ (u = "collect" /\ task'[u] = "polling")

LEMMA Assumptions ==
  ASSUME ArcAssumption
  PROVE  /\ "collect" \notin Calls /\ "launch" \notin Calls /\ "recover" \notin Calls
         /\ "collect" \in Tasks /\ "launch" \in Tasks /\ "recover" \in Tasks
         /\ \A c \in Calls : c \in Tasks
  BY DEF ArcAssumption, Tasks

\* The end that readOutput gives a run, as far as the files justify it.
Justified(status) ==
    \/ Readable # "none" /\ status = Readable
    \/ Readable = "none" /\ status = "failed"

\* What the service makes of a result, on the facts that justify the result.
LEMMA Synchronized ==
  ASSUME ArcAssumption, Inv, NEW t \in Tasks, Turn(t),
         NEW result \in {"finished", "cancelled", "paused", "running"},
         result = "finished" => sup.pc = "dead",
         synchronizeRunnerState(t, result)
  PROVE  /\ Moves(t)
         /\ task'[t] \in {"idle", "polling", "finalizing"}
         /\ task'[t] = "finalizing" => sup.pc = "dead"
         /\ row'.handle = row.handle
         /\ Over => row' = row
         /\ \/ row'.status = row.status
            \/ row'.status \in {"running", "paused"}
            \/ result = "cancelled" /\ row'.status = "cancelled"
            \/ sup.pc = "dead" /\ Justified(row'.status)
<1>1. TypeOK
  BY DEF Inv
<1>2. CASE Decided
  <2>1. Finish(t, row)
    BY <1>2 DEF synchronizeRunnerState
  <2> QED
    BY <1>1, <2>1, FinishStep DEF Moves, TypeOK
<1>3. CASE ~Decided /\ result = "finished"
  <2>1. ASSUME NEW status, Justified(status), Finish(t, Become(status))
        PROVE  /\ Moves(t) /\ task'[t] \in {"idle", "polling"}
               /\ row'.handle = row.handle /\ row'.status = status
    <3>1. Become(status) \in Rows /\ Become(status).handle = row.handle
          /\ Become(status).status = status
      BY <1>1, <2>1 DEF Justified, Readable, Become, TypeOK, Rows, Files, Terminal, Ended
    <3> QED
      BY <1>1, <2>1, <3>1, FinishStep DEF Moves
  <2>2. CASE Readable # "none" /\ Finish(t, Become(Readable))
    <3>1. Justified(Readable)
      BY <2>2 DEF Justified
    <3> QED
      BY <1>3, <2>1, <2>2, <3>1 DEF Decided
  <2>3. CASE Readable = "none" /\ Finish(t, Become("failed"))
    <3>1. Justified("failed")
      BY <2>3 DEF Justified
    <3> QED
      BY <1>3, <2>1, <2>3, <3>1 DEF Decided
  <2>4. CASE Goto(t, "finalizing")
    BY <1>1, <1>3, <2>4, GotoStep DEF Moves, Places, TypeOK
  <2> QED
    BY <1>3, <2>2, <2>3, <2>4 DEF synchronizeRunnerState
<1>4. CASE ~Decided /\ result = "cancelled"
  <2>1. Finish(t, Become("cancelled"))
    BY <1>4 DEF synchronizeRunnerState
  <2>2. Become("cancelled") \in Rows /\ Become("cancelled").handle = row.handle
        /\ Become("cancelled").status = "cancelled"
    BY <1>1 DEF Become, TypeOK, Rows, Terminal
  <2> QED
    BY <1>1, <1>4, <2>1, <2>2, FinishStep DEF Moves, Decided
<1>5. CASE ~Decided /\ result \in {"paused", "running"}
  <2> DEFINE r == IF result = "paused"
                  THEN IF row.status = "running" THEN Become("paused") ELSE row
                  ELSE IF row.status = "paused" THEN Become("running") ELSE row
  <2>1. Finish(t, r)
    BY <1>5 DEF synchronizeRunnerState
  <2>2. r \in Rows /\ r.handle = row.handle
        /\ (r.status = row.status \/ r.status \in {"running", "paused"})
    BY <1>1, <1>5 DEF Become, TypeOK, Rows
  <2> HIDE DEF r
  <2> QED
    BY <1>1, <1>5, <2>1, <2>2, FinishStep DEF Moves, Decided
<1> QED
  BY <1>2, <1>3, <1>4, <1>5

\* What status() returned tells of the supervisor.
LEMMA StatusTells ==
  ASSUME Inv
  PROVE  /\ Status \in {"finished", "cancelled", "lost", "paused", "running"}
         /\ Status = "finished" => sup.pc = "dead"
         /\ Status = "cancelled" => file.status = "cancelled"
         /\ file.status \in Terminal => (FileEnd = "finished" => sup.pc = "dead")
                                     /\ (FileEnd = "cancelled" => file.status = "cancelled")
                                     /\ FileEnd \in {"finished", "cancelled"}
<1>1. file.status \in FileStatus
  BY DEF Inv, TypeOK, Files
<1> QED
  BY <1>1 DEF Status, FileEnd, Inv, EndsMatch, Terminal, Ended, FileStatus

LEMMA FaultCounts ==
  ASSUME ArcAssumption, TypeOK, Fault PROVE faults' \in 0..MaxFaults
<1>1. MaxFaults \in Nat /\ faults \in 0..MaxFaults /\ faults < MaxFaults /\ faults' = faults + 1
  BY DEF ArcAssumption, TypeOK, Fault
<1> QED
  BY <1>1, SMT

\* A step of the service that neither writes a file nor sends a signal keeps the invariant,
\* if the row it leaves is justified.
LEMMA RowStep ==
  ASSUME ArcAssumption, Inv, NEW t \in Tasks, Turn(t), Moves(t),
         task[t] \notin {"signal", "wake", "term", "cont"},
         UNCHANGED <<file, gate, processes, history>>,
         task'[t] \notin {"request", "spawn"},
         task'[t] = "stop" => file.control,
         task'[t] = "mark" => sup.pc # "none",
         task'[t] = "finalizing" => sup.pc = "dead",
         row'.handle => sup.pc # "none",
         \/ row'.status \notin Terminal
         \/ row' = row
         \/ /\ row'.status = "cancelled"
            /\ row'.handle /\ Alive => group.termed \/ cut
         \/ /\ sup.pc = "dead"
            /\ Justified(row'.status)
  PROVE  Inv'
<1>1. TypeOK'
  BY DEF Inv, TypeOK, Moves, processes, history
<1>2. OneSupervisor'
  BY Assumptions DEF Inv, OneSupervisor, Moves, processes, history
<1>3. EndsMatch'
  <2>1. \A u \in Tasks : task'[u] = "finalizing" => sup.pc = "dead"
    BY DEF Inv, EndsMatch, Moves
  <2>2. /\ row'.status \in {"completed", "partial"} => file.output = row'.status
        /\ row'.status = "failed" => /\ sup.pc = "dead"
                                     /\ file.output \in {"none", "failed"} \/ ~file.intact
    BY DEF Inv, EndsMatch, Terminal, Ended, Justified, Readable
  <2> QED
    BY <2>1, <2>2 DEF Inv, EndsMatch, processes, history
<1>4. Signalled'
  <2>1. \A c \in Calls : c # t => task'[c] = task[c]
    BY Assumptions DEF Moves
  <2>2. Alive' = Alive /\ group' = group /\ cut' = cut /\ file' = file
    BY DEF Alive, processes, history
  <2>3. file.status = "cancelled" /\ Alive =>
          group.termed \/ cut \/ \E c \in Calls : task'[c] \in {"signal", "wake", "term"}
    BY <2>1 DEF Inv, Signalled
  <2>4. row'.status \in Terminal /\ row'.handle /\ Alive => group.termed \/ cut
    BY DEF Inv, Signalled, Over, Alive
  <2>5. \A c \in Calls : task'[c] = "stop" => file.control
    BY <2>1 DEF Inv, Signalled
  <2>6. group.stopped => file.control \/ cut \/ \E c \in Calls : task'[c] \in {"cont", "wake"}
    BY <2>1 DEF Inv, Signalled
  <2> QED
    BY <2>2, <2>3, <2>4, <2>5, <2>6 DEF Signalled, Over
<1> QED
  BY <1>1, <1>2, <1>3, <1>4 DEF Inv

\* A function that ends and leaves the row as it is.
LEMMA EndStep ==
  ASSUME ArcAssumption, Inv, NEW t \in Tasks, Turn(t), Finish(t, row),
         task[t] \notin {"signal", "wake", "term", "cont"},
         UNCHANGED <<file, gate, processes, history>>
  PROVE  Inv'
<1>1. Moves(t) /\ row' = row /\ task'[t] \in {"idle", "polling"}
  BY FinishStep DEF Inv, TypeOK, Moves
<1> QED
  BY <1>1, RowStep DEF Inv, OneSupervisor

\* A function that synchronizes the row and ends, or waits for the output.
LEMMA SynchronizedStep ==
  ASSUME ArcAssumption, Inv, NEW t \in Tasks, Turn(t),
         task[t] \notin {"signal", "wake", "term", "cont"},
         NEW result \in {"finished", "cancelled", "paused", "running"},
         result = "finished" => sup.pc = "dead",
         result = "cancelled" /\ Alive => group.termed \/ cut,
         synchronizeRunnerState(t, result),
         UNCHANGED <<file, gate, processes, history>>
  PROVE  Inv'
<1>1. /\ Moves(t)
      /\ task'[t] \in {"idle", "polling", "finalizing"}
      /\ task'[t] = "finalizing" => sup.pc = "dead"
      /\ row'.handle = row.handle
      /\ Over => row' = row
      /\ \/ row'.status = row.status
         \/ row'.status \in {"running", "paused"}
         \/ result = "cancelled" /\ row'.status = "cancelled"
         \/ sup.pc = "dead" /\ Justified(row'.status)
  BY Synchronized
<1>2. \/ row'.status \notin Terminal
      \/ row' = row
      \/ row'.status = "cancelled" /\ (row'.handle /\ Alive => group.termed \/ cut)
      \/ sup.pc = "dead" /\ Justified(row'.status)
  BY <1>1 DEF Over, Terminal, Ended
<1> QED
  BY <1>1, <1>2, RowStep DEF Inv, OneSupervisor

\* While a function is not in the middle of its turn, no call is between its writes.
LEMMA NoneMidway ==
  ASSUME ArcAssumption, Inv, NEW t \in Tasks, Turn(t), task[t] \notin Midway,
         file.status = "cancelled", Alive
  PROVE  group.termed \/ cut
<1>1. \A c \in Calls : task[c] \notin Midway
  BY Assumptions DEF Turn
<1> QED
  BY <1>1 DEF Inv, Signalled, Midway

LEMMA SettleStep == ASSUME ArcAssumption, Inv, settle PROVE Inv'
<1> USE Assumptions
<1>1. /\ Turn("collect") /\ task["collect"] = "polling"
      /\ UNCHANGED <<file, gate, processes, history>>
  BY DEF settle
<1>2. CASE Status \in {"finished", "cancelled"} /\ synchronizeRunnerState("collect", Status)
  <2>1. Status = "cancelled" /\ Alive => group.termed \/ cut
    BY <1>1, StatusTells, NoneMidway DEF Midway
  <2> QED
    BY <1>1, <1>2, <2>1, StatusTells, SynchronizedStep
<1>3. CASE Finish("collect", row)
  BY <1>1, <1>3, EndStep
<1> QED
  BY <1>2, <1>3 DEF settle

LEMMA RecoverStep == ASSUME ArcAssumption, Inv, recoverRunning PROVE Inv'
<1> USE Assumptions
<1>1. /\ Turn("recover") /\ task["recover"] = "probing"
      /\ UNCHANGED <<file, gate, processes, history>>
  BY DEF recoverRunning
<1>2. CASE Status = "lost"
  BY <1>1, <1>2, EndStep DEF recoverRunning
<1>3. CASE Status # "lost"
  <2>1. Status = "cancelled" /\ Alive => group.termed \/ cut
    BY <1>1, StatusTells, NoneMidway DEF Midway
  <2>2. synchronizeRunnerState("recover", Status)
    BY <1>3 DEF recoverRunning
  <2> QED
    BY <1>1, <1>3, <2>1, <2>2, StatusTells, SynchronizedStep
<1> QED
  BY <1>2, <1>3

LEMMA FinalizeFinishedStep ==
  ASSUME ArcAssumption, Inv, NEW t \in Tasks, finalizeFinished(t) PROVE Inv'
<1>1. /\ Turn(t) /\ task[t] = "finalizing" /\ sup.pc = "dead"
      /\ UNCHANGED <<file, gate, processes, history>>
  BY DEF finalizeFinished, Inv, EndsMatch
<1>2. CASE Over
  BY <1>1, <1>2, EndStep DEF finalizeFinished
<1>3. CASE ~Over
  <2> DEFINE r == Become(IF Readable = "none" THEN "failed" ELSE Readable)
  <2>1. Finish(t, r)
    BY <1>3 DEF finalizeFinished
  <2>2. /\ r \in Rows
        /\ Justified(r.status)
    BY DEF Become, Inv, TypeOK, Rows, Files, Terminal, Ended, Readable, Justified
  <2> HIDE DEF r
  <2>3. Moves(t) /\ row' = r /\ task'[t] \in {"idle", "polling"}
    BY <2>1, <2>2, FinishStep DEF Inv, Moves
  <2> QED
    BY <1>1, <2>2, <2>3, RowStep
<1> QED
  BY <1>2, <1>3

-----------------------------------------------------------------------------
(* The start of a run.                                                      *)

LEMMA StartStep == ASSUME ArcAssumption, Inv, start PROVE Inv'
<1> USE Assumptions
<1>1. /\ row' = Become("queued") /\ row'.status = "queued" /\ row'.handle = row.handle
      /\ row' \in Rows
  BY DEF start, Become, Inv, TypeOK, Rows
<1>2. Moves("launch") /\ task'["launch"] = "verifying" /\ task["launch"] = "idle"
  BY <1>1 DEF start, Moves, Inv, TypeOK, Places
<1> QED
  BY <1>1, <1>2, RowStep DEF start, Inv, OneSupervisor, Terminal, Ended

\* A supervisor is registered: the row may get its handle.
LEMMA LaunchedStep ==
  ASSUME ArcAssumption, Inv, Turn("launch"), task["launch"] \in {"verifying", "registering"},
         file.registered, Launched, UNCHANGED <<file, gate, processes, history>>
  PROVE  Inv'
<1> USE Assumptions
<1> DEFINE r == IF row.status = "queued" THEN [status |-> "running", handle |-> TRUE] ELSE row
<1>1. r \in Rows /\ (r = row \/ r.status = "running")
  <2>1. row \in Rows /\ [status |-> "running", handle |-> TRUE] \in Rows
    BY DEF Inv, TypeOK, Rows
  <2> QED
    BY <2>1
<1>2. Finish("launch", r)
  BY DEF Launched
<1>3. sup.pc # "none"
  BY DEF Inv, OneSupervisor
<1> HIDE DEF r
<1>4. Moves("launch") /\ row' = r /\ task'["launch"] \in {"idle", "polling"}
  BY <1>1, <1>2, FinishStep DEF Inv, Moves
<1> QED
  BY <1>1, <1>3, <1>4, RowStep DEF Terminal, Ended

\* The launch goes on after a write of its own: what it writes is part of each step below.
LEMMA LaunchGoesOn ==
  ASSUME ArcAssumption, Inv, Turn("launch"), NEW pc \in Places, Goto("launch", pc)
  PROVE  /\ row' = row /\ daemon' = daemon /\ task' \in [Tasks -> Places]
         /\ task'["launch"] = pc
         /\ \A u \in Tasks \ {"launch"} : task'[u] = task[u]
         /\ \A c \in Calls : task'[c] = task[c] /\ task[c] \notin Midway
  BY Assumptions, GotoStep DEF Inv, Turn

LEMMA OpenRunStep == ASSUME ArcAssumption, Inv, OpenRun PROVE Inv'
<1> USE Assumptions
<1>1. /\ Turn("launch") /\ task["launch"] = "verifying"
      /\ UNCHANGED <<gate, processes, history>>
  BY DEF OpenRun
<1>2. CASE HasRequest /\ UNCHANGED file
  BY <1>1, <1>2, LaunchedStep, EndStep DEF OpenRun
<1>3. CASE /\ ~HasRequest
           /\ file' = [file EXCEPT !.status = "starting", !.registered = FALSE]
           /\ Goto("launch", "request")
  <2>1. /\ row' = row /\ daemon' = daemon /\ task' \in [Tasks -> Places]
        /\ task'["launch"] = "request"
        /\ \A u \in Tasks \ {"launch"} : task'[u] = task[u]
        /\ \A c \in Calls : task'[c] = task[c]
    BY <1>1, <1>3, LaunchGoesOn DEF Places, Midway
  <2>2. /\ file'.status = "starting" /\ file'.registered = FALSE
        /\ file'.request = file.request /\ file'.control = file.control
        /\ file'.output = file.output /\ file'.intact = file.intact
        /\ file.request = FALSE /\ sup.pc = "none"
    BY <1>3 DEF Inv, TypeOK, Files, HasRequest, OneSupervisor
  <2>3. file' \in Files
    BY <1>3 DEF Inv, TypeOK, Files, FileStatus
  <2>4. TypeOK'
    BY <1>1, <2>1, <2>3 DEF Inv, TypeOK, processes, history
  <2>5. OneSupervisor' /\ EndsMatch' /\ Signalled'
    BY <1>1, <2>1, <2>2
    DEF Inv, OneSupervisor, EndsMatch, Signalled, processes, history, Alive, Over
  <2> QED
    BY <2>4, <2>5 DEF Inv
<1> QED
  BY <1>2, <1>3 DEF OpenRun

LEMMA WriteRequestStep == ASSUME ArcAssumption, Inv, WriteRequest PROVE Inv'
<1> USE Assumptions
<1>1. /\ row' = row /\ daemon' = daemon /\ task' \in [Tasks -> Places]
      /\ task["launch"] = "request" /\ task'["launch"] = "spawn"
      /\ \A u \in Tasks \ {"launch"} : task'[u] = task[u]
      /\ \A c \in Calls : task'[c] = task[c]
  BY LaunchGoesOn DEF WriteRequest, Places, Midway
<1>2. /\ file'.status = file.status /\ file'.registered = file.registered
      /\ file'.request = TRUE /\ file'.control = file.control /\ file'.output = file.output
      /\ file' \in Files /\ file'.intact = file.intact
  BY DEF WriteRequest, Inv, TypeOK, Files
<1>3. TypeOK'
  BY <1>1, <1>2 DEF WriteRequest, Inv, TypeOK, processes, history
<1>4. OneSupervisor' /\ EndsMatch' /\ Signalled'
  BY <1>1, <1>2
  DEF WriteRequest, Inv, OneSupervisor, EndsMatch, Signalled, processes, history, Alive, Over
<1> QED
  BY <1>3, <1>4 DEF Inv

LEMMA SpawnStep == ASSUME ArcAssumption, Inv, spawnDetachedSupervisor PROVE Inv'
<1> USE Assumptions
<1>1. /\ row' = row /\ daemon' = daemon /\ task' \in [Tasks -> Places]
      /\ task["launch"] = "spawn" /\ task'["launch"] = "registering"
      /\ \A u \in Tasks \ {"launch"} : task'[u] = task[u]
      /\ \A c \in Calls : task'[c] = task[c] /\ task[c] \notin Midway
  BY LaunchGoesOn DEF spawnDetachedSupervisor, Places, Midway
<1>2. sup.pc = "none" /\ spawns = 0 /\ sup'.pc = "booting" /\ spawns' = 1
  BY <1>1 DEF spawnDetachedSupervisor, Inv, OneSupervisor
<1>3. TypeOK'
  BY <1>1, <1>2 DEF spawnDetachedSupervisor, Inv, TypeOK, FileStatus
<1>4. file.request
  BY <1>1 DEF Inv, OneSupervisor
<1>5. OneSupervisor'
  BY <1>1, <1>2, <1>4 DEF spawnDetachedSupervisor, Inv, OneSupervisor
<1>6. EndsMatch'
  BY <1>1, <1>2 DEF spawnDetachedSupervisor, Inv, EndsMatch
<1>7. Signalled'
  BY <1>1, <1>2 DEF spawnDetachedSupervisor, Inv, Signalled, OneSupervisor, Alive, Over
<1> QED
  BY <1>3, <1>5, <1>6, <1>7 DEF Inv

LEMMA RegistrationStep == ASSUME ArcAssumption, Inv, awaitRegistration PROVE Inv'
<1> USE Assumptions
<1>1. /\ Turn("launch") /\ task["launch"] = "registering"
      /\ UNCHANGED <<file, gate, sup, child, spawns, cut>>
  BY DEF awaitRegistration
<1>2. CASE file.registered /\ Launched /\ UNCHANGED <<group, faults>>
  BY <1>1, <1>2, LaunchedStep DEF processes, history
<1>3. CASE /\ faults' = faults \/ Fault
           /\ group' = [group EXCEPT !.termed = Alive]
           /\ Finish("launch", row)
  <2>1. Moves("launch") /\ row' = row /\ task'["launch"] \in {"idle", "polling"}
    BY <1>3, FinishStep DEF Inv, TypeOK, Moves
  <2>2. /\ \A u \in Tasks : task'[u] = task[u] \/ task'[u] \in {"idle", "polling"}
        /\ \A c \in Calls : task'[c] = task[c]
    BY <2>1 DEF Moves
  <2>3. faults' \in 0..MaxFaults
    BY <1>3, FaultCounts DEF Inv, TypeOK
  <2>4. /\ group' \in [stopped : BOOLEAN, termed : BOOLEAN]
        /\ group'.stopped = group.stopped /\ (group'.termed <=> Alive)
    BY <1>3 DEF Inv, TypeOK, Alive
  <2>5. TypeOK'
    BY <1>1, <2>1, <2>3, <2>4 DEF Inv, TypeOK, Moves
  <2>6. OneSupervisor' /\ EndsMatch'
    BY <1>1, <2>1, <2>2 DEF Inv, OneSupervisor, EndsMatch
  <2>7. Signalled'
    BY <1>1, <2>1, <2>2, <2>4 DEF Inv, Signalled, Alive, Over
  <2> QED
    BY <2>5, <2>6, <2>7 DEF Inv
<1> QED
  BY <1>2, <1>3 DEF awaitRegistration

LEMMA PerformRecoveryStep == ASSUME ArcAssumption, Inv, performRecovery PROVE Inv'
<1> USE Assumptions
<1>1. /\ daemon' \in {"down", "recovering", "up"} /\ row' = row
      /\ UNCHANGED <<file, gate, sup, child, group, spawns, cut, faults>>
  BY DEF performRecovery, processes, history
<1>2. /\ task' \in [Tasks -> Places]
      /\ \A u \in Tasks : task'[u] = task[u] \/ task'[u] \in {"verifying", "probing"}
      /\ \A c \in Calls : task'[c] = task[c]
  <2>1. task \in [Tasks -> Places]
    BY DEF Inv, TypeOK
  <2>2. \/ task' = task
        \/ task' = [task EXCEPT !["launch"] = "verifying"]
        \/ task' = [task EXCEPT !["recover"] = "probing"]
    BY DEF performRecovery, Recoverable
  <2> QED
    BY <2>1, <2>2 DEF Places
<1>3. TypeOK'
  BY <1>1, <1>2 DEF Inv, TypeOK
<1>4. OneSupervisor' /\ EndsMatch'
  BY <1>1, <1>2 DEF Inv, OneSupervisor, EndsMatch
<1>5. Signalled'
  BY <1>1, <1>2 DEF Inv, Signalled, Alive, Over
<1> QED
  BY <1>3, <1>4, <1>5 DEF Inv

-----------------------------------------------------------------------------
(* Pause, resume and cancel.                                                *)

\* A call goes on without a write.
LEMMA CallGoesOn ==
  ASSUME ArcAssumption, Inv, NEW c \in Calls, Turn(c), task[c] = "idle",
         NEW pc \in {"control", "uncontrol", "mark"}, Goto(c, pc),
         pc = "mark" => row.handle,
         UNCHANGED <<file, gate, processes, history>>
  PROVE  Inv'
<1> USE Assumptions
<1>1. Moves(c) /\ row' = row /\ task'[c] = pc
  BY GotoStep DEF Inv, TypeOK, Moves, Places, Midway
<1> QED
  BY <1>1, RowStep DEF Inv, OneSupervisor

LEMMA PauseStep == ASSUME ArcAssumption, Inv, NEW c \in Calls, pause(c) PROVE Inv'
<1> USE Assumptions
<1>1. /\ Turn(c) /\ task[c] = "idle" /\ Status # "lost"
      /\ UNCHANGED <<file, gate, processes, history>>
  BY DEF pause, Called
<1>2. Status = "cancelled" /\ Alive => group.termed \/ cut
  BY <1>1, StatusTells, NoneMidway DEF Midway
<1>3. CASE Status = "running"
  BY <1>1, <1>3, CallGoesOn DEF pause
<1>4. CASE Status # "running"
  <2>1. synchronizeRunnerState(c, Status)
    BY <1>4 DEF pause
  <2> QED
    BY <1>1, <1>2, <2>1, StatusTells, SynchronizedStep
<1> QED
  BY <1>3, <1>4

LEMMA ResumeStep == ASSUME ArcAssumption, Inv, NEW c \in Calls, resume(c) PROVE Inv'
<1> USE Assumptions
<1>1. /\ Turn(c) /\ task[c] = "idle"
      /\ UNCHANGED <<file, gate, processes, history>>
  BY DEF resume, Called
<1>2. CASE file.status \in Terminal
  <2>1. synchronizeRunnerState(c, FileEnd)
    BY <1>2 DEF resume
  <2>2. FileEnd = "cancelled" /\ Alive => group.termed \/ cut
    BY <1>1, <1>2, StatusTells, NoneMidway DEF Midway
  <2> QED
    BY <1>1, <1>2, <2>1, <2>2, StatusTells, SynchronizedStep
<1>3. CASE file.status \notin Terminal /\ file.control
  BY <1>1, <1>3, CallGoesOn DEF resume
<1>4. CASE file.status \notin Terminal /\ ~file.control
  <2>1. synchronizeRunnerState(c, "running")
    BY <1>4 DEF resume
  <2> QED
    BY <1>1, <2>1, SynchronizedStep
<1> QED
  BY <1>2, <1>3, <1>4

LEMMA CancelStep == ASSUME ArcAssumption, Inv, NEW c \in Calls, cancel(c) PROVE Inv'
<1> USE Assumptions
<1>1. /\ Turn(c) /\ task[c] = "idle"
      /\ UNCHANGED <<file, gate, processes, history>>
  BY DEF cancel, Called
<1>2. CASE ~row.handle /\ Finish(c, Become("cancelled"))
  <2>1. /\ Become("cancelled") \in Rows /\ Become("cancelled").handle = row.handle
        /\ Become("cancelled").status = "cancelled"
    BY DEF Become, Inv, TypeOK, Rows, Terminal
  <2>2. Moves(c) /\ row' = Become("cancelled") /\ task'[c] \in {"idle", "polling"}
    BY <1>2, <2>1, FinishStep DEF Inv, Moves
  <2> QED
    BY <1>1, <1>2, <2>1, <2>2, RowStep
<1>3. CASE Status \in {"finished", "cancelled"} /\ synchronizeRunnerState(c, Status)
  <2>1. Status = "cancelled" /\ Alive => group.termed \/ cut
    BY <1>1, StatusTells, NoneMidway DEF Midway
  <2> QED
    BY <1>1, <1>3, <2>1, StatusTells, SynchronizedStep
<1>4. CASE row.handle /\ Goto(c, "mark")
  BY <1>1, <1>4, CallGoesOn
<1> QED
  BY <1>2, <1>3, <1>4 DEF cancel

LEMMA AnsweredStep == ASSUME ArcAssumption, Inv, NEW c \in Calls, Answered(c) PROVE Inv'
<1> USE Assumptions
<1> QED
  BY SynchronizedStep DEF Answered

\* A call goes on after a write or a signal: no other call is in the middle of its turn.
LEMMA CallMoves ==
  ASSUME ArcAssumption, Inv, NEW c \in Calls, Turn(c), NEW pc \in Places, Goto(c, pc)
  PROVE  /\ row' = row /\ daemon' = daemon /\ task' \in [Tasks -> Places]
         /\ task'[c] = pc
         /\ \A u \in Tasks \ {c} : task'[u] = task[u] /\ task[u] \notin Midway
         /\ task'["launch"] = task["launch"] /\ task["launch"] \notin {"request", "spawn"}
         /\ \A d \in Calls \ {c} : /\ task'[d] = task[d]
                                   /\ task'[d] \notin {"stop", "cont", "mark", "signal", "wake", "term"}
<1> USE Assumptions
<1>1. /\ row' = row /\ daemon' = daemon /\ task' \in [Tasks -> Places]
      /\ task'[c] = pc
      /\ \A u \in Tasks \ {c} : task'[u] = task[u] /\ task[u] \notin Midway
  BY GotoStep DEF Inv, Turn
<1>2. "launch" \in Tasks \ {c} /\ \A d \in Calls \ {c} : d \in Tasks \ {c}
  OBVIOUS
<1> QED
  BY <1>1, <1>2 DEF Midway

LEMMA RefusedStep == ASSUME ArcAssumption, Inv, Refused PROVE Inv'
<1> USE Assumptions
<1> QED
  BY EndStep DEF Refused

LEMMA WriteControlStep ==
  ASSUME ArcAssumption, Inv, NEW c \in Calls, WriteControl(c) PROVE Inv'
<1> USE Assumptions
<1>1. PICK pc \in {"stop", "cont", "signal", "wake"} :
        /\ Turn(c) /\ Goto(c, pc)
        /\ pc = "stop" => task[c] = "control" /\ file' = [file EXCEPT !.control = TRUE]
        /\ pc = "cont" => task[c] = "uncontrol" /\ file' = [file EXCEPT !.control = FALSE]
        /\ pc = "signal" => task[c] = "mark" /\ file' = [file EXCEPT !.status = "cancelled"]
        /\ pc = "wake" => task[c] = "signal" /\ file' = [file EXCEPT !.control = FALSE]
  BY DEF WriteControl
<1>2. UNCHANGED <<gate, sup, child, group, spawns, cut, faults>>
  BY DEF WriteControl, processes, history
<1>3. /\ row' = row /\ daemon' = daemon /\ task' \in [Tasks -> Places]
      /\ task'[c] = pc
      /\ \A u \in Tasks \ {c} : task'[u] = task[u] /\ task[u] \notin Midway
      /\ task'["launch"] = task["launch"] /\ task["launch"] \notin {"request", "spawn"}
      /\ \A d \in Calls \ {c} : /\ task'[d] = task[d]
                                /\ task'[d] \notin {"stop", "cont", "mark", "signal", "wake", "term"}
  BY <1>1, CallMoves DEF Places, Midway
<1>4. /\ file' \in Files
      /\ file'.registered = file.registered /\ file'.request = file.request
      /\ file'.output = file.output /\ file'.intact = file.intact
      /\ IF pc = "signal" THEN file'.status = "cancelled" ELSE file'.status = file.status
      /\ pc = "stop" => file'.control
      /\ pc = "signal" => file'.control = file.control
      /\ pc = "signal" => sup.pc # "none"
  BY <1>1 DEF Inv, TypeOK, Files, FileStatus, OneSupervisor
<1>5. TypeOK'
  BY <1>2, <1>3, <1>4 DEF Inv, TypeOK
<1>6. OneSupervisor'
  BY <1>2, <1>3, <1>4 DEF Inv, OneSupervisor
<1>7. EndsMatch'
  BY <1>2, <1>3, <1>4 DEF Inv, EndsMatch
<1>8. Signalled'
  <2>1. Alive' = Alive /\ Over' = Over
    BY <1>2, <1>3 DEF Alive, Over
  <2>2. file'.status = "cancelled" /\ Alive =>
          group.termed \/ cut \/ \E d \in Calls : task'[d] \in {"signal", "wake", "term"}
    BY <1>1, <1>3, <1>4 DEF Inv, Signalled
  <2>3. \A d \in Calls : task'[d] = "stop" => file'.control
    BY <1>3, <1>4
  <2>4. group.stopped => file'.control \/ cut \/ \E d \in Calls : task'[d] \in {"cont", "wake"}
    BY <1>1, <1>3, <1>4 DEF Inv, Signalled
  <2> QED
    BY <1>2, <1>3, <2>1, <2>2, <2>3, <2>4 DEF Inv, Signalled
<1> QED
  BY <1>5, <1>6, <1>7, <1>8 DEF Inv

LEMMA SignalGroupStep ==
  ASSUME ArcAssumption, Inv, NEW c \in Calls, signalGroup(c) PROVE Inv'
<1> USE Assumptions
<1>1. PICK pc \in {"stopped", "resumed", "term", "wait"} :
        /\ Turn(c) /\ Goto(c, pc)
        /\ pc = "stopped" =>
              /\ task[c] = "stop"
              /\ group' = [group EXCEPT !.stopped = Alive \/ child = "running"]
        /\ pc = "resumed" => task[c] = "cont" /\ group' = [group EXCEPT !.stopped = FALSE]
        /\ pc = "term" => task[c] = "wake" /\ group' = [group EXCEPT !.stopped = FALSE]
        /\ pc = "wait" =>
              /\ task[c] = "term" \/ (task[c] = "signal" /\ ~file.control)
              /\ group' = [group EXCEPT !.termed = TRUE]
  BY DEF signalGroup
<1>2. UNCHANGED <<file, gate, sup, child, spawns, cut, faults>>
  BY DEF signalGroup, history
<1>3. /\ row' = row /\ daemon' = daemon /\ task' \in [Tasks -> Places]
      /\ task'[c] = pc
      /\ \A u \in Tasks \ {c} : task'[u] = task[u] /\ task[u] \notin Midway
      /\ task'["launch"] = task["launch"] /\ task["launch"] \notin {"request", "spawn"}
      /\ \A d \in Calls \ {c} : /\ task'[d] = task[d]
                                /\ task'[d] \notin {"stop", "cont", "mark", "signal", "wake", "term"}
  BY <1>1, CallMoves DEF Places, Midway
<1>4. /\ group' \in [stopped : BOOLEAN, termed : BOOLEAN]
      /\ IF pc = "wait" THEN group'.termed = TRUE ELSE group'.termed = group.termed
      /\ pc \in {"resumed", "term"} => group'.stopped = FALSE
      /\ pc = "wait" => group'.stopped = group.stopped
  <2>1. group \in [stopped : BOOLEAN, termed : BOOLEAN]
    BY DEF Inv, TypeOK
  <2>2. CASE pc = "stopped"
    <3> DEFINE b == Alive \/ child = "running"
    <3>1. group' = [group EXCEPT !.stopped = b] /\ b \in BOOLEAN
      BY <1>1, <2>2
    <3> HIDE DEF b
    <3>2. group' \in [stopped : BOOLEAN, termed : BOOLEAN]
      BY <2>1, <3>1
    <3>3. group'.termed = group.termed
      BY <2>1, <3>1
    <3> QED
      BY <2>2, <3>2, <3>3
  <2>3. CASE pc \in {"resumed", "term"}
    BY <1>1, <2>1, <2>3
  <2>4. CASE pc = "wait"
    <3>1. group' = [group EXCEPT !.termed = TRUE]
      BY <1>1, <2>4
    <3>2. group' \in [stopped : BOOLEAN, termed : BOOLEAN]
      BY <2>1, <3>1
    <3>3. group'.termed = TRUE /\ group'.stopped = group.stopped
      BY <2>1, <3>1
    <3> QED
      BY <2>4, <3>2, <3>3
  <2> QED
    BY <2>2, <2>3, <2>4
<1>5. TypeOK'
  BY <1>2, <1>3, <1>4 DEF Inv, TypeOK
<1>6. OneSupervisor' /\ EndsMatch'
  BY <1>2, <1>3 DEF Inv, OneSupervisor, EndsMatch
<1>7. Signalled'
  <2>1. Alive' = Alive /\ Over' = Over
    BY <1>2, <1>3 DEF Alive, Over
  <2>2. pc = "stopped" => file.control
    BY <1>1 DEF Inv, Signalled
  <2>3. file.status = "cancelled" /\ Alive =>
          group'.termed \/ cut \/ \E d \in Calls : task'[d] \in {"signal", "wake", "term"}
    BY <1>1, <1>3, <1>4 DEF Inv, Signalled
  <2>4. group'.stopped => file.control \/ cut \/ \E d \in Calls : task'[d] \in {"cont", "wake"}
    <3>1. \A d \in Calls \ {c} : task[d] \notin {"cont", "wake"}
      BY <1>3
    <3>2. pc = "wait" => task[c] \notin {"cont", "wake"}
      BY <1>1
    <3>3. pc \in {"stopped", "wait"} \/ ~group'.stopped
      BY <1>4
    <3>4. CASE pc = "wait"
      BY <1>4, <3>1, <3>2, <3>4 DEF Inv, Signalled
    <3> QED BY <2>2, <3>3, <3>4
  <2>5. Over /\ row.handle /\ Alive => group'.termed \/ cut
    BY <1>4 DEF Inv, Signalled
  <2>6. \A d \in Calls : task'[d] = "stop" => file.control
    BY <1>3
  <2> QED
    BY <1>2, <1>3, <2>1, <2>3, <2>4, <2>5, <2>6 DEF Signalled
<1> QED
  BY <1>5, <1>6, <1>7 DEF Inv

\* The last step of a cancel: whatever the supervisor did, it is gone.
LEMMA StoppedStep ==
  ASSUME ArcAssumption, Inv, NEW c \in Calls, Stopped(c) PROVE Inv'
<1> USE Assumptions
<1>1. Turn(c) /\ synchronizeRunnerState(c, "cancelled") /\ UNCHANGED <<file, gate, history>>
  BY DEF Stopped
<1>2. /\ Moves(c)
      /\ task'[c] \in {"idle", "polling", "finalizing"}
      /\ task'[c] = "finalizing" => sup.pc = "dead"
      /\ row'.handle = row.handle
      /\ Over => row' = row
      /\ \/ row'.status = row.status
         \/ row'.status \in {"running", "paused"}
         \/ row'.status = "cancelled"
         \/ sup.pc = "dead" /\ Justified(row'.status)
  BY <1>1, Synchronized
<1>3. /\ sup' \in [pc : {"none", "booting", "registered", "launched", "serving", "finalizing",
                         "dead"}, seen : FileStatus]
      /\ child' \in {"none", "running"} \cup Ended
      /\ group' \in [stopped : BOOLEAN, termed : BOOLEAN]
      /\ sup'.pc = IF sup.pc = "none" THEN "none" ELSE "dead"
      /\ group'.stopped => group.stopped
  <2>1. CASE Alive
    <3>1. /\ sup' = [pc |-> "dead", seen |-> "none"]
          /\ child' = IF child = "running" THEN "failed" ELSE child
          /\ group' = [group EXCEPT !.stopped = FALSE]
      BY <2>1 DEF Stopped
    <3>2. /\ group \in [stopped : BOOLEAN, termed : BOOLEAN]
          /\ child \in {"none", "running"} \cup Ended /\ sup.pc # "none"
      BY <2>1 DEF Inv, TypeOK, Alive
    <3>3. group' \in [stopped : BOOLEAN, termed : BOOLEAN] /\ ~group'.stopped
      BY <3>1, <3>2
    <3> QED
      BY <3>1, <3>2, <3>3 DEF FileStatus, Ended
  <2>2. CASE ~Alive
    BY <2>2 DEF Stopped, Inv, TypeOK, processes, Alive
  <2> QED
    BY <2>1, <2>2
<1>4. \A d \in Calls \ {c} : task'[d] = task[d] /\ task[d] \notin Midway
  BY <1>1, <1>2 DEF Moves, Turn
<1>5. task["launch"] \notin Midway /\ task'["launch"] = task["launch"]
  BY <1>1, <1>2 DEF Moves, Turn
<1>6. TypeOK'
  BY <1>1, <1>2, <1>3 DEF Inv, TypeOK, Moves, history
<1>7. OneSupervisor'
  BY <1>1, <1>2, <1>3, <1>4, <1>5 DEF Inv, OneSupervisor, history, Midway
<1>8. EndsMatch'
  <2>1. \A t \in Tasks : task'[t] = "finalizing" => sup'.pc = "dead"
    BY <1>2, <1>3 DEF Inv, EndsMatch, Moves
  <2>2. /\ row'.status \in {"completed", "partial"} => file.output = row'.status
        /\ row'.status = "failed" => /\ sup'.pc = "dead"
                                     /\ file.output \in {"none", "failed"} \/ ~file.intact
    BY <1>2, <1>3 DEF Inv, EndsMatch, Justified, Readable
  <2> QED
    BY <1>1, <1>3, <2>1, <2>2 DEF Inv, EndsMatch
<1>9. Signalled'
  <2>1. ~Alive' /\ cut' = cut /\ file' = file
    BY <1>1, <1>3 DEF Alive, history
  <2>2. \A d \in Calls : task'[d] # "stop"
    BY <1>2, <1>4 DEF Midway
  <2>3. group.stopped => file.control \/ cut
    <3>1. task[c] = "wait"
      BY DEF Stopped
    <3> QED
      BY <1>4, <3>1 DEF Inv, Signalled, Midway
  <2> QED
    BY <1>3, <2>1, <2>2, <2>3 DEF Signalled
<1> QED
  BY <1>6, <1>7, <1>8, <1>9 DEF Inv

-----------------------------------------------------------------------------
(* The supervisor, the pipeline, and what fails.                            *)

Supervisors == [pc : {"none", "booting", "registered", "launched", "serving", "finalizing", "dead"},
                seen : FileStatus]

\* A step of the supervisor: it says that the run has ended with its last breath only.
LEMMA SupervisorGoesOn ==
  ASSUME ArcAssumption, Inv, Alive, UNCHANGED <<daemon, row, task, gate, group, spawns, cut>>,
         faults' = faults \/ Fault,
         sup' \in Supervisors, sup'.pc # "none", child' \in {"none", "running"} \cup Ended,
         file' \in Files, file'.request = file.request, file'.control = file.control,
         file'.output = file.output \/ sup.pc \notin {"finalizing", "dead"},
         file'.intact = file.intact,
         file'.output # "none" => sup'.pc \in {"finalizing", "dead"},
         file'.status \in {"completed", "failed"} => sup'.pc = "dead",
         file'.status = "cancelled" => file.status = "cancelled" \/ sup'.pc = "dead"
  PROVE  Inv'
<1>1. faults' \in 0..MaxFaults
  BY FaultCounts DEF Inv, TypeOK
<1>2. TypeOK'
  BY <1>1 DEF Inv, TypeOK, Supervisors
<1>3. OneSupervisor'
  BY DEF Inv, OneSupervisor, Alive
<1>4. EndsMatch'
  BY DEF Inv, EndsMatch, Alive
<1>5. Signalled'
  <2>1. Alive' => sup'.pc # "dead"
    BY DEF Alive
  <2> QED
    BY <2>1 DEF Inv, Signalled, Over
<1> QED
  BY <1>2, <1>3, <1>4, <1>5 DEF Inv

LEMMA RegisterStep == ASSUME ArcAssumption, Inv, Register PROVE Inv'
<1>1. /\ sup.pc = "booting" /\ sup'.pc = "registered" /\ sup' \in Supervisors
      /\ file' = [file EXCEPT !.status = "starting", !.registered = TRUE]
      /\ UNCHANGED <<daemon, row, task, gate, child, group, spawns, cut, faults>>
  BY DEF Register, Runs, At, Supervisors, FileStatus, service, history
<1>2. /\ file' \in Files /\ file'.request = file.request /\ file'.control = file.control
      /\ file'.output = file.output /\ file'.status = "starting" /\ file'.intact = file.intact
  BY <1>1 DEF Inv, TypeOK, Files, FileStatus
<1>3. file'.output = "none"
  BY <1>1, <1>2 DEF Inv, EndsMatch
<1> QED
  BY <1>1, <1>2, <1>3, SupervisorGoesOn DEF Alive, Inv, TypeOK

\* The steps of the supervisor that write no file.
LEMMA SilentStep ==
  ASSUME ArcAssumption, Inv, launchOfficialChild \/ readRunnerState \/ SupervisorDies
  PROVE  Inv'
<1>1. /\ UNCHANGED <<daemon, row, task, file, gate, group, spawns, cut>>
      /\ faults' = faults \/ Fault
  BY DEF launchOfficialChild, readRunnerState, SupervisorDies, service, history
<1>2. /\ sup' \in Supervisors
      /\ sup'.pc = sup.pc \/ sup'.pc = "dead" \/ (sup.pc = "registered" /\ sup'.pc = "launched")
  <2>1. sup \in Supervisors /\ file.status \in FileStatus
    BY DEF Inv, TypeOK, Supervisors, Files
  <2>2. CASE readRunnerState
    <3>1. sup' = [sup EXCEPT !.seen = file.status]
      BY <2>2 DEF readRunnerState
    <3>2. sup' \in Supervisors
      BY <2>1, <3>1, Zenon DEF Supervisors
    <3>3. sup'.pc = sup.pc
      BY <2>1, <3>1 DEF Supervisors
    <3> QED
      BY <3>2, <3>3
  <2>3. CASE launchOfficialChild
    BY <2>3 DEF launchOfficialChild, Runs, At, Supervisors, FileStatus
  <2>4. CASE SupervisorDies
    <3>1. sup' = [pc |-> "dead", seen |-> "none"]
      BY <2>4 DEF SupervisorDies, At
    <3> QED
      BY <3>1 DEF Supervisors, FileStatus
  <2> QED
    BY <2>2, <2>3, <2>4
<1>3. child' \in {"none", "running"} \cup Ended
  BY DEF launchOfficialChild, readRunnerState, SupervisorDies, Inv, TypeOK
<1>4. Alive
  BY DEF launchOfficialChild, readRunnerState, SupervisorDies, Runs, Alive
<1>5. file \in Files /\ (file.output # "none" => sup'.pc \in {"finalizing", "dead"})
      /\ (file.status \in {"completed", "failed"} => sup'.pc = "dead")
  BY <1>2 DEF Inv, TypeOK, EndsMatch
<1> QED
  BY <1>1, <1>2, <1>3, <1>4, <1>5, SupervisorGoesOn DEF Alive

LEMMA WriteStateStep == ASSUME ArcAssumption, Inv, writeState PROVE Inv'
<1>1. /\ UNCHANGED <<daemon, row, task, gate, child, group, spawns, cut, faults>>
      /\ sup' \in Supervisors
      /\ \/ sup.pc = "launched" /\ sup'.pc = "serving"
         \/ sup.pc = "finalizing" /\ sup'.pc = "dead"
  BY DEF writeState, Runs, At, Supervisors, FileStatus, service, history
<1>2. PICK status \in FileStatus :
        /\ file' = file \/ file' = [file EXCEPT !.status = status]
        /\ sup'.pc = "serving" => status = "running"
        /\ status # "cancelled"
  <2>1. CASE /\ sup.pc = "launched" /\ sup'.pc = "serving"
             /\ file' = file \/ file' = [file EXCEPT !.status = "running"]
    BY <2>1 DEF FileStatus
  <2>2. CASE /\ sup'.pc = "dead"
             /\ \/ file' = file
                \/ file' = [file EXCEPT !.status = "failed"]
                \/ file' = [file EXCEPT !.status = "completed"]
    BY <2>2 DEF FileStatus
  <2> QED
    BY <2>1, <2>2 DEF writeState, Runs, At
<1>3. file' = file \/ file'.status = status
  BY <1>2 DEF Inv, TypeOK, Files
<1>4. /\ file' \in Files /\ file'.request = file.request /\ file'.control = file.control
      /\ file'.output = file.output /\ file'.intact = file.intact
  BY <1>2 DEF Inv, TypeOK, Files
<1>5. file'.output # "none" => sup'.pc \in {"finalizing", "dead"}
  BY <1>1, <1>4 DEF Inv, EndsMatch
<1>6. file'.status \in {"completed", "failed"} => sup'.pc = "dead"
  BY <1>1, <1>2, <1>3 DEF Inv, EndsMatch
<1>7. file'.status = "cancelled" => file.status = "cancelled" \/ sup'.pc = "dead"
  BY <1>2, <1>3
<1>8. Alive /\ sup'.pc # "none" /\ child' \in {"none", "running"} \cup Ended
  BY <1>1 DEF Alive, Inv, TypeOK
<1> QED
  BY <1>1, <1>4, <1>5, <1>6, <1>7, <1>8, SupervisorGoesOn

LEMMA FinalizeStep == ASSUME ArcAssumption, Inv, finalize PROVE Inv'
<1>1. /\ UNCHANGED <<daemon, row, task, gate, child, group, spawns, cut>>
      /\ faults' = faults \/ Fault
      /\ sup.pc = "serving" /\ sup'.pc = "finalizing" /\ sup' \in Supervisors
      /\ child \in Ended
      /\ file' = file \/ file' = [file EXCEPT !.output = child]
  BY DEF finalize, Runs, At, Supervisors, FileStatus, service
<1>2. /\ file' \in Files /\ file'.request = file.request /\ file'.control = file.control
      /\ file'.status = file.status /\ file'.intact = file.intact
  BY <1>1 DEF Inv, TypeOK, Files
<1>3. file'.status \notin {"completed", "failed"}
  BY <1>1, <1>2 DEF Inv, EndsMatch
<1> QED
  BY <1>1, <1>2, <1>3, SupervisorGoesOn DEF Alive

LEMMA TerminatedStep == ASSUME ArcAssumption, Inv, Terminated PROVE Inv'
<1>1. /\ UNCHANGED <<daemon, row, task, gate, child, group, spawns, cut, faults>>
      /\ sup.pc \in {"booting", "registered", "serving"}
      /\ sup'.pc = "dead" /\ sup' \in Supervisors
      /\ file' = file \/ file' = [file EXCEPT !.status = "cancelled"]
  BY DEF Terminated, At, Supervisors, FileStatus, service, history
<1>2. /\ file' \in Files /\ file'.request = file.request /\ file'.control = file.control
      /\ file'.output = file.output /\ file'.intact = file.intact
  BY <1>1 DEF Inv, TypeOK, Files, FileStatus
<1> QED
  BY <1>1, <1>2, SupervisorGoesOn DEF Alive, Inv, TypeOK

\* The gate and the pipeline do not occur in the invariant, but for their types.
LEMMA PipelineStep ==
  ASSUME ArcAssumption, Inv, submitHitl \/ pumpHitlBridge \/ ChildEnds \/ Gate PROVE Inv'
<1>1. UNCHANGED <<daemon, row, task, file, sup, group, spawns, cut, faults>>
  BY DEF submitHitl, pumpHitlBridge, ChildEnds, Gate, service, processes, history
<1>2. /\ gate' \in {"none", "waiting", "published", "decided", "forwarded", "passed"}
      /\ child' \in {"none", "running"} \cup Ended
  BY DEF submitHitl, pumpHitlBridge, ChildEnds, Gate, processes, Inv, TypeOK, Ended
<1>3. TypeOK'
  BY <1>1, <1>2 DEF Inv, TypeOK
<1>4. OneSupervisor' /\ EndsMatch' /\ Signalled'
  BY <1>1 DEF Inv, OneSupervisor, EndsMatch, Signalled, Over, Alive
<1> QED
  BY <1>3, <1>4 DEF Inv

\* An envelope that is spoiled is none any more.
LEMMA SpoiledStep == ASSUME ArcAssumption, Inv, EnvelopeSpoiled PROVE Inv'
<1>1. /\ UNCHANGED <<daemon, row, task, gate, sup, child, group, spawns, cut>>
      /\ Fault /\ file' = [file EXCEPT !.intact = FALSE]
  BY DEF EnvelopeSpoiled, service, processes
<1>2. /\ file' \in Files /\ ~file'.intact
      /\ file'.status = file.status /\ file'.registered = file.registered
      /\ file'.request = file.request /\ file'.control = file.control
      /\ file'.output = file.output
  BY <1>1 DEF Inv, TypeOK, Files
<1>3. TypeOK'
  BY <1>1, <1>2, FaultCounts DEF Inv, TypeOK
<1>4. OneSupervisor' /\ EndsMatch' /\ Signalled'
  BY <1>1, <1>2 DEF Inv, OneSupervisor, EndsMatch, Signalled, Over, Alive
<1> QED
  BY <1>3, <1>4 DEF Inv

\* The service is gone in the middle of whatever it did.
LEMMA ServiceGoneStep == ASSUME ArcAssumption, Inv, Crash \/ Reboot PROVE Inv'
<1> USE Assumptions
<1>1. /\ daemon' = "down" /\ task' = [t \in Tasks |-> "idle"]
      /\ cut' = (cut \/ \E c \in Calls : task[c] \in {"cont", "signal", "wake", "term"})
      /\ UNCHANGED <<row, file, gate, spawns>> /\ Fault
  BY DEF Crash, Reboot, ServiceGone
<1>2. /\ task' \in [Tasks -> Places] /\ \A t \in Tasks : task'[t] = "idle"
      /\ task'["launch"] = "idle" /\ \A c \in Calls : task'[c] = "idle"
  BY <1>1 DEF Places
<1>3. /\ sup' \in Supervisors /\ child' \in {"none", "running"} \cup Ended
      /\ group' \in [stopped : BOOLEAN, termed : BOOLEAN]
      /\ sup'.pc = sup.pc \/ (sup.pc # "none" /\ sup'.pc = "dead")
      /\ group' = group \/ (sup'.pc \in {"none", "dead"} /\ group'.stopped = FALSE)
  <2>1. /\ sup \in Supervisors /\ child \in {"none", "running"} \cup Ended
        /\ group \in [stopped : BOOLEAN, termed : BOOLEAN]
    BY DEF Inv, TypeOK, Supervisors
  <2>2. CASE Crash
    <3>1. sup' = sup /\ child' = child /\ group' = group
      BY <2>2 DEF Crash, processes
    <3> QED
      BY <2>1, <3>1
  <2>3. CASE Reboot
    <3>1. /\ sup' = [pc |-> IF Alive THEN "dead" ELSE sup.pc, seen |-> "none"]
          /\ child' = IF child = "running" THEN "failed" ELSE child
          /\ group' = [stopped |-> FALSE, termed |-> FALSE]
      BY <2>3 DEF Reboot
    <3>2. /\ sup'.pc = IF Alive THEN "dead" ELSE sup.pc
          /\ sup' \in Supervisors
      <4>1. CASE Alive
        <5>1. sup' = [pc |-> "dead", seen |-> "none"]
          BY <3>1, <4>1
        <5> QED
          BY <4>1, <5>1 DEF Supervisors, FileStatus
      <4>2. CASE ~Alive
        <5>1. sup' = [pc |-> sup.pc, seen |-> "none"]
          BY <3>1, <4>2
        <5>2. sup.pc \in {"none", "dead"}
          BY <4>2 DEF Alive
        <5> QED
          BY <4>2, <5>1, <5>2 DEF Supervisors, FileStatus
      <4> QED
        BY <4>1, <4>2
    <3>3. sup'.pc \in {"none", "dead"} /\ (sup'.pc = sup.pc \/ (sup.pc # "none" /\ sup'.pc = "dead"))
      BY <3>2 DEF Alive
    <3>4. group'.stopped = FALSE /\ group' \in [stopped : BOOLEAN, termed : BOOLEAN]
      BY <3>1, Zenon
    <3>5. child' \in {"none", "running"} \cup Ended
      BY <2>1, <3>1 DEF Ended
    <3> QED
      BY <3>2, <3>3, <3>4, <3>5, Zenon
  <2> QED
    BY <2>2, <2>3
<1>4. faults' \in 0..MaxFaults
  BY <1>1, FaultCounts DEF Inv
<1>5. cut' \in BOOLEAN
  BY <1>1
<1>6. TypeOK'
  BY <1>1, <1>2, <1>3, <1>4, <1>5 DEF Inv, TypeOK, Supervisors
<1>7. OneSupervisor' /\ EndsMatch'
  BY <1>1, <1>2, <1>3 DEF Inv, OneSupervisor, EndsMatch
<1>8. Signalled'
  <2>1. file.status = "cancelled" /\ Alive => group.termed \/ cut'
    BY <1>1 DEF Inv, Signalled
  <2>2. Over /\ row.handle /\ Alive => group.termed \/ cut'
    BY <1>1 DEF Inv, Signalled
  <2>3. group.stopped => file.control \/ cut'
    BY <1>1 DEF Inv, Signalled
  <2>4. Alive' => Alive /\ group' = group
    BY <1>3 DEF Alive
  <2>5. group'.stopped => group.stopped
    BY <1>3
  <2>6. Over' = Over
    BY <1>1 DEF Over
  <2> QED
    BY <1>1, <1>2, <2>1, <2>2, <2>3, <2>4, <2>5, <2>6 DEF Signalled
<1> QED
  BY <1>6, <1>7, <1>8 DEF Inv

-----------------------------------------------------------------------------

LEMMA NextInv == ArcAssumption /\ Inv /\ [Next]_vars => Inv'
<1> SUFFICES ASSUME ArcAssumption, Inv, [Next]_vars PROVE Inv'
  OBVIOUS
<1>1. CASE start \/ Refused \/ Launch
  BY <1>1, StartStep, RefusedStep, OpenRunStep, WriteRequestStep, SpawnStep, RegistrationStep
  DEF Launch
<1>2. CASE settle \/ recoverRunning \/ performRecovery
  BY <1>2, SettleStep, RecoverStep, PerformRecoveryStep
<1>3. CASE \E t \in Tasks : finalizeFinished(t)
  BY <1>3, FinalizeFinishedStep
<1>4. CASE \E c \in Calls : pause(c) \/ resume(c) \/ cancel(c) \/ Proceed(c)
  BY <1>4, PauseStep, ResumeStep, CancelStep, WriteControlStep, SignalGroupStep, AnsweredStep,
     StoppedStep DEF Proceed
<1>5. CASE Supervisor \/ SupervisorDies
  BY <1>5, RegisterStep, SilentStep, WriteStateStep, FinalizeStep, TerminatedStep DEF Supervisor
<1>6. CASE submitHitl \/ pumpHitlBridge \/ ChildEnds \/ Gate
  BY <1>6, PipelineStep
<1>7. CASE Crash \/ Reboot \/ EnvelopeSpoiled
  BY <1>7, ServiceGoneStep, SpoiledStep
<1>8. CASE UNCHANGED vars
  BY <1>8 DEF vars, Inv, TypeOK, OneSupervisor, EndsMatch, Signalled, Over, Alive
<1> QED
  BY <1>1, <1>2, <1>3, <1>4, <1>5, <1>6, <1>7, <1>8 DEF Next

\* The invariant: what the files and the places of the tasks tell about the supervisor.
THEOREM InvHolds == Spec => []Inv
<1>1. ArcAssumption
  BY ArcAssumption
<1> QED
  BY <1>1, InitInv, NextInv, PTL DEF Spec

\* Every variable has its type, whatever dies and in whatever order the turns come.
THEOREM TypeOKHolds == Spec => []TypeOK
<1>1. Inv => TypeOK
  BY DEF Inv
<1> QED
  BY <1>1, InvHolds, PTL

\* The processes follow the row: a run has one supervisor, an ended run has told it to go,
\* and a stopped group can be continued.
THEOREM PipelineHolds == Spec => []PipelineFollowsRow
<1>1. Inv => PipelineFollowsRow
  <2> SUFFICES ASSUME Inv PROVE PipelineFollowsRow
    OBVIOUS
  <2>1. spawns <= 1
    BY DEF Inv, OneSupervisor
  <2>2. Over /\ row.handle /\ Alive => group.termed \/ cut
    BY DEF Inv, Signalled
  <2>3. group.stopped => file.control \/ cut \/ \E c \in Calls : task[c] \in {"cont", "wake"}
    BY DEF Inv, Signalled
  <2> QED
    BY <2>1, <2>2, <2>3 DEF PipelineFollowsRow
<1> QED
  BY <1>1, InvHolds, PTL

\* No step leaves an end: whoever synchronizes the row looks first whether it is over.
LEMMA OverStays == ASSUME ArcAssumption, Over, [Next]_vars PROVE row' = row
<1>1. \A t, r : Finish(t, r) => row' = r
  BY DEF Finish
<1>2. \A t, result : synchronizeRunnerState(t, result) => row' = row
  BY <1>1 DEF synchronizeRunnerState, Decided
<1>3. Launched => row' = row
  BY <1>1 DEF Launched, Over, Terminal, Ended
<1>4. \A t, pc : Goto(t, pc) => row' = row
  BY DEF Goto
<1>5. CASE start \/ Refused \/ Launch
  BY <1>1, <1>3, <1>4, <1>5
  DEF start, Refused, Launch, OpenRun, WriteRequest, spawnDetachedSupervisor,
      awaitRegistration, Over, Terminal, Ended
<1>6. CASE settle \/ recoverRunning \/ performRecovery
  BY <1>1, <1>2, <1>6 DEF settle, recoverRunning, performRecovery
<1>7. CASE \E t \in Tasks : finalizeFinished(t)
  BY <1>1, <1>7 DEF finalizeFinished
<1>8. CASE \E c \in Calls : pause(c) \/ resume(c) \/ cancel(c)
  BY <1>8 DEF pause, resume, cancel, Over, Terminal, Ended
<1>9. CASE \E c \in Calls : Proceed(c)
  BY <1>2, <1>4, <1>9 DEF Proceed, WriteControl, signalGroup, Answered, Stopped
<1>10. CASE Supervisor \/ SupervisorDies
  BY <1>10 DEF Supervisor, Register, launchOfficialChild, readRunnerState, writeState, finalize,
               Terminated, SupervisorDies, service
<1>11. CASE submitHitl \/ pumpHitlBridge \/ ChildEnds \/ Gate
  BY <1>11 DEF submitHitl, pumpHitlBridge, ChildEnds, Gate, service
<1>12. CASE Crash \/ Reboot \/ EnvelopeSpoiled \/ UNCHANGED vars
  BY <1>12 DEF Crash, Reboot, EnvelopeSpoiled, service, vars
<1> QED
  BY <1>5, <1>6, <1>7, <1>8, <1>9, <1>10, <1>11, <1>12 DEF Next

\* A recorded end stays and says what the pipeline did: completed and partial are the word of
\* the envelope, and failed means that there is none, that it says so or that it does not
\* validate any more.
THEOREM EndsHold == Spec => EndIsTrue
<1>1. ArcAssumption
  BY ArcAssumption
<1> DEFINE A == /\ Over => row' = row
                /\ row'.status \in {"completed", "partial"} => file'.output = row'.status
                /\ row'.status = "failed" => file'.output \in {"none", "failed"} \/ ~file'.intact
<1>2. Inv' => /\ row'.status \in {"completed", "partial"} => file'.output = row'.status
              /\ row'.status = "failed" => file'.output \in {"none", "failed"} \/ ~file'.intact
  BY DEF Inv, EndsMatch
<1>3. Inv' /\ [Next]_vars => A
  BY <1>1, <1>2, OverStays
<1> HIDE DEF A
<1>4. Spec => [][A]_vars
  BY <1>3, InvHolds, PTL DEF Spec
<1>5. EndIsTrue <=> [][A]_vars
  BY DEF EndIsTrue, A
<1> QED
  BY <1>4, <1>5, PTL

=============================================================================
