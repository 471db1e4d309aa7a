---------------------------- MODULE TaskScheduler ----------------------------
(***************************************************************************)
(* The bridge's scheduler (src/scheduler/task-scheduler.ts) for one chat:  *)
(* one-time tasks, recurring tasks that spawn a one-time child per         *)
(* occurrence, their timers, and the JSON file that a restart reloads.     *)
(*                                                                         *)
(* One action is one API call, one timer callback, or the part of          *)
(* fireTask after its await of executeApiTask.  Each ends in saveToDisk,   *)
(* which logs and swallows its errors, unless nextCronOccurrence throws    *)
(* before: it does for a time zone that does not exist, which nobody has   *)
(* validated (cron expressions are).  The clock is abstracted to the       *)
(* position of a task's executeAt: beyond what setTimeout can count, later *)
(* or reached.  A history lasts less than the seven days after which       *)
(* finished tasks are pruned.                                              *)
(***************************************************************************)
EXTENDS Naturals, FiniteSets

CONSTANTS
    Task,           \* task ids (randomUUID): each is used once
    Recurring,      \* ids of recurring tasks, numbered in the order of their creation
    None,           \* an absent id
    Key,            \* dedupe keys of system-created tasks
    NoKey,
    MaxTimers,      \* bounds of the model: live timers of a recurring task,
    MaxFaults,      \* saves that fail,
    MaxStops        \* and stops of the bridge

ASSUME NoneAssumption  == None \notin Task \cup Recurring
ASSUME OrderAssumption == Recurring \subseteq Nat
ASSUME BoundAssumption == MaxTimers \in Nat \ {0} /\ {MaxFaults, MaxStops} \subseteq Nat

VARIABLES
    tasks,      \* Map tasks: a function on the ids in memory
    when,       \* where executeAt of a task lies
    timers,     \* its timer: none, one that fires at executeAt, or one that fires at once
    recurring,  \* Map recurringTasks
    live,       \* number of armed timers of a recurring task
    mapped,     \* recurring tasks whose entry in recurringTimers is an armed timer
    awaiting,   \* children awaited by a suspended fireRecurringInstance
    disk,       \* scheduled-tasks.json
    mode,       \* "up", "closing" (destroy was called), "dying" (a rejection that nobody
                \* handles), "down"
    begun,      \* history: executions begun per task id
    keyOf,      \* history: the key of every id used
    promised,   \* history: ids returned by scheduleTaskDurably
    faults, stops

memory  == <<tasks, timers, recurring, live, mapped, awaiting>>
history == <<begun, keyOf, promised>>
vars    == <<memory, when, disk, mode, history, faults, stops>>

-----------------------------------------------------------------------------

Status == {"pending", "executing", "completed", "failed", "cancelled"}

\* waited: busySince is set.
TaskRecord == [status : Status, key : Key \cup {NoKey},
               parent : Recurring \cup {None}, waited : BOOLEAN]

\* valid: nextCronOccurrence finds an occurrence.
RecurringRecord == [status : {"active", "paused", "cancelled"}, child : Task \cup {None},
                    valid : BOOLEAN]

Tables(ts, rs) == /\ DOMAIN ts \subseteq Task      /\ ts \in [DOMAIN ts -> TaskRecord]
                  /\ DOMAIN rs \subseteq Recurring /\ rs \in [DOMAIN rs -> RecurringRecord]

\* Memory and file hold well-formed tables, a timer belongs to a task in memory, and an
\* awaited child is being executed.
TypeOK ==
    /\ Tables(tasks, recurring)
    /\ Tables(disk.tasks, disk.recurring)
    /\ when \in [Task -> {"far", "later", "due"}]
    /\ timers \in [Task -> {"none", "at executeAt", "at once"}]
    /\ \A t \in Task : timers[t] # "none" => t \in DOMAIN tasks
    /\ live \in [Recurring -> 0..MaxTimers]
    /\ \A r \in mapped : r \in DOMAIN recurring /\ live[r] > 0
    /\ \A c \in awaiting : tasks[c].status = "executing" /\ tasks[c].parent \in DOMAIN recurring
    /\ mode \in {"up", "closing", "dying", "down"}

Nothing == [x \in {} |-> {}]

Init ==
    /\ tasks = Nothing
    /\ when = [t \in Task |-> "later"]
    /\ timers = [t \in Task |-> "none"]
    /\ recurring = Nothing
    /\ live = [r \in Recurring |-> 0]
    /\ mapped = {}
    /\ awaiting = {}
    /\ disk = [tasks |-> Nothing, recurring |-> Nothing]
    /\ mode = "up"
    /\ begun = [t \in Task |-> 0]
    /\ keyOf = Nothing
    /\ promised = {}
    /\ faults = 0
    /\ stops = 0

Used == DOMAIN keyOf
IsPending(t) == t \in DOMAIN tasks /\ tasks[t].status = "pending"
IsActive(r)  == r \in DOMAIN recurring /\ recurring[r].status = "active"
IsValid(r)   == recurring[r].valid
Executing    == {t \in DOMAIN tasks : tasks[t].status = "executing"}

With(f, x, v) == [y \in DOMAIN f \cup {x} |-> IF y = x THEN v ELSE f[y]]

NewTask(key, parent) == [status |-> "pending", key |-> key, parent |-> parent, waited |-> FALSE]

-----------------------------------------------------------------------------
(* Steps shared by the handlers.  A definition whose name ends in _Bug is   *)
(* not part of the model: it is a plausible mistake a property must catch.  *)

\* saveToDisk(): the file is replaced by rename, or stays as it was.
SaveFails == faults < MaxFaults /\ faults' = faults + 1 /\ UNCHANGED disk
SaveSucceeds == disk' = [tasks |-> tasks', recurring |-> recurring'] /\ UNCHANGED faults
Save == SaveSucceeds \/ SaveFails

\* setTimer: setTimeout clamps a delay of more than 2^31 - 1 ms to 1 ms.
Timer(at) == IF at = "far" THEN "at once" ELSE "at executeAt"
SetTimer(t, at) == timers' = [timers EXCEPT ![t] = Timer(at)]

\* setRecurringTimer overwrites the map's entry and leaves an armed timer alone.
SetRecurringTimer(r, armed) ==
    /\ armed < MaxTimers
    /\ live' = [live EXCEPT ![r] = armed + 1]
    /\ mapped' = mapped \cup {r}

\* The timers of r that remain after clearTimeout of the map's entry.
Unmapped(r) == live[r] - Cardinality(mapped \cap {r})

-----------------------------------------------------------------------------
(* One-time tasks.                                                          *)

Deduplicated(key) ==
    key # NoKey /\ \E t \in DOMAIN tasks : tasks[t].key = key /\ tasks[t].status # "cancelled"

\* A call whose key is taken returns the task that has it, and changes nothing.
Enqueue(t, key, at) ==
    /\ tasks' = With(tasks, t, NewTask(key, None))
    /\ keyOf' = With(keyOf, t, key)
    /\ when' = [when EXCEPT ![t] = at]
    /\ SetTimer(t, at)

\* Its callers give no key.
ScheduleTask(t, at) ==
    /\ mode = "up"
    /\ t \notin Used
    /\ UNCHANGED <<recurring, live, mapped, awaiting, mode, begun, promised, stops>>
    /\ Enqueue(t, NoKey, at)
    /\ Save

\* scheduleTaskDurably: without a successful save the task is taken back and the call throws.
StrictSave_Bug == Save
StrictSave == SaveSucceeds

ScheduleTaskDurably(t, key, at) ==
    /\ mode = "up"
    /\ t \notin Used
    /\ ~Deduplicated(key)
    /\ UNCHANGED <<recurring, live, mapped, awaiting, mode, begun, stops>>
    /\ \/ /\ Enqueue(t, key, at)
          /\ promised' = promised \cup {t}
          /\ StrictSave
       \/ /\ SaveFails
          /\ UNCHANGED <<tasks, keyOf, when, timers, promised>>

\* updateTask with a new delay.
UpdateTask(t, at) ==
    /\ mode = "up"
    /\ IsPending(t)
    /\ tasks' = [tasks EXCEPT ![t].waited = FALSE]
    /\ when' = [when EXCEPT ![t] = at]
    /\ SetTimer(t, at)
    /\ UNCHANGED <<recurring, live, mapped, awaiting, mode, history, stops>>
    /\ Save

\* updateTask or updateRecurring of a prompt, label or sendCards.
Edit ==
    /\ mode = "up"
    /\ (\E t \in DOMAIN tasks : IsPending(t)) \/ (\E r \in DOMAIN recurring : recurring[r].status # "cancelled")
    /\ UNCHANGED <<memory, when, mode, history, stops>>
    /\ Save

CancelTask(t) ==
    /\ mode = "up"
    /\ IsPending(t)
    /\ tasks' = [tasks EXCEPT ![t].status = "cancelled"]
    /\ timers' = [timers EXCEPT ![t] = "none"]
    /\ UNCHANGED <<recurring, live, mapped, awaiting, when, mode, history, stops>>
    /\ Save

\* What fireTask makes of a pending task before its first await: it fails (unknown bot,
\* or the retry window of a busy chat is over), is deferred, or begins to execute; another
\* task may still be executed then, if /stop has freed the chat of it.
Fired(task) == {[task EXCEPT !.status = "failed"], [task EXCEPT !.waited = TRUE],
                [task EXCEPT !.status = "executing", !.waited = FALSE]}

Rearmed_Bug(task) == "none"
Rearmed(task) == IF task.status = "pending" THEN "at executeAt" ELSE "none"

\* fireTask on a pending task t with executeAt `at' ends its synchronous part with the
\* record next.
Fire(t, next, at) ==
    /\ tasks' = With(tasks, t, next)
    /\ timers' = [timers EXCEPT ![t] = Rearmed(next)]
    /\ when' = [when EXCEPT ![t] = IF next.status = "pending" THEN "later" ELSE at]
    /\ begun' = [begun EXCEPT ![t] = IF next.status = "executing" THEN @ + 1 ELSE @]

TimerIsUp(t) == timers[t] = "at once" \/ (timers[t] = "at executeAt" /\ when[t] = "due")

FireTask(t) ==
    /\ mode # "dying"
    /\ TimerIsUp(t)
    /\ IF IsPending(t)
         THEN /\ \E next \in Fired(tasks[t]) : Fire(t, next, when[t])
              /\ UNCHANGED <<recurring, keyOf, promised>>
              /\ Save
         ELSE /\ timers' = [timers EXCEPT ![t] = "none"]
              /\ UNCHANGED <<tasks, recurring, when, history, disk, faults>>
    /\ UNCHANGED <<live, mapped, awaiting, mode, stops>>

TimePasses(t) ==
    /\ mode # "dying"
    /\ t \in Used
    /\ when[t] # "due"
    /\ when' = [when EXCEPT ![t] = IF @ = "far" THEN "later" ELSE "due"]
    /\ UNCHANGED <<memory, disk, mode, history, faults, stops>>

-----------------------------------------------------------------------------
(* Recurring tasks.  Whether a timer of theirs is due is the clock's choice. *)

ScheduleRecurring(r) ==
    /\ mode = "up"
    /\ \A q \in DOMAIN recurring \cup DOMAIN disk.recurring : q < r
    /\ recurring' = With(recurring, r, [status |-> "active", child |-> None, valid |-> TRUE])
    /\ SetRecurringTimer(r, 0)
    /\ UNCHANGED <<tasks, timers, awaiting, when, mode, history, stops>>
    /\ Save

\* updateRecurring with another cron expression or time zone.  Of an active task the timer has
\* been cleared when nextCronOccurrence throws: then nothing is armed and nothing saved.
UpdateRecurring(r, valid) ==
    /\ mode = "up"
    /\ r \in DOMAIN recurring /\ recurring[r].status # "cancelled"
    /\ recurring' = [recurring EXCEPT ![r].valid = valid]
    /\ UNCHANGED <<tasks, timers, awaiting, when, mode, history, stops>>
    /\ \/ ~IsActive(r) /\ UNCHANGED <<live, mapped>> /\ Save
       \/ IsActive(r) /\ valid /\ SetRecurringTimer(r, Unmapped(r)) /\ Save
       \/ /\ IsActive(r) /\ ~valid
          /\ live' = [live EXCEPT ![r] = Unmapped(r)]
          /\ mapped' = mapped \ {r}
          /\ UNCHANGED <<disk, faults>>

PauseRecurring(r) ==
    /\ mode = "up"
    /\ IsActive(r)
    /\ recurring' = [recurring EXCEPT ![r].status = "paused"]
    /\ live' = [live EXCEPT ![r] = Unmapped(r)]
    /\ mapped' = mapped \ {r}
    /\ UNCHANGED <<tasks, timers, awaiting, when, mode, history, stops>>
    /\ Save

\* The task is active before nextCronOccurrence throws.
ResumeRecurring(r) ==
    /\ mode = "up"
    /\ r \in DOMAIN recurring /\ recurring[r].status = "paused"
    /\ recurring' = [recurring EXCEPT ![r].status = "active"]
    /\ UNCHANGED <<tasks, timers, awaiting, when, mode, history, stops>>
    /\ \/ IsValid(r) /\ SetRecurringTimer(r, live[r]) /\ Save
       \/ ~IsValid(r) /\ UNCHANGED <<live, mapped, disk, faults>>

\* cancelRecurring, with the cancelTask of its current child.
CancelRecurring(r) ==
    LET c == recurring[r].child IN
    /\ mode = "up"
    /\ r \in DOMAIN recurring /\ recurring[r].status # "cancelled"
    /\ recurring' = [recurring EXCEPT ![r].status = "cancelled", ![r].child = None]
    /\ live' = [live EXCEPT ![r] = Unmapped(r)]
    /\ mapped' = mapped \ {r}
    /\ IF IsPending(c)
         THEN /\ tasks' = [tasks EXCEPT ![c].status = "cancelled"]
              /\ timers' = [timers EXCEPT ![c] = "none"]
         ELSE UNCHANGED <<tasks, timers>>
    /\ UNCHANGED <<awaiting, when, mode, history, stops>>
    /\ Save

\* A timer of r fires: fireRecurringInstance creates the child c, runs fireTask on it,
\* and goes on at once unless the child executes.  If it throws then, nobody handles the
\* rejection: fireTask has saved the child with its link, and the process ends.
FireInstance(r, c) ==
    /\ mode # "dying"
    /\ IsActive(r) /\ live[r] > 0
    /\ c \notin Used
    /\ keyOf' = With(keyOf, c, NoKey)
    /\ \E next \in Fired(NewTask(NoKey, r)) :
          /\ Fire(c, next, "due")
          /\ IF next.status # "executing" /\ IsValid(r)
               THEN /\ recurring' = [recurring EXCEPT ![r].child = None]
                    /\ SetRecurringTimer(r, live[r] - 1)
               ELSE /\ recurring' = [recurring EXCEPT ![r].child = c]
                    /\ live' = [live EXCEPT ![r] = @ - 1]
                    /\ mapped' = mapped \ {r}
          /\ awaiting' = IF next.status = "executing" THEN awaiting \cup {c} ELSE awaiting
          /\ mode' = IF next.status # "executing" /\ ~IsValid(r) THEN "dying" ELSE mode
    /\ UNCHANGED <<promised, stops>>
    /\ Save

\* A timer that clearTimeout has missed fires for a task that is not active.
FireInactive(r) ==
    /\ mode # "dying"
    /\ r \in DOMAIN recurring /\ ~IsActive(r)
    /\ live[r] > 0
    /\ live' = [live EXCEPT ![r] = @ - 1]
    /\ \/ r \in mapped /\ mapped' = mapped \ {r}
       \/ Unmapped(r) > 0 /\ UNCHANGED mapped
    /\ UNCHANGED <<tasks, timers, recurring, awaiting, when, disk, mode, history, faults, stops>>

\* The re-check timer of an occurrence more than 24.8 days away.
Recheck(r) ==
    /\ mode # "dying"
    /\ live[r] > 0
    /\ mapped' = mapped \cup {r}
    /\ UNCHANGED <<tasks, timers, recurring, live, awaiting, when, disk, mode, history, faults, stops>>

\* The rest of the fireRecurringInstance that awaited its child.
Continue_Bug(r) ==
    recurring' = [recurring EXCEPT ![r].child = None] /\ UNCHANGED <<live, mapped, mode>>
Continue(r) ==
    IF IsActive(r) /\ ~IsValid(r)
    THEN mode' = "dying" /\ UNCHANGED <<recurring, live, mapped>>
    ELSE /\ recurring' = [recurring EXCEPT ![r].child = None]
         /\ IF IsActive(r) THEN SetRecurringTimer(r, live[r]) ELSE UNCHANGED <<live, mapped>>
         /\ UNCHANGED mode

\* executeApiTask returns or throws: the rest of fireTask, and of who awaited it.
RunEnds(t, status) ==
    /\ mode # "dying"
    /\ t \in Executing
    /\ tasks' = [tasks EXCEPT ![t].status = status]
    /\ awaiting' = awaiting \ {t}
    /\ IF t \in awaiting
         THEN Continue(tasks[t].parent)
         ELSE UNCHANGED <<recurring, live, mapped, mode>>
    /\ UNCHANGED <<timers, when, history, stops>>
    /\ Save

-----------------------------------------------------------------------------
(* Shutdown, crash and restart.                                             *)

\* destroy() of a graceful shutdown: executions go on until the process exits.
Destroy ==
    /\ mode = "up"
    /\ mode' = "closing"
    /\ timers' = [t \in Task |-> "none"]
    /\ live' = [r \in Recurring |-> Unmapped(r)]
    /\ mapped' = {}
    /\ UNCHANGED <<tasks, recurring, awaiting, when, history, stops>>
    /\ Save

\* The process ends: of itself, after destroy(), or at any other time.
Crash ==
    /\ mode # "down"
    /\ \/ mode = "dying" /\ UNCHANGED stops
       \/ mode # "dying" /\ stops < MaxStops /\ stops' = stops + 1
    /\ mode' = "down"
    /\ tasks' = Nothing
    /\ recurring' = Nothing
    /\ timers' = [t \in Task |-> "none"]
    /\ live' = [r \in Recurring |-> 0]
    /\ mapped' = {}
    /\ awaiting' = {}
    /\ UNCHANGED <<when, disk, history, faults>>

\* A keyed task that was being executed is not replayed: its key stays taken.
Restored_Bug(task) == FALSE
Restored(task) == task.key # NoKey /\ task.status \in {"executing", "completed", "failed"}

\* loadFromDisk: pending tasks except the stale ones (more than a day overdue) get
\* their timer, and the child that an active recurring task was running fails.  The loop over
\* the recurring tasks ends at the first for which nextCronOccurrence throws: that one is in
\* memory, without a timer, and those after it are not.
LoadFromDisk ==
    LET ts == disk.tasks
        rs == disk.recurring
        Kept == {r \in DOMAIN rs : rs[r].status # "cancelled"}
        Throws(r) == rs[r].status = "active" /\ ~rs[r].valid
        Reached == {r \in Kept : \A q \in Kept : Throws(q) => r <= q}
        Pending == {t \in DOMAIN ts : ts[t].status = "pending"}
        Active == {r \in Reached : rs[r].status = "active"}
        Armed == {r \in Active : rs[r].valid}
        Interrupted == {rs[r].child : r \in Active}
        Loaded(t) == IF ts[t].status = "executing" \/ (t \in Interrupted /\ t \in Pending)
                     THEN [ts[t] EXCEPT !.status = "failed"] ELSE ts[t]
    IN
    /\ mode = "down"
    /\ mode' = "up"
    /\ \E stale \in SUBSET {t \in Pending : when[t] = "due"} :
          LET fresh == Pending \ stale IN
          /\ tasks' = [t \in fresh \cup {u \in DOMAIN ts : Restored(ts[u])} |-> Loaded(t)]
          /\ timers' = [t \in Task |-> IF t \in fresh THEN Timer(when[t]) ELSE "none"]
    /\ recurring' = [r \in Reached |-> IF r \in Active THEN [rs[r] EXCEPT !.child = None] ELSE rs[r]]
    /\ live' = [r \in Recurring |-> IF r \in Armed THEN 1 ELSE 0]
    /\ mapped' = Armed
    /\ UNCHANGED <<awaiting, when, disk, history, faults, stops>>

TaskStep(t) ==
    \/ \E at \in {"later", "far"} : ScheduleTask(t, at)
    \/ \E key \in Key : ScheduleTaskDurably(t, key, "due")
    \/ \E at \in {"later", "far"} : UpdateTask(t, at)
    \/ CancelTask(t)
    \/ FireTask(t)
    \/ TimePasses(t)
    \/ \E status \in {"completed", "failed"} : RunEnds(t, status)

RecurringStep(r) ==
    \/ ScheduleRecurring(r)
    \/ \E valid \in BOOLEAN : UpdateRecurring(r, valid)
    \/ PauseRecurring(r)
    \/ ResumeRecurring(r)
    \/ CancelRecurring(r)
    \/ \E c \in Task : FireInstance(r, c)
    \/ FireInactive(r)
    \/ Recheck(r)

Next ==
    \/ \E t \in Task : TaskStep(t)
    \/ \E r \in Recurring : RecurringStep(r)
    \/ Edit
    \/ Destroy
    \/ Crash
    \/ LoadFromDisk

Spec == Init /\ [][Next]_vars

-----------------------------------------------------------------------------
(* What must hold.                                                          *)

\* A pending task is never stranded: it has a timer, through deferrals, updates,
\* children that outlive their occurrence and restarts (setTimer, loadFromDisk).
PendingHasTimer == mode = "up" => \A t \in DOMAIN tasks : IsPending(t) => timers[t] # "none"

\* An active recurring task with a time zone that exists never falls silent: a timer of it is
\* armed, or an occurrence is being executed that will arm one, whatever other tasks make
\* fireRecurringInstance or loadFromDisk throw.
RecurrenceGoesOn ==
    mode = "up" => \A r \in DOMAIN recurring : IsActive(r) /\ IsValid(r) =>
        live[r] > 0 \/ \E c \in awaiting : tasks[c].parent = r

\* While saves succeed, a crash at any moment loses nothing that is pending: the file
\* has every pending task as it stands, its retry window included, and the status of
\* every recurring task for which nothing has thrown before saveToDisk.
PendingIsSaved ==
    mode # "down" /\ faults = 0 =>
        /\ \A t \in DOMAIN tasks : IsPending(t) => t \in DOMAIN disk.tasks /\ disk.tasks[t] = tasks[t]
        /\ \A r \in DOMAIN recurring : IsValid(r) =>
              r \in DOMAIN disk.recurring /\ disk.recurring[r].status = recurring[r].status

\* What scheduleTaskDurably has returned is in the file for as long as it is pending,
\* even if every later save fails.
PromisedIsSaved ==
    \A t \in promised : IsPending(t) => t \in DOMAIN disk.tasks /\ disk.tasks[t].status = "pending"

\* While saves succeed, an engine is asked at most once to execute a task, and at most
\* once for all the tasks of a dedupe key, across crashes during the execution
\* (scheduleTask, loadFromDisk).
ExecutedAtMostOnce ==
    faults = 0 => \A t, u \in Used :
        /\ begun[t] <= 1
        /\ keyOf[t] # NoKey /\ keyOf[t] = keyOf[u] /\ begun[t] + begun[u] > 1 => t = u
=============================================================================
