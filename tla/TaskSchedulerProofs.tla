------------------------- MODULE TaskSchedulerProofs -------------------------
(***************************************************************************)
(* The scheduler, proved for any tasks, recurring tasks, keys, failed      *)
(* saves and stops.                                                        *)
(*                                                                         *)
(* TimerInv is about memory: who is pending or active has a timer or an    *)
(* awaited child that will arm one.  SavedInv is about memory and file:    *)
(* while saves succeed, what memory needs is in the file.  KeyInv follows  *)
(* a dedupe key: what was once begun is in the file under its key, and is  *)
(* never pending again.  The second and third rest on one fact about a     *)
(* step of the running scheduler, TableStep: a task only ever moves        *)
(* forward, and a step that moves one ends in a save.                      *)
(***************************************************************************)
EXTENDS TaskScheduler, FiniteSetTheorems, TLAPS

\* Ids of tasks in memory and in the file were given out once, and carry their key; a timer
\* is one of a recurring task in memory; a scheduler that is down has no memory.
Linked ==
    /\ keyOf \in [Used -> Key \cup {NoKey}] /\ Used \subseteq Task
    /\ \A t \in DOMAIN tasks : t \in Used /\ tasks[t].key = keyOf[t]
    /\ \A t \in DOMAIN disk.tasks : t \in Used /\ disk.tasks[t].key = keyOf[t]
    /\ begun \in [Task -> Nat]
    /\ promised \subseteq Used
    /\ faults \in Nat /\ stops \in Nat
    /\ \A r \in Recurring : live[r] > 0 => r \in DOMAIN recurring
    /\ awaiting \subseteq DOMAIN tasks
    /\ mode = "down" => DOMAIN tasks = {} /\ DOMAIN recurring = {}

TypeInv == TypeOK /\ Linked

TimerInv == TypeInv /\ PendingHasTimer /\ RecurrenceGoesOn

\* One task per key can still be executed or has been.
OnePerKey(ts) ==
    \A t, u \in DOMAIN ts :
        /\ ts[t].key # NoKey /\ ts[t].key = ts[u].key
        /\ ts[t].status # "cancelled" /\ ts[u].status # "cancelled"
        => t = u

\* Where the table has what has begun: not as pending, and under its key if it has one.
Remembers(ts) ==
    \A t \in Used : begun[t] > 0 =>
        /\ t \in DOMAIN ts => ts[t].status # "pending"
        /\ keyOf[t] # NoKey => t \in DOMAIN ts /\ ts[t].status \in {"executing", "completed", "failed"}

KeyInv ==
    faults = 0 =>
        /\ \A t \in Used : begun[t] <= 1
        /\ \A t \in Task \ Used : begun[t] = 0
        /\ OnePerKey(tasks) /\ OnePerKey(disk.tasks)
        /\ Remembers(disk.tasks)
        /\ mode # "down" => Remembers(tasks)

-----------------------------------------------------------------------------
(* The two sides of a step of the running scheduler.                        *)

Where  == {"far", "later", "due"}
Armed  == {"none", "at executeAt", "at once"}

\* A task in memory keeps its key and its parent, moves forward only, and is begun when it
\* leaves pending for executing.
Moves(t) ==
    /\ t \in DOMAIN tasks'
    /\ tasks'[t].key = tasks[t].key
    /\ tasks'[t].parent = tasks[t].parent
    /\ tasks[t].status # "pending" =>
          \/ tasks'[t].status = tasks[t].status
          \/ tasks[t].status = "executing" /\ tasks'[t].status \in {"completed", "failed"}
    /\ \/ begun'[t] = begun[t]
       \/ /\ tasks[t].status = "pending" /\ tasks'[t].status = "executing"
          /\ begun'[t] = begun[t] + 1

\* The one new task t has a fresh id and a key that no other task holds; it is promised only
\* once it is in the file.
Appears(t) ==
    /\ t \notin Used /\ Used' = Used \cup {t} /\ DOMAIN tasks' = DOMAIN tasks \cup {t}
    /\ keyOf' \in [Used' -> Key \cup {NoKey}] /\ \A v \in Used : keyOf'[v] = keyOf[v]
    /\ keyOf'[t] = tasks'[t].key
    /\ ~Deduplicated(tasks'[t].key)
    /\ \/ begun'[t] = begun[t]
       \/ tasks'[t].status = "executing" /\ begun'[t] = begun[t] + 1
    /\ promised \subseteq promised' /\ promised' \subseteq promised \cup {t}
    /\ t \in promised' => disk'.tasks = tasks'

TaskSide ==
    /\ DOMAIN tasks' \subseteq Task /\ tasks' \in [DOMAIN tasks' -> TaskRecord]
    /\ when' \in [Task -> Where] /\ timers' \in [Task -> Armed] /\ begun' \in [Task -> Nat]
    /\ \A v \in Task : timers'[v] # "none" => v \in DOMAIN tasks'
    /\ mode' = "up" => \A v \in DOMAIN tasks' : tasks'[v].status = "pending" => timers'[v] # "none"
    /\ \A v \in DOMAIN tasks : Moves(v)
    /\ \A v \in Task \ DOMAIN tasks' : begun'[v] = begun[v]
    /\ \/ DOMAIN tasks' = DOMAIN tasks /\ UNCHANGED <<keyOf, promised>>
       \/ \E t \in Task : Appears(t)

RecurringSide ==
    /\ DOMAIN recurring' \subseteq Recurring /\ recurring' \in [DOMAIN recurring' -> RecurringRecord]
    /\ live' \in [Recurring -> 0..MaxTimers]
    /\ \A r \in mapped' : r \in DOMAIN recurring' /\ live'[r] > 0
    /\ \A r \in Recurring : live'[r] > 0 => r \in DOMAIN recurring'
    /\ \A c \in awaiting' : /\ c \in DOMAIN tasks'
                            /\ tasks'[c].status = "executing"
                            /\ tasks'[c].parent \in DOMAIN recurring'
    /\ RecurrenceGoesOn'

\* The file is replaced by memory, or the save failed, or there is none: then nothing of what
\* the file holds has changed, but for recurring tasks that made the handler throw.
Writes ==
    \/ faults' = faults /\ disk' = [tasks |-> tasks', recurring |-> recurring']
    \/ faults' = faults + 1 /\ disk' = disk
    \/ /\ faults' = faults /\ disk' = disk /\ tasks' = tasks
       /\ DOMAIN recurring' = DOMAIN recurring
       /\ \A r \in DOMAIN recurring : recurring'[r] = recurring[r] \/ ~recurring'[r].valid

TableStep ==
    /\ mode # "down" /\ mode' # "down"
    /\ TaskSide
    /\ Writes

LEMMA SaveWrites == ASSUME Save PROVE Writes
BY DEF Save, SaveSucceeds, SaveFails, Writes

\* clearTimeout of the map's entry takes at most one of the live timers.
LEMMA UnmappedCount ==
    ASSUME TypeInv, NEW r \in Recurring
    PROVE  /\ Unmapped(r) = IF r \in mapped THEN live[r] - 1 ELSE live[r]
           /\ Unmapped(r) \in 0..live[r] /\ Unmapped(r) \in 0..MaxTimers /\ live[r] \in 0..MaxTimers
<1>1. live[r] \in 0..MaxTimers /\ (r \in mapped => live[r] > 0)
  BY DEF TypeInv, TypeOK
<1>2. CASE r \in mapped
  <2>1. mapped \cap {r} = {r}
    BY <1>2
  <2>2. Cardinality(mapped \cap {r}) = 1
    BY <2>1, FS_Singleton
  <2>3. Unmapped(r) = live[r] - 1
    BY <1>1, <2>2, BoundAssumption DEF Unmapped
  <2> QED BY ONLY <1>1, <1>2, <2>3, BoundAssumption
<1>3. CASE r \notin mapped
  <2>1. mapped \cap {r} = {}
    BY <1>3
  <2>2. Cardinality(mapped \cap {r}) = 0
    BY <2>1, FS_EmptySet
  <2>3. Unmapped(r) = live[r]
    BY <1>1, <2>2, BoundAssumption DEF Unmapped
  <2> QED BY <1>1, <1>3, <2>3, BoundAssumption
<1> QED BY <1>2, <1>3

\* Both sides and the write together are a step of the tables that keeps TimerInv.
LEMMA SidesTogether ==
    ASSUME TimerInv, mode # "down", mode' \in {"up", "closing", "dying"}, stops' = stops,
           TaskSide, RecurringSide, Writes
    PROVE  TimerInv' /\ TableStep
<1>1. TableStep
  BY DEF TableStep
<1>2. Tables(tasks', recurring')
  BY DEF TaskSide, RecurringSide, Tables
<1>3. Tables(disk'.tasks, disk'.recurring)
  <2>1. CASE disk' = [tasks |-> tasks', recurring |-> recurring']
    BY <1>2, <2>1
  <2>2. CASE disk' = disk
    BY <2>2 DEF TimerInv, TypeInv, TypeOK
  <2> QED BY <2>1, <2>2 DEF Writes
<1>4. TypeOK'
  <2>1. Tables(tasks, recurring)' /\ Tables(disk.tasks, disk.recurring)'
    BY <1>2, <1>3
  <2> QED BY <2>1 DEF TypeOK, TaskSide, RecurringSide, Where, Armed
<1>5. /\ keyOf' \in [Used' -> Key \cup {NoKey}] /\ Used \subseteq Used' /\ Used' \subseteq Task
      /\ \A v \in Used : keyOf'[v] = keyOf[v]
      /\ promised' \subseteq Used'
  BY DEF TaskSide, Appears, TimerInv, TypeInv, Linked, Used
<1>6. \A t \in DOMAIN tasks' : t \in Used' /\ tasks'[t].key = keyOf'[t]
  <2>1. \A t \in DOMAIN tasks : /\ t \in Used /\ tasks[t].key = keyOf[t]
                                /\ tasks'[t].key = tasks[t].key
    BY DEF TaskSide, Moves, TimerInv, TypeInv, Linked
  <2>2. CASE DOMAIN tasks' = DOMAIN tasks
    BY <1>5, <2>1, <2>2
  <2>3. ASSUME NEW t \in Task, Appears(t)
        PROVE  \A v \in DOMAIN tasks' : v \in Used' /\ tasks'[v].key = keyOf'[v]
    BY <1>5, <2>1, <2>3 DEF Appears
  <2> QED BY <2>2, <2>3 DEF TaskSide
<1>7. \A t \in DOMAIN disk'.tasks : t \in Used' /\ disk'.tasks[t].key = keyOf'[t]
  <2>1. CASE disk' = [tasks |-> tasks', recurring |-> recurring']
    BY <1>6, <2>1
  <2>2. CASE disk' = disk
    BY <1>5, <2>2 DEF TimerInv, TypeInv, Linked
  <2> QED BY <2>1, <2>2 DEF Writes
<1>8. Linked'
  BY <1>5, <1>6, <1>7 DEF TimerInv, TypeInv, Linked, TaskSide, RecurringSide, Writes
<1>9. PendingHasTimer' /\ RecurrenceGoesOn'
  BY DEF TaskSide, RecurringSide, PendingHasTimer, IsPending
<1> QED BY <1>1, <1>4, <1>8, <1>9 DEF TimerInv, TypeInv

\* The task side of a step that changes the one task t, or adds it.
LEMMA OneTask ==
    ASSUME TimerInv, NEW t \in Task, mode = "up" \/ mode' # "up",
           NEW next \in TaskRecord, tasks' = With(tasks, t, next),
           NEW timer \in Armed, timers' = [timers EXCEPT ![t] = timer],
           next.status = "pending" => timer # "none" \/ mode' # "up",
           NEW at \in Where, when' = when \/ when' = [when EXCEPT ![t] = at],
           begun' = begun \/ begun' = [begun EXCEPT ![t] = @ + 1],
           \/ t \in DOMAIN tasks /\ Moves(t) /\ UNCHANGED <<keyOf, promised>>
           \/ Appears(t)
    PROVE  TaskSide
<1>1. /\ DOMAIN tasks' = DOMAIN tasks \cup {t} /\ tasks'[t] = next
      /\ \A v \in DOMAIN tasks \ {t} : tasks'[v] = tasks[v]
      /\ tasks' = [v \in DOMAIN tasks \cup {t} |-> tasks'[v]]
  BY DEF With
<1>2. DOMAIN tasks' \subseteq Task /\ tasks' \in [DOMAIN tasks' -> TaskRecord]
  <2>1. \A v \in DOMAIN tasks : tasks[v] \in TaskRecord /\ v \in Task
    BY DEF TimerInv, TypeInv, TypeOK, Tables
  <2>2. \A v \in DOMAIN tasks' : tasks'[v] \in TaskRecord /\ v \in Task
    BY <1>1, <2>1
  <2> QED BY <1>1, <2>2
<1>3. when' \in [Task -> Where] /\ timers' \in [Task -> Armed] /\ begun' \in [Task -> Nat]
  <2>1. when \in [Task -> Where] /\ timers \in [Task -> Armed] /\ begun \in [Task -> Nat]
    BY DEF TimerInv, TypeInv, TypeOK, Linked, Where, Armed
  <2> QED BY <2>1
<1>4. timers'[t] = timer /\ \A v \in Task \ {t} : timers'[v] = timers[v] /\ begun'[v] = begun[v]
  BY DEF TimerInv, TypeInv, TypeOK, Linked
<1>5. \A v \in Task : timers'[v] # "none" => v \in DOMAIN tasks'
  BY <1>1, <1>4 DEF TimerInv, TypeInv, TypeOK
<1>6. mode' = "up" => \A v \in DOMAIN tasks' : tasks'[v].status = "pending" => timers'[v] # "none"
  BY <1>1, <1>2, <1>4 DEF TimerInv, PendingHasTimer, IsPending
<1>7. \A v \in DOMAIN tasks : Moves(v)
  <2>1. \A v \in DOMAIN tasks \ {t} : Moves(v)
    BY <1>1, <1>2, <1>4 DEF Moves
  <2>2. t \in DOMAIN tasks => Moves(t)
    BY DEF Appears, TimerInv, TypeInv, Linked
  <2> QED BY <2>1, <2>2
<1>8. \A v \in Task \ DOMAIN tasks' : begun'[v] = begun[v]
  BY <1>1, <1>4
<1>9. (DOMAIN tasks' = DOMAIN tasks /\ UNCHANGED <<keyOf, promised>>) \/ \E u \in Task : Appears(u)
  BY <1>1
<1> QED BY <1>2, <1>3, <1>5, <1>6, <1>7, <1>8, <1>9 DEF TaskSide

\* The task side of a step that changes no task, and no timer that a pending task needs.
LEMMA NoTask ==
    ASSUME TimerInv, UNCHANGED <<tasks, when, history>>,
           \/ timers' = timers /\ (mode' = "up" => mode = "up")
           \/ timers' = [t \in Task |-> "none"] /\ mode' # "up"
           \/ mode' = mode /\ \E t \in Task : ~IsPending(t) /\ timers' = [timers EXCEPT ![t] = "none"]
    PROVE  TaskSide
BY DEF TaskSide, Moves, TimerInv, TypeInv, TypeOK, Tables, Linked, PendingHasTimer, IsPending,
       Where, Armed, history

\* The recurring side of a step that leaves recurring tasks and awaited children alone.
LEMMA NoRecurring ==
    ASSUME TimerInv, UNCHANGED <<recurring, live, mapped, awaiting, mode>>,
           \A c \in awaiting : /\ c \in DOMAIN tasks'
                               /\ tasks'[c].status = tasks[c].status
                               /\ tasks'[c].parent = tasks[c].parent
    PROVE  RecurringSide
<1>1. RecurrenceGoesOn'
  BY DEF TimerInv, RecurrenceGoesOn, IsActive, IsValid
<1>2. \A c \in awaiting' : /\ c \in DOMAIN tasks' /\ tasks'[c].status = "executing"
                           /\ tasks'[c].parent \in DOMAIN recurring'
  BY DEF TimerInv, TypeInv, TypeOK
<1> QED BY <1>1, <1>2 DEF RecurringSide, TimerInv, TypeInv, TypeOK, Tables, Linked

\* The recurring side of a step that concerns the recurring task r.
LEMMA OneRecurring ==
    ASSUME TimerInv, NEW r \in Recurring, mode = "up" \/ mode' # "up",
           NEW next \in RecurringRecord, recurring' = With(recurring, r, next),
           NEW n \in 0..MaxTimers, live' = [live EXCEPT ![r] = n],
           mapped' \subseteq mapped \cup {r}, r \in mapped' => n > 0,
           \A c \in awaiting' : /\ c \in DOMAIN tasks'
                                /\ tasks'[c].status = "executing"
                                /\ tasks'[c].parent \in DOMAIN recurring',
           \A c \in awaiting : tasks[c].parent # r =>
               c \in awaiting' /\ tasks'[c].parent = tasks[c].parent,
           next.status = "active" /\ next.valid /\ mode' = "up" =>
               n > 0 \/ \E c \in awaiting' : tasks'[c].parent = r
    PROVE  RecurringSide
<1>1. /\ DOMAIN recurring' = DOMAIN recurring \cup {r} /\ recurring'[r] = next
      /\ \A q \in DOMAIN recurring \ {r} : recurring'[q] = recurring[q]
      /\ recurring' = [q \in DOMAIN recurring \cup {r} |-> recurring'[q]]
  BY DEF With
<1>2. DOMAIN recurring' \subseteq Recurring /\ recurring' \in [DOMAIN recurring' -> RecurringRecord]
  <2>1. \A q \in DOMAIN recurring : recurring[q] \in RecurringRecord /\ q \in Recurring
    BY DEF TimerInv, TypeInv, TypeOK, Tables
  <2>2. \A q \in DOMAIN recurring' : recurring'[q] \in RecurringRecord /\ q \in Recurring
    BY <1>1, <2>1
  <2> QED BY <1>1, <2>2
<1>3. /\ live' \in [Recurring -> 0..MaxTimers] /\ live'[r] = n
      /\ \A q \in Recurring \ {r} : live'[q] = live[q]
  BY DEF TimerInv, TypeInv, TypeOK
<1>4. \A q \in mapped' : q \in DOMAIN recurring' /\ live'[q] > 0
  BY <1>1, <1>2, <1>3 DEF TimerInv, TypeInv, TypeOK
<1>5. \A q \in Recurring : live'[q] > 0 => q \in DOMAIN recurring'
  BY <1>1, <1>3 DEF TimerInv, TypeInv, Linked
<1>6. RecurrenceGoesOn'
  <2> SUFFICES ASSUME mode' = "up", NEW q \in DOMAIN recurring',
                      recurring'[q].status = "active", recurring'[q].valid
               PROVE  live'[q] > 0 \/ \E c \in awaiting' : tasks'[c].parent = q
    BY DEF RecurrenceGoesOn, IsActive, IsValid
  <2>1. CASE q = r
    BY <1>1, <1>3, <2>1
  <2>2. CASE q # r
    <3>1. /\ q \in DOMAIN recurring /\ recurring[q].status = "active" /\ recurring[q].valid
          /\ live'[q] = live[q]
      BY <1>1, <1>2, <1>3, <2>2
    <3> QED BY <2>2, <3>1 DEF TimerInv, RecurrenceGoesOn, IsActive, IsValid
  <2> QED BY <2>1, <2>2
<1> QED BY <1>2, <1>3, <1>4, <1>5, <1>6 DEF RecurringSide

-----------------------------------------------------------------------------
(* Each operation of the running scheduler, by its sides.                    *)

LEMMA Running ==
    ASSUME TypeInv, mode # "down"
    PROVE  mode \in {"up", "closing", "dying"}
BY DEF TypeInv, TypeOK

LEMMA TaskFacts ==
    ASSUME TypeInv, NEW t \in DOMAIN tasks
    PROVE  /\ t \in Task /\ t \in Used /\ tasks[t] \in TaskRecord /\ mode # "down"
           /\ timers[t] \in Armed /\ when[t] \in Where /\ begun[t] \in Nat
           /\ tasks[t].key = keyOf[t]
BY DEF TypeInv, TypeOK, Tables, Linked, Where, Armed

LEMMA RecurringFacts ==
    ASSUME TypeInv, NEW r \in DOMAIN recurring
    PROVE  /\ r \in Recurring /\ recurring[r] \in RecurringRecord /\ mode # "down"
           /\ recurring = [q \in DOMAIN recurring |-> recurring[q]]
BY DEF TypeInv, TypeOK, Tables, Linked

\* The new record of a pending task that is fired.
LEMMA FiredRecord ==
    ASSUME NEW task \in TaskRecord, task.status = "pending", NEW next \in Fired(task)
    PROVE  /\ next \in TaskRecord /\ next.key = task.key /\ next.parent = task.parent
           /\ next.status \in {"pending", "failed", "executing"}
BY DEF Fired, TaskRecord, Status

LEMMA NewTaskRecord ==
    ASSUME NEW key \in Key \cup {NoKey}, NEW parent \in Recurring \cup {None}
    PROVE  /\ NewTask(key, parent) \in TaskRecord
           /\ NewTask(key, parent).status = "pending" /\ NewTask(key, parent).key = key
           /\ NewTask(key, parent).parent = parent
BY DEF NewTask, TaskRecord, Status

\* An id given out with its key, for a task that joins memory.
LEMMA NewId ==
    ASSUME TypeInv, NEW t \in Task, t \notin Used, NEW key \in Key \cup {NoKey},
           keyOf' = With(keyOf, t, key), ~Deduplicated(key),
           DOMAIN tasks' = DOMAIN tasks \cup {t}, tasks'[t].key = key,
           \/ begun'[t] = begun[t]
           \/ tasks'[t].status = "executing" /\ begun'[t] = begun[t] + 1,
           promised' = promised \/ (promised' = promised \cup {t} /\ disk'.tasks = tasks')
    PROVE  Appears(t)
<1>1. /\ DOMAIN keyOf' = DOMAIN keyOf \cup {t} /\ keyOf'[t] = key
      /\ \A v \in DOMAIN keyOf \ {t} : keyOf'[v] = keyOf[v]
      /\ keyOf' = [v \in DOMAIN keyOf \cup {t} |-> keyOf'[v]]
  BY DEF With
<1>2. \A v \in DOMAIN keyOf \cup {t} : keyOf'[v] \in Key \cup {NoKey}
  BY <1>1 DEF TypeInv, Linked, Used
<1>3. t \in promised' => disk'.tasks = tasks'
  BY DEF TypeInv, Linked
<1> QED BY <1>1, <1>2, <1>3 DEF Appears, Used

LEMMA EnqueueSide ==
    ASSUME TimerInv, mode = "up", mode' = mode, NEW t \in Task, t \notin Used,
           NEW key \in Key \cup {NoKey}, ~Deduplicated(key), NEW at \in Where,
           Enqueue(t, key, at), begun' = begun,
           promised' = promised \/ (promised' = promised \cup {t} /\ disk'.tasks = tasks'),
           UNCHANGED <<recurring, live, mapped, awaiting>>
    PROVE  TaskSide /\ RecurringSide
<1> DEFINE next == NewTask(key, None)
<1>1. next \in TaskRecord /\ next.status = "pending" /\ next.key = key
  BY NewTaskRecord
<1>2. /\ tasks' = With(tasks, t, next) /\ keyOf' = With(keyOf, t, key)
      /\ when' = [when EXCEPT ![t] = at] /\ timers' = [timers EXCEPT ![t] = Timer(at)]
  BY DEF Enqueue, SetTimer
<1>3. Timer(at) \in Armed /\ Timer(at) # "none"
  BY DEF Timer, Armed
<1> HIDE DEF next
<1>4. /\ DOMAIN tasks' = DOMAIN tasks \cup {t} /\ tasks'[t] = next
      /\ \A v \in DOMAIN tasks \ {t} : tasks'[v] = tasks[v]
  BY <1>2 DEF With
<1>5. Appears(t)
  BY <1>1, <1>2, <1>4, NewId DEF TimerInv
<1>6. TaskSide
  BY <1>1, <1>2, <1>3, <1>5, OneTask
<1>7. RecurringSide
  <2>1. t \notin awaiting /\ awaiting \subseteq DOMAIN tasks
    BY DEF TimerInv, TypeInv, Linked
  <2> QED BY <1>4, <2>1, NoRecurring
<1> QED BY <1>6, <1>7

LEMMA ScheduleTaskStep ==
    ASSUME TimerInv, NEW t \in Task, NEW at \in Where, ScheduleTask(t, at)
    PROVE  TimerInv' /\ TableStep
<1>0. ~Deduplicated(NoKey)
  BY DEF Deduplicated
<1>1. TaskSide /\ RecurringSide
  BY <1>0, EnqueueSide DEF ScheduleTask
<1>2. Writes
  BY SaveWrites DEF ScheduleTask
<1> QED BY <1>1, <1>2, SidesTogether DEF ScheduleTask

LEMMA ScheduleTaskDurablyStep ==
    ASSUME TimerInv, NEW t \in Task, NEW key \in Key, NEW at \in Where,
           ScheduleTaskDurably(t, key, at)
    PROVE  TimerInv' /\ TableStep
<1>1. CASE Enqueue(t, key, at) /\ promised' = promised \cup {t} /\ StrictSave
  <2>1. /\ mode = "up" /\ mode' = mode /\ t \notin Used /\ ~Deduplicated(key) /\ begun' = begun
        /\ stops' = stops /\ UNCHANGED <<recurring, live, mapped, awaiting>>
    BY DEF ScheduleTaskDurably
  <2>2. Writes /\ disk'.tasks = tasks'
    BY <1>1 DEF StrictSave, SaveSucceeds, Writes
  <2>3. TaskSide /\ RecurringSide
    BY <1>1, <2>1, <2>2, EnqueueSide
  <2> QED BY <2>1, <2>2, <2>3, SidesTogether
<1>2. CASE SaveFails /\ UNCHANGED <<tasks, keyOf, when, timers, promised>>
  <2>1. /\ mode = "up" /\ stops' = stops
        /\ UNCHANGED <<tasks, when, timers, history, recurring, live, mapped, awaiting, mode>>
    BY <1>2 DEF ScheduleTaskDurably, history
  <2>2. TaskSide
    BY <2>1, NoTask
  <2>3. RecurringSide
    BY <2>1, NoRecurring DEF TimerInv, TypeInv, Linked
  <2>4. Writes
    BY <1>2, SaveWrites DEF Save
  <2> QED BY <2>1, <2>2, <2>3, <2>4, SidesTogether
<1> QED BY <1>1, <1>2 DEF ScheduleTaskDurably

\* A task in memory gets the record next, without being begun.
LEMMA ChangeSide ==
    ASSUME TimerInv, NEW t \in DOMAIN tasks, mode' = mode \/ mode' # "up",
           NEW next \in TaskRecord, tasks' = [tasks EXCEPT ![t] = next],
           next.key = tasks[t].key, next.parent = tasks[t].parent,
           tasks[t].status # "pending" =>
               tasks[t].status = "executing" /\ next.status \in {"completed", "failed"},
           NEW timer \in Armed, timers' = [timers EXCEPT ![t] = timer],
           next.status = "pending" => timer # "none",
           mode = "up" \/ next.status # "pending",
           NEW at \in Where, when' = when \/ when' = [when EXCEPT ![t] = at],
           UNCHANGED history
    PROVE  TaskSide
<1>1. t \in Task /\ tasks' = With(tasks, t, next)
  BY DEF With, TimerInv, TypeInv, TypeOK, Tables
<1>2. t \in DOMAIN tasks' /\ tasks'[t] = next
  BY DEF TimerInv, TypeInv, TypeOK, Tables
<1>3. Moves(t)
  BY <1>2 DEF Moves, history
<1>4. CASE mode = "up"
  BY <1>1, <1>3, <1>4, OneTask DEF history
<1>5. CASE mode' # "up"
  BY <1>1, <1>3, <1>5, OneTask DEF history
<1> QED BY <1>4, <1>5

LEMMA UpdateTaskStep ==
    ASSUME TimerInv, NEW t \in Task, NEW at \in Where, UpdateTask(t, at)
    PROVE  TimerInv' /\ TableStep
<1> DEFINE next == [tasks[t] EXCEPT !.waited = FALSE]
<1>1. /\ mode = "up" /\ mode' = mode /\ stops' = stops /\ UNCHANGED <<recurring, live, mapped, awaiting>>
      /\ t \in DOMAIN tasks /\ tasks[t].status = "pending"
      /\ tasks' = [tasks EXCEPT ![t] = next]
      /\ when' = [when EXCEPT ![t] = at] /\ timers' = [timers EXCEPT ![t] = Timer(at)]
      /\ UNCHANGED history
  BY DEF UpdateTask, IsPending, SetTimer
<1>2. next \in TaskRecord /\ next.status = "pending" /\ next.key = tasks[t].key /\ next.parent = tasks[t].parent
  BY <1>1, TaskFacts DEF TimerInv, TaskRecord
<1>3. Timer(at) \in Armed /\ Timer(at) # "none"
  BY DEF Timer, Armed
<1> HIDE DEF next
<1>4. TaskSide
  BY <1>1, <1>2, <1>3, ChangeSide
<1>5. RecurringSide
  BY <1>1, <1>2, NoRecurring DEF TimerInv, TypeInv, Linked
<1>6. Writes
  BY SaveWrites DEF UpdateTask
<1> QED BY <1>1, <1>4, <1>5, <1>6, SidesTogether

LEMMA EditStep ==
    ASSUME TimerInv, Edit
    PROVE  TimerInv' /\ TableStep
<1>1. /\ mode = "up" /\ mode' = mode /\ stops' = stops
      /\ UNCHANGED <<tasks, timers, recurring, live, mapped, awaiting, when, history>>
  BY DEF Edit, memory
<1>2. TaskSide
  BY <1>1, NoTask
<1>3. RecurringSide
  BY <1>1, NoRecurring DEF TimerInv, TypeInv, Linked
<1>4. Writes
  BY SaveWrites DEF Edit
<1> QED BY <1>1, <1>2, <1>3, <1>4, SidesTogether

\* The task side of cancelTask, which cancelRecurring calls too.
LEMMA CancelSide ==
    ASSUME TimerInv, NEW t, IsPending(t), mode' = mode,
           tasks' = [tasks EXCEPT ![t].status = "cancelled"],
           timers' = [timers EXCEPT ![t] = "none"], UNCHANGED <<when, history>>
    PROVE  /\ TaskSide
           /\ \A c \in awaiting : c \in DOMAIN tasks' /\ tasks'[c] = tasks[c]
<1> DEFINE next == [tasks[t] EXCEPT !.status = "cancelled"]
<1>1. /\ t \in DOMAIN tasks /\ tasks[t].status = "pending"
      /\ tasks' = [tasks EXCEPT ![t] = next]
  BY DEF IsPending
<1>2. next \in TaskRecord /\ next.status = "cancelled" /\ next.key = tasks[t].key /\ next.parent = tasks[t].parent
  BY <1>1, TaskFacts DEF TimerInv, TaskRecord, Status
<1>3. "none" \in Armed /\ "due" \in Where
  BY DEF Armed, Where
<1> HIDE DEF next
<1>4. TaskSide
  BY <1>1, <1>2, <1>3, ChangeSide
<1>5. t \notin awaiting /\ awaiting \subseteq DOMAIN tasks
  BY <1>1 DEF TimerInv, TypeInv, TypeOK, Linked
<1> QED BY <1>1, <1>4, <1>5

LEMMA CancelTaskStep ==
    ASSUME TimerInv, NEW t \in Task, CancelTask(t)
    PROVE  TimerInv' /\ TableStep
<1>1. /\ mode = "up" /\ mode' = mode /\ stops' = stops /\ IsPending(t)
      /\ UNCHANGED <<recurring, live, mapped, awaiting, when, history>>
  BY DEF CancelTask
<1>2. TaskSide /\ \A c \in awaiting : c \in DOMAIN tasks' /\ tasks'[c] = tasks[c]
  BY <1>1, CancelSide DEF CancelTask
<1>3. RecurringSide
  BY <1>1, <1>2, NoRecurring
<1>4. Writes
  BY SaveWrites DEF CancelTask
<1> QED BY <1>1, <1>2, <1>3, <1>4, SidesTogether

\* The task side of fireTask, on a task in memory or on the fresh child of an occurrence.
LEMMA FireSide ==
    ASSUME TimerInv, NEW t \in Task, mode = "up" \/ mode' # "up",
           NEW task \in TaskRecord, task.status = "pending",
           NEW next \in Fired(task), NEW at \in Where, Fire(t, next, at),
           \/ t \in DOMAIN tasks /\ task = tasks[t] /\ UNCHANGED <<keyOf, promised>>
           \/ /\ t \notin Used /\ task.key = NoKey /\ promised' = promised
              /\ keyOf' = With(keyOf, t, NoKey)
    PROVE  TaskSide
<1>1. /\ next \in TaskRecord /\ next.key = task.key /\ next.parent = task.parent
      /\ next.status \in {"pending", "failed", "executing"}
  BY FiredRecord
<1>2. /\ tasks' = With(tasks, t, next) /\ timers' = [timers EXCEPT ![t] = Rearmed(next)]
      /\ \/ when' = [when EXCEPT ![t] = "later"]
         \/ when' = [when EXCEPT ![t] = at]
  BY DEF Fire
<1>3. begun \in [Task -> Nat]
  BY DEF TimerInv, TypeInv, Linked
<1>4. \/ begun' = begun
      \/ next.status = "executing" /\ begun' = [begun EXCEPT ![t] = @ + 1]
  BY <1>3 DEF Fire
<1>5. \/ begun'[t] = begun[t]
      \/ next.status = "executing" /\ begun'[t] = begun[t] + 1
  BY <1>3, <1>4
<1>6. Rearmed(next) \in Armed /\ (next.status = "pending" => Rearmed(next) # "none")
  BY DEF Rearmed, Armed
<1>7. /\ DOMAIN tasks' = DOMAIN tasks \cup {t} /\ tasks'[t] = next
  BY <1>2 DEF With
<1>8. (t \in DOMAIN tasks /\ Moves(t) /\ UNCHANGED <<keyOf, promised>>) \/ Appears(t)
  <2>1. CASE t \in DOMAIN tasks /\ task = tasks[t] /\ UNCHANGED <<keyOf, promised>>
    BY <1>1, <1>5, <1>7, <2>1 DEF Moves
  <2>2. CASE t \notin Used /\ task.key = NoKey /\ promised' = promised /\ keyOf' = With(keyOf, t, NoKey)
    <3>1. ~Deduplicated(NoKey)
      BY DEF Deduplicated
    <3> QED BY <1>1, <1>5, <1>7, <2>2, <3>1, NewId DEF TimerInv
  <2> QED BY <2>1, <2>2
<1>9. "later" \in Where
  BY DEF Where
<1>10. CASE when' = [when EXCEPT ![t] = "later"]
  BY <1>1, <1>2, <1>4, <1>6, <1>8, <1>9, <1>10, OneTask
<1>11. CASE when' = [when EXCEPT ![t] = at]
  BY <1>1, <1>2, <1>4, <1>6, <1>8, <1>11, OneTask
<1> QED BY <1>2, <1>10, <1>11

LEMMA FireTaskStep ==
    ASSUME TimerInv, NEW t \in Task, FireTask(t)
    PROVE  TimerInv' /\ TableStep
<1>1. mode' = mode /\ stops' = stops /\ UNCHANGED <<recurring, live, mapped, awaiting>> /\ t \in DOMAIN tasks
  <2>1. timers[t] # "none"
    BY DEF FireTask, TimerIsUp
  <2>2. UNCHANGED <<recurring, live, mapped, awaiting, mode, stops>>
    BY DEF FireTask
  <2> QED BY <2>1, <2>2 DEF TimerInv, TypeInv, TypeOK
<1>2. t \in Task /\ tasks[t] \in TaskRecord /\ when[t] \in Where /\ mode # "down"
  BY <1>1, TaskFacts DEF TimerInv
<1>3. CASE IsPending(t)
  <2>1. PICK next \in Fired(tasks[t]) : Fire(t, next, when[t])
    BY <1>3 DEF FireTask
  <2>2. UNCHANGED <<keyOf, promised>> /\ Save /\ tasks[t].status = "pending"
    BY <1>3 DEF FireTask, IsPending
  <2>3. TaskSide
    <3>1. CASE mode = "up"
      BY <1>1, <1>2, <2>1, <2>2, <3>1, FireSide
    <3>2. CASE mode # "up"
      BY <1>1, <1>2, <2>1, <2>2, <3>2, FireSide
    <3> QED BY <3>1, <3>2
  <2>4. RecurringSide
    <3>1. t \notin awaiting /\ awaiting \subseteq DOMAIN tasks
      BY <2>2 DEF TimerInv, TypeInv, TypeOK, Linked
    <3>2. \A v \in DOMAIN tasks \ {t} : v \in DOMAIN tasks' /\ tasks'[v] = tasks[v]
      BY <2>1 DEF Fire, With
    <3> QED BY <1>1, <3>1, <3>2, NoRecurring
  <2>5. mode' \in {"up", "closing", "dying"} /\ Writes
    BY <1>1, <1>2, <2>2, SaveWrites, Running DEF TimerInv
  <2> QED BY <1>1, <1>2, <2>3, <2>4, <2>5, SidesTogether
<1>4. CASE ~IsPending(t)
  <2>1. /\ timers' = [timers EXCEPT ![t] = "none"]
        /\ UNCHANGED <<tasks, recurring, when, history, disk, faults>>
    BY <1>4 DEF FireTask
  <2>2. TaskSide
    BY <1>1, <1>4, <2>1, NoTask
  <2>3. RecurringSide
    BY <1>1, <2>1, NoRecurring DEF TimerInv, TypeInv, Linked
  <2>4. mode' \in {"up", "closing", "dying"} /\ Writes
    BY <1>1, <1>2, <2>1, Running DEF TimerInv, Writes
  <2> QED BY <1>1, <1>2, <2>2, <2>3, <2>4, SidesTogether
<1> QED BY <1>3, <1>4

\* What a handler that concerns only the recurring task r does to r, its timers and the file.
LEMMA RecurringOnly ==
    ASSUME TimerInv, mode # "down", mode' = mode, stops' = stops, NEW r \in Recurring,
           UNCHANGED <<tasks, timers, awaiting, when, history>>,
           NEW next \in RecurringRecord,
           \/ recurring' = With(recurring, r, next)
           \/ r \in DOMAIN recurring /\ recurring' = [recurring EXCEPT ![r] = next],
           NEW n \in 0..MaxTimers, live' = [live EXCEPT ![r] = n],
           mapped' \subseteq mapped \cup {r}, r \in mapped' => n > 0,
           next.status = "active" /\ next.valid /\ mode' = "up" =>
               n > 0 \/ \E c \in awaiting : tasks[c].parent = r,
           Writes
    PROVE  TimerInv' /\ TableStep
<1>1. recurring' = With(recurring, r, next)
  BY RecurringFacts DEF TimerInv, With
<1>2. TaskSide
  BY NoTask
<1>3. DOMAIN recurring' = DOMAIN recurring \cup {r}
  BY <1>1 DEF With
<1>4. \A c \in awaiting' : /\ c \in DOMAIN tasks'
                           /\ tasks'[c].status = "executing"
                           /\ tasks'[c].parent \in DOMAIN recurring'
  BY <1>3 DEF TimerInv, TypeInv, TypeOK, Linked
<1>5. RecurringSide
  <2>1. CASE mode = "up"
    BY <1>1, <1>4, <2>1, OneRecurring
  <2>2. CASE mode' # "up"
    BY <1>1, <1>4, <2>2, OneRecurring
  <2> QED BY <2>1, <2>2
<1>6. mode' \in {"up", "closing", "dying"}
  BY Running DEF TimerInv
<1> QED BY <1>2, <1>5, <1>6, SidesTogether

\* An armed timer is one more than before, and fits.
LEMMA OneMoreTimer ==
    ASSUME NEW r, NEW armed \in Nat, SetRecurringTimer(r, armed)
    PROVE  /\ armed + 1 \in 0..MaxTimers /\ armed + 1 > 0
           /\ live' = [live EXCEPT ![r] = armed + 1] /\ mapped' = mapped \cup {r}
BY BoundAssumption DEF SetRecurringTimer

LEMMA ScheduleRecurringStep ==
    ASSUME TimerInv, NEW r \in Recurring, ScheduleRecurring(r)
    PROVE  TimerInv' /\ TableStep
<1> DEFINE next == [status |-> "active", child |-> None, valid |-> TRUE]
           n == 1
<1>1. /\ mode = "up" /\ mode' = mode /\ stops' = stops
      /\ UNCHANGED <<tasks, timers, awaiting, when, history>>
      /\ recurring' = With(recurring, r, next) /\ SetRecurringTimer(r, 0)
  BY DEF ScheduleRecurring
<1>2. next \in RecurringRecord
  BY DEF RecurringRecord
<1>3. /\ n \in 0..MaxTimers /\ n > 0 /\ live' = [live EXCEPT ![r] = n] /\ mapped' = mapped \cup {r}
  BY <1>1, OneMoreTimer
<1>4. Writes
  BY SaveWrites DEF ScheduleRecurring
<1> HIDE DEF next, n
<1> QED BY <1>1, <1>2, <1>3, <1>4, RecurringOnly

\* A handler that throws after it has changed the recurring task r has written nothing.
LEMMA ThrowWrites ==
    ASSUME TimerInv, NEW r \in DOMAIN recurring, NEW next, ~next.valid,
           recurring' = [recurring EXCEPT ![r] = next], UNCHANGED <<tasks, disk, faults>>
    PROVE  Writes
<1>1. /\ DOMAIN recurring' = DOMAIN recurring
      /\ \A q \in DOMAIN recurring : recurring'[q] = IF q = r THEN next ELSE recurring[q]
  BY RecurringFacts DEF TimerInv
<1> QED BY <1>1 DEF Writes

LEMMA UpdateRecurringStep ==
    ASSUME TimerInv, NEW r \in Recurring, NEW valid \in BOOLEAN, UpdateRecurring(r, valid)
    PROVE  TimerInv' /\ TableStep
<1> DEFINE next == [recurring[r] EXCEPT !.valid = valid]
<1>1. /\ mode = "up" /\ mode' = mode /\ stops' = stops
      /\ UNCHANGED <<tasks, timers, awaiting, when, history>>
      /\ r \in DOMAIN recurring /\ recurring' = [recurring EXCEPT ![r] = next]
  BY DEF UpdateRecurring
<1>2. next \in RecurringRecord /\ next.status = recurring[r].status /\ next.valid = valid
  BY <1>1, RecurringFacts DEF TimerInv, RecurringRecord
<1>3. Unmapped(r) \in Nat /\ Unmapped(r) \in 0..MaxTimers
  BY UnmappedCount, BoundAssumption DEF TimerInv
<1> HIDE DEF next
<1>4. CASE ~IsActive(r) /\ UNCHANGED <<live, mapped>> /\ Save
  <2> DEFINE n == live[r]
  <2>1. live' = [live EXCEPT ![r] = n] /\ n \in 0..MaxTimers /\ (r \in mapped => n > 0)
    BY <1>4 DEF TimerInv, TypeInv, TypeOK
  <2>2. Writes /\ next.status # "active"
    BY <1>1, <1>2, <1>4, SaveWrites DEF IsActive
  <2> HIDE DEF n
  <2> QED BY <1>1, <1>2, <1>4, <2>1, <2>2, RecurringOnly
<1>5. CASE IsActive(r) /\ valid /\ SetRecurringTimer(r, Unmapped(r)) /\ Save
  <2> DEFINE n == Unmapped(r) + 1
  <2>1. n \in 0..MaxTimers /\ n > 0 /\ live' = [live EXCEPT ![r] = n] /\ mapped' = mapped \cup {r}
    BY <1>3, <1>5, OneMoreTimer
  <2>2. Writes
    BY <1>5, SaveWrites
  <2> HIDE DEF n
  <2> QED BY <1>1, <1>2, <2>1, <2>2, RecurringOnly
<1>6. CASE /\ IsActive(r) /\ ~valid
           /\ live' = [live EXCEPT ![r] = Unmapped(r)]
           /\ mapped' = mapped \ {r}
           /\ UNCHANGED <<disk, faults>>
  <2>1. Writes
    BY <1>1, <1>2, <1>6, ThrowWrites
  <2> QED BY <1>1, <1>2, <1>3, <1>6, <2>1, RecurringOnly
<1> QED BY <1>4, <1>5, <1>6 DEF UpdateRecurring

LEMMA PauseRecurringStep ==
    ASSUME TimerInv, NEW r \in Recurring, PauseRecurring(r)
    PROVE  TimerInv' /\ TableStep
<1> DEFINE next == [recurring[r] EXCEPT !.status = "paused"]
<1>1. /\ mode = "up" /\ mode' = mode /\ stops' = stops
      /\ UNCHANGED <<tasks, timers, awaiting, when, history>>
      /\ r \in DOMAIN recurring /\ recurring' = [recurring EXCEPT ![r] = next]
      /\ live' = [live EXCEPT ![r] = Unmapped(r)] /\ mapped' = mapped \ {r}
  BY DEF PauseRecurring, IsActive
<1>2. next \in RecurringRecord /\ next.status = "paused"
  BY <1>1, RecurringFacts DEF TimerInv, RecurringRecord
<1>3. Unmapped(r) \in 0..MaxTimers
  BY UnmappedCount DEF TimerInv
<1>4. Writes
  BY SaveWrites DEF PauseRecurring
<1> HIDE DEF next
<1> QED BY <1>1, <1>2, <1>3, <1>4, RecurringOnly

LEMMA ResumeRecurringStep ==
    ASSUME TimerInv, NEW r \in Recurring, ResumeRecurring(r)
    PROVE  TimerInv' /\ TableStep
<1> DEFINE next == [recurring[r] EXCEPT !.status = "active"]
           n == live[r]
           more == live[r] + 1
<1>1. /\ mode = "up" /\ mode' = mode /\ stops' = stops
      /\ UNCHANGED <<tasks, timers, awaiting, when, history>>
      /\ r \in DOMAIN recurring /\ recurring' = [recurring EXCEPT ![r] = next]
  BY DEF ResumeRecurring
<1>2. next \in RecurringRecord /\ next.valid = recurring[r].valid
  BY <1>1, RecurringFacts DEF TimerInv, RecurringRecord
<1>3. n \in Nat /\ n \in 0..MaxTimers /\ (r \in mapped => n > 0)
  <2>1. live[r] \in 0..MaxTimers
    BY UnmappedCount DEF TimerInv
  <2>2. r \in mapped => live[r] > 0
    BY DEF TimerInv, TypeInv, TypeOK
  <2> QED BY <2>1, <2>2, BoundAssumption
<1>4. CASE IsValid(r) /\ SetRecurringTimer(r, n) /\ Save
  <2>1. more \in 0..MaxTimers /\ more > 0 /\ live' = [live EXCEPT ![r] = more] /\ mapped' = mapped \cup {r}
    BY <1>3, <1>4, OneMoreTimer
  <2>2. Writes
    BY <1>4, SaveWrites
  <2> HIDE DEF next, n, more
  <2> QED BY <1>1, <1>2, <2>1, <2>2, RecurringOnly
<1>5. CASE ~IsValid(r) /\ UNCHANGED <<live, mapped, disk, faults>>
  <2>1. live' = [live EXCEPT ![r] = n]
    BY <1>5 DEF TimerInv, TypeInv, TypeOK
  <2>2. ~next.valid
    BY <1>2, <1>5 DEF IsValid
  <2> HIDE DEF next, n, more
  <2>3. Writes
    BY <1>1, <1>5, <2>2, ThrowWrites
  <2> QED BY <1>1, <1>2, <1>3, <1>5, <2>1, <2>2, <2>3, RecurringOnly
<1> QED BY <1>4, <1>5 DEF ResumeRecurring

LEMMA CancelRecurringStep ==
    ASSUME TimerInv, NEW r \in Recurring, CancelRecurring(r)
    PROVE  TimerInv' /\ TableStep
<1> DEFINE next == [recurring[r] EXCEPT !.status = "cancelled", !.child = None]
           n == Unmapped(r)
<1>1. /\ mode = "up" /\ mode' = mode /\ stops' = stops /\ UNCHANGED <<awaiting, when, history>>
      /\ r \in DOMAIN recurring /\ recurring' = [recurring EXCEPT ![r] = next]
      /\ live' = [live EXCEPT ![r] = n] /\ mapped' = mapped \ {r}
  BY DEF CancelRecurring
<1>2. next \in RecurringRecord /\ next.status = "cancelled"
  BY <1>1, RecurringFacts DEF TimerInv, RecurringRecord
<1>3. n \in 0..MaxTimers
  BY UnmappedCount DEF TimerInv
<1>4. TaskSide /\ \A c \in awaiting : c \in DOMAIN tasks' /\ tasks'[c] = tasks[c]
  <2>1. CASE IsPending(recurring[r].child)
    BY <1>1, <2>1, CancelSide DEF CancelRecurring
  <2>2. CASE ~IsPending(recurring[r].child)
    <3>1. UNCHANGED <<tasks, timers>>
      BY <2>2 DEF CancelRecurring
    <3> QED BY <1>1, <3>1, NoTask DEF TimerInv, TypeInv, Linked
  <2> QED BY <2>1, <2>2
<1> HIDE DEF next, n
<1>5. recurring' = With(recurring, r, next)
  BY <1>1, RecurringFacts DEF TimerInv, With
<1>6. \A c \in awaiting' : /\ c \in DOMAIN tasks'
                           /\ tasks'[c].status = "executing"
                           /\ tasks'[c].parent \in DOMAIN recurring'
  BY <1>1, <1>4 DEF TimerInv, TypeInv, TypeOK
<1>7. RecurringSide
  BY <1>1, <1>2, <1>3, <1>4, <1>5, <1>6, OneRecurring
<1>8. Writes
  BY SaveWrites DEF CancelRecurring
<1> QED BY <1>1, <1>4, <1>7, <1>8, SidesTogether

LEMMA FireInactiveStep ==
    ASSUME TimerInv, NEW r \in Recurring, FireInactive(r)
    PROVE  TimerInv' /\ TableStep
<1> DEFINE n == live[r] - 1
<1>1. /\ mode' = mode /\ stops' = stops /\ UNCHANGED <<tasks, timers, awaiting, when, history, recurring>>
      /\ r \in DOMAIN recurring /\ recurring[r].status # "active" /\ live[r] > 0
      /\ live' = [live EXCEPT ![r] = n] /\ mapped' \subseteq mapped /\ UNCHANGED <<disk, faults>>
  BY DEF FireInactive, IsActive
<1>2. live[r] \in 0..MaxTimers /\ Unmapped(r) = IF r \in mapped THEN n ELSE live[r]
  BY UnmappedCount DEF TimerInv
<1>3. n \in 0..MaxTimers /\ (r \in mapped' => n > 0)
  BY <1>1, <1>2, BoundAssumption DEF FireInactive
<1>4. /\ recurring' = [recurring EXCEPT ![r] = recurring[r]] /\ recurring[r] \in RecurringRecord
      /\ mode # "down"
  BY <1>1, RecurringFacts DEF TimerInv
<1>5. Writes
  BY <1>1 DEF Writes
<1> HIDE DEF n
<1> QED BY <1>1, <1>3, <1>4, <1>5, RecurringOnly

LEMMA RecheckStep ==
    ASSUME TimerInv, NEW r \in Recurring, Recheck(r)
    PROVE  TimerInv' /\ TableStep
<1> DEFINE n == live[r]
<1>1. /\ mode' = mode /\ stops' = stops
      /\ UNCHANGED <<tasks, timers, awaiting, when, history, recurring, live, disk, faults>>
      /\ n > 0 /\ mapped' = mapped \cup {r}
  BY DEF Recheck
<1>2. n \in 0..MaxTimers /\ live' = [live EXCEPT ![r] = n] /\ r \in DOMAIN recurring
  BY <1>1 DEF TimerInv, TypeInv, TypeOK, Linked
<1>3. /\ recurring' = [recurring EXCEPT ![r] = recurring[r]] /\ recurring[r] \in RecurringRecord
      /\ mode # "down"
  BY <1>1, <1>2, RecurringFacts DEF TimerInv
<1>4. Writes
  BY <1>1 DEF Writes
<1> HIDE DEF n
<1> QED BY <1>1, <1>2, <1>3, <1>4, RecurringOnly

\* A timer of r fires: the child c appears, and r keeps a timer or waits for c.
LEMMA FireInstanceStep ==
    ASSUME TimerInv, NEW r \in Recurring, NEW c \in Task, FireInstance(r, c)
    PROVE  TimerInv' /\ TableStep
<1> DEFINE task == NewTask(NoKey, r)
<1>1. /\ IsActive(r) /\ live[r] > 0 /\ c \notin Used /\ keyOf' = With(keyOf, c, NoKey)
      /\ UNCHANGED <<promised, stops>>
  BY DEF FireInstance
<1>2. /\ r \in DOMAIN recurring /\ recurring[r] \in RecurringRecord /\ recurring[r].status = "active"
      /\ mode # "down"
  BY <1>1, RecurringFacts DEF IsActive, TimerInv
<1>3. task \in TaskRecord /\ task.status = "pending" /\ task.key = NoKey /\ task.parent = r
  BY NewTaskRecord
<1>4. PICK next \in Fired(task) :
        /\ Fire(c, next, "due")
        /\ IF next.status # "executing" /\ IsValid(r)
             THEN /\ recurring' = [recurring EXCEPT ![r].child = None]
                  /\ SetRecurringTimer(r, live[r] - 1)
             ELSE /\ recurring' = [recurring EXCEPT ![r].child = c]
                  /\ live' = [live EXCEPT ![r] = @ - 1]
                  /\ mapped' = mapped \ {r}
        /\ awaiting' = IF next.status = "executing" THEN awaiting \cup {c} ELSE awaiting
        /\ mode' = IF next.status # "executing" /\ ~IsValid(r) THEN "dying" ELSE mode
  BY DEF FireInstance
<1>5. "due" \in Where
  BY DEF Where
<1> HIDE DEF task
<1>6. TaskSide
  <2>1. CASE mode = "up"
    BY <1>1, <1>3, <1>4, <1>5, <2>1, FireSide
  <2>2. CASE mode' # "up"
    BY <1>1, <1>3, <1>4, <1>5, <2>2, FireSide
  <2> QED BY <1>4, <2>1, <2>2
<1>7. /\ DOMAIN tasks' = DOMAIN tasks \cup {c} /\ tasks'[c] = next /\ next.parent = r
      /\ \A v \in DOMAIN tasks \ {c} : tasks'[v] = tasks[v]
      /\ c \notin awaiting /\ awaiting \subseteq DOMAIN tasks
  <2>1. c \notin awaiting /\ awaiting \subseteq DOMAIN tasks
    BY <1>1 DEF TimerInv, TypeInv, Linked
  <2>2. next.parent = r
    BY <1>3, <1>4, FiredRecord
  <2> QED BY <1>4, <2>1, <2>2 DEF Fire, With
<1>8. live[r] \in Nat /\ live[r] \in 0..MaxTimers /\ live[r] - 1 \in Nat /\ live[r] - 1 \in 0..MaxTimers
  <2>1. live[r] \in 0..MaxTimers
    BY UnmappedCount DEF TimerInv
  <2> QED BY <1>1, <2>1, BoundAssumption
<1>9. \A v \in awaiting : /\ v \in DOMAIN tasks' /\ tasks'[v] = tasks[v]
                          /\ tasks[v].status = "executing" /\ tasks[v].parent \in DOMAIN recurring
  BY <1>7 DEF TimerInv, TypeInv, TypeOK
<1>10. RecurringSide
  <2>1. CASE next.status = "executing" \/ ~IsValid(r)
    <3> DEFINE rec == [recurring[r] EXCEPT !.child = c]
               n == live[r] - 1
    <3>1. /\ recurring' = [recurring EXCEPT ![r] = rec]
          /\ awaiting' = IF next.status = "executing" THEN awaiting \cup {c} ELSE awaiting
          /\ live' = [live EXCEPT ![r] = n] /\ mapped' = mapped \ {r} /\ n \in 0..MaxTimers
      BY <1>4, <1>8, <2>1
    <3>2. rec \in RecurringRecord
      BY <1>2 DEF RecurringRecord
    <3> HIDE DEF rec, n
    <3>3. recurring' = With(recurring, r, rec) /\ DOMAIN recurring' = DOMAIN recurring
      BY <1>2, <3>1, RecurringFacts DEF TimerInv, With
    <3>4. \A v \in awaiting' : /\ v \in DOMAIN tasks' /\ tasks'[v].status = "executing"
                               /\ tasks'[v].parent \in DOMAIN recurring'
      BY <1>2, <1>7, <1>9, <2>1, <3>1, <3>3
    <3>5. /\ \A v \in awaiting : v \in awaiting' /\ tasks'[v].parent = tasks[v].parent
          /\ mode' = "up" => \E v \in awaiting' : tasks'[v].parent = r
      BY <1>4, <1>7, <1>9, <2>1, <3>1
    <3>6. mapped' \subseteq mapped \cup {r} /\ r \notin mapped'
      BY <3>1
    <3>7. mode = "up" \/ mode' # "up"
      BY <1>4
    <3> QED BY <3>1, <3>2, <3>3, <3>4, <3>5, <3>6, <3>7, OneRecurring
  <2>2. CASE next.status # "executing" /\ IsValid(r)
    <3> DEFINE rec == [recurring[r] EXCEPT !.child = None]
               n == live[r] - 1 + 1
    <3>1. /\ recurring' = [recurring EXCEPT ![r] = rec] /\ awaiting' = awaiting
          /\ SetRecurringTimer(r, live[r] - 1)
      BY <1>4, <2>2
    <3>2. rec \in RecurringRecord
      BY <1>2 DEF RecurringRecord
    <3>3. live' = [live EXCEPT ![r] = n] /\ mapped' = mapped \cup {r} /\ n \in 0..MaxTimers /\ n > 0
      BY <1>8, <3>1, OneMoreTimer
    <3> HIDE DEF rec, n
    <3>4. recurring' = With(recurring, r, rec) /\ DOMAIN recurring' = DOMAIN recurring
      BY <1>2, <3>1, RecurringFacts DEF TimerInv, With
    <3>5. \A v \in awaiting' : /\ v \in DOMAIN tasks' /\ tasks'[v].status = "executing"
                               /\ tasks'[v].parent \in DOMAIN recurring'
      BY <1>9, <3>1, <3>4
    <3>6. \A v \in awaiting : v \in awaiting' /\ tasks'[v].parent = tasks[v].parent
      BY <1>9, <3>1
    <3>7. mode = "up" \/ mode' # "up"
      BY <1>4
    <3> QED BY <3>2, <3>3, <3>4, <3>5, <3>6, <3>7, OneRecurring
  <2> QED BY <2>1, <2>2
<1>11. Writes
  BY SaveWrites DEF FireInstance
<1>12. mode' \in {"up", "closing", "dying"}
  BY <1>2, <1>4, Running DEF TimerInv
<1> QED BY <1>1, <1>2, <1>6, <1>10, <1>11, <1>12, SidesTogether

\* An execution ends; the occurrence that awaited it arms the next timer of an active task.
LEMMA RunEndsStep ==
    ASSUME TimerInv, NEW t \in Task, NEW status \in {"completed", "failed"}, RunEnds(t, status)
    PROVE  TimerInv' /\ TableStep
<1> DEFINE next == [tasks[t] EXCEPT !.status = status]
           timer == timers[t]
<1>1. /\ t \in DOMAIN tasks /\ tasks[t].status = "executing"
      /\ tasks' = [tasks EXCEPT ![t] = next] /\ awaiting' = awaiting \ {t}
      /\ UNCHANGED <<timers, when, history, stops>>
      /\ mode' = mode \/ mode' = "dying"
  BY DEF RunEnds, Executing, Continue
<1>2. /\ tasks[t] \in TaskRecord /\ mode # "down" /\ timer \in Armed
      /\ timers' = [timers EXCEPT ![t] = timer]
  BY <1>1, TaskFacts DEF TimerInv, TypeInv, TypeOK
<1>3. next \in TaskRecord /\ next.status = status /\ next.key = tasks[t].key /\ next.parent = tasks[t].parent
  BY <1>2 DEF TaskRecord, Status
<1>4. "due" \in Where
  BY DEF Where
<1> HIDE DEF next, timer
<1>5. TaskSide
  BY <1>1, <1>2, <1>3, <1>4, ChangeSide
<1>6. \A v \in awaiting \ {t} :
        /\ v \in DOMAIN tasks' /\ tasks'[v] = tasks[v]
        /\ tasks[v].status = "executing" /\ tasks[v].parent \in DOMAIN recurring
  BY <1>1 DEF TimerInv, TypeInv, TypeOK, Linked
<1>7. RecurringSide
  <2>1. CASE t \notin awaiting
    <3>1. UNCHANGED <<recurring, live, mapped, awaiting, mode>>
      BY <1>1, <2>1 DEF RunEnds
    <3> QED BY <1>6, <2>1, <3>1, NoRecurring
  <2>2. CASE t \in awaiting
    <3> DEFINE r == tasks[t].parent
               rec == IF IsActive(r) /\ ~IsValid(r) THEN recurring[r]
                      ELSE [recurring[r] EXCEPT !.child = None]
    <3>1. r \in DOMAIN recurring /\ r \in Recurring /\ recurring[r] \in RecurringRecord
      BY <2>2, RecurringFacts DEF TimerInv, TypeInv, TypeOK
    <3>2. recurring' = [recurring EXCEPT ![r] = rec] /\ Continue(r)
      <4>1. Continue(r)
        BY <2>2 DEF RunEnds
      <4> QED BY <3>1, <4>1, RecurringFacts DEF TimerInv, Continue
    <3>3. /\ rec \in RecurringRecord /\ rec.status = recurring[r].status
          /\ rec.valid = recurring[r].valid
      BY <3>1 DEF RecurringRecord
    <3>4. live[r] \in 0..MaxTimers /\ live[r] \in Nat /\ (r \in mapped => live[r] > 0)
      <4>1. live[r] \in 0..MaxTimers
        BY <3>1, UnmappedCount DEF TimerInv
      <4>2. r \in mapped => live[r] > 0
        BY DEF TimerInv, TypeInv, TypeOK
      <4> QED BY <4>1, <4>2, BoundAssumption
    <3>5. PICK n \in 0..MaxTimers :
            /\ live' = [live EXCEPT ![r] = n] /\ mapped' \subseteq mapped \cup {r}
            /\ r \in mapped' => n > 0
            /\ recurring[r].status = "active" /\ recurring[r].valid /\ mode' = "up" => n > 0
      <4>1. CASE IsActive(r) /\ IsValid(r)
        <5>1. SetRecurringTimer(r, live[r])
          BY <3>2, <4>1 DEF Continue
        <5> DEFINE n == live[r] + 1
        <5>2. n \in 0..MaxTimers /\ n > 0 /\ live' = [live EXCEPT ![r] = n] /\ mapped' = mapped \cup {r}
          BY <3>4, <5>1, OneMoreTimer
        <5> HIDE DEF n
        <5> QED BY <5>2
      <4>2. CASE ~(IsActive(r) /\ IsValid(r))
        <5>1. /\ UNCHANGED <<live, mapped>>
              /\ ~(recurring[r].status = "active" /\ recurring[r].valid)
          BY <3>1, <3>2, <4>2 DEF Continue, IsActive, IsValid
        <5>2. live' = [live EXCEPT ![r] = live[r]]
          BY <5>1 DEF TimerInv, TypeInv, TypeOK
        <5> QED BY <3>4, <5>1, <5>2
      <4> QED BY <4>1, <4>2
    <3> HIDE DEF rec, r
    <3>6. recurring' = With(recurring, r, rec) /\ DOMAIN recurring' = DOMAIN recurring
      BY <3>1, <3>2, RecurringFacts DEF TimerInv, With
    <3>7. \A v \in awaiting' : /\ v \in DOMAIN tasks' /\ tasks'[v].status = "executing"
                               /\ tasks'[v].parent \in DOMAIN recurring'
      BY <1>1, <1>6, <3>6
    <3>8. \A v \in awaiting : tasks[v].parent # r => v \in awaiting' /\ tasks'[v].parent = tasks[v].parent
      BY <1>1, <1>6 DEF r
    <3>9. mode = "up" \/ mode' # "up"
      BY <1>1
    <3> QED BY <3>1, <3>3, <3>5, <3>6, <3>7, <3>8, <3>9, OneRecurring
  <2> QED BY <2>1, <2>2
<1>8. Writes
  BY SaveWrites DEF RunEnds
<1>9. mode' \in {"up", "closing", "dying"}
  BY <1>1, <1>2, Running DEF TimerInv
<1> QED BY <1>1, <1>2, <1>5, <1>7, <1>8, <1>9, SidesTogether

LEMMA DestroyStep ==
    ASSUME TimerInv, Destroy
    PROVE  TimerInv' /\ TableStep
<1>1. /\ mode = "up" /\ mode' = "closing" /\ stops' = stops
      /\ timers' = [t \in Task |-> "none"] /\ live' = [r \in Recurring |-> Unmapped(r)] /\ mapped' = {}
      /\ UNCHANGED <<tasks, recurring, awaiting, when, history>>
  BY DEF Destroy
<1>2. TaskSide
  BY <1>1, NoTask
<1>3. \A r \in Recurring : Unmapped(r) \in 0..MaxTimers /\ (Unmapped(r) > 0 => live[r] > 0)
  <2> SUFFICES ASSUME NEW r \in Recurring
               PROVE  Unmapped(r) \in 0..MaxTimers /\ (Unmapped(r) > 0 => live[r] > 0)
    OBVIOUS
  <2>1. Unmapped(r) \in 0..live[r] /\ Unmapped(r) \in 0..MaxTimers /\ live[r] \in 0..MaxTimers
    BY UnmappedCount DEF TimerInv
  <2> QED BY <2>1, BoundAssumption
<1>4. RecurringSide
  <2>1. /\ live' \in [Recurring -> 0..MaxTimers]
        /\ \A r \in Recurring : live'[r] > 0 => r \in DOMAIN recurring
    BY <1>1, <1>3 DEF TimerInv, TypeInv, Linked
  <2>2. RecurrenceGoesOn'
    BY <1>1 DEF RecurrenceGoesOn
  <2> QED BY <1>1, <2>1, <2>2 DEF RecurringSide, TimerInv, TypeInv, TypeOK, Tables, Linked
<1>5. Writes
  BY SaveWrites DEF Destroy
<1> QED BY <1>1, <1>2, <1>4, <1>5, SidesTogether

-----------------------------------------------------------------------------
(* The other steps.                                                          *)

\* What a restart makes of the file.
LEMMA LoadFacts ==
    ASSUME TypeInv, LoadFromDisk
    PROVE  /\ DOMAIN tasks' \subseteq DOMAIN disk.tasks
           /\ tasks' \in [DOMAIN tasks' -> TaskRecord]
           /\ \A t \in DOMAIN tasks' :
                 /\ tasks'[t].key = disk.tasks[t].key
                 /\ disk.tasks[t].status # "cancelled" /\ tasks'[t].status # "cancelled"
                 /\ tasks'[t].status = "pending" =>
                       tasks'[t] = disk.tasks[t] /\ timers'[t] # "none"
           /\ timers' \in [Task -> Armed]
           /\ \A t \in Task : timers'[t] # "none" => t \in DOMAIN tasks'
           /\ \A t \in DOMAIN disk.tasks : Restored(disk.tasks[t]) =>
                 t \in DOMAIN tasks' /\ tasks'[t].status \in {"completed", "failed"}
           /\ DOMAIN recurring' \subseteq DOMAIN disk.recurring
           /\ recurring' \in [DOMAIN recurring' -> RecurringRecord]
           /\ \A r \in DOMAIN recurring' : recurring'[r].status = disk.recurring[r].status
           /\ live' \in [Recurring -> 0..MaxTimers]
           /\ mapped' \subseteq DOMAIN recurring' /\ \A r \in mapped' : live'[r] > 0
           /\ \A r \in Recurring : live'[r] > 0 => r \in DOMAIN recurring'
           /\ \A r \in DOMAIN recurring' :
                 recurring'[r].status = "active" /\ recurring'[r].valid => live'[r] > 0
<1> DEFINE ts == disk.tasks
           rs == disk.recurring
           Kept == {r \in DOMAIN rs : rs[r].status # "cancelled"}
           Throws(r) == rs[r].status = "active" /\ ~rs[r].valid
           Reached == {r \in Kept : \A q \in Kept : Throws(q) => r <= q}
           Pending == {t \in DOMAIN ts : ts[t].status = "pending"}
           Active == {r \in Reached : rs[r].status = "active"}
           Awake == {r \in Active : rs[r].valid}
           Interrupted == {rs[r].child : r \in Active}
           Loaded(t) == IF ts[t].status = "executing" \/ (t \in Interrupted /\ t \in Pending)
                        THEN [ts[t] EXCEPT !.status = "failed"] ELSE ts[t]
<1>1. PICK stale \in SUBSET {t \in Pending : when[t] = "due"} :
        /\ tasks' = [t \in (Pending \ stale) \cup {u \in DOMAIN ts : Restored(ts[u])} |-> Loaded(t)]
        /\ timers' = [t \in Task |-> IF t \in Pending \ stale THEN Timer(when[t]) ELSE "none"]
  BY DEF LoadFromDisk
<1>2. /\ recurring' = [r \in Reached |-> IF r \in Active THEN [rs[r] EXCEPT !.child = None] ELSE rs[r]]
      /\ live' = [r \in Recurring |-> IF r \in Awake THEN 1 ELSE 0]
      /\ mapped' = Awake
  BY DEF LoadFromDisk
<1>3. /\ \A t \in DOMAIN ts : ts[t] \in TaskRecord /\ t \in Task
      /\ \A r \in DOMAIN disk.recurring : disk.recurring[r] \in RecurringRecord /\ r \in Recurring
  BY DEF TypeInv, TypeOK, Tables
<1>4. \A t \in DOMAIN ts :
        /\ Loaded(t) \in TaskRecord /\ Loaded(t).key = ts[t].key
        /\ Loaded(t).status = "failed" \/ Loaded(t) = ts[t]
        /\ Loaded(t).status # "executing"
  BY <1>3 DEF TaskRecord, Status
<1>5. \A at : Timer(at) \in Armed /\ Timer(at) # "none"
  BY DEF Timer, Armed
<1>6. /\ Reached \subseteq DOMAIN rs /\ Awake \subseteq Reached
      /\ \A r \in Reached : rs[r] \in RecurringRecord /\ r \in Recurring
      /\ \A r \in Reached : rs[r].status = "active" /\ rs[r].valid <=> r \in Awake
  BY <1>3
<1>7. /\ Pending \subseteq DOMAIN ts
      /\ \A t \in DOMAIN ts : ts[t].status = "pending" <=> t \in Pending
      /\ \A t \in DOMAIN ts : Restored(ts[t]) => ts[t].status \in {"executing", "completed", "failed"}
  BY DEF Restored
<1> HIDE DEF Reached, Pending, Active, Awake, Loaded
<1>8. DOMAIN tasks' = (Pending \ stale) \cup {u \in DOMAIN ts : Restored(ts[u])}
  BY <1>1
<1>9. \A t \in DOMAIN tasks' : t \in DOMAIN ts /\ tasks'[t] = Loaded(t)
  BY <1>1, <1>7
<1>10. /\ DOMAIN tasks' \subseteq DOMAIN ts
       /\ tasks' \in [DOMAIN tasks' -> TaskRecord]
       /\ \A t \in DOMAIN ts : Restored(ts[t]) =>
             t \in DOMAIN tasks' /\ tasks'[t].status \in {"completed", "failed"}
  <2>1. tasks' = [t \in DOMAIN tasks' |-> tasks'[t]]
    BY <1>1
  <2>2. \A t \in DOMAIN tasks' : tasks'[t] \in TaskRecord
    BY <1>4, <1>9
  <2>3. \A t \in DOMAIN ts : Restored(ts[t]) =>
             t \in DOMAIN tasks' /\ tasks'[t].status \in {"completed", "failed"}
    BY <1>4, <1>7, <1>8, <1>9
  <2> QED BY <1>9, <2>1, <2>2, <2>3
<1>11. /\ timers' \in [Task -> Armed]
       /\ \A t \in Task : timers'[t] # "none" <=> t \in Pending \ stale
  <2>1. "none" \in Armed
    BY DEF Armed
  <2> QED BY <1>1, <1>5, <2>1
<1>12. \A t \in DOMAIN tasks' :
         /\ tasks'[t].key = ts[t].key
         /\ ts[t].status # "cancelled" /\ tasks'[t].status # "cancelled"
         /\ tasks'[t].status = "pending" => tasks'[t] = ts[t] /\ timers'[t] # "none"
  <2> SUFFICES ASSUME NEW t \in DOMAIN tasks'
               PROVE  /\ tasks'[t].key = ts[t].key
                      /\ ts[t].status # "cancelled" /\ tasks'[t].status # "cancelled"
                      /\ tasks'[t].status = "pending" => tasks'[t] = ts[t] /\ timers'[t] # "none"
    OBVIOUS
  <2>1. ts[t].status # "cancelled" /\ t \in DOMAIN ts /\ t \in Task
    BY <1>3, <1>7, <1>8
  <2>2. ts[t].status = "pending" => t \in Pending \ stale
    BY <1>7, <1>8, <2>1
  <2> QED BY <1>4, <1>9, <1>11, <2>1, <2>2
<1>13. /\ DOMAIN recurring' = Reached
       /\ \A r \in DOMAIN recurring' : /\ recurring'[r] \in RecurringRecord
                                        /\ recurring'[r].status = rs[r].status
                                        /\ recurring'[r].valid = rs[r].valid
       /\ recurring' = [r \in DOMAIN recurring' |-> recurring'[r]]
  BY <1>2, <1>6 DEF RecurringRecord
<1>14. live' \in [Recurring -> 0..MaxTimers]
  BY <1>2, BoundAssumption
<1>15. \A r \in Recurring : live'[r] > 0 <=> r \in Awake
  BY <1>2
<1> QED BY <1>2, <1>6, <1>8, <1>10, <1>11, <1>12, <1>13, <1>14, <1>15

LEMMA LoadStep ==
    ASSUME TimerInv, LoadFromDisk
    PROVE  TimerInv'
<1>1. mode = "down" /\ mode' = "up" /\ UNCHANGED <<awaiting, when, disk, keyOf, begun, promised, faults, stops>>
  BY DEF LoadFromDisk, history
<1>2. awaiting' = {}
  BY <1>1 DEF TimerInv, TypeInv, Linked
<1>3. /\ DOMAIN tasks' \subseteq Task /\ DOMAIN recurring' \subseteq Recurring
      /\ Tables(tasks', recurring')
  BY LoadFacts DEF TimerInv, TypeInv, TypeOK, Tables
<1>4. TypeOK'
  <2>1. Tables(tasks, recurring)' /\ Tables(disk.tasks, disk.recurring)'
    BY <1>1, <1>3 DEF TimerInv, TypeInv, TypeOK
  <2>2. timers' \in [Task -> {"none", "at executeAt", "at once"}]
    BY LoadFacts DEF TimerInv, Armed
  <2> QED BY <1>1, <1>2, <2>1, <2>2, LoadFacts DEF TimerInv, TypeInv, TypeOK
<1>5. \A t \in DOMAIN tasks' : t \in Used /\ tasks'[t].key = keyOf[t]
  BY LoadFacts DEF TimerInv, TypeInv, Linked
<1>6. Linked'
  <2>1. \A t \in DOMAIN disk'.tasks : t \in DOMAIN keyOf' /\ disk'.tasks[t].key = keyOf'[t]
    BY <1>1 DEF TimerInv, TypeInv, Linked, Used
  <2>2. /\ keyOf' \in [DOMAIN keyOf' -> Key \cup {NoKey}] /\ DOMAIN keyOf' \subseteq Task
        /\ begun' \in [Task -> Nat] /\ promised' \subseteq DOMAIN keyOf' /\ faults' \in Nat /\ stops' \in Nat
    BY <1>1 DEF TimerInv, TypeInv, Linked, Used
  <2>3. \A t \in DOMAIN tasks' : t \in DOMAIN keyOf' /\ tasks'[t].key = keyOf'[t]
    BY <1>1, <1>5 DEF Used
  <2> QED BY <1>1, <1>2, <2>1, <2>2, <2>3, LoadFacts DEF TimerInv, Linked, Used
<1>7. PendingHasTimer'
  BY LoadFacts DEF TimerInv, PendingHasTimer, IsPending
<1>8. RecurrenceGoesOn'
  BY LoadFacts DEF TimerInv, RecurrenceGoesOn, IsActive, IsValid
<1> QED BY <1>4, <1>6, <1>7, <1>8 DEF TimerInv, TypeInv

LEMMA CrashStep ==
    ASSUME TimerInv, Crash
    PROVE  TimerInv'
<1>1. /\ mode' = "down" /\ tasks' = Nothing /\ recurring' = Nothing
      /\ timers' = [t \in Task |-> "none"] /\ live' = [r \in Recurring |-> 0]
      /\ mapped' = {} /\ awaiting' = {} /\ stops' \in {stops, stops + 1}
      /\ UNCHANGED <<when, disk, keyOf, begun, promised, faults>>
  BY DEF Crash, history
<1>2. Tables(Nothing, Nothing) /\ DOMAIN Nothing = {}
  BY DEF Tables, Nothing
<1>3. live' \in [Recurring -> 0..MaxTimers]
  BY <1>1, BoundAssumption
<1>4. TypeOK'
  BY <1>1, <1>2, <1>3 DEF TimerInv, TypeInv, TypeOK
<1>5. Linked'
  BY <1>1, <1>2 DEF TimerInv, TypeInv, Linked, Used
<1>6. PendingHasTimer' /\ RecurrenceGoesOn'
  BY <1>1 DEF PendingHasTimer, RecurrenceGoesOn
<1> QED BY <1>4, <1>5, <1>6 DEF TimerInv, TypeInv

\* A step that changes neither the tables nor what was promised or begun.
Quiet == UNCHANGED <<tasks, recurring, timers, live, mapped, awaiting, disk, mode, keyOf, begun, promised, faults, stops>>

LEMMA QuietStep ==
    ASSUME TimerInv, Quiet, when' \in [Task -> Where]
    PROVE  TimerInv'
<1>1. TypeOK'
  BY DEF TimerInv, TypeInv, TypeOK, Tables, Quiet, Where
<1>2. Linked'
  BY DEF TimerInv, TypeInv, Linked, Quiet, Used
<1>3. PendingHasTimer' /\ RecurrenceGoesOn'
  BY DEF TimerInv, PendingHasTimer, RecurrenceGoesOn, IsPending, IsActive, IsValid, Quiet
<1> QED BY <1>1, <1>2, <1>3 DEF TimerInv, TypeInv

\* Every step is one of the running scheduler's on the tables, a crash, a restart, or quiet.
LEMMA StepKinds ==
    ASSUME TimerInv, [Next]_vars
    PROVE  TimerInv' /\ (TableStep \/ Crash \/ LoadFromDisk \/ Quiet)
<1>1. "later" \in Where /\ "far" \in Where /\ "due" \in Where
  BY DEF Where
<1>2. ASSUME NEW t \in Task, TaskStep(t)
      PROVE  TimerInv' /\ (TableStep \/ Quiet)
  <2>1. CASE \E at \in {"later", "far"} : ScheduleTask(t, at)
    BY <1>1, <2>1, ScheduleTaskStep
  <2>2. CASE \E key \in Key : ScheduleTaskDurably(t, key, "due")
    BY <1>1, <2>2, ScheduleTaskDurablyStep
  <2>3. CASE \E at \in {"later", "far"} : UpdateTask(t, at)
    BY <1>1, <2>3, UpdateTaskStep
  <2>4. CASE CancelTask(t)
    BY <2>4, CancelTaskStep
  <2>5. CASE FireTask(t)
    BY <2>5, FireTaskStep
  <2>6. CASE TimePasses(t)
    <3>1. Quiet
      BY <2>6 DEF TimePasses, Quiet, memory, history
    <3>2. when' \in [Task -> Where]
      BY <2>6 DEF TimePasses, TimerInv, TypeInv, TypeOK, Where
    <3> QED BY <3>1, <3>2, QuietStep
  <2>7. CASE \E status \in {"completed", "failed"} : RunEnds(t, status)
    BY <2>7, RunEndsStep
  <2> QED BY <1>2, <2>1, <2>2, <2>3, <2>4, <2>5, <2>6, <2>7 DEF TaskStep
<1>3. ASSUME NEW r \in Recurring, RecurringStep(r)
      PROVE  TimerInv' /\ TableStep
  BY <1>3, ScheduleRecurringStep, UpdateRecurringStep, PauseRecurringStep, ResumeRecurringStep,
     CancelRecurringStep, FireInstanceStep, FireInactiveStep, RecheckStep DEF RecurringStep
<1>4. CASE UNCHANGED vars
  <2>1. Quiet /\ when' = when
    BY <1>4 DEF vars, memory, history, Quiet
  <2>2. when' \in [Task -> Where]
    BY <2>1 DEF TimerInv, TypeInv, TypeOK, Where
  <2> QED BY <2>1, <2>2, QuietStep
<1> QED BY <1>2, <1>3, <1>4, EditStep, DestroyStep, CrashStep, LoadStep DEF Next

LEMMA InitTimerInv ==
    ASSUME Init
    PROVE  TimerInv
<1>1. DOMAIN Nothing = {} /\ Tables(Nothing, Nothing)
  BY DEF Nothing, Tables
<1>2. live \in [Recurring -> 0..MaxTimers]
  BY BoundAssumption DEF Init
<1>3. TypeOK
  BY <1>1, <1>2 DEF Init, TypeOK
<1>4. Linked
  <2>1. DOMAIN tasks = {} /\ DOMAIN recurring = {} /\ DOMAIN disk.tasks = {} /\ DOMAIN keyOf = {}
    BY <1>1 DEF Init
  <2>2. keyOf \in [Used -> Key \cup {NoKey}]
    BY <2>1 DEF Init, Nothing, Used
  <2> QED BY <2>1, <2>2 DEF Init, Linked, Used
<1>5. PendingHasTimer /\ RecurrenceGoesOn
  BY <1>1 DEF Init, PendingHasTimer, RecurrenceGoesOn
<1> QED BY <1>3, <1>4, <1>5 DEF TimerInv, TypeInv

LEMMA TimerInvHolds == Spec => []TimerInv
<1>1. TimerInv /\ [Next]_vars => TimerInv'
  BY StepKinds
<1> QED BY <1>1, InitTimerInv, PTL DEF Spec

\* Memory and file hold well-formed tables at all times.
THEOREM TypeOKHolds == Spec => []TypeOK
<1>1. TimerInv => TypeOK
  BY DEF TimerInv, TypeInv
<1> QED BY <1>1, TimerInvHolds, PTL

\* No pending task is ever without a timer while the scheduler is up (setTimer, fireTask,
\* loadFromDisk).
THEOREM PendingHolds == Spec => []PendingHasTimer
<1>1. TimerInv => PendingHasTimer
  BY DEF TimerInv
<1> QED BY <1>1, TimerInvHolds, PTL

\* No active recurring task whose time zone exists ever falls silent while the scheduler is
\* up, whatever throws for another one (fireRecurringInstance, resumeRecurring, loadFromDisk).
THEOREM RecurrenceHolds == Spec => []RecurrenceGoesOn
<1>1. TimerInv => RecurrenceGoesOn
  BY DEF TimerInv
<1> QED BY <1>1, TimerInvHolds, PTL

-----------------------------------------------------------------------------
(* Memory and file.                                                          *)

\* Where a task that is pending after a step of the running scheduler comes from.
LEMMA StillPending ==
    ASSUME TimerInv, TableStep, NEW t \in DOMAIN tasks', tasks'[t].status = "pending"
    PROVE  (t \in DOMAIN tasks /\ tasks[t].status = "pending") \/ Appears(t)
<1>1. CASE t \in DOMAIN tasks
  BY <1>1 DEF TableStep, TaskSide, Moves
<1>2. CASE t \notin DOMAIN tasks
  <2>1. PICK u \in Task : Appears(u)
    BY <1>2 DEF TableStep, TaskSide
  <2>2. t = u
    BY <1>2, <2>1 DEF Appears
  <2> QED BY <2>1, <2>2
<1> QED BY <1>1, <1>2

\* The file is memory after the step, or the save has failed, or nothing has changed but
\* recurring tasks that made the handler throw.
LEMMA WriteKinds ==
    ASSUME TimerInv, TableStep
    PROVE  /\ faults' = 0 => faults = 0
           /\ \/ disk'.tasks = tasks' /\ disk'.recurring = recurring'
              \/ /\ disk' = disk /\ tasks' = tasks /\ DOMAIN recurring' = DOMAIN recurring
                 /\ \A r \in DOMAIN recurring : recurring'[r] = recurring[r] \/ ~recurring'[r].valid
              \/ disk' = disk /\ faults' # 0
<1>1. faults \in Nat
  BY DEF TimerInv, TypeInv, Linked
<1> QED BY <1>1 DEF TableStep, Writes

SavedInv == TimerInv /\ PendingIsSaved

LEMMA SavedInvInductive ==
    ASSUME SavedInv, [Next]_vars
    PROVE  SavedInv'
<1>1. TimerInv /\ TimerInv' /\ (TableStep \/ Crash \/ LoadFromDisk \/ Quiet)
  BY StepKinds DEF SavedInv
<1>2. CASE TableStep
  <2> SUFFICES PendingIsSaved'
    BY <1>1 DEF SavedInv
  <2>1. CASE disk'.tasks = tasks' /\ disk'.recurring = recurring'
    BY <2>1 DEF PendingIsSaved, IsPending, IsValid
  <2>2. CASE /\ disk' = disk /\ tasks' = tasks /\ DOMAIN recurring' = DOMAIN recurring
             /\ \A r \in DOMAIN recurring : recurring'[r] = recurring[r] \/ ~recurring'[r].valid
    <3>1. mode # "down" /\ (faults' = 0 => faults = 0)
      BY <1>1, <1>2, WriteKinds DEF TableStep
    <3> QED BY <2>2, <3>1 DEF SavedInv, PendingIsSaved, IsPending, IsValid
  <2>3. CASE faults' # 0
    BY <2>3 DEF PendingIsSaved
  <2> QED BY <1>1, <1>2, <2>1, <2>2, <2>3, WriteKinds
<1>3. CASE Crash
  BY <1>1, <1>3 DEF SavedInv, PendingIsSaved, Crash
<1>4. CASE LoadFromDisk
  <2>1. disk' = disk
    BY <1>4 DEF LoadFromDisk
  <2>2. PendingIsSaved'
    BY <1>1, <1>4, <2>1, LoadFacts DEF PendingIsSaved, IsPending, TimerInv
  <2> QED BY <1>1, <2>2 DEF SavedInv
<1>5. CASE Quiet
  BY <1>1, <1>5 DEF SavedInv, PendingIsSaved, IsPending, IsValid, Quiet
<1> QED BY <1>1, <1>2, <1>3, <1>4, <1>5

\* While saves succeed, a crash at any moment loses nothing that is pending, nor the status of
\* a recurring task for which no handler has thrown before its saveToDisk.
THEOREM SavedHolds == Spec => []PendingIsSaved
<1>1. Init => SavedInv
  <2>1. ASSUME Init PROVE PendingIsSaved
    BY <2>1 DEF Init, PendingIsSaved, IsPending, Nothing
  <2> QED BY <2>1, InitTimerInv DEF SavedInv
<1>2. SavedInv /\ [Next]_vars => SavedInv'
  BY SavedInvInductive
<1>3. SavedInv => PendingIsSaved
  BY DEF SavedInv
<1> QED BY <1>1, <1>2, <1>3, PTL DEF Spec

PromisedInv == TimerInv /\ PromisedIsSaved

LEMMA PromisedInvInductive ==
    ASSUME PromisedInv, [Next]_vars
    PROVE  PromisedInv'
<1>1. TimerInv /\ TimerInv' /\ (TableStep \/ Crash \/ LoadFromDisk \/ Quiet)
  BY StepKinds DEF PromisedInv
<1>2. CASE TableStep
  <2> SUFFICES ASSUME NEW t \in promised', t \in DOMAIN tasks', tasks'[t].status = "pending"
               PROVE  t \in DOMAIN disk'.tasks /\ disk'.tasks[t].status = "pending"
    BY <1>1 DEF PromisedInv, PromisedIsSaved, IsPending
  <2>1. CASE disk'.tasks = tasks'
    BY <2>1
  <2>2. CASE disk' = disk /\ disk'.tasks # tasks'
    <3>1. t \in promised
      <4>1. \A u \in Task : Appears(u) => promised' \subseteq promised \cup {u} /\ u \notin promised'
        BY <2>2 DEF Appears
      <4>2. promised' = promised \/ \E u \in Task : Appears(u)
        BY <1>2 DEF TableStep, TaskSide
      <4> QED BY <4>1, <4>2
    <3>2. t \in Used
      BY <1>1, <3>1 DEF TimerInv, TypeInv, Linked
    <3>3. ~Appears(t)
      BY <3>2 DEF Appears
    <3>4. t \in DOMAIN tasks /\ tasks[t].status = "pending"
      BY <1>1, <1>2, <3>3, StillPending
    <3> QED BY <2>2, <3>1, <3>4 DEF PromisedInv, PromisedIsSaved, IsPending
  <2> QED BY <1>1, <1>2, <2>1, <2>2, WriteKinds
<1>3. CASE Crash
  <2>1. PromisedIsSaved'
    BY <1>3 DEF PromisedIsSaved, IsPending, Crash, Nothing
  <2> QED BY <1>1, <2>1 DEF PromisedInv
<1>4. CASE LoadFromDisk
  <2>1. disk' = disk
    BY <1>4 DEF LoadFromDisk
  <2>2. PromisedIsSaved'
    BY <1>1, <1>4, <2>1, LoadFacts DEF PromisedIsSaved, IsPending, TimerInv
  <2> QED BY <1>1, <2>2 DEF PromisedInv
<1>5. CASE Quiet
  BY <1>1, <1>5 DEF PromisedInv, PromisedIsSaved, IsPending, Quiet
<1> QED BY <1>1, <1>2, <1>3, <1>4, <1>5

\* What scheduleTaskDurably has returned is in the file for as long as it is pending, however
\* many later saves fail: a status never goes back to pending, and a failed save leaves an
\* older file in which the task is pending.
THEOREM PromisedHolds == Spec => []PromisedIsSaved
<1>1. Init => PromisedInv
  <2>1. ASSUME Init PROVE PromisedIsSaved
    BY <2>1 DEF Init, PromisedIsSaved
  <2> QED BY <2>1, InitTimerInv DEF PromisedInv
<1>2. PromisedInv /\ [Next]_vars => PromisedInv'
  BY PromisedInvInductive
<1>3. PromisedInv => PromisedIsSaved
  BY DEF PromisedInv
<1> QED BY <1>1, <1>2, <1>3, PTL DEF Spec

-----------------------------------------------------------------------------
(* At most one execution.                                                    *)

ExecutionInv == TimerInv /\ KeyInv

\* A step of the tables begins a task at most once, and remembers it in memory.
LEMMA BegunOnce ==
    ASSUME TimerInv, TimerInv', KeyInv, TableStep, faults = 0
    PROVE  /\ \A t \in Used' : begun'[t] <= 1
           /\ \A t \in Task \ Used' : begun'[t] = 0
           /\ Remembers(tasks)'
<1>1. /\ \A t \in Used : begun[t] <= 1
      /\ \A t \in Task \ Used : begun[t] = 0
      /\ Remembers(tasks)
      /\ \A t \in Task : begun[t] \in Nat /\ begun'[t] \in Nat
      /\ Used \subseteq Task
  BY DEF KeyInv, TableStep, TaskSide, TimerInv, TypeInv, Linked
<1>2. /\ \A t \in DOMAIN tasks : t \in Used /\ t \in Task /\ Moves(t)
      /\ \A t \in DOMAIN tasks' \ DOMAIN tasks : t \in Task /\ Appears(t)
      /\ \A t \in Task \ DOMAIN tasks' : begun'[t] = begun[t]
      /\ Used' \subseteq Used \cup DOMAIN tasks' /\ Used \subseteq Used'
      /\ DOMAIN tasks \subseteq DOMAIN tasks'
  <2>1. \A t \in DOMAIN tasks : t \in Used /\ t \in Task
    BY DEF TimerInv, TypeInv, TypeOK, Tables, Linked
  <2>2. \A t \in DOMAIN tasks : Moves(t)
    BY DEF TableStep, TaskSide
  <2>3. \A t \in Task \ DOMAIN tasks' : begun'[t] = begun[t]
    BY DEF TableStep, TaskSide
  <2>4. CASE DOMAIN tasks' = DOMAIN tasks /\ keyOf' = keyOf
    BY <2>1, <2>2, <2>3, <2>4 DEF Used
  <2>5. ASSUME NEW u \in Task, Appears(u)
        PROVE  /\ \A t \in DOMAIN tasks' \ DOMAIN tasks : t \in Task /\ Appears(t)
               /\ Used' \subseteq Used \cup DOMAIN tasks' /\ Used \subseteq Used'
               /\ DOMAIN tasks \subseteq DOMAIN tasks'
    <3>1. Used' = Used \cup {u} /\ DOMAIN tasks' = DOMAIN tasks \cup {u}
      BY <2>5 DEF Appears
    <3> QED BY <2>5, <3>1
  <2>6. (DOMAIN tasks' = DOMAIN tasks /\ keyOf' = keyOf) \/ \E u \in Task : Appears(u)
    BY DEF TableStep, TaskSide
  <2> QED BY <2>1, <2>2, <2>3, <2>4, <2>5, <2>6
<1>3. \A t \in Used : keyOf'[t] = keyOf[t]
  BY DEF TableStep, TaskSide, Appears
<1>4. ASSUME NEW t \in DOMAIN tasks
      PROVE  /\ begun'[t] <= 1
             /\ begun'[t] > 0 =>
                  /\ tasks'[t].status # "pending"
                  /\ keyOf'[t] # NoKey => tasks'[t].status \in {"executing", "completed", "failed"}
  <2>1. t \in Used /\ Moves(t) /\ begun[t] \in Nat /\ begun[t] <= 1 /\ keyOf'[t] = keyOf[t]
    BY <1>1, <1>2, <1>3
  <2>2. begun[t] > 0 =>
          /\ tasks[t].status # "pending"
          /\ keyOf[t] # NoKey => tasks[t].status \in {"executing", "completed", "failed"}
    BY <1>1, <2>1 DEF Remembers
  <2>3. CASE begun'[t] = begun[t]
    BY <2>1, <2>2, <2>3 DEF Moves
  <2>4. CASE tasks[t].status = "pending" /\ tasks'[t].status = "executing" /\ begun'[t] = begun[t] + 1
    <3>1. begun[t] = 0
      BY <2>1, <2>2, <2>4
    <3> QED BY <2>4, <3>1
  <2> QED BY <2>1, <2>3, <2>4 DEF Moves
<1>5. ASSUME NEW t \in DOMAIN tasks' \ DOMAIN tasks
      PROVE  begun'[t] <= 1 /\ (begun'[t] > 0 => tasks'[t].status = "executing")
  <2>1. t \in Task /\ Appears(t) /\ t \notin Used
    BY <1>2 DEF Appears
  <2>2. begun[t] = 0
    BY <1>1, <2>1
  <2> QED BY <2>1, <2>2 DEF Appears
<1>6. \A t \in Used' : begun'[t] <= 1
  BY <1>1, <1>2, <1>4, <1>5
<1>7. \A t \in Task \ Used' : begun'[t] = 0
  <2> SUFFICES ASSUME NEW t \in Task, t \notin Used'
               PROVE  begun'[t] = 0
    OBVIOUS
  <2>1. t \notin DOMAIN tasks'
    BY DEF TimerInv, TypeInv, Linked
  <2> QED BY <1>1, <1>2, <2>1
<1>8. Remembers(tasks)'
  <2> SUFFICES ASSUME NEW t \in Used', begun'[t] > 0
               PROVE  /\ t \in DOMAIN tasks' => tasks'[t].status # "pending"
                      /\ keyOf'[t] # NoKey =>
                           t \in DOMAIN tasks' /\ tasks'[t].status \in {"executing", "completed", "failed"}
    BY DEF Remembers
  <2>1. CASE t \in DOMAIN tasks
    BY <1>2, <1>4, <2>1
  <2>2. CASE t \in DOMAIN tasks' \ DOMAIN tasks
    BY <1>5, <2>2
  <2>3. CASE t \notin DOMAIN tasks'
    <3>1. t \in Used /\ t \in Task /\ t \notin DOMAIN tasks
      BY <1>1, <1>2, <2>3
    <3>2. begun[t] > 0 /\ keyOf'[t] = keyOf[t]
      BY <1>2, <1>3, <2>3, <3>1
    <3> QED BY <1>1, <2>3, <3>1, <3>2 DEF Remembers
  <2> QED BY <2>1, <2>2, <2>3
<1> QED BY <1>6, <1>7, <1>8

\* A step of the tables keeps one live task per key: a new task's key is not taken, and a
\* cancelled task stays cancelled.
LEMMA KeysStayApart ==
    ASSUME TimerInv, OnePerKey(tasks), TableStep
    PROVE  OnePerKey(tasks')
<1> SUFFICES ASSUME NEW t \in DOMAIN tasks', NEW u \in DOMAIN tasks',
                    tasks'[t].key # NoKey, tasks'[t].key = tasks'[u].key,
                    tasks'[t].status # "cancelled", tasks'[u].status # "cancelled", t # u
             PROVE  FALSE
  BY DEF OnePerKey
<1>1. \A v \in DOMAIN tasks : /\ tasks'[v].key = tasks[v].key
                              /\ tasks'[v].status # "cancelled" => tasks[v].status # "cancelled"
  BY DEF TableStep, TaskSide, Moves
<1>2. CASE t \in DOMAIN tasks /\ u \in DOMAIN tasks
  BY <1>1, <1>2 DEF OnePerKey
<1>3. ASSUME NEW v \in Task, Appears(v)
      PROVE  /\ DOMAIN tasks' = DOMAIN tasks \cup {v}
             /\ tasks'[v].key # NoKey => \A w \in DOMAIN tasks :
                   tasks[w].key = tasks'[v].key => tasks[w].status = "cancelled"
  BY <1>3 DEF Appears, Deduplicated
<1>4. CASE t \notin DOMAIN tasks \/ u \notin DOMAIN tasks
  <2>1. PICK v \in Task : Appears(v)
    BY <1>4 DEF TableStep, TaskSide
  <2>2. (t = v /\ u \in DOMAIN tasks) \/ (u = v /\ t \in DOMAIN tasks)
    BY <1>3, <1>4, <2>1
  <2>3. \A w \in DOMAIN tasks :
          tasks'[v].key # NoKey /\ tasks[w].key = tasks'[v].key => tasks[w].status = "cancelled"
    BY <1>3, <2>1
  <2>4. CASE t = v /\ u \in DOMAIN tasks
    <3>1. tasks[u].key = tasks'[v].key /\ tasks[u].status # "cancelled"
      BY <1>1, <2>4
    <3> QED BY <2>3, <2>4, <3>1
  <2>5. CASE u = v /\ t \in DOMAIN tasks
    <3>1. tasks[t].key = tasks'[v].key /\ tasks[t].status # "cancelled"
      BY <1>1, <2>5
    <3> QED BY <2>3, <2>5, <3>1
  <2> QED BY <2>2, <2>4, <2>5
<1> QED BY <1>2, <1>4

LEMMA ExecutionInvInductive ==
    ASSUME ExecutionInv, [Next]_vars
    PROVE  ExecutionInv'
<1>1. TimerInv /\ KeyInv /\ TimerInv' /\ (TableStep \/ Crash \/ LoadFromDisk \/ Quiet)
  BY StepKinds DEF ExecutionInv
<1>2. CASE TableStep
  <2> SUFFICES ASSUME faults' = 0
               PROVE  KeyInv'
    BY <1>1 DEF ExecutionInv, KeyInv
  <2>1. faults = 0
    BY <1>1, <1>2, WriteKinds
  <2>2. /\ \A t \in Used' : begun'[t] <= 1
        /\ \A t \in Task \ Used' : begun'[t] = 0
        /\ Remembers(tasks)'
    BY <1>1, <1>2, <2>1, BegunOnce
  <2>3. OnePerKey(tasks')
    BY <1>1, <1>2, <2>1, KeysStayApart DEF KeyInv, TableStep
  <2>4. OnePerKey(disk'.tasks) /\ Remembers(disk.tasks)'
    <3>1. CASE disk'.tasks = tasks'
      BY <2>2, <2>3, <3>1 DEF Remembers
    <3>2. CASE disk' = disk /\ tasks' = tasks
      <4>1. OnePerKey(disk.tasks) /\ Remembers(disk.tasks)
        BY <1>1, <2>1 DEF KeyInv
      <4>2. keyOf' = keyOf
        <5>1. \A u \in Task : ~Appears(u)
          BY <1>1, <3>2 DEF Appears, TimerInv, TypeInv, Linked
        <5> QED BY <1>2, <5>1 DEF TableStep, TaskSide
      <4>3. \A t \in Task : begun'[t] = begun[t]
        BY <1>2, <3>2 DEF TableStep, TaskSide, Moves
      <4>4. Used \subseteq Task
        BY <1>1 DEF TimerInv, TypeInv, Linked
      <4> QED BY <3>2, <4>1, <4>2, <4>3, <4>4 DEF Remembers, Used
    <3> QED BY <1>1, <1>2, <3>1, <3>2, WriteKinds
  <2> QED BY <2>2, <2>3, <2>4 DEF KeyInv
<1>3. CASE Crash
  <2>1. /\ UNCHANGED <<disk, begun, keyOf, faults>> /\ mode' = "down" /\ DOMAIN tasks' = {}
    BY <1>3 DEF Crash, history, Nothing
  <2>2. OnePerKey(tasks)'
    BY <2>1 DEF OnePerKey
  <2>3. KeyInv'
    BY <1>1, <2>1, <2>2 DEF KeyInv, Used, Remembers, OnePerKey
  <2> QED BY <1>1, <2>3 DEF ExecutionInv
<1>4. CASE LoadFromDisk
  <2> SUFFICES ASSUME faults' = 0
               PROVE  KeyInv'
    BY <1>1 DEF ExecutionInv, KeyInv
  <2>1. UNCHANGED <<disk, begun, keyOf, faults>>
    BY <1>4 DEF LoadFromDisk, history
  <2>2. OnePerKey(disk.tasks) /\ Remembers(disk.tasks)
    BY <1>1, <2>1 DEF KeyInv
  <2>3. OnePerKey(tasks')
    BY <1>1, <1>4, <2>2, LoadFacts DEF OnePerKey, TimerInv
  <2>4. Remembers(tasks)'
    <3> SUFFICES ASSUME NEW t \in Used, begun[t] > 0
                 PROVE  /\ t \in DOMAIN tasks' => tasks'[t].status # "pending"
                        /\ keyOf[t] # NoKey =>
                             t \in DOMAIN tasks' /\ tasks'[t].status \in {"executing", "completed", "failed"}
      BY <2>1 DEF Remembers, Used
    <3>1. t \in DOMAIN tasks' => tasks'[t].status # "pending"
      BY <1>1, <1>4, <2>2, LoadFacts DEF Remembers, TimerInv
    <3>2. ASSUME keyOf[t] # NoKey
          PROVE  t \in DOMAIN tasks' /\ tasks'[t].status \in {"completed", "failed"}
      <4>1. t \in DOMAIN disk.tasks /\ disk.tasks[t].status \in {"executing", "completed", "failed"}
        BY <2>2, <3>2 DEF Remembers
      <4>2. Restored(disk.tasks[t])
        BY <1>1, <3>2, <4>1 DEF Restored, TimerInv, TypeInv, Linked
      <4> QED BY <1>1, <1>4, <4>1, <4>2, LoadFacts DEF TimerInv
    <3> QED BY <3>1, <3>2
  <2> QED BY <1>1, <2>1, <2>2, <2>3, <2>4 DEF KeyInv, Used, Remembers
<1>5. CASE Quiet
  BY <1>1, <1>5 DEF ExecutionInv, KeyInv, Quiet, Remembers, OnePerKey, Used
<1> QED BY <1>1, <1>2, <1>3, <1>4, <1>5

\* While saves succeed, an engine is asked at most once to execute a task, and at most once
\* for all the tasks of a dedupe key, across crashes during the execution.
THEOREM AtMostOnceHolds == Spec => []ExecutedAtMostOnce
<1>1. Init => ExecutionInv
  <2>1. ASSUME Init PROVE KeyInv
    BY <2>1 DEF Init, KeyInv, OnePerKey, Remembers, Used, Nothing
  <2> QED BY <2>1, InitTimerInv DEF ExecutionInv
<1>2. ExecutionInv /\ [Next]_vars => ExecutionInv'
  BY ExecutionInvInductive
<1>3. ExecutionInv => ExecutedAtMostOnce
  <2> SUFFICES ASSUME TimerInv, KeyInv, faults = 0, NEW t \in Used, NEW u \in Used
               PROVE  /\ begun[t] <= 1
                      /\ keyOf[t] # NoKey /\ keyOf[t] = keyOf[u] /\ begun[t] + begun[u] > 1 => t = u
    BY DEF ExecutionInv, ExecutedAtMostOnce
  <2>1. begun[t] \in Nat /\ begun[u] \in Nat /\ begun[t] <= 1 /\ begun[u] <= 1
    BY DEF TimerInv, TypeInv, Linked, KeyInv
  <2>2. ASSUME keyOf[t] # NoKey, keyOf[t] = keyOf[u], begun[t] + begun[u] > 1
        PROVE  t = u
    <3>1. begun[t] > 0 /\ begun[u] > 0
      BY <2>1, <2>2
    <3>2. \A v \in {t, u} : /\ v \in DOMAIN disk.tasks /\ disk.tasks[v].key = keyOf[v]
                            /\ disk.tasks[v].status \in {"executing", "completed", "failed"}
      BY <2>2, <3>1 DEF KeyInv, Remembers, TimerInv, TypeInv, Linked
    <3>3. OnePerKey(disk.tasks)
      BY DEF KeyInv
    <3> QED BY <2>2, <3>2, <3>3 DEF OnePerKey
  <2> QED BY <2>1, <2>2
<1> QED BY <1>1, <1>2, <1>3, PTL DEF Spec
=============================================================================
