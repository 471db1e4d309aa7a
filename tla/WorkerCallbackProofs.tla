------------------------ MODULE WorkerCallbackProofs ------------------------
(***************************************************************************)
(* The inbox, and the system it is part of.                                *)
(*                                                                         *)
(* What is proved of the inbox comes first, for any events, attempts,      *)
(* acceptance window and stops: the theorems about `Spec'.  Every          *)
(* statement of the store changes one row, so the proof has two levels:    *)
(* what each statement does to a row (Sound), and what a sweep does to the *)
(* table and to the wake it awaits (LeaseNextStep).                        *)
(*                                                                         *)
(* Then the joined system implements both of its parts, so that what is    *)
(* proved of each part holds of the two together: a step of the bridge is, *)
(* for the runner, the commit of a callback or nothing, and a step of the  *)
(* runner is nothing for the bridge.  That the runner's row is only closed *)
(* when the inbox has the event then follows from WorkerRunnerProofs.      *)
(*                                                                         *)
(* `Proved' is WorkerRunner once more, with its theorems; the first lemmas *)
(* say that it is `Runner'.                                                *)
(***************************************************************************)
EXTENDS WorkerCallback, FiniteSetTheorems, TLAPS

-----------------------------------------------------------------------------
(* The inbox: its rows.                                                     *)

\* The budget of a row, and what a row is that no sweep has seen.
Counted(r) ==
    /\ r.attempts <= MaxAttempts
    /\ r.attempts = r.spent + (IF r.state \in {"leased", "woken"} THEN 1 ELSE 0)
    /\ r.state = "failed" => r.spent = MaxAttempts

Untouched(r) == r.fresh => r.state = "received" /\ r.due /\ r.attempts = 0

Sound(r) == r \in Row /\ Counted(r) /\ Untouched(r)

\* A resolved row keeps its state.
Final(r, next) == r.state \notin Open => next.state = r.state

LEMMA ExhaustRow ==
  ASSUME NEW r, Sound(r), Exhausted(r)
  PROVE  Sound(Exhaust(r)) /\ Final(r, Exhaust(r)) /\ ~r.fresh
<1> USE AttemptsAssumption DEF Sound, Row, State, Exhausted, Open
<1>1. ~r.fresh /\ r.spent + 1 \in Nat
  BY DEF Untouched
<1>2. Exhaust(r) \in Row
  <2>1. CASE r.state = "leased"
    <3>1. Exhaust(r) = [r EXCEPT !.state = "failed", !.spent = r.spent + 1]
      BY <2>1 DEF Exhaust
    <3> QED
      BY <1>1, <3>1
  <2>2. CASE r.state # "leased"
    <3>1. Exhaust(r) = [r EXCEPT !.state = "failed", !.spent = r.spent]
      BY <2>2 DEF Exhaust
    <3> QED
      BY <3>1
  <2> QED
    BY <2>1, <2>2
<1>3. Counted(Exhaust(r))
  BY DEF Exhaust, Counted
<1> QED
  BY <1>1, <1>2, <1>3 DEF Exhaust, Untouched, Final

LEMMA LeasedRow ==
  ASSUME NEW r, Sound(r), Leasable(r)
  PROVE  /\ Sound(Leased(r)) /\ Final(r, Leased(r))
         /\ Leased(r).state = "leased" /\ Leased(r).attempts = r.attempts + 1
<1> USE AttemptsAssumption DEF Sound, Row, State, Leasable, Open
<1>0. r.spent + 1 \in Nat /\ r.attempts + 1 \in Nat
  OBVIOUS
<1>1. Leased(r) \in Row
  <2>1. CASE r.state = "leased"
    <3>1. Leased(r) = [r EXCEPT !.state = "leased", !.attempts = r.attempts + 1, !.due = FALSE,
                                !.fresh = FALSE, !.spent = r.spent + 1]
      BY <2>1 DEF Leased
    <3> QED
      BY <1>0, <3>1
  <2>2. CASE r.state # "leased"
    <3>1. Leased(r) = [r EXCEPT !.state = "leased", !.attempts = r.attempts + 1, !.due = FALSE,
                                !.fresh = FALSE, !.spent = r.spent]
      BY <2>2 DEF Leased
    <3> QED
      BY <1>0, <3>1
  <2> QED
    BY <2>1, <2>2
<1>2. Counted(Leased(r))
  BY DEF Leased, Counted
<1> QED
  BY <1>1, <1>2 DEF Leased, Untouched, Final

\* The outcome of a wake, on a leased row.
LEMMA OutcomeRow ==
  ASSUME NEW r, Sound(r), r.state = "leased", NEW due \in BOOLEAN
  PROVE  Sound(Woken(r)) /\ Sound(Deferred(r)) /\ Sound(FailedLease(r, due))
<1> USE AttemptsAssumption DEF Sound, Row, State
<1>1. Sound(Woken(r))
  BY DEF Woken, Counted, Untouched
<1>2. Sound(Deferred(r))
  <2>1. r.attempts > 0 /\ r.attempts - 1 \in Nat /\ ~r.fresh
    BY DEF Counted, Untouched
  <2>2. Deferred(r) = [r EXCEPT !.state = "received", !.due = FALSE, !.attempts = r.attempts - 1]
    BY <2>1 DEF Deferred
  <2>3. Deferred(r) \in Row
    BY <2>1, <2>2
  <2> QED
    BY <2>1, <2>2, <2>3 DEF Counted, Untouched
<1>3. Sound(FailedLease(r, due))
  <2>0. r.spent + 1 \in Nat
    OBVIOUS
  <2> DEFINE n == FailedLease(r, due)
  <2>1. CASE r.attempts >= MaxAttempts
    <3>1. n = [r EXCEPT !.state = "failed", !.spent = r.spent + 1]
      BY <2>1 DEF FailedLease
    <3>2. n \in Row
      BY <2>0, <3>1
    <3> QED
      BY <2>1, <3>1, <3>2 DEF Counted, Untouched
  <2>2. CASE ~(r.attempts >= MaxAttempts)
    <3>1. n = [r EXCEPT !.state = "received", !.due = due, !.spent = r.spent + 1]
      BY <2>2 DEF FailedLease
    <3>2. n \in Row
      BY <2>0, <3>1
    <3> QED
      BY <2>2, <3>1, <3>2 DEF Counted, Untouched
  <2> QED
    BY <2>1, <2>2
<1> QED
  BY <1>1, <1>2, <1>3

-----------------------------------------------------------------------------
(* The table and the wake.                                                  *)

AllSound(rows) == rows \in [Known -> Row] /\ \A e \in Known : Sound(rows[e])

\* At most one wake is awaited.
OneWake == \A c, d \in waking : c = d

InboxInv ==
    /\ TypeOK
    /\ IsFiniteSet(Known)
    /\ \A e \in Known : Sound(event[e])
    /\ OneWake
    /\ wakeScheduled => up
    /\ WakeHoldsLease
    /\ NoFreshEventWaits

\* The loop of a sweep, from the outcome of one wake to the await of the next: the rows
\* stay sound, what was resolved stays so, the new wake holds its lease, and if there is no
\* new wake then nothing fresh is left.
LEMMA LeaseNextStep ==
  ASSUME Known \subseteq Event, NEW rows, AllSound(rows), LeaseNext(rows, {})
  PROVE  /\ event' \in [Known -> Row]
         /\ \A e \in Known : Sound(event'[e]) /\ Final(rows[e], event'[e])
         /\ waking' \subseteq Wake
         /\ \A c, d \in waking' : c = d
         /\ \A c \in waking' : /\ c.event \in Known
                               /\ event'[c.event].state = "leased"
                               /\ event'[c.event].attempts = c.attempt
         /\ waking' = {} => \A e \in Known : ~event'[e].fresh
<1> DEFINE swept == [e \in Known |-> IF Exhausted(rows[e]) THEN Exhaust(rows[e]) ELSE rows[e]]
           ready == {e \in Known : Leasable(swept[e])}
<1>1. \A e \in Known : Sound(swept[e]) /\ Final(rows[e], swept[e])
  BY ExhaustRow DEF AllSound, Final
<1>2. \A e \in Known : swept[e].fresh => Leasable(swept[e])
  BY <1>1, AttemptsAssumption DEF Sound, Untouched, Leasable, Open, Row
<1>3. CASE ready = {} /\ event' = swept /\ waking' = {}
  <2>1. \A e \in Known : ~swept[e].fresh
    BY <1>2, <1>3
  <2>2. event' \in [Known -> Row]
    BY <1>1, <1>3 DEF Sound
  <2> QED
    BY <1>1, <1>3, <2>1, <2>2
<1>4. ASSUME NEW e \in ready,
             event' = [swept EXCEPT ![e] = Leased(@)],
             waking' = {} \cup {[event |-> e, attempt |-> swept[e].attempts + 1]}
      PROVE  /\ event' \in [Known -> Row]
             /\ \A d \in Known : Sound(event'[d]) /\ Final(rows[d], event'[d])
             /\ waking' \subseteq Wake
             /\ \A c, d \in waking' : c = d
             /\ \A c \in waking' : /\ c.event \in Known
                                   /\ event'[c.event].state = "leased"
                                   /\ event'[c.event].attempts = c.attempt
             /\ waking' # {}
  <2>1. e \in Known /\ Leasable(swept[e]) /\ Sound(swept[e])
    BY <1>1
  <2>2. /\ Sound(Leased(swept[e])) /\ Final(swept[e], Leased(swept[e]))
        /\ Leased(swept[e]).state = "leased"
        /\ Leased(swept[e]).attempts = swept[e].attempts + 1
    BY <2>1, LeasedRow
  <2>3. event' = [d \in Known |-> IF d = e THEN Leased(swept[e]) ELSE swept[d]]
    BY <1>4
  <2> HIDE DEF swept
  <2>4. \A d \in Known : Sound(event'[d])
    BY <1>1, <2>2, <2>3
  <2>5. \A d \in Known : Final(rows[d], event'[d])
    BY <1>1, <2>1, <2>2, <2>3 DEF Final
  <2>6. event' \in [Known -> Row]
    BY <2>3, <2>4 DEF Sound
  <2>7. [event |-> e, attempt |-> swept[e].attempts + 1] \in Wake
    <3>1. e \in Event
      BY <2>1
    <3> QED
      BY <2>1, <3>1 DEF Sound, Row, Wake
  <2> QED
    BY <1>4, <2>1, <2>2, <2>3, <2>4, <2>5, <2>6, <2>7
<1> QED
  BY <1>3, <1>4 DEF LeaseNext

-----------------------------------------------------------------------------
(* The steps.  Each keeps the invariant and every resolved row.             *)

StaysFinal == \A e \in Known : Final(event[e], event'[e])

LEMMA InboxInit == Init => InboxInv
<1> SUFFICES ASSUME Init PROVE InboxInv
  OBVIOUS
<1>1. Known = {}
  BY DEF Init, Known
<1>2. IsFiniteSet(Known)
  BY <1>1, FS_EmptySet
<1>3. TypeOK
  BY <1>1 DEF Init, TypeOK, Known
<1> QED
  BY <1>1, <1>2, <1>3 DEF Init, InboxInv, OneWake, WakeHoldsLease, NoFreshEventWaits

\* A first delivery: the row is new, and a sweep is scheduled for it.
LEMMA InsertStep ==
  ASSUME InboxInv, NEW e \in Event, Insert(e) PROVE InboxInv' /\ StaysFinal
<1>1. e \notin Known /\ up
  BY DEF Insert
<1>2. Cardinality(Known) \in Nat
  BY FS_CardinalityType DEF InboxInv
<1>3. Sound(Received)
  <2>1. Received \in Row
    BY <1>2 DEF Received, Row, State
  <2> QED
    BY <2>1, AttemptsAssumption DEF Received, Sound, Counted, Untouched
<1>4. event' = [d \in Known \cup {e} |-> IF d = e THEN Received ELSE event[d]]
  BY DEF Insert
<1>5. Known' = Known \cup {e}
  BY <1>4 DEF Known
<1>6. IsFiniteSet(Known')
  BY <1>5, FS_AddElement DEF InboxInv
<1>7. \A d \in Known' : Sound(event'[d])
  BY <1>3, <1>4, <1>5 DEF InboxInv
<1>8. \A d \in Known : event'[d] = event[d]
  BY <1>1, <1>4
<1>9. event' \in [Known' -> Row]
  BY <1>4, <1>5, <1>7 DEF Sound
<1>10. /\ recent' \subseteq Known'
       /\ wakeScheduled' = TRUE
       /\ UNCHANGED <<waking, up, stops>>
  BY <1>5 DEF Insert, Notify, InboxInv, TypeOK
<1>11. TypeOK'
  BY <1>5, <1>9, <1>10 DEF InboxInv, TypeOK
<1>12. WakeHoldsLease'
  BY <1>8, <1>10 DEF InboxInv, TypeOK, WakeHoldsLease
<1> QED
  BY <1>1, <1>6, <1>7, <1>8, <1>10, <1>11, <1>12
  DEF InboxInv, OneWake, NoFreshEventWaits, StaysFinal, Final

LEMMA WindowStep ==
  ASSUME InboxInv, NEW e \in Event, WindowSlides(e) PROVE InboxInv' /\ StaysFinal
  BY DEF WindowSlides, InboxInv, TypeOK, Known, OneWake, WakeHoldsLease, NoFreshEventWaits,
         StaysFinal, Final

\* A deadline changes nothing but itself.
LEMMA DeadlineStep ==
  ASSUME InboxInv, NEW e \in Event, DeadlinePasses(e) PROVE InboxInv' /\ StaysFinal
<1>1. /\ e \in Known /\ event \in [Known -> Row]
      /\ event' = [event EXCEPT ![e].due = TRUE]
      /\ UNCHANGED <<recent, wakeScheduled, waking, up, stops>>
  BY DEF DeadlinePasses, InboxInv, TypeOK
<1>2. Known' = Known
  BY <1>1 DEF Known
<1>3. \A d \in Known :
         /\ event'[d].state = event[d].state /\ event'[d].attempts = event[d].attempts
         /\ event'[d].spent = event[d].spent /\ event'[d].fresh = event[d].fresh
         /\ event'[d].due = event[d].due \/ event'[d].due = TRUE
         /\ event'[d] \in Row
  BY <1>1 DEF Row
<1>4. \A d \in Known : Sound(event'[d])
  BY <1>3 DEF InboxInv, Sound, Counted, Untouched
<1>5. TypeOK'
  BY <1>1, <1>2, <1>3 DEF InboxInv, TypeOK
<1>6. WakeHoldsLease'
  BY <1>1, <1>3 DEF InboxInv, TypeOK, WakeHoldsLease
<1>7. NoFreshEventWaits' /\ StaysFinal
  BY <1>1, <1>2, <1>3 DEF InboxInv, NoFreshEventWaits, StaysFinal, Final
<1> QED BY <1>1, <1>2, <1>4, <1>5, <1>6, <1>7 DEF InboxInv, OneWake

\* A sweep, or what is left of one, on a table that is sound.
LEMMA SweepOn ==
  ASSUME InboxInv, up, NEW rows, AllSound(rows), LeaseNext(rows, {}),
         \A e \in Known : Final(event[e], rows[e]),
         wakeScheduled' \in BOOLEAN, UNCHANGED <<recent, up, stops>>
  PROVE  InboxInv' /\ StaysFinal
<1>1. /\ event' \in [Known -> Row]
      /\ \A e \in Known : Sound(event'[e]) /\ Final(rows[e], event'[e])
      /\ waking' \subseteq Wake
      /\ \A c, d \in waking' : c = d
      /\ \A c \in waking' : /\ c.event \in Known
                            /\ event'[c.event].state = "leased"
                            /\ event'[c.event].attempts = c.attempt
      /\ waking' = {} => \A e \in Known : ~event'[e].fresh
  BY LeaseNextStep DEF InboxInv, TypeOK
<1>2. Known' = Known
  BY <1>1 DEF Known
<1>3. TypeOK'
  BY <1>1, <1>2 DEF InboxInv, TypeOK
<1>4. StaysFinal
  BY <1>1 DEF StaysFinal, Final
<1> QED
  BY <1>1, <1>2, <1>3, <1>4 DEF InboxInv, OneWake, WakeHoldsLease, NoFreshEventWaits

LEMMA SweepStep == ASSUME InboxInv, Sweep PROVE InboxInv' /\ StaysFinal
<1>1. up /\ wakeScheduled' = FALSE /\ UNCHANGED <<recent, up, stops>>
  BY DEF Sweep, InboxInv
<1>2. CASE MaySweep
  <2>1. waking = {} /\ LeaseNext(event, {})
    BY <1>2 DEF Sweep, MaySweep
  <2>2. AllSound(event) /\ \A e \in Known : Final(event[e], event[e])
    BY DEF InboxInv, TypeOK, AllSound, Final
  <2> QED
    BY <1>1, <2>1, <2>2, SweepOn
<1>3. CASE ~MaySweep
  <2>1. waking # {} /\ UNCHANGED <<event, waking>>
    BY <1>3 DEF Sweep, MaySweep
  <2> QED
    BY <1>1, <2>1
    DEF InboxInv, TypeOK, Known, OneWake, WakeHoldsLease, NoFreshEventWaits, StaysFinal, Final
<1> QED
  BY <1>2, <1>3

\* The outcome of the one wake is written to the lease it was started under.
LEMMA WakeStepInv ==
  ASSUME InboxInv, NEW c \in waking, WakeStep(c) PROVE InboxInv' /\ StaysFinal
<1>1. /\ up /\ c.event \in Known /\ event[c.event].state = "leased" /\ Sound(event[c.event])
      /\ waking \ {c} = {}
  BY DEF InboxInv, TypeOK, OneWake, WakeHoldsLease
<1>2. PICK next : Sound(next) /\ WakeReturns(c, next)
  <2>1. CASE WakeSucceeds(c)
    BY <1>1, <2>1, OutcomeRow DEF WakeSucceeds
  <2>2. CASE WakeDefers(c)
    BY <1>1, <2>2, OutcomeRow DEF WakeDefers
  <2>3. CASE WakeFails(c)
    BY <1>1, <2>3, OutcomeRow DEF WakeFails
  <2> QED
    BY <2>1, <2>2, <2>3 DEF WakeStep
<1> DEFINE rows == [event EXCEPT ![c.event] = next]
<1>3. LeaseNext(rows, {}) /\ UNCHANGED <<recent, wakeScheduled, up, stops>>
  BY <1>1, <1>2 DEF WakeReturns, IfLeased
<1>4. AllSound(rows)
  BY <1>1, <1>2 DEF InboxInv, TypeOK, AllSound, Sound
<1>5. \A e \in Known : Final(event[e], rows[e])
  BY <1>1 DEF InboxInv, TypeOK, Final, Open
<1>6. wakeScheduled' \in BOOLEAN
  BY <1>3 DEF InboxInv, TypeOK
<1> HIDE DEF rows
<1> QED
  BY <1>1, <1>3, <1>4, <1>5, <1>6, SweepOn

LEMMA InboxProcess == ASSUME InboxInv, Tick \/ Stop \/ Start PROVE InboxInv' /\ StaysFinal
<1>1. CASE Tick
  BY <1>1 DEF Tick, Notify, InboxInv, TypeOK, Known, OneWake, WakeHoldsLease, NoFreshEventWaits,
              StaysFinal, Final
<1>2. CASE Stop
  <2>1. /\ event' = event /\ waking' = {} /\ recent' = {}
        /\ up' = FALSE /\ wakeScheduled' = FALSE /\ stops' = stops + 1
    BY <1>2 DEF Stop
  <2>2. Known' = Known
    BY <2>1 DEF Known
  <2>3. stops' \in Nat /\ event' \in [Known' -> Row] /\ Known' \subseteq Event
    BY <2>1, <2>2 DEF InboxInv, TypeOK
  <2>4. TypeOK'
    BY <2>1, <2>3 DEF TypeOK
  <2> QED
    BY <2>1, <2>2, <2>4
    DEF InboxInv, OneWake, WakeHoldsLease, NoFreshEventWaits, StaysFinal, Final
<1>3. CASE Start
  BY <1>3 DEF Start, Notify, InboxInv, TypeOK, Known, OneWake, WakeHoldsLease, NoFreshEventWaits,
              StaysFinal, Final
<1> QED
  BY <1>1, <1>2, <1>3

LEMMA InboxNext == InboxInv /\ [Next]_vars => InboxInv' /\ StaysFinal
<1> SUFFICES ASSUME InboxInv, [Next]_vars PROVE InboxInv' /\ StaysFinal
  OBVIOUS
<1>1. CASE Next
  <2>1. CASE \E e \in Event : EventStep(e)
    BY <2>1, InsertStep, WindowStep, DeadlineStep DEF EventStep
  <2>2. CASE \E c \in waking : WakeStep(c)
    BY <2>2, WakeStepInv
  <2> QED
    BY <1>1, <2>1, <2>2, SweepStep, InboxProcess DEF Next
<1>2. CASE UNCHANGED vars
  BY <1>2 DEF vars, InboxInv, TypeOK, Known, OneWake, WakeHoldsLease, NoFreshEventWaits, StaysFinal,
              Final
<1> QED
  BY <1>1, <1>2

\* Every reachable state of the inbox satisfies its invariant, for any number of events,
\* attempts and stops: every statement of the store and of a sweep keeps it.
THEOREM InboxInvHolds == Spec => []InboxInv
<1>1. InboxInv /\ [Next]_vars => InboxInv'
  BY InboxNext
<1> QED
  BY <1>1, InboxInit, PTL DEF Spec

-----------------------------------------------------------------------------

\* Every reachable state of the inbox is well typed: a wake and an acceptance of the window
\* belong to a stored event.
THEOREM TypeOKHolds == Spec => []TypeOK
  BY InboxInvHolds, PTL DEF InboxInv

\* The retry budget counts exactly the wakes that failed or were lost, and an event is given
\* up only when they reach the maximum, for any number of attempts, deferrals and stops.
THEOREM BudgetHolds == Spec => []BudgetIsExact
<1>1. InboxInv => BudgetIsExact
  BY DEF InboxInv, Sound, Counted, BudgetIsExact
<1> QED
  BY <1>1, InboxInvHolds, PTL

\* A wake that is awaited holds the very lease it was started under, even if that lease has
\* expired meanwhile: the sweep's own flag keeps every other lease away.
THEOREM WakeHolds == Spec => []WakeHoldsLease
  BY InboxInvHolds, PTL DEF InboxInv

\* While the bridge is up, an event that no sweep has seen has one scheduled or under way.
THEOREM FreshHolds == Spec => []NoFreshEventWaits
  BY InboxInvHolds, PTL DEF InboxInv

\* No outcome that arrives late, no expired lease and no restart changes a resolved event.
THEOREM ResolvedHolds == Spec => ResolvedIsFinal
<1>1. InboxInv /\ [Next]_vars
         => [\A e \in Known : event[e].state \notin Open => event'[e].state = event[e].state]_vars
  BY InboxNext DEF StaysFinal, Final
<1> QED
  BY <1>1, InboxInvHolds, PTL DEF Spec, ResolvedIsFinal

-----------------------------------------------------------------------------
(* The runner, twice.                                                       *)

Proved == INSTANCE WorkerRunnerProofs

LEMMA SameLaunchStep == \A l : Runner!LaunchStep(l) <=> Proved!LaunchStep(l)
BY DEF Runner!LaunchStep, Proved!LaunchStep, Runner!Spawn, Proved!Spawn, Runner!LaunchFails,
            Proved!LaunchFails, Runner!MarkRunning, Proved!MarkRunning, Runner!ClaimsRow,
            Proved!ClaimsRow, Runner!AbandonProcess, Proved!AbandonProcess, Runner!ProcessExited,
            Proved!ProcessExited, Runner!Kill, Proved!Kill, Runner!Exit, Proved!Exit,
            Runner!FinishQueued, Proved!FinishQueued, Runner!FinishRunning, Proved!FinishRunning,
            Runner!Owns, Proved!Owns, Runner!Settle, Proved!Settle, Runner!Scheduled,
            Proved!Scheduled, Runner!ScheduleTimer, Proved!ScheduleTimer, Runner!IsArc,
            Proved!IsArc, Runner!Jobs, Proved!Jobs, Runner!Launches, Proved!Launches,
            Runner!memory, Proved!memory, Runner!receiver, Proved!receiver, Runner!service,
            Proved!service

LEMMA SameCardinality == \A S : Runner!Cardinality(S) = Proved!Cardinality(S)
BY Zenon DEF Runner!Cardinality, Proved!Cardinality

LEMMA SameJobStep == \A w : Runner!JobStep(w) <=> Proved!JobStep(w)
<1> SUFFICES ASSUME NEW w PROVE Runner!JobStep(w) <=> Proved!JobStep(w)
  OBVIOUS
<1>1. ASSUME NEW r \in Request, NEW ttl \in BOOLEAN
      PROVE  Runner!Dispatch(w, r, ttl) <=> Proved!Dispatch(w, r, ttl)
  <2>1. Runner!Latest(r) = Proved!Latest(r)
    BY ZenonT(30) DEF Runner!Latest, Proved!Latest, Runner!Matching, Proved!Matching, Runner!Jobs, Proved!Jobs
  <2>2. Runner!Reuses(r, ttl) <=> Proved!Reuses(r, ttl)
    BY <2>1 DEF Runner!Reuses, Proved!Reuses, Runner!Matching, Proved!Matching, Runner!IsLive,
                Proved!IsLive, Runner!Live, Proved!Live, Runner!Jobs, Proved!Jobs
  <2>3. Runner!HasQuota(r.scope) <=> Proved!HasQuota(r.scope)
    BY SameCardinality DEF Runner!HasQuota, Proved!HasQuota, Runner!LiveIn, Proved!LiveIn, Runner!IsLive,
           Proved!IsLive, Runner!Live, Proved!Live, Runner!Jobs, Proved!Jobs
  <2>4. Runner!NewRow(r) = Proved!NewRow(r)
    BY SameCardinality DEF Runner!NewRow, Proved!NewRow, Runner!Jobs, Proved!Jobs
  <2>5. Runner!StartLaunch(w) <=> Proved!StartLaunch(w)
    BY DEF Runner!StartLaunch, Proved!StartLaunch, Runner!Launches, Proved!Launches
  <2> QED BY <2>2, <2>3, <2>4, <2>5
          DEF Runner!Dispatch, Proved!Dispatch, Runner!Jobs, Proved!Jobs, Runner!memory,
              Proved!memory, Runner!receiver, Proved!receiver, Runner!service, Proved!service
<1>2. Runner!AbortQueued(w) <=> Proved!AbortQueued(w)
  BY DEF Runner!AbortQueued, Proved!AbortQueued, Runner!FinishQueued, Proved!FinishQueued,
            Runner!FinishRunning, Proved!FinishRunning, Runner!Owns, Proved!Owns, Runner!Settle,
            Proved!Settle, Runner!Scheduled, Proved!Scheduled, Runner!ScheduleTimer,
            Proved!ScheduleTimer, Runner!IsArc, Proved!IsArc, Runner!Jobs, Proved!Jobs,
            Runner!Launches, Proved!Launches, Runner!memory, Proved!memory, Runner!receiver,
            Proved!receiver, Runner!service, Proved!service
<1>3. Runner!AbortRunning(w) <=> Proved!AbortRunning(w)
  BY DEF Runner!AbortRunning, Proved!AbortRunning, Runner!Settle, Proved!Settle,
            Runner!Scheduled, Proved!Scheduled, Runner!ScheduleTimer, Proved!ScheduleTimer,
            Runner!IsArc, Proved!IsArc, Runner!Jobs, Proved!Jobs, Runner!Launches, Proved!Launches,
            Runner!memory, Proved!memory, Runner!receiver, Proved!receiver, Runner!service,
            Proved!service
<1>4. Runner!ExpireRunning(w) <=> Proved!ExpireRunning(w)
  BY DEF Runner!ExpireRunning, Proved!ExpireRunning, Runner!FinishQueued, Proved!FinishQueued,
            Runner!FinishRunning, Proved!FinishRunning, Runner!Owns, Proved!Owns, Runner!Settle,
            Proved!Settle, Runner!Scheduled, Proved!Scheduled, Runner!ScheduleTimer,
            Proved!ScheduleTimer, Runner!IsArc, Proved!IsArc, Runner!Jobs, Proved!Jobs,
            Runner!Launches, Proved!Launches, Runner!memory, Proved!memory, Runner!receiver,
            Proved!receiver, Runner!service, Proved!service
<1>5. Runner!ClaimNotification(w) <=> Proved!ClaimNotification(w)
  BY DEF Runner!ClaimNotification, Proved!ClaimNotification, Runner!Outstanding,
            Proved!Outstanding, Runner!IsLive, Proved!IsLive, Runner!Live, Proved!Live,
            Runner!Jobs, Proved!Jobs, Runner!Launches, Proved!Launches, Runner!memory,
            Proved!memory, Runner!receiver, Proved!receiver, Runner!service, Proved!service
<1>6. Runner!RecoverJob(w) <=> Proved!RecoverJob(w)
  BY DEF Runner!RecoverJob, Proved!RecoverJob, Runner!RestartCandidate, Proved!RestartCandidate,
            Runner!ResetInterrupted, Proved!ResetInterrupted, Runner!IsLive, Proved!IsLive,
            Runner!Live, Proved!Live, Runner!StartLaunch, Proved!StartLaunch, Runner!Settle,
            Proved!Settle, Runner!Scheduled, Proved!Scheduled, Runner!ScheduleTimer,
            Proved!ScheduleTimer, Runner!IsArc, Proved!IsArc, Runner!Jobs, Proved!Jobs,
            Runner!Launches, Proved!Launches, Runner!memory, Proved!memory, Runner!receiver,
            Proved!receiver, Runner!service, Proved!service
<1> QED BY <1>1, <1>2, <1>3, <1>4, <1>5, <1>6 DEF Runner!JobStep, Proved!JobStep

LEMMA SameCallbackStep == \A w : Runner!CallbackStep(w) <=> Proved!CallbackStep(w)
BY DEF Runner!CallbackStep, Proved!CallbackStep, Runner!Accept, Proved!Accept, Runner!MarkDelivered,
       Proved!MarkDelivered, Runner!NotifyResolves, Proved!NotifyResolves, Runner!RecordDelivered,
       Proved!RecordDelivered, Runner!MarkFailed, Proved!MarkFailed, Runner!Scheduled,
       Proved!Scheduled, Runner!ScheduleTimer, Proved!ScheduleTimer, Runner!IsArc, Proved!IsArc,
       Runner!memory, Proved!memory, Runner!receiver, Proved!receiver, Runner!service, Proved!service

LEMMA SameServiceStep ==
    /\ Runner!Init <=> Proved!Init
    /\ Runner!vars = Proved!vars
    /\ Runner!Crash <=> Proved!Crash
    /\ Runner!Restart <=> Proved!Restart
    /\ Runner!Listen <=> Proved!Listen
<1> USE DEF Runner!memory, Proved!memory, Runner!receiver, Proved!receiver, Runner!service,
            Proved!service, Runner!Jobs, Proved!Jobs, Runner!Launches, Proved!Launches
<1>1. Runner!Init <=> Proved!Init
  BY DEF Runner!Init, Proved!Init
<1>2. Runner!vars = Proved!vars
  BY DEF Runner!vars, Proved!vars
<1>3. Runner!Crash <=> Proved!Crash
  BY DEF Runner!Crash, Proved!Crash
<1>4. Runner!Restart <=> Proved!Restart
  BY DEF Runner!Restart, Proved!Restart
<1>5. Runner!Listen <=> Proved!Listen
  BY DEF Runner!Listen, Proved!Listen
<1> QED BY <1>1, <1>2, <1>3, <1>4, <1>5

LEMMA SameSpec == Runner!Spec <=> Proved!Spec
<1>1. Runner!Init <=> Proved!Init
  BY SameServiceStep
<1>2. [Runner!Next]_(Runner!vars) <=> [Proved!Next]_(Proved!vars)
  <2>1. Runner!Next <=> Proved!Next
    BY SameServiceStep, SameLaunchStep, SameJobStep, SameCallbackStep
       DEF Runner!Next, Proved!Next, Runner!Launches, Proved!Launches
  <2>2. (UNCHANGED Runner!vars) <=> (UNCHANGED Proved!vars)
    BY DEF Runner!vars, Proved!vars, Runner!memory, Proved!memory, Runner!receiver, Proved!receiver,
           Runner!service, Proved!service
  <2> QED BY <2>1, <2>2
<1> QED BY <1>1, <1>2, PTL DEF Runner!Spec, Proved!Spec

-----------------------------------------------------------------------------
(* The bridge.                                                              *)

\* Only a first delivery adds an event; no step removes one.
LEMMA InboxKeepsEvents ==
    ASSUME InboxStep
    PROVE  DOMAIN event' = DOMAIN event
<1>1. ASSUME NEW rows, NEW others, LeaseNext(rows, others) PROVE DOMAIN event' = DOMAIN event
  BY <1>1 DEF LeaseNext, Known
<1>2. CASE UNCHANGED event
  BY <1>2
<1>3. ASSUME NEW w \in Worker, DeadlinePasses(w) PROVE DOMAIN event' = DOMAIN event
  BY <1>3 DEF DeadlinePasses
<1>4. ASSUME NEW c \in waking, WakeStep(c) PROVE DOMAIN event' = DOMAIN event
  BY <1>1, <1>4 DEF WakeStep, WakeSucceeds, WakeDefers, WakeFails,
                    WakeReturns
<1>5. CASE Sweep
  BY <1>1, <1>2, <1>5 DEF Sweep
<1> QED BY <1>2, <1>3, <1>4, <1>5
        DEF InboxStep, WindowSlides, Tick, Stop, Start

\* A callback request that arrives is a first delivery, or changes nothing at the bridge.
LEMMA ArriveStep ==
    ASSUME NEW w \in Worker, Arrive(w)
    PROVE  /\ Insert(w) \/ UNCHANGED inbox
           /\ w \in accepted'
           /\ accepted' = accepted \/ (w \notin accepted /\ accepted' = accepted \cup {w})
<1>1. CASE Insert(w)
  BY <1>1 DEF Insert, Known, accepted
<1>2. CASE Duplicate(w) /\ UNCHANGED inbox
  BY <1>2 DEF Duplicate, inbox, vars, accepted, Known
<1> QED BY <1>1, <1>2 DEF Arrive, Commits

\* However callbacks are retried, delayed and duplicated, the inbox behaves as TerminalInbox
\* says: a job enters it once, and a chat that was woken is not woken again.
THEOREM InboxHolds == CallbackSpec => InboxImplemented
<1>1. CallbackInit => Init
  BY DEF CallbackInit
<1>2. [CallbackNext]_callbackVars => [Next]_vars
  <2> SUFFICES ASSUME [CallbackNext]_callbackVars PROVE [Next]_vars
    OBVIOUS
  <2>1. ASSUME NEW w \in Worker, Arrive(w) PROVE [Next]_vars
    BY <2>1, ArriveStep DEF Next, EventStep, vars, inbox, Worker
  <2>2. CASE InboxStep
    BY <2>2 DEF InboxStep, Next, EventStep, Worker
  <2>3. CASE RunnerStep \/ RunnerStops \/ \E w \in Worker : MarkDelivered(w) \/ MarkFailed(w)
    BY <2>3 DEF RunnerStep, RunnerStops, MarkDelivered, MarkFailed, vars, inbox
  <2>4. CASE UNCHANGED callbackVars
    BY <2>4 DEF callbackVars, inbox, vars
  <2> QED BY <2>1, <2>2, <2>3, <2>4 DEF CallbackNext
<1> QED BY <1>1, <1>2, PTL DEF CallbackSpec, InboxImplemented, Spec

-----------------------------------------------------------------------------
(* The runner.                                                              *)

\* An answer is only known to a call in flight, and only after the commit.
AnsweredInv == answered \subseteq sending \cap accepted

\* The runner's other steps end no call.
LEMMA RunnerKeepsCalls ==
    ASSUME RunnerStep
    PROVE  sending \subseteq sending'
<1>1. ASSUME NEW l, Runner!LaunchStep(l) PROVE sending' = sending
  BY <1>1 DEF Runner!LaunchStep, Runner!Spawn, Runner!LaunchFails, Runner!MarkRunning,
              Runner!ProcessExited, Runner!Kill, Runner!Exit, Runner!memory
<1>2. ASSUME NEW w, Runner!JobStep(w) PROVE sending \subseteq sending'
  BY <1>2 DEF Runner!JobStep, Runner!Dispatch, Runner!AbortQueued, Runner!AbortRunning,
              Runner!ExpireRunning, Runner!ClaimNotification, Runner!RecoverJob, Runner!memory
<1> QED BY <1>1, <1>2 DEF RunnerStep, Runner!Restart, Runner!Listen, Runner!memory

LEMMA AnsweredStep ==
    ASSUME AnsweredInv, [CallbackNext]_callbackVars
    PROVE  AnsweredInv'
<1> USE DEF AnsweredInv
<1>1. ASSUME NEW w \in Worker, Arrive(w) PROVE AnsweredInv'
  <2>1. accepted \subseteq accepted' /\ w \in accepted'
    BY <1>1, ArriveStep
  <2> QED BY <1>1, <2>1 DEF Arrive, runner
<1>2. ASSUME NEW w \in Worker, MarkDelivered(w) \/ MarkFailed(w) PROVE AnsweredInv'
  BY <1>2 DEF MarkDelivered, MarkFailed, Runner!RecordDelivered, Runner!MarkFailed, inbox, vars, accepted, Known
<1>3. CASE RunnerStops
  BY <1>3 DEF RunnerStops
<1>4. CASE RunnerStep
  BY <1>4, RunnerKeepsCalls DEF RunnerStep, inbox, vars, accepted, Known
<1>5. CASE InboxStep
  BY <1>5, InboxKeepsEvents DEF InboxStep, runner, accepted, Known
<1>6. CASE UNCHANGED callbackVars
  BY <1>6 DEF callbackVars, runner, inbox, vars, accepted, Known
<1> QED BY <1>1, <1>2, <1>3, <1>4, <1>5, <1>6 DEF CallbackNext

LEMMA RunnerNext ==
    ASSUME AnsweredInv, [CallbackNext]_callbackVars
    PROVE  [Runner!Next]_(Runner!vars)
<1> USE DEF Runner!vars, Runner!memory, Runner!receiver, Runner!service
<1>1. ASSUME NEW w \in Worker, Arrive(w) PROVE [Runner!Next]_(Runner!vars)
  <2>1. UNCHANGED runner /\ w \in posted
    BY <1>1 DEF Arrive
  <2>2. CASE accepted' = accepted
    BY <2>1, <2>2 DEF runner
  <2>3. CASE w \notin accepted /\ accepted' = accepted \cup {w}
    <3>1. Runner!Accept(w)
      BY <2>1, <2>3 DEF Runner!Accept, runner
    <3> QED BY <3>1 DEF Runner!Next, Runner!CallbackStep
  <2> QED BY <1>1, <2>2, <2>3, ArriveStep
<1>2. ASSUME NEW w \in Worker, MarkDelivered(w) PROVE Runner!Next
  <2>1. Runner!MarkDelivered(w)
    BY <1>2 DEF MarkDelivered, Runner!MarkDelivered, Runner!NotifyResolves, AnsweredInv
  <2> QED BY <2>1 DEF Runner!Next, Runner!CallbackStep
<1>3. ASSUME NEW w \in Worker, MarkFailed(w) PROVE Runner!Next
  BY <1>3 DEF MarkFailed, Runner!Next, Runner!CallbackStep
<1>4. CASE RunnerStops
  BY <1>4 DEF RunnerStops, Runner!Next
<1>5. CASE RunnerStep
  BY <1>5 DEF RunnerStep, Runner!Next, Runner!Launches
<1>6. CASE InboxStep
  BY <1>6, InboxKeepsEvents DEF InboxStep, runner, accepted, Known
<1>7. CASE UNCHANGED callbackVars
  BY <1>7 DEF callbackVars, runner, inbox, vars, accepted, Known
<1> QED BY <1>1, <1>2, <1>3, <1>4, <1>5, <1>6, <1>7 DEF CallbackNext

\* With the bridge's database as its receiver the runner behaves as WorkerRunner says: every
\* theorem of WorkerRunnerProofs holds of the two services together.
THEOREM RunnerImplemented == CallbackSpec => Runner!Spec
<1>1. CallbackInit => AnsweredInv /\ Runner!Init
  BY DEF CallbackInit, AnsweredInv
<1> QED BY <1>1, AnsweredStep, RunnerNext, PTL DEF CallbackSpec, Runner!Spec

\* No outcome is lost between the two databases, whichever side stops between the commit of
\* the event, its answer and the update of the row.
THEOREM OutcomesHold == CallbackSpec => []NoOutcomeLost
<1>1. CallbackSpec => Proved!Spec
  BY RunnerImplemented, SameSpec
<1>2. Proved!Spec => [](Proved!TypeOK /\ Proved!ReportsAreTrue)
  BY NoLaunchAssumption, BoundsAssumption, RequestAssumption, Proved!TypeOKHolds, Proved!ReportsHold, PTL
<1>3. Proved!TypeOK /\ Proved!ReportsAreTrue => NoOutcomeLost
  BY DEF Proved!TypeOK, Proved!ReportsAreTrue, NoOutcomeLost, accepted, Known, Proved!Jobs, Proved!IsArc,
         Runner!IsArc, Proved!IsLive, Runner!IsLive, Proved!Live, Runner!Live
<1> QED BY <1>1, <1>2, <1>3, PTL
=============================================================================
