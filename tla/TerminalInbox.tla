---------------------------- MODULE TerminalInbox ----------------------------
(***************************************************************************)
(* The bridge's durable inbox of terminal callbacks: the table             *)
(* terminal_events (TerminalEventStore), the route that fills it           *)
(* (POST /api/worker-events, for one bot: the rate limiter keeps a bucket  *)
(* per bot) and TerminalEventDispatcher, whose sweep wakes the chat of one *)
(* event after the other.                                                  *)
(*                                                                         *)
(* One action is one synchronous stretch: a request handler after its body *)
(* is read, one timer callback, or the part of sweep() from the outcome of *)
(* one wake to the await of the next.  Deadlines are abstracted to a       *)
(* Boolean, `due': next_attempt_at of a received row, or lease_expires_at  *)
(* of a leased one, has passed.                                            *)
(***************************************************************************)
EXTENDS Naturals, FiniteSets

CONSTANTS
    Event,          \* event ids
    MaxAttempts,    \* TerminalEventStore.maxAttempts
    MaxPerWindow,   \* TerminalEventRateLimiter.maxEvents
    MaxStops        \* bound on the stops of the bridge, for model checking only

ASSUME AttemptsAssumption == MaxAttempts \in Nat \ {0}
ASSUME WindowAssumption   == MaxPerWindow \in Nat \ {0}
ASSUME StopsAssumption    == MaxStops \in Nat

VARIABLES
    event,          \* table terminal_events, a function on the ids inserted so far
    recent,         \* the limiter's bucket: acceptances inside the window
    wakeScheduled,  \* a setImmediate of notify() is outstanding
    waking,         \* the wake() a sweep is awaiting; sweeping is waking # {}
    up,             \* the dispatcher is started and not stopped
    stops

vars == <<event, recent, wakeScheduled, waking, up, stops>>

Known == DOMAIN event

State == {"received", "leased", "woken", "failed"}
Open  == {"received", "leased"}

\* Two history fields: `spent' counts the wakes that failed or were lost with the
\* bridge, `fresh' is TRUE until the first lease.
Row == [state : State, attempts : Nat, due : BOOLEAN, order : Nat,
        spent : Nat, fresh : BOOLEAN]

\* A wake() call and the attempt it was leased as (the record leaseNext returned).
Wake == [event : Event, attempt : Nat]

\* Every row has its type, and a wake or a bucket entry belongs to a stored event.
TypeOK ==
    /\ Known \subseteq Event /\ event \in [Known -> Row]
    /\ recent \subseteq Known
    /\ wakeScheduled \in BOOLEAN
    /\ waking \subseteq Wake /\ \A c \in waking : c.event \in Known
    /\ up \in BOOLEAN
    /\ stops \in Nat

Init ==
    /\ event = [e \in {} |-> {}]
    /\ recent = {}
    /\ wakeScheduled = TRUE
    /\ waking = {}
    /\ up = TRUE
    /\ stops = 0

-----------------------------------------------------------------------------
(* The route.  A definition whose name ends in _Bug is not part of the      *)
(* model: it is the plausible mistake that a property must catch.           *)

Received == [state |-> "received", attempts |-> 0, due |-> TRUE,
             order |-> Cardinality(Known) + 1, spent |-> 0, fresh |-> TRUE]

Notify_Bug == UNCHANGED wakeScheduled
Notify == wakeScheduled' = TRUE

\* A first delivery of e: known ids answer 200 before the limiter is asked, and a
\* full bucket answers 429; neither changes anything.
Insert(e) ==
    /\ up
    /\ e \notin Known
    /\ Cardinality(recent) < MaxPerWindow
    /\ recent' = recent \cup {e}
    /\ event' = [d \in Known \cup {e} |-> IF d = e THEN Received ELSE event[d]]
    /\ Notify
    /\ UNCHANGED <<waking, up, stops>>

WindowSlides(e) ==
    /\ e \in recent
    /\ recent' = recent \ {e}
    /\ UNCHANGED <<event, wakeScheduled, waking, up, stops>>

-----------------------------------------------------------------------------
(* TerminalEventStore: one row before and after each statement.             *)

Leased(r) ==
    [r EXCEPT !.state = "leased", !.attempts = @ + 1, !.due = FALSE, !.fresh = FALSE,
              !.spent = IF r.state = "leased" THEN @ + 1 ELSE @]

Woken(r) == [r EXCEPT !.state = "woken"]

\* deferLease: the lease is given back together with the attempt it had cost.
Deferred_Bug(r) == [r EXCEPT !.state = "received", !.due = FALSE]
Deferred(r) == [r EXCEPT !.state = "received", !.due = FALSE, !.attempts = IF @ > 0 THEN @ - 1 ELSE 0]

\* failLease: the backoff may be zero, so the row may be due at once.
FailedLease(r, due) ==
    IF r.attempts >= MaxAttempts
      THEN [r EXCEPT !.state = "failed", !.spent = @ + 1]
      ELSE [r EXCEPT !.state = "received", !.due = due, !.spent = @ + 1]

\* An outcome is written only where the row is still leased.
IfLeased(r, next) == IF r.state = "leased" THEN next ELSE r

Exhausted(r) == r.state \in Open /\ r.due /\ r.attempts >= MaxAttempts

Exhaust(r) == [r EXCEPT !.state = "failed", !.spent = IF r.state = "leased" THEN @ + 1 ELSE @]

Leasable_ResolvedBug(r) == r.state # "failed" /\ r.due /\ r.attempts < MaxAttempts
Leasable(r) == r.state \in Open /\ r.due /\ r.attempts < MaxAttempts

\* leaseNext on the table `rows', inside sweep's loop: exhausted rows fail, then the
\* oldest due row is leased and its wake awaited, or the sweep ends.
LeaseNext(rows, others) ==
    LET swept == [e \in Known |-> IF Exhausted(rows[e]) THEN Exhaust(rows[e]) ELSE rows[e]]
        ready == {e \in Known : Leasable(swept[e])}
    IN  \/ /\ ready = {}
           /\ event' = swept
           /\ waking' = others
        \/ \E e \in ready :
              /\ \A d \in ready : swept[e].order <= swept[d].order
              /\ event' = [swept EXCEPT ![e] = Leased(@)]
              /\ waking' = others \cup {[event |-> e, attempt |-> swept[e].attempts + 1]}

-----------------------------------------------------------------------------
(* TerminalEventDispatcher.                                                 *)

\* The interval timer of start().
Tick ==
    /\ up
    /\ ~wakeScheduled
    /\ Notify
    /\ UNCHANGED <<event, recent, waking, up, stops>>

MaySweep_Bug == TRUE
MaySweep == waking = {}

\* The setImmediate callback: a sweep that is under way makes it return at once.
Sweep ==
    /\ wakeScheduled
    /\ wakeScheduled' = FALSE
    /\ IF MaySweep THEN LeaseNext(event, waking) ELSE UNCHANGED <<event, waking>>
    /\ UNCHANGED <<recent, up, stops>>

\* The wake c is over, its row becomes `next', and the loop goes on.
WakeReturns(c, next) ==
    /\ LeaseNext([event EXCEPT ![c.event] = IfLeased(event[c.event], next)], waking \ {c})
    /\ UNCHANGED <<recent, wakeScheduled, up, stops>>

\* The chat was woken, or its user cancelled the turn.
WakeSucceeds(c) == WakeReturns(c, Woken(event[c.event]))

\* TerminalEventDeferredError: the chat is busy with another task.
WakeDefers(c) == WakeReturns(c, Deferred(event[c.event]))

WakeFails(c) == \E due \in BOOLEAN : WakeReturns(c, FailedLease(event[c.event], due))

\* Time passes: a retry falls due, or a lease expires, even under a wake that is
\* still being awaited.
DeadlinePasses(e) ==
    /\ e \in Known
    /\ event[e].state \in Open
    /\ ~event[e].due
    /\ event' = [event EXCEPT ![e].due = TRUE]
    /\ UNCHANGED <<recent, wakeScheduled, waking, up, stops>>

-----------------------------------------------------------------------------
(* Stop (crash, or server close) and start of the bridge.                   *)

Stop ==
    /\ up
    /\ stops < MaxStops
    /\ up' = FALSE
    /\ stops' = stops + 1
    /\ wakeScheduled' = FALSE
    /\ waking' = {}
    /\ recent' = {}
    /\ UNCHANGED event

Start ==
    /\ ~up
    /\ up' = TRUE
    /\ Notify
    /\ UNCHANGED <<event, recent, waking, stops>>

EventStep(e) ==
    \/ Insert(e)
    \/ WindowSlides(e)
    \/ DeadlinePasses(e)

WakeStep(c) ==
    \/ WakeSucceeds(c)
    \/ WakeDefers(c)
    \/ WakeFails(c)

Next ==
    \/ \E e \in Event : EventStep(e)
    \/ \E c \in waking : WakeStep(c)
    \/ Tick
    \/ Sweep
    \/ Stop
    \/ Start

Spec == Init /\ [][Next]_vars

-----------------------------------------------------------------------------
(* What must hold.                                                          *)

\* The failure budget counts exactly the wakes that failed or were lost with the
\* bridge: busy chats cost nothing, however often they defer, and an event is given
\* up only when every attempt was really spent (deferLease, failLease, leaseNext).
BudgetIsExact ==
    \A e \in Known :
        /\ event[e].attempts <= MaxAttempts
        /\ event[e].attempts =
             event[e].spent + (IF event[e].state \in {"leased", "woken"} THEN 1 ELSE 0)
        /\ event[e].state = "failed" => event[e].spent = MaxAttempts

\* A wake that is being awaited still holds the very lease it was started under,
\* even when it outlasts the lease: no second sweep has leased its event again, so
\* the chat is not woken twice at once and the outcome is written to the right
\* attempt (markWoken, failLease and deferLease only ask whether the row is leased).
WakeHoldsLease ==
    \A c \in waking :
        /\ up
        /\ event[c.event].state = "leased"
        /\ event[c.event].attempts = c.attempt

\* An event that was never leased does not wait for the interval timer: a sweep is
\* under way or scheduled, even if notify() ran during a sweep (insert, notify).
NoFreshEventWaits ==
    up /\ (\E e \in Known : event[e].fresh) => wakeScheduled \/ waking # {}

\* Woken and failed are final, across restarts and late outcomes.
ResolvedIsFinal ==
    [][\A e \in Known : event[e].state \notin Open => event'[e].state = event[e].state]_vars
=============================================================================
