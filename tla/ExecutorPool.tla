---------------------------- MODULE ExecutorPool ----------------------------
(***************************************************************************)
(* The pool of long-lived Claude executors: ExecutorRegistry               *)
(* (executor-registry.ts), the PersistentClaudeExecutor it keeps per chat  *)
(* (persistent-executor.ts) and the calls of the bridge on both            *)
(* (runOneTurn).                                                           *)
(*                                                                         *)
(* A call acquires the executor of its chat and runs one turn on it.  It   *)
(* creates at most one executor and at most one entry of the pool, so both *)
(* are named by the call that created them.  Code that runs until its next *)
(* await is one step; `starting` is the microtask after start(), which     *)
(* nothing but another microtask can precede (Quiet).                      *)
(***************************************************************************)
EXTENDS Naturals, Sequences, FiniteSets

CONSTANTS
    Calls,            \* 1..n: the calls of runOneTurn, numbered as they arrive
    Chats,
    Versions,         \* model, environment, MCP and rules an executor is bound to
    None,
    Burst,            \* a turn of the process itself: a background task has settled
    MaxConcurrent,    \* maxConcurrent
    MaxRespawns,      \* maxRespawnAttempts
    MaxRestarts,      \* maxRestartAttempts
    MaxCrashes, MaxFailures, MaxBursts, MaxReleases  \* bounds on what may happen

ASSUME PoolAssumption ==
    /\ Calls \subseteq Nat
    /\ None \notin Calls \cup Chats /\ Burst \notin Calls /\ None # Burst
    /\ {MaxConcurrent, MaxRespawns} \subseteq Nat \ {0}
    /\ {MaxRestarts, MaxCrashes, MaxFailures, MaxBursts, MaxReleases} \subseteq Nat

VARIABLES
    call,        \* what each call of runOneTurn is doing
    exec,        \* the executors
    slot,        \* the entries (PoolEntry)
    pool,        \* executors: entries in the order of the map, least recent first
    pending,     \* pendingShutdowns: the executor that a release() winds down
    subscribed,  \* spontaneousSubscribed of the bridge
    shuttingDown,
    raced,       \* chats of which two calls were acquiring at once (history)
    strays,      \* calls whose turn the result of another ended (history)
    counts       \* crashes, failed starts, bursts and releases so far

vars == <<call, exec, slot, pool, pending, subscribed, shuttingDown, raced, strays, counts>>

NoCall == [pc |-> "idle", chat |-> None, version |-> None, on |-> None,
           stopped |-> FALSE]
NoExec == [state |-> "none", turn |-> None, drain |-> FALSE, timed |-> FALSE, inbox |-> <<>>,
           restarts |-> 0, heard |-> FALSE, mixed |-> FALSE]
NoSlot == [exec |-> None, version |-> None, parked |-> FALSE, seen |-> FALSE,
           respawns |-> 0]

Init ==
    /\ call = [m \in Calls |-> NoCall]
    /\ exec = [e \in Calls |-> NoExec]
    /\ slot = [s \in Calls |-> NoSlot]
    /\ pool = <<>>
    /\ pending = [c \in Chats |-> None]
    /\ subscribed = {}
    /\ shuttingDown = FALSE
    /\ raced = {}
    /\ strays = {}
    /\ counts = [crash |-> 0, failure |-> 0, burst |-> 0, release |-> 0]

-----------------------------------------------------------------------------

Acquiring == {"acquire", "pending", "release", "backoff", "starting"}
Quiet == \A m \in Calls : call[m].pc # "starting"

Chat(m) == call[m].chat
Pooled == {pool[i] : i \in DOMAIN pool}
Entries(c) == {s \in Pooled : Chat(s) = c}
Entry(c) == CHOOSE s \in Entries(c) : TRUE
ExecutorOf(c) == slot[Entry(c)].exec

Over(m) == [NoCall EXCEPT !.pc = "over", !.chat = Chat(m)]
Count(what) == counts' = [counts EXCEPT ![what] = @ + 1]

\* Map.delete of the one entry of a chat.
Without(p, c) ==
    IF \E i \in DOMAIN p : Chat(p[i]) = c
    THEN LET i == CHOOSE j \in DOMAIN p : Chat(p[j]) = c
         IN  SubSeq(p, 1, i - 1) \o SubSeq(p, i + 1, Len(p))
    ELSE p

\* Map.set keeps the place of a key that is there.
Put(p, s) == IF \E i \in DOMAIN p : Chat(p[i]) = Chat(s)
             THEN [i \in DOMAIN p |-> IF Chat(p[i]) = Chat(s) THEN s ELSE p[i]]
             ELSE Append(p, s)

\* shutdown() of the executors E, up to its await.
WindDown(E) ==
    [e \in Calls |-> IF e \in E /\ exec[e].state \in {"ready", "crashed"}
                     THEN [exec[e] EXCEPT !.state = "shutting_down"]
                     ELSE exec[e]]

\* acquire() has returned the executor e, as it is in ex: its next turn is m's, unless
\* nextTurn throws, which ends the call.
NextTurn(m, e, ex) ==
    IF ex[e].state = "ready" /\ ex[e].turn = None
    THEN /\ exec' = [ex EXCEPT ![e].turn = m,
                               ![e].inbox = Append(@, m),
                               ![e].mixed = @ \/ Burst \in {ex[e].inbox[i] : i \in DOMAIN ex[e].inbox}]
         /\ call' = [call EXCEPT ![m].pc = "turn", ![m].on = e]
    ELSE /\ exec' = ex
         /\ call' = [call EXCEPT ![m] = Over(m)]

\* The end of acquire(): make room in the pool p, then start an executor.
Create(m, p, subs) ==
    LET excess == IF Len(p) >= MaxConcurrent THEN Len(p) - MaxConcurrent + 1 ELSE 0
        evicted == {p[i] : i \in 1..excess}
        ex == WindDown({slot[s].exec : s \in evicted})
    IN  /\ pool' = SubSeq(p, excess + 1, Len(p))
        /\ subscribed' = subs \ {Chat(s) : s \in evicted}
        /\ \/ /\ exec' = [ex EXCEPT ![m].state = "ready"]
              /\ call' = [call EXCEPT ![m].pc = "starting", ![m].on = None]
              /\ UNCHANGED counts
           \/ /\ counts.failure < MaxFailures
              /\ Count("failure")
              /\ exec' = ex
              /\ call' = [call EXCEPT ![m] = Over(m)]

-----------------------------------------------------------------------------
(* The calls.                                                               *)

\* A message of chat c, for an executor of version v.  The bridge gives a chat to one
\* task at a time, but /stop frees it while the stopped task is still being set up.
Begin(m, c, v) ==
    LET others == {k \in Calls \ {m} : Chat(k) = c}
    IN  /\ Quiet
        /\ call[m].pc = "idle"
        /\ \A k \in Calls : k < m => call[k].pc # "idle"
        /\ \A k \in others : call[k].pc = "over" \/ call[k].stopped
        /\ call' = [call EXCEPT ![m] = [NoCall EXCEPT !.pc = "acquire", !.chat = c,
                                                      !.version = v]]
        /\ raced' = IF \E k \in others : call[k].pc \in Acquiring
                    THEN raced \cup {c} ELSE raced
        /\ UNCHANGED <<exec, slot, pool, pending, subscribed, shuttingDown, strays, counts>>

\* /stop of a task that is being set up: it will end its turn once it has one.
Stop(m) ==
    /\ Quiet
    /\ call[m].pc \in Acquiring /\ ~call[m].stopped
    /\ call' = [call EXCEPT ![m].stopped = TRUE]
    /\ UNCHANGED <<exec, slot, pool, pending, subscribed, shuttingDown, raced, strays, counts>>

\* acquire(), from its look into the pool to its next await.
Inspect(m) ==
    LET c == Chat(m)
        found == Entries(c) # {}
        s == Entry(c)
        e == ExecutorOf(c)
        healthy == exec[e].state = "ready"
        same == slot[s].version = call[m].version
    IN  \/ /\ found /\ healthy /\ same
           /\ pool' = Append(Without(pool, c), s)
           /\ NextTurn(m, e, exec)
           /\ UNCHANGED <<pending, subscribed, counts>>
        \/ /\ found /\ healthy /\ ~same
           /\ pool' = Without(pool, c)
           /\ subscribed' = subscribed \ {c}
           /\ exec' = WindDown({e})
           /\ pending' = [pending EXCEPT ![c] = e]
           /\ call' = [call EXCEPT ![m].pc = "release", ![m].on = e]
           /\ UNCHANGED counts
        \/ /\ found /\ ~healthy /\ slot[s].parked /\ same
           /\ call' = [call EXCEPT ![m].pc = "backoff", ![m].on = s]
           /\ UNCHANGED <<exec, pool, pending, subscribed, counts>>
        \/ /\ found /\ ~healthy /\ ~(slot[s].parked /\ same)
           /\ Create(m, Without(pool, c),
                     IF slot[s].parked THEN subscribed \ {c} ELSE subscribed)
           /\ UNCHANGED pending
        \/ /\ ~found
           /\ Create(m, pool, subscribed)
           /\ UNCHANGED pending

\* Mutant: acquire() looks into the pool at once.
ReleaseInFlight_Bug(c) == None

\* What a call waits for before it looks into the pool.
ReleaseInFlight(c) == pending[c]

acquire(m) ==
    /\ Quiet
    /\ call[m].pc = "acquire"
    /\ \/ /\ shuttingDown
          /\ call' = [call EXCEPT ![m] = Over(m)]
          /\ UNCHANGED <<exec, pool, pending, subscribed, counts>>
       \/ /\ ~shuttingDown /\ ReleaseInFlight(Chat(m)) # None
          /\ call' = [call EXCEPT ![m].pc = "pending", ![m].on = ReleaseInFlight(Chat(m))]
          /\ UNCHANGED <<exec, pool, pending, subscribed, counts>>
       \/ /\ ~shuttingDown /\ ReleaseInFlight(Chat(m)) = None
          /\ Inspect(m)
    /\ UNCHANGED <<slot, shuttingDown, raced, strays>>

\* The shutdown that the call waits for has ended.
Wake(m) ==
    /\ call[m].pc \in {"pending", "release"}
    /\ exec[call[m].on].state = "closed"
    /\ \/ call[m].pc = "pending" /\ Inspect(m)
       \/ call[m].pc = "release" /\ Create(m, pool, subscribed) /\ UNCHANGED pending
    /\ UNCHANGED <<slot, shuttingDown, raced, strays>>

\* The backoff is over.  (The code also gives up on an entry whose respawns are spent,
\* but no such entry is parked.)
respawnCrashed(m) ==
    LET c == Chat(m)
        s == call[m].on
        tried == [slot[s] EXCEPT !.parked = FALSE, !.seen = FALSE, !.respawns = @ + 1,
                                 !.version = call[m].version]
        spent == tried.respawns >= MaxRespawns
    IN  /\ Quiet
        /\ call[m].pc = "backoff"
        /\ \/ /\ slot' = [slot EXCEPT ![s] = tried]
              /\ exec' = [exec EXCEPT ![m].state = "ready"]
              /\ call' = [call EXCEPT ![m].pc = "starting"]
              /\ UNCHANGED <<pool, subscribed, counts>>
           \/ /\ slot' = [slot EXCEPT ![s] = [tried EXCEPT !.parked = ~spent]]
              /\ IF spent THEN Create(m, Without(pool, c), subscribed \ {c})
                          ELSE Create(m, pool, subscribed)
        /\ UNCHANGED <<pending, shuttingDown, raced, strays>>

\* The new executor m enters the pool, in an entry of its own ('executor-added', on which
\* the bridge subscribes to it) or in the parked one ('executor-respawned').
Enter(m) ==
    LET c == Chat(m)
        s == call[m].on
    IN  /\ call[m].pc = "starting"
        /\ \/ /\ s = None
              /\ slot' = [slot EXCEPT ![m] = [NoSlot EXCEPT !.exec = m,
                                                            !.version = call[m].version]]
              /\ pool' = Put(pool, m)
              /\ subscribed' = subscribed \cup {c}
              /\ NextTurn(m, m, [exec EXCEPT ![m].heard = c \notin subscribed])
           \/ /\ s # None
              /\ slot' = [slot EXCEPT ![s].exec = m]
              /\ pool' = Append(Without(pool, c), s)
              /\ NextTurn(m, m, exec)
              /\ UNCHANGED subscribed
        /\ UNCHANGED <<pending, shuttingDown, raced, strays, counts>>

\* Mutant: abort() clears the turn in flight instead of draining it.
Detached_Bug(x) == [x EXCEPT !.turn = None]

\* The turn of executor x is aborted: it stays in flight until it has been drained.
Detached(x) == [x EXCEPT !.drain = TRUE]

\* abort() of the turn, by /stop, by a timeout of the bridge or because the call had been
\* stopped: the stream ends at once, the executor drains the turn.
Abort(m) ==
    LET e == call[m].on
    IN  /\ Quiet
        /\ call[m].pc = "turn" /\ exec[e].turn = m
        /\ call' = [call EXCEPT ![m] = Over(m)]
        /\ exec' = [exec EXCEPT ![e] = Detached(@)]
        /\ UNCHANGED <<slot, pool, pending, subscribed, shuttingDown, raced, strays, counts>>

-----------------------------------------------------------------------------
(* The executors.                                                           *)

Alive == {e \in Calls : exec[e].state \in {"ready", "shutting_down"}}
Holders(e) == {s \in Pooled : slot[s].exec = e}
Ended(E) == [m \in Calls |-> IF m \in E THEN Over(m) ELSE call[m]]
Dead(x) == [NoExec EXCEPT !.state = "closed", !.turn = x.turn, !.drain = x.drain,
                          !.timed = x.timed]

\* The registry's handler of 'closed': the entry of executor e is parked for a respawn if
\* the executor crashed, else it leaves the pool.
Closed(e, crashed) ==
    LET c == Chat(e)
    IN  \/ /\ Holders(e) = {}
           /\ UNCHANGED <<slot, pool, subscribed>>
        \/ \E s \in Holders(e) :
              IF (crashed \/ slot[s].seen) /\ slot[s].respawns < MaxRespawns /\ ~shuttingDown
              THEN /\ slot' = [slot EXCEPT ![s].parked = TRUE, ![s].seen = TRUE]
                   /\ UNCHANGED <<pool, subscribed>>
              ELSE /\ pool' = Without(pool, c)
                   /\ subscribed' = subscribed \ {c}
                   /\ UNCHANGED slot

\* A background task of an idle process settles: the process will speak unasked.
BackgroundSettles(e) ==
    /\ Quiet
    /\ exec[e].state = "ready" /\ exec[e].inbox = <<>>
    /\ counts.burst < MaxBursts /\ Count("burst")
    /\ exec' = [exec EXCEPT ![e].inbox = <<Burst>>]
    /\ UNCHANGED <<call, slot, pool, pending, subscribed, shuttingDown, raced, strays>>

\* Its first message opens a continuation turn, if no turn is in flight.
BurstOpens(e) ==
    /\ Quiet
    /\ e \in Alive /\ exec[e].turn = None
    /\ exec[e].inbox # <<>> /\ Head(exec[e].inbox) = Burst
    /\ exec' = [exec EXCEPT ![e].turn = Burst]
    /\ UNCHANGED <<call, slot, pool, pending, subscribed, shuttingDown, raced, strays, counts>>

\* The process ends what it works on: `result` ends the turn in flight, whichever it is.
Result(e) ==
    LET t == exec[e].turn
        x == Head(exec[e].inbox)
    IN  /\ Quiet
        /\ e \in Alive /\ exec[e].inbox # <<>>
        /\ ~(x = Burst /\ t = None)
        /\ exec' = [exec EXCEPT ![e].inbox = Tail(@), ![e].turn = None,
                                ![e].drain = FALSE, ![e].timed = FALSE]
        /\ IF t \in Calls /\ ~exec[e].drain
           THEN /\ call' = Ended({t})
                /\ strays' = IF x = t \/ exec[e].mixed THEN strays ELSE strays \cup {t}
           ELSE UNCHANGED <<call, strays>>
        /\ UNCHANGED <<slot, pool, pending, subscribed, shuttingDown, raced, counts>>

\* The interrupt() that abort() awaits before anything else returns or is rejected: only now
\* does drainWithTimeout start its timer.
InterruptEnds(e) ==
    /\ Quiet
    /\ exec[e].drain /\ ~exec[e].timed
    /\ exec' = [exec EXCEPT ![e].timed = TRUE]
    /\ UNCHANGED <<call, slot, pool, pending, subscribed, shuttingDown, raced, strays, counts>>

\* drainWithTimeout: no result has come, the turn is cleared by force.
DrainTimeout(e) ==
    /\ Quiet
    /\ exec[e].drain /\ exec[e].timed
    /\ exec' = [exec EXCEPT ![e].turn = None, ![e].drain = FALSE, ![e].timed = FALSE,
                            ![e].mixed = TRUE]
    /\ UNCHANGED <<call, slot, pool, pending, subscribed, shuttingDown, raced, strays, counts>>

\* Mutant: the queue of the turn that is lost is not finished.
Lost_Bug(e) == {}

\* The calls whose stream ends because the stream of their executor broke.
Lost(e) == {exec[e].turn} \cap Calls

\* The stream breaks: the turn is lost; the executor restarts in place, fails to, or has
\* no restart left.  After a quiet while (fresh) the restarts are counted anew.
Crash(e) ==
    LET gone == [exec[e] EXCEPT !.inbox = <<>>, !.turn = None, !.drain = FALSE, !.timed = FALSE]
    IN  /\ Quiet
        /\ exec[e].state = "ready"
        /\ counts.crash < MaxCrashes
        /\ call' = Ended(Lost(e))
        /\ \E fresh \in BOOLEAN :
              LET spent == IF fresh THEN 0 ELSE exec[e].restarts
              IN  \/ /\ spent < MaxRestarts
                     /\ Count("crash")
                     /\ exec' = [exec EXCEPT ![e] = [gone EXCEPT !.restarts = spent + 1]]
                     /\ slot' = [s \in Calls |-> IF s \in Holders(e)
                                                 THEN [slot[s] EXCEPT !.seen = FALSE]
                                                 ELSE slot[s]]
                     /\ UNCHANGED <<pool, subscribed>>
                  \/ /\ spent < MaxRestarts
                     /\ counts.failure < MaxFailures
                     /\ counts' = [counts EXCEPT !.crash = @ + 1, !.failure = @ + 1]
                     /\ exec' = [exec EXCEPT ![e] = [gone EXCEPT !.state = "crashed",
                                                                !.restarts = spent + 1]]
                     /\ slot' = [s \in Calls |-> IF s \in Holders(e)
                                                 THEN [slot[s] EXCEPT !.seen = TRUE]
                                                 ELSE slot[s]]
                     /\ UNCHANGED <<pool, subscribed>>
                  \/ /\ spent >= MaxRestarts
                     /\ Count("crash")
                     /\ exec' = [exec EXCEPT ![e] = Dead(gone)]
                     /\ Closed(e, TRUE)
        /\ UNCHANGED <<pending, shuttingDown, raced, strays>>

\* The process exits by itself: the turn in flight, if any, is not told.
StreamEnds(e) ==
    /\ Quiet
    /\ exec[e].state = "ready"
    /\ counts.crash < MaxCrashes /\ Count("crash")
    /\ exec' = [exec EXCEPT ![e] = Dead(@)]
    /\ Closed(e, FALSE)
    /\ UNCHANGED <<call, pending, shuttingDown, raced, strays>>

IdleTimeout(e) ==
    /\ Quiet
    /\ exec[e].state = "ready" /\ exec[e].turn = None
    /\ exec' = WindDown({e})
    /\ UNCHANGED <<call, slot, pool, pending, subscribed, shuttingDown, raced, strays, counts>>

\* The process has exited, or ten seconds are over.
ShutdownEnds(e) ==
    /\ Quiet
    /\ exec[e].state = "shutting_down"
    /\ exec' = [exec EXCEPT ![e] = Dead(@)]
    /\ pending' = [c \in Chats |-> IF pending[c] = e THEN None ELSE pending[c]]
    /\ Closed(e, FALSE)
    /\ UNCHANGED <<call, shuttingDown, raced, strays, counts>>

\* release(): /reset, /resume, a rules change, a retry with a fresh session.  The promise
\* of an executor that is shutting down already or is closed has resolved.
release(c) ==
    LET e == ExecutorOf(c)
    IN  /\ Quiet
        /\ Entries(c) # {}
        /\ counts.release < MaxReleases /\ Count("release")
        /\ pool' = Without(pool, c)
        /\ subscribed' = subscribed \ {c}
        /\ exec' = WindDown({e})
        /\ pending' = [pending EXCEPT ![c] = IF exec[e].state \in {"ready", "crashed"}
                                             THEN e ELSE None]
        /\ UNCHANGED <<call, slot, shuttingDown, raced, strays>>

shutdownAll ==
    /\ Quiet
    /\ ~shuttingDown
    /\ shuttingDown' = TRUE
    /\ pool' = <<>>
    /\ exec' = WindDown({slot[s].exec : s \in Pooled})
    /\ UNCHANGED <<call, slot, pending, subscribed, raced, strays, counts>>

-----------------------------------------------------------------------------

CallStep(m) ==
    \/ \E c \in Chats, v \in Versions : Begin(m, c, v)
    \/ Stop(m) \/ acquire(m) \/ Wake(m) \/ respawnCrashed(m) \/ Enter(m) \/ Abort(m)

ExecutorStep(e) ==
    \/ BackgroundSettles(e) \/ BurstOpens(e) \/ Result(e) \/ InterruptEnds(e)
    \/ DrainTimeout(e) \/ Crash(e) \/ StreamEnds(e) \/ IdleTimeout(e) \/ ShutdownEnds(e)

Next ==
    \/ \E m \in Calls : CallStep(m) \/ ExecutorStep(m)
    \/ \E c \in Chats : release(c)
    \/ shutdownAll

Spec == Init /\ [][Next]_vars

\* Promises are resumed and timers expire: those of the backoff, of a shutdown, of a drain,
\* and the bridge's, which abort a turn that lasts.  Nothing is assumed of a process, not
\* even that it answers an interrupt.
FairSpec ==
    /\ Spec
    /\ \A m \in Calls :
          /\ WF_vars(acquire(m)) /\ WF_vars(Wake(m)) /\ WF_vars(respawnCrashed(m))
          /\ WF_vars(Enter(m)) /\ WF_vars(Abort(m))
          /\ WF_vars(DrainTimeout(m)) /\ WF_vars(ShutdownEnds(m))

-----------------------------------------------------------------------------

\* Every call is somewhere in its life, on an executor or an entry that exists; an entry of
\* the pool has an executor of its chat; only a turn in flight is drained.
TypeOK ==
    /\ call \in [Calls -> [pc : Acquiring \cup {"idle", "turn", "over"}, chat : Chats \cup {None},
                           version : Versions \cup {None}, on : Calls \cup {None},
                           stopped : BOOLEAN]]
    /\ exec \in [Calls -> [state : {"none", "ready", "crashed", "shutting_down", "closed"},
                           turn : Calls \cup {None, Burst}, drain : BOOLEAN,
                           timed : BOOLEAN, inbox : Seq(Calls \cup {Burst}),
                           restarts : 0..MaxRestarts, heard : BOOLEAN, mixed : BOOLEAN]]
    /\ slot \in [Calls -> [exec : Calls \cup {None}, version : Versions \cup {None},
                           parked : BOOLEAN, seen : BOOLEAN, respawns : Nat]]
    /\ pool \in Seq(Calls)
    /\ \A s \in Pooled : slot[s].exec # None /\ Chat(slot[s].exec) = Chat(s)
    /\ \A e \in Calls : /\ exec[e].drain => exec[e].turn \in Calls
                        /\ exec[e].timed => exec[e].drain
    /\ pending \in [Chats -> Calls \cup {None}]
    /\ subscribed \subseteq Chats /\ raced \subseteq Chats
    /\ shuttingDown \in BOOLEAN
    /\ strays \subseteq Calls
    /\ counts \in [{"crash", "failure", "burst", "release"} -> Nat]

\* Unless two calls of a chat were acquiring at once, the chat has one executor that takes
\* turns at most, and none while a release() of the chat winds its predecessor down.
OneExecutorPerChat ==
    \A c \in Chats \ raced :
      LET ready == {e \in Calls : Chat(e) = c /\ exec[e].state = "ready"}
      IN  /\ Cardinality(ready) <= 1
          /\ pending[c] # None => ready = {}

\* A turn is not ended by the result of an earlier one, as long as the executor has not
\* given up on a drain and no background task spoke up before the prompt was read.
TurnIsolation == strays = {}

\* Every call of runOneTurn ends, whatever the process does, and an executor whose turn was
\* aborted takes turns again, if only its process answers the interrupt: no result of the
\* aborted turn is needed.
EveryCallEnds ==
    \A m \in Calls :
      /\ call[m].pc # "idle" ~> call[m].pc = "over"
      /\ exec[m].timed ~> ~exec[m].drain

\* What the bridge says of its subscription: every executor in the pool has the handlers
\* for what its agent does between the turns.
EveryExecutorIsHeard ==
    \A s \in Pooled : exec[slot[s].exec].state = "ready" => exec[slot[s].exec].heard

=============================================================================
