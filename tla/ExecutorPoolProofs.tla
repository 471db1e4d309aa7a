------------------------- MODULE ExecutorPoolProofs --------------------------
(***************************************************************************)
(* The pool of executors, proved for any calls, chats, versions and limits *)
(* of the pool.                                                            *)
(*                                                                         *)
(* Isolated is about one executor: until it gives up on a drain or a       *)
(* background task speaks up, the process has been told of the turn in     *)
(* flight and of nothing else.  Single is about one chat whose calls have  *)
(* not raced: its executor is in the pool, or its only call is about to    *)
(* put it there.                                                           *)
(***************************************************************************)
EXTENDS ExecutorPool, FiniteSetTheorems, SequenceTheorems, TLAPS

RangeOf(p) == {p[i] : i \in DOMAIN p}

\* The pool has one entry per chat.
Apart(p) == \A i, j \in DOMAIN p : Chat(p[i]) = Chat(p[j]) => i = j

\* Before a call has created its executor there is none of its name.
Unborn == {"idle", "acquire", "pending", "release", "backoff"}
Past   == {"turn", "over"}

\* A call is of a chat from its first step on, and knows what it waits for; the entry it
\* respawns is of its own chat.
LinkedCall(m) ==
    /\ call[m].pc = "idle" <=> Chat(m) = None
    /\ call[m].pc \in {"pending", "release", "backoff", "turn"} => call[m].on \in Calls
    /\ call[m].pc \in {"backoff", "starting"} /\ call[m].on # None => Chat(call[m].on) = Chat(m)
    /\ call[m].pc \in Unborn => exec[m] = NoExec
    /\ call[m].pc = "starting" => exec[m].state = "ready"

\* An entry holds the executor of a call that has had its executor.
HeldIsPast == \A s \in Calls : slot[s].exec \in Calls => call[slot[s].exec].pc \in Past

\* So is a call whose turn is in flight.
TurnIsPast == \A e \in Calls : exec[e].turn \in Calls => call[exec[e].turn].pc \in Past

PoolInv ==
    TypeOK /\ (\A m \in Calls : LinkedCall(m)) /\ HeldIsPast /\ TurnIsPast /\ Apart(pool)

\* Until it is closed or something has been mixed up, the process of the executor x works on
\* the turn in flight and on nothing else.
Isolated(x) ==
    x.state # "closed" /\ ~x.mixed =>
        \/ x.turn = None /\ x.inbox \in {<<>>, <<Burst>>}
        \/ x.turn = Burst /\ x.inbox = <<Burst>>
        \/ x.turn \in Calls /\ x.inbox = <<x.turn>>

IsolationInv == PoolInv /\ strays = {} /\ \A e \in Calls : Isolated(exec[e])

\* What a call of an unraced chat may rely on at each of its awaits.
Waits(m) ==
    LET c == Chat(m) IN
    /\ call[m].pc = "starting" =>
          /\ pending[c] = None
          /\ \A e \in Calls : Chat(e) = c /\ exec[e].state = "ready" => e = m
          /\ call[m].on # None => ~slot[call[m].on].parked
    /\ call[m].pc \in {"pending", "release"} =>
          Entries(c) = {} /\ pending[c] \in {None, call[m].on}
    /\ call[m].pc = "backoff" =>
          /\ Entries(c) \subseteq {call[m].on} /\ pending[c] = None
          /\ slot[call[m].on].exec \in Calls /\ exec[slot[call[m].on].exec].state = "closed"

Acquirers(c) == {m \in Calls : Chat(m) = c /\ call[m].pc \in Acquiring}

\* The chat c has one executor that takes turns at most: in the pool, or of the call that is
\* about to put it there.
Single(c) ==
    /\ \A m \in Acquirers(c), k \in Acquirers(c) : m = k
    /\ \A e \in Calls : Chat(e) = c /\ exec[e].state = "ready" =>
          call[e].pc = "starting" \/ \E s \in Entries(c) : slot[s].exec = e
    /\ \A m \in Calls : Chat(m) = c => Waits(m)
    /\ pending[c] # None => exec[pending[c]].state = "shutting_down" /\ Entries(c) = {}
    /\ \A s \in Entries(c) : slot[s].parked => exec[slot[s].exec].state = "closed"

SingleInv == PoolInv /\ \A c \in Chats \ raced : Single(c)

-----------------------------------------------------------------------------
(* The map of the pool.                                                     *)

LEMMA RestOf ==
    ASSUME NEW p \in Seq(Calls), NEW k \in 0..Len(p)
    PROVE  /\ SubSeq(p, k + 1, Len(p)) \in Seq(Calls)
           /\ Len(SubSeq(p, k + 1, Len(p))) = Len(p) - k
           /\ DOMAIN SubSeq(p, k + 1, Len(p)) = 1..(Len(p) - k)
           /\ \A i \in 1..(Len(p) - k) : SubSeq(p, k + 1, Len(p))[i] = p[k + i]
<1>1. Len(p) \in Nat /\ \A i \in (k + 1)..Len(p) : p[i] \in Calls
  BY LenProperties
<1> QED BY <1>1

\* Map.delete keeps the other entries.
LEMMA WithoutFacts ==
    ASSUME NEW p \in Seq(Calls), Apart(p), NEW c
    PROVE  /\ Without(p, c) \in Seq(Calls) /\ Apart(Without(p, c))
           /\ RangeOf(Without(p, c)) = {s \in RangeOf(p) : Chat(s) # c}
<1>1. Len(p) \in Nat /\ DOMAIN p = 1..Len(p) /\ \A i \in 1..Len(p) : p[i] \in Calls
  BY LenProperties
<1>2. CASE ~\E i \in DOMAIN p : Chat(p[i]) = c
  BY <1>2 DEF Without, RangeOf
<1>3. CASE \E i \in DOMAIN p : Chat(p[i]) = c
  <2> DEFINE j == CHOOSE i \in DOMAIN p : Chat(p[i]) = c
             a == SubSeq(p, 1, j - 1)
             b == SubSeq(p, j + 1, Len(p))
             q == a \o b
  <2>1. j \in 1..Len(p) /\ Chat(p[j]) = c
    BY <1>1, <1>3
  <2>2. Without(p, c) = q
    BY <1>3 DEF Without
  <2> HIDE DEF j
  <2>3. a \in Seq(Calls) /\ Len(a) = j - 1 /\ \A k \in 1..(j - 1) : a[k] = p[k]
    <3>1. \A i \in 1..(j - 1) : p[i] \in Calls
      BY <1>1, <2>1
    <3> QED BY <2>1, <3>1
  <2>4. b \in Seq(Calls) /\ Len(b) = Len(p) - j /\ \A k \in 1..(Len(p) - j) : b[k] = p[j + k]
    <3>1. j \in 0..Len(p)
      BY <1>1, <2>1
    <3> QED BY <3>1, RestOf
  <2> HIDE DEF a, b
  <2>5. /\ q \in Seq(Calls) /\ Len(q) = Len(p) - 1 /\ DOMAIN q = 1..(Len(p) - 1)
        /\ \A k \in 1..(Len(p) - 1) : q[k] = IF k < j THEN p[k] ELSE p[k + 1]
    <3>1. /\ q \in Seq(Calls) /\ Len(q) = Len(a) + Len(b)
          /\ \A k \in 1..(Len(a) + Len(b)) : q[k] = IF k <= Len(a) THEN a[k] ELSE b[k - Len(a)]
      BY <2>3, <2>4, ConcatProperties
    <3>2. Len(a) + Len(b) = Len(p) - 1
      BY <1>1, <2>1, <2>3, <2>4
    <3>3. ASSUME NEW k \in 1..(Len(p) - 1)
          PROVE  q[k] = IF k < j THEN p[k] ELSE p[k + 1]
      <4>1. CASE k < j
        <5>1. k <= Len(a) /\ k \in 1..(j - 1)
          BY <2>1, <2>3, <4>1
        <5> QED BY <2>3, <3>1, <3>2, <4>1, <5>1
      <4>2. CASE ~(k < j)
        <5>1. ~(k <= Len(a)) /\ k - Len(a) \in 1..(Len(p) - j) /\ j + (k - Len(a)) = k + 1
          BY <1>1, <2>1, <2>3, <4>2
        <5> QED BY <2>4, <3>1, <3>2, <4>2, <5>1
      <4> QED BY <4>1, <4>2
    <3>4. DOMAIN q = 1..Len(q)
      BY <3>1, LenProperties
    <3> QED BY <3>1, <3>2, <3>3, <3>4
  <2> HIDE DEF q
  <2>6. Apart(q)
    <3> SUFFICES ASSUME NEW k \in 1..(Len(p) - 1), NEW l \in 1..(Len(p) - 1), Chat(q[k]) = Chat(q[l])
                 PROVE  k = l
      BY <2>5 DEF Apart
    <3> DEFINE k1 == IF k < j THEN k ELSE k + 1
               l1 == IF l < j THEN l ELSE l + 1
    <3>1. k1 \in DOMAIN p /\ l1 \in DOMAIN p
      BY <1>1, <2>1
    <3>2. q[k] = p[k1] /\ q[l] = p[l1]
      BY <2>5
    <3>3. k1 = l1
      BY <3>1, <3>2 DEF Apart
    <3> QED BY <2>1, <3>3
  <2>7. RangeOf(q) = {s \in RangeOf(p) : Chat(s) # c}
    <3>1. ASSUME NEW k \in 1..(Len(p) - 1)
          PROVE  q[k] \in RangeOf(p) /\ Chat(q[k]) # c
      <4>1. CASE k < j
        <5>1. k \in DOMAIN p /\ q[k] = p[k] /\ k # j
          BY <1>1, <2>1, <2>5, <4>1
        <5> QED BY <1>1, <2>1, <5>1 DEF Apart, RangeOf
      <4>2. CASE ~(k < j)
        <5>1. k + 1 \in DOMAIN p /\ q[k] = p[k + 1] /\ k + 1 # j
          BY <1>1, <2>1, <2>5, <4>2
        <5> QED BY <1>1, <2>1, <5>1 DEF Apart, RangeOf
      <4> QED BY <4>1, <4>2
    <3>2. ASSUME NEW i \in 1..Len(p), Chat(p[i]) # c
          PROVE  \E k \in 1..(Len(p) - 1) : q[k] = p[i]
      <4>1. CASE i < j
        <5>1. i \in 1..(Len(p) - 1) /\ q[i] = p[i]
          BY <1>1, <2>1, <2>5, <4>1
        <5> QED BY <5>1
      <4>2. CASE i > j
        <5>1. i - 1 \in 1..(Len(p) - 1) /\ ~(i - 1 < j) /\ (i - 1) + 1 = i
          BY <1>1, <2>1, <4>2
        <5>2. q[i - 1] = p[i]
          BY <2>5, <5>1
        <5> QED BY <5>1, <5>2
      <4> QED BY <1>1, <2>1, <3>2, <4>1, <4>2
    <3>3. RangeOf(q) = {q[k] : k \in 1..(Len(p) - 1)} /\ RangeOf(p) = {p[i] : i \in 1..Len(p)}
      BY <1>1, <2>5 DEF RangeOf
    <3> QED BY <3>1, <3>2, <3>3
  <2> QED BY <2>2, <2>5, <2>6, <2>7
<1> QED BY <1>2, <1>3

\* An entry of a chat that has none goes to the end.
LEMMA AppendFacts ==
    ASSUME NEW p \in Seq(Calls), Apart(p), NEW s \in Calls,
           \A t \in RangeOf(p) : Chat(t) # Chat(s)
    PROVE  /\ Append(p, s) \in Seq(Calls) /\ Apart(Append(p, s))
           /\ RangeOf(Append(p, s)) = RangeOf(p) \cup {s}
<1> DEFINE q == Append(p, s)
<1>1. Len(p) \in Nat /\ DOMAIN p = 1..Len(p)
  BY LenProperties
<1>2. /\ q \in Seq(Calls) /\ DOMAIN q = 1..(Len(p) + 1)
      /\ \A i \in 1..Len(p) : q[i] = p[i]
      /\ q[Len(p) + 1] = s
  BY AppendProperties, LenProperties
<1> HIDE DEF q
<1>3. Apart(q)
  BY <1>1, <1>2 DEF Apart, RangeOf
<1>4. RangeOf(q) = RangeOf(p) \cup {s}
  BY <1>1, <1>2 DEF RangeOf
<1> QED BY <1>2, <1>3, <1>4 DEF q

\* Map.set replaces the entry of the chat, or goes to the end.
LEMMA PutFacts ==
    ASSUME NEW p \in Seq(Calls), Apart(p), NEW s \in Calls
    PROVE  /\ Put(p, s) \in Seq(Calls) /\ Apart(Put(p, s))
           /\ RangeOf(Put(p, s)) = {t \in RangeOf(p) : Chat(t) # Chat(s)} \cup {s}
<1>1. Len(p) \in Nat /\ DOMAIN p = 1..Len(p) /\ \A i \in 1..Len(p) : p[i] \in Calls
  BY LenProperties
<1>2. CASE ~\E i \in DOMAIN p : Chat(p[i]) = Chat(s)
  <2>1. \A t \in RangeOf(p) : Chat(t) # Chat(s)
    BY <1>2 DEF RangeOf
  <2>2. Put(p, s) = Append(p, s)
    BY <1>2 DEF Put
  <2>3. {t \in RangeOf(p) : Chat(t) # Chat(s)} = RangeOf(p)
    BY <2>1
  <2> QED BY <2>1, <2>2, <2>3, AppendFacts
<1>3. CASE \E i \in DOMAIN p : Chat(p[i]) = Chat(s)
  <2> DEFINE q == [i \in 1..Len(p) |-> IF Chat(p[i]) = Chat(s) THEN s ELSE p[i]]
  <2>1. Put(p, s) = q
    BY <1>1, <1>3 DEF Put
  <2>2. q \in Seq(Calls)
    BY <1>1
  <2>3. DOMAIN q = 1..Len(p) /\ \A i \in 1..Len(p) : q[i] = IF Chat(p[i]) = Chat(s) THEN s ELSE p[i]
    OBVIOUS
  <2> HIDE DEF q
  <2>4. Apart(q)
    BY <1>1, <2>3 DEF Apart
  <2>5. RangeOf(q) = {t \in RangeOf(p) : Chat(t) # Chat(s)} \cup {s}
    BY <1>1, <1>3, <2>3 DEF RangeOf
  <2> QED BY <2>1, <2>2, <2>4, <2>5
<1> QED BY <1>2, <1>3

\* The k entries that were used least recently leave.
LEMMA DropFacts ==
    ASSUME NEW p \in Seq(Calls), Apart(p), NEW k \in 0..Len(p)
    PROVE  /\ SubSeq(p, k + 1, Len(p)) \in Seq(Calls) /\ Apart(SubSeq(p, k + 1, Len(p)))
           /\ RangeOf(SubSeq(p, k + 1, Len(p))) \subseteq RangeOf(p)
           /\ \A s \in RangeOf(p) : \/ s \in {p[i] : i \in 1..k}
                                    \/ s \in RangeOf(SubSeq(p, k + 1, Len(p)))
<1> DEFINE q == SubSeq(p, k + 1, Len(p))
<1>1. Len(p) \in Nat /\ DOMAIN p = 1..Len(p) /\ \A i \in 1..Len(p) : p[i] \in Calls
  BY LenProperties
<1>2. /\ q \in Seq(Calls) /\ DOMAIN q = 1..(Len(p) - k)
      /\ \A i \in 1..(Len(p) - k) : q[i] = p[k + i]
  BY RestOf
<1> HIDE DEF q
<1>3. \A i \in DOMAIN q : k + i \in DOMAIN p /\ q[i] = p[k + i]
  BY <1>1, <1>2
<1>4. RangeOf(q) \subseteq RangeOf(p)
  BY <1>3 DEF RangeOf
<1>5. Apart(q)
  <2> SUFFICES ASSUME NEW i \in DOMAIN q, NEW j \in DOMAIN q, Chat(q[i]) = Chat(q[j])
               PROVE  i = j
    BY DEF Apart
  <2>1. k + i = k + j
    BY <1>3 DEF Apart
  <2> QED BY <1>1, <1>2, <2>1
<1>6. ASSUME NEW i \in 1..Len(p)
      PROVE  p[i] \in {p[n] : n \in 1..k} \/ p[i] \in RangeOf(q)
  <2>1. CASE i \in 1..k
    BY <2>1
  <2>2. CASE i > k
    <3>1. i - k \in DOMAIN q /\ q[i - k] = p[i]
      BY <1>1, <1>2, <2>2
    <3> QED BY <3>1 DEF RangeOf
  <2> QED BY <1>1, <2>1, <2>2
<1> QED BY <1>1, <1>2, <1>4, <1>5, <1>6 DEF q, RangeOf

-----------------------------------------------------------------------------
(* The pieces of the actions.                                               *)

CallRec == [pc : Acquiring \cup {"idle", "turn", "over"}, chat : Chats \cup {None},
            version : Versions \cup {None}, on : Calls \cup {None}, stopped : BOOLEAN]
ExecRec == [state : {"none", "ready", "crashed", "shutting_down", "closed"},
            turn : Calls \cup {None, Burst}, drain : BOOLEAN, timed : BOOLEAN,
            inbox : Seq(Calls \cup {Burst}), restarts : 0..MaxRestarts,
            heard : BOOLEAN, mixed : BOOLEAN]
SlotRec == [exec : Calls \cup {None}, version : Versions \cup {None},
            parked : BOOLEAN, seen : BOOLEAN, respawns : Nat]

DrainsTurn(x) == (x.drain => x.turn \in Calls) /\ (x.timed => x.drain)

LEMMA Types ==
    ASSUME PoolInv
    PROVE  /\ call \in [Calls -> CallRec] /\ exec \in [Calls -> ExecRec] /\ slot \in [Calls -> SlotRec]
           /\ pool \in Seq(Calls) /\ Pooled = RangeOf(pool) /\ Pooled \subseteq Calls
           /\ pending \in [Chats -> Calls \cup {None}]
           /\ subscribed \subseteq Chats /\ raced \subseteq Chats /\ shuttingDown \in BOOLEAN
           /\ strays \subseteq Calls /\ counts \in [{"crash", "failure", "burst", "release"} -> Nat]
           /\ \A e \in Calls : DrainsTurn(exec[e])
<1>1. pool \in Seq(Calls) /\ Pooled = RangeOf(pool)
  BY DEF PoolInv, TypeOK, Pooled, RangeOf
<1>2. Pooled \subseteq Calls
  BY <1>1, LenProperties DEF RangeOf
<1>3. \A e \in Calls : DrainsTurn(exec[e])
  BY DEF PoolInv, TypeOK, DrainsTurn
<1> QED BY <1>1, <1>2, <1>3 DEF PoolInv, TypeOK, CallRec, ExecRec, SlotRec

\* The entry of a chat that has one.
LEMMA EntryFacts ==
    ASSUME PoolInv, NEW c, Entries(c) # {}
    PROVE  /\ Entry(c) \in Pooled /\ Entry(c) \in Calls /\ Chat(Entry(c)) = c /\ Entries(c) = {Entry(c)}
           /\ ExecutorOf(c) = slot[Entry(c)].exec /\ ExecutorOf(c) \in Calls
           /\ Chat(ExecutorOf(c)) = c /\ call[ExecutorOf(c)].pc \in Past
<1>1. Entry(c) \in Entries(c)
  BY DEF Entry
<1>2. Entry(c) \in Pooled /\ Entry(c) \in Calls /\ Chat(Entry(c)) = c
  BY <1>1, Types DEF Entries
<1>3. \A s, t \in Pooled : Chat(s) = Chat(t) => s = t
  BY Types DEF PoolInv, Apart, RangeOf
<1>4. Entries(c) = {Entry(c)}
  BY <1>1, <1>2, <1>3 DEF Entries
<1>5. slot[Entry(c)].exec # None /\ Chat(slot[Entry(c)].exec) = c /\ slot[Entry(c)].exec \in Calls
  BY <1>2, Types DEF PoolInv, TypeOK, SlotRec
<1> QED BY <1>2, <1>4, <1>5 DEF ExecutorOf, PoolInv, HeldIsPast

\* A pooled entry and its executor are of a chat.
LEMMA PooledFacts ==
    ASSUME PoolInv, NEW s \in Pooled
    PROVE  /\ s \in Calls /\ slot[s].exec \in Calls /\ Chat(slot[s].exec) = Chat(s)
           /\ call[slot[s].exec].pc \in Past /\ Chat(s) \in Chats
           /\ \A t \in Pooled : Chat(t) = Chat(s) => t = s
<1>1. s \in Calls /\ slot[s].exec \in Calls /\ Chat(slot[s].exec) = Chat(s)
  BY Types DEF PoolInv, TypeOK, SlotRec
<1>2. call[slot[s].exec].pc \in Past
  BY <1>1 DEF PoolInv, HeldIsPast
<1>3. Chat(s) \in Chats
  BY <1>1, <1>2, Types DEF PoolInv, LinkedCall, Past, CallRec, Chat
<1>4. \A t \in Pooled : Chat(t) = Chat(s) => t = s
  BY Types DEF PoolInv, Apart, RangeOf
<1> QED BY <1>1, <1>2, <1>3, <1>4

LEMMA WindDownFacts ==
    ASSUME PoolInv, NEW E
    PROVE  /\ WindDown(E) \in [Calls -> ExecRec]
           /\ \A e \in Calls :
                 \/ /\ e \in E /\ exec[e].state \in {"ready", "crashed"}
                    /\ WindDown(E)[e] = [exec[e] EXCEPT !.state = "shutting_down"]
                 \/ /\ ~(e \in E /\ exec[e].state \in {"ready", "crashed"})
                    /\ WindDown(E)[e] = exec[e]
<1>1. exec \in [Calls -> ExecRec]
  BY Types
<1> QED BY <1>1 DEF WindDown, ExecRec

LEMMA OverFacts ==
    ASSUME PoolInv, NEW m \in Calls
    PROVE  Over(m) \in CallRec /\ Over(m).pc = "over" /\ Over(m).chat = Chat(m) /\ Over(m).stopped = FALSE
<1>1. call[m] \in CallRec
  BY Types
<1> QED BY <1>1 DEF Over, NoCall, CallRec, Chat, Acquiring

\* The call m goes to another stage of acquire().
LEMMA StageFacts ==
    ASSUME call \in [Calls -> CallRec], NEW m \in Calls, NEW pc \in Acquiring,
           NEW on \in Calls \cup {None}, call' = [call EXCEPT ![m].pc = pc, ![m].on = on]
    PROVE  /\ call' \in [Calls -> CallRec] /\ call'[m].pc = pc /\ call'[m].on = on
           /\ call'[m].chat = call[m].chat /\ \A k \in Calls \ {m} : call'[k] = call[k]
<1> DEFINE next == [call[m] EXCEPT !.pc = pc, !.on = on]
<1>1. next \in CallRec /\ next.pc = pc /\ next.on = on /\ next.chat = call[m].chat
  BY DEF CallRec
<1>2. call' = [call EXCEPT ![m] = next]
  OBVIOUS
<1> HIDE DEF next
<1> QED BY <1>1, <1>2

\* The prompt of the call m has been written to the executor x.
Prompted(x, m) == [x EXCEPT !.turn = m, !.inbox = Append(@, m),
                           !.mixed = @ \/ Burst \in RangeOf(x.inbox)]

\* A turn begins, or nextTurn throws.
LEMMA NextTurnFacts ==
    ASSUME PoolInv, NEW m \in Calls, NEW e \in Calls, NEW ex \in [Calls -> ExecRec], NextTurn(m, e, ex)
    PROVE  /\ exec' \in [Calls -> ExecRec] /\ call' \in [Calls -> CallRec]
           /\ \A f \in Calls : /\ exec'[f].state = ex[f].state
                               /\ f # e => exec'[f] = ex[f]
                               /\ DrainsTurn(ex[f]) => DrainsTurn(exec'[f])
           /\ \A k \in Calls \ {m} : call'[k] = call[k]
           /\ call'[m].chat = Chat(m) /\ call'[m].pc \in Past /\ (call'[m].pc = "turn" => call'[m].on \in Calls)
           /\ \/ exec' = ex
              \/ ex[e].turn = None /\ exec'[e] = Prompted(ex[e], m)
<1>1. call \in [Calls -> CallRec]
  BY Types
<1>2. CASE ex[e].state = "ready" /\ ex[e].turn = None
  <2> DEFINE x == Prompted(ex[e], m)
  <2>1. exec' = [ex EXCEPT ![e] = x] /\ call' = [call EXCEPT ![m].pc = "turn", ![m].on = e]
    BY <1>2 DEF NextTurn, Prompted, RangeOf
  <2>2. x \in ExecRec /\ x.state = ex[e].state /\ (DrainsTurn(ex[e]) => DrainsTurn(x))
    <3>1. ex[e] \in ExecRec /\ Append(ex[e].inbox, m) \in Seq(Calls \cup {Burst})
      BY DEF ExecRec
    <3>2. (ex[e].mixed \/ Burst \in RangeOf(ex[e].inbox)) \in BOOLEAN
      OBVIOUS
    <3>3. x \in ExecRec /\ x.state = ex[e].state
      BY <3>1, <3>2 DEF Prompted, ExecRec
    <3>4. DrainsTurn(ex[e]) => DrainsTurn(x)
      BY <3>1 DEF Prompted, ExecRec, DrainsTurn
    <3> QED BY <3>3, <3>4
  <2> HIDE DEF x
  <2>3. exec' \in [Calls -> ExecRec] /\ exec'[e] = x /\ \A f \in Calls \ {e} : exec'[f] = ex[f]
    BY <2>1, <2>2
  <2>4. /\ call' \in [Calls -> CallRec] /\ \A k \in Calls \ {m} : call'[k] = call[k]
        /\ call'[m].chat = Chat(m) /\ call'[m].pc = "turn" /\ call'[m].on \in Calls
    BY <1>1, <2>1 DEF CallRec, Chat
  <2> QED BY <1>2, <2>2, <2>3, <2>4 DEF x, Past
<1>3. CASE ~(ex[e].state = "ready" /\ ex[e].turn = None)
  <2>1. exec' = ex /\ call' = [call EXCEPT ![m] = Over(m)]
    BY <1>3 DEF NextTurn
  <2> QED BY <1>1, <2>1, OverFacts DEF Past
<1> QED BY <1>2, <1>3

\* An executor stays as it is, or is wound down after its call has had it.
Softens(e) ==
    \/ exec'[e] = exec[e]
    \/ /\ call[e].pc \in Past /\ exec[e].state \in {"ready", "crashed"}
       /\ exec'[e] = [exec[e] EXCEPT !.state = "shutting_down"]

\* The call m has got its executor, which starts, or has failed.
Outcome(m) ==
    \/ call'[m].pc = "starting" /\ call'[m].on = None /\ exec'[m] = [NoExec EXCEPT !.state = "ready"]
    \/ call'[m].pc = "over" /\ exec'[m] = NoExec

LEMMA BornType == [NoExec EXCEPT !.state = "ready"] \in ExecRec /\ NoExec \in ExecRec /\ ~NoExec.drain
                 /\ ~NoExec.timed
<1>1. 0 \in 0..MaxRestarts /\ <<>> \in Seq(Calls \cup {Burst})
  BY PoolAssumption
<1> QED BY <1>1 DEF NoExec, ExecRec

LEMMA CreateFacts ==
    ASSUME PoolInv, NEW m \in Calls, call[m].pc \in Unborn \ {"idle"},
           NEW p \in Seq(Calls), Apart(p), RangeOf(p) \subseteq Pooled,
           NEW subs \in SUBSET Chats, Create(m, p, subs)
    PROVE  /\ pool' \in Seq(Calls) /\ Apart(pool') /\ RangeOf(pool') \subseteq RangeOf(p)
           /\ subscribed' \subseteq Chats
           /\ counts' \in [{"crash", "failure", "burst", "release"} -> Nat]
           /\ exec' \in [Calls -> ExecRec] /\ call' \in [Calls -> CallRec]
           /\ \A k \in Calls \ {m} : call'[k] = call[k] /\ Softens(k)
           /\ call'[m].chat = Chat(m) /\ Outcome(m)
           /\ \A s \in RangeOf(p) : exec'[slot[s].exec].state = "ready" => s \in RangeOf(pool')
           /\ \A e \in Calls : DrainsTurn(exec'[e])
<1> DEFINE excess == IF Len(p) >= MaxConcurrent THEN Len(p) - MaxConcurrent + 1 ELSE 0
           evicted == {p[i] : i \in 1..excess}
           E == {slot[s].exec : s \in evicted}
           ex == WindDown(E)
<1>1. /\ pool' = SubSeq(p, excess + 1, Len(p))
      /\ subscribed' = subs \ {Chat(s) : s \in evicted}
      /\ \/ /\ exec' = [ex EXCEPT ![m].state = "ready"]
            /\ call' = [call EXCEPT ![m].pc = "starting", ![m].on = None]
            /\ UNCHANGED counts
         \/ /\ Count("failure")
            /\ exec' = ex
            /\ call' = [call EXCEPT ![m] = Over(m)]
  BY DEF Create
<1>2. excess \in 0..Len(p)
  <2>1. Len(p) \in Nat /\ MaxConcurrent \in Nat \ {0}
    BY PoolAssumption, LenProperties
  <2> QED BY <2>1
<1>3. evicted \subseteq RangeOf(p)
  <2>1. DOMAIN p = 1..Len(p) /\ Len(p) \in Nat
    BY LenProperties
  <2> QED BY <1>2, <2>1 DEF RangeOf
<1>4. /\ ex \in [Calls -> ExecRec]
      /\ \A e \in Calls :
                 \/ /\ e \in E /\ exec[e].state \in {"ready", "crashed"}
                    /\ ex[e] = [exec[e] EXCEPT !.state = "shutting_down"]
                 \/ /\ ~(e \in E /\ exec[e].state \in {"ready", "crashed"})
                    /\ ex[e] = exec[e]
  BY WindDownFacts
<1>5. /\ pool' \in Seq(Calls) /\ Apart(pool') /\ RangeOf(pool') \subseteq RangeOf(p)
      /\ \A s \in RangeOf(p) : s \in evicted \/ s \in RangeOf(pool')
  BY <1>1, <1>2, DropFacts
<1>6. \A s \in RangeOf(p) : slot[s].exec \in Calls /\ call[slot[s].exec].pc \in Past /\ slot[s].exec # m
  BY PooledFacts DEF Unborn, Past
<1>7. \A s \in evicted : slot[s].exec \in E
  OBVIOUS
<1>8. \A e \in E : e \in Calls /\ call[e].pc \in Past /\ e # m
  BY <1>3, <1>6
<1> HIDE DEF excess, evicted, E, ex
<1>9. call \in [Calls -> CallRec] /\ exec[m] = NoExec /\ NoExec.state = "none"
  BY Types DEF PoolInv, LinkedCall, NoExec
<1>10. ex[m] = NoExec
  BY <1>4, <1>8, <1>9
<1>11. exec' \in [Calls -> ExecRec] /\ \A e \in Calls \ {m} : exec'[e] = ex[e]
  <2>1. CASE exec' = [ex EXCEPT ![m].state = "ready"]
    <3>1. [ex[m] EXCEPT !.state = "ready"] \in ExecRec
      BY <1>10, BornType
    <3> QED BY <1>4, <2>1, <3>1
  <2>2. CASE exec' = ex
    BY <1>4, <2>2
  <2> QED BY <1>1, <2>1, <2>2
<1>12. \A e \in Calls \ {m} : Softens(e)
  BY <1>4, <1>8, <1>11 DEF Softens
<1>13. /\ call' \in [Calls -> CallRec] /\ call'[m].chat = Chat(m)
       /\ \A k \in Calls \ {m} : call'[k] = call[k]
  <2>1. CASE call' = [call EXCEPT ![m].pc = "starting", ![m].on = None]
    <3>1. "starting" \in Acquiring
      BY DEF Acquiring
    <3> QED BY <1>9, <2>1, <3>1, StageFacts DEF Chat
  <2>2. CASE call' = [call EXCEPT ![m] = Over(m)]
    BY <1>9, <2>2, OverFacts
  <2> QED BY <1>1, <2>1, <2>2
<1>14. Outcome(m)
  <2>1. CASE /\ exec' = [ex EXCEPT ![m].state = "ready"]
             /\ call' = [call EXCEPT ![m].pc = "starting", ![m].on = None]
    <3>1. exec'[m] = [NoExec EXCEPT !.state = "ready"]
      BY <1>4, <1>10, <2>1
    <3>2. call'[m].pc = "starting" /\ call'[m].on = None
      BY <1>9, <2>1 DEF CallRec
    <3> QED BY <3>1, <3>2 DEF Outcome
  <2>2. CASE exec' = ex /\ call' = [call EXCEPT ![m] = Over(m)]
    BY <1>9, <1>10, <2>2, OverFacts DEF Outcome
  <2> QED BY <1>1, <2>1, <2>2
<1>15. \A s \in RangeOf(p) : exec'[slot[s].exec].state = "ready" => s \in RangeOf(pool')
  <2> SUFFICES ASSUME NEW s \in RangeOf(p), s \in evicted
               PROVE  exec'[slot[s].exec].state # "ready"
    BY <1>5
  <2>1. slot[s].exec \in E /\ slot[s].exec \in Calls /\ slot[s].exec # m
    BY <1>6, <1>7
  <2>2. exec'[slot[s].exec] = ex[slot[s].exec] /\ exec[slot[s].exec] \in ExecRec
    BY <1>11, <2>1, Types
  <2> QED BY <1>4, <2>1, <2>2 DEF ExecRec
<1>16. \A e \in Calls : DrainsTurn(exec'[e])
  <2>1. \A e \in Calls : DrainsTurn(exec[e]) /\ exec[e] \in ExecRec
    BY Types
  <2>2. \A e \in Calls \ {m} : DrainsTurn(exec'[e])
    <3> SUFFICES ASSUME NEW e \in Calls \ {m}
                 PROVE  DrainsTurn(exec'[e])
      OBVIOUS
    <3>1. CASE exec'[e] = exec[e]
      BY <2>1, <3>1
    <3>2. CASE exec'[e] = [exec[e] EXCEPT !.state = "shutting_down"]
      BY <2>1, <3>2 DEF DrainsTurn, ExecRec
    <3> QED BY <1>12, <3>1, <3>2 DEF Softens
  <2>3. DrainsTurn(exec'[m])
    BY <1>14 DEF Outcome, DrainsTurn, NoExec
  <2> QED BY <2>2, <2>3
<1>17. subscribed' \subseteq Chats /\ counts' \in [{"crash", "failure", "burst", "release"} -> Nat]
  <2>1. counts \in [{"crash", "failure", "burst", "release"} -> Nat]
    BY Types
  <2> QED BY <1>1, <2>1 DEF Count
<1> QED BY <1>5, <1>11, <1>12, <1>13, <1>14, <1>15, <1>16, <1>17

\* How the calls move: forward, within their chat.
CallMoves(k) ==
    \/ /\ call'[k].pc = call[k].pc /\ call'[k].on = call[k].on /\ call'[k].chat = call[k].chat
    \/ /\ call[k].pc # "idle" /\ call'[k].pc # "idle" /\ call'[k].chat = call[k].chat
       /\ call[k].pc \in Past => call'[k].pc \in Past
       /\ call'[k].pc \in Unborn => call[k].pc \in Unborn
       /\ call'[k].pc \in {"pending", "release", "backoff", "turn"} => call'[k].on \in Calls
       /\ call'[k].pc \in {"backoff", "starting"} /\ call'[k].on # None =>
             call'[k].on \in Calls /\ Chat(call'[k].on) = call[k].chat
    \/ call[k].pc = "idle" /\ call'[k].pc = "acquire" /\ call'[k].chat \in Chats

TypesNext ==
    /\ call' \in [Calls -> CallRec] /\ exec' \in [Calls -> ExecRec] /\ slot' \in [Calls -> SlotRec]
    /\ pool' \in Seq(Calls)
    /\ pending' \in [Chats -> Calls \cup {None}]
    /\ subscribed' \subseteq Chats /\ raced' \subseteq Chats /\ shuttingDown' \in BOOLEAN
    /\ strays' \subseteq Calls /\ counts' \in [{"crash", "failure", "burst", "release"} -> Nat]
    /\ \A e \in Calls : DrainsTurn(exec'[e])

LEMMA LinksTogether ==
    ASSUME PoolInv, TypesNext, \A k \in Calls : CallMoves(k),
           \A k \in Calls : call'[k].pc \in Unborn => exec'[k] = exec[k],
           \A k \in Calls : call'[k].pc = "starting" => exec'[k].state = "ready",
           \A s \in Calls : \/ slot'[s].exec = slot[s].exec
                            \/ call'[slot'[s].exec].pc \in Past,
           \A e \in Calls : \/ exec'[e].turn \in {exec[e].turn, None, Burst}
                            \/ call'[exec'[e].turn].pc \in Past,
           \A s \in RangeOf(pool') : /\ slot'[s].exec \in Calls
                                     /\ Chat(slot'[s].exec) = Chat(s) /\ Chat(s) # None,
           Apart(pool')
    PROVE  PoolInv'
<1>1. \A k \in Calls : LinkedCall(k) /\ call[k] \in CallRec /\ call'[k] \in CallRec
  BY Types DEF PoolInv, TypesNext
<1>2. \A k \in Calls : Chat(k) # None => call'[k].chat = Chat(k)
  BY <1>1 DEF CallMoves, LinkedCall, Chat
<1>3. ASSUME NEW k \in Calls
      PROVE  LinkedCall(k)'
  <2>1. call'[k].pc = "idle" <=> call'[k].chat = None
    BY <1>1, PoolAssumption DEF CallMoves, LinkedCall, Chat
  <2>2. call'[k].pc \in {"pending", "release", "backoff", "turn"} => call'[k].on \in Calls
    BY <1>1 DEF CallMoves, LinkedCall
  <2>3. call'[k].pc \in {"backoff", "starting"} /\ call'[k].on # None =>
           call'[call'[k].on].chat = call'[k].chat
    <3> SUFFICES ASSUME call'[k].pc \in {"backoff", "starting"}, call'[k].on # None
                 PROVE  call'[call'[k].on].chat = call'[k].chat
      OBVIOUS
    <3>1. call'[k].on \in Calls
      BY <1>1 DEF CallRec
    <3>2. call'[k].chat = call[k].chat /\ call[k].chat # None /\ Chat(call'[k].on) = call[k].chat
      BY <1>1 DEF CallMoves, LinkedCall, Chat
    <3> QED BY <1>2, <3>1, <3>2
  <2>4. call'[k].pc \in Unborn => exec'[k] = NoExec
    BY <1>1 DEF CallMoves, LinkedCall, Unborn
  <2> QED BY <2>1, <2>2, <2>3, <2>4 DEF LinkedCall, Chat
<1>4. HeldIsPast'
  <2> SUFFICES ASSUME NEW s \in Calls, slot'[s].exec \in Calls, slot'[s].exec = slot[s].exec
               PROVE  call'[slot[s].exec].pc \in Past
    BY DEF HeldIsPast
  <2>1. call[slot[s].exec].pc \in Past
    BY DEF PoolInv, HeldIsPast
  <2> QED BY <2>1 DEF CallMoves, Past
<1>5. TurnIsPast'
  <2> SUFFICES ASSUME NEW e \in Calls, exec'[e].turn \in Calls, exec'[e].turn = exec[e].turn
               PROVE  call'[exec[e].turn].pc \in Past
    BY PoolAssumption DEF TurnIsPast
  <2>1. call[exec[e].turn].pc \in Past
    BY DEF PoolInv, TurnIsPast
  <2> QED BY <2>1 DEF CallMoves, Past
<1>6. RangeOf(pool') \subseteq Calls
  BY LenProperties DEF RangeOf, TypesNext
<1>7. \A s \in RangeOf(pool') : call'[s].chat = Chat(s) /\ call'[slot'[s].exec].chat = Chat(s)
  BY <1>2, <1>6
<1>8. TypeOK'
  <2>1. \A s \in RangeOf(pool') : /\ slot'[s].exec # None
                                  /\ call'[slot'[s].exec].chat = call'[s].chat
    BY <1>7, PoolAssumption
  <2>2. \A s \in Pooled' : slot'[s].exec # None /\ Chat(slot[s].exec)' = Chat(s)'
    BY <2>1 DEF Pooled, RangeOf, Chat
  <2> QED BY <2>2 DEF TypeOK, TypesNext, CallRec, ExecRec, SlotRec, DrainsTurn
<1>9. Apart(pool)'
  BY <1>7 DEF Apart, RangeOf, Chat
<1> QED BY <1>3, <1>4, <1>5, <1>8, <1>9 DEF PoolInv

-----------------------------------------------------------------------------
(* The executors, one by one.                                               *)

\* What every step does to an executor: the executor stays one, only a turn in flight is
\* drained, and what has not been mixed up is not mixed up unnoticed.
Keeps(x, y) == y \in ExecRec /\ DrainsTurn(y) /\ (Isolated(x) => Isolated(y))

LEMMA SameKept == ASSUME PoolInv, NEW e \in Calls PROVE Keeps(exec[e], exec[e])
BY Types DEF Keeps

LEMMA SoftKept ==
    ASSUME PoolInv, NEW e \in Calls, Softens(e)
    PROVE  Keeps(exec[e], exec'[e]) /\ exec'[e].turn = exec[e].turn
<1>1. exec[e] \in ExecRec /\ DrainsTurn(exec[e])
  BY Types
<1>2. CASE exec'[e] = exec[e]
  BY <1>2, SameKept
<1>3. CASE /\ exec[e].state \in {"ready", "crashed"}
           /\ exec'[e] = [exec[e] EXCEPT !.state = "shutting_down"]
  BY <1>1, <1>3 DEF Keeps, ExecRec, DrainsTurn, Isolated
<1> QED BY <1>2, <1>3 DEF Softens

\* A new executor has been told of nothing.
LEMMA BornKept ==
    ASSUME NEW y \in {NoExec, [NoExec EXCEPT !.state = "ready"]}
    PROVE  Keeps(NoExec, y) /\ y.turn = None
<1>1. y \in ExecRec
  BY BornType
<1> QED BY <1>1 DEF Keeps, DrainsTurn, Isolated, NoExec

\* The prompt of the call m is written to an executor that works on no turn.
LEMMA PromptKept ==
    ASSUME NEW x \in ExecRec, DrainsTurn(x), x.turn = None, NEW m \in Calls
    PROVE  Keeps(x, Prompted(x, m)) /\ Prompted(x, m).turn = m
<1> DEFINE y == Prompted(x, m)
<1>1. y \in ExecRec /\ y.turn = m /\ y.inbox = Append(x.inbox, m) /\ y.state = x.state
      /\ (y.mixed <=> x.mixed \/ Burst \in RangeOf(x.inbox)) /\ y.drain = x.drain /\ y.timed = x.timed
  <2>1. Append(x.inbox, m) \in Seq(Calls \cup {Burst})
    BY DEF ExecRec
  <2>2. (x.mixed \/ Burst \in RangeOf(x.inbox)) \in BOOLEAN
    OBVIOUS
  <2> QED BY <2>1, <2>2 DEF Prompted, ExecRec
<1> HIDE DEF y
<1>2. ASSUME Isolated(x), y.state # "closed", ~y.mixed
      PROVE  y.inbox = <<y.turn>>
  <2>1. x.inbox \in {<<>>, <<Burst>>} /\ Burst \notin RangeOf(x.inbox)
    BY <1>1, <1>2, PoolAssumption DEF Isolated
  <2>2. x.inbox # <<Burst>>
    <3>1. Burst \in RangeOf(<<Burst>>)
      <4>1. 1 \in DOMAIN <<Burst>> /\ <<Burst>>[1] = Burst
        OBVIOUS
      <4> QED BY <4>1 DEF RangeOf
    <3> QED BY <2>1, <3>1
  <2>3. x.inbox = <<>>
    BY <2>1, <2>2
  <2> QED BY <1>1, <2>3
<1>3. Isolated(x) => Isolated(y)
  BY <1>1, <1>2 DEF Isolated
<1>4. DrainsTurn(y)
  BY <1>1 DEF DrainsTurn
<1> QED BY <1>1, <1>3, <1>4 DEF y, Keeps

\* Every entry that is left, with its executor, was in the pool.
LEMMA LinksKept ==
    ASSUME PoolInv, TypesNext, \A k \in Calls : CallMoves(k),
           \A k \in Calls : call'[k].pc \in Unborn => exec'[k] = exec[k],
           \A k \in Calls : call'[k].pc = "starting" => exec'[k].state = "ready",
           \A s \in Calls : slot'[s].exec = slot[s].exec,
           \A e \in Calls : \/ exec'[e].turn \in {exec[e].turn, None, Burst}
                            \/ call'[exec'[e].turn].pc \in Past,
           RangeOf(pool') \subseteq Pooled, Apart(pool')
    PROVE  PoolInv'
<1>1. \A s \in RangeOf(pool') : /\ slot'[s].exec \in Calls
                                /\ Chat(slot'[s].exec) = Chat(s) /\ Chat(s) # None
  BY PooledFacts, PoolAssumption
<1> QED BY <1>1, LinksTogether

\* A step of one executor, which may end the call whose turn is in flight.
ExecutorMoves(e) ==
    /\ exec[e] # NoExec
    /\ exec' = [exec EXCEPT ![e] = exec'[e]] /\ Keeps(exec[e], exec'[e])
    /\ exec'[e].turn \in {exec[e].turn, None, Burst}
    /\ \E E \in SUBSET ({exec[e].turn} \cap Calls) : call' = Ended(E)

\* What is said of a pool that only shrinks.
Shrinks ==
    /\ slot' \in [Calls -> SlotRec] /\ \A s \in Calls : slot'[s].exec = slot[s].exec
    /\ pool' \in Seq(Calls) /\ Apart(pool') /\ RangeOf(pool') \subseteq Pooled
    /\ subscribed' \subseteq Chats

LEMMA EndedFacts ==
    ASSUME PoolInv, Quiet, NEW e \in Calls, NEW E \in SUBSET ({exec[e].turn} \cap Calls), call' = Ended(E)
    PROVE  /\ call' \in [Calls -> CallRec]
           /\ \A k \in Calls : \/ call'[k] = call[k]
                               \/ call'[k] = Over(k) /\ call[k].pc \in Past
           /\ \A k \in Calls : CallMoves(k) /\ call'[k].chat = Chat(k)
           /\ \A k \in Calls : call'[k].pc \in Unborn => call[k].pc \in Unborn
           /\ \A k \in Calls : call'[k].pc # "starting"
<1>1. \A k \in Calls : Over(k) \in CallRec /\ call[k] \in CallRec
  BY OverFacts, Types
<1>2. call' \in [Calls -> CallRec]
  BY <1>1 DEF Ended
<1>3. \A k \in Calls : \/ call'[k] = call[k]
                       \/ call'[k] = Over(k) /\ call[k].pc \in Past
  <2>1. \A k \in E : k \in Calls /\ call[k].pc \in Past
    BY DEF PoolInv, TurnIsPast
  <2>2. \A k \in Calls : call'[k] = IF k \in E THEN Over(k) ELSE call[k]
    BY DEF Ended
  <2> QED BY <2>1, <2>2
<1>4. ASSUME NEW k \in Calls
      PROVE  /\ CallMoves(k) /\ call'[k].chat = Chat(k) /\ (call'[k].pc \in Unborn => call[k].pc \in Unborn)
             /\ call'[k].pc # "starting"
  <2>1. CASE call'[k] = call[k]
    BY <2>1 DEF CallMoves, Chat, Quiet
  <2>2. CASE call'[k] = Over(k) /\ call[k].pc \in Past
    BY <2>2, OverFacts DEF CallMoves, Chat, Past, Unborn
  <2> QED BY <1>3, <2>1, <2>2
<1> QED BY <1>2, <1>3, <1>4

LEMMA ExecutorSound ==
    ASSUME PoolInv, Quiet, NEW e \in Calls, ExecutorMoves(e), Shrinks,
           pending' \in [Chats -> Calls \cup {None}], strays' \subseteq Calls,
           counts' \in [{"crash", "failure", "burst", "release"} -> Nat],
           UNCHANGED <<raced, shuttingDown>>
    PROVE  PoolInv' /\ \A f \in Calls : Keeps(exec[f], exec'[f])
<1>1. /\ call' \in [Calls -> CallRec] /\ \A k \in Calls : CallMoves(k)
      /\ \A k \in Calls : call'[k].pc \in Unborn => call[k].pc \in Unborn
      /\ \A k \in Calls : call'[k].pc # "starting"
  BY EndedFacts DEF ExecutorMoves
<1>2. exec \in [Calls -> ExecRec] /\ exec'[e] \in ExecRec /\ DrainsTurn(exec'[e])
  BY Types DEF ExecutorMoves, Keeps
<1>3. exec' \in [Calls -> ExecRec] /\ \A f \in Calls \ {e} : exec'[f] = exec[f]
  BY <1>2 DEF ExecutorMoves
<1>4. \A f \in Calls : Keeps(exec[f], exec'[f]) /\ exec'[f].turn \in {exec[f].turn, None, Burst}
  BY <1>3, SameKept DEF ExecutorMoves
<1>5. \A k \in Calls : call'[k].pc \in Unborn => exec'[k] = exec[k]
  BY <1>1, <1>3 DEF PoolInv, LinkedCall, ExecutorMoves
<1>6. TypesNext
  BY <1>1, <1>3, <1>4, Types DEF TypesNext, Shrinks, Keeps
<1>7. PoolInv'
  BY <1>1, <1>4, <1>5, <1>6, LinksKept DEF Shrinks
<1> QED BY <1>4, <1>7

\* Closed parks the entry of the executor or takes it from the pool.
LEMMA ClosedFacts ==
    ASSUME PoolInv, NEW e \in Calls, NEW crashed, Closed(e, crashed)
    PROVE  /\ Shrinks
           /\ \A s \in Pooled : s \in RangeOf(pool') \/ slot[s].exec = e
           /\ \A s \in Calls : slot'[s].parked => slot[s].parked \/ slot[s].exec = e
<1>1. /\ slot \in [Calls -> SlotRec] /\ pool \in Seq(Calls) /\ Pooled = RangeOf(pool)
      /\ Apart(pool) /\ subscribed \subseteq Chats
  BY Types DEF PoolInv
<1>2. CASE UNCHANGED <<slot, pool, subscribed>>
  BY <1>1, <1>2 DEF Shrinks
<1>3. ASSUME NEW s \in Holders(e), slot' = [slot EXCEPT ![s].parked = TRUE, ![s].seen = TRUE],
             UNCHANGED <<pool, subscribed>>
      PROVE  /\ Shrinks
             /\ \A t \in Pooled : t \in RangeOf(pool') \/ slot[t].exec = e
             /\ \A t \in Calls : slot'[t].parked => slot[t].parked \/ slot[t].exec = e
  <2>1. s \in Calls /\ slot[s].exec = e
    BY Types DEF Holders
  <2>2. slot' \in [Calls -> SlotRec] /\ \A t \in Calls : slot'[t].exec = slot[t].exec
    BY <1>1, <1>3 DEF SlotRec
  <2>3. \A t \in Calls \ {s} : slot'[t] = slot[t]
    BY <1>1, <1>3
  <2> QED BY <1>1, <1>3, <2>1, <2>2, <2>3 DEF Shrinks
<1>4. ASSUME NEW s \in Holders(e), pool' = Without(pool, Chat(e)),
             subscribed' = subscribed \ {Chat(e)}, UNCHANGED slot
      PROVE  /\ Shrinks
             /\ \A t \in Pooled : t \in RangeOf(pool') \/ slot[t].exec = e
             /\ \A t \in Calls : slot'[t].parked => slot[t].parked \/ slot[t].exec = e
  <2>1. s \in Pooled /\ slot[s].exec = e /\ Chat(s) = Chat(e)
    BY PooledFacts DEF Holders
  <2>2. \A t \in Pooled : Chat(t) = Chat(e) => t = s
    BY <2>1, PooledFacts
  <2>3. /\ pool' \in Seq(Calls) /\ Apart(pool')
        /\ RangeOf(pool') = {t \in Pooled : Chat(t) # Chat(e)}
    BY <1>1, <1>4, WithoutFacts
  <2> QED BY <1>1, <1>4, <2>1, <2>2, <2>3 DEF Shrinks
<1> QED BY <1>2, <1>3, <1>4 DEF Closed

Sound == PoolInv' /\ \A e \in Calls : Keeps(exec[e], exec'[e])

LEMMA NoneEnded == ASSUME PoolInv, UNCHANGED call PROVE call' = Ended({})
<1>1. call \in [Calls -> CallRec]
  BY Types
<1> QED BY <1>1 DEF Ended

LEMMA Unshrunk == ASSUME PoolInv, UNCHANGED <<slot, pool, subscribed>> PROVE Shrinks
BY Types DEF Shrinks, PoolInv

\* A step on nothing but one executor.
LEMMA AloneSound ==
    ASSUME PoolInv, Quiet, NEW e \in Calls, exec[e] # NoExec,
           NEW y, exec' = [exec EXCEPT ![e] = y], Keeps(exec[e], y),
           y.turn \in {exec[e].turn, None, Burst},
           counts' \in [{"crash", "failure", "burst", "release"} -> Nat],
           UNCHANGED <<call, slot, pool, pending, subscribed, shuttingDown, raced, strays>>
    PROVE  Sound
<1>1. exec \in [Calls -> ExecRec] /\ pending \in [Chats -> Calls \cup {None}] /\ strays \subseteq Calls
  BY Types
<1>2. exec'[e] = y
  BY <1>1
<1>3. ExecutorMoves(e)
  BY <1>2, NoneEnded DEF ExecutorMoves
<1> QED BY <1>1, <1>3, Unshrunk, ExecutorSound DEF Sound

LEMMA BackgroundSettlesSound == ASSUME PoolInv, NEW e \in Calls, BackgroundSettles(e) PROVE Sound
<1> DEFINE x == exec[e]
           y == [x EXCEPT !.inbox = <<Burst>>]
<1>1. x \in ExecRec /\ DrainsTurn(x)
  BY Types
<1>2. /\ x.state = "ready" /\ x.inbox = <<>> /\ Quiet /\ exec' = [exec EXCEPT ![e] = y]
      /\ UNCHANGED <<call, slot, pool, pending, subscribed, shuttingDown, raced, strays>>
  BY DEF BackgroundSettles
<1>3. counts' \in [{"crash", "failure", "burst", "release"} -> Nat]
  BY Types DEF BackgroundSettles, Count
<1>4. y \in ExecRec /\ DrainsTurn(y) /\ y.turn = x.turn
  <2>1. <<Burst>> \in Seq(Calls \cup {Burst})
    OBVIOUS
  <2> QED BY <1>1, <2>1 DEF ExecRec, DrainsTurn
<1>5. Isolated(x) => Isolated(y)
  <2>1. <<>> # <<Burst>> /\ \A t : <<>> # <<t>>
    OBVIOUS
  <2> QED BY <1>1, <1>2, <2>1 DEF Isolated, ExecRec
<1>6. x # NoExec
  BY <1>2 DEF NoExec
<1> HIDE DEF y
<1>7. Keeps(x, y)
  BY <1>4, <1>5 DEF Keeps
<1> QED BY <1>2, <1>3, <1>4, <1>6, <1>7, AloneSound

LEMMA BurstOpensSound == ASSUME PoolInv, NEW e \in Calls, BurstOpens(e) PROVE Sound
<1> DEFINE x == exec[e]
           y == [x EXCEPT !.turn = Burst]
<1>1. x \in ExecRec /\ DrainsTurn(x) /\ counts \in [{"crash", "failure", "burst", "release"} -> Nat]
  BY Types
<1>2. /\ x.state \in {"ready", "shutting_down"} /\ x.turn = None /\ x.inbox # <<>> /\ Quiet
      /\ exec' = [exec EXCEPT ![e] = y]
      /\ UNCHANGED <<call, slot, pool, pending, subscribed, shuttingDown, raced, strays, counts>>
  BY DEF BurstOpens, Alive
<1>3. y \in ExecRec /\ DrainsTurn(y)
  BY <1>1, <1>2, PoolAssumption DEF ExecRec, DrainsTurn
<1>4. Isolated(x) => Isolated(y)
  BY <1>1, <1>2, PoolAssumption DEF Isolated, ExecRec
<1>5. x # NoExec /\ y.turn = Burst
  BY <1>1, <1>2 DEF NoExec, ExecRec
<1> HIDE DEF y
<1>6. Keeps(x, y)
  BY <1>3, <1>4 DEF Keeps
<1> QED BY <1>1, <1>2, <1>5, <1>6, AloneSound

LEMMA InterruptEndsSound == ASSUME PoolInv, NEW e \in Calls, InterruptEnds(e) PROVE Sound
<1> DEFINE x == exec[e]
           y == [x EXCEPT !.timed = TRUE]
<1>1. /\ x \in ExecRec /\ DrainsTurn(x)
      /\ counts \in [{"crash", "failure", "burst", "release"} -> Nat]
  BY Types
<1>2. /\ x.drain /\ Quiet /\ exec' = [exec EXCEPT ![e] = y]
      /\ UNCHANGED <<call, slot, pool, pending, subscribed, shuttingDown, raced, strays, counts>>
  BY DEF InterruptEnds
<1>3. y \in ExecRec /\ DrainsTurn(y) /\ y.turn = x.turn
  BY <1>1, <1>2 DEF ExecRec, DrainsTurn
<1>4. x # NoExec
  BY <1>2 DEF NoExec
<1>5. Isolated(x) => Isolated(y)
  BY <1>1 DEF ExecRec, Isolated
<1> HIDE DEF y
<1>6. Keeps(x, y)
  BY <1>3, <1>5 DEF Keeps
<1> QED BY <1>1, <1>2, <1>3, <1>4, <1>6, AloneSound

LEMMA DrainTimeoutSound == ASSUME PoolInv, NEW e \in Calls, DrainTimeout(e) PROVE Sound
<1> DEFINE x == exec[e]
           y == [x EXCEPT !.turn = None, !.drain = FALSE, !.timed = FALSE, !.mixed = TRUE]
<1>1. x \in ExecRec /\ counts \in [{"crash", "failure", "burst", "release"} -> Nat]
  BY Types
<1>2. /\ x.drain /\ Quiet /\ exec' = [exec EXCEPT ![e] = y]
      /\ UNCHANGED <<call, slot, pool, pending, subscribed, shuttingDown, raced, strays, counts>>
  BY DEF DrainTimeout
<1>3. y \in ExecRec /\ DrainsTurn(y) /\ y.turn = None /\ y.mixed
  BY <1>1 DEF ExecRec, DrainsTurn
<1>4. x # NoExec
  BY <1>2 DEF NoExec
<1> HIDE DEF y
<1>5. Keeps(x, y)
  BY <1>3 DEF Keeps, Isolated
<1> QED BY <1>1, <1>2, <1>3, <1>4, <1>5, AloneSound

LEMMA IdleTimeoutSound == ASSUME PoolInv, NEW e \in Calls, IdleTimeout(e) PROVE Sound
<1> DEFINE x == exec[e]
           y == [x EXCEPT !.state = "shutting_down"]
<1>1. exec \in [Calls -> ExecRec] /\ x \in ExecRec /\ counts \in [{"crash", "failure", "burst", "release"} -> Nat]
  BY Types
<1>2. /\ x.state = "ready" /\ Quiet /\ exec' = WindDown({e})
      /\ UNCHANGED <<call, slot, pool, pending, subscribed, shuttingDown, raced, strays, counts>>
  BY DEF IdleTimeout
<1>3. exec' = [exec EXCEPT ![e] = y] /\ exec'[e] = y
  BY <1>1, <1>2 DEF WindDown
<1>4. Keeps(x, y) /\ y.turn = x.turn
  BY <1>1, <1>2, Types DEF Keeps, ExecRec, DrainsTurn, Isolated
<1>5. x # NoExec
  BY <1>2 DEF NoExec
<1> HIDE DEF y
<1> QED BY <1>1, <1>2, <1>3, <1>4, <1>5, AloneSound

LEMMA AbortSound == ASSUME PoolInv, NEW m \in Calls, Abort(m) PROVE Sound
<1> DEFINE e == call[m].on
           x == exec[e]
           y == Detached(x)
<1>1. e \in Calls
  BY DEF Abort, PoolInv, LinkedCall
<1>2. /\ exec \in [Calls -> ExecRec] /\ x \in ExecRec /\ DrainsTurn(x)
      /\ call \in [Calls -> CallRec] /\ pending \in [Chats -> Calls \cup {None}]
      /\ strays \subseteq Calls /\ counts \in [{"crash", "failure", "burst", "release"} -> Nat]
  BY <1>1, Types
<1>3. /\ Quiet /\ x.turn = m /\ call' = [call EXCEPT ![m] = Over(m)]
      /\ exec' = [exec EXCEPT ![e] = y]
      /\ UNCHANGED <<slot, pool, pending, subscribed, shuttingDown, raced, strays, counts>>
  BY DEF Abort
<1>4. Keeps(x, y) /\ y.turn = x.turn
  BY <1>2, <1>3 DEF Keeps, ExecRec, DrainsTurn, Isolated, Detached
<1>5. x # NoExec
  BY <1>3, PoolAssumption DEF NoExec
<1> HIDE DEF y
<1>6. exec'[e] = y
  BY <1>1, <1>2, <1>3
<1>7. call' = Ended({m})
  BY <1>2, <1>3 DEF Ended
<1> HIDE DEF e
<1>8. ExecutorMoves(e)
  BY <1>3, <1>4, <1>5, <1>6, <1>7 DEF ExecutorMoves
<1> QED BY <1>1, <1>2, <1>3, <1>8, Unshrunk, ExecutorSound DEF Sound

LEMMA ResultSound == ASSUME PoolInv, NEW e \in Calls, Result(e) PROVE Sound
<1> DEFINE x == exec[e]
           y == [x EXCEPT !.inbox = Tail(@), !.turn = None, !.drain = FALSE, !.timed = FALSE]
<1>1. /\ exec \in [Calls -> ExecRec] /\ x \in ExecRec /\ pending \in [Chats -> Calls \cup {None}]
      /\ strays \subseteq Calls /\ counts \in [{"crash", "failure", "burst", "release"} -> Nat]
  BY Types
<1>2. /\ Quiet /\ x.state \in {"ready", "shutting_down"} /\ x.inbox # <<>>
      /\ exec' = [exec EXCEPT ![e] = y]
      /\ UNCHANGED <<slot, pool, pending, subscribed, shuttingDown, raced, counts>>
      /\ \/ /\ x.turn \in Calls /\ call' = Ended({x.turn})
            /\ strays' \in {strays, strays \cup {x.turn}}
         \/ UNCHANGED <<call, strays>>
  BY DEF Result, Alive
<1>3. y \in ExecRec /\ DrainsTurn(y) /\ y.turn = None
  <2>1. Tail(x.inbox) \in Seq(Calls \cup {Burst})
    BY <1>1, <1>2, HeadTailProperties DEF ExecRec
  <2> QED BY <1>1, <2>1 DEF ExecRec, DrainsTurn
<1>4. Isolated(x) => Isolated(y)
  <2> SUFFICES ASSUME Isolated(x), x.state # "closed", ~x.mixed
               PROVE  y.inbox = <<>> /\ y.turn = None
    BY <1>1 DEF Isolated, ExecRec
  <2>1. \E t : x.inbox = <<t>>
    BY <1>2 DEF Isolated
  <2>2. Tail(x.inbox) = <<>>
    BY <2>1
  <2> QED BY <1>1, <2>2 DEF ExecRec
<1>5. x # NoExec
  BY <1>2 DEF NoExec
<1> HIDE DEF y
<1>6. exec'[e] = y /\ Keeps(x, y)
  BY <1>1, <1>2, <1>3, <1>4 DEF Keeps
<1>7. \E E \in SUBSET ({x.turn} \cap Calls) : call' = Ended(E)
  BY <1>2, NoneEnded
<1>8. strays' \subseteq Calls
  BY <1>1, <1>2
<1>9. ExecutorMoves(e)
  BY <1>2, <1>3, <1>5, <1>6, <1>7 DEF ExecutorMoves
<1> QED BY <1>1, <1>2, <1>8, <1>9, Unshrunk, ExecutorSound DEF Sound

\* What the process works on is the turn in flight, so its result is of no other.
LEMMA ResultIsolated == ASSUME IsolationInv, NEW e \in Calls, Result(e) PROVE strays' = strays
<1> DEFINE t == exec[e].turn
<1> SUFFICES ASSUME t \in Calls, ~exec[e].mixed
             PROVE  Head(exec[e].inbox) = t
  BY DEF Result
<1>1. exec[e].state # "closed"
  BY DEF Result, Alive
<1>2. exec[e].inbox = <<t>>
  BY <1>1, PoolAssumption DEF IsolationInv, Isolated
<1> QED BY <1>2

\* What a crash leaves of the executor e, y, and of the pool.
CrashLeaves(e, y) ==
    /\ exec' = [exec EXCEPT ![e] = y] /\ y \in ExecRec
    /\ y.turn = None /\ y.inbox = <<>> /\ ~y.drain /\ ~y.timed /\ y.state \in {"ready", "crashed", "closed"}
    /\ Shrinks
    /\ \A s \in Calls : slot'[s].parked => slot[s].parked \/ (slot[s].exec = e /\ y.state = "closed")
    /\ \A s \in Pooled : s \in RangeOf(pool') \/ (slot[s].exec = e /\ y.state = "closed")

LEMMA CrashFacts ==
    ASSUME PoolInv, NEW e \in Calls, Crash(e)
    PROVE  /\ counts' \in [{"crash", "failure", "burst", "release"} -> Nat]
           /\ \E y : CrashLeaves(e, y)
<1> DEFINE x == exec[e]
           gone == [x EXCEPT !.inbox = <<>>, !.turn = None, !.drain = FALSE, !.timed = FALSE]
<1>1. /\ exec \in [Calls -> ExecRec] /\ x \in ExecRec /\ pending \in [Chats -> Calls \cup {None}]
      /\ slot \in [Calls -> SlotRec]
      /\ strays \subseteq Calls /\ counts \in [{"crash", "failure", "burst", "release"} -> Nat]
  BY Types
<1>2. /\ Quiet /\ x.state = "ready" /\ call' = Ended(Lost(e))
      /\ UNCHANGED <<pending, shuttingDown, raced, strays>>
  BY DEF Crash
<1>3. PICK fresh \in BOOLEAN :
        LET spent == IF fresh THEN 0 ELSE x.restarts
        IN  \/ /\ spent < MaxRestarts
               /\ Count("crash")
               /\ exec' = [exec EXCEPT ![e] = [gone EXCEPT !.restarts = spent + 1]]
               /\ slot' = [s \in Calls |-> IF s \in Holders(e)
                                           THEN [slot[s] EXCEPT !.seen = FALSE]
                                           ELSE slot[s]]
               /\ UNCHANGED <<pool, subscribed>>
            \/ /\ spent < MaxRestarts
               /\ counts.failure < MaxFailures
               /\ counts' = [counts EXCEPT !.crash = @ + 1, !.failure = @ + 1]
               /\ exec' = [exec EXCEPT ![e] = [gone EXCEPT !.state = "crashed",
                                                          !.restarts = spent + 1]]
               /\ slot' = [s \in Calls |-> IF s \in Holders(e)
                                           THEN [slot[s] EXCEPT !.seen = TRUE]
                                           ELSE slot[s]]
               /\ UNCHANGED <<pool, subscribed>>
            \/ /\ spent >= MaxRestarts
               /\ Count("crash")
               /\ exec' = [exec EXCEPT ![e] = Dead(gone)]
               /\ Closed(e, TRUE)
  BY DEF Crash
<1> DEFINE spent == IF fresh THEN 0 ELSE x.restarts
<1>4. spent \in 0..MaxRestarts /\ MaxRestarts \in Nat
  <2>1. x.restarts \in 0..MaxRestarts /\ MaxRestarts \in Nat
    BY <1>1, PoolAssumption DEF ExecRec
  <2>2. CASE fresh
    BY <2>1, <2>2
  <2>3. CASE ~fresh
    BY <2>1, <2>3
  <2> QED BY <2>2, <2>3
<1>5. counts' \in [{"crash", "failure", "burst", "release"} -> Nat]
  <2>1. \/ counts' = [counts EXCEPT !.crash = @ + 1]
        \/ counts' = [counts EXCEPT !.crash = @ + 1, !.failure = @ + 1]
    BY <1>3 DEF Count
  <2>2. counts.crash + 1 \in Nat /\ counts.failure + 1 \in Nat
    BY <1>1
  <2>3. CASE counts' = [counts EXCEPT !.crash = @ + 1]
    BY <1>1, <2>2, <2>3
  <2>4. CASE counts' = [counts EXCEPT !.crash = @ + 1, !.failure = @ + 1]
    <3> DEFINE a == [counts EXCEPT !.crash = counts.crash + 1]
    <3>1. a \in [{"crash", "failure", "burst", "release"} -> Nat]
      BY <1>1, <2>2
    <3> HIDE DEF a
    <3>2. [a EXCEPT !.failure = counts.failure + 1] \in [{"crash", "failure", "burst", "release"} -> Nat]
      BY <2>2, <3>1
    <3> QED BY <2>4, <3>2 DEF a
  <2> QED BY <2>1, <2>3, <2>4
<1>6. /\ gone \in ExecRec /\ gone.state = "ready" /\ gone.turn = None
      /\ gone.inbox = <<>> /\ ~gone.drain /\ ~gone.timed
  <2>1. <<>> \in Seq(Calls \cup {Burst})
    OBVIOUS
  <2>2. /\ gone.state = "ready" /\ gone.turn = None
        /\ gone.inbox = <<>> /\ ~gone.drain /\ ~gone.timed
    BY <1>1, <1>2 DEF ExecRec
  <2>3. gone \in ExecRec
    BY <1>1, <2>1 DEF ExecRec
  <2> QED BY <2>2, <2>3
<1> HIDE DEF gone, spent
<1>7. ASSUME NEW b \in BOOLEAN, NEW y \in ExecRec, exec' = [exec EXCEPT ![e] = y],
             y.turn = None, y.inbox = <<>>, ~y.drain, ~y.timed, y.state \in {"ready", "crashed"},
             slot' = [s \in Calls |-> IF s \in Holders(e) THEN [slot[s] EXCEPT !.seen = b]
                                      ELSE slot[s]],
             UNCHANGED <<pool, subscribed>>
      PROVE  CrashLeaves(e, y)
  <2>1. /\ slot' \in [Calls -> SlotRec]
        /\ \A s \in Calls : slot'[s].exec = slot[s].exec /\ slot'[s].parked = slot[s].parked
    BY <1>1, <1>7 DEF SlotRec
  <2>2. Shrinks
    BY <1>7, <2>1, Types DEF Shrinks, PoolInv
  <2>3. \A s \in Pooled : s \in RangeOf(pool')
    BY <1>7, Types
  <2> QED BY <1>7, <2>1, <2>2, <2>3 DEF CrashLeaves
<1>8. CASE /\ spent < MaxRestarts
           /\ exec' = [exec EXCEPT ![e] = [gone EXCEPT !.restarts = spent + 1]]
           /\ slot' = [s \in Calls |-> IF s \in Holders(e) THEN [slot[s] EXCEPT !.seen = FALSE]
                                       ELSE slot[s]]
           /\ UNCHANGED <<pool, subscribed>>
  <2>1. spent + 1 \in 0..MaxRestarts
    BY <1>4, <1>8
  <2> DEFINE y == [gone EXCEPT !.restarts = spent + 1]
  <2>2. y \in ExecRec /\ y.turn = None /\ y.inbox = <<>> /\ ~y.drain /\ ~y.timed /\ y.state = "ready"
    BY <1>6, <2>1 DEF ExecRec
  <2>3. exec' = [exec EXCEPT ![e] = y]
    BY <1>8
  <2> HIDE DEF y
  <2>4. CrashLeaves(e, y)
    BY <1>7, <1>8, <2>2, <2>3
  <2> QED BY <1>5, <2>4
<1>9. CASE /\ spent < MaxRestarts
           /\ exec' = [exec EXCEPT ![e] = [gone EXCEPT !.state = "crashed", !.restarts = spent + 1]]
           /\ slot' = [s \in Calls |-> IF s \in Holders(e) THEN [slot[s] EXCEPT !.seen = TRUE]
                                       ELSE slot[s]]
           /\ UNCHANGED <<pool, subscribed>>
  <2>1. spent + 1 \in 0..MaxRestarts
    BY <1>4, <1>9
  <2> DEFINE y == [gone EXCEPT !.state = "crashed", !.restarts = spent + 1]
  <2>2. y \in ExecRec /\ y.turn = None /\ y.inbox = <<>> /\ ~y.drain /\ ~y.timed /\ y.state = "crashed"
    BY <1>6, <2>1 DEF ExecRec
  <2>3. exec' = [exec EXCEPT ![e] = y]
    BY <1>9
  <2> HIDE DEF y
  <2>4. CrashLeaves(e, y)
    BY <1>7, <1>9, <2>2, <2>3
  <2> QED BY <1>5, <2>4
<1>10. CASE exec' = [exec EXCEPT ![e] = Dead(gone)] /\ Closed(e, TRUE)
  <2>1. /\ Dead(gone) \in ExecRec /\ Dead(gone).turn = None /\ Dead(gone).inbox = <<>>
        /\ ~Dead(gone).drain /\ ~Dead(gone).timed /\ Dead(gone).state = "closed"
    BY <1>6, BornType DEF Dead, ExecRec, NoExec
  <2>2. CrashLeaves(e, Dead(gone))
    BY <1>10, <2>1, ClosedFacts DEF CrashLeaves
  <2> QED BY <1>5, <2>2
<1> QED BY <1>3, <1>8, <1>9, <1>10 DEF spent

LEMMA CrashSound == ASSUME PoolInv, NEW e \in Calls, Crash(e) PROVE Sound
<1> DEFINE x == exec[e]
<1>1. PICK y : CrashLeaves(e, y)
  BY CrashFacts
<1>2. /\ exec \in [Calls -> ExecRec] /\ pending \in [Chats -> Calls \cup {None}] /\ strays \subseteq Calls
      /\ counts' \in [{"crash", "failure", "burst", "release"} -> Nat]
  BY Types, CrashFacts
<1>3. /\ Quiet /\ x.state = "ready" /\ call' = Ended(Lost(e))
      /\ UNCHANGED <<pending, shuttingDown, raced, strays>>
  BY DEF Crash
<1>4. exec'[e] = y /\ y.turn = None /\ Keeps(x, y)
  BY <1>1, <1>2 DEF CrashLeaves, Keeps, DrainsTurn, Isolated
<1>5. x # NoExec
  BY <1>3 DEF NoExec
<1>6. Lost(e) \in SUBSET ({x.turn} \cap Calls)
  BY DEF Lost
<1>7. ExecutorMoves(e)
  BY <1>1, <1>3, <1>4, <1>5, <1>6 DEF ExecutorMoves, CrashLeaves
<1> QED BY <1>1, <1>2, <1>3, <1>7, ExecutorSound DEF Sound, CrashLeaves

LEMMA DeadKept ==
    ASSUME PoolInv, NEW e \in Calls
    PROVE  Keeps(exec[e], Dead(exec[e])) /\ Dead(exec[e]).turn = exec[e].turn
<1>1. exec[e] \in ExecRec /\ DrainsTurn(exec[e])
  BY Types
<1> QED BY <1>1, BornType DEF Keeps, Dead, ExecRec, NoExec, DrainsTurn, Isolated

LEMMA StreamEndsSound == ASSUME PoolInv, NEW e \in Calls, StreamEnds(e) PROVE Sound
<1>1. /\ exec \in [Calls -> ExecRec] /\ pending \in [Chats -> Calls \cup {None}] /\ strays \subseteq Calls
      /\ counts' \in [{"crash", "failure", "burst", "release"} -> Nat]
  BY Types DEF StreamEnds, Count
<1>2. exec' = [exec EXCEPT ![e] = Dead(exec[e])] /\ exec'[e] = Dead(exec[e])
  BY <1>1 DEF StreamEnds
<1>3. exec[e] # NoExec
  BY DEF StreamEnds, NoExec
<1>4. ExecutorMoves(e)
  BY <1>2, <1>3, DeadKept, NoneEnded DEF ExecutorMoves, StreamEnds
<1> QED BY <1>1, <1>4, ClosedFacts, ExecutorSound DEF Sound, StreamEnds

LEMMA ShutdownEndsSound == ASSUME PoolInv, NEW e \in Calls, ShutdownEnds(e) PROVE Sound
<1>1. /\ exec \in [Calls -> ExecRec] /\ pending' \in [Chats -> Calls \cup {None}] /\ strays \subseteq Calls
      /\ counts \in [{"crash", "failure", "burst", "release"} -> Nat]
  BY Types DEF ShutdownEnds
<1>2. exec' = [exec EXCEPT ![e] = Dead(exec[e])] /\ exec'[e] = Dead(exec[e])
  BY <1>1 DEF ShutdownEnds
<1>3. exec[e] # NoExec
  BY DEF ShutdownEnds, NoExec
<1>4. ExecutorMoves(e)
  BY <1>2, <1>3, DeadKept, NoneEnded DEF ExecutorMoves, ShutdownEnds
<1> QED BY <1>1, <1>4, ClosedFacts, ExecutorSound DEF Sound, ShutdownEnds

-----------------------------------------------------------------------------
(* The calls, one by one.                                                   *)

\* The pool after a step: an entry is new only with the executor of a call that has it.
PoolFits ==
    /\ slot' \in [Calls -> SlotRec]
    /\ \A s \in Calls : slot'[s].exec = slot[s].exec \/ call'[slot'[s].exec].pc \in Past
    /\ pool' \in Seq(Calls) /\ Apart(pool')
    /\ \A s \in RangeOf(pool') : slot'[s].exec \in Calls /\ Chat(slot'[s].exec) = Chat(s) /\ Chat(s) # None
    /\ subscribed' \subseteq Chats

LEMMA ShrinksFits == ASSUME PoolInv, Shrinks PROVE PoolFits
<1>1. \A s \in Pooled : s \in Calls /\ slot[s].exec \in Calls /\ Chat(slot[s].exec) = Chat(s) /\ Chat(s) # None
  BY PooledFacts, PoolAssumption
<1> QED BY <1>1 DEF Shrinks, PoolFits

\* What no step of a call changes.
CallFrame ==
    /\ pending' \in [Chats -> Calls \cup {None}] /\ raced' \subseteq Chats
    /\ counts' \in [{"crash", "failure", "burst", "release"} -> Nat]
    /\ UNCHANGED <<shuttingDown, strays>>

LEMMA CallerSound ==
    ASSUME PoolInv, NEW m \in Calls, PoolFits, CallFrame,
           call' \in [Calls -> CallRec], \A k \in Calls \ {m} : call'[k] = call[k], CallMoves(m),
           exec' \in [Calls -> ExecRec], \A e \in Calls : Keeps(exec[e], exec'[e]),
           \A e \in Calls \ {m} : exec'[e] = exec[e] \/ call[e].pc \in Past,
           call'[m].pc \in Unborn => exec'[m] = exec[m],
           call'[m].pc = "starting" => exec'[m].state = "ready",
           \A e \in Calls : \/ exec'[e].turn \in {exec[e].turn, None, Burst}
                            \/ exec'[e].turn = m /\ call'[m].pc \in Past
    PROVE  Sound
<1>1. \A k \in Calls : CallMoves(k)
  BY DEF CallMoves
<1>2. \A k \in Calls : call'[k].pc \in Unborn => exec'[k] = exec[k]
  BY DEF Unborn, Past
<1>3. \A k \in Calls : call'[k].pc = "starting" => exec'[k].state = "ready"
  BY DEF PoolInv, LinkedCall, Past
<1>4. TypesNext
  BY Types DEF TypesNext, PoolFits, CallFrame, Keeps
<1>5. \A e \in Calls : \/ exec'[e].turn \in {exec[e].turn, None, Burst}
                       \/ call'[exec'[e].turn].pc \in Past
  OBVIOUS
<1>6. PoolInv'
  BY <1>1, <1>2, <1>3, <1>4, <1>5, LinksTogether DEF PoolFits
<1> QED BY <1>6 DEF Sound

\* A call that leaves the executors alone.
LEMMA WaiterSound ==
    ASSUME PoolInv, NEW m \in Calls, PoolFits, CallFrame, UNCHANGED exec,
           call' \in [Calls -> CallRec], \A k \in Calls \ {m} : call'[k] = call[k], CallMoves(m),
           call'[m].pc = "starting" => call[m].pc = "starting"
    PROVE  Sound
<1>1. exec \in [Calls -> ExecRec] /\ \A e \in Calls : Keeps(exec[e], exec[e])
  BY Types, SameKept
<1>2. call'[m].pc = "starting" => exec'[m].state = "ready"
  BY DEF PoolInv, LinkedCall
<1> QED BY <1>1, <1>2, CallerSound

LEMMA CreateSound ==
    ASSUME PoolInv, NEW m \in Calls, call[m].pc \in Unborn \ {"idle"},
           NEW p \in Seq(Calls), Apart(p), RangeOf(p) \subseteq Pooled,
           NEW subs \in SUBSET Chats, Create(m, p, subs),
           slot' \in [Calls -> SlotRec], \A s \in Calls : slot'[s].exec = slot[s].exec,
           UNCHANGED <<pending, shuttingDown, raced, strays>>
    PROVE  Sound
<1>1. /\ pool' \in Seq(Calls) /\ Apart(pool') /\ RangeOf(pool') \subseteq RangeOf(p)
      /\ subscribed' \subseteq Chats
      /\ counts' \in [{"crash", "failure", "burst", "release"} -> Nat]
      /\ exec' \in [Calls -> ExecRec] /\ call' \in [Calls -> CallRec]
      /\ \A k \in Calls \ {m} : call'[k] = call[k] /\ Softens(k)
      /\ call'[m].chat = Chat(m) /\ Outcome(m)
  BY CreateFacts
<1>2. exec[m] = NoExec
  BY DEF PoolInv, LinkedCall
<1>3. /\ call'[m].pc \in {"starting", "over"}
      /\ call'[m].pc = "starting" => call'[m].on = None /\ exec'[m].state = "ready"
      /\ exec'[m] \in {NoExec, [NoExec EXCEPT !.state = "ready"]}
  BY <1>1 DEF Outcome, NoExec
<1>4. CallMoves(m)
  BY <1>1, <1>3 DEF CallMoves, Chat, Unborn, Past
<1>5. \A e \in Calls : Keeps(exec[e], exec'[e]) /\ exec'[e].turn \in {exec[e].turn, None, Burst}
  BY <1>1, <1>2, <1>3, SoftKept, BornKept
<1>6. \A e \in Calls \ {m} : exec'[e] = exec[e] \/ call[e].pc \in Past
  BY <1>1 DEF Softens
<1>7. PoolFits
  BY <1>1, ShrinksFits DEF Shrinks
<1>8. CallFrame
  BY <1>1, Types DEF CallFrame
<1>9. call'[m].pc \notin Unborn
  BY <1>3 DEF Unborn
<1> QED BY <1>1, <1>3, <1>4, <1>5, <1>6, <1>7, <1>8, <1>9, CallerSound

\* acquire() returns the executor e, which was there or is the call's own.
LEMMA TurnSound ==
    ASSUME PoolInv, NEW m \in Calls, call[m].pc # "idle", NEW e \in Calls, e = m \/ call[e].pc \in Past,
           NEW ex \in [Calls -> ExecRec], \A f \in Calls : Keeps(exec[f], ex[f]) /\ ex[f].turn = exec[f].turn,
           \A f \in Calls \ {m} : ex[f] = exec[f],
           NextTurn(m, e, ex), PoolFits, CallFrame
    PROVE  Sound
<1>1. /\ exec' \in [Calls -> ExecRec] /\ call' \in [Calls -> CallRec]
      /\ \A f \in Calls : f # e => exec'[f] = ex[f]
      /\ \A k \in Calls \ {m} : call'[k] = call[k]
      /\ call'[m].chat = Chat(m) /\ call'[m].pc \in Past /\ (call'[m].pc = "turn" => call'[m].on \in Calls)
      /\ \/ exec' = ex
         \/ ex[e].turn = None /\ exec'[e] = Prompted(ex[e], m)
  BY ONLY PoolInv, NextTurn(m, e, ex), NextTurnFacts
<1>2. Keeps(ex[e], exec'[e]) /\ exec'[e].turn \in {ex[e].turn, m}
  <2>1. ex[e] \in ExecRec /\ DrainsTurn(ex[e])
    BY DEF Keeps
  <2>2. CASE exec' = ex
    BY <2>1, <2>2 DEF Keeps
  <2>3. CASE ex[e].turn = None /\ exec'[e] = Prompted(ex[e], m)
    BY <2>1, <2>3, PromptKept
  <2> QED BY <1>1, <2>2, <2>3
<1>3. \A f \in Calls : /\ Keeps(exec[f], exec'[f])
                       /\ \/ exec'[f].turn \in {exec[f].turn, None, Burst}
                          \/ exec'[f].turn = m /\ call'[m].pc \in Past
  BY <1>1, <1>2 DEF Keeps
<1>4. \A f \in Calls \ {m} : exec'[f] = exec[f] \/ call[f].pc \in Past
  BY <1>1
<1>5. CallMoves(m)
  BY <1>1 DEF CallMoves, Past, Unborn, Chat
<1>6. call'[m].pc \notin Unborn \cup {"starting"}
  BY <1>1 DEF Past, Unborn
<1> QED BY <1>1, <1>3, <1>4, <1>5, <1>6, CallerSound

LEMMA BeginSound == ASSUME PoolInv, NEW m \in Calls, NEW c \in Chats, NEW v \in Versions, Begin(m, c, v)
                    PROVE  Sound
<1> DEFINE next == [NoCall EXCEPT !.pc = "acquire", !.chat = c, !.version = v]
<1>1. /\ call \in [Calls -> CallRec] /\ raced \subseteq Chats /\ call[m].pc = "idle"
      /\ call' = [call EXCEPT ![m] = next] /\ raced' \in {raced, raced \cup {c}}
      /\ UNCHANGED <<exec, slot, pool, pending, subscribed, shuttingDown, strays, counts>>
  BY Types DEF Begin
<1>2. next \in CallRec /\ next.pc = "acquire" /\ next.chat = c
  BY DEF NoCall, CallRec, Acquiring
<1> HIDE DEF next
<1>3. /\ call' \in [Calls -> CallRec] /\ call'[m] = next
      /\ \A k \in Calls \ {m} : call'[k] = call[k]
  BY <1>1, <1>2
<1>4. CallMoves(m)
  BY <1>1, <1>2, <1>3 DEF CallMoves
<1>5. PoolFits
  BY <1>1, Unshrunk, ShrinksFits
<1>6. CallFrame
  BY <1>1, Types DEF CallFrame
<1> QED BY <1>1, <1>2, <1>3, <1>4, <1>5, <1>6, WaiterSound

\* A call that goes on to wait, or ends, without a change to anything else.
LEMMA MovesOn ==
    ASSUME PoolInv, NEW m \in Calls, call[m].pc # "idle", NEW next \in CallRec,
           call' = [call EXCEPT ![m] = next], next.chat = Chat(m),
           \/ next.pc = call[m].pc /\ next.on = call[m].on
           \/ next.pc \in Past
           \/ next.pc \in Unborn \ {"idle"} /\ call[m].pc \in Unborn /\ next.on \in Calls
              /\ Chat(next.on) = Chat(m),
           UNCHANGED <<exec, slot, pool, pending, subscribed, shuttingDown, raced, strays, counts>>,
           next.pc = "turn" => next.on \in Calls
    PROVE  Sound
<1>1. call \in [Calls -> CallRec]
  BY Types
<1>2. /\ call' \in [Calls -> CallRec] /\ call'[m] = next
      /\ \A k \in Calls \ {m} : call'[k] = call[k]
  BY <1>1
<1>3. CallMoves(m)
  BY <1>2 DEF CallMoves, Chat, Past, Unborn
<1>4. PoolFits
  BY Unshrunk, ShrinksFits
<1>5. CallFrame
  BY Types DEF CallFrame
<1>6. call'[m].pc = "starting" => call[m].pc = "starting"
  BY <1>2 DEF Past, Unborn
<1> QED BY <1>2, <1>3, <1>4, <1>5, <1>6, WaiterSound

LEMMA StopSound == ASSUME PoolInv, NEW m \in Calls, Stop(m) PROVE Sound
<1> DEFINE next == [call[m] EXCEPT !.stopped = TRUE]
<1>1. call[m] \in CallRec /\ call[m].pc # "idle"
  BY Types DEF Stop, Acquiring
<1>2. next \in CallRec /\ next.pc = call[m].pc /\ next.on = call[m].on /\ next.chat = Chat(m)
  BY <1>1 DEF CallRec, Chat
<1>3. call' = [call EXCEPT ![m] = next]
  BY DEF Stop
<1>4. next.pc = "turn" => next.on \in Calls
  BY <1>2 DEF PoolInv, LinkedCall
<1> HIDE DEF next
<1> QED BY <1>1, <1>2, <1>3, <1>4, MovesOn DEF Stop

\* acquire() ends with an error.
LEMMA RefusedSound ==
    ASSUME PoolInv, NEW m \in Calls, call[m].pc # "idle", call' = [call EXCEPT ![m] = Over(m)],
           UNCHANGED <<exec, slot, pool, pending, subscribed, shuttingDown, raced, strays, counts>>
    PROVE  Sound
<1>1. Over(m).pc # "turn" /\ Over(m).pc \in Past
  BY OverFacts DEF Past
<1> QED BY <1>1, OverFacts, MovesOn

LEMMA InspectSound ==
    ASSUME PoolInv, NEW m \in Calls, call[m].pc \in {"acquire", "pending"}, Inspect(m),
           UNCHANGED <<slot, shuttingDown, raced, strays>>
    PROVE  Sound
<1> DEFINE c == Chat(m)
           found == Entries(c) # {}
           s == Entry(c)
           e == ExecutorOf(c)
           healthy == exec[e].state = "ready"
           same == slot[s].version = call[m].version
           left == Without(pool, c)
<1>1. /\ call \in [Calls -> CallRec] /\ exec \in [Calls -> ExecRec] /\ slot \in [Calls -> SlotRec]
      /\ pool \in Seq(Calls) /\ Apart(pool) /\ Pooled = RangeOf(pool)
      /\ pending \in [Chats -> Calls \cup {None}]
      /\ subscribed \subseteq Chats /\ raced \subseteq Chats
      /\ counts \in [{"crash", "failure", "burst", "release"} -> Nat]
  BY Types DEF PoolInv
<1>2. c \in Chats /\ call[m].pc \in Unborn \ {"idle"} /\ call[m].pc # "idle"
  BY <1>1 DEF PoolInv, LinkedCall, CallRec, Chat, Unborn
<1>3. left \in Seq(Calls) /\ Apart(left) /\ RangeOf(left) = {t \in Pooled : Chat(t) # c}
  BY <1>1, WithoutFacts
<1>4. RangeOf(left) \subseteq Pooled
  BY <1>3
<1>5. found => /\ s \in Pooled /\ s \in Calls /\ Chat(s) = c /\ e = slot[s].exec /\ e \in Calls
               /\ Chat(e) = c /\ call[e].pc \in Past
  BY EntryFacts
<1>6. \/ /\ found /\ healthy
         /\ pool' = Append(left, s) /\ NextTurn(m, e, exec)
         /\ UNCHANGED <<pending, subscribed, counts>>
      \/ /\ found /\ healthy
         /\ pool' = left /\ subscribed' = subscribed \ {c} /\ exec' = WindDown({e})
         /\ pending' = [pending EXCEPT ![c] = e]
         /\ call' = [call EXCEPT ![m].pc = "release", ![m].on = e]
         /\ UNCHANGED counts
      \/ /\ found
         /\ call' = [call EXCEPT ![m].pc = "backoff", ![m].on = s]
         /\ UNCHANGED <<exec, pool, pending, subscribed, counts>>
      \/ /\ Create(m, left, subscribed \ {c}) \/ Create(m, left, subscribed)
         /\ UNCHANGED pending
      \/ Create(m, pool, subscribed) /\ UNCHANGED pending
  BY DEF Inspect
<1> HIDE DEF c, found, s, e, healthy, same, left
<1>7. CASE /\ found /\ healthy
           /\ pool' = Append(left, s) /\ NextTurn(m, e, exec)
           /\ UNCHANGED <<pending, subscribed, counts>>
  <2>1. /\ pool' \in Seq(Calls) /\ Apart(pool') /\ RangeOf(pool') = RangeOf(left) \cup {s}
    <3>1. \A t \in RangeOf(left) : Chat(t) # Chat(s)
      BY <1>3, <1>5, <1>7
    <3> QED BY <1>3, <1>5, <1>7, <3>1, AppendFacts
  <2>2. Shrinks
    BY <1>1, <1>4, <1>5, <1>7, <2>1 DEF Shrinks
  <2>3. CallFrame
    BY <1>1, <1>7 DEF CallFrame
  <2>4. \A f \in Calls : Keeps(exec[f], exec[f])
    BY SameKept
  <2> QED BY <1>1, <1>2, <1>5, <1>7, <2>2, <2>3, <2>4, ShrinksFits, TurnSound
<1>8. CASE /\ found /\ healthy
           /\ pool' = left /\ subscribed' = subscribed \ {c} /\ exec' = WindDown({e})
           /\ pending' = [pending EXCEPT ![c] = e]
           /\ call' = [call EXCEPT ![m].pc = "release", ![m].on = e]
           /\ UNCHANGED counts
  <2>1. /\ call' \in [Calls -> CallRec] /\ call'[m].pc = "release" /\ call'[m].on = e
        /\ call'[m].chat = call[m].chat /\ \A k \in Calls \ {m} : call'[k] = call[k]
    <3>1. "release" \in Acquiring
      BY DEF Acquiring
    <3> QED BY <1>1, <1>5, <1>8, <3>1, StageFacts
  <2>2. CallMoves(m)
    BY <1>2, <1>5, <1>8, <2>1 DEF CallMoves, Past, Unborn
  <2>3. Shrinks
    BY <1>1, <1>3, <1>4, <1>8 DEF Shrinks
  <2>4. CallFrame
    BY <1>1, <1>2, <1>5, <1>8 DEF CallFrame
  <2>5. /\ exec' \in [Calls -> ExecRec]
        /\ \A f \in Calls : /\ Softens(f) /\ (exec'[f] = exec[f] \/ call[f].pc \in Past)
                            /\ call[f].pc \in Unborn => exec'[f] = exec[f]
    BY <1>5, <1>8, WindDownFacts DEF Softens, Unborn, Past
  <2>6. \A f \in Calls : Keeps(exec[f], exec'[f]) /\ exec'[f].turn = exec[f].turn
    BY <2>5, SoftKept
  <2>7. call'[m].pc # "starting"
    BY <2>1
  <2> QED BY <1>2, <2>1, <2>2, <2>3, <2>4, <2>5, <2>6, <2>7, ShrinksFits, CallerSound
<1>9. CASE /\ found
           /\ call' = [call EXCEPT ![m].pc = "backoff", ![m].on = s]
           /\ UNCHANGED <<exec, pool, pending, subscribed, counts>>
  <2> DEFINE next == [call[m] EXCEPT !.pc = "backoff", !.on = s]
  <2>1. next \in CallRec /\ next.pc = "backoff" /\ next.on = s /\ next.chat = Chat(m)
    BY <1>1, <1>5, <1>9 DEF CallRec, Acquiring, Chat
  <2>2. call' = [call EXCEPT ![m] = next]
    BY <1>1, <1>9
  <2> HIDE DEF next
  <2>3. /\ next.pc \in Unborn \ {"idle"} /\ call[m].pc \in Unborn /\ next.on \in Calls
        /\ Chat(next.on) = Chat(m) /\ next.pc # "turn"
    BY <1>2, <1>5, <1>9, <2>1 DEF Unborn, c
  <2> QED BY <1>2, <1>9, <2>1, <2>2, <2>3, MovesOn
<1>10. CASE /\ Create(m, left, subscribed \ {c}) \/ Create(m, left, subscribed)
            /\ UNCHANGED pending
  <2>1. PICK subs \in SUBSET Chats : Create(m, left, subs)
    BY <1>1, <1>10
  <2> QED BY <1>1, <1>2, <1>3, <1>4, <1>10, <2>1, CreateSound
<1>11. CASE Create(m, pool, subscribed) /\ UNCHANGED pending
  BY <1>1, <1>2, <1>11, CreateSound
<1> QED BY <1>6, <1>7, <1>8, <1>9, <1>10, <1>11

LEMMA AcquireSound == ASSUME PoolInv, NEW m \in Calls, acquire(m) PROVE Sound
<1> DEFINE c == Chat(m)
           next == [call[m] EXCEPT !.pc = "pending", !.on = pending[c]]
<1>1. call \in [Calls -> CallRec] /\ call[m].pc = "acquire" /\ UNCHANGED <<slot, shuttingDown, raced, strays>>
  BY Types DEF acquire
<1>2. CASE /\ call' = [call EXCEPT ![m] = Over(m)]
           /\ UNCHANGED <<exec, pool, pending, subscribed, counts>>
  BY <1>1, <1>2, RefusedSound
<1>3. CASE /\ pending[c] # None
           /\ call' = [call EXCEPT ![m].pc = "pending", ![m].on = pending[c]]
           /\ UNCHANGED <<exec, pool, pending, subscribed, counts>>
  <2>1. c \in Chats
    BY <1>1 DEF PoolInv, LinkedCall, CallRec, Chat
  <2>2. pending[c] \in Calls
    BY <1>3, <2>1, Types
  <2>3. "pending" \in Acquiring
    BY DEF Acquiring
  <2>4. /\ call' \in [Calls -> CallRec] /\ \A k \in Calls \ {m} : call'[k] = call[k]
        /\ call'[m].pc = "pending" /\ call'[m].on \in Calls /\ call'[m].chat = call[m].chat
    BY <1>1, <1>3, <2>2, <2>3, StageFacts
  <2>5. CallMoves(m)
    BY <1>1, <2>4 DEF CallMoves, Past, Unborn
  <2>6. PoolFits /\ CallFrame
    BY <1>1, <1>3, Types, Unshrunk, ShrinksFits DEF CallFrame
  <2> QED BY <1>3, <2>4, <2>5, <2>6, WaiterSound
<1>4. CASE Inspect(m)
  BY <1>1, <1>4, InspectSound
<1> QED BY <1>2, <1>3, <1>4 DEF acquire, ReleaseInFlight

LEMMA WakeSound == ASSUME PoolInv, NEW m \in Calls, Wake(m) PROVE Sound
<1>1. /\ pool \in Seq(Calls) /\ Apart(pool) /\ RangeOf(pool) \subseteq Pooled /\ subscribed \subseteq Chats
      /\ slot \in [Calls -> SlotRec] /\ UNCHANGED <<slot, shuttingDown, raced, strays>>
  BY Types DEF Wake, PoolInv
<1>2. CASE call[m].pc = "pending" /\ Inspect(m)
  BY <1>1, <1>2, InspectSound
<1>3. CASE call[m].pc = "release" /\ Create(m, pool, subscribed) /\ UNCHANGED pending
  <2>1. call[m].pc \in Unborn \ {"idle"}
    BY <1>3 DEF Unborn
  <2> QED BY <1>1, <1>3, <2>1, CreateSound
<1> QED BY <1>2, <1>3 DEF Wake

LEMMA RespawnSound == ASSUME PoolInv, NEW m \in Calls, respawnCrashed(m) PROVE Sound
<1> DEFINE c == Chat(m)
           s == call[m].on
           tried == [slot[s] EXCEPT !.parked = FALSE, !.seen = FALSE, !.respawns = @ + 1,
                                    !.version = call[m].version]
           spent == tried.respawns >= MaxRespawns
           parked == [tried EXCEPT !.parked = ~spent]
<1>1. /\ call \in [Calls -> CallRec] /\ exec \in [Calls -> ExecRec] /\ slot \in [Calls -> SlotRec]
      /\ pool \in Seq(Calls) /\ Apart(pool) /\ Pooled = RangeOf(pool) /\ subscribed \subseteq Chats
  BY Types DEF PoolInv
<1>2. /\ call[m].pc = "backoff" /\ s \in Calls /\ Chat(s) = c /\ exec[m] = NoExec
      /\ UNCHANGED <<pending, shuttingDown, raced, strays>>
  BY PoolAssumption DEF respawnCrashed, PoolInv, LinkedCall, Unborn
<1>3. \/ /\ slot' = [slot EXCEPT ![s] = tried]
         /\ exec' = [exec EXCEPT ![m].state = "ready"]
         /\ call' = [call EXCEPT ![m].pc = "starting"]
         /\ UNCHANGED <<pool, subscribed, counts>>
      \/ /\ slot' = [slot EXCEPT ![s] = parked]
         /\ IF spent THEN Create(m, Without(pool, c), subscribed \ {c})
                     ELSE Create(m, pool, subscribed)
  BY DEF respawnCrashed
<1>4. tried \in SlotRec /\ parked \in SlotRec /\ tried.exec = slot[s].exec /\ parked.exec = slot[s].exec
  <2>1. slot[s] \in SlotRec /\ slot[s].respawns + 1 \in Nat /\ call[m].version \in Versions \cup {None}
    BY <1>1, <1>2 DEF SlotRec, CallRec
  <2>2. tried \in SlotRec /\ tried.exec = slot[s].exec
    BY <2>1 DEF SlotRec
  <2>3. (~spent) \in BOOLEAN
    OBVIOUS
  <2> HIDE DEF tried, spent
  <2> QED BY <2>2, <2>3 DEF SlotRec
<1> HIDE DEF c, s, tried, spent, parked
<1>5. \/ slot' = [slot EXCEPT ![s] = tried]
      \/ slot' = [slot EXCEPT ![s] = parked]
  BY <1>3
<1>6. slot' \in [Calls -> SlotRec] /\ \A t \in Calls : slot'[t].exec = slot[t].exec
  BY <1>1, <1>2, <1>4, <1>5
<1>7. CASE /\ slot' = [slot EXCEPT ![s] = tried]
           /\ exec' = [exec EXCEPT ![m].state = "ready"]
           /\ call' = [call EXCEPT ![m].pc = "starting"]
           /\ UNCHANGED <<pool, subscribed, counts>>
  <2>1. /\ call' \in [Calls -> CallRec] /\ call'[m].pc = "starting" /\ call'[m].on = call[m].on
        /\ call'[m].chat = call[m].chat /\ \A k \in Calls \ {m} : call'[k] = call[k]
    BY <1>1, <1>7 DEF CallRec, Acquiring
  <2>2. CallMoves(m)
    BY <1>2, <2>1 DEF CallMoves, Past, Unborn, c, s, Chat
  <2>3. PoolFits
    BY <1>1, <1>6, <1>7, ShrinksFits DEF Shrinks
  <2>4. CallFrame
    BY <1>2, <1>7, Types DEF CallFrame
  <2>5. /\ exec' \in [Calls -> ExecRec] /\ exec'[m] = [NoExec EXCEPT !.state = "ready"]
        /\ \A f \in Calls \ {m} : exec'[f] = exec[f]
    BY <1>1, <1>2, <1>7, BornType
  <2>6. \A f \in Calls : Keeps(exec[f], exec'[f]) /\ exec'[f].turn \in {exec[f].turn, None, Burst}
    BY <1>2, <2>5, BornKept, SameKept
  <2>7. exec'[m].state = "ready"
    BY <2>5 DEF NoExec
  <2>8. call'[m].pc \notin Unborn
    BY <2>1 DEF Unborn
  <2> QED BY <2>1, <2>2, <2>3, <2>4, <2>5, <2>6, <2>7, <2>8, CallerSound
<1>8. CASE IF spent THEN Create(m, Without(pool, c), subscribed \ {c})
                   ELSE Create(m, pool, subscribed)
  <2>1. call[m].pc \in Unborn \ {"idle"}
    BY <1>2 DEF Unborn
  <2>2. /\ Without(pool, c) \in Seq(Calls) /\ Apart(Without(pool, c))
        /\ RangeOf(Without(pool, c)) \subseteq Pooled
    BY <1>1, WithoutFacts
  <2>3. CASE Create(m, Without(pool, c), subscribed \ {c})
    <3>1. PICK subs \in SUBSET Chats : Create(m, Without(pool, c), subs)
      BY <1>1, <2>3
    <3> QED BY <1>2, <1>6, <2>1, <2>2, <3>1, CreateSound
  <2>4. CASE Create(m, pool, subscribed)
    BY <1>1, <1>2, <1>6, <2>1, <2>4, CreateSound
  <2> QED BY <1>8, <2>3, <2>4
<1> QED BY <1>3, <1>7, <1>8

LEMMA EnterSound == ASSUME PoolInv, NEW m \in Calls, Enter(m) PROVE Sound
<1> DEFINE c == Chat(m)
           s == call[m].on
           born == [NoSlot EXCEPT !.exec = m, !.version = call[m].version]
           ex == [exec EXCEPT ![m].heard = c \notin subscribed]
<1>1. /\ call \in [Calls -> CallRec] /\ exec \in [Calls -> ExecRec] /\ slot \in [Calls -> SlotRec]
      /\ pool \in Seq(Calls) /\ Apart(pool) /\ Pooled = RangeOf(pool) /\ subscribed \subseteq Chats
  BY Types DEF PoolInv
<1>2. /\ call[m].pc = "starting" /\ call[m].pc # "idle" /\ c \in Chats /\ c # None
      /\ UNCHANGED <<pending, shuttingDown, raced, strays, counts>>
  BY <1>1, PoolAssumption DEF Enter, PoolInv, LinkedCall, CallRec, Chat
<1>3. CallFrame
  BY <1>2, Types DEF CallFrame
<1>4. \A t \in Pooled : /\ t \in Calls /\ slot[t].exec \in Calls /\ Chat(slot[t].exec) = Chat(t)
                        /\ Chat(t) # None /\ call[slot[t].exec].pc \in Past
  BY PooledFacts, PoolAssumption
<1>5. \/ /\ s = None /\ slot' = [slot EXCEPT ![m] = born]
         /\ pool' = Put(pool, m) /\ subscribed' = subscribed \cup {c}
         /\ NextTurn(m, m, ex)
      \/ /\ s # None /\ slot' = [slot EXCEPT ![s].exec = m]
         /\ pool' = Append(Without(pool, c), s) /\ NextTurn(m, m, exec)
         /\ UNCHANGED subscribed
  BY DEF Enter
<1>6. s # None => s \in Calls /\ Chat(s) = c
  BY <1>1, <1>2 DEF PoolInv, LinkedCall, CallRec
<1>7. born \in SlotRec /\ born.exec = m
  BY <1>1 DEF NoSlot, SlotRec, CallRec
<1>8. /\ ex \in [Calls -> ExecRec] /\ \A f \in Calls \ {m} : ex[f] = exec[f]
      /\ Keeps(exec[m], ex[m]) /\ ex[m].turn = exec[m].turn
  <2> DEFINE b == c \notin subscribed
             x == exec[m]
             y == [x EXCEPT !.heard = b]
  <2>1. b \in BOOLEAN
    OBVIOUS
  <2> HIDE DEF b
  <2>2. x \in ExecRec /\ DrainsTurn(x)
    BY Types
  <2> HIDE DEF x
  <2>3. y \in ExecRec /\ DrainsTurn(y) /\ (Isolated(x) => Isolated(y)) /\ y.turn = x.turn
    BY <2>1, <2>2 DEF ExecRec, DrainsTurn, Isolated
  <2> HIDE DEF y
  <2>4. ex = [exec EXCEPT ![m] = y]
    BY DEF y, x, b
  <2> HIDE DEF ex
  <2> QED BY <1>1, <2>3, <2>4 DEF Keeps, x
<1> HIDE DEF c, s, born, ex
<1>9. CASE /\ s = None /\ slot' = [slot EXCEPT ![m] = born]
           /\ pool' = Put(pool, m) /\ subscribed' = subscribed \cup {c}
           /\ NextTurn(m, m, ex)
  <2>1. call'[m].pc \in Past
    BY <1>8, <1>9, NextTurnFacts
  <2>2. /\ pool' \in Seq(Calls) /\ Apart(pool')
        /\ RangeOf(pool') = {t \in Pooled : Chat(t) # c} \cup {m}
    BY <1>1, <1>9, PutFacts DEF c
  <2>3. /\ slot' \in [Calls -> SlotRec] /\ slot'[m].exec = m
        /\ \A t \in Calls \ {m} : slot'[t] = slot[t]
    BY <1>1, <1>7, <1>9
  <2>4. \A t \in RangeOf(pool') : slot'[t].exec \in Calls /\ Chat(slot'[t].exec) = Chat(t) /\ Chat(t) # None
    BY <1>2, <1>4, <2>2, <2>3 DEF c
  <2>5. subscribed' \subseteq Chats
    BY <1>1, <1>2, <1>9
  <2>6. PoolFits
    BY <2>1, <2>2, <2>3, <2>4, <2>5 DEF PoolFits
  <2>7. \A f \in Calls : Keeps(exec[f], ex[f]) /\ ex[f].turn = exec[f].turn
    BY <1>8, SameKept
  <2> QED BY <1>2, <1>3, <1>8, <1>9, <2>6, <2>7, TurnSound
<1>10. CASE /\ s # None /\ slot' = [slot EXCEPT ![s].exec = m]
            /\ pool' = Append(Without(pool, c), s) /\ NextTurn(m, m, exec)
            /\ UNCHANGED subscribed
  <2>1. call'[m].pc \in Past
    BY <1>1, <1>10, NextTurnFacts
  <2>2. /\ Without(pool, c) \in Seq(Calls) /\ Apart(Without(pool, c))
        /\ RangeOf(Without(pool, c)) = {t \in Pooled : Chat(t) # c}
    BY <1>1, WithoutFacts
  <2>3. /\ pool' \in Seq(Calls) /\ Apart(pool')
        /\ RangeOf(pool') = {t \in Pooled : Chat(t) # c} \cup {s}
    BY <1>6, <1>10, <2>2, AppendFacts
  <2>4. /\ slot' \in [Calls -> SlotRec] /\ slot'[s].exec = m
        /\ \A t \in Calls \ {s} : slot'[t] = slot[t]
    BY <1>1, <1>6, <1>10 DEF SlotRec
  <2>5. \A t \in RangeOf(pool') : slot'[t].exec \in Calls /\ Chat(slot'[t].exec) = Chat(t) /\ Chat(t) # None
    BY <1>2, <1>4, <1>6, <1>10, <2>3, <2>4 DEF c
  <2>6. PoolFits
    BY <1>1, <1>10, <2>1, <2>3, <2>4, <2>5 DEF PoolFits
  <2>7. \A f \in Calls : Keeps(exec[f], exec[f])
    BY SameKept
  <2> QED BY <1>1, <1>2, <1>3, <1>10, <2>6, <2>7, TurnSound
<1> QED BY <1>5, <1>9, <1>10

\* Executors that calls have had are shut down.
LEMMA WindSound ==
    ASSUME PoolInv, NEW E, \A e \in E : e \in Calls /\ call[e].pc \in Past, exec' = WindDown(E),
           Shrinks, pending' \in [Chats -> Calls \cup {None}], shuttingDown' \in BOOLEAN,
           counts' \in [{"crash", "failure", "burst", "release"} -> Nat],
           UNCHANGED <<call, raced, strays>>
    PROVE  Sound
<1>1. exec' \in [Calls -> ExecRec] /\ \A e \in Calls : Softens(e)
  BY WindDownFacts DEF Softens
<1>2. \A e \in Calls : Keeps(exec[e], exec'[e]) /\ exec'[e].turn = exec[e].turn
  BY <1>1, SoftKept
<1>3. \A k \in Calls : CallMoves(k)
  BY DEF CallMoves
<1>4. \A k \in Calls : call'[k].pc \notin Past => exec'[k] = exec[k]
  BY <1>1 DEF Softens
<1>5. TypesNext
  BY <1>1, <1>2, Types DEF TypesNext, Shrinks, Keeps
<1>6. /\ \A k \in Calls : call'[k].pc \in Unborn => exec'[k] = exec[k]
      /\ \A k \in Calls : call'[k].pc = "starting" => exec'[k].state = "ready"
  BY <1>4 DEF Unborn, Past, PoolInv, LinkedCall
<1>7. PoolInv'
  BY <1>2, <1>3, <1>5, <1>6, LinksKept DEF Shrinks
<1> QED BY <1>2, <1>7 DEF Sound

LEMMA ReleaseSound == ASSUME PoolInv, NEW c \in Chats, release(c) PROVE Sound
<1> DEFINE e == ExecutorOf(c)
<1>1. e \in Calls /\ call[e].pc \in Past
  BY EntryFacts DEF release
<1>2. /\ pool' = Without(pool, c) /\ subscribed' = subscribed \ {c} /\ exec' = WindDown({e})
      /\ \/ pending' = [pending EXCEPT ![c] = e]
         \/ pending' = [pending EXCEPT ![c] = None]
      /\ Count("release") /\ UNCHANGED <<call, slot, shuttingDown, raced, strays>>
  BY DEF release
<1> HIDE DEF e
<1>3. /\ pool \in Seq(Calls) /\ Apart(pool) /\ Pooled = RangeOf(pool) /\ subscribed \subseteq Chats
      /\ slot \in [Calls -> SlotRec] /\ pending \in [Chats -> Calls \cup {None}] /\ shuttingDown \in BOOLEAN
      /\ counts \in [{"crash", "failure", "burst", "release"} -> Nat]
  BY Types DEF PoolInv
<1>4. Shrinks
  BY <1>2, <1>3, WithoutFacts DEF Shrinks
<1>5. pending' \in [Chats -> Calls \cup {None}]
  BY <1>1, <1>2, <1>3
<1>6. counts' \in [{"crash", "failure", "burst", "release"} -> Nat]
  BY <1>2, <1>3 DEF Count
<1> QED BY <1>1, <1>2, <1>3, <1>4, <1>5, <1>6, WindSound

LEMMA ShutdownAllSound == ASSUME PoolInv, shutdownAll PROVE Sound
<1> DEFINE E == {slot[s].exec : s \in Pooled}
<1>1. \A e \in E : e \in Calls /\ call[e].pc \in Past
  BY PooledFacts
<1>2. /\ pool' = <<>> /\ exec' = WindDown(E) /\ shuttingDown' = TRUE
      /\ UNCHANGED <<call, slot, pending, subscribed, raced, strays, counts>>
  BY DEF shutdownAll
<1> HIDE DEF E
<1>3. pool' \in Seq(Calls) /\ Apart(pool') /\ RangeOf(pool') \subseteq Pooled
  BY <1>2 DEF Apart, RangeOf
<1>4. Shrinks
  BY <1>2, <1>3, Types DEF Shrinks
<1> QED BY <1>1, <1>2, <1>4, Types, WindSound

-----------------------------------------------------------------------------

LEMMA InitSound == Init => PoolInv /\ IsolationInv
<1> SUFFICES ASSUME Init PROVE PoolInv /\ IsolationInv
  OBVIOUS
<1>1. NoCall \in CallRec /\ NoSlot \in SlotRec /\ NoExec \in ExecRec
  BY BornType DEF NoCall, CallRec, NoSlot, SlotRec
<1>2. /\ call \in [Calls -> CallRec] /\ exec \in [Calls -> ExecRec] /\ slot \in [Calls -> SlotRec]
      /\ pool \in Seq(Calls) /\ Pooled = {}
      /\ \A m \in Calls : call[m] = NoCall /\ exec[m] = NoExec /\ slot[m] = NoSlot
  BY <1>1 DEF Init, Pooled
<1>3. /\ pending \in [Chats -> Calls \cup {None}] /\ subscribed \subseteq Chats /\ raced \subseteq Chats
      /\ shuttingDown \in BOOLEAN /\ strays = {}
      /\ counts \in [{"crash", "failure", "burst", "release"} -> Nat]
  <2>1. counts = [what \in {"crash", "failure", "burst", "release"} |-> 0]
    BY DEF Init
  <2>2. counts \in [{"crash", "failure", "burst", "release"} -> Nat]
    BY <2>1
  <2> QED BY <2>2 DEF Init
<1>4. TypeOK
  <2>1. \A e \in Calls : ~exec[e].drain /\ ~exec[e].timed
    BY <1>2, BornType
  <2>2. strays \subseteq Calls
    BY <1>3
  <2>3. \A s \in Pooled : slot[s].exec # None /\ Chat(slot[s].exec) = Chat(s)
    BY <1>2
  <2> QED BY ONLY <1>2, <1>3, <2>1, <2>2, <2>3 DEF TypeOK, CallRec, ExecRec, SlotRec
<1>5. \A m \in Calls : LinkedCall(m)
  BY <1>2 DEF LinkedCall, NoCall, Chat, Unborn
<1>6. HeldIsPast /\ TurnIsPast
  BY <1>2, PoolAssumption DEF HeldIsPast, TurnIsPast, NoSlot, NoExec
<1>7. Apart(pool)
  BY DEF Init, Apart
<1>8. \A e \in Calls : Isolated(exec[e])
  BY <1>2 DEF Isolated, NoExec
<1> QED BY <1>3, <1>4, <1>5, <1>6, <1>7, <1>8 DEF PoolInv, IsolationInv

\* Every step keeps the pool sound.
LEMMA StepSound == ASSUME PoolInv, [Next]_vars PROVE Sound
<1>1. ASSUME NEW m \in Calls, CallStep(m) PROVE Sound
  BY <1>1, BeginSound, StopSound, AcquireSound, WakeSound, RespawnSound, EnterSound, AbortSound DEF CallStep
<1>2. ASSUME NEW e \in Calls, ExecutorStep(e) PROVE Sound
  BY <1>2, BackgroundSettlesSound, BurstOpensSound, ResultSound, InterruptEndsSound,
     DrainTimeoutSound, CrashSound, StreamEndsSound, IdleTimeoutSound, ShutdownEndsSound DEF ExecutorStep
<1>3. ASSUME UNCHANGED vars PROVE Sound
  <2>1. PoolInv'
    BY <1>3 DEF vars, PoolInv, TypeOK, LinkedCall, HeldIsPast, TurnIsPast, Apart, Pooled, Chat
  <2>2. \A e \in Calls : Keeps(exec[e], exec'[e])
    BY <1>3, SameKept DEF vars
  <2> QED BY <2>1, <2>2 DEF Sound
<1> QED BY <1>1, <1>2, <1>3, ReleaseSound, ShutdownAllSound DEF Next

\* Only a result ends a turn, and it is the turn's own.
LEMMA StepIsolated == ASSUME IsolationInv, [Next]_vars PROVE IsolationInv'
<1>1. Sound
  BY StepSound DEF IsolationInv
<1>2. strays' = strays
  <2>1. ASSUME NEW m \in Calls, CallStep(m) PROVE strays' = strays
    BY <2>1 DEF CallStep, Begin, Stop, acquire, Wake, respawnCrashed, Enter, Abort
  <2>2. ASSUME NEW e \in Calls, ExecutorStep(e) PROVE strays' = strays
    BY <2>2, ResultIsolated DEF ExecutorStep, BackgroundSettles, BurstOpens, InterruptEnds,
       DrainTimeout, Crash, StreamEnds, IdleTimeout, ShutdownEnds
  <2> QED BY <2>1, <2>2 DEF Next, release, shutdownAll, vars
<1> QED BY <1>1, <1>2 DEF Sound, Keeps, IsolationInv

\* TypeOK for any number of calls, chats and versions: above all, every entry of the pool
\* has an executor of its chat, and only a turn in flight is drained.
THEOREM TypeOKHolds == Spec => []TypeOK
<1>1. Init => PoolInv
  BY InitSound
<1>2. PoolInv /\ [Next]_vars => PoolInv'
  BY StepSound DEF Sound
<1>3. PoolInv => TypeOK
  BY DEF PoolInv
<1> QED BY <1>1, <1>2, <1>3, PTL DEF Spec

\* TurnIsolation for any number of calls: the turn of a call is not ended by the result of
\* an earlier one, unless its executor has given up on a drain or a background task has
\* spoken up before the prompt was read.
THEOREM TurnIsolationHolds == Spec => []TurnIsolation
<1>1. Init => IsolationInv
  BY InitSound
<1>2. IsolationInv /\ [Next]_vars => IsolationInv'
  BY StepIsolated
<1>3. IsolationInv => TurnIsolation
  BY DEF IsolationInv, TurnIsolation
<1> QED BY <1>1, <1>2, <1>3, PTL DEF Spec

-----------------------------------------------------------------------------
(* One chat.                                                                *)

\* A step that gives the chat c no call, no executor and no entry: its calls stay where they
\* are or end, its executors may stop, and its entries leave only after their executor.
Untouched(c) ==
    /\ \A k \in Calls : call'[k].chat = c <=> Chat(k) = c
    /\ \A k \in Calls : Chat(k) = c =>
          \/ call'[k].pc = call[k].pc /\ call'[k].on = call[k].on
          \/ call'[k].pc \in Past
    /\ \A e \in Calls : Chat(e) = c /\ exec'[e].state = "ready" =>
          exec[e].state = "ready" /\ (call[e].pc = "starting" => call'[e].pc = "starting")
    /\ \A e \in Calls : exec[e].state = "closed" => exec'[e].state = "closed"
    /\ \A s \in RangeOf(pool') : Chat(s) = c => s \in Entries(c)
    /\ \A s \in Entries(c) : exec'[slot[s].exec].state = "ready" => s \in RangeOf(pool')
    /\ \A s \in Calls : Chat(s) = c =>
          /\ slot'[s].exec = slot[s].exec
          /\ slot'[s].parked =>
                slot[s].parked \/ (Quiet /\ exec'[slot[s].exec].state = "closed")
    /\ \/ pending'[c] = None
       \/ pending'[c] = pending[c] /\ exec'[pending[c]].state = "shutting_down"

LEMMA PooledNext == Pooled' = RangeOf(pool')
BY DEF Pooled, RangeOf

LEMMA SingleKept ==
    ASSUME PoolInv, PoolInv', NEW c \in Chats, Single(c), Untouched(c)
    PROVE  Single(c)'
<1>1. \A k \in Calls : call'[k].chat = c <=> Chat(k) = c
  BY DEF Untouched
<1>2. /\ Pooled' \subseteq Calls /\ Pooled \subseteq Calls
      /\ \A s \in Pooled : slot[s].exec \in Calls
      /\ \A m \in Calls : call[m].pc = "backoff" => call[m].on \in Calls /\ Chat(call[m].on) = Chat(m)
  <2>1. Pooled' \subseteq Calls
    BY PooledNext, LenProperties DEF PoolInv, TypeOK, RangeOf
  <2>2. \A m \in Calls : call[m].pc = "backoff" => call[m].on \in Calls /\ Chat(call[m].on) = Chat(m)
    BY PoolAssumption DEF PoolInv, LinkedCall
  <2> QED BY <2>1, <2>2, Types, PooledFacts
<1>3. /\ Entries(c)' \subseteq Entries(c)
      /\ \A s \in Entries(c) : exec'[slot[s].exec].state = "ready" => s \in Entries(c)'
  <2>1. Entries(c)' = {s \in RangeOf(pool') : call'[s].chat = c}
    BY PooledNext DEF Entries, Chat
  <2>2. \A s \in Entries(c) : s \in Calls /\ Chat(s) = c
    BY <1>2 DEF Entries
  <2>3. RangeOf(pool') \subseteq Calls
    BY <1>2, PooledNext
  <2> QED BY <1>1, <2>1, <2>2, <2>3 DEF Untouched
<1>4. Acquirers(c)' \subseteq Acquirers(c)
  BY <1>1 DEF Untouched, Acquirers, Acquiring, Past, Chat
<1>5. \A e \in Calls : call'[e].chat = c /\ exec'[e].state = "ready" =>
         call'[e].pc = "starting" \/ \E s \in Entries(c)' : slot'[s].exec = e
  <2> SUFFICES ASSUME NEW e \in Calls, Chat(e) = c, exec'[e].state = "ready", call'[e].pc # "starting"
               PROVE  \E s \in Entries(c)' : slot'[s].exec = e
    BY <1>1
  <2>1. PICK s \in Entries(c) : slot[s].exec = e
    BY DEF Untouched, Single
  <2>2. slot'[s].exec = slot[s].exec
    BY <1>2 DEF Untouched, Entries
  <2> QED BY <1>3, <2>1, <2>2
<1>6. ASSUME NEW m \in Calls, Chat(m) = c
      PROVE  Waits(m)'
  <2>1. CASE call'[m].pc \in Past
    BY <2>1 DEF Waits, Past
  <2>2. CASE call'[m].pc = call[m].pc /\ call'[m].on = call[m].on
    <3>1. Waits(m)
      BY <1>6 DEF Single
    <3>2. call'[m].chat = c
      BY <1>1, <1>6
    <3>3. call[m].pc = "starting" =>
            /\ pending'[c] = None
            /\ \A e \in Calls : call'[e].chat = c /\ exec'[e].state = "ready" => e = m
            /\ call[m].on # None => ~slot'[call[m].on].parked
      <4>1. call[m].pc = "starting" /\ call[m].on # None => call[m].on \in Calls /\ Chat(call[m].on) = c
        BY <1>6, Types DEF PoolInv, LinkedCall, CallRec
      <4> QED BY <1>1, <1>6, <3>1, <4>1 DEF Waits, Untouched, Quiet
    <3>4. call[m].pc \in {"pending", "release"} =>
            Entries(c)' = {} /\ pending'[c] \in {None, call[m].on}
      BY <1>3, <1>6, <3>1 DEF Waits, Untouched
    <3>5. call[m].pc = "backoff" =>
            /\ Entries(c)' \subseteq {call[m].on} /\ pending'[c] = None
            /\ slot'[call[m].on].exec \in Calls /\ exec'[slot'[call[m].on].exec].state = "closed"
      <4> SUFFICES ASSUME call[m].pc = "backoff"
                   PROVE  /\ Entries(c)' \subseteq {call[m].on} /\ pending'[c] = None
                          /\ slot'[call[m].on].exec \in Calls
                          /\ exec'[slot'[call[m].on].exec].state = "closed"
        OBVIOUS
      <4>1. /\ Entries(c) \subseteq {call[m].on} /\ pending[c] = None
            /\ slot[call[m].on].exec \in Calls /\ exec[slot[call[m].on].exec].state = "closed"
        BY <1>6, <3>1 DEF Waits
      <4>2. slot'[call[m].on].exec = slot[call[m].on].exec
        BY <1>2, <1>6 DEF Untouched
      <4> QED BY <1>3, <4>1, <4>2 DEF Untouched
    <3> QED BY <2>2, <3>2, <3>3, <3>4, <3>5 DEF Waits, Chat
  <2> QED BY <1>6, <2>1, <2>2 DEF Untouched
<1>7. pending'[c] # None => exec'[pending'[c]].state = "shutting_down" /\ Entries(c)' = {}
  BY <1>3 DEF Single, Untouched
<1>8. \A s \in Entries(c)' : slot'[s].parked => exec'[slot'[s].exec].state = "closed"
  <2> SUFFICES ASSUME NEW s \in Entries(c), slot'[s].parked
               PROVE  exec'[slot'[s].exec].state = "closed"
    BY <1>3
  <2>1. s \in Calls /\ Chat(s) = c /\ slot[s].exec \in Calls
    BY <1>2 DEF Entries
  <2> QED BY <2>1 DEF Untouched, Single
<1> QED BY <1>1, <1>4, <1>5, <1>6, <1>7, <1>8 DEF Single, Chat

LEMMA ChatsKept ==
    ASSUME PoolInv', \A k \in Calls : call'[k].chat = Chat(k), NEW c
    PROVE  Entries(c)' = {s \in RangeOf(pool') : Chat(s) = c}
<1>1. Entries(c)' = {s \in RangeOf(pool') : call'[s].chat = c}
  BY PooledNext DEF Entries, Chat
<1>2. RangeOf(pool') \subseteq Calls
  BY LenProperties DEF PoolInv, TypeOK, RangeOf
<1> QED BY <1>1, <1>2

\* A call that acquires is alone in its chat.
LEMMA Sole ==
    ASSUME PoolInv, NEW c \in Chats, Single(c), NEW m \in Calls, Chat(m) = c, call[m].pc \in Acquiring
    PROVE  \A k \in Calls \ {m} : Chat(k) = c => call[k].pc \in Past
<1> SUFFICES ASSUME NEW k \in Calls \ {m}, Chat(k) = c, call[k].pc \notin Past
             PROVE  FALSE
  OBVIOUS
<1>1. call[k] \in CallRec /\ LinkedCall(k)
  BY Types DEF PoolInv
<1>2. call[k].pc \in Acquiring
  BY <1>1, PoolAssumption DEF CallRec, LinkedCall, Past
<1> QED BY <1>2 DEF Single, Acquirers

\* The only call of the chat that acquires says it all.
LEMMA OwnSingle ==
    ASSUME PoolInv', NEW c \in Chats, NEW m \in Calls, call'[m].chat = c,
           \A k \in Calls \ {m} : call'[k].chat = c => call'[k].pc \in Past,
           Waits(m)',
           \A e \in Calls : call'[e].chat = c /\ exec'[e].state = "ready" =>
               call'[e].pc = "starting" \/ \E s \in Entries(c)' : slot'[s].exec = e,
           pending'[c] # None => exec'[pending'[c]].state = "shutting_down" /\ Entries(c)' = {},
           \A s \in Entries(c)' : slot'[s].parked => exec'[slot'[s].exec].state = "closed"
    PROVE  Single(c)'
<1>1. \A k \in Calls : call'[k].chat = c => Waits(k)'
  BY DEF Waits, Past
<1>2. Acquirers(c)' \subseteq {m}
  BY DEF Acquirers, Acquiring, Past, Chat
<1> QED BY <1>1, <1>2 DEF Single, Chat

\* The executor of e may stop, and does not start.
Cools(e) ==
    \/ exec'[e].state = exec[e].state
    \/ exec[e].state \in {"ready", "crashed"} /\ exec'[e].state = "shutting_down"

\* A step of the call m that leaves the chat c as it is, or ends m.
LEMMA CallUntouched ==
    ASSUME PoolInv, NEW c \in Chats, Single(c), NEW m \in Calls,
           \A k \in Calls \ {m} : call'[k] = call[k],
           \/ Chat(m) # c /\ call'[m].chat # c
           \/ /\ Chat(m) = c /\ call'[m].chat = c
              /\ \/ call'[m].pc \in Past /\ call[m].pc # "starting"
                 \/ call'[m].pc = call[m].pc /\ call'[m].on = call[m].on,
           \A e \in Calls \ {m} : Cools(e),
           Cools(m) \/ (exec[m].state = "none" /\ (Chat(m) # c \/ exec'[m].state # "ready")),
           \A s \in RangeOf(pool') : Chat(s) = c => s \in Pooled,
           \A s \in Entries(c) : exec'[slot[s].exec].state = "ready" => s \in RangeOf(pool'),
           \A s \in Calls : Chat(s) = c =>
               slot'[s].exec = slot[s].exec /\ (slot'[s].parked => slot[s].parked),
           pending'[c] = pending[c]
    PROVE  Untouched(c)
<1>1. \A k \in Calls : call'[k].chat = c <=> Chat(k) = c
  BY DEF Chat
<1>2. \A k \in Calls : Chat(k) = c =>
          \/ call'[k].pc = call[k].pc /\ call'[k].on = call[k].on
          \/ call'[k].pc \in Past
  OBVIOUS
<1>3. \A e \in Calls : Chat(e) = c /\ exec'[e].state = "ready" =>
          exec[e].state = "ready" /\ (call[e].pc = "starting" => call'[e].pc = "starting")
  BY DEF Cools
<1>4. \A e \in Calls : exec[e].state = "closed" => exec'[e].state = "closed"
  BY DEF Cools
<1>5. \A s \in RangeOf(pool') : Chat(s) = c => s \in Entries(c)
  BY DEF Entries
<1>6. pending[c] # None => exec'[pending[c]].state = "shutting_down"
  <2>1. pending[c] \in Calls \cup {None}
    BY Types
  <2> QED BY <2>1 DEF Single, Cools
<1> QED BY <1>1, <1>2, <1>3, <1>4, <1>5, <1>6 DEF Untouched

LEMMA SoftCools == ASSUME NEW e \in Calls, exec[e] \in ExecRec, Softens(e) PROVE Cools(e)
BY DEF Softens, Cools, ExecRec

LEMMA WindCools ==
    ASSUME PoolInv, NEW E, exec' = WindDown(E)
    PROVE  \A e \in Calls :
              /\ Cools(e)
              /\ e \notin E => exec'[e] = exec[e]
              /\ e \in E => exec'[e].state # "ready"
              /\ e \in E /\ exec[e].state \in {"ready", "crashed"} => exec'[e].state = "shutting_down"
<1> SUFFICES ASSUME NEW e \in Calls
             PROVE  /\ Cools(e)
                    /\ e \notin E => exec'[e] = exec[e]
                    /\ e \in E => exec'[e].state # "ready"
                    /\ e \in E /\ exec[e].state \in {"ready", "crashed"} => exec'[e].state = "shutting_down"
  OBVIOUS
<1>1. exec[e] \in ExecRec
  BY Types
<1>2. CASE e \in E /\ exec[e].state \in {"ready", "crashed"}
  <2>1. exec'[e] = [exec[e] EXCEPT !.state = "shutting_down"]
    BY <1>2, WindDownFacts
  <2>2. exec'[e].state = "shutting_down"
    BY <1>1, <2>1 DEF ExecRec
  <2> QED BY <1>2, <2>2 DEF Cools
<1>3. CASE ~(e \in E /\ exec[e].state \in {"ready", "crashed"})
  <2>1. exec'[e] = exec[e]
    BY <1>3, WindDownFacts
  <2> QED BY <1>3, <2>1 DEF Cools
<1> QED BY <1>2, <1>3

\* The chat of a call that creates its executor has no other, and no other chat gets one.
LEMMA CreateSingle ==
    ASSUME PoolInv, PoolInv', NEW c \in Chats, Single(c),
           NEW m \in Calls, call[m].pc \in Unborn \ {"idle"},
           NEW p \in Seq(Calls), Apart(p), RangeOf(p) \subseteq Pooled,
           NEW subs \in SUBSET Chats, Create(m, p, subs),
           \A s \in Calls : slot'[s].exec = slot[s].exec,
           \A s \in Calls : Chat(s) # Chat(m) => slot'[s] = slot[s],
           \A s \in Pooled : Chat(s) # Chat(m) => s \in RangeOf(p),
           UNCHANGED pending,
           Chat(m) = c =>
               /\ pending[c] = None
               /\ \A e \in Calls : Chat(e) = c => exec[e].state # "ready"
               /\ \A s \in RangeOf(p) : Chat(s) = c /\ slot'[s].parked => exec[slot[s].exec].state = "closed"
    PROVE  Single(c)'
<1>1. /\ RangeOf(pool') \subseteq RangeOf(p)
      /\ \A k \in Calls \ {m} : call'[k] = call[k] /\ Softens(k)
      /\ call'[m].chat = Chat(m) /\ Outcome(m)
      /\ \A s \in RangeOf(p) : exec'[slot[s].exec].state = "ready" => s \in RangeOf(pool')
  BY ONLY PoolInv, call[m].pc \in Unborn \ {"idle"}, Apart(p), RangeOf(p) \subseteq Pooled, Create(m, p, subs), CreateFacts
<1>2. exec[m] = NoExec /\ exec[m].state = "none"
  <2>1. exec[m] = NoExec
    BY ONLY PoolInv, call[m].pc \in Unborn \ {"idle"} DEF PoolInv, LinkedCall
  <2> QED BY ONLY <2>1 DEF NoExec
<1>3. \A e \in Calls \ {m} : Cools(e)
  BY <1>1, Types, SoftCools
<1>4. \A s \in Pooled : s \in Calls /\ slot[s].exec \in Calls /\ slot[s].exec # m
  BY PooledFacts DEF Unborn, Past
<1>5. CASE Chat(m) # c
  <2>1. \A s \in Entries(c) : s \in RangeOf(p)
    BY <1>5 DEF Entries
  <2>2. \A s \in Calls : Chat(s) = c =>
               slot'[s].exec = slot[s].exec /\ (slot'[s].parked => slot[s].parked)
    BY <1>5
  <2>3. Untouched(c)
    BY <1>1, <1>2, <1>3, <1>5, <2>1, <2>2, CallUntouched
  <2> QED BY <2>3, SingleKept
<1>6. CASE Chat(m) = c
  <2>1. call[m].pc \in Acquiring
    BY DEF Unborn, Acquiring
  <2>2. \A k \in Calls \ {m} : call'[k].chat = c => call'[k].pc \in Past
    BY <1>1, <1>6, <2>1, Sole DEF Chat
  <2>3. \A e \in Calls : call'[e].chat = c /\ exec'[e].state = "ready" => e = m
    BY <1>1, <1>3, <1>6 DEF Cools, Chat
  <2>4. Entries(c)' = {s \in RangeOf(pool') : Chat(s) = c}
    BY <1>1, ChatsKept DEF Chat
  <2>5. /\ call'[m].pc \in {"starting", "over"} /\ (call'[m].pc = "starting" => call'[m].on = None)
        /\ exec'[m].state = "ready" => call'[m].pc = "starting"
    BY <1>1 DEF Outcome, NoExec
  <2>6. Waits(m)'
    BY <1>1, <1>6, <2>3, <2>5 DEF Waits, Chat
  <2>7. \A s \in Entries(c)' : slot'[s].parked => exec'[slot'[s].exec].state = "closed"
    <3> SUFFICES ASSUME NEW s \in RangeOf(pool'), Chat(s) = c, slot'[s].parked
                 PROVE  exec'[slot'[s].exec].state = "closed"
      BY <2>4
    <3>1. s \in RangeOf(p) /\ s \in Calls /\ slot[s].exec \in Calls /\ slot[s].exec # m
      BY <1>1, <1>4
    <3>2. exec[slot[s].exec].state = "closed"
      BY <1>6, <3>1
    <3> QED BY <1>3, <3>1, <3>2 DEF Cools
  <2> QED BY <1>1, <1>6, <2>2, <2>3, <2>5, <2>6, <2>7, OwnSingle
<1> QED BY <1>5, <1>6

\* A step of one executor gives no chat an executor.
LEMMA ExecutorSingle ==
    ASSUME PoolInv, PoolInv', Quiet, NEW c \in Chats, Single(c), NEW e \in Calls,
           NEW E \in SUBSET ({exec[e].turn} \cap Calls), call' = Ended(E),
           NEW y, exec' = [exec EXCEPT ![e] = y],
           \/ y.state = exec[e].state
           \/ exec[e].state = "ready"
           \/ exec[e].state = "shutting_down" /\ y.state = "closed" /\ pending'[c] # e,
           \A s \in Calls : /\ slot'[s].exec = slot[s].exec
                            /\ slot'[s].parked => slot[s].parked \/ (slot[s].exec = e /\ y.state = "closed"),
           RangeOf(pool') \subseteq Pooled,
           \A s \in Pooled : s \in RangeOf(pool') \/ (slot[s].exec = e /\ y.state = "closed"),
           pending'[c] \in {pending[c], None}
    PROVE  Single(c)'
<1>1. /\ \A k \in Calls : \/ call'[k] = call[k]
                          \/ call'[k] = Over(k) /\ call[k].pc \in Past
      /\ \A k \in Calls : call'[k].chat = Chat(k)
      /\ \A k \in Calls : call[k].pc # "starting"
  BY EndedFacts DEF Quiet
<1>2. exec'[e] = y /\ \A f \in Calls \ {e} : exec'[f] = exec[f]
  BY Types
<1>3. \A k \in Calls : Chat(k) = c =>
          \/ call'[k].pc = call[k].pc /\ call'[k].on = call[k].on
          \/ call'[k].pc \in Past
  BY <1>1, OverFacts DEF Past
<1>4. /\ \A f \in Calls : exec'[f].state = "ready" => exec[f].state = "ready"
      /\ \A f \in Calls : exec[f].state = "closed" => exec'[f].state = "closed"
  BY <1>2
<1>5. \A s \in RangeOf(pool') : Chat(s) = c => s \in Entries(c)
  BY DEF Entries
<1>6. \A s \in Entries(c) : exec'[slot[s].exec].state = "ready" => s \in RangeOf(pool')
  BY <1>2 DEF Entries
<1>7. \A s \in Calls : slot'[s].parked => slot[s].parked \/ (Quiet /\ exec'[slot[s].exec].state = "closed")
  BY <1>2
<1>8. pending'[c] # None => exec'[pending[c]].state = "shutting_down"
  <2>1. pending[c] \in Calls \cup {None}
    BY Types
  <2> QED BY <1>2, <2>1 DEF Single
<1>9. Untouched(c)
  BY <1>1, <1>3, <1>4, <1>5, <1>6, <1>7, <1>8 DEF Untouched
<1> QED BY <1>9, SingleKept

\* A step on nothing but one executor that does not close it.
LEMMA AloneSingle ==
    ASSUME PoolInv, PoolInv', Quiet, NEW c \in Chats, Single(c), NEW e \in Calls,
           NEW y, exec' = [exec EXCEPT ![e] = y],
           y.state = exec[e].state \/ exec[e].state = "ready",
           UNCHANGED <<call, slot, pool, pending>>
    PROVE  Single(c)'
<1>1. call' = Ended({})
  BY NoneEnded
<1>2. RangeOf(pool') \subseteq Pooled /\ \A s \in Pooled : s \in RangeOf(pool')
  BY Types
<1> QED BY <1>1, <1>2, ExecutorSingle

LEMMA ExecutorStepSingle ==
    ASSUME PoolInv, PoolInv', NEW e \in Calls, ExecutorStep(e), NEW c \in Chats, Single(c)
    PROVE  Single(c)'
<1> DEFINE x == exec[e]
<1>1. exec \in [Calls -> ExecRec] /\ x \in ExecRec
  BY Types
<1>2. CASE BackgroundSettles(e)
  <2> DEFINE y == [x EXCEPT !.inbox = <<Burst>>]
  <2>1. exec' = [exec EXCEPT ![e] = y] /\ x.state = "ready" /\ Quiet /\ UNCHANGED <<call, slot, pool, pending>>
    BY <1>2 DEF BackgroundSettles
  <2> HIDE DEF y
  <2> QED BY <2>1, AloneSingle
<1>3. CASE BurstOpens(e)
  <2> DEFINE y == [x EXCEPT !.turn = Burst]
  <2>1. exec' = [exec EXCEPT ![e] = y] /\ Quiet /\ UNCHANGED <<call, slot, pool, pending>>
    BY <1>3 DEF BurstOpens
  <2>2. y.state = x.state
    BY <1>1 DEF ExecRec
  <2> HIDE DEF y
  <2> QED BY <2>1, <2>2, AloneSingle
<1>4. CASE Result(e)
  <2> DEFINE y == [x EXCEPT !.inbox = Tail(@), !.turn = None, !.drain = FALSE, !.timed = FALSE]
  <2>1. /\ exec' = [exec EXCEPT ![e] = y] /\ Quiet /\ UNCHANGED <<slot, pool, pending>>
        /\ (x.turn \in Calls /\ call' = Ended({x.turn})) \/ UNCHANGED call
    BY <1>4 DEF Result
  <2>2. y.state = x.state
    BY <1>1 DEF ExecRec
  <2> HIDE DEF y
  <2>3. PICK E \in SUBSET ({x.turn} \cap Calls) : call' = Ended(E)
    BY <2>1, NoneEnded
  <2>4. RangeOf(pool') \subseteq Pooled /\ \A s \in Pooled : s \in RangeOf(pool')
    BY <2>1, Types
  <2> QED BY <2>1, <2>2, <2>3, <2>4, ExecutorSingle
<1>5. CASE DrainTimeout(e)
  <2> DEFINE y == [x EXCEPT !.turn = None, !.drain = FALSE, !.timed = FALSE, !.mixed = TRUE]
  <2>1. exec' = [exec EXCEPT ![e] = y] /\ Quiet /\ UNCHANGED <<call, slot, pool, pending>>
    BY <1>5 DEF DrainTimeout
  <2>2. y.state = x.state
    BY <1>1 DEF ExecRec
  <2> HIDE DEF y
  <2> QED BY <2>1, <2>2, AloneSingle
<1>6. CASE Crash(e)
  <2>1. PICK y : CrashLeaves(e, y)
    BY <1>6, CrashFacts
  <2>2. Quiet /\ x.state = "ready" /\ call' = Ended(Lost(e)) /\ UNCHANGED pending
    BY <1>6 DEF Crash
  <2>3. Lost(e) \in SUBSET ({x.turn} \cap Calls)
    BY DEF Lost
  <2>4. /\ exec' = [exec EXCEPT ![e] = y] /\ RangeOf(pool') \subseteq Pooled
        /\ \A s \in Calls : /\ slot'[s].exec = slot[s].exec
                            /\ slot'[s].parked => slot[s].parked \/ (slot[s].exec = e /\ y.state = "closed")
        /\ \A s \in Pooled : s \in RangeOf(pool') \/ (slot[s].exec = e /\ y.state = "closed")
    BY <2>1 DEF CrashLeaves, Shrinks
  <2> QED BY <2>2, <2>3, <2>4, ExecutorSingle
<1>7. ASSUME Quiet, exec' = [exec EXCEPT ![e] = Dead(x)], UNCHANGED call, Closed(e, FALSE),
             \/ x.state = "ready"
             \/ x.state = "shutting_down" /\ pending'[c] # e,
             pending'[c] \in {pending[c], None}
      PROVE  Single(c)'
  <2>1. Dead(x).state = "closed"
    BY DEF Dead, NoExec
  <2>2. /\ RangeOf(pool') \subseteq Pooled /\ \A s \in Calls : slot'[s].exec = slot[s].exec
        /\ \A s \in Pooled : s \in RangeOf(pool') \/ slot[s].exec = e
        /\ \A s \in Calls : slot'[s].parked => slot[s].parked \/ slot[s].exec = e
    BY <1>7, ClosedFacts DEF Shrinks
  <2>3. call' = Ended({})
    BY <1>7, NoneEnded
  <2> QED BY <1>7, <2>1, <2>2, <2>3, ExecutorSingle
<1>8. CASE StreamEnds(e)
  BY <1>7, <1>8 DEF StreamEnds
<1>9. CASE IdleTimeout(e)
  <2> DEFINE y == [x EXCEPT !.state = "shutting_down"]
  <2>1. exec' = WindDown({e}) /\ x.state = "ready" /\ Quiet /\ UNCHANGED <<call, slot, pool, pending>>
    BY <1>9 DEF IdleTimeout
  <2>2. exec' = [exec EXCEPT ![e] = y]
    BY <1>1, <2>1 DEF WindDown
  <2> HIDE DEF y
  <2> QED BY <2>1, <2>2, AloneSingle
<1>10. CASE ShutdownEnds(e)
  <2>1. pending'[c] = IF pending[c] = e THEN None ELSE pending[c]
    BY <1>10 DEF ShutdownEnds
  <2>2. pending'[c] # e /\ pending'[c] \in {pending[c], None}
    BY <2>1, PoolAssumption
  <2> QED BY <1>7, <1>10, <2>2 DEF ShutdownEnds
<1>11. CASE InterruptEnds(e)
  <2> DEFINE y == [x EXCEPT !.timed = TRUE]
  <2>1. exec' = [exec EXCEPT ![e] = y] /\ Quiet /\ UNCHANGED <<call, slot, pool, pending>>
    BY <1>11 DEF InterruptEnds
  <2>2. y.state = x.state
    BY <1>1 DEF ExecRec
  <2> HIDE DEF y
  <2> QED BY <2>1, <2>2, AloneSingle
<1> QED BY <1>2, <1>3, <1>4, <1>5, <1>6, <1>8, <1>9, <1>10, <1>11 DEF ExecutorStep

LEMMA BeginSingle ==
    ASSUME PoolInv, PoolInv', NEW m \in Calls, NEW b \in Chats, NEW v \in Versions, Begin(m, b, v),
           NEW c \in Chats, c \notin raced', Single(c)
    PROVE  Single(c)'
<1> DEFINE next == [NoCall EXCEPT !.pc = "acquire", !.chat = b, !.version = v]
<1>1. /\ call \in [Calls -> CallRec] /\ call[m].pc = "idle" /\ Chat(m) = None
      /\ call' = [call EXCEPT ![m] = next]
      /\ UNCHANGED <<exec, slot, pool, pending>>
  BY Types DEF Begin, PoolInv, LinkedCall
<1>2. next.pc = "acquire" /\ next.chat = b
  BY DEF NoCall
<1> HIDE DEF next
<1>3. call'[m] = next /\ \A k \in Calls \ {m} : call'[k] = call[k]
  BY <1>1
<1>4. exec[m].state = "none" /\ \A e \in Calls : exec'[e].state = exec[e].state
  BY <1>1 DEF PoolInv, LinkedCall, Unborn, NoExec
<1>5. /\ \A s \in RangeOf(pool') : s \in Pooled
      /\ \A s \in Pooled : s \in RangeOf(pool') /\ s \in Calls \ {m}
  BY <1>1, Types, PooledFacts, PoolAssumption
<1>6. CASE b # c
  <2>1. Chat(m) # c /\ call'[m].chat # c
    BY <1>1, <1>2, <1>3, <1>6, PoolAssumption
  <2>2. Untouched(c)
    BY <1>1, <1>3, <1>4, <1>5, <2>1, CallUntouched DEF Cools, Entries
  <2> QED BY <2>2, SingleKept
<1>7. CASE b = c
  <2>1. \A k \in Calls \ {m} : call'[k].chat = c => call'[k].pc \in Past
    <3> SUFFICES ASSUME NEW k \in Calls \ {m}, Chat(k) = c
                 PROVE  call[k].pc \in Past
      BY <1>3 DEF Chat
    <3>1. call[k].pc \notin Acquiring
      BY <1>7 DEF Begin
    <3>2. call[k].pc # "idle" /\ call[k] \in CallRec
      BY <1>1, PoolAssumption DEF PoolInv, LinkedCall
    <3> QED BY <3>1, <3>2 DEF CallRec, Past
  <2>2. Entries(c)' = Entries(c)
    <3>1. Entries(c)' = {s \in RangeOf(pool') : call'[s].chat = c}
      BY PooledNext DEF Entries, Chat
    <3> QED BY <1>3, <1>5, <3>1 DEF Entries, Chat
  <2>3. \A e \in Calls : call'[e].chat = c /\ exec'[e].state = "ready" =>
            \E s \in Entries(c)' : slot'[s].exec = e
    <3> SUFFICES ASSUME NEW e \in Calls \ {m}, Chat(e) = c, exec[e].state = "ready"
                 PROVE  \E s \in Entries(c) : slot[s].exec = e
      BY <1>1, <1>3, <1>4, <2>2 DEF Chat
    <3>1. call[e].pc # "starting"
      BY <1>3, <2>1 DEF Chat, Past
    <3> QED BY <3>1 DEF Single
  <2>4. Waits(m)'
    BY <1>2, <1>3 DEF Waits
  <2>5. /\ pending'[c] # None => exec'[pending'[c]].state = "shutting_down" /\ Entries(c)' = {}
        /\ \A s \in Entries(c)' : slot'[s].parked => exec'[slot'[s].exec].state = "closed"
    BY <1>1, <2>2 DEF Single
  <2>6. call'[m].chat = c
    BY <1>2, <1>3, <1>7
  <2> QED BY <2>1, <2>3, <2>4, <2>5, <2>6, OwnSingle
<1> QED BY <1>6, <1>7

\* A call that ends, or goes on, without a change to the pool.
LEMMA MovesOnSingle ==
    ASSUME PoolInv, PoolInv', NEW m \in Calls, \A k \in Calls \ {m} : call'[k] = call[k],
           call'[m].chat = Chat(m),
           \/ call'[m].pc \in Past /\ call[m].pc # "starting"
           \/ call'[m].pc = call[m].pc /\ call'[m].on = call[m].on,
           \A e \in Calls : exec'[e].state = exec[e].state, UNCHANGED <<slot, pending>>,
           RangeOf(pool') = Pooled, NEW c \in Chats, Single(c)
    PROVE  Single(c)'
<1>1. \A e \in Calls : Cools(e)
  BY DEF Cools
<1>2. Untouched(c)
  BY <1>1, CallUntouched DEF Entries
<1> QED BY <1>2, SingleKept

\* A healthy executor of another version is released.
LEMMA ReplaceSingle ==
    ASSUME PoolInv, PoolInv', NEW m \in Calls, call[m].pc \in {"acquire", "pending"},
           NEW c \in Chats, Single(c), Entries(Chat(m)) # {},
           NEW e \in Calls, e = ExecutorOf(Chat(m)), exec[e].state = "ready",
           pool' = Without(pool, Chat(m)), exec' = WindDown({e}),
           pending' = [pending EXCEPT ![Chat(m)] = e],
           call' = [call EXCEPT ![m].pc = "release", ![m].on = e], UNCHANGED slot
    PROVE  Single(c)'
<1>1. /\ call \in [Calls -> CallRec] /\ exec \in [Calls -> ExecRec] /\ pending \in [Chats -> Calls \cup {None}]
      /\ pool \in Seq(Calls) /\ Apart(pool) /\ Pooled = RangeOf(pool) /\ Pooled \subseteq Calls
  BY Types DEF PoolInv
<1>2. /\ call'[m].pc = "release" /\ call'[m].on = e /\ call'[m].chat = Chat(m)
      /\ \A k \in Calls \ {m} : call'[k] = call[k]
      /\ \A k \in Calls : call'[k].chat = Chat(k)
  BY <1>1 DEF Chat
<1>3. RangeOf(pool') = {s \in Pooled : Chat(s) # Chat(m)}
  BY <1>1, WithoutFacts
<1>4. /\ \A f \in Calls : Cools(f)
      /\ \A f \in Calls \ {e} : exec'[f] = exec[f]
      /\ exec'[e].state = "shutting_down"
  BY WindCools
<1>5. /\ Chat(m) \in Chats /\ Chat(e) = Chat(m)
      /\ Entries(Chat(m)) = {Entry(Chat(m))} /\ e = slot[Entry(Chat(m))].exec
  BY EntryFacts, <1>1, PoolAssumption DEF PoolInv, LinkedCall, CallRec, Chat
<1>6. CASE Chat(m) # c
  <2>1. pending'[c] = pending[c] /\ call'[m].chat # c
    BY <1>1, <1>2, <1>6
  <2>2. Untouched(c)
    BY <1>2, <1>3, <1>4, <1>6, <2>1, CallUntouched DEF Entries
  <2> QED BY <2>2, SingleKept
<1>7. CASE Chat(m) = c
  <2>1. \A k \in Calls \ {m} : Chat(k) = c => call[k].pc \in Past
    <3>1. call[m].pc \in Acquiring
      BY DEF Acquiring
    <3> QED BY <1>7, <3>1, Sole
  <2>2. Entries(c)' = {}
    BY <1>2, <1>3, <1>7, ChatsKept
  <2>3. \A f \in Calls : Chat(f) = c => exec'[f].state # "ready"
    <3> SUFFICES ASSUME NEW f \in Calls \ {e}, Chat(f) = c, exec[f].state = "ready"
                 PROVE  FALSE
      BY <1>4
    <3>1. call[f].pc # "starting"
      BY <2>1 DEF Past
    <3>2. \E s \in Entries(c) : slot[s].exec = f
      BY <3>1 DEF Single
    <3> QED BY <1>5, <1>7, <3>2
  <2>4. pending'[c] = e
    BY <1>1, <1>7
  <2>5. Waits(m)'
    BY <1>2, <1>7, <2>2, <2>4 DEF Waits, Chat
  <2>6. \A k \in Calls \ {m} : call'[k].chat = c => call'[k].pc \in Past
    BY <1>2, <2>1
  <2>7. /\ \A f \in Calls : call'[f].chat = c => exec'[f].state # "ready"
        /\ call'[m].chat = c
    BY <1>2, <1>7, <2>3
  <2> QED BY <1>4, <2>2, <2>4, <2>5, <2>6, <2>7, OwnSingle
<1> QED BY <1>6, <1>7

\* As long as its only call waits, an executor of the chat is in the pool.
LEMMA NotReady ==
    ASSUME PoolInv, NEW c \in Chats, Single(c), NEW m \in Calls, Chat(m) = c,
           call[m].pc \in Unborn \ {"idle"},
           \A s \in Entries(c) : exec[slot[s].exec].state # "ready"
    PROVE  \A e \in Calls : Chat(e) = c => exec[e].state # "ready"
<1> SUFFICES ASSUME NEW e \in Calls, Chat(e) = c, exec[e].state = "ready"
             PROVE  FALSE
  OBVIOUS
<1>1. call[m].pc \in Acquiring /\ call[m].pc # "starting"
  BY DEF Unborn, Acquiring
<1>2. call[e].pc # "starting"
  BY <1>1, Sole DEF Past
<1>3. \E s \in Entries(c) : slot[s].exec = e
  BY <1>2 DEF Single
<1> QED BY <1>3

\* A call begins to wait.
LEMMA WaitSingle ==
    ASSUME PoolInv, PoolInv', NEW m \in Calls, call[m].pc \in Unborn \ {"idle"},
           \A k \in Calls \ {m} : call'[k] = call[k], call'[m].chat = Chat(m),
           UNCHANGED <<exec, slot, pool, pending>>,
           NEW c \in Chats, Single(c), Chat(m) = c => Waits(m)'
    PROVE  Single(c)'
<1>1. /\ \A s \in RangeOf(pool') : s \in Pooled
      /\ \A s \in Pooled : s \in RangeOf(pool')
  BY Types
<1>2. CASE Chat(m) # c
  <2>1. Untouched(c)
    BY <1>1, <1>2, CallUntouched DEF Cools, Entries
  <2> QED BY <2>1, SingleKept
<1>3. CASE Chat(m) = c
  <2>1. call[m].pc \in Acquiring /\ call[m].pc # "starting"
    BY DEF Unborn, Acquiring
  <2>2. \A k \in Calls \ {m} : Chat(k) = c => call[k].pc \in Past
    BY <1>3, <2>1, Sole
  <2>3. Entries(c)' = Entries(c)
    <3>1. Entries(c)' = {s \in RangeOf(pool') : Chat(s) = c}
      BY ChatsKept DEF Chat
    <3> QED BY <1>1, <3>1 DEF Entries
  <2>4. \A e \in Calls : call'[e].chat = c /\ exec'[e].state = "ready" =>
            \E s \in Entries(c)' : slot'[s].exec = e
    <3> SUFFICES ASSUME NEW e \in Calls, Chat(e) = c, exec[e].state = "ready"
                 PROVE  \E s \in Entries(c) : slot[s].exec = e
      BY <2>3 DEF Chat
    <3>1. call[e].pc # "starting"
      BY <2>1, <2>2 DEF Past
    <3> QED BY <3>1 DEF Single
  <2>5. /\ pending'[c] # None => exec'[pending'[c]].state = "shutting_down" /\ Entries(c)' = {}
        /\ \A s \in Entries(c)' : slot'[s].parked => exec'[slot'[s].exec].state = "closed"
    BY <2>3 DEF Single
  <2>6. \A k \in Calls \ {m} : call'[k].chat = c => call'[k].pc \in Past
    BY <2>2 DEF Chat
  <2> QED BY <1>3, <2>4, <2>5, <2>6, OwnSingle
<1> QED BY <1>2, <1>3

LEMMA InspectSingle ==
    ASSUME PoolInv, PoolInv', NEW m \in Calls, call[m].pc \in {"acquire", "pending"}, Inspect(m),
           UNCHANGED slot, NEW c \in Chats, Single(c), Chat(m) = c => pending[c] = None
    PROVE  Single(c)'
<1> DEFINE b == Chat(m)
           found == Entries(b) # {}
           s == Entry(b)
           e == ExecutorOf(b)
           healthy == exec[e].state = "ready"
           parked == slot[s].parked
           left == Without(pool, b)
<1>1. /\ call \in [Calls -> CallRec] /\ exec \in [Calls -> ExecRec]
      /\ pool \in Seq(Calls) /\ Apart(pool) /\ Pooled = RangeOf(pool) /\ subscribed \subseteq Chats
  BY Types DEF PoolInv
<1>2. call[m].pc \in Unborn \ {"idle"} /\ call[m].pc # "starting"
  BY DEF Unborn
<1>3. left \in Seq(Calls) /\ Apart(left) /\ RangeOf(left) = {t \in Pooled : Chat(t) # b}
  BY <1>1, WithoutFacts
<1>4. found => /\ s \in Pooled /\ s \in Calls /\ Chat(s) = b /\ e = slot[s].exec /\ e \in Calls
               /\ Entries(b) = {s}
  BY EntryFacts
<1>5. \/ /\ found /\ healthy
         /\ pool' = Append(left, s) /\ NextTurn(m, e, exec) /\ UNCHANGED pending
      \/ /\ found /\ healthy
         /\ pool' = left /\ exec' = WindDown({e}) /\ pending' = [pending EXCEPT ![b] = e]
         /\ call' = [call EXCEPT ![m].pc = "release", ![m].on = e]
      \/ /\ found /\ parked
         /\ call' = [call EXCEPT ![m].pc = "backoff", ![m].on = s]
         /\ UNCHANGED <<exec, pool, pending>>
      \/ /\ found /\ ~healthy
         /\ Create(m, left, subscribed \ {b}) \/ Create(m, left, subscribed)
         /\ UNCHANGED pending
      \/ ~found /\ Create(m, pool, subscribed) /\ UNCHANGED pending
  BY DEF Inspect
<1>6. \A t \in Pooled : Chat(t) = b => t \in Entries(b)
  BY DEF Entries
<1>7. CASE /\ found /\ healthy
           /\ pool' = Append(left, s) /\ NextTurn(m, e, exec) /\ UNCHANGED pending
  <2>1. RangeOf(pool') = RangeOf(left) \cup {s}
    <3>1. \A t \in RangeOf(left) : Chat(t) # Chat(s)
      BY <1>3, <1>4, <1>7
    <3> HIDE DEF left, s
    <3> QED BY <1>3, <1>4, <1>7, <3>1, AppendFacts
  <2>2. RangeOf(pool') = Pooled
    BY <1>3, <1>4, <1>6, <1>7, <2>1
  <2> HIDE DEF e, s, left
  <2>3. /\ \A f \in Calls : exec'[f].state = exec[f].state
        /\ \A k \in Calls \ {m} : call'[k] = call[k]
        /\ call'[m].chat = Chat(m) /\ call'[m].pc \in Past
    BY ONLY PoolInv, <1>1, <1>4, <1>7, NextTurnFacts
  <2> QED BY <1>2, <1>7, <2>2, <2>3, MovesOnSingle
<1>8. CASE /\ found /\ healthy
           /\ pool' = left /\ exec' = WindDown({e}) /\ pending' = [pending EXCEPT ![b] = e]
           /\ call' = [call EXCEPT ![m].pc = "release", ![m].on = e]
  BY <1>4, <1>8, ReplaceSingle
<1>9. CASE /\ found /\ parked
           /\ call' = [call EXCEPT ![m].pc = "backoff", ![m].on = s]
           /\ UNCHANGED <<exec, pool, pending>>
  <2>1. /\ call'[m].pc = "backoff" /\ call'[m].on = s /\ call'[m].chat = Chat(m)
        /\ \A k \in Calls \ {m} : call'[k] = call[k]
    BY <1>1, <1>9 DEF Chat
  <2>2. ASSUME Chat(m) = c PROVE Waits(m)'
    <3>1. Entries(c)' = Entries(c)
      <4>1. Entries(c)' = {t \in RangeOf(pool') : Chat(t) = c}
        BY <2>1, ChatsKept DEF Chat
      <4> QED BY <1>1, <1>9, <4>1 DEF Entries
    <3>2. pending[c] = None /\ exec[slot[s].exec].state = "closed"
      BY <1>4, <1>9, <2>2 DEF Single
    <3> QED BY <1>4, <1>9, <2>1, <2>2, <3>1, <3>2 DEF Waits, Chat
  <2> QED BY <1>2, <1>9, <2>1, <2>2, WaitSingle
<1>10. \A t \in Pooled : Chat(t) # Chat(m) => t \in RangeOf(left)
  BY <1>3
<1>11. CASE /\ found /\ ~healthy
            /\ Create(m, left, subscribed \ {b}) \/ Create(m, left, subscribed)
            /\ UNCHANGED pending
  <2>1. PICK subs \in SUBSET Chats : Create(m, left, subs)
    BY <1>1, <1>11
  <2>2. Chat(m) = c => \A f \in Calls : Chat(f) = c => exec[f].state # "ready"
    BY <1>2, <1>4, <1>11, NotReady
  <2>3. RangeOf(left) \subseteq Pooled /\ \A t \in RangeOf(left) : Chat(t) # Chat(m)
    BY <1>3
  <2> HIDE DEF left
  <2> QED BY <1>2, <1>3, <1>10, <1>11, <2>1, <2>2, <2>3, CreateSingle
<1>12. CASE ~found /\ Create(m, pool, subscribed) /\ UNCHANGED pending
  <2>1. Chat(m) = c => \A f \in Calls : Chat(f) = c => exec[f].state # "ready"
    BY <1>2, <1>12, NotReady
  <2>2. \A t \in RangeOf(pool) : Chat(t) # Chat(m)
    BY <1>1, <1>6, <1>12
  <2>3. PICK subs \in SUBSET Chats : Create(m, pool, subs)
    BY <1>1, <1>12
  <2> QED BY <1>1, <1>2, <1>12, <2>1, <2>2, <2>3, CreateSingle
<1> QED BY <1>5, <1>7, <1>8, <1>9, <1>11, <1>12

LEMMA StopSingle ==
    ASSUME PoolInv, PoolInv', NEW m \in Calls, Stop(m), NEW c \in Chats, Single(c)
    PROVE  Single(c)'
<1>1. /\ call'[m].pc = call[m].pc /\ call'[m].on = call[m].on /\ call'[m].chat = Chat(m)
      /\ \A k \in Calls \ {m} : call'[k] = call[k]
      /\ UNCHANGED <<exec, slot, pool, pending>>
  BY Types DEF Stop, CallRec, Chat
<1>2. RangeOf(pool') = Pooled
  BY <1>1, Types
<1> QED BY <1>1, <1>2, MovesOnSingle

LEMMA AbortSingle ==
    ASSUME PoolInv, PoolInv', NEW m \in Calls, Abort(m), NEW c \in Chats, Single(c)
    PROVE  Single(c)'
<1>1. /\ call \in [Calls -> CallRec] /\ exec \in [Calls -> ExecRec]
      /\ call' = [call EXCEPT ![m] = Over(m)] /\ call[m].pc = "turn"
      /\ exec' = [exec EXCEPT ![call[m].on] = Detached(@)]
      /\ UNCHANGED <<slot, pool, pending>>
  BY Types DEF Abort
<1>2. /\ call'[m].pc \in Past /\ call'[m].chat = Chat(m)
      /\ \A k \in Calls \ {m} : call'[k] = call[k]
  BY <1>1, OverFacts DEF Past
<1>3. \A e \in Calls : exec'[e].state = exec[e].state
  BY <1>1 DEF Detached, ExecRec
<1>4. RangeOf(pool') = Pooled
  BY <1>1, Types
<1> QED BY <1>1, <1>2, <1>3, <1>4, MovesOnSingle

LEMMA AcquireSingle ==
    ASSUME PoolInv, PoolInv', NEW m \in Calls, acquire(m), NEW c \in Chats, Single(c)
    PROVE  Single(c)'
<1> DEFINE b == Chat(m)
<1>1. /\ call \in [Calls -> CallRec] /\ call[m].pc = "acquire" /\ UNCHANGED slot
      /\ call[m].pc \in Unborn \ {"idle"} /\ call[m].pc # "starting"
      /\ RangeOf(pool) = Pooled
  BY Types DEF acquire, Unborn
<1>2. CASE /\ call' = [call EXCEPT ![m] = Over(m)]
           /\ UNCHANGED <<exec, pool, pending>>
  <2>1. /\ call'[m].pc \in Past /\ call'[m].chat = Chat(m)
        /\ \A k \in Calls \ {m} : call'[k] = call[k]
    BY <1>1, <1>2, OverFacts DEF Past
  <2> QED BY <1>1, <1>2, <2>1, MovesOnSingle
<1>3. CASE /\ ReleaseInFlight(b) # None
           /\ call' = [call EXCEPT ![m].pc = "pending", ![m].on = ReleaseInFlight(b)]
           /\ UNCHANGED <<exec, pool, pending>>
  <2>1. /\ call'[m].pc = "pending" /\ call'[m].on = pending[b] /\ call'[m].chat = Chat(m)
        /\ \A k \in Calls \ {m} : call'[k] = call[k]
    BY <1>1, <1>3 DEF ReleaseInFlight, CallRec, Chat
  <2>2. ASSUME Chat(m) = c PROVE Waits(m)'
    <3>1. Entries(c)' = Entries(c)
      <4>1. Entries(c)' = {t \in RangeOf(pool') : Chat(t) = c}
        BY <2>1, ChatsKept DEF Chat
      <4> QED BY <1>1, <1>3, <4>1 DEF Entries
    <3>2. Entries(c) = {}
      BY <1>3, <2>2 DEF Single, ReleaseInFlight
    <3> QED BY <1>3, <2>1, <2>2, <3>1, <3>2 DEF Waits, Chat
  <2> HIDE DEF b
  <2> QED BY <1>1, <1>3, <2>1, <2>2, WaitSingle
<1>4. CASE ReleaseInFlight(b) = None /\ Inspect(m)
  BY <1>1, <1>4, InspectSingle DEF ReleaseInFlight
<1> QED BY <1>2, <1>3, <1>4 DEF acquire

LEMMA WakeSingle ==
    ASSUME PoolInv, PoolInv', NEW m \in Calls, Wake(m), NEW c \in Chats, Single(c)
    PROVE  Single(c)'
<1>1. /\ call[m].pc \in {"pending", "release"} /\ call[m].on \in Calls
      /\ exec[call[m].on].state = "closed" /\ UNCHANGED slot
      /\ call[m].pc \in Unborn \ {"idle"}
      /\ pool \in Seq(Calls) /\ Apart(pool) /\ Pooled = RangeOf(pool) /\ subscribed \in SUBSET Chats
  BY Types DEF Wake, PoolInv, LinkedCall, Unborn
<1>2. Chat(m) = c => Entries(c) = {} /\ pending[c] = None
  BY <1>1 DEF Single, Waits
<1>3. CASE call[m].pc = "pending" /\ Inspect(m)
  BY <1>1, <1>2, <1>3, InspectSingle
<1>4. CASE Create(m, pool, subscribed) /\ UNCHANGED pending
  <2>1. Chat(m) = c => \A f \in Calls : Chat(f) = c => exec[f].state # "ready"
    BY <1>1, <1>2, NotReady
  <2>2. Chat(m) = c => \A s \in RangeOf(pool) : Chat(s) # c
    BY <1>1, <1>2 DEF Entries
  <2>3. PICK subs \in SUBSET Chats : Create(m, pool, subs)
    BY <1>1, <1>4
  <2> QED BY <1>1, <1>2, <1>4, <2>1, <2>2, <2>3, CreateSingle
<1> QED BY <1>3, <1>4 DEF Wake

LEMMA RespawnSingle ==
    ASSUME PoolInv, PoolInv', NEW m \in Calls, respawnCrashed(m), NEW c \in Chats, Single(c)
    PROVE  Single(c)'
<1> DEFINE b == Chat(m)
           s == call[m].on
           tried == [slot[s] EXCEPT !.parked = FALSE, !.seen = FALSE, !.respawns = @ + 1,
                                    !.version = call[m].version]
           spent == tried.respawns >= MaxRespawns
           parked == [tried EXCEPT !.parked = ~spent]
<1>1. /\ call \in [Calls -> CallRec] /\ exec \in [Calls -> ExecRec] /\ slot \in [Calls -> SlotRec]
      /\ pool \in Seq(Calls) /\ Apart(pool) /\ Pooled = RangeOf(pool) /\ subscribed \in SUBSET Chats
  BY Types DEF PoolInv
<1>2. /\ call[m].pc = "backoff" /\ s \in Calls /\ Chat(s) = b /\ exec[m] = NoExec
      /\ UNCHANGED pending
  BY PoolAssumption DEF respawnCrashed, PoolInv, LinkedCall, Unborn
<1>3. call[m].pc \in Unborn \ {"idle"} /\ call[m].pc \in Acquiring /\ call[m].pc # "starting"
  BY <1>2 DEF Unborn, Acquiring
<1>4. ASSUME Chat(m) = c
      PROVE  /\ Entries(c) \subseteq {s} /\ pending[c] = None
             /\ slot[s].exec \in Calls /\ exec[slot[s].exec].state = "closed"
             /\ \A e \in Calls : Chat(e) = c => exec[e].state # "ready"
  <2>1. /\ Entries(c) \subseteq {s} /\ pending[c] = None
        /\ slot[s].exec \in Calls /\ exec[slot[s].exec].state = "closed"
    BY <1>2, <1>4 DEF Single, Waits
  <2>2. \A t \in Entries(c) : exec[slot[t].exec].state # "ready"
    BY <2>1
  <2> QED BY <1>3, <1>4, <2>1, <2>2, NotReady
<1>5. tried.exec = slot[s].exec /\ parked.exec = slot[s].exec /\ ~tried.parked
  <2>1. slot[s] \in SlotRec
    BY <1>1, <1>2
  <2>2. tried.exec = slot[s].exec /\ ~tried.parked
    BY <2>1 DEF SlotRec
  <2>3. parked.exec = tried.exec
    OBVIOUS
  <2> QED BY <2>2, <2>3
<1>6. \/ /\ slot' = [slot EXCEPT ![s] = tried]
         /\ exec' = [exec EXCEPT ![m].state = "ready"]
         /\ call' = [call EXCEPT ![m].pc = "starting"]
         /\ UNCHANGED pool
      \/ /\ slot' = [slot EXCEPT ![s] = parked]
         /\ \/ Create(m, Without(pool, b), subscribed \ {b})
            \/ Create(m, pool, subscribed)
  BY DEF respawnCrashed
<1> HIDE DEF s, tried, spent, parked
<1>7. /\ \A t \in Calls : slot'[t].exec = slot[t].exec
      /\ \A t \in Calls : Chat(t) # Chat(m) => slot'[t] = slot[t]
  BY <1>1, <1>2, <1>5, <1>6
<1>8. CASE /\ slot' = [slot EXCEPT ![s] = tried]
           /\ exec' = [exec EXCEPT ![m].state = "ready"]
           /\ call' = [call EXCEPT ![m].pc = "starting"]
           /\ UNCHANGED pool
  <2>1. /\ call'[m].pc = "starting" /\ call'[m].on = s /\ call'[m].chat = Chat(m)
        /\ \A k \in Calls \ {m} : call'[k] = call[k]
    BY <1>1, <1>8 DEF CallRec, Chat, s
  <2>2. /\ exec'[m].state = "ready" /\ exec[m].state = "none"
        /\ \A f \in Calls \ {m} : exec'[f] = exec[f]
    BY <1>1, <1>2, <1>8 DEF NoExec
  <2>3. CASE Chat(m) # c
    <3>1. \A t \in RangeOf(pool') : t \in Pooled
      BY <1>1, <1>8
    <3>2. \A t \in Pooled : t \in RangeOf(pool')
      BY <1>1, <1>8
    <3>3. Untouched(c)
      BY <1>2, <1>7, <2>1, <2>2, <2>3, <3>1, <3>2, CallUntouched DEF Cools, Entries
    <3> QED BY <3>3, SingleKept
  <2>4. CASE Chat(m) = c
    <3>1. \A k \in Calls \ {m} : call'[k].chat = c => call'[k].pc \in Past
      BY <1>3, <2>1, <2>4, Sole DEF Chat
    <3>2. Entries(c)' \subseteq {s}
      <4>1. Entries(c)' = {t \in RangeOf(pool') : Chat(t) = c}
        BY <2>1, ChatsKept DEF Chat
      <4> QED BY <1>1, <1>4, <1>8, <2>4, <4>1 DEF Entries
    <3>3. \A e \in Calls : call'[e].chat = c /\ exec'[e].state = "ready" => e = m
      BY <1>4, <2>1, <2>2, <2>4 DEF Chat
    <3>4. slot'[s] = tried /\ ~slot'[s].parked
      BY <1>1, <1>2, <1>5, <1>8
    <3>5. Waits(m)'
      BY <1>2, <1>4, <2>1, <2>4, <3>3, <3>4 DEF Waits, Chat
    <3> QED BY <1>2, <1>4, <2>1, <2>4, <3>1, <3>2, <3>3, <3>4, <3>5, OwnSingle
  <2> QED BY <2>3, <2>4
<1>9. CASE /\ slot' = [slot EXCEPT ![s] = parked]
           /\ \/ Create(m, Without(pool, b), subscribed \ {b})
              \/ Create(m, pool, subscribed)
  <2>1. PICK p \in {pool, Without(pool, b)}, subs \in SUBSET Chats : Create(m, p, subs)
    BY <1>1, <1>9
  <2>2. /\ p \in Seq(Calls) /\ Apart(p) /\ RangeOf(p) \subseteq Pooled
        /\ \A t \in Pooled : Chat(t) # Chat(m) => t \in RangeOf(p)
    BY <1>1, <2>1, WithoutFacts
  <2>3. Chat(m) = c => \A t \in RangeOf(p) : Chat(t) = c => exec[slot[t].exec].state = "closed"
    BY <1>4, <2>2 DEF Entries
  <2> HIDE DEF b
  <2> QED BY <1>2, <1>3, <1>4, <1>7, <2>1, <2>2, <2>3, CreateSingle
<1> QED BY <1>6, <1>8, <1>9

\* The executor that a call has created enters the pool, and the chat has no other.
LEMMA EnterSingle ==
    ASSUME PoolInv, PoolInv', NEW m \in Calls, Enter(m), NEW c \in Chats, Single(c)
    PROVE  Single(c)'
<1> DEFINE b == Chat(m)
           s == call[m].on
           own == IF s = None THEN m ELSE s
           born == [NoSlot EXCEPT !.exec = m, !.version = call[m].version]
           ex == [exec EXCEPT ![m].heard = b \notin subscribed]
<1>1. /\ call \in [Calls -> CallRec] /\ exec \in [Calls -> ExecRec] /\ slot \in [Calls -> SlotRec]
      /\ pool \in Seq(Calls) /\ Apart(pool) /\ Pooled = RangeOf(pool)
  BY Types DEF PoolInv
<1>2. call[m].pc = "starting" /\ call[m].pc \in Acquiring /\ exec[m].state = "ready" /\ UNCHANGED pending
  BY DEF Enter, PoolInv, LinkedCall, Acquiring
<1>3. own \in Calls /\ Chat(own) = b /\ (s # None => s \in Calls)
  BY <1>1, <1>2 DEF PoolInv, LinkedCall, CallRec
<1>4. \/ /\ s = None /\ slot' = [slot EXCEPT ![m] = born]
         /\ pool' = Put(pool, m) /\ NextTurn(m, m, ex)
      \/ /\ s # None /\ slot' = [slot EXCEPT ![s].exec = m]
         /\ pool' = Append(Without(pool, b), s) /\ NextTurn(m, m, exec)
  BY DEF Enter
<1>5. ex \in [Calls -> ExecRec] /\ \A f \in Calls : ex[f].state = exec[f].state
  <2> DEFINE x == exec[m]
             h == b \notin subscribed
             y == [x EXCEPT !.heard = h]
  <2>1. h \in BOOLEAN /\ x \in ExecRec
    BY <1>1
  <2>2. ex = [exec EXCEPT ![m] = y]
    OBVIOUS
  <2> HIDE DEF h, x, ex
  <2>3. y \in ExecRec /\ y.state = x.state
    BY <2>1 DEF ExecRec
  <2> HIDE DEF y
  <2> QED BY <1>1, <2>2, <2>3 DEF x
<1>6. born.exec = m /\ ~born.parked
  BY DEF NoSlot
<1> HIDE DEF b, s, born, ex
<1>7. /\ \A f \in Calls : exec'[f].state = exec[f].state
      /\ \A k \in Calls \ {m} : call'[k] = call[k]
      /\ call'[m].chat = Chat(m) /\ call'[m].pc \in Past
  <2>1. CASE NextTurn(m, m, ex)
    BY <1>5, <2>1, NextTurnFacts
  <2>2. CASE NextTurn(m, m, exec)
    BY <1>1, <2>2, NextTurnFacts
  <2> QED BY <1>4, <2>1, <2>2
<1>8. RangeOf(pool') = {t \in Pooled : Chat(t) # b} \cup {own}
  <2>1. CASE s = None
    BY <1>1, <1>4, <2>1, PutFacts DEF b
  <2>2. CASE s # None
    <3>1. /\ Without(pool, b) \in Seq(Calls) /\ Apart(Without(pool, b))
          /\ RangeOf(Without(pool, b)) = {t \in Pooled : Chat(t) # b}
      BY <1>1, WithoutFacts
    <3> QED BY <1>3, <1>4, <2>2, <3>1, AppendFacts
  <2> QED BY <2>1, <2>2
<1>9. /\ \A t \in Calls \ {own} : slot'[t] = slot[t]
      /\ slot'[own].exec = m
      /\ slot'[own].parked => own = s /\ slot[s].parked
  <2>1. CASE s = None
    BY <1>1, <1>4, <1>6, <2>1
  <2>2. CASE s # None
    BY <1>1, <1>3, <1>4, <2>2 DEF SlotRec
  <2> QED BY <2>1, <2>2
<1> HIDE DEF own
<1>10. CASE b # c
  <2>1. Chat(m) # c /\ call'[m].chat # c
    BY <1>7, <1>10 DEF b
  <2>2. \A t \in RangeOf(pool') : Chat(t) = c => t \in Pooled
    BY <1>3, <1>8, <1>10
  <2>3. \A t \in Entries(c) : t \in RangeOf(pool')
    BY <1>8, <1>10 DEF Entries
  <2>4. \A t \in Calls : Chat(t) = c => slot'[t] = slot[t]
    BY <1>3, <1>9, <1>10
  <2>5. \A f \in Calls : Cools(f)
    BY <1>7 DEF Cools
  <2>6. Untouched(c)
    BY <1>2, <1>7, <2>1, <2>2, <2>3, <2>4, <2>5, CallUntouched
  <2> QED BY <2>6, SingleKept
<1>11. CASE b = c
  <2>1. \A k \in Calls \ {m} : call'[k].chat = c => call'[k].pc \in Past
    BY <1>2, <1>7, <1>11, Sole DEF b, Chat
  <2>2. Waits(m)
    BY <1>11 DEF Single, b
  <2>3. /\ pending[c] = None /\ (s # None => ~slot[s].parked)
        /\ \A e \in Calls : Chat(e) = c /\ exec[e].state = "ready" => e = m
    BY <1>2, <1>11, <2>2 DEF Waits, b, s
  <2>4. Entries(c)' = {own}
    <3>1. Entries(c)' = {t \in RangeOf(pool') : Chat(t) = c}
      BY <1>7, ChatsKept DEF Chat
    <3> QED BY <1>3, <1>8, <1>11, <3>1
  <2>5. Waits(m)'
    BY <1>7 DEF Waits, Past
  <2>6. ~slot'[own].parked
    BY <1>3, <1>9, <2>3, PoolAssumption
  <2>7. \A e \in Calls : call'[e].chat = c /\ exec'[e].state = "ready" => e = m
    BY <1>7, <2>3 DEF Chat
  <2>8. call'[m].chat = c
    BY <1>7, <1>11 DEF b
  <2> QED BY <1>2, <1>9, <2>1, <2>3, <2>4, <2>5, <2>6, <2>7, <2>8, OwnSingle
<1> QED BY <1>10, <1>11

\* No call is about to put its executor into the pool when one is released.
LEMMA ReleaseSingle ==
    ASSUME PoolInv, PoolInv', NEW b \in Chats, release(b), NEW c \in Chats, Single(c)
    PROVE  Single(c)'
<1> DEFINE e == ExecutorOf(b)
<1>1. /\ call \in [Calls -> CallRec] /\ exec \in [Calls -> ExecRec] /\ pending \in [Chats -> Calls \cup {None}]
      /\ pool \in Seq(Calls) /\ Apart(pool) /\ Pooled = RangeOf(pool) /\ Pooled \subseteq Calls
  BY Types DEF PoolInv
<1>2. /\ pool' = Without(pool, b) /\ exec' = WindDown({e}) /\ UNCHANGED <<call, slot>>
      /\ pending' = [pending EXCEPT ![b] = IF exec[e].state \in {"ready", "crashed"} THEN e ELSE None]
      /\ Quiet /\ Entries(b) # {}
  BY DEF release
<1>3. Entries(b) = {Entry(b)} /\ slot[Entry(b)].exec = e /\ e \in Calls
  BY <1>2, EntryFacts
<1> HIDE DEF e
<1>4. RangeOf(pool') = {s \in Pooled : Chat(s) # b}
  BY <1>1, <1>2, WithoutFacts
<1>5. \A f \in Calls : /\ Cools(f)
                       /\ f = e => exec'[f].state # "ready"
                       /\ f = e /\ exec[f].state \in {"ready", "crashed"} => exec'[f].state = "shutting_down"
  BY <1>2, WindCools
<1>6. /\ \A f \in Calls : exec'[f].state = "ready" => exec[f].state = "ready"
      /\ \A f \in Calls : exec[f].state = "closed" => exec'[f].state = "closed"
  BY <1>5 DEF Cools
<1>7. \/ pending'[c] = None
      \/ pending'[c] = pending[c] /\ c # b /\ exec'[pending[c]].state = "shutting_down"
      \/ c = b /\ exec'[pending'[c]].state = "shutting_down"
  <2>1. pending[c] \in Calls \cup {None}
    BY <1>1
  <2>2. CASE c = b
    BY <1>1, <1>2, <1>3, <1>5, <2>2
  <2>3. CASE c # b
    BY <1>1, <1>2, <1>5, <2>1, <2>3 DEF Single, Cools
  <2> QED BY <2>2, <2>3
<1>8. CASE c # b
  <2>1. \A s \in RangeOf(pool') : Chat(s) = c => s \in Entries(c)
    BY <1>4 DEF Entries
  <2>2. \A s \in Entries(c) : s \in RangeOf(pool')
    BY <1>4, <1>8 DEF Entries
  <2>3. Untouched(c)
    BY <1>2, <1>6, <1>7, <1>8, <2>1, <2>2 DEF Untouched, Chat
  <2> QED BY <2>3, SingleKept
<1>9. CASE c = b
  <2>1. Entries(c)' = {}
    <3>1. Entries(c)' = {s \in RangeOf(pool') : Chat(s) = c}
      BY <1>2, ChatsKept DEF Chat
    <3> QED BY <1>4, <1>9, <3>1
  <2>2. \A f \in Calls : call'[f].chat = c => exec'[f].state # "ready"
    <3> SUFFICES ASSUME NEW f \in Calls, Chat(f) = c, exec'[f].state = "ready"
                 PROVE  FALSE
      BY <1>2 DEF Chat
    <3>1. \E s \in Entries(c) : slot[s].exec = f
      BY <1>2, <1>6 DEF Single, Quiet
    <3> QED BY <1>3, <1>5, <1>9, <3>1
  <2>3. ASSUME NEW k \in Calls, Chat(k) = c
        PROVE  Waits(k)'
    <3>1. Waits(k) /\ call[k].pc # "starting"
      BY <1>2, <2>3 DEF Single, Quiet
    <3>2. call[k].pc \notin {"pending", "release"}
      BY <1>2, <1>9, <2>3, <3>1 DEF Waits
    <3>3. call[k].pc = "backoff" =>
            /\ pending'[c] = None
            /\ slot'[call[k].on].exec \in Calls /\ exec'[slot'[call[k].on].exec].state = "closed"
      <4> SUFFICES ASSUME call[k].pc = "backoff"
                   PROVE  /\ pending'[c] = None
                          /\ slot[call[k].on].exec \in Calls /\ exec'[slot[call[k].on].exec].state = "closed"
        BY <1>2
      <4>1. /\ Entries(c) \subseteq {call[k].on}
            /\ slot[call[k].on].exec \in Calls /\ exec[slot[call[k].on].exec].state = "closed"
        BY <2>3, <3>1 DEF Waits
      <4>2. exec[e].state = "closed"
        BY <1>3, <1>9, <4>1
      <4> QED BY <1>1, <1>2, <1>6, <1>9, <4>1, <4>2
    <3> QED BY <1>2, <2>1, <2>3, <3>1, <3>2, <3>3 DEF Waits, Chat
  <2>4. Acquirers(c)' = Acquirers(c)
    BY <1>2 DEF Acquirers, Chat
  <2>5. \A k \in Calls : call'[k].chat = c => Waits(k)'
    BY <1>2, <2>3 DEF Chat
  <2>6. pending'[c] # None => exec'[pending'[c]].state = "shutting_down"
    BY <1>7, <1>9
  <2> QED BY <2>1, <2>2, <2>4, <2>5, <2>6 DEF Single, Chat
<1> QED BY <1>8, <1>9

LEMMA ShutdownAllSingle ==
    ASSUME PoolInv, PoolInv', shutdownAll, NEW c \in Chats, Single(c)
    PROVE  Single(c)'
<1> DEFINE E == {slot[s].exec : s \in Pooled}
<1>1. pool' = <<>> /\ exec' = WindDown(E) /\ UNCHANGED <<call, slot, pending>>
  BY DEF shutdownAll
<1>2. \A s \in Entries(c) : slot[s].exec \in E /\ slot[s].exec \in Calls
  BY PooledFacts DEF Entries
<1> HIDE DEF E
<1>3. \A f \in Calls : Cools(f) /\ (f \in E => exec'[f].state # "ready")
  BY <1>1, WindCools
<1>4. /\ \A f \in Calls : exec'[f].state = "ready" => exec[f].state = "ready"
      /\ \A f \in Calls : exec[f].state = "closed" => exec'[f].state = "closed"
  BY <1>3 DEF Cools
<1>5. \/ pending'[c] = None
      \/ pending'[c] = pending[c] /\ exec'[pending[c]].state = "shutting_down"
  <2>1. pending[c] \in Calls \cup {None}
    BY Types
  <2> QED BY <1>1, <1>3, <2>1 DEF Single, Cools
<1>6. RangeOf(pool') = {}
  BY <1>1 DEF RangeOf
<1>7. \A s \in Entries(c) : exec'[slot[s].exec].state # "ready"
  BY <1>2, <1>3
<1>8. Untouched(c)
  BY <1>1, <1>4, <1>5, <1>6, <1>7 DEF Untouched, Chat
<1> QED BY <1>8, SingleKept

LEMMA InitSingle == Init => SingleInv
<1> SUFFICES ASSUME Init PROVE SingleInv
  OBVIOUS
<1>1. PoolInv
  BY InitSound
<1>2. /\ \A m \in Calls : call[m].pc = "idle" /\ Chat(m) = None /\ exec[m].state = "none"
      /\ Pooled = {} /\ \A c \in Chats : pending[c] = None
  BY DEF Init, NoCall, NoExec, Pooled, Chat
<1>3. ASSUME NEW c \in Chats PROVE Single(c)
  BY <1>2, PoolAssumption DEF Single, Acquirers, Acquiring, Waits, Entries
<1> QED BY <1>1, <1>3 DEF SingleInv

\* A chat whose calls do not race stays with one executor, whatever the others do.
LEMMA StepSingle == ASSUME SingleInv, [Next]_vars PROVE SingleInv'
<1>1. PoolInv /\ PoolInv'
  BY StepSound DEF Sound, SingleInv
<1>2. raced \subseteq raced'
  <2>1. ASSUME NEW m \in Calls, CallStep(m) PROVE raced \subseteq raced'
    BY <2>1 DEF CallStep, Begin, Stop, acquire, Wake, respawnCrashed, Enter, Abort
  <2>2. ASSUME NEW e \in Calls, ExecutorStep(e) PROVE raced' = raced
    BY <2>2 DEF ExecutorStep, BackgroundSettles, BurstOpens, Result, InterruptEnds, DrainTimeout,
       Crash, StreamEnds, IdleTimeout, ShutdownEnds
  <2> QED BY <2>1, <2>2 DEF Next, release, shutdownAll, vars
<1>3. ASSUME NEW c \in Chats \ raced' PROVE Single(c)'
  <2>1. Single(c) /\ c \in Chats /\ c \notin raced'
    BY <1>2 DEF SingleInv
  <2>2. ASSUME NEW m \in Calls, CallStep(m) PROVE Single(c)'
    BY ONLY <1>1, <2>1, <2>2, BeginSingle, StopSingle, AcquireSingle, WakeSingle, RespawnSingle,
       EnterSingle, AbortSingle DEF CallStep
  <2>3. ASSUME NEW e \in Calls, ExecutorStep(e) PROVE Single(c)'
    BY ONLY <1>1, <2>1, <2>3, ExecutorStepSingle
  <2>4. ASSUME NEW b \in Chats, release(b) PROVE Single(c)'
    BY ONLY <1>1, <2>1, <2>4, ReleaseSingle
  <2>5. CASE shutdownAll
    BY ONLY <1>1, <2>1, <2>5, ShutdownAllSingle
  <2>6. CASE UNCHANGED vars
    <3>1. UNCHANGED <<call, exec, slot, pool, pending>>
      BY <2>6 DEF vars
    <3>2. Untouched(c)
      BY <2>1, <3>1, <1>1, Types DEF Untouched, Entries, Chat, Single
    <3> QED BY ONLY <1>1, <2>1, <3>2, SingleKept
  <2> QED BY <2>2, <2>3, <2>4, <2>5, <2>6 DEF Next
<1> QED BY <1>1, <1>3 DEF SingleInv

\* OneExecutorPerChat for any number of calls and chats: unless two calls of the chat were
\* acquiring at once, acquire(), the respawn of a crashed entry and release() leave the chat
\* with one executor that takes turns at most, and with none while one is wound down.
THEOREM OneExecutorHolds == Spec => []OneExecutorPerChat
<1>1. SingleInv => OneExecutorPerChat
  <2> SUFFICES ASSUME PoolInv, NEW c \in Chats, Single(c)
               PROVE  LET ready == {e \in Calls : Chat(e) = c /\ exec[e].state = "ready"}
                      IN  Cardinality(ready) <= 1 /\ (pending[c] # None => ready = {})
    BY DEF SingleInv, OneExecutorPerChat
  <2> DEFINE ready == {e \in Calls : Chat(e) = c /\ exec[e].state = "ready"}
  <2>1. \A e \in ready : \/ call[e].pc = "starting" /\ pending[c] = None /\ ready = {e}
                         \/ \E s \in Entries(c) : slot[s].exec = e
    BY DEF Single, Waits
  <2>2. \A s, t \in Entries(c) : s = t
    BY PooledFacts DEF Entries
  <2>3. \A e, f \in ready : e = f
    BY <2>1, <2>2
  <2>4. pending[c] # None => ready = {}
    BY <2>1 DEF Single
  <2>5. ready = {} \/ \E e \in ready : ready = {e}
    BY <2>3
  <2> HIDE DEF ready
  <2>6. Cardinality(ready) \in {0, 1}
    BY <2>5, FS_EmptySet, FS_Singleton
  <2> QED BY <2>4, <2>6 DEF ready
<1>2. Init => SingleInv
  BY InitSingle
<1>3. SingleInv /\ [Next]_vars => SingleInv'
  BY StepSingle
<1> QED BY <1>1, <1>2, <1>3, PTL DEF Spec

=============================================================================
