------------------------- MODULE MessageBridgeProofs -------------------------
(***************************************************************************)
(* One chat of the message bridge, proved: however messages, API tasks,    *)
(* stops, timers and a quiesce interleave, one task has the chat, and a    *)
(* queue is never left behind an idle chat.  The three properties are      *)
(* inductive together; each rests on how a chat changes hands (Handover).  *)
(***************************************************************************)
EXTENDS MessageBridge, SequenceTheorems, TLAPS

Inv == TypeOK /\ OneTaskPerChat /\ QueueIsServed

\* A task is named by one of its messages.
LEMMA LeadIsMember == ASSUME NEW S, S # {} PROVE Lead(S) \in S
  BY DEF Lead

\* The head of a queue is a set of messages, and not empty.
LEMMA HeadIsWork ==
  ASSUME TypeOK, queue # <<>>
  PROVE  /\ Head(queue) \in SUBSET Message /\ Head(queue) # {}
         /\ Tail(queue) \in Seq(Work)
  BY DEF TypeOK, Work

\* What the history records keeps its type.
LEMMA FateType ==
  ASSUME TypeOK, NEW S, NEW f \in Fate, Become(S, f)
  PROVE  fate' \in [Message -> Fate]
  BY DEF TypeOK, Become, Fated

\* reserveTaskStart gives an idle chat to a task that exists; it is the only one there.
LEMMA Reservation ==
  ASSUME TypeOK, NEW S \in SUBSET Message, S # {},
         NEW ph \in [Message -> Phase],
         \A m \in Message : ph[m] \in {"setup", "streaming"} => m \in cancelled,
         Reserve(S, ph)
  PROVE  /\ starting' \in Message
         /\ phase' \in [Message -> Phase]
         /\ fate' \in [Message -> Fate]
         /\ \A m \in Message : phase'[m] \in {"setup", "streaming"} /\ m \notin cancelled
                                  => m = starting'
<1>1. Lead(S) \in Message
  BY LeadIsMember
<1>2. fate' \in [Message -> Fate]
  BY FateType DEF Reserve, Fate
<1> QED
  BY <1>1, <1>2 DEF Reserve, Phase

\* processQueue: the chat goes to the head of the queue, or it is idle and the queue is
\* empty, unless the bridge is quiesced.
LEMMA Handover ==
  ASSUME BridgeAssumption, TypeOK,
         NEW ph \in [Message -> Phase],
         \A m \in Message : ph[m] \in {"setup", "streaming"} => m \in cancelled,
         processQueue(ph)
  PROVE  /\ starting' \in Message \cup {None}
         /\ phase' \in [Message -> Phase]
         /\ fate' \in [Message -> Fate]
         /\ queue' \in Seq(Work)
         /\ stranded' \in BOOLEAN
         /\ starting' # None \/ quiesced \/ queue' = <<>>
         /\ \A m \in Message : phase'[m] \in {"setup", "streaming"} /\ m \notin cancelled
                                  => m = starting'
<1>1. CASE quiesced \/ queue = <<>>
  BY <1>1 DEF processQueue, TypeOK
<1>2. CASE ~(quiesced \/ queue = <<>>)
  <2>1. /\ Head(queue) \in SUBSET Message /\ Head(queue) # {}
        /\ Tail(queue) \in Seq(Work)
    BY <1>2, HeadIsWork
  <2>2. Reserve(Head(queue), ph) /\ queue' = Tail(queue) /\ stranded' = FALSE
    BY <1>2 DEF processQueue
  <2>3. /\ starting' \in Message /\ phase' \in [Message -> Phase] /\ fate' \in [Message -> Fate]
        /\ \A m \in Message : phase'[m] \in {"setup", "streaming"} /\ m \notin cancelled
                                 => m = starting'
    BY <2>1, <2>2, Reservation
  <2> QED
    BY <2>1, <2>2, <2>3 DEF BridgeAssumption
<1> QED
  BY <1>1, <1>2

\* An idle chat has no execution but those that were stopped.
LEMMA IdleIsQuiet ==
  ASSUME TypeOK, OneTaskPerChat, BridgeAssumption, ~isChatBusy
  PROVE  /\ starting = None /\ running = None
         /\ \A m \in Message : phase[m] \in {"setup", "streaming"} => m \in cancelled
  BY DEF OneTaskPerChat, isChatBusy, BridgeAssumption

LEMMA InitInv == BridgeAssumption /\ Init => Inv
<1> SUFFICES ASSUME BridgeAssumption, Init PROVE Inv
  OBVIOUS
<1>1. TypeOK
  <2>1. queue \in Seq(Work)
    BY EmptySeq DEF Init
  <2>2. {0} \subseteq 0..MaxQuestions \cap 0..MaxStops
    BY DEF BridgeAssumption
  <2> QED
    BY <2>1, <2>2 DEF Init, TypeOK, Phase, Fate
<1>2. OneTaskPerChat /\ QueueIsServed
  BY DEF Init, OneTaskPerChat, QueueIsServed
<1> QED
  BY <1>1, <1>2 DEF Inv

\* The chat and its executions are left alone.
Unmoved == UNCHANGED <<starting, running, phase, cancelled>>

\* Then one task keeps the chat.
LEMMA UnmovedOneTask ==
  ASSUME OneTaskPerChat, Unmoved PROVE OneTaskPerChat'
  BY DEF OneTaskPerChat, Unmoved

\* A message that starts nothing leaves the chat as it is, and queues only behind a task.
LEMMA ArrivesOnly ==
  ASSUME BridgeAssumption, Inv, NEW m \in Message,
         Refuse(m) \/ AnswerBetween(m) \/ AnswerQuestion(m) \/ QueueMessage(m) \/ BatchMedia(m)
  PROVE  Inv'
<1> USE DEF Inv
<1>1. CASE Refuse(m)
  <2>1. fate' \in [Message -> Fate]
    BY <1>1, FateType DEF Refuse, Fate
  <2> QED
    BY <1>1, <2>1, UnmovedOneTask DEF Refuse, TypeOK, QueueIsServed, isChatBusy, Unmoved
<1>2. CASE AnswerBetween(m)
  <2>1. fate' \in [Message -> Fate]
    BY <1>2, FateType DEF AnswerBetween, Fate
  <2>2. between' \in 0..MaxQuestions
    BY <1>2 DEF AnswerBetween, TypeOK, BridgeAssumption
  <2> QED
    BY <1>2, <2>1, <2>2, UnmovedOneTask
    DEF AnswerBetween, TypeOK, QueueIsServed, isChatBusy, Unmoved
<1>3. CASE AnswerQuestion(m)
  <2>1. fate' \in [Message -> Fate]
    BY <1>3, FateType DEF AnswerQuestion, Fate
  <2>2. question' \in 0..MaxQuestions
    BY <1>3 DEF AnswerQuestion, Asked, TypeOK, BridgeAssumption
  <2> QED
    BY <1>3, <2>1, <2>2, UnmovedOneTask
    DEF AnswerQuestion, TypeOK, QueueIsServed, isChatBusy, Unmoved
<1>4. CASE QueueMessage(m)
  <2>1. /\ fate' \in [Message -> Fate]
        /\ batch' \in SUBSET Media
        /\ queue' \in Seq(Work)
    <3>1. CASE m \in Media /\ batch # {}
      BY <1>4, <3>1, FateType DEF QueueMessage, Fate, TypeOK
    <3>2. CASE ~(m \in Media /\ batch # {})
      <4>1. batch \cup {m} \in Work
        BY DEF TypeOK, Message, Work
      <4>2. batch' = {} /\ Enqueue(batch \cup {m})
        BY <1>4, <3>2 DEF QueueMessage
      <4>3. fate' \in [Message -> Fate]
        BY <4>2, FateType DEF Enqueue, Fate
      <4>4. queue' \in Seq(Work)
        <5>1. queue \in Seq(Work) /\ batch \cup {m} \in Work
          BY <4>1 DEF TypeOK
        <5>2. queue' = queue \/ queue' = Append(queue, batch \cup {m})
          BY <4>2 DEF Enqueue
        <5>3. Append(queue, batch \cup {m}) \in Seq(Work)
          BY <5>1, AppendProperties
        <5> QED
          BY <5>1, <5>2, <5>3
      <4> QED
        BY <4>2, <4>3, <4>4
    <3> QED
      BY <3>1, <3>2
  <2> QED
    BY <1>4, <2>1, UnmovedOneTask
    DEF QueueMessage, TypeOK, QueueIsServed, isChatBusy, Unmoved
<1>5. CASE BatchMedia(m)
  <2>1. fate' \in [Message -> Fate]
    BY <1>5, FateType DEF BatchMedia, Fate
  <2> QED
    BY <1>5, <2>1, UnmovedOneTask DEF BatchMedia, TypeOK, QueueIsServed, isChatBusy, Unmoved
<1> QED
  BY <1>1, <1>2, <1>3, <1>4, <1>5

\* A start out of an idle chat.
LEMMA Starts ==
  ASSUME BridgeAssumption, Inv, ~isChatBusy,
         NEW S \in SUBSET Message, S # {}, Reserve(S, phase),
         queue' \in Seq(Work), batch' \in SUBSET Media,
         stranded' \in BOOLEAN, quiesced' \in BOOLEAN,
         UNCHANGED <<running, cancelled, question, between, stops>>
  PROVE  Inv'
<1>1. /\ starting = None /\ running = None
      /\ \A m \in Message : phase[m] \in {"setup", "streaming"} => m \in cancelled
  BY IdleIsQuiet DEF Inv
<1>2. /\ starting' \in Message /\ phase' \in [Message -> Phase] /\ fate' \in [Message -> Fate]
      /\ \A m \in Message : phase'[m] \in {"setup", "streaming"} /\ m \notin cancelled
                               => m = starting'
  BY <1>1, Reservation DEF Inv, TypeOK
<1>3. TypeOK'
  BY <1>2 DEF Inv, TypeOK
<1>4. OneTaskPerChat'
  BY <1>1, <1>2 DEF OneTaskPerChat
<1>5. QueueIsServed'
  BY <1>2 DEF QueueIsServed, isChatBusy, BridgeAssumption
<1> QED
  BY <1>3, <1>4, <1>5 DEF Inv

\* Everything that arrives, and the debounce timer.
LEMMA ArriveStep ==
  ASSUME BridgeAssumption, Inv, NEW m \in Message, Arrive(m) PROVE Inv'
<1>1. CASE StartMessage(m)
  <2>1. batch \cup {m} \in SUBSET Message /\ batch \cup {m} # {}
    BY DEF Inv, TypeOK, Message
  <2>2. /\ ~isChatBusy /\ Reserve(batch \cup {m}, phase) /\ batch' \in SUBSET Media
        /\ queue' \in Seq(Work)
        /\ stranded' \in BOOLEAN /\ quiesced' \in BOOLEAN
        /\ UNCHANGED <<running, cancelled, question, between, stops>>
    BY <1>1 DEF StartMessage, Plain, Inv, TypeOK
  <2> QED
    BY <2>1, <2>2, Starts
<1>2. CASE StartDirect(m)
  <2>1. /\ ~isChatBusy /\ Reserve({m}, phase) /\ batch' \in SUBSET Media
        /\ queue' \in Seq(Work)
        /\ stranded' \in BOOLEAN /\ quiesced' \in BOOLEAN
        /\ UNCHANGED <<running, cancelled, question, between, stops>>
    BY <1>2 DEF StartDirect, Inv, TypeOK
  <2> QED
    BY <2>1, Starts
<1> QED
  BY <1>1, <1>2, ArrivesOnly DEF Arrive

LEMMA FlushStep == ASSUME BridgeAssumption, Inv, flushBatch PROVE Inv'
<1>1. CASE isChatBusy /\ Len(queue) < MaxQueue /\ queue' = Append(queue, batch)
           /\ UNCHANGED <<starting, phase, fate>>
  <2>1. queue \in Seq(Work) /\ batch \in Work
    BY DEF flushBatch, Inv, TypeOK, Message, Work
  <2>2. queue' \in Seq(Work)
    BY <1>1, <2>1, AppendProperties
  <2>3. TypeOK'
    BY <1>1, <2>2 DEF flushBatch, Inv, TypeOK
  <2> QED
    BY <1>1, <2>3, UnmovedOneTask DEF flushBatch, Inv, QueueIsServed, isChatBusy, Unmoved
<1>2. CASE Become(batch, "dropped") /\ UNCHANGED <<starting, phase, queue>>
  <2>1. fate' \in [Message -> Fate]
    BY <1>2, FateType DEF Inv, Fate
  <2> QED
    BY <1>2, <2>1, UnmovedOneTask
    DEF flushBatch, Inv, TypeOK, QueueIsServed, isChatBusy, Unmoved
<1>3. CASE ~isChatBusy /\ ~quiesced /\ Reserve(batch, phase) /\ UNCHANGED queue
  <2>1. batch \in SUBSET Message /\ batch # {}
    BY DEF flushBatch, Inv, TypeOK, Message
  <2>2. /\ batch' \in SUBSET Media
        /\ queue' \in Seq(Work)
        /\ stranded' \in BOOLEAN /\ quiesced' \in BOOLEAN
        /\ UNCHANGED <<running, cancelled, question, between, stops>>
    BY <1>3 DEF flushBatch, Inv, TypeOK
  <2> QED
    BY <1>3, <2>1, <2>2, Starts
<1> QED
  BY <1>1, <1>2, <1>3 DEF flushBatch

-----------------------------------------------------------------------------
(* The executions.                                                          *)

\* The end of the execution that has the chat: by then nobody else is active.
LEMMA Released ==
  ASSUME BridgeAssumption, Inv, NEW m \in Message, m \in {starting, running},
         running' = None, processQueue(Gone(m)),
         question' \in 0..MaxQuestions,
         UNCHANGED <<cancelled, batch, between, quiesced, stops>>
  PROVE  Inv'
<1>1. Gone(m) \in [Message -> Phase]
  BY DEF Gone, Inv, TypeOK, Phase
<1>2. \A k \in Message : Gone(m)[k] \in {"setup", "streaming"} => k \in cancelled
  <2> SUFFICES ASSUME NEW k \in Message, Gone(m)[k] \in {"setup", "streaming"}
               PROVE  k \in cancelled
    OBVIOUS
  <2>1. k # m /\ phase[k] \in {"setup", "streaming"}
    BY DEF Gone, Inv, TypeOK
  <2>2. {starting, running} \subseteq {m, None} /\ k # None
    BY DEF Inv, OneTaskPerChat, BridgeAssumption
  <2> QED
    BY <2>1, <2>2 DEF Inv, OneTaskPerChat
<1>3. /\ starting' \in Message \cup {None}
      /\ phase' \in [Message -> Phase]
      /\ fate' \in [Message -> Fate]
      /\ queue' \in Seq(Work)
      /\ stranded' \in BOOLEAN
      /\ starting' # None \/ quiesced \/ queue' = <<>>
      /\ \A k \in Message : phase'[k] \in {"setup", "streaming"} /\ k \notin cancelled
                               => k = starting'
  BY <1>1, <1>2, Handover DEF Inv
<1>4. TypeOK'
  BY <1>3 DEF Inv, TypeOK
<1>5. OneTaskPerChat'
  BY <1>3 DEF OneTaskPerChat
<1>6. QueueIsServed'
  BY <1>3 DEF QueueIsServed, isChatBusy
<1> QED
  BY <1>4, <1>5, <1>6 DEF Inv

\* The end of an execution that has lost the chat: it hands nothing on.
LEMMA WoundDown ==
  ASSUME BridgeAssumption, Inv, NEW m \in Message, m \notin {starting, running} \/ phase[m] = "setup",
         phase' = Gone(m), m # starting,
         UNCHANGED <<starting, running, cancelled, queue, batch, question, between, quiesced,
                     fate, stranded, stops>>
  PROVE  Inv'
<1>1. TypeOK'
  BY DEF Inv, TypeOK, Gone, Phase
<1>2. OneTaskPerChat'
  BY DEF Inv, TypeOK, OneTaskPerChat, Gone
<1>3. QueueIsServed'
  BY DEF Inv, QueueIsServed, isChatBusy
<1> QED
  BY <1>1, <1>2, <1>3 DEF Inv

LEMMA ExecuteStep ==
  ASSUME BridgeAssumption, Inv, NEW m \in Message, Execute(m) PROVE Inv'
<1>1. CASE Register(m)
  <2>1. m # None /\ running = None
    BY <1>1 DEF Register, Inv, OneTaskPerChat, BridgeAssumption
  <2>2. TypeOK'
    BY <1>1 DEF Register, Inv, TypeOK, Phase, BridgeAssumption
  <2>3. OneTaskPerChat'
    BY <1>1, <2>1 DEF Register, Inv, TypeOK, OneTaskPerChat
  <2>4. QueueIsServed'
    BY <1>1, <2>1 DEF Register, QueueIsServed, isChatBusy
  <2> QED
    BY <2>2, <2>3, <2>4 DEF Inv
<1>2. CASE EndSetup(m)
  <2>1. CASE starting = m
    <3>1. running = None
      BY <2>1 DEF Inv, OneTaskPerChat, BridgeAssumption
    <3> QED
      BY <1>2, <2>1, <3>1, Released DEF EndSetup, Inv, TypeOK
  <2>2. CASE starting # m
    BY <1>2, <2>2, WoundDown DEF EndSetup
  <2> QED
    BY <2>1, <2>2
<1>3. CASE Ask(m)
  BY <1>3, UnmovedOneTask
  DEF Ask, Inv, TypeOK, QueueIsServed, isChatBusy, Unmoved, BridgeAssumption
<1>4. CASE Finish(m)
  <2>1. CASE OwnsChat(m)
    <3>1. running = m
      BY <2>1 DEF OwnsChat
    <3>2. question' \in 0..MaxQuestions
      BY <1>4, <2>1 DEF Finish, BridgeAssumption
    <3> QED
      BY <1>4, <2>1, <3>1, <3>2, Released DEF Finish
  <2>2. CASE ~OwnsChat(m)
    <3>1. running # m /\ phase' = Gone(m) /\ phase[m] = "streaming"
          /\ UNCHANGED <<starting, running, cancelled, queue, batch, question, between, quiesced,
                         fate, stranded, stops>>
      BY <1>4, <2>2 DEF Finish, OwnsChat
    <3>2. TypeOK'
      BY <3>1 DEF Inv, TypeOK, Gone, Phase
    <3>3. OneTaskPerChat' /\ QueueIsServed'
      BY <3>1 DEF Inv, TypeOK, OneTaskPerChat, QueueIsServed, isChatBusy, Gone
    <3> QED
      BY <3>2, <3>3 DEF Inv
  <2> QED
    BY <2>1, <2>2
<1> QED
  BY <1>1, <1>2, <1>3, <1>4 DEF Execute

-----------------------------------------------------------------------------
(* Stops and the quiesce.                                                   *)

\* stopTask leaves an idle chat whose executions have all been told to end.
LEMMA StopFrees ==
  ASSUME BridgeAssumption, Inv, stopTask, UNCHANGED phase
  PROVE  /\ starting' = None /\ running' = None
         /\ cancelled' \in SUBSET Message
         /\ question' \in 0..MaxQuestions /\ between' \in 0..MaxQuestions
         /\ OneTaskPerChat'
<1>1. starting' = None /\ running' = None
  BY DEF stopTask, Inv, OneTaskPerChat
<1>2. cancelled' = cancelled \cup ({starting, running} \ {None})
  BY DEF stopTask
<1>3. cancelled' \in SUBSET Message
  BY <1>2 DEF Inv, TypeOK
<1>4. question' \in 0..MaxQuestions /\ between' \in 0..MaxQuestions
  BY DEF stopTask, Inv, TypeOK, BridgeAssumption
<1>5. OneTaskPerChat'
  BY <1>1, <1>2 DEF Inv, OneTaskPerChat, BridgeAssumption
<1> QED
  BY <1>1, <1>3, <1>4, <1>5

LEMMA StopStep ==
  ASSUME BridgeAssumption, Inv, StopCommand \/ StopChatTask PROVE Inv'
<1>1. stops' \in 0..MaxStops
  BY DEF StopCommand, StopChatTask, CountStop, Inv, TypeOK, BridgeAssumption
<1>2. stopTask /\ UNCHANGED <<phase, batch, quiesced>>
  BY DEF StopCommand, StopChatTask
<1>3. /\ starting' = None /\ running' = None
      /\ cancelled' \in SUBSET Message
      /\ question' \in 0..MaxQuestions /\ between' \in 0..MaxQuestions
      /\ OneTaskPerChat'
  BY <1>2, StopFrees
<1>4. /\ fate' \in [Message -> Fate]
      /\ queue' \in Seq(Work)
      /\ stranded' \in BOOLEAN
      /\ queue' = <<>> \/ stranded'
  <2>1. CASE StopCommand
    <3>1. fate' \in [Message -> Fate]
      BY <2>1, FateType DEF StopCommand, ClearChatQueue, Fate, Inv
    <3>2. queue' = <<>> /\ stranded' = FALSE
      BY <2>1 DEF StopCommand, ClearChatQueue
    <3> QED
      BY <3>1, <3>2, EmptySeq
  <2>2. CASE StopChatTask
    BY <2>2 DEF StopChatTask, Inv, TypeOK
  <2> QED
    BY <2>1, <2>2
<1>5. TypeOK'
  BY <1>1, <1>2, <1>3, <1>4 DEF Inv, TypeOK
<1> QED
  BY <1>3, <1>4, <1>5 DEF Inv, QueueIsServed

LEMMA QuiesceStep ==
  ASSUME BridgeAssumption, Inv, beginRestartQuiesce \/ cancelRestartQuiesce PROVE Inv'
<1>1. CASE beginRestartQuiesce
  BY <1>1, UnmovedOneTask
  DEF beginRestartQuiesce, Inv, TypeOK, QueueIsServed, isChatBusy, Unmoved
<1>2. CASE cancelRestartQuiesce /\ Resumes
  <2>1. /\ Head(queue) \in SUBSET Message /\ Head(queue) # {}
        /\ Tail(queue) \in Seq(Work)
    BY <1>2, HeadIsWork DEF Resumes, Inv
  <2>2. /\ ~isChatBusy /\ Reserve(Head(queue), phase) /\ batch' \in SUBSET Media
        /\ queue' = Tail(queue)
        /\ stranded' \in BOOLEAN /\ quiesced' \in BOOLEAN
        /\ UNCHANGED <<running, cancelled, question, between, stops>>
    BY <1>2 DEF cancelRestartQuiesce, Resumes, Inv, TypeOK
  <2> QED
    BY <2>1, <2>2, Starts
<1>3. CASE cancelRestartQuiesce /\ ~Resumes
  BY <1>3, UnmovedOneTask
  DEF cancelRestartQuiesce, Resumes, Inv, TypeOK, QueueIsServed, isChatBusy, Unmoved
<1> QED
  BY <1>1, <1>2, <1>3

LEMMA TimerStep ==
  ASSUME BridgeAssumption, Inv,
         autoAnswerRemainingQuestions \/ OpenBetween \/ autoAnswerBetweenTurnQuestion
  PROVE  Inv'
<1>1. TypeOK'
  BY DEF autoAnswerRemainingQuestions, OpenBetween, autoAnswerBetweenTurnQuestion, Inv, TypeOK,
         BridgeAssumption
<1>2. OneTaskPerChat' /\ QueueIsServed'
  BY UnmovedOneTask
  DEF autoAnswerRemainingQuestions, OpenBetween, autoAnswerBetweenTurnQuestion, Inv,
      QueueIsServed, isChatBusy, Unmoved
<1> QED
  BY <1>1, <1>2 DEF Inv

LEMMA NextInv == BridgeAssumption /\ Inv /\ [Next]_vars => Inv'
<1> SUFFICES ASSUME BridgeAssumption, Inv, [Next]_vars PROVE Inv'
  OBVIOUS
<1>1. CASE Next
  BY <1>1, ArriveStep, ExecuteStep, FlushStep, TimerStep, StopStep, QuiesceStep DEF Next
<1>2. CASE UNCHANGED vars
  BY <1>2 DEF vars, Inv, TypeOK, OneTaskPerChat, QueueIsServed, isChatBusy
<1> QED
  BY <1>1, <1>2

THEOREM InvHolds == Spec => []Inv
<1>1. Init => Inv
  BY InitInv, BridgeAssumption
<1>2. Inv /\ [Next]_vars => Inv'
  BY NextInv, BridgeAssumption
<1> QED
  BY <1>1, <1>2, PTL DEF Spec

\* Every reachable state of a chat is well typed: the queue and the batch hold messages,
\* and no entry of the queue is empty.
THEOREM TypeOKHolds == Spec => []TypeOK
  BY InvHolds, PTL DEF Inv

\* At most one execution that nobody has stopped is under way in a chat, whatever order the
\* finally blocks of the stopped ones run in, for any messages and any number of stops.
THEOREM OneTaskHolds == Spec => []OneTaskPerChat
  BY InvHolds, PTL DEF Inv

\* A chat that is idle in a bridge that takes work has an empty queue, but for the queues
\* that stopChatTask leaves behind.
THEOREM QueueHolds == Spec => []QueueIsServed
  BY InvHolds, PTL DEF Inv
=============================================================================
