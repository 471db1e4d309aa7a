---------------------------- MODULE MessageBridge ----------------------------
(***************************************************************************)
(* One chat of the message bridge (message-bridge.ts): messages, API tasks *)
(* and commands compete for the chat; one task runs, text waits in a       *)
(* queue, media waits in a batch for what belongs to it, a question of the *)
(* task takes the next message as its answer.  A task is stopped at any    *)
(* moment while its executor winds down, and a controlled restart may      *)
(* quiesce the bridge.                                                     *)
(*                                                                         *)
(* Chats are independent but for the quiesce, so one is modelled.  A task  *)
(* is named by one of the messages it executes (Lead).                     *)
(***************************************************************************)
EXTENDS Naturals, Sequences, FiniteSets

CONSTANTS
    Text, Media,       \* chat messages: text, and images or files without a text
    Direct,            \* commands passed through to the engine, which no queue takes
    Api,               \* calls of executeApiTask
    None,
    MaxQueue,          \* MAX_QUEUE_SIZE
    MaxQuestions,      \* bound on the questions of one AskUserQuestion
    MaxStops           \* bound on the stops, by command or API

Message == Text \cup Media \cup Direct \cup Api

ASSUME BridgeAssumption ==
    /\ None \notin Message
    /\ MaxQueue \in Nat \ {0} /\ MaxQuestions \in Nat /\ MaxStops \in Nat
    /\ Text \cap (Media \cup Direct \cup Api) = {}
    /\ Media \cap (Direct \cup Api) = {}
    /\ Direct \cap Api = {}

VARIABLES
    starting,   \* startingTasks: the task that has the chat while it is set up
    running,    \* runningTasks: the task that has the chat and streams
    phase,      \* what each execution is doing: executeQuery or executeReservedApiTask
    cancelled,  \* executions that stopTask has told to end
    queue,      \* messageQueues: what to execute next, in order
    batch,      \* pendingBatches: media whose debounce timer runs
    question,   \* open questions of the running task
    between,    \* open questions of the executor outside of a turn
    quiesced,   \* restartQuiesceRequestId is set
    fate,       \* what became of each message (history)
    stranded,   \* stopChatTask has freed the chat and left its queue (history)
    stops

vars == <<starting, running, phase, cancelled, queue, batch, question, between, quiesced,
          fate, stranded, stops>>

Phase == {"none", "setup", "streaming", "over"}
\* pending: in the batch or the queue; told: refused with a notice or an error; cleared:
\* discarded by /stop or /reset; dropped: lost by flushBatch.
Fate == {"new", "pending", "started", "answer", "told", "cleared", "dropped"}

\* What an entry of the queue executes: one message, or several merged into one.
Work == (SUBSET Message) \ {{}}

\* Maps and lists hold messages that exist.
TypeOK ==
    /\ starting \in Message \cup {None} /\ running \in Message \cup {None}
    /\ phase \in [Message -> Phase] /\ cancelled \subseteq Message
    /\ queue \in Seq(Work) /\ batch \subseteq Media
    /\ question \in 0..MaxQuestions /\ between \in 0..MaxQuestions
    /\ quiesced \in BOOLEAN /\ stranded \in BOOLEAN
    /\ fate \in [Message -> Fate] /\ stops \in 0..MaxStops

Init ==
    /\ starting = None /\ running = None
    /\ phase = [m \in Message |-> "none"] /\ cancelled = {}
    /\ queue = <<>> /\ batch = {}
    /\ question = 0 /\ between = 0
    /\ quiesced = FALSE
    /\ fate = [m \in Message |-> "new"]
    /\ stranded = FALSE
    /\ stops = 0

-----------------------------------------------------------------------------

isChatBusy == starting # None \/ running # None

Lead(S) == CHOOSE m \in S : TRUE
Fated(S, f) == [m \in Message |-> IF m \in S THEN f ELSE fate[m]]
Become(S, f) == fate' = Fated(S, f)

\* reserveTaskStart for the messages S, after `ph` has become of the executions.
Reserve(S, ph) ==
    /\ starting' = Lead(S)
    /\ phase' = [ph EXCEPT ![Lead(S)] = "setup"]
    /\ Become(S, "started")

\* The chat has been freed: the next of the queue takes it (processQueue).
processQueue(ph) ==
    IF quiesced \/ queue = <<>>
    THEN starting' = None /\ phase' = ph /\ UNCHANGED <<queue, fate, stranded>>
    ELSE Reserve(Head(queue), ph) /\ queue' = Tail(queue) /\ stranded' = FALSE

\* A message goes to the end of the queue, or is refused with a notice.
Enqueue(S) ==
    \/ /\ Len(queue) < MaxQueue
       /\ queue' = Append(queue, S)
       /\ Become(S, "pending")
    \/ /\ Len(queue) >= MaxQueue
       /\ Become(S, "told")
       /\ UNCHANGED queue

-----------------------------------------------------------------------------
(* What arrives (handleMessage, executeApiTask).                            *)

New(m) == fate[m] = "new"

\* Refused while a restart is prepared, or, if no queue takes it, while the chat is busy.
Refuse(m) ==
    /\ New(m)
    /\ quiesced \/ (m \in Direct \cup Api /\ isChatBusy)
    /\ Become({m}, "told")
    /\ UNCHANGED <<starting, running, phase, cancelled, queue, batch, question, between,
                   quiesced, stranded, stops>>

\* A reply to a question from outside of a turn.  A file's default text is taken for the
\* answer, that of an image too where the platform gives it one; else it is refused.
AnswerBetween(m) ==
    /\ New(m) /\ m \in Text \cup Media
    /\ ~quiesced /\ between > 0
    /\ \/ between' = between - 1 /\ Become({m}, "answer")
       \/ m \in Media /\ Become({m}, "told") /\ UNCHANGED between
    /\ UNCHANGED <<starting, running, phase, cancelled, queue, batch, question, quiesced,
                   stranded, stops>>

\* A reply to the running task's question; an image is refused, a file is an answer.
Asked == running # None /\ question > 0

AnswerQuestion(m) ==
    /\ New(m) /\ m \in Text \cup Media
    /\ ~quiesced /\ between = 0 /\ Asked
    /\ \/ question' = question - 1 /\ Become({m}, "answer")
       \/ m \in Media /\ Become({m}, "told") /\ UNCHANGED question
    /\ UNCHANGED <<starting, running, phase, cancelled, queue, batch, between, quiesced,
                   stranded, stops>>

\* Nothing has taken the message so far.
Plain(m) == New(m) /\ m \in Text \cup Media /\ ~quiesced /\ between = 0 /\ ~Asked

\* Text takes the waiting media along; more media joins them.
QueueMessage(m) ==
    /\ Plain(m) /\ isChatBusy
    /\ IF m \in Media /\ batch # {}
       THEN batch' = batch \cup {m} /\ Become({m}, "pending") /\ UNCHANGED queue
       ELSE batch' = {} /\ Enqueue(batch \cup {m})
    /\ UNCHANGED <<starting, running, phase, cancelled, question, between, quiesced,
                   stranded, stops>>

BatchMedia(m) ==
    /\ Plain(m) /\ m \in Media /\ ~isChatBusy
    /\ batch' = batch \cup {m}
    /\ Become({m}, "pending")
    /\ UNCHANGED <<starting, running, phase, cancelled, queue, question, between, quiesced,
                   stranded, stops>>

\* startQuery: with what was batched, if it is text.
StartMessage(m) ==
    /\ Plain(m) /\ m \in Text /\ ~isChatBusy
    /\ batch' = {}
    /\ Reserve(batch \cup {m}, phase)
    /\ UNCHANGED <<running, cancelled, queue, question, between, quiesced, stranded, stops>>

StartDirect(m) ==
    /\ New(m) /\ m \in Direct \cup Api
    /\ ~quiesced /\ ~isChatBusy
    /\ Reserve({m}, phase)
    /\ UNCHANGED <<running, cancelled, queue, batch, question, between, quiesced, stranded, stops>>

\* The debounce timer.  A full queue, or a bridge that is quiesced and idle, loses the
\* batch: nobody is told.
flushBatch ==
    /\ batch # {}
    /\ batch' = {}
    /\ \/ /\ isChatBusy /\ Len(queue) < MaxQueue
          /\ queue' = Append(queue, batch)
          /\ UNCHANGED <<starting, phase, fate>>
       \/ /\ IF isChatBusy THEN Len(queue) >= MaxQueue ELSE quiesced
          /\ Become(batch, "dropped")
          /\ UNCHANGED <<starting, phase, queue>>
       \/ /\ ~isChatBusy /\ ~quiesced
          /\ Reserve(batch, phase)
          /\ UNCHANGED queue
    /\ UNCHANGED <<running, cancelled, question, between, quiesced, stranded, stops>>

-----------------------------------------------------------------------------
(* An execution: set up across several awaits, then streaming.              *)

Gone(m) == [phase EXCEPT ![m] = "over"]

\* Downloads, the first card and runOneTurn are done, and the start is still active
\* (isTaskStartActive, asked after each of them): the task is registered.
Register(m) ==
    /\ phase[m] = "setup" /\ starting = m
    /\ starting' = None
    /\ running' = m
    /\ phase' = [phase EXCEPT ![m] = "streaming"]
    /\ question' = 0
    /\ UNCHANGED <<cancelled, queue, batch, between, quiesced, fate, stranded, stops>>

\* The card or the engine fails, or the start was cancelled meanwhile; releaseTaskStart
\* tells which: only the owner of the chat hands it on.
EndSetup(m) ==
    /\ phase[m] = "setup"
    /\ IF starting = m THEN processQueue(Gone(m))
       ELSE phase' = Gone(m) /\ UNCHANGED <<starting, queue, fate, stranded>>
    /\ UNCHANGED <<running, cancelled, batch, question, between, quiesced, stops>>

\* Only a task of the chat shows its questions; an API task answers them itself.
Ask(m) ==
    /\ running = m /\ m \notin Api /\ question = 0
    /\ question' \in 1..MaxQuestions
    /\ UNCHANGED <<starting, running, phase, cancelled, queue, batch, between, quiesced,
                   fate, stranded, stops>>

\* QUESTION_TIMEOUT_MS.
autoAnswerRemainingQuestions ==
    /\ Asked
    /\ question' = 0
    /\ UNCHANGED <<starting, running, phase, cancelled, queue, batch, between, quiesced,
                   fate, stranded, stops>>

OwnsChat_Bug(m) == running # None
OwnsChat(m) == running = m

\* The stream has ended, by itself, by a timeout or by an abort: the finally block.
Finish(m) ==
    /\ phase[m] = "streaming"
    /\ IF OwnsChat(m)
       THEN running' = None /\ question' = 0 /\ processQueue(Gone(m))
       ELSE phase' = Gone(m) /\ UNCHANGED <<starting, running, queue, question, fate, stranded>>
    /\ UNCHANGED <<cancelled, batch, between, quiesced, stops>>

\* A question between two turns, superseded by the next, answered by its timer.
OpenBetween ==
    /\ between' \in 1..MaxQuestions
    /\ UNCHANGED <<starting, running, phase, cancelled, queue, batch, question, quiesced,
                   fate, stranded, stops>>

autoAnswerBetweenTurnQuestion ==
    /\ between > 0
    /\ between' = 0
    /\ UNCHANGED <<starting, running, phase, cancelled, queue, batch, question, quiesced,
                   fate, stranded, stops>>

-----------------------------------------------------------------------------
(* Stops and the quiesce.                                                   *)

\* The chat is free at once; the execution ends later.
stopTask ==
    /\ cancelled' = cancelled \cup ({starting, running} \ {None})
    /\ starting' = None
    /\ IF starting = None /\ running # None
       THEN running' = None /\ question' = 0 /\ between' = 0
       ELSE UNCHANGED <<running, question, between>>

CountStop == stops < MaxStops /\ stops' = stops + 1

Queued == UNION {queue[i] : i \in DOMAIN queue}

ClearChatQueue_Bug == UNCHANGED <<queue, fate>>
ClearChatQueue == queue' = <<>> /\ Become(Queued, "cleared")

\* /stop and /reset: the queue first, then the task if there is one.
StopCommand ==
    /\ CountStop /\ ~quiesced
    /\ isChatBusy \/ queue # <<>>
    /\ ClearChatQueue
    /\ stopTask
    /\ stranded' = FALSE
    /\ UNCHANGED <<phase, batch, quiesced>>

\* stopChatTask, for the API, a web client or the team supervisor.
StopChatTask ==
    /\ CountStop
    /\ isChatBusy
    /\ stopTask
    /\ stranded' = (queue # <<>>)
    /\ UNCHANGED <<phase, queue, batch, quiesced, fate>>

beginRestartQuiesce ==
    /\ ~quiesced
    /\ quiesced' = TRUE
    /\ UNCHANGED <<starting, running, phase, cancelled, queue, batch, question, between,
                   fate, stranded, stops>>

Resumes_Bug == FALSE
Resumes == ~isChatBusy /\ queue # <<>>

cancelRestartQuiesce ==
    /\ quiesced
    /\ quiesced' = FALSE
    /\ IF Resumes
       THEN Reserve(Head(queue), phase) /\ queue' = Tail(queue) /\ stranded' = FALSE
       ELSE UNCHANGED <<starting, phase, queue, fate, stranded>>
    /\ UNCHANGED <<running, cancelled, batch, question, between, stops>>

-----------------------------------------------------------------------------

Arrive(m) ==
    \/ Refuse(m) \/ AnswerBetween(m) \/ AnswerQuestion(m)
    \/ QueueMessage(m) \/ BatchMedia(m) \/ StartMessage(m) \/ StartDirect(m)

Execute(m) == Register(m) \/ EndSetup(m) \/ Ask(m) \/ Finish(m)

Next ==
    \/ \E m \in Message : Arrive(m) \/ Execute(m)
    \/ flushBatch
    \/ autoAnswerRemainingQuestions \/ OpenBetween \/ autoAnswerBetweenTurnQuestion
    \/ StopCommand \/ StopChatTask
    \/ beginRestartQuiesce \/ cancelRestartQuiesce

Spec == Init /\ [][Next]_vars

\* A setup ends, a stream ends (it has a wall and an idle timeout), the debounce timer
\* fires, and a restart that does not come is cancelled (its lease runs out).
Fairness ==
    /\ \A m \in Message : WF_vars(Register(m) \/ EndSetup(m)) /\ WF_vars(Finish(m))
    /\ WF_vars(flushBatch)
    /\ WF_vars(cancelRestartQuiesce)

FairSpec == Spec /\ Fairness

-----------------------------------------------------------------------------
(* What must hold.                                                          *)

\* One task at a time: every execution that nobody has stopped is the one that has the
\* chat, however many stopped ones still wind down beside it, and whatever order their
\* finally blocks run in (releaseTaskStart and ownsChat compare identities).
OneTaskPerChat ==
    /\ starting = None \/ running = None
    /\ \A m \in Message : phase[m] \in {"setup", "streaming"} /\ m \notin cancelled
                              => m \in {starting, running}

\* A queued message never waits for nothing: if the chat is idle and the bridge takes
\* work, the queue is empty, unless stopChatTask has freed the chat (startQuery, the
\* finally blocks and cancelRestartQuiesce all hand the chat on).
QueueIsServed == ~isChatBusy /\ ~quiesced => queue = <<>> \/ stranded

\* What the bridge has taken in is executed, or discarded before the eyes of the user,
\* but for a batch that is flushed into a full queue or a quiesced bridge.
EveryMessageIsServed ==
    \A m \in Message : fate[m] = "pending" ~> (fate[m] # "pending" \/ stranded)
=============================================================================
