-------------------------- MODULE MCWorkerCallback --------------------------
(* Small instances of WorkerCallback for TLC.                               *)
EXTENDS WorkerCallback, TLC

CONSTANTS w1, w2, l1, l2, chat, arc, key

One == {w1}
TwoLaunches == {l1, l2}

Ask(s, relaunch) == [scope |-> s, key |-> NoKey, relaunch |-> relaunch, retryTerminal |-> TRUE]

MixedRequests == {Ask(chat, FALSE), Ask(chat, TRUE), Ask(arc, FALSE)}
=============================================================================
