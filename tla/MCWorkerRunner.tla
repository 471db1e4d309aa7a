--------------------------- MODULE MCWorkerRunner ---------------------------
(* Small instances of WorkerRunner for TLC.                                 *)
EXTENDS WorkerRunner, TLC

CONSTANTS w1, w2, l1, l2, l3, l4, chat, arc, key

Two == {w1, w2}

FourLaunches == {l1, l2, l3, l4}

Symmetry == Permutations(Worker) \cup Permutations(Launch)

Ask(s, k, relaunch, retryTerminal) ==
    [scope |-> s, key |-> k, relaunch |-> relaunch, retryTerminal |-> retryTerminal]

\* A chat's manual and relaunching jobs under one key, and an ARC job, which is
\* always durable-idempotent.
MixedRequests == {Ask(chat, key, FALSE, TRUE), Ask(chat, key, TRUE, TRUE),
                  Ask(chat, NoKey, TRUE, TRUE), Ask(arc, key, FALSE, FALSE)}
=============================================================================
