--------------------------- MODULE MCExecutorPool ----------------------------
(* Small instances of ExecutorPool for TLC.                                 *)
EXTENDS ExecutorPool, TLC
=============================================================================
