--------------------------- MODULE MCTaskScheduler ---------------------------
(* Small instances of TaskScheduler for TLC.                                *)
EXTENDS TaskScheduler, TLC

Symmetry == Permutations(Task)
=============================================================================
