------------------------- MODULE MCControlledRestart -------------------------
(* Two requests: the first names the user chat it was asked from, the second  *)
(* none; c1 is a user chat and c2 the chat of an internal runtime.            *)
EXTENDS ControlledRestart

CONSTANTS r1, r2, c1, c2

Asked == [r \in Req |-> IF r = r1 THEN c1 ELSE None]
==============================================================================
