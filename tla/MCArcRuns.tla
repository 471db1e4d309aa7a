----------------------------- MODULE MCArcRuns -----------------------------
(* A small instance of ArcRuns for TLC.                                     *)
EXTENDS ArcRuns, TLC
=============================================================================
