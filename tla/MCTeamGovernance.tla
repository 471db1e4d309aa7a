-------------------------- MODULE MCTeamGovernance --------------------------
(* Small instances of TeamGovernance for TLC.                               *)
EXTENDS TeamGovernance, TLC
=============================================================================
