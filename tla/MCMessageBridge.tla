-------------------------- MODULE MCMessageBridge ---------------------------
(* Small instances of MessageBridge for TLC.                                *)
EXTENDS MessageBridge, TLC
=============================================================================
