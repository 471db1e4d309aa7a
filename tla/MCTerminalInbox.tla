--------------------------- MODULE MCTerminalInbox ---------------------------
(* Small instances of TerminalInbox for TLC.                                *)
EXTENDS TerminalInbox, TLC
=============================================================================
