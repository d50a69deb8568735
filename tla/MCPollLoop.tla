----------------------------- MODULE MCPollLoop -----------------------------
(***************************************************************************)
(* PollLoop instantiated for TLC.                                          *)
(***************************************************************************)
EXTENDS PollLoop
=============================================================================
