----------------------------- MODULE MCLongPoll -----------------------------
(***************************************************************************)
(* LongPoll instantiated for TLC.                                          *)
(***************************************************************************)
EXTENDS LongPoll
=============================================================================
