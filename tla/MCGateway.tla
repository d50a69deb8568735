----------------------------- MODULE MCGateway -----------------------------
(***************************************************************************)
(* Gateway instantiated for TLC.                                           *)
(***************************************************************************)
EXTENDS Gateway

CONSTANTS d1, d2, u

\* Two devices, one of them beside an app without provider, and one twice.
Pairs == {<<d1, d2>>, <<d1, u>>, <<d1, d1>>}
=============================================================================
