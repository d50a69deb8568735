---------------------------- MODULE MCRelayQueue ----------------------------
(***************************************************************************)
(* RelayQueue instantiated for TLC.                                        *)
(***************************************************************************)
EXTENDS RelayQueue
=============================================================================
