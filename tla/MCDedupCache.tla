---------------------------- MODULE MCDedupCache ----------------------------
(***************************************************************************)
(* DedupCache instantiated for TLC.                                        *)
(***************************************************************************)
EXTENDS DedupCache, TLC

KeySymmetry == Permutations(Keys)
=============================================================================
