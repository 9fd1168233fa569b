-------------------------- MODULE ContextSnapshotMC ---------------------------
(***************************************************************************)
(* ContextSnapshot for TLC: tokens are interchangeable, since the model    *)
(* only copies and compares them.                                          *)
(***************************************************************************)
EXTENDS ContextSnapshot, TLC

TokenSymmetry == Permutations(Token)
===============================================================================
