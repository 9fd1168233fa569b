----------------------------- MODULE ForwardPassMC -----------------------------
(***************************************************************************)
(* Bounds for ForwardPass: every expert of the first layer, one of the     *)
(* second; the buffers are symmetric.                                      *)
(***************************************************************************)
EXTENDS ForwardPass, TLC

MCRoutes == [l \in Layer |-> IF l = 0 THEN Expert ELSE {0}]
BufferSymmetry == Permutations(Memory)
===============================================================================
