---------------------------- MODULE MCPyGObject ----------------------------
(* Instances of PyGObject for TLC. *)
EXTENDS PyGObjectInv, TLC

Symmetry == Permutations(Threads) \cup Permutations(Wrappers)
=============================================================================
