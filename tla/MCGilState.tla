----------------------------- MODULE MCGilState -----------------------------
(* Instances of GilState for TLC. *)
EXTENDS GilStateInv, TLC

Symmetry == Permutations(PyThreads \ {Main}) \cup Permutations(NativeThreads)
=============================================================================
