----------------------------- MODULE MCSources -----------------------------
(* Instances of Sources for TLC. *)
EXTENDS Sources, TLC

Symmetry == Permutations(Threads) \cup Permutations(Datas)
=============================================================================
