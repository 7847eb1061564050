------------------------------ MODULE MCTypes -------------------------------
(* Instances of Construction, with the registration of the classes.        *)
EXTENDS Construction, TLC

Declared(named, signals, properties) ==
  [named |-> named, signals |-> signals, properties |-> properties]

MCDeclarations ==
  {Declared(FALSE, "none", "none"), Declared(TRUE, "bad", "none"), Declared(FALSE, "fine", "bad")}

Symmetry ==
  Permutations(Classes \ {RootClass}) \cup Permutations(Objects) \cup Permutations(Wrappers)
=============================================================================
