----------------------------- MODULE MCClosures -----------------------------
(* Instances of Closures for TLC. *)
EXTENDS Closures

(* One closure whose callback references the wrapper, and any other.  *)
MCInit == Init /\ func[CHOOSE c \in Ids : TRUE] \in Bound

MCSpec == MCInit /\ [][Next]_vars /\ Fairness
=============================================================================
