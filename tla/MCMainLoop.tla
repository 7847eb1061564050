----------------------------- MODULE MCMainLoop -----------------------------
(* Instances of MainLoop for TLC: all the loops are of one context, that the
   main thread runs and other threads may run. *)
EXTENDS MainLoop, TLC

CONSTANTS OtherRuns  \* threads other than the main one that run its context

FirstContext == CHOOSE c \in Contexts : TRUE
OneContext   == [l \in Loops |-> FirstContext]
Homes == [c \in Contexts |-> IF c = FirstContext THEN {Main} \cup OtherRuns ELSE Threads]
=============================================================================
