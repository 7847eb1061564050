-------------------------- MODULE GObjectLifetime --------------------------
(***************************************************************************)
(* What gobject/pygobject.c promises about one GObject, whatever mixture   *)
(* of Python and native code uses it: it lives exactly as long as it has   *)
(* users, and the state Python code keeps on it lives exactly as long as   *)
(* it does.  Nothing here says how many wrappers there are.                *)
(***************************************************************************)
CONSTANT Threads

VARIABLES
  alive,    \* the GObject exists
  users,    \* threads whose frames own it, natively or through Python
  stateful  \* Python attributes are stored on it

vars == <<alive, users, stateful>>

TypeOK == alive \in BOOLEAN /\ users \in SUBSET Threads /\ stateful \in BOOLEAN

Init == ~alive /\ users = {} /\ ~stateful

Create(t) ==
  /\ ~alive /\ users = {}
  /\ alive' = TRUE /\ users' = {t}
  /\ stateful' \in BOOLEAN

(* A user gives itself another kind of reference, or another thread one.   *)
Share(t) ==
  /\ users # {}
  /\ users' = users \cup {t}
  /\ UNCHANGED <<alive, stateful>>

Pass(t, u) ==
  /\ t \in users
  /\ users' \in {users \cup {u}, (users \ {t}) \cup {u}}
  /\ UNCHANGED <<alive, stateful>>

Store(t) ==
  /\ t \in users
  /\ stateful' = TRUE
  /\ UNCHANGED <<alive, users>>

(* Without state, the object may go with its last user.                    *)
Release(t) ==
  /\ t \in users
  /\ users' = users \ {t}
  /\ \/ UNCHANGED <<alive, stateful>>
     \/ users' = {} /\ ~stateful /\ alive' = FALSE /\ UNCHANGED stateful

Reclaim ==
  /\ alive /\ users = {}
  /\ alive' = FALSE /\ stateful' = FALSE
  /\ UNCHANGED users

Next ==
  \/ \E t \in Threads : Create(t) \/ Share(t) \/ Store(t) \/ Release(t)
  \/ \E t, u \in Threads : Pass(t, u)
  \/ Reclaim

Spec == Init /\ [][Next]_vars
=============================================================================
