------------------------------ MODULE WeakRef ------------------------------
(***************************************************************************)
(* gobject.GObjectWeakRef (gobject/pygobject.c): one weak reference to one *)
(* GObject, used by several threads.  The GObject announces its disposal   *)
(* in the thread that drops the last reference, and that thread need not   *)
(* have the GIL: pygobject_clear, for one, drops it between                *)
(* pyg_begin_allow_threads and pyg_end_allow_threads.                      *)
(***************************************************************************)
EXTENDS Naturals, FiniteSets

CONSTANTS
  Threads, NoThread,
  Callbacks,     \* whether weak_ref() is given a callback
  Unlocked,      \* the last reference may be dropped without the GIL
  Uninitialised  \* values have_floating_ref may have when nothing sets it

ASSUME WeakRefAssumption ==
  /\ IsFiniteSet(Threads) /\ NoThread \notin Threads
  /\ Callbacks \in SUBSET BOOLEAN /\ Unlocked \in BOOLEAN
  /\ Uninitialised \in SUBSET BOOLEAN /\ Uninitialised # {}

VARIABLES
  owners,      \* threads that own a reference to the GObject
  disposer,    \* the thread that is dropping the last reference
  gone,        \* the GObject is finalized
  registered,  \* the weak reference is in the GObject's list
  stage,       \* of the weak reference: "none", "live" or "freed"
  obj,         \* self->obj is not NULL
  callback,    \* self->callback is not NULL
  have_floating_ref,
  rc,          \* ob_refcnt of the weak reference
  holds,       \* threads whose frames reference it
  notify,      \* where pygobject_weak_ref_notify is
  calls,       \* how often the callback has been called
  announces,   \* weak_ref() was given a callback
  unreffed,    \* unref() has been called and has succeeded
  gil,         \* holder of the GIL across steps
  pc           \* of each thread: what it does with the weak reference

gobjectVars == <<owners, disposer, gone, registered>>
selfVars    == <<stage, obj, callback, have_floating_ref, rc>>
vars == <<gobjectVars, selfVars, holds, notify, calls, announces, unreffed, gil, pc>>

TypeOK ==
  /\ owners \in SUBSET Threads /\ disposer \in Threads \cup {NoThread}
  /\ gone \in BOOLEAN /\ registered \in BOOLEAN
  /\ stage \in {"none", "live", "freed"}
  /\ obj \in BOOLEAN /\ callback \in BOOLEAN /\ have_floating_ref \in BOOLEAN
  /\ rc \in Nat /\ holds \in SUBSET Threads
  /\ notify \in {"idle", "entered", "waiting", "callback"}
  /\ calls \in Nat /\ announces \in BOOLEAN /\ unreffed \in BOOLEAN
  /\ gil \in Threads \cup {NoThread}
  /\ pc \in [Threads -> {"run", "call", "unref"}]

Init ==
  /\ owners \in SUBSET Threads \ {{}} /\ disposer = NoThread
  /\ gone = FALSE /\ registered = FALSE
  /\ stage = "none" /\ obj = FALSE /\ callback = FALSE
  /\ have_floating_ref = FALSE /\ rc = 0
  /\ holds = {} /\ notify = "idle" /\ calls = 0
  /\ announces = FALSE /\ unreffed = FALSE
  /\ gil = NoThread /\ pc = [t \in Threads |-> "run"]

-----------------------------------------------------------------------------
(* t runs Python code: outside of the notification, or in its callback.    *)
InPython(t) ==
  /\ gil = NoThread /\ pc[t] = "run"
  /\ disposer = t => notify = "callback"

(* Py_DECREF(self), and pygobject_weak_ref_dealloc if it was the last.     *)
Clear ==
  /\ stage' = "freed" /\ callback' = FALSE /\ obj' = FALSE
  /\ registered' = (registered /\ ~obj)

DecRef ==
  /\ rc' = rc - 1
  /\ IF rc = 1 THEN Clear ELSE UNCHANGED <<stage, callback, obj, registered>>

(* Mutant: the flag is set without the Py_INCREF it stands for.            *)
New_NoIncref(t, cb) ==
  /\ InPython(t) /\ t \in owners /\ stage = "none"
  /\ stage' = "live" /\ obj' = TRUE /\ registered' = TRUE
  /\ callback' = cb /\ have_floating_ref' = cb
  /\ rc' = 1 /\ holds' = {t} /\ announces' = cb
  /\ UNCHANGED <<owners, disposer, gone, notify, calls, unreffed, gil, pc>>

(* Mutant: a weak reference with a callback does not keep itself alive.    *)
New_NoFloatingRef(t, cb) ==
  /\ InPython(t) /\ t \in owners /\ stage = "none"
  /\ stage' = "live" /\ obj' = TRUE /\ registered' = TRUE
  /\ callback' = cb /\ have_floating_ref' = FALSE
  /\ rc' = 1 /\ holds' = {t} /\ announces' = cb
  /\ UNCHANGED <<owners, disposer, gone, notify, calls, unreffed, gil, pc>>

(* pygobject_weak_ref_new                                                  *)
New(t, cb) ==
  /\ InPython(t) /\ t \in owners /\ stage = "none"
  /\ stage' = "live" /\ obj' = TRUE /\ registered' = TRUE
  /\ callback' = cb /\ announces' = cb
  /\ have_floating_ref' \in IF cb THEN {TRUE} ELSE Uninitialised
  /\ rc' = (IF cb THEN 2 ELSE 1)
  /\ holds' = {t}
  /\ UNCHANGED <<owners, disposer, gone, notify, calls, unreffed, gil, pc>>

(* Python code passes the weak reference on, or drops it.                  *)
Share(t, u) ==
  /\ InPython(t) /\ t \in holds /\ u \notin holds
  /\ holds' = holds \cup {u} /\ rc' = rc + 1
  /\ UNCHANGED <<gobjectVars, stage, obj, callback, have_floating_ref, notify, calls,
                 announces, unreffed, gil, pc>>

Drop(t) ==
  /\ InPython(t) /\ t \in holds
  /\ holds' = holds \ {t}
  /\ DecRef
  /\ UNCHANGED <<owners, disposer, gone, have_floating_ref, notify, calls, announces, unreffed, gil,
                 pc>>

-----------------------------------------------------------------------------
(* pygobject_weak_ref_call looks at self->obj ...                          *)
CallRead(t) ==
  /\ InPython(t) /\ t \in holds /\ obj
  /\ gil' = t /\ pc' = [pc EXCEPT ![t] = "call"]
  /\ UNCHANGED <<gobjectVars, selfVars, holds, notify, calls, announces, unreffed>>

(* ... and passes it to pygobject_new_full, which refs it.  If self->obj has
   become NULL meanwhile, it is read again or not, as the build has it.    *)
CallRef(t) ==
  /\ pc[t] = "call"
  /\ owners' = owners \cup {t} \/ (~obj /\ owners' = owners)
  /\ gil' = NoThread /\ pc' = [pc EXCEPT ![t] = "run"]
  /\ UNCHANGED <<disposer, gone, registered, selfVars, holds, notify, calls, announces, unreffed>>

(* pygobject_weak_ref_unref: self->obj is looked at ...                    *)
UnrefRead(t) ==
  /\ InPython(t) /\ t \in holds /\ obj
  /\ gil' = t /\ pc' = [pc EXCEPT ![t] = "unref"]
  /\ UNCHANGED <<gobjectVars, selfVars, holds, notify, calls, announces, unreffed>>

(* Mutant: g_object_weak_unref is left to pygobject_weak_ref_dealloc.      *)
UnrefDo_StaysRegistered(t) ==
  /\ pc[t] = "unref"
  /\ have_floating_ref' = FALSE /\ unreffed' = TRUE
  /\ IF have_floating_ref
     THEN DecRef
     ELSE UNCHANGED <<rc, stage, callback, obj, registered>>
  /\ gil' = NoThread /\ pc' = [pc EXCEPT ![t] = "run"]
  /\ UNCHANGED <<owners, disposer, gone, holds, notify, calls, announces>>

(* ... and taken back from the GObject.                                    *)
UnrefDo(t) ==
  /\ pc[t] = "unref"
  /\ registered' = FALSE /\ obj' = FALSE
  /\ have_floating_ref' = FALSE
  /\ unreffed' = TRUE
  /\ LET drop == IF have_floating_ref THEN 1 ELSE 0 IN
     /\ rc' = rc - drop
     /\ stage' = IF rc = drop THEN "freed" ELSE stage
     /\ callback' = (callback /\ rc # drop)
  /\ gil' = NoThread /\ pc' = [pc EXCEPT ![t] = "run"]
  /\ UNCHANGED <<owners, disposer, gone, holds, notify, calls, announces>>

-----------------------------------------------------------------------------
(* Code that owns the GObject passes a reference on, or drops one that is
   not the last.                                                           *)
Pass(t, u) ==
  /\ t \in owners /\ pc[t] = "run"
  /\ owners' = owners \cup {u}
  /\ UNCHANGED <<disposer, gone, registered, selfVars, holds, notify, calls, announces, unreffed, gil,
                 pc>>

Release(t) ==
  /\ t \in owners /\ pc[t] = "run"
  /\ owners # {t} \/ disposer # NoThread
  /\ owners' = owners \ {t}
  /\ UNCHANGED <<disposer, gone, registered, selfVars, holds, notify, calls, announces, unreffed, gil,
                 pc>>

(* The GIL as a thread that drops its last reference has it.               *)
Locked(t) == IF Unlocked THEN gil ELSE t

(* The weak references are taken out of the GObject's list and notified.   *)
Announce ==
  /\ registered' = FALSE
  /\ notify' = IF registered THEN "entered" ELSE "idle"

(* g_object_unref on the last reference, by t                              *)
Dispose(t) ==
  /\ owners = {t} /\ disposer = NoThread /\ pc[t] = "run"
  /\ Unlocked \/ gil = NoThread
  /\ owners' = {} /\ disposer' = t
  /\ gil' = Locked(t)
  /\ Announce
  /\ UNCHANGED <<gone, selfVars, holds, calls, announces, unreffed, pc>>

(* Mutant: self->obj is left for pygobject_weak_ref_clear.                 *)
NotifyEnter_KeepsObj ==
  /\ notify = "entered"
  /\ notify' = IF callback THEN "waiting" ELSE "idle"
  /\ UNCHANGED <<gobjectVars, selfVars, holds, calls, announces, unreffed, gil, pc>>

(* pygobject_weak_ref_notify before pyglib_gil_state_ensure                *)
NotifyEnter ==
  /\ notify = "entered"
  /\ obj' = FALSE
  /\ notify' = IF callback THEN "waiting" ELSE "idle"
  /\ UNCHANGED <<gobjectVars, stage, callback, have_floating_ref, rc, holds, calls, announces, unreffed,
                 gil, pc>>

(* The callback starts, and other threads may get the GIL while it runs.   *)
NotifyCall ==
  /\ notify = "waiting" /\ gil \in {NoThread, Locked(disposer)}
  /\ Unlocked => gil = NoThread
  /\ notify' = "callback" /\ calls' = calls + 1
  /\ gil' = NoThread
  /\ UNCHANGED <<gobjectVars, selfVars, holds, announces, unreffed, pc>>

(* Mutant: the floating reference is not dropped with the callback.        *)
NotifyEnd_KeepsFloating ==
  /\ notify = "callback" /\ gil = NoThread /\ pc[disposer] = "run"
  /\ callback' = FALSE
  /\ notify' = "idle"
  /\ gil' = Locked(disposer)
  /\ UNCHANGED <<gobjectVars, stage, obj, have_floating_ref, rc, holds, calls, announces, unreffed, pc>>

(* The callback has returned.                                              *)
NotifyEnd ==
  /\ notify = "callback" /\ gil = NoThread /\ pc[disposer] = "run"
  /\ have_floating_ref' = FALSE
  /\ LET drop == IF have_floating_ref THEN 1 ELSE 0 IN
     /\ rc' = rc - drop
     /\ stage' = IF rc = drop THEN "freed" ELSE stage
  /\ callback' = FALSE
  /\ notify' = "idle"
  /\ gil' = Locked(disposer)
  /\ UNCHANGED <<gobjectVars, obj, holds, calls, announces, unreffed, pc>>

(* The reference is dropped: the GObject is finalized, having announced it to
   the weak references made since, or lives on if somebody has refed it.   *)
Finalize ==
  /\ disposer # NoThread /\ notify = "idle" /\ gil \in {NoThread, Locked(disposer)}
  /\ IF owners = {} /\ registered
     THEN Announce /\ UNCHANGED <<gone, disposer, gil>>
     ELSE /\ gone' = (owners = {})
          /\ disposer' = NoThread
          /\ gil' = IF gil = disposer THEN NoThread ELSE gil
          /\ UNCHANGED <<registered, notify>>
  /\ UNCHANGED <<owners, selfVars, holds, calls, announces, unreffed, pc>>

-----------------------------------------------------------------------------
Next ==
  \/ \E t \in Threads :
       \/ \E cb \in Callbacks : New(t, cb)
       \/ Drop(t) \/ CallRead(t) \/ CallRef(t) \/ UnrefRead(t) \/ UnrefDo(t)
       \/ Release(t) \/ Dispose(t)
       \/ \E u \in Threads : Share(t, u) \/ Pass(t, u)
  \/ NotifyEnter \/ NotifyCall \/ NotifyEnd \/ Finalize

Spec == Init /\ [][Next]_vars

(* A notification in progress goes on, and so do the methods.              *)
Fairness ==
  /\ WF_vars(NotifyEnter \/ NotifyEnd \/ Finalize) /\ SF_vars(NotifyCall)
  /\ \A t \in Threads : WF_vars(CallRef(t) \/ UnrefDo(t))

FairSpec == Spec /\ Fairness

-----------------------------------------------------------------------------
(* Properties                                                              *)

(* "when we have a callback, we should INCREF the weakref object to make it
   stay alive even if it goes out of scope": the notification finds the weak
   reference alive from its first step to its last.                        *)
StaysAlive == notify # "idle" => stage = "live"

(* A weak reference in a Python frame is not freed, and no reference is owned
   but those of frames and the floating one.                               *)
Counted ==
  /\ holds # {} => stage = "live"
  /\ stage = "live" => rc = Cardinality(holds) + (IF have_floating_ref THEN 1 ELSE 0)

(* Calling the weak reference never refs a finalized GObject.              *)
CallSafe == \A t \in Threads : pc[t] \in {"call", "unref"} => ~gone

(* The callback of a weak reference that has not been unreffed has been
   called, once, by the time the GObject is gone, and nothing points at it. *)
Announced ==
  /\ calls =< 1
  /\ gone /\ stage = "live" => ~obj
  /\ gone /\ announces /\ ~unreffed => calls = 1

(* No use of a finalized GObject, and one call about its end.              *)
EndKnown == CallSafe /\ Announced

(* After a successful unref() the callback is not called any more.         *)
UnrefIsFinal == [][unreffed => calls' = calls]_vars

(* The weak reference goes with its last holder and its GObject.           *)
Freed == (gone /\ holds = {}) ~> stage # "live"
=============================================================================
