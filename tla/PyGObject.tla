----------------------------- MODULE PyGObject -----------------------------
(***************************************************************************)
(* The reference protocol between one GObject and its Python wrappers      *)
(* (gobject/pygobject.c).  A GObject has at most one registered wrapper,   *)
(* found through the qdata "PyGObject::wrapper".  While the wrapper has no *)
(* instance dictionary it owns a plain reference and may die and be        *)
(* recreated; from the first time inst_dict exists it owns a toggle        *)
(* reference, and GObject in return owns a Python reference to the wrapper *)
(* whenever somebody else also owns the GObject.                           *)
(*                                                                         *)
(* A step is what a thread does between two points at which another thread *)
(* can get in: a section under the GIL, or one atomic operation of GObject *)
(* done without it.  gil # NoThread when a GIL section spans several       *)
(* steps.  Only GObject's reference counting is external; its effect on a  *)
(* toggle reference is modelled as GLib 2.2x has it: a ref from 1 or an    *)
(* unref from 2 changes the count first and calls pyg_toggle_notify after. *)
(***************************************************************************)
EXTENDS Integers, FiniteSets

CONSTANTS
  Threads,          \* threads, each of which may run Python and native code
  Wrappers,         \* addresses at which a PyGObject can be allocated
  NoThread, NoWrapper,
  InitiallyUnowned, \* the type derives from GInitiallyUnowned
  HasSinkFunc,      \* a sink function is registered for the type
  Resurrects,       \* Python code asks for the wrapper while the callbacks of
                    \* weak references to it run
  Overlaps,         \* Python code asks for a wrapper while the GObject's
                    \* first one is being made
  MaxRef            \* bound on ref_count beyond which no new wrapper is made

ASSUME ConstantsAssumption ==
  /\ IsFiniteSet(Threads) /\ NoThread \notin Threads
  /\ IsFiniteSet(Wrappers) /\ NoWrapper \notin Wrappers
  /\ InitiallyUnowned \in BOOLEAN /\ HasSinkFunc \in BOOLEAN
  /\ Resurrects \in BOOLEAN /\ Overlaps \in BOOLEAN
  /\ MaxRef \in Nat

VARIABLES
  gref,      \* GObject::ref_count, 0 when there is no object
  floating,  \* the floating flag
  qdata,     \* the wrapper stored under pygobject_wrapper_key
  toggle,    \* the wrapper GObject notifies about its toggle reference
  native,    \* threads whose native frames own a reference to the GObject
  stage,     \* of each wrapper: "free", "live", "dying" or "unreffed"
  rc,        \* ob_refcnt of each wrapper
  dict,      \* wrappers whose inst_dict is not NULL
  flag,      \* wrappers with PYGOBJECT_USING_TOGGLE_REF
  selfref,   \* wrappers referenced from their own inst_dict
  holds,     \* of each wrapper: threads whose Python frames reference it
  gil,       \* holder of the GIL across steps
  pc, cur,   \* of each thread: where it is, and the wrapper it works on
  note,      \* of each thread: the toggle notification it has to deliver
  ending     \* of each thread: the wrapper whose g_object_unref it has made,
             \* and whose pygobject_clear it has yet to finish

refVars  == <<gref, floating, qdata, toggle, native>>
wrapVars == <<stage, rc, dict, flag, selfref, holds>>
thrVars  == <<gil, pc, cur, note, ending>>
vars     == <<refVars, wrapVars, thrVars>>

Quiet == [kind |-> "none", on |-> NoWrapper]
Inc(w) == [kind |-> "inc", on |-> w]
Dec(w) == [kind |-> "dec", on |-> w]
Notes == [kind : {"none", "inc", "dec"}, on : Wrappers \cup {NoWrapper}]
PCs == {"run", "making", "switch", "nested", "recheck", "callbacks",
        "clear", "remove", "unref"}

TypeOK ==
  /\ gref \in Nat
  /\ floating \in BOOLEAN
  /\ qdata \in Wrappers \cup {NoWrapper}
  /\ toggle \in Wrappers \cup {NoWrapper}
  /\ native \in SUBSET Threads
  /\ stage \in [Wrappers -> {"free", "live", "dying", "unreffed"}]
  /\ rc \in [Wrappers -> Int]
  /\ dict \in SUBSET Wrappers /\ flag \in SUBSET Wrappers
  /\ selfref \in SUBSET Wrappers
  /\ holds \in [Wrappers -> SUBSET Threads]
  /\ gil \in Threads \cup {NoThread}
  /\ pc \in [Threads -> PCs]
  /\ cur \in [Threads -> Wrappers \cup {NoWrapper}]
  /\ note \in [Threads -> Notes]
  /\ ending \in [Threads -> Wrappers \cup {NoWrapper}]

Init ==
  /\ gref = 0 /\ floating = FALSE
  /\ qdata = NoWrapper /\ toggle = NoWrapper
  /\ native = {}
  /\ stage = [w \in Wrappers |-> "free"] /\ rc = [w \in Wrappers |-> 0]
  /\ dict = {} /\ flag = {} /\ selfref = {}
  /\ holds = [w \in Wrappers |-> {}]
  /\ gil = NoThread
  /\ pc = [t \in Threads |-> "run"] /\ cur = [t \in Threads |-> NoWrapper]
  /\ note = [t \in Threads |-> Quiet]
  /\ ending = [t \in Threads |-> NoWrapper]

-----------------------------------------------------------------------------
(* Building blocks                                                         *)

(* t is between two operations, or in a callback of a weak reference, and may
   run native code.                                                        *)
Running(t) ==
  pc[t] \in {"run", "callbacks"} /\ note[t] = Quiet /\ ending[t] = NoWrapper

(* t is between two operations and can have the GIL.                       *)
InPython(t) == Running(t) /\ gil = NoThread

(* The object is gone, and so is every wrapper it had.                     *)
NoObject == gref = 0 /\ \A w \in Wrappers : stage[w] = "free"

(* What pygobject_sink adds to ref_count: a sink function or g_object_ref_sink
   turns a floating reference into an owned one and changes no count; for an
   object of an initially unowned type that floats no more the reference
   GtkWindow keeps for itself is made up for by g_object_ref.              *)
SinkRefs(floats) ==
  IF ~HasSinkFunc /\ InitiallyUnowned /\ ~floats THEN 1 ELSE 0

(* ref_count for pygobject_new_full's new wrapper: g_object_ref, then the
   sink of pygobject_register_wrapper.                                     *)
WrapRefs == 1 + SinkRefs(floating)

(* Mutant: PYGOBJECT_USING_TOGGLE_REF is not looked at.                    *)
SwitchToToggleRef_Twice(t, w, next) ==
  /\ flag' = flag \cup {w}
  /\ rc' = [rc EXCEPT ![w] = @ + 1]
  /\ gref' = gref + 1
  /\ toggle' = w
  /\ gil' = t
  /\ pc' = [pc EXCEPT ![t] = next]
  /\ cur' = [cur EXCEPT ![t] = w]

(* Mutant: GObject is not given its Python reference.                      *)
SwitchToToggleRef_NoIncref(t, w, next) ==
  /\ w \notin flag
  /\ flag' = flag \cup {w}
  /\ gref' = gref + 1
  /\ toggle' = w
  /\ gil' = t
  /\ pc' = [pc EXCEPT ![t] = next]
  /\ cur' = [cur EXCEPT ![t] = w]
  /\ UNCHANGED rc

(* pygobject_switch_to_toggle_ref up to its g_object_unref, for thread t
   whose GIL section goes on at "next".  Nothing is done twice.            *)
SwitchToToggleRef(t, w, next) ==
  IF w \in flag
  THEN /\ gil' = NoThread
       /\ pc' = [pc EXCEPT ![t] = "run"]
       /\ cur' = [cur EXCEPT ![t] = NoWrapper]
       /\ UNCHANGED <<flag, rc, gref, toggle>>
  ELSE /\ flag' = flag \cup {w}
       /\ rc' = [rc EXCEPT ![w] = @ + 1]
       /\ gref' = gref + 1
       /\ toggle' = w
       /\ gil' = t
       /\ pc' = [pc EXCEPT ![t] = next]
       /\ cur' = [cur EXCEPT ![t] = w]

(* pygobject_dealloc starts on w in thread t.  PyObject_ClearWeakRefs comes
   first: if weak references to w have callbacks, Python code runs in t, and
   may run in other threads, while w is still registered.  Otherwise t keeps
   the GIL and goes on to pygobject_clear.                                 *)
StartClear(t, w) ==
  /\ stage' = [stage EXCEPT ![w] = "dying"]
  /\ cur' = [cur EXCEPT ![t] = w]
  /\ \/ pc' = [pc EXCEPT ![t] = "callbacks"] /\ UNCHANGED gil
     \/ pc' = [pc EXCEPT ![t] = "clear"] /\ gil' = t

(* Py_DECREF(w) by thread t under the GIL.                                 *)
DecRef(t, w) ==
  /\ rc' = [rc EXCEPT ![w] = @ - 1]
  /\ IF rc[w] = 1 THEN StartClear(t, w) ELSE UNCHANGED <<stage, gil, pc, cur>>

(* The notification g_object_ref owes the wrapper, or g_object_unref does. *)
RefNote   == IF gref = 1 /\ toggle # NoWrapper THEN Inc(toggle) ELSE Quiet
UnrefNote == IF gref = 2 /\ toggle # NoWrapper THEN Dec(toggle) ELSE Quiet

-----------------------------------------------------------------------------
(* Creation                                                                *)

(* Native code calls g_object_new for a type without a Python constructor. *)
NativeNew(t) ==
  /\ Running(t) /\ NoObject
  /\ gref' = 1 /\ floating' = InitiallyUnowned
  /\ native' = {t}
  /\ UNCHANGED <<qdata, toggle, wrapVars, thrVars>>

(* Its container takes the floating reference over.                        *)
NativeSink(t) ==
  /\ Running(t) /\ t \in native /\ floating
  /\ floating' = FALSE
  /\ UNCHANGED <<gref, qdata, toggle, native, wrapVars, thrVars>>

(* pygobject_constructv on a fresh wrapper w: g_object_newv, then
   pygobject_register_wrapper, which also switches to a toggle reference if
   __init__ has set attributes before it chained up.                       *)
Construct(t, w, hasDict) ==
  /\ InPython(t) /\ NoObject
  /\ floating' = FALSE
  /\ qdata' = w
  /\ stage' = [stage EXCEPT ![w] = "live"]
  /\ holds' = [holds EXCEPT ![w] = {t}]
  /\ IF hasDict
     THEN /\ dict' = dict \cup {w} /\ flag' = flag \cup {w}
          /\ rc' = [rc EXCEPT ![w] = 2]
          /\ gref' = 2 + SinkRefs(InitiallyUnowned)
          /\ toggle' = w
          /\ gil' = t
          /\ pc' = [pc EXCEPT ![t] = "switch"]
          /\ cur' = [cur EXCEPT ![t] = w]
     ELSE /\ rc' = [rc EXCEPT ![w] = 1]
          /\ gref' = 1 + SinkRefs(InitiallyUnowned)
          /\ UNCHANGED <<dict, flag, toggle, gil, pc, cur>>
  /\ UNCHANGED <<native, selfref, note, ending>>

(* pygobject_new_full: native code that can reach the GObject hands it to
   Python code of thread t.                                                *)
Reachable(t) == t \in native \/ \E w \in Wrappers : stage[w] = "live" /\ t \in holds[w]

(* The GObject has a wrapper.  Nothing tells one whose ob_refcnt is 0 already,
   in PyObject_ClearWeakRefs, from a live one.                             *)
WrapExisting(t) ==
  /\ InPython(t) /\ Reachable(t)
  /\ qdata # NoWrapper
  /\ stage[qdata] = "live" \/ Resurrects
  /\ t \notin holds[qdata]
  /\ rc' = [rc EXCEPT ![qdata] = @ + 1]
  /\ holds' = [holds EXCEPT ![qdata] = @ \cup {t}]
  /\ UNCHANGED <<refVars, stage, dict, flag, selfref, thrVars>>

(* Mutant: the wrapper the GObject already has is not looked for.          *)
WrapStart_Always(t) ==
  /\ InPython(t) /\ Reachable(t)
  /\ \A u \in Threads : pc[u] # "making"
  /\ gref + WrapRefs =< MaxRef
  /\ pc' = [pc EXCEPT ![t] = "making"]
  /\ UNCHANGED <<refVars, wrapVars, gil, cur, note, ending>>

(* The GObject has none, and one is made for it.  pygobject_lookup_class may
   call a metaclass or import a module, and PyObject_GC_New may run the cycle
   collector: Python code of any thread gets in.                           *)
WrapStart(t) ==
  /\ InPython(t) /\ Reachable(t)
  /\ qdata = NoWrapper
  /\ (\A u \in Threads : pc[u] # "making") \/ Overlaps
  /\ gref + WrapRefs =< MaxRef
  /\ pc' = [pc EXCEPT ![t] = "making"]
  /\ UNCHANGED <<refVars, wrapVars, gil, cur, note, ending>>

(* It is registered, without another look at pygobject_wrapper_key.        *)
WrapRegister(t, w) ==
  /\ pc[t] = "making" /\ gil = NoThread /\ stage[w] = "free"
  /\ gref' = gref + WrapRefs
  /\ floating' = FALSE
  /\ qdata' = w
  /\ stage' = [stage EXCEPT ![w] = "live"]
  /\ rc' = [rc EXCEPT ![w] = 1]
  /\ holds' = [holds EXCEPT ![w] = {t}]
  /\ pc' = [pc EXCEPT ![t] = "run"]
  /\ UNCHANGED <<toggle, native, dict, flag, selfref, gil, cur, note, ending>>

-----------------------------------------------------------------------------
(* Python code                                                             *)

(* pygobject_get_dict                                                      *)
GetDict(t, w) ==
  /\ InPython(t) /\ t \in holds[w] /\ w \notin dict
  /\ dict' = dict \cup {w}
  /\ SwitchToToggleRef(t, w, "switch")
  /\ UNCHANGED <<floating, qdata, native, stage, selfref, holds, note,
                 ending>>

(* Mutant: only pygobject_get_dict switches to a toggle reference.         *)
SetAttr_NoSwitch(t, w, nested) ==
  /\ InPython(t) /\ t \in holds[w] /\ w \notin dict
  /\ dict' = dict \cup {w}
  /\ UNCHANGED <<refVars, stage, rc, flag, selfref, holds, thrVars>>

(* pygobject_setattro: the inherited tp_setattro made inst_dict, which was
   NULL before.  If it did so through __dict__ (nested), pygobject_get_dict
   has switched already and pygobject_setattro tries again.                *)
SetAttr(t, w, nested) ==
  /\ InPython(t) /\ t \in holds[w] /\ w \notin dict
  /\ dict' = dict \cup {w}
  /\ SwitchToToggleRef(t, w, IF nested THEN "nested" ELSE "switch")
  /\ UNCHANGED <<floating, qdata, native, stage, selfref, holds, note,
                 ending>>

(* Mutant: the plain reference is kept beside the toggle reference.        *)
SwitchUnref_Forgotten(t) ==
  /\ pc[t] \in {"switch", "nested"} /\ gil = t
  /\ pc' = [pc EXCEPT ![t] = "run"]
  /\ cur' = [cur EXCEPT ![t] = NoWrapper]
  /\ gil' = NoThread
  /\ UNCHANGED <<refVars, wrapVars, note, ending>>

(* The g_object_unref of pygobject_switch_to_toggle_ref: t has the GIL, so
   the notification it may cause comes at once.                            *)
SwitchUnref(t) ==
  /\ pc[t] \in {"switch", "nested"} /\ gil = t
  /\ gref' = gref - 1
  /\ rc' = IF UnrefNote = Quiet THEN rc ELSE [rc EXCEPT ![toggle] = @ - 1]
  /\ IF pc[t] = "nested"
     THEN pc' = [pc EXCEPT ![t] = "recheck"] /\ UNCHANGED <<gil, cur>>
     ELSE /\ pc' = [pc EXCEPT ![t] = "run"]
          /\ cur' = [cur EXCEPT ![t] = NoWrapper]
          /\ gil' = NoThread
  /\ UNCHANGED <<floating, qdata, toggle, native, stage, dict, flag, selfref,
                 holds, note, ending>>

SetAttrRecheck(t) ==
  /\ pc[t] = "recheck" /\ gil = t
  /\ SwitchToToggleRef(t, cur[t], "switch")
  /\ UNCHANGED <<floating, qdata, native, stage, dict, selfref, holds, note,
                 ending>>

(* obj.attribute = obj: a cycle through inst_dict.                         *)
StoreSelf(t, w) ==
  /\ InPython(t) /\ t \in holds[w] /\ w \in dict /\ w \notin selfref
  /\ selfref' = selfref \cup {w}
  /\ rc' = [rc EXCEPT ![w] = @ + 1]
  /\ UNCHANGED <<refVars, stage, dict, flag, holds, thrVars>>

(* Python code passes its reference on, or drops it.                       *)
Share(t, u, w) ==
  /\ InPython(t) /\ t \in holds[w] /\ u \notin holds[w]
  /\ holds' = [holds EXCEPT ![w] = @ \cup {u}]
  /\ rc' = [rc EXCEPT ![w] = @ + 1]
  /\ UNCHANGED <<refVars, stage, dict, flag, selfref, thrVars>>

Drop(t, w) ==
  /\ InPython(t) /\ t \in holds[w]
  /\ holds' = [holds EXCEPT ![w] = @ \ {t}]
  /\ DecRef(t, w)
  /\ UNCHANGED <<refVars, dict, flag, selfref, note, ending>>

(* The cycle collector, in thread t, finds that w is referenced by nothing
   but its own inst_dict, and calls tp_clear.  It has seen to w's weak
   references before.                                                      *)
CollectCycle(t, w) ==
  /\ InPython(t)
  /\ stage[w] = "live" /\ w \in selfref /\ rc[w] = 1
  /\ stage' = [stage EXCEPT ![w] = "dying"]
  /\ gil' = t
  /\ pc' = [pc EXCEPT ![t] = "clear"]
  /\ cur' = [cur EXCEPT ![t] = w]
  /\ UNCHANGED <<refVars, rc, dict, flag, selfref, holds, note,
                 ending>>

-----------------------------------------------------------------------------
(* Native code, without the GIL                                            *)

(* A native function called with the GIL released keeps the GObject: the
   caller's frame holds the wrapper that was passed to it.                 *)
NativeRef(t) ==
  /\ Running(t) /\ t \notin native
  /\ \E w \in Wrappers : stage[w] = "live" /\ t \in holds[w]
  /\ gref' = gref + 1
  /\ native' = native \cup {t}
  /\ note' = [note EXCEPT ![t] = RefNote]
  /\ UNCHANGED <<floating, qdata, toggle, wrapVars, gil, pc, cur, ending>>

(* A reference moves to another thread, through a queue for example.       *)
NativePass(t, u) ==
  /\ Running(t) /\ t \in native /\ u \notin native
  /\ native' = (native \ {t}) \cup {u}
  /\ UNCHANGED <<gref, floating, qdata, toggle, wrapVars, thrVars>>

NativeUnref(t) ==
  /\ Running(t) /\ t \in native
  /\ gref' = gref - 1
  /\ native' = native \ {t}
  /\ note' = [note EXCEPT ![t] = UnrefNote]
  /\ floating' = (floating /\ gref > 1)
  /\ UNCHANGED <<qdata, toggle, wrapVars, gil, pc, cur, ending>>

(* Mutant: only the last reference is notified about.                      *)
ToggleNotify_OnlyLast(t) ==
  /\ note[t] # Quiet /\ gil = NoThread
  /\ note' = [note EXCEPT ![t] = Quiet]
  /\ IF note[t].kind = "dec"
     THEN DecRef(t, note[t].on)
     ELSE UNCHANGED <<rc, stage, gil, pc, cur>>
  /\ UNCHANGED <<refVars, dict, flag, selfref, holds, ending>>

(* pyg_toggle_notify, as soon as its thread gets the GIL                   *)
ToggleNotify(t) ==
  /\ note[t] # Quiet /\ gil = NoThread
  /\ note' = [note EXCEPT ![t] = Quiet]
  /\ IF note[t].kind = "dec"
     THEN DecRef(t, note[t].on)
     ELSE /\ rc' = [rc EXCEPT ![note[t].on] = @ + 1]
          /\ UNCHANGED <<stage, gil, pc, cur>>
  /\ UNCHANGED <<refVars, dict, flag, selfref, holds, ending>>

-----------------------------------------------------------------------------
(* pygobject_clear, from pygobject_dealloc or from the cycle collector     *)

(* PyObject_ClearWeakRefs returns.                                         *)
CallbacksEnd(t) ==
  /\ pc[t] = "callbacks" /\ note[t] = Quiet /\ gil = NoThread
  /\ pc' = [pc EXCEPT ![t] = "clear"]
  /\ gil' = t
  /\ UNCHANGED <<refVars, wrapVars, cur, note, ending>>

(* The wrapper is unregistered; a toggle reference is removed, and a plain
   one is dropped with the GIL released.                                   *)
ClearUnregister(t) ==
  /\ pc[t] = "clear" /\ gil = t
  /\ qdata' = NoWrapper
  /\ IF cur[t] \in dict
     THEN /\ toggle' = NoWrapper
          /\ pc' = [pc EXCEPT ![t] = "remove"]
          /\ UNCHANGED gil
     ELSE /\ pc' = [pc EXCEPT ![t] = "unref"]
          /\ gil' = NoThread
          /\ UNCHANGED toggle
  /\ UNCHANGED <<gref, floating, native, wrapVars, cur, note, ending>>

(* The wrapper's memory is given back.                                     *)
FreeWrapper(w) ==
  /\ stage' = [stage EXCEPT ![w] = "free"]
  /\ rc' = [rc EXCEPT ![w] = 0]
  /\ dict' = dict \ {w} /\ flag' = flag \ {w} /\ selfref' = selfref \ {w}

(* The g_object_unref inside g_object_remove_toggle_ref, the flag, obj,
   Py_CLEAR(inst_dict) and what follows from it.                           *)
ClearRemoveToggle(t) ==
  /\ pc[t] = "remove" /\ gil = t
  /\ gref' = gref - 1
  /\ FreeWrapper(cur[t])
  /\ gil' = NoThread
  /\ pc' = [pc EXCEPT ![t] = "run"]
  /\ cur' = [cur EXCEPT ![t] = NoWrapper]
  /\ UNCHANGED <<floating, qdata, toggle, native, holds, note, ending>>

(* g_object_unref between pyg_begin_ and pyg_end_allow_threads.  The
   notification it may owe can deallocate a newer wrapper in this thread
   before the older one is done with.                                      *)
ClearUnref(t) ==
  /\ pc[t] = "unref"
  /\ gref' = gref - 1
  /\ stage' = [stage EXCEPT ![cur[t]] = "unreffed"]
  /\ note' = [note EXCEPT ![t] = UnrefNote]
  /\ pc' = [pc EXCEPT ![t] = "run"]
  /\ cur' = [cur EXCEPT ![t] = NoWrapper]
  /\ ending' = [ending EXCEPT ![t] = cur[t]]
  /\ UNCHANGED <<floating, qdata, toggle, native, rc, dict, flag, selfref,
                 holds, gil>>

ClearEnd(t) ==
  /\ ending[t] # NoWrapper /\ pc[t] = "run" /\ note[t] = Quiet /\ gil = NoThread
  /\ FreeWrapper(ending[t])
  /\ ending' = [ending EXCEPT ![t] = NoWrapper]
  /\ UNCHANGED <<refVars, holds, gil, pc, cur, note>>

-----------------------------------------------------------------------------
Next == \E t \in Threads :
  \/ NativeNew(t) \/ NativeSink(t)
  \/ \E w \in Wrappers, b \in BOOLEAN : Construct(t, w, b)
  \/ WrapExisting(t) \/ WrapStart(t)
  \/ \E w \in Wrappers : WrapRegister(t, w)
  \/ \E w \in Wrappers : GetDict(t, w)
  \/ \E w \in Wrappers, b \in BOOLEAN : SetAttr(t, w, b)
  \/ SwitchUnref(t) \/ SetAttrRecheck(t)
  \/ \E w \in Wrappers : StoreSelf(t, w)
  \/ \E u \in Threads, w \in Wrappers : Share(t, u, w)
  \/ \E w \in Wrappers : Drop(t, w)
  \/ \E w \in Wrappers : CollectCycle(t, w)
  \/ NativeRef(t) \/ NativeUnref(t)
  \/ \E u \in Threads : NativePass(t, u)
  \/ ToggleNotify(t)
  \/ CallbacksEnd(t) \/ ClearUnregister(t) \/ ClearRemoveToggle(t)
  \/ ClearUnref(t) \/ ClearEnd(t)

Spec == Init /\ [][Next]_vars

(* What the threads must get done: every step that is not the start of
   something Python or native code may or may not want.  The cycle
   collector is assumed to run again and again.                            *)
Progress(t) ==
  \/ SwitchUnref(t) \/ SetAttrRecheck(t) \/ ToggleNotify(t) \/ CallbacksEnd(t)
  \/ ClearUnregister(t) \/ ClearRemoveToggle(t) \/ ClearUnref(t) \/ ClearEnd(t)
  \/ \E w \in Wrappers : WrapRegister(t, w)
  \/ \E w \in Wrappers : CollectCycle(t, w)

FairSpec == Spec /\ \A t \in Threads : WF_vars(Progress(t))
-----------------------------------------------------------------------------
(* Properties                                                              *)

(* Wrappers that own a reference to the GObject, plain or toggle.          *)
Owning == {w \in Wrappers : stage[w] \in {"live", "dying"}}

(* During pygobject_switch_to_toggle_ref a wrapper owns one of each kind.  *)
Switching == {t \in Threads : pc[t] \in {"switch", "nested"}}

Owned == Cardinality(native) + Cardinality(Owning) + Cardinality(Switching)

(* Nobody's reference is ever taken away: ref_count covers the references of
   native code and of every wrapper that has not yet dropped its own, so a
   wrapper in use never points at a finalized GObject.                     *)
RefsBacked == gref >= Owned

(* No reference is left over: what pygobject_new_full, the sink and the switch
   to a toggle reference add, pygobject_clear and the switch take away.    *)
NoSurplus == gref = Owned

(* Python code never has a wrapper that pygobject_clear has started on.    *)
HeldIsLive == \A w \in Wrappers : holds[w] # {} => stage[w] = "live" /\ qdata = w

(* pyg_toggle_notify never runs on a wrapper that is being deallocated or has
   been, however late its thread gets the GIL.                             *)
NotifyLive == \A t \in Threads :
  note[t] # Quiet => /\ stage[note[t].on] = "live"
                     /\ toggle = note[t].on

(* What Python code has, and what a notification was sent for, is neither
   being cleared nor gone.                                                 *)
InUseLive == HeldIsLive /\ NotifyLive

(* "the same wrapper instance will always be used for this GObject": only one
   wrapper is live, and it is the one under pygobject_wrapper_key.         *)
OneWrapper == \A w \in Wrappers : stage[w] = "live" => qdata = w

(* In between notifications, GObject has one Python reference to the wrapper
   with instance state exactly while somebody else owns the GObject.       *)
ToggleBalanced ==
  (toggle # NoWrapper /\ gil = NoThread /\ \A t \in Threads : note[t] = Quiet) =>
    rc[toggle] = Cardinality(holds[toggle])
                 + (IF toggle \in selfref THEN 1 ELSE 0)
                 + (IF gref > 1 THEN 1 ELSE 0)

(* A wrapper with instance state lives as long as its GObject: the step that
   frees it finalizes the GObject too.                                     *)
StateKept == [][\A w \in Wrappers :
                  (w \in dict /\ stage[w] = "dying" /\ stage'[w] = "free") => gref' = 0]_vars

(* When Python and native code have let go, the GObject is finalized and its
   wrappers are gone, cycles through inst_dict included.                   *)
Abandoned == native = {} /\ \A w \in Wrappers : holds[w] = {}
Reclaimed == Abandoned ~> NoObject
=============================================================================
