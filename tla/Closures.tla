------------------------------ MODULE Closures ------------------------------
(***************************************************************************)
(* The Python closures connected to the signals of one GObject: PyGClosure *)
(* in gobject/pygtype.c, the list of watched closures, connection, the     *)
(* by_func methods and emission in gobject/pygobject.c.                    *)
(*                                                                         *)
(* Invalidation is a sequence of steps (GClosure runs the notifier added   *)
(* last first) and may happen in a thread without the GIL: the one that    *)
(* finalizes the GObject, or a native thread whose emission was the last   *)
(* user of a handler that has been disconnected meanwhile.                 *)
(***************************************************************************)
EXTENDS Naturals, Sequences, FiniteSets, SequencesExt

CONSTANTS
  Threads, NoThread,
  NativeThreads,  \* threads that may emit the signal without the GIL
  Ids, NoClosure, \* closures that can be made
  Funcs, Bound,   \* Python callables, and those that reference the wrapper
  MaxDepth,       \* bound on nested emissions in a thread
  MaxBlocks       \* bound on a handler's block count

ASSUME ClosuresAssumption ==
  /\ NativeThreads \subseteq Threads /\ NoThread \notin Threads
  /\ NoClosure \notin Ids /\ Bound \subseteq Funcs
  /\ MaxDepth \in Nat /\ MaxBlocks \in Nat

VARIABLES
  dict,      \* the wrapper has instance state, hence a toggle reference
  alive,     \* the GObject: "alive", "destroying" or "gone"
  owned,     \* native code owns the GObject
  wrapper,   \* the wrapper: "held" by Python frames, "loose" or "cleared"
  state,     \* of each closure: "unused", "valid" or "invalid"
  func,      \* of each closure: its callback
  natives,   \* threads that emit the signal without the GIL
  outlived,  \* closures that reference a wrapper cleared before its GObject goes
  refs,      \* closures whose Python references are owned
  closures,  \* data->closures, the watched ones, most recent first
  connected, \* closures of connected handlers
  blocks,    \* of each closure: the block count of its handler
  calling,   \* of each thread: the emissions in progress, innermost last
  inval,     \* of each thread: the invalidation in progress
  freeing,   \* the closures pygobject_data_free has yet to invalidate
  finalizer, \* the thread that finalizes the GObject
  gil        \* holder of the GIL across steps

objVars  == <<dict, alive, owned, wrapper, finalizer, freeing>>
handVars == <<state, func, natives, outlived, connected, blocks>>
vars == <<objVars, handVars, refs, closures, calling, inval, gil>>

Idle == [on |-> NoClosure, step |-> "idle", list |-> <<>>, locked |-> FALSE]
Watched == ToSet(closures)
Calls == [on : Ids, python : BOOLEAN, running : BOOLEAN]
Busy == {c \in Ids : \E t \in Threads : \E i \in DOMAIN calling[t] : calling[t][i].on = c}

TypeOK ==
  /\ dict \in BOOLEAN /\ alive \in {"alive", "destroying", "gone"} /\ owned \in BOOLEAN
  /\ wrapper \in {"held", "loose", "cleared"}
  /\ state \in [Ids -> {"unused", "valid", "invalid"}]
  /\ func \in [Ids -> Funcs] /\ refs \in SUBSET Ids /\ natives \in SUBSET Threads
  /\ outlived \in SUBSET Ids
  /\ closures \in Seq(Ids) /\ connected \in SUBSET Ids
  /\ blocks \in [Ids -> 0..MaxBlocks]
  /\ calling \in [Threads -> Seq(Calls)]
  /\ \A t \in Threads : /\ inval[t].on \in Ids \cup {NoClosure}
                        /\ inval[t].step \in {"idle", "read", "write", "drop"}
                        /\ inval[t].list \in Seq(Ids) /\ inval[t].locked \in BOOLEAN
  /\ freeing \in Seq(Ids)
  /\ finalizer \in Threads \cup {NoThread} /\ gil \in Threads \cup {NoThread}

Init ==
  /\ dict \in BOOLEAN /\ alive = "alive" /\ owned \in BOOLEAN /\ wrapper = "held"
  /\ state = [c \in Ids |-> "unused"] /\ func \in [Ids -> Funcs] /\ refs = {}
  /\ natives \in {{}, NativeThreads} /\ outlived = {}
  /\ closures = <<>> /\ connected = {} /\ blocks = [c \in Ids |-> 0]
  /\ calling = [t \in Threads |-> <<>>] /\ inval = [t \in Threads |-> Idle]
  /\ freeing = <<>> /\ finalizer = NoThread /\ gil = NoThread

-----------------------------------------------------------------------------
(* The innermost emission of t, if any, is in a Python callback.           *)
InCallback(t) == calling[t] # <<>> /\ Last(calling[t]).running

InPython(t) ==
  /\ gil = NoThread /\ inval[t] = Idle /\ finalizer # t
  /\ IF calling[t] = <<>> THEN t \notin natives ELSE InCallback(t)

(* Python code of t has the wrapper, from a frame or as the first argument. *)
HasObject(t) == InPython(t) /\ alive = "alive" /\ (wrapper = "held" \/ InCallback(t))

(* g_closure_invalidate on c by t, which keeps the GIL if it has it.       *)
StartInvalidate(t, c, locked) ==
  /\ state' = [state EXCEPT ![c] = "invalid"]
  /\ inval' = [inval EXCEPT ![t] =
       [on |-> c, step |-> "read", list |-> <<>>, locked |-> locked]]
  /\ gil' = IF locked THEN t ELSE gil

(* pyg_closure_new and pygobject_watch_closure                             *)
NewClosure(c, f) ==
  /\ state[c] = "unused" /\ func[c] = f
  /\ state' = [state EXCEPT ![c] = "valid"]
  /\ refs' = refs \cup {c}
  /\ closures' = Cons(c, closures)

(* pygobject_connect and its variants                                      *)
Connect(t, f) ==
  /\ HasObject(t)
  /\ \E c \in Ids : NewClosure(c, f) /\ connected' = connected \cup {c}
  /\ UNCHANGED <<objVars, func, natives, outlived, blocks, calling, inval, gil>>

(* Other bindings watch closures too, that are not handlers of the object. *)
Watch(t, f) ==
  /\ HasObject(t)
  /\ \E c \in Ids : NewClosure(c, f)
  /\ UNCHANGED <<objVars, func, natives, outlived, connected, blocks, calling, inval, gil>>

(* The handler goes, with its block count. *)
RemoveHandler(c) ==
  /\ connected' = connected \ {c}
  /\ blocks' = [blocks EXCEPT ![c] = 0]

(* g_signal_handler_disconnect by Python code: an emission that uses the
   handler keeps it, and the closure, until it is done.                    *)
Unlink(t, c) ==
  /\ RemoveHandler(c)
  /\ IF c \in Busy THEN UNCHANGED <<state, inval, gil>> ELSE StartInvalidate(t, c, TRUE)
  /\ UNCHANGED <<objVars, func, natives, outlived, refs, closures, calling>>

Disconnect(t, c) == HasObject(t) /\ c \in connected /\ Unlink(t, c)

Block(t, c) ==
  /\ HasObject(t) /\ c \in connected /\ blocks[c] < MaxBlocks
  /\ blocks' = [blocks EXCEPT ![c] = @ + 1]
  /\ UNCHANGED <<objVars, state, func, natives, outlived, connected, refs, closures, calling, inval, gil>>

Unblock(t, c) ==
  /\ HasObject(t) /\ c \in connected /\ blocks[c] > 0
  /\ blocks' = [blocks EXCEPT ![c] = @ - 1]
  /\ UNCHANGED <<objVars, state, func, natives, outlived, connected, refs, closures, calling, inval, gil>>

(* gclosure_from_pyfunc: the first watched closure with callback f         *)
FromPyFunc(f) ==
  LET hits == SelectSeq(closures, LAMBDA c : func[c] = f)
  IN  IF hits = <<>> THEN NoClosure ELSE Head(hits)

DisconnectByFunc(t, f) ==
  /\ HasObject(t) /\ FromPyFunc(f) \in connected
  /\ Unlink(t, FromPyFunc(f))

BlockByFunc(t, f)   == FromPyFunc(f) \in connected /\ Block(t, FromPyFunc(f))
UnblockByFunc(t, f) == FromPyFunc(f) \in connected /\ Unblock(t, FromPyFunc(f))

-----------------------------------------------------------------------------
(* The wrapper of a GObject that has none any more: it has no instance state
   until Python code gives it some.                                        *)
NewWrapper(w) == wrapper' = w /\ dict' \in BOOLEAN

(* An emission invokes a handler.  From Python, pyg_closure_marshal has the
   GIL already; a native thread waits for it, and a GObject without wrapper
   gets one as the first argument.                                         *)
Callable(c) == c \in connected /\ blocks[c] = 0 /\ state[c] = "valid"

Emit(t, c) ==
  /\ HasObject(t) /\ Callable(c) /\ Len(calling[t]) < MaxDepth
  /\ calling' = [calling EXCEPT ![t] =
       Append(@, [on |-> c, python |-> TRUE, running |-> TRUE])]
  /\ UNCHANGED <<objVars, handVars, refs, closures, inval, gil>>

EmitNative(t, c) ==
  /\ t \in natives /\ calling[t] = <<>> /\ inval[t] = Idle /\ finalizer # t
  /\ alive = "alive" /\ owned /\ Callable(c)
  /\ calling' = [calling EXCEPT ![t] =
       <<[on |-> c, python |-> FALSE, running |-> FALSE]>>]
  /\ UNCHANGED <<objVars, handVars, refs, closures, inval, gil>>

Marshal(t) ==
  /\ calling[t] # <<>> /\ ~InCallback(t) /\ gil = NoThread
  /\ calling' = [calling EXCEPT ![t] = Append(Front(@), [Last(@) EXCEPT !.running = TRUE])]
  /\ IF wrapper = "cleared" THEN NewWrapper("loose") ELSE UNCHANGED <<wrapper, dict>>
  /\ UNCHANGED <<alive, owned, finalizer, freeing, handVars, refs, closures, inval, gil>>

(* The callback returns; a handler that is neither connected nor used any
   more takes its closure with it.                                         *)
Return(t) ==
  /\ gil = NoThread /\ inval[t] = Idle /\ InCallback(t)
  /\ calling' = [calling EXCEPT ![t] = Front(@)]
  /\ LET call == Last(calling[t])
         used == \E u \in Threads : \E i \in DOMAIN calling'[u] : calling'[u][i].on = call.on
     IN  IF call.on \in connected \/ used \/ state[call.on] = "invalid"
         THEN UNCHANGED <<state, inval, gil>>
         ELSE StartInvalidate(t, call.on, call.python)
  /\ UNCHANGED <<objVars, func, natives, outlived, connected, blocks, refs, closures>>

-----------------------------------------------------------------------------
(* Mutant: the closure is left in the list.                                *)
Unwatch_Not(t) ==
  /\ inval[t].step = "read"
  /\ inval' = [inval EXCEPT ![t].step = "drop"]
  /\ UNCHANGED <<objVars, handVars, refs, closures, calling, gil>>

(* pygobject_unwatch_closure, the notifier added last: g_slist_remove reads
   the list and writes it back; under the GIL that is one step.            *)
Unwatch(t) ==
  LET rest == RemoveFirst(closures, inval[t].on) IN
  /\ inval[t].step = "read"
  /\ IF inval[t].locked
     THEN /\ closures' = rest
          /\ inval' = [inval EXCEPT ![t].step = "drop"]
     ELSE /\ inval' = [inval EXCEPT ![t].step = "write", ![t].list = rest]
          /\ UNCHANGED closures
  /\ UNCHANGED <<objVars, handVars, refs, calling, gil>>

UnwatchWrite(t) ==
  /\ inval[t].step = "write"
  /\ closures' = inval[t].list
  /\ inval' = [inval EXCEPT ![t].step = "drop", ![t].list = <<>>]
  /\ UNCHANGED <<objVars, handVars, refs, calling, gil>>

(* Mutant: the closure keeps its references.                               *)
DropRefs_Keeps(t) ==
  /\ inval[t].step = "drop" /\ gil \in {NoThread, t}
  /\ inval' = [inval EXCEPT ![t] = Idle]
  /\ gil' = NoThread
  /\ UNCHANGED <<objVars, handVars, refs, closures, calling>>

(* pyg_closure_invalidate                                                  *)
DropRefs(t) ==
  /\ inval[t].step = "drop" /\ gil \in {NoThread, t}
  /\ refs' = refs \ {inval[t].on} /\ outlived' = outlived \ {inval[t].on}
  /\ inval' = [inval EXCEPT ![t] = Idle]
  /\ gil' = NoThread
  /\ UNCHANGED <<objVars, state, func, natives, connected, blocks, closures, calling>>

-----------------------------------------------------------------------------
(* An emission owns the GObject until it has let go of its handlers.       *)
Emitting == \E t \in Threads : calling[t] # <<>> \/ inval[t] # Idle

(* Python frames let go of the wrapper; native code lets go of the GObject,
   or gives it to Python code again.                                       *)
LetGo ==
  /\ wrapper = "held" /\ wrapper' = "loose" /\ gil = NoThread
  /\ UNCHANGED <<dict, alive, owned, finalizer, freeing, handVars, refs, closures, calling, inval,
                 gil>>

NativeUnref ==
  /\ owned /\ owned' = FALSE /\ alive = "alive"
  /\ wrapper # "cleared" \/ ~Emitting
  /\ UNCHANGED <<dict, alive, wrapper, finalizer, freeing, handVars, refs, closures, calling, inval,
                 gil>>

Wrap ==
  /\ owned /\ alive = "alive" /\ gil = NoThread
  /\ \/ wrapper = "loose" /\ wrapper' = "held" /\ UNCHANGED dict
     \/ wrapper = "cleared" /\ NewWrapper("held")
  /\ UNCHANGED <<alive, owned, finalizer, freeing, handVars, refs, closures, calling, inval,
                 gil>>

(* The toggle reference keeps the wrapper as long as native code owns the
   GObject.                                                                *)
Upheld == dict /\ owned

(* The wrapper goes, with its last reference or because pygobject_traverse
   has shown the cycle collector that only watched closures reference it;
   pygobject_clear drops its reference to the GObject without the GIL.  Its
   closures stay as they are.                                              *)
Clear(t) ==
  /\ wrapper = "loose" /\ ~Upheld /\ ~Emitting /\ InPython(t)
  /\ \A c \in refs \ outlived : func[c] \in Bound => c \in Watched
  /\ wrapper' = "cleared"
  /\ IF owned
     THEN /\ outlived' = outlived \cup {c \in refs : func[c] \in Bound}
          /\ UNCHANGED <<alive, finalizer>>
     ELSE alive' = "destroying" /\ finalizer' = t /\ UNCHANGED outlived
  /\ UNCHANGED <<dict, owned, freeing, state, func, natives, connected, blocks, refs, closures, calling, inval, gil>>

(* Native code drops the last reference of a GObject without wrapper.      *)
Finalize(t) ==
  /\ alive = "alive" /\ wrapper = "cleared" /\ ~owned /\ ~Emitting
  /\ inval[t] = Idle /\ gil = NoThread
  /\ alive' = "destroying" /\ finalizer' = t
  /\ UNCHANGED <<dict, owned, wrapper, freeing, handVars, refs, closures, calling, inval, gil>>

(* g_signal_handlers_destroy                                               *)
DestroyHandler(t, c) ==
  /\ finalizer = t /\ inval[t] = Idle /\ c \in connected
  /\ RemoveHandler(c)
  /\ IF state[c] = "valid"
     THEN StartInvalidate(t, c, FALSE)
     ELSE UNCHANGED <<state, inval, gil>>
  /\ UNCHANGED <<objVars, func, natives, outlived, refs, closures, calling>>

(* pygobject_data_free takes the list under the GIL, then invalidates the
   closures on it without.                                                 *)
DataFree(t) ==
  /\ finalizer = t /\ inval[t] = Idle /\ connected = {} /\ closures # <<>>
  /\ gil = NoThread
  /\ freeing' = closures /\ closures' = <<>>
  /\ UNCHANGED <<dict, alive, owned, wrapper, finalizer, handVars, refs, calling, inval, gil>>

FreeNext(t) ==
  /\ finalizer = t /\ inval[t] = Idle /\ freeing # <<>>
  /\ freeing' = Tail(freeing)
  /\ IF state[Head(freeing)] = "valid"
     THEN StartInvalidate(t, Head(freeing), FALSE)
     ELSE UNCHANGED <<state, inval, gil>>
  /\ UNCHANGED <<dict, alive, owned, wrapper, finalizer, func, natives, outlived, connected, blocks, refs, closures,
                 calling>>

Gone(t) ==
  /\ finalizer = t /\ inval[t] = Idle
  /\ connected = {} /\ closures = <<>> /\ freeing = <<>>
  /\ alive' = "gone" /\ finalizer' = NoThread
  /\ UNCHANGED <<dict, owned, wrapper, freeing, handVars, refs, closures, calling, inval, gil>>

-----------------------------------------------------------------------------
Next ==
  \/ \E t \in Threads :
       \/ \E f \in Funcs : \/ Connect(t, f) \/ Watch(t, f) \/ DisconnectByFunc(t, f)
                           \/ BlockByFunc(t, f) \/ UnblockByFunc(t, f)
       \/ \E c \in Ids : \/ Disconnect(t, c) \/ Block(t, c) \/ Unblock(t, c)
                         \/ Emit(t, c) \/ EmitNative(t, c) \/ DestroyHandler(t, c)
       \/ Marshal(t) \/ Return(t) \/ Unwatch(t) \/ UnwatchWrite(t) \/ DropRefs(t)
       \/ Clear(t) \/ Finalize(t) \/ DataFree(t) \/ FreeNext(t) \/ Gone(t)
  \/ LetGo \/ NativeUnref \/ Wrap

Spec == Init /\ [][Next]_vars

(* Callbacks return, and what has been begun is finished.                  *)
Progress(t) ==
  \/ Unwatch(t) \/ UnwatchWrite(t) \/ DropRefs(t)
  \/ DataFree(t) \/ FreeNext(t) \/ Gone(t)
  \/ \E c \in Ids : DestroyHandler(t, c)

Fairness ==
  \A t \in Threads : SF_vars(Progress(t)) /\ SF_vars(Marshal(t)) /\ SF_vars(Return(t))

FairSpec == Spec /\ Fairness

-----------------------------------------------------------------------------
(* Properties                                                              *)

(* The callback that pyg_closure_marshal calls is not freed under it, not
   even if it disconnects itself.                                          *)
CallbackAlive == Busy \subseteq refs

(* "When the cycle GC traverses the wrapper instance, it will enumerate the
   references to Python objects stored in watched closures": it knows every
   closure that can still be called.                                       *)
Enumerated ==
  alive = "alive" => /\ connected \cup Busy \subseteq Watched
                     /\ Len(closures) = Cardinality(Watched)

(* ... and, since it and gclosure_from_pyfunc use the callbacks without
   references of their own, no closure on the list has lost them, as long as
   all emissions are made with the GIL.                                    *)
TraverseSafe == natives = {} => Enumerated /\ Watched \subseteq refs

(* A callback owned by nobody but an invalidation in progress is let go: no
   closure keeps Python references after it has been invalidated.          *)
Released == \A c \in Ids : state[c] = "invalid" ~> c \notin refs

(* With the GObject, all callbacks go.  (Not if a native thread took the list
   back to what it was before another closure was added, without the GIL.)  *)
AllReleased == natives = {} /\ alive = "gone" => refs = {}

(* Callbacks live as long as the collector or an emission uses them, and not
   longer than their GObject.                                              *)
CallbacksKept == TraverseSafe /\ CallbackAlive /\ AllReleased
=============================================================================
