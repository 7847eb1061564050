---------------------------- MODULE Construction ----------------------------
(***************************************************************************)
(* The construction of GObjects, from Python and by g_object_new, with     *)
(* what Registration does to their classes.  A wrapper under construction  *)
(* waits in a thread-specific variable for its object's instance_init.     *)
(***************************************************************************)
EXTENDS Registration

CONSTANTS Threads, Objects, Wrappers

ASSUME ConstructionAssumption == Null \notin Objects \cup Wrappers

VARIABLES
  object,   \* of each GObject: type, wrapper (qdata), calls of __init__ by instance_init
  wrapper,  \* of each wrapper: class and obj
  stack,    \* of each thread: its calls of g_object_newv, and the types to initialise
  tls,      \* of each thread: pygobject_contruction_wrapper
  early     \* wrappers that were in there when native code made another object (history)

conVars == <<object, wrapper, stack, tls, early>>
vars == <<regVars, conVars>>

NoObject == [type |-> Null, wrapper |-> Null, inits |-> 0, for |-> Null]
NoWrapper == [class |-> Null, obj |-> Null]

Init ==
  /\ RegInit
  /\ object = [o \in Objects |-> NoObject] /\ wrapper = [w \in Wrappers |-> NoWrapper]
  /\ stack = [t \in Threads |-> <<>>] /\ tls = [t \in Threads |-> Null] /\ early = {}

-----------------------------------------------------------------------------
Top(t) == stack[t][Len(stack[t])]
Below(t) == SubSeq(stack[t], 1, Len(stack[t]) - 1)

(* Code that may make objects: outside of any construction, while properties
   are set at its end, and in __init__; native code also in instance_init. *)
Initialising(t) == stack[t] # <<>> /\ Top(t).todo # <<>>
RunsPython(t) == Initialising(t) => Top(t).init
RunsNative(t) == ~RunsPython(t) => Head(Top(t).todo) \in CTypes

(* g_object_newv(): GLib initialises the instance from the root type on.   *)
Begun(t, o, gtype, w) ==
  /\ object[o].type = Null
  /\ object' = [object EXCEPT ![o].type = gtype, ![o].for = w]
  /\ stack' = [stack EXCEPT ![t] =
                 Append(@, [object |-> o, wrapper |-> w, todo |-> type[gtype].supers, init |-> FALSE])]

(* pygobject_init: an instance of class c is made from Python.  A class whose
   GType is an interface's fails.                                          *)
BeginPython(t, w, o, c) ==
  /\ RunsPython(t) /\ class[c].state # "unused" /\ TypeOf(c) \notin Interfaces
  /\ wrapper[w] = NoWrapper
  /\ wrapper' = [wrapper EXCEPT ![w].class = c]
  /\ tls' = [tls EXCEPT ![t] = w]
  /\ Begun(t, o, TypeOf(c), w) /\ UNCHANGED <<regVars, early>>

(* Native code makes an object of a type of Python's.                      *)
BeginNative(t, o, gtype) ==
  /\ RunsNative(t) /\ Made(gtype)
  /\ Begun(t, o, gtype, Null)
  /\ early' = early \cup ({tls[t]} \ {Null})
  /\ UNCHANGED <<regVars, wrapper, tls>>

Initialised(t) == [stack EXCEPT ![t][Len(stack[t])].todo = Tail(@)]

CInit(t) ==
  /\ Initialising(t) /\ Head(Top(t).todo) \in CTypes
  /\ stack' = Initialised(t) /\ UNCHANGED <<regVars, object, wrapper, tls, early>>

(* The wrapper in construction takes the object that is being initialised. *)
TakesOver(o, w) == object[o].wrapper = Null /\ w # Null /\ wrapper[w].obj = Null

(* Mutant: the wrapper stays in the thread-specific variable.              *)
Cleared_Not(t) == tls

Cleared(t) == [tls EXCEPT ![t] = Null]

(* pygobject__g_instance_init of a Python type, at the head of todo        *)
InitIgnored(t) ==
  /\ Initialising(t) /\ ~type[Head(Top(t).todo)].flag
  /\ Head(Top(t).todo) \in PyTypes
  /\ stack' = Initialised(t) /\ UNCHANGED <<regVars, object, wrapper, tls, early>>

InitKnown(t) ==
  LET o == Top(t).object
      w == tls[t]
  IN  /\ Initialising(t) /\ ~Top(t).init
      /\ Head(Top(t).todo) \in PyTypes /\ type[Head(Top(t).todo)].flag
      /\ {object[o].wrapper, w} # {Null}
      /\ object' = [object EXCEPT ![o].wrapper = IF TakesOver(o, w) THEN w ELSE @]
      /\ wrapper' = IF TakesOver(o, w) THEN [wrapper EXCEPT ![w].obj = o] ELSE wrapper
      /\ tls' = Cleared(t)
      /\ stack' = Initialised(t) /\ UNCHANGED <<regVars, early>>

(* An object from g_object_new() gets its wrapper, and __init__ is called. *)
InitNew(t, w) ==
  LET o == Top(t).object
  IN  /\ Initialising(t) /\ ~Top(t).init
      /\ Head(Top(t).todo) \in PyTypes /\ type[Head(Top(t).todo)].flag
      /\ {object[o].wrapper, tls[t]} = {Null} /\ wrapper[w] = NoWrapper
      /\ wrapper' = [wrapper EXCEPT ![w] = [class |-> type[object[o].type].class, obj |-> o]]
      /\ object' = [object EXCEPT ![o].wrapper = w, ![o].inits = @ + 1]
      /\ stack' = [stack EXCEPT ![t][Len(stack[t])].init = TRUE]
      /\ UNCHANGED <<regVars, tls, early>>

(* ... it may fail, which is printed only.                                 *)
InitReturns(t) ==
  /\ stack[t] # <<>> /\ Top(t).init
  /\ stack' = [stack EXCEPT ![t][Len(stack[t])].init = FALSE,
                            ![t][Len(stack[t])].todo = Tail(@)]
  /\ UNCHANGED <<regVars, object, wrapper, tls, early>>

(* Mutant: the thread-specific variable is not reset after g_object_newv.  *)
EndPython_Keeps(t) ==
  LET w == Top(t).wrapper
      o == Top(t).object
  IN  /\ stack[t] # <<>> /\ Top(t).todo = <<>> /\ w # Null
      /\ wrapper' = [wrapper EXCEPT ![w].obj = IF @ = Null THEN o ELSE @]
      /\ object' = IF wrapper[w].obj = Null THEN [object EXCEPT ![o].wrapper = w] ELSE object
      /\ stack' = [stack EXCEPT ![t] = Below(t)] /\ UNCHANGED <<regVars, tls, early>>

(* pygobject_constructv has its object, which a type without the new
   constructor has not given to the wrapper.                               *)
EndPython(t) ==
  LET w == Top(t).wrapper
      o == Top(t).object
  IN  /\ stack[t] # <<>> /\ Top(t).todo = <<>> /\ w # Null
      /\ tls' = [tls EXCEPT ![t] = Null]
      /\ wrapper' = [wrapper EXCEPT ![w].obj = IF @ = Null THEN o ELSE @]
      /\ object' = IF wrapper[w].obj = Null THEN [object EXCEPT ![o].wrapper = w] ELSE object
      /\ stack' = [stack EXCEPT ![t] = Below(t)] /\ UNCHANGED <<regVars, early>>

EndNative(t) ==
  /\ stack[t] # <<>> /\ Top(t).todo = <<>> /\ Top(t).wrapper = Null
  /\ stack' = [stack EXCEPT ![t] = Below(t)]
  /\ UNCHANGED <<regVars, object, wrapper, tls, early>>

ConNext ==
  \E t \in Threads :
     \/ CInit(t) \/ InitIgnored(t) \/ InitKnown(t) \/ InitReturns(t) \/ EndPython(t) \/ EndNative(t)
     \/ \E w \in Wrappers : InitNew(t, w)
     \/ \E o \in Objects, gtype \in PyTypes : BeginNative(t, o, gtype)
     \/ \E w \in Wrappers, o \in Objects, c \in Classes : BeginPython(t, w, o, c)

(* Classes are registered, and looked up, by code that a thread runs; meanwhile
   it makes no object, and the others wait for the GIL.                    *)
Next ==
  \/ RegNext /\ UNCHANGED conVars /\ \E t \in Threads : RunsPython(t)
  \/ ConNext /\ registering = Idle

Spec == Init /\ [][Next]_vars

-----------------------------------------------------------------------------
(* A wrapper gets the object that was constructed for it, and is the one of
   that object, however constructions nest, as long as native code makes no
   other object of a Python class before the wrapper has its own; and it
   waits for an object only while one is constructed.                      *)
OwnObject ==
  /\ \A o \in Objects, w \in Wrappers : wrapper[w].obj = o =>
       \/ object[o].for \in early
       \/ /\ object[o].wrapper = w /\ object[o].for \in {Null, w}
          /\ object[o].for = Null /\ object[o].inits = 0 => w \in early
  /\ \A t \in Threads : stack[t] = <<>> => tls[t] = Null

(* "this looks like a python object created through g_object_new": once the
   types of an object are initialised, it has a wrapper, and __init__ was
   called once, by instance_init if native code has made the object, however
   many Python types it descends from and whatever __init__ constructs.    *)
InitOnce ==
  \A o \in Objects :
    LET done == \A t \in Threads : \A i \in DOMAIN stack[t] :
                   stack[t][i].object = o => stack[t][i].todo = <<>>
    IN  object[o].type \in PyTypes /\ type[object[o].type].flag /\ done =>
          /\ object[o].wrapper # Null
          /\ early = {} => object[o].inits = IF object[o].for = Null THEN 1 ELSE 0
=============================================================================
