---------------------------- MODULE PyGObjectInv ----------------------------
(***************************************************************************)
(* The inductive invariant behind the safety properties of PyGObject, and  *)
(* the refinement mapping to GObjectLifetime.                              *)
(***************************************************************************)
EXTENDS PyGObject

(* Python code that runs inside pygobject_dealloc and pygobject_new_full does
   not ask for a wrapper of the GObject they work on.                      *)
Orderly == ~Resurrects /\ ~Overlaps

InGilSection == {"switch", "nested", "recheck", "clear", "remove"}

(* The GIL is held across steps exactly by the thread in a GIL section.    *)
GilOK == \A t \in Threads : pc[t] \in InGilSection <=> gil = t

(* A thread inside an operation works on a wrapper in the matching stage.  *)
CurOK == \A t \in Threads :
  /\ pc[t] \notin {"run", "making"} => cur[t] \in Wrappers
  /\ pc[t] \in {"switch", "nested", "recheck"} =>
       stage[cur[t]] = "live" /\ t \in holds[cur[t]] /\ toggle = cur[t]
  /\ pc[t] \in {"callbacks", "clear", "remove", "unref"} => stage[cur[t]] = "dying"
  /\ pc[t] \in {"callbacks", "clear"} => qdata = cur[t]
  /\ pc[t] = "callbacks" => rc[cur[t]] = 0 /\ cur[t] \notin selfref
  /\ pc[t] = "remove" => toggle = NoWrapper /\ cur[t] \in dict
  /\ pc[t] = "unref" => cur[t] \notin dict

(* While a GObject's first wrapper is made, by one thread that owns the
   GObject, it gets no other.                                              *)
MakingOK == \A t, u \in Threads :
  /\ pc[t] = "making" => t \in native /\ qdata = NoWrapper /\ note[t] = Quiet
  /\ pc[t] = "making" /\ pc[u] = "making" => t = u

(* At most one thread clears a wrapper.                                    *)
ClearerOK == \A t, u \in Threads :
  /\ pc[t] \notin {"run", "making"} /\ pc[u] \notin {"run", "making"} /\ cur[t] = cur[u]
       => t = u
  /\ ending[t] # NoWrapper /\ ending[t] = ending[u] => t = u

EndingOK == \A t \in Threads :
  ending[t] # NoWrapper => stage[ending[t]] = "unreffed" /\ ending[t] \notin dict

(* A notification is owed to the wrapper GObject still notifies; who owes a
   Py_INCREF has the wrapper in a Python frame and the new reference.      *)
NoteOK == \A t \in Threads :
  /\ note[t] # Quiet => /\ note[t].kind \in {"inc", "dec"}
                        /\ note[t].on = toggle
                        /\ toggle # NoWrapper
                        /\ stage[toggle] = "live"
                        /\ pc[t] = "run"
  /\ note[t].kind = "inc" => t \in native /\ t \in holds[note[t].on]

WrapperOK == \A w \in Wrappers :
  /\ stage[w] = "live" => qdata = w /\ gref > 0
  /\ stage[w] = "live" /\ w \in dict => toggle = w
  /\ stage[w] \notin {"live"} => holds[w] = {}
  /\ stage[w] \in {"free", "unreffed"} => w \notin dict
  /\ stage[w] = "dying" /\ w \in dict =>
       /\ gref = 1 /\ qdata \in {w, NoWrapper}
       /\ \E t \in Threads : pc[t] \in {"callbacks", "clear", "remove"} /\ cur[t] = w
  /\ w \in selfref => w \in dict
  /\ w \in dict <=> w \in flag

QdataOK ==
  /\ qdata # NoWrapper =>
       \/ stage[qdata] = "live"
       \/ /\ stage[qdata] = "dying"
          /\ \E t \in Threads : pc[t] \in {"callbacks", "clear"} /\ cur[t] = qdata
  /\ toggle # NoWrapper => toggle \in dict /\ stage[toggle] \in {"live", "dying"}
                           /\ qdata = toggle

(* ob_refcnt of a live wrapper: Python frames, its own dictionary, GObject
   when the toggle reference is not the last one, and the notifications on
   their way.                                                              *)
Owing(kind, w) == {t \in Threads : note[t] = [kind |-> kind, on |-> w]}
Self(w)  == IF w \in selfref THEN 1 ELSE 0
Upheld(w) == IF toggle = w /\ gref > 1 THEN 1 ELSE 0

RcOK == \A w \in Wrappers : stage[w] = "live" =>
  rc[w] = Cardinality(holds[w]) + Self(w) + Upheld(w)
          + Cardinality(Owing("dec", w)) - Cardinality(Owing("inc", w))

IInv == /\ TypeOK /\ GilOK /\ CurOK /\ MakingOK /\ ClearerOK /\ EndingOK /\ NoteOK
        /\ WrapperOK /\ QdataOK /\ RcOK /\ RefsBacked

-----------------------------------------------------------------------------
Lifetime == INSTANCE GObjectLifetime WITH
  alive <- gref > 0,
  users <- native \cup UNION {holds[w] : w \in Wrappers},
  stateful <- dict # {}

(* The wrappers together keep GObjectLifetime's promise: no interleaving of
   clears, rewraps and notifications ends the GObject, or the attributes
   Python code put on it, while a Python or native frame owns it.          *)
KeepsLifetime == Lifetime!Spec
=============================================================================
