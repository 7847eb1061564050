----------------------------- MODULE GioNotify -----------------------------
(***************************************************************************)
(* PyGIONotify (gio/gio.override): what a wrapper of an asynchronous GIO   *)
(* function hands to GIO, so that a Python callback is called when the     *)
(* operation completes.  It borrows its callbacks and their data from the  *)
(* arguments of the wrapper until it references them, may have a slave     *)
(* that is referenced and freed with it, and keeps the buffer that GIO     *)
(* reads or writes; for a read it is attached to the result, from which    *)
(* read_finish() takes the buffer.                                         *)
(***************************************************************************)
EXTENDS Naturals, FiniteSets, GioWrappers

CONSTANTS
  Notifies,          \* PyGIONotify structures
  Objects, Callable, \* Python objects, and those that can be called
  Null,
  Arguments,         \* what the slots may be filled with by a call
  Failures           \* which checks of other arguments may fail in a call

Master == {"callback", "data"}
Slave  == {"progress", "pdata"}
Slots  == [Master \cup Slave -> Objects \cup {Null}]

ASSUME GioNotifyAssumption ==
  /\ Callable \subseteq Objects /\ Null \notin Objects /\ IsFiniteSet(Notifies)
  /\ Arguments \subseteq Slots /\ Failures \subseteq SUBSET Checks

VARIABLES
  phase,      \* of each notify: who has it
  op,         \* of each notify: its wrapper
  slot,       \* of each notify: its callback and data, and its slave's
  referenced, \* of each notify: the slots whose objects it references
  buffer,     \* of each notify: its buffer is allocated
  sized,      \* of each notify: GIO transfers at least a byte
  inside,     \* notifies whose wrapper has not returned
  results,    \* notifies of reads whose GAsyncResult is alive
  kept,       \* those whose result Python keeps
  owned,      \* objects that other Python code references
  refs        \* of each object: references that notifies own

heldVars == <<op, slot, sized, referenced, buffer, refs>>
vars == <<phase, inside, heldVars, results, kept, owned>>

(* "sync": GIO has it, while the wrapper waits; "busy": GIO has it until
   the operation completes; "calling": the callback runs; "attached": the
   result has it; "lost": nothing points to it any more.                   *)
Phases == {"none", "sync", "busy", "calling", "attached", "lost"}

TypeOK ==
  /\ phase \in [Notifies -> Phases] /\ op \in [Notifies -> Wrappers]
  /\ slot \in [Notifies -> Slots]
  /\ referenced \in [Notifies -> SUBSET (Master \cup Slave)]
  /\ buffer \in [Notifies -> BOOLEAN] /\ sized \in [Notifies -> BOOLEAN]
  /\ inside \in SUBSET Notifies /\ results \in SUBSET Notifies /\ kept \in SUBSET Notifies
  /\ owned \in SUBSET Objects /\ refs \in [Objects -> Nat]

Init ==
  /\ phase = [n \in Notifies |-> "none"] /\ op = [n \in Notifies |-> Plain]
  /\ slot = [n \in Notifies |-> [f \in Master \cup Slave |-> Null]]
  /\ referenced = [n \in Notifies |-> {}] /\ buffer = [n \in Notifies |-> FALSE]
  /\ sized = [n \in Notifies |-> FALSE]
  /\ inside = {} /\ results = {} /\ kept = {}
  /\ owned \in SUBSET Objects /\ refs = [o \in Objects |-> 0]

-----------------------------------------------------------------------------
Alive(o) ==
  \/ o \in owned \/ refs[o] > 0
  \/ \E n \in inside : \E f \in DOMAIN slot[n] : slot[n][f] = o

(* How many of the slots F of s hold o.                                    *)
Uses(s, F, o) == Cardinality({f \in F : s[f] = o})

(* Check c of a call with arguments a fails; bad are the checks that other
   arguments fail.                                                         *)
Fails(a, bad, c) ==
  CASE c = "callback" -> a["callback"] \notin Callable
    [] c \in {"optional", "progress"} ->
         LET f == IF c = "optional" THEN "callback" ELSE c
         IN  a[f] # Null /\ a[f] \notin Callable
    [] c = "chained" -> "arguments" \in bad /\ a["callback"] \notin Callable
    [] OTHER -> c \in bad

Refused(w, a, bad) == \E i \in DOMAIN w.checks : Fails(a, bad, w.checks[i])

Unfreed(w, a, bad) ==
  \E i \in DOMAIN w.checks :
     /\ Fails(a, bad, w.checks[i]) /\ w.checks[i] \in w.unfreed
     /\ \A j \in 1..(i - 1) : ~Fails(a, bad, w.checks[j])

(* Arguments that Python can pass: only a parse that fails, and a wrapper
   with an optional callback, leave the callback out.                      *)
Passed(w, a, bad) ==
  /\ \A f \in DOMAIN a : a[f] # Null => Alive(a[f])
  /\ a["callback"] = Null => "arguments" \in bad \/ ~w.async
  /\ w.slave \/ \A f \in Slave : a[f] = Null
  /\ \A c \in bad : (\E i \in DOMAIN w.checks : w.checks[i] = c) \/ c = "arguments"

(* pygio_notify_using_optional_callback forgets the data of a callback that
   is not given.                                                           *)
UsingOptional(w, a) ==
  [f \in DOMAIN a |-> IF \/ f = "data" /\ ~w.async /\ a["callback"] = Null
                         \/ f = "pdata" /\ a["progress"] = Null
                      THEN Null ELSE a[f]]

(* Mutant: the slave is not referenced with its master.                    *)
Reference_NoSlave(w) == IF w.async THEN Master ELSE {}

(* pygio_notify_reference_callback, of a notify and of its slave           *)
Reference(w) == IF w.async THEN Master \cup (IF w.slave THEN Slave ELSE {}) ELSE {}

(* A wrapper refuses its arguments: most free the notify.                  *)
Refuse(n, w, a, bad) ==
  /\ phase[n] = "none" /\ n \notin inside \cup results
  /\ Passed(w, a, bad) /\ Refused(w, a, bad)
  /\ phase' = [phase EXCEPT ![n] = IF Unfreed(w, a, bad) THEN "lost" ELSE "none"]
  /\ UNCHANGED <<inside, heldVars, results, kept, owned>>

(* A wrapper starts an operation, and returns when it keeps the GIL.       *)
Begin(n, w, a, bad, some) ==
  /\ phase[n] = "none" /\ n \notin inside \cup results
  /\ Passed(w, a, bad) /\ ~Refused(w, a, bad)
  /\ LET s == UsingOptional(w, a)
     IN  /\ slot' = [slot EXCEPT ![n] = s]
         /\ refs' = [o \in Objects |-> refs[o] + Uses(s, Reference(w), o)]
  /\ referenced' = [referenced EXCEPT ![n] = Reference(w)]
  /\ phase' = [phase EXCEPT ![n] = IF w.async THEN "busy" ELSE "sync"]
  /\ op' = [op EXCEPT ![n] = w] /\ sized' = [sized EXCEPT ![n] = some]
  /\ buffer' = [buffer EXCEPT ![n] = some /\ w.buffer # "none"]
  /\ inside' = IF w.unlocked THEN inside \cup {n} ELSE inside
  /\ UNCHANGED <<results, kept, owned>>

(* The structure is gone, and with it what it says.                        *)
Clear(n) ==
  /\ op' = [op EXCEPT ![n] = Plain] /\ sized' = [sized EXCEPT ![n] = FALSE]
  /\ slot' = [slot EXCEPT ![n] = [f \in DOMAIN @ |-> Null]]
  /\ referenced' = [referenced EXCEPT ![n] = {}]

(* Mutant: without the GIL a decrement may get lost.                       *)
Free_NoGIL(n) ==
  /\ Clear(n)
  /\ buffer' = [buffer EXCEPT ![n] = FALSE]
  /\ refs' \in {refs, [o \in Objects |-> refs[o] - Uses(slot[n], referenced[n], o)]}

(* pygio_notify_free, of a notify and of its slave                         *)
Free(n) ==
  /\ Clear(n)
  /\ buffer' = [buffer EXCEPT ![n] = FALSE]
  /\ refs' = [o \in Objects |-> refs[o] - Uses(slot[n], referenced[n], o)]

(* A wrapper that released the GIL returns, before or after completion.    *)
Return(n) ==
  /\ n \in inside /\ phase[n] # "sync"
  /\ inside' = inside \ {n}
  /\ UNCHANGED <<phase, heldVars, results, kept, owned>>

(* g_file_copy() or g_file_move() is done, and the wrapper returns.        *)
ReturnSync(n) ==
  /\ phase[n] = "sync"
  /\ Free(n)
  /\ phase' = [phase EXCEPT ![n] = "none"] /\ inside' = inside \ {n}
  /\ UNCHANGED <<results, kept, owned>>

(* The operation completes: async_result_callback_marshal attaches the
   notify of a read to the result, and calls the callback.                 *)
Complete(n) ==
  /\ phase[n] = "busy"
  /\ phase' = [phase EXCEPT ![n] = "calling"]
  /\ results' = IF op[n].buffer = "allocated" THEN results \cup {n} ELSE results
  /\ UNCHANGED <<inside, heldVars, kept, owned>>

(* Mutant: the notify is not freed.                                        *)
CallbackReturns_NoFree(n) ==
  /\ Clear(n)
  /\ phase[n] = "calling"
  /\ phase' = [phase EXCEPT ![n] = IF n \in results THEN "attached" ELSE "lost"]
  /\ UNCHANGED <<inside, heldVars, results, kept, owned>>

(* The callback returns, or fails and its exception is printed.            *)
CallbackReturns(n) ==
  /\ phase[n] = "calling"
  /\ IF n \in results
     THEN phase' = [phase EXCEPT ![n] = "attached"] /\ UNCHANGED heldVars
     ELSE phase' = [phase EXCEPT ![n] = "none"] /\ Free(n)
  /\ UNCHANGED <<inside, results, kept, owned>>

(* Python can call read_finish() with the result of n.                     *)
CanReadFinish(n) == n \in results /\ (phase[n] = "calling" \/ n \in kept)

(* The callback stores its result, and Python drops it later.              *)
Keep(n) ==
  /\ n \in results /\ phase[n] = "calling"
  /\ kept' = kept \cup {n}
  /\ UNCHANGED <<phase, inside, heldVars, results, owned>>

Drop(n) ==
  /\ n \in kept /\ kept' = kept \ {n}
  /\ UNCHANGED <<phase, inside, heldVars, results, owned>>

(* The last reference to the result goes, in a thread that need not hold
   the GIL, and with it what is attached.                                  *)
ResultDies(n) ==
  /\ n \in results \ kept /\ phase[n] # "calling"
  /\ results' = results \ {n}
  /\ IF phase[n] = "attached"
     THEN phase' = [phase EXCEPT ![n] = "none"] /\ Free(n)
     ELSE UNCHANGED <<phase, heldVars>>
  /\ UNCHANGED <<inside, kept, owned>>

(* Other Python code makes an object, or forgets one.                      *)
Own(o) ==
  /\ o \notin owned /\ owned' = owned \cup {o}
  /\ UNCHANGED <<phase, inside, heldVars, results, kept>>
Forget(o) ==
  /\ o \in owned /\ owned' = owned \ {o}
  /\ UNCHANGED <<phase, inside, heldVars, results, kept>>

Next ==
  \/ \E n \in Notifies, w \in Wrappers, a \in Arguments, bad \in Failures :
        Refuse(n, w, a, bad) \/ \E some \in BOOLEAN : Begin(n, w, a, bad, some)
  \/ \E n \in Notifies :
        \/ Return(n) \/ ReturnSync(n) \/ Complete(n) \/ CallbackReturns(n)
        \/ Keep(n) \/ Drop(n) \/ ResultDies(n)
  \/ \E o \in Objects : Own(o) \/ Forget(o)

Spec == Init /\ [][Next]_vars

(* GIO completes each operation, callbacks return, and Python drops the
   results that it keeps.                                                  *)
FairSpec ==
  /\ Spec
  /\ \A n \in Notifies : /\ WF_vars(Complete(n)) /\ WF_vars(CallbackReturns(n))
                         /\ WF_vars(Drop(n)) /\ WF_vars(ResultDies(n))

-----------------------------------------------------------------------------
(* The references that notifies own on each object are those that some
   notify is to release, each once, whatever thread releases it.           *)
Exact ==
  \A o \in Objects :
     refs[o] = Cardinality({p \in Notifies \X (Master \cup Slave) :
                              p[2] \in referenced[p[1]] /\ slot[p[1]][p[2]] = o})

(* Whatever GIO may still call, or pass, is alive: borrowed from a wrapper
   that waits, or referenced, the slave's as well as the master's.         *)
CallbackAlive ==
  \A n \in Notifies : phase[n] \in {"sync", "busy", "calling"} =>
     \A f \in Master \cup Slave : slot[n][f] # Null => Alive(slot[n][f])

(* GIO calls callables only, except for the query_info_async() wrappers of
   the file streams, which skip the check when the arguments parse.        *)
OnlyCallables ==
  \A n \in Notifies : phase[n] \in {"sync", "busy", "calling"} =>
     /\ \/ slot[n]["callback"] \in Callable \/ op[n].checks[1] = "chained"
        \/ ~op[n].async /\ slot[n]["callback"] = Null
     /\ slot[n]["progress"] \in Callable \cup {Null}

(* GIO's buffer lasts as long as the operation, and what was read as long
   as Python can ask for it.                                               *)
BufferLives ==
  \A n \in Notifies :
     /\ phase[n] = "busy" => (op[n].buffer # "none" /\ sized[n] => buffer[n])
     /\ CanReadFinish(n) => phase[n] \in {"calling", "attached"} /\ (sized[n] => buffer[n])

(* A notify that a wrapper loses track of, or that was freed, owns neither
   references nor a buffer.                                                *)
NothingLost ==
  \A n \in Notifies : referenced[n] # {} \/ buffer[n] => phase[n] \in {"busy", "calling", "attached"}

(* GIO finds what it uses; what it may call or write to is alive and callable. *)
UsableByGIO == CallbackAlive /\ OnlyCallables /\ BufferLives

(* What a notify owns is counted, and released by the notify.              *)
ExactlyOwned == Exact /\ NothingLost

(* Every reference is released in the end, once results are dropped.       *)
Released == \A n \in Notifies : referenced[n] # {} ~> referenced[n] = {}
=============================================================================
