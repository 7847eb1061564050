------------------------------ MODULE GilState ------------------------------
(***************************************************************************)
(* How PyGObject takes and lets go of Python's global interpreter lock:    *)
(* pyglib_gil_state_ensure and pyglib_gil_state_release around callbacks,  *)
(* pyglib_begin_allow_threads and pyglib_end_allow_threads around calls,   *)
(* and pyglib_enable_threads (glib.threads_init), before which all four    *)
(* do nothing.  Both ends of a bracket test threads_enabled on their own,  *)
(* and gobject keeps a copy of the flag that glib keeps.                   *)
(***************************************************************************)
EXTENDS Naturals, Sequences, FiniteSets

CONSTANTS
  PyThreads, Main,   \* threads that Python starts, and the one it starts in
  NativeThreads,     \* threads of libraries, which only make callbacks
  NoThread,
  MaxDepth,          \* bound on the calls and callbacks nested in a thread
  Disciplined        \* threads_init() is called outside of any bracket

Threads == PyThreads \cup NativeThreads

ASSUME GilAssumption ==
  /\ Main \in PyThreads /\ PyThreads \cap NativeThreads = {}
  /\ NoThread \notin Threads /\ MaxDepth \in Nat /\ Disciplined \in BOOLEAN

VARIABLES
  enabled,  \* _PyGLib_API->threads_enabled
  imported, \* gobject is imported
  noted,    \* pygobject_api_functions.threads_enabled
  inited,   \* the GIL exists (PyEval_InitThreads)
  gil,      \* its holder
  mode,     \* of each thread: in "python", "ready" to go on there, in "native"
            \* code, or "absent"
  stack,    \* of each thread: calls out of and callbacks into Python, with
            \* what their beginning found and did
  count,    \* of each thread: gilstate_counter of its thread state, 0 if none
  fatal     \* Py_FatalError, or a thread state freed in use

flags == <<enabled, imported, noted, inited>>
vars == <<flags, gil, mode, stack, count, fatal>>

Libs == {"glib", "gobject"}
Frames == [kind : {"call", "allow", "ensure"}, lib : Libs, marked : BOOLEAN, took : BOOLEAN]

(* The flag that the code of lib tests.                                    *)
Flag(lib) == IF lib = "glib" THEN enabled ELSE noted

Top(t)     == stack[t][Len(stack[t])]
Push(t, f) == stack' = [stack EXCEPT ![t] = Append(@, f)]
Pop(t)     == stack' = [stack EXCEPT ![t] = SubSeq(@, 1, Len(@) - 1)]
Enter(t, m) == mode' = [mode EXCEPT ![t] = m]

(* The count of a thread state that Python made for a thread starts at one. *)
Base(t) == IF t \in PyThreads THEN 1 ELSE 0
Ensured(t) == {i \in DOMAIN stack[t] : stack[t][i].kind = "ensure" /\ stack[t][i].marked}

TypeOK ==
  /\ enabled \in BOOLEAN /\ imported \in BOOLEAN /\ noted \in BOOLEAN /\ inited \in BOOLEAN
  /\ gil \in Threads \cup {NoThread}
  /\ mode \in [Threads -> {"python", "ready", "native", "absent"}]
  /\ stack \in [Threads -> Seq(Frames)]
  /\ count \in [Threads -> Nat] /\ fatal \in BOOLEAN

Init ==
  /\ enabled = FALSE /\ imported = FALSE /\ noted = FALSE /\ inited = FALSE
  /\ gil = NoThread
  /\ mode = [t \in Threads |-> IF t = Main THEN "python"
                               ELSE IF t \in PyThreads THEN "absent" ELSE "native"]
  /\ stack = [t \in Threads |-> <<>>]
  /\ count = [t \in Threads |-> Base(t)] /\ fatal = FALSE

-----------------------------------------------------------------------------
(* PyEval_InitThreads: the caller gets the new lock.                       *)
InitThreads(t) == inited' = TRUE /\ gil' = IF inited THEN gil ELSE t

(* Python's own threads need the GIL, whatever PyGObject knows of them.    *)
StartThread(t, u) ==
  /\ mode[t] = "python" /\ u \in PyThreads /\ mode[u] = "absent"
  /\ InitThreads(t) /\ Enter(u, "ready")
  /\ UNCHANGED <<enabled, imported, noted, stack, count, fatal>>

(* The evaluation loop lets other threads run between two instructions.    *)
Yield(t) ==
  /\ mode[t] = "python" /\ inited /\ gil = t
  /\ gil' = NoThread /\ Enter(t, "ready")
  /\ UNCHANGED <<flags, stack, count, fatal>>

Resume(t) ==
  /\ mode[t] = "ready" /\ gil = NoThread
  /\ gil' = t /\ Enter(t, "python")
  /\ UNCHANGED <<flags, stack, count, fatal>>

(* import gobject: copies the flag, and asks to be told when it is set.    *)
Import(t) ==
  /\ mode[t] = "python" /\ ~imported
  /\ imported' = TRUE /\ noted' = enabled
  /\ UNCHANGED <<enabled, inited, gil, mode, stack, count, fatal>>

(* pyglib_enable_threads, which calls pyg_note_threads_enabled.            *)
EnableThreads(t) ==
  /\ mode[t] = "python" /\ ~enabled
  /\ Disciplined => \A u \in Threads : stack[u] = <<>>
  /\ InitThreads(t)
  /\ enabled' = TRUE /\ noted' = imported
  /\ UNCHANGED <<imported, mode, stack, count, fatal>>

-----------------------------------------------------------------------------
(* A call into a library that keeps the GIL.                               *)
Call(t) ==
  /\ mode[t] = "python" /\ Len(stack[t]) < MaxDepth
  /\ Push(t, [kind |-> "call", lib |-> "glib", marked |-> FALSE, took |-> FALSE])
  /\ Enter(t, "native")
  /\ UNCHANGED <<flags, gil, count, fatal>>

CallReturn(t) ==
  /\ mode[t] = "native" /\ stack[t] # <<>> /\ Top(t).kind = "call"
  /\ Pop(t) /\ Enter(t, "python")
  /\ UNCHANGED <<flags, gil, count, fatal>>

(* begin_allow_threads, and the call it is for                             *)
BeginAllow(t, lib) ==
  /\ mode[t] = "python" /\ Len(stack[t]) < MaxDepth
  /\ lib = "gobject" => imported
  /\ Push(t, [kind |-> "allow", lib |-> lib, marked |-> Flag(lib), took |-> FALSE])
  /\ gil' = IF Flag(lib) THEN NoThread ELSE gil
  /\ Enter(t, "native")
  /\ UNCHANGED <<flags, count, fatal>>

(* Mutant: the lock is not waited for.                                     *)
EndAllow_Barges(t) ==
  /\ mode[t] = "native" /\ stack[t] # <<>> /\ Top(t).kind = "allow"
  /\ gil' = IF Flag(Top(t).lib) THEN t ELSE gil
  /\ Pop(t) /\ Enter(t, "python")
  /\ UNCHANGED <<flags, count, fatal>>

(* end_allow_threads; PyEval_RestoreThread does not take NULL.             *)
EndAllow(t) ==
  /\ mode[t] = "native" /\ stack[t] # <<>> /\ Top(t).kind = "allow"
  /\ \/ /\ ~Flag(Top(t).lib)
        /\ UNCHANGED <<gil, fatal>>
     \/ /\ Flag(Top(t).lib)
        /\ Top(t).marked => gil = NoThread
        /\ gil' = IF Top(t).marked THEN t ELSE gil
        /\ fatal' = ~Top(t).marked
  /\ Pop(t) /\ Enter(t, "python")
  /\ UNCHANGED <<flags, count>>

(* Mutant: the thread state does not count the callback.                   *)
Ensure_Uncounted(t, lib) ==
  /\ mode[t] = "native" /\ Len(stack[t]) < MaxDepth
  /\ t \in NativeThreads => enabled
  /\ lib = "gobject" => imported
  /\ \/ ~Flag(lib) /\ gil' = gil
     \/ Flag(lib) /\ gil \in {t, NoThread} /\ gil' = t
  /\ Push(t, [kind |-> "ensure", lib |-> lib, marked |-> Flag(lib),
              took |-> Flag(lib) /\ gil # t])
  /\ Enter(t, "python")
  /\ UNCHANGED <<flags, count, fatal>>

(* gil_state_ensure, at the start of a callback                            *)
Ensure(t, lib) ==
  /\ mode[t] = "native" /\ Len(stack[t]) < MaxDepth
  /\ t \in NativeThreads => enabled
  /\ lib = "gobject" => imported
  /\ \/ /\ ~Flag(lib)
        /\ Push(t, [kind |-> "ensure", lib |-> lib, marked |-> FALSE, took |-> FALSE])
        /\ UNCHANGED <<gil, count>>
     \/ /\ Flag(lib) /\ gil \in {t, NoThread}
        /\ Push(t, [kind |-> "ensure", lib |-> lib, marked |-> TRUE, took |-> gil # t])
        /\ gil' = t /\ count' = [count EXCEPT ![t] = @ + 1]
  /\ Enter(t, "python")
  /\ UNCHANGED <<flags, fatal>>

(* Mutant: the GIL is let go of whoever had it before.                     *)
Release_Always(t) ==
  /\ mode[t] = "python" /\ stack[t] # <<>> /\ Top(t).kind = "ensure"
  /\ \/ ~Flag(Top(t).lib) /\ UNCHANGED <<gil, count, fatal>>
     \/ /\ Flag(Top(t).lib)
        /\ count' = [count EXCEPT ![t] = @ - 1]
        /\ gil' = NoThread /\ UNCHANGED fatal
  /\ Pop(t) /\ Enter(t, "native")
  /\ UNCHANGED flags

(* Mutant: the GIL is kept by the thread that took it.                     *)
Release_Never(t) ==
  /\ mode[t] = "python" /\ stack[t] # <<>> /\ Top(t).kind = "ensure"
  /\ Pop(t) /\ Enter(t, "native")
  /\ UNCHANGED <<flags, gil, count, fatal>>

(* gil_state_release: when the count reaches 0, the thread state is deleted,
   which a thread of Python's does not survive.                            *)
Release(t) ==
  /\ mode[t] = "python" /\ stack[t] # <<>> /\ Top(t).kind = "ensure"
  /\ \/ ~Flag(Top(t).lib) /\ UNCHANGED <<gil, count, fatal>>
     \/ /\ Flag(Top(t).lib)
        /\ count' = [count EXCEPT ![t] = @ - 1]
        /\ gil' = IF Top(t).took \/ count[t] = 1 THEN NoThread ELSE gil
        /\ fatal' = (gil # t \/ (count[t] = 1 /\ t \in PyThreads))
  /\ Pop(t) /\ Enter(t, "native")
  /\ UNCHANGED flags

-----------------------------------------------------------------------------
Step(t) ==
  \/ \E u \in Threads : StartThread(t, u)
  \/ Yield(t) \/ Resume(t) \/ Import(t) \/ EnableThreads(t)
  \/ Call(t) \/ CallReturn(t) \/ EndAllow(t) \/ Release(t)
  \/ \E lib \in Libs : BeginAllow(t, lib) \/ Ensure(t, lib)

Next == ~fatal /\ \E t \in Threads : Step(t)

Spec == Init /\ [][Next]_vars

(* Python switches threads, and calls that keep the GIL return.            *)
FairSpec ==
  /\ Spec
  /\ \A t \in Threads : SF_vars(Yield(t)) /\ SF_vars(Resume(t)) /\ WF_vars(CallReturn(t))

-----------------------------------------------------------------------------
(* Properties                                                              *)

(* Python code runs in one thread at a time, and with the GIL once there is
   one.                                                                    *)
MutualExclusion ==
  \A t \in Threads : mode[t] = "python" =>
    /\ inited => gil = t
    /\ \A u \in Threads : mode[u] = "python" => u = t

(* No bracket ends what it did not begin.                                  *)
NoFatal == ~fatal

(* Native code gets the GIL back from a callback as it gave it: it has it
   exactly if Python called it without letting go.                         *)
Restored ==
  inited => \A t \in Threads : mode[t] = "native" =>
    (gil = t <=> stack[t] # <<>> /\ ~(Top(t).kind = "allow" /\ Top(t).marked))

(* A thread state lives as long as a callback uses it.                     *)
Counted == \A t \in Threads : count[t] = Base(t) + Cardinality(Ensured(t))

(* The two copies of the flag agree: a callback of gobject's takes the GIL
   exactly if one of glib's does.                                          *)
Agree == imported => noted = enabled

(* Once threads are enabled, a Python thread is not starved by one that is
   in a library for ever.                                                  *)
Served == \A t \in PyThreads : (enabled /\ mode[t] = "ready") ~> mode[t] = "python"
=============================================================================
