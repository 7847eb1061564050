---------------------------- MODULE GilStateInv -----------------------------
(***************************************************************************)
(* The inductive invariant of GilState when threads_init() is called       *)
(* outside of any bracket: what each frame of a thread's stack remembers   *)
(* about the frame below it, and so about the GIL.                         *)
(***************************************************************************)
EXTENDS GilState

(* Native code that frame i of t went into has the GIL.                    *)
Keeps(t, i) == i # 0 /\ ~(stack[t][i].kind = "allow" /\ stack[t][i].marked)

(* A bracket is marked exactly if threads are enabled, and a callback took
   the GIL exactly if the code below did not have it.                      *)
FramesOK(t) ==
  \A i \in DOMAIN stack[t] :
    /\ stack[t][i].kind # "call" => stack[t][i].marked = enabled
    /\ stack[t][i].kind = "ensure" => (stack[t][i].took <=> ~Keeps(t, i - 1))
    /\ stack[t][i].lib = "gobject" => imported

(* Only a library's thread begins with a callback, and only when threads are
   enabled.                                                                *)
BottomOK(t) ==
  /\ stack[t] # <<>> => (stack[t][1].kind = "ensure" <=> t \in NativeThreads)
  /\ t \in NativeThreads /\ ~enabled => stack[t] = <<>>
  /\ mode[t] = "native" => stack[t] # <<>> \/ t \in NativeThreads
  /\ mode[t] # "native" => stack[t] # <<>> \/ t \in PyThreads
  /\ mode[t] = "absent" => stack[t] = <<>>

HolderOK(t) ==
  inited => /\ mode[t] = "python" => gil = t
            /\ mode[t] = "native" => (gil = t <=> Keeps(t, Len(stack[t])))

(* Until the GIL exists only the main thread runs Python code.             *)
EarlyOK ==
  /\ enabled => inited
  /\ ~inited => /\ gil = NoThread /\ mode[Main] # "ready"
                /\ \A t \in Threads \ {Main} : mode[t] \in {"absent", "native"} /\ stack[t] = <<>>

Inv ==
  /\ TypeOK /\ NoFatal /\ Agree /\ EarlyOK /\ Counted
  /\ \A t \in Threads : FramesOK(t) /\ BottomOK(t) /\ HolderOK(t)
=============================================================================
