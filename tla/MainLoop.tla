------------------------------ MODULE MainLoop ------------------------------
(***************************************************************************)
(* glib.MainLoop and glib.MainContext (glib/pygmainloop.c and              *)
(* glib/pygmaincontext.c): the innermost loop that each thread runs, kept  *)
(* in a thread-specific value, and the delivery of Unix signals to Python  *)
(* handlers.  Python writes a byte to a pipe for each signal; a source of  *)
(* every MainLoop polls the one pipe, reads a byte when it is woken, and   *)
(* has the signals checked, which only Python's main thread does.          *)
(***************************************************************************)
EXTENDS Naturals, Sequences, FiniteSets, SequencesExt

CONSTANTS
  Threads, Main, NoThread, \* Python's threads and its main thread
  Loops, NoLoop, Contexts,
  Ctx,        \* the context of each loop
  Home,       \* the threads that run or iterate each context
  MaxNest,    \* bound on nested runs in a thread
  MaxSignals, \* bound on the signals sent
  PipeSize    \* capacity of the pipe

ASSUME MainLoopAssumption ==
  /\ IsFiniteSet(Threads) /\ Main \in Threads /\ NoThread \notin Threads /\ NoLoop \notin Loops
  /\ Ctx \in [Loops -> Contexts] /\ Home \in [Contexts -> SUBSET Threads]
  /\ MaxNest \in Nat /\ MaxSignals \in Nat /\ PipeSize \in Nat \ {0}

VARIABLES
  made,    \* loops that have a MainLoop object, and a signal source
  running, \* of each loop: is_running
  refs,    \* of each loop: references that the thread-specific values own
  owner,   \* of each context: the thread that iterates it
  frames,  \* of each thread: runs and iterations in progress, innermost last
  current, \* of each thread: pyg_current_main_loop
  err,     \* of each thread: what became of the last exception set under a loop
  wakeup,  \* Python writes to the pipe
  pipe,    \* bytes in it
  tripped, \* signals wait for a check
  sent     \* signals sent

loopVars == <<made, running>>
sigVars  == <<wakeup, pipe, tripped, sent>>
vars == <<loopVars, refs, owner, frames, current, err, sigVars>>

Phases == {"wait", "poll", "check", "callback"}
Frames == [loop : Loops \cup {NoLoop}, ctx : Contexts, prev : Loops \cup {NoLoop},
           phase : Phases, todo : SUBSET Loops, woken : BOOLEAN]

(* It is set, then raised by run(), or lost when a callback fails and its
   own exception is printed.                                               *)
Fates == {"none", "set", "raised", "printed"}

TypeOK ==
  /\ made \in SUBSET Loops /\ running \in [Loops -> BOOLEAN]
  /\ refs \in [Loops -> Nat] /\ owner \in [Contexts -> Threads \cup {NoThread}]
  /\ frames \in [Threads -> Seq(Frames)]
  /\ current \in [Threads -> Loops \cup {NoLoop}] /\ err \in [Threads -> Fates]
  /\ wakeup \in BOOLEAN /\ pipe \in 0..PipeSize /\ tripped \in BOOLEAN
  /\ sent \in 0..MaxSignals

Init ==
  /\ made = {} /\ running = [l \in Loops |-> FALSE]
  /\ refs = [l \in Loops |-> 0] /\ owner = [c \in Contexts |-> NoThread]
  /\ frames = [t \in Threads |-> <<>>] /\ current = [t \in Threads |-> NoLoop]
  /\ err = [t \in Threads |-> "none"]
  /\ wakeup = FALSE /\ pipe = 0 /\ tripped = FALSE /\ sent = 0

-----------------------------------------------------------------------------
Top(t) == Last(frames[t])
In(t, phase) == frames[t] # <<>> /\ Top(t).phase = phase
Runs(t, l) == \E i \in DOMAIN frames[t] : frames[t][i].loop = l

(* Python code of t is about to make a call; the main thread handles
   signals first.                                                          *)
InPython(t) == (frames[t] = <<>> \/ In(t, "callback")) /\ (t = Main => ~tripped)

Ownable(t, c) == owner[c] \in {t, NoThread}

(* Frame f of t goes on as g.                                              *)
Become(t, g) == frames' = [frames EXCEPT ![t] = Append(Front(@), g)]

(* t gives the context of its innermost frame back with its outermost use. *)
GiveBack(t) ==
  owner' = IF \E i \in 1..(Len(frames[t]) - 1) :
                frames[t][i].ctx = Top(t).ctx /\ frames[t][i].phase # "wait"
           THEN owner ELSE [owner EXCEPT ![Top(t).ctx] = IF @ = t THEN NoThread ELSE @]

(* Mutant: Python is not given the pipe.                                 *)
Create_NoWakeup(t, l, r) ==
  /\ InPython(t) /\ l \notin made
  /\ made' = made \cup {l} /\ running' = [running EXCEPT ![l] = r]
  /\ wakeup' = wakeup
  /\ UNCHANGED <<refs, owner, frames, current, err, pipe, tripped, sent>>

(* pyg_main_loop_init and pyg_signal_watch_new: the first one makes the
   pipe and has Python write to it.                                        *)
Create(t, l, r) ==
  /\ InPython(t) /\ l \notin made
  /\ made' = made \cup {l} /\ running' = [running EXCEPT ![l] = r]
  /\ wakeup' = TRUE
  /\ UNCHANGED <<refs, owner, frames, current, err, pipe, tripped, sent>>

(* pyg_main_loop_dealloc                                                   *)
Dealloc(t, l) ==
  /\ InPython(t) /\ l \in made /\ \A u \in Threads : ~Runs(u, l)
  /\ made' = made \ {l}
  /\ UNCHANGED <<running, refs, owner, frames, current, err, sigVars>>

(* pyg_save_current_main_loop, and g_main_loop_run, which sets is_running
   again and waits for the context when another thread has it.             *)
Run(t, l) ==
  /\ InPython(t) /\ l \in made /\ t \in Home[Ctx[l]] /\ Len(frames[t]) < MaxNest
  /\ current' = [current EXCEPT ![t] = l]
  /\ refs' = [refs EXCEPT ![l] = @ + 1]
  /\ running' = [running EXCEPT ![l] = TRUE]
  /\ owner' = IF Ownable(t, Ctx[l]) THEN [owner EXCEPT ![Ctx[l]] = t] ELSE owner
  /\ frames' = [frames EXCEPT ![t] = Append(@,
       [loop |-> l, ctx |-> Ctx[l], prev |-> current[t], todo |-> {}, woken |-> FALSE,
        phase |-> IF Ownable(t, Ctx[l]) THEN "poll" ELSE "wait"])]
  /\ UNCHANGED <<made, err, sigVars>>

Acquire(t) ==
  /\ In(t, "wait") /\ running[Top(t).loop] /\ Ownable(t, Top(t).ctx)
  /\ owner' = [owner EXCEPT ![Top(t).ctx] = t]
  /\ Become(t, [Top(t) EXCEPT !.phase = "poll"])
  /\ UNCHANGED <<loopVars, refs, current, err, sigVars>>

(* _wrap_g_main_context_iteration leaves the current loop alone.           *)
Iterate(t, c) ==
  /\ InPython(t) /\ t \in Home[c] /\ Ownable(t, c) /\ Len(frames[t]) < MaxNest
  /\ owner' = [owner EXCEPT ![c] = t]
  /\ frames' = [frames EXCEPT ![t] = Append(@,
       [loop |-> NoLoop, ctx |-> c, prev |-> NoLoop, todo |-> {}, woken |-> FALSE,
        phase |-> "poll"])]
  /\ UNCHANGED <<loopVars, refs, current, err, sigVars>>

(* _wrap_g_main_loop_quit, by any thread                                   *)
Quit(t, l) ==
  /\ InPython(t) /\ l \in made
  /\ running' = [running EXCEPT ![l] = FALSE]
  /\ UNCHANGED <<made, refs, owner, frames, current, err, sigVars>>

-----------------------------------------------------------------------------
(* One iteration of a context: the poll, which is woken by the pipe or by
   something else, the check of each source, and callbacks.                *)
GoesOn(t)   == In(t, "poll") /\ (Top(t).loop \in Loops => running[Top(t).loop])
Sources(c)  == {l \in made : Ctx[l] = c}
Readable(t) == pipe > 0 /\ Sources(Top(t).ctx) # {}

StartCheck(t, woken) ==
  Become(t, [Top(t) EXCEPT !.phase = "check", !.woken = woken,
                           !.todo = Sources(Top(t).ctx)])

PollPipe(t) ==
  /\ GoesOn(t) /\ Readable(t)
  /\ StartCheck(t, TRUE)
  /\ UNCHANGED <<loopVars, refs, owner, current, err, sigVars>>

PollOther(t) ==
  /\ GoesOn(t)
  /\ StartCheck(t, Readable(t))
  /\ UNCHANGED <<loopVars, refs, owner, current, err, sigVars>>

(* PyErr_CheckSignals by t calls the Python handlers: they raise, or quit a
   loop, or do neither.                                                    *)
CheckSignals(t) ==
  IF t = Main /\ tripped
  THEN /\ tripped' = FALSE
       /\ \/ /\ current[t] # NoLoop
             /\ running' = [running EXCEPT ![current[t]] = FALSE]
             /\ err' = [err EXCEPT ![t] = "set"]
          \/ current[t] = NoLoop /\ err' = [err EXCEPT ![t] = "set"] /\ UNCHANGED running
          \/ \E l \in made : /\ running' = [running EXCEPT ![l] = FALSE]
                             /\ UNCHANGED err
          \/ UNCHANGED <<running, err>>
  ELSE UNCHANGED <<tripped, running, err>>

(* Mutant: the pipe is read whether it is readable or not.                 *)
Check_AlwaysReads(t, l) ==
  /\ In(t, "check") /\ l \in Top(t).todo /\ pipe > 0
  /\ pipe' = pipe - 1
  /\ CheckSignals(t)
  /\ Become(t, [Top(t) EXCEPT !.todo = @ \ {l}])
  /\ UNCHANGED <<made, refs, owner, current, wakeup, sent>>

(* pyg_signal_watch_check for the source of loop l; the read end of the
   pipe blocks when there is nothing in it.                                *)
Check(t, l) ==
  /\ In(t, "check") /\ l \in Top(t).todo
  /\ IF l \in made
     THEN /\ Top(t).woken => pipe > 0
          /\ pipe' = IF Top(t).woken THEN pipe - 1 ELSE pipe
          /\ CheckSignals(t)
     ELSE UNCHANGED <<pipe, tripped, running, err>>
  /\ Become(t, [Top(t) EXCEPT !.todo = @ \ {l}])
  /\ UNCHANGED <<made, refs, owner, current, wakeup, sent>>

(* The iteration ends, or calls back into Python.                          *)
Dispatch(t) ==
  /\ In(t, "check") /\ Top(t).todo = {}
  /\ Become(t, [Top(t) EXCEPT !.phase = "callback", !.woken = FALSE])
  /\ UNCHANGED <<loopVars, refs, owner, current, err, sigVars>>

(* A callback that fails has its exception printed, which loses one that was
   set before.  An iteration() is over then, with whatever exception is set. *)
Lost(t) == err' = [err EXCEPT ![t] = IF @ = "set" THEN "printed" ELSE @]

EndIteration(t) ==
  /\ In(t, "callback")
  /\ UNCHANGED err \/ Lost(t)
  /\ IF Top(t).loop # NoLoop
     THEN Become(t, [Top(t) EXCEPT !.phase = "poll"]) /\ UNCHANGED owner
     ELSE frames' = [frames EXCEPT ![t] = Front(@)] /\ GiveBack(t)
  /\ UNCHANGED <<loopVars, refs, current, sigVars>>

(* run() raises an exception that is set.                                  *)
Raise(t) == err' = [err EXCEPT ![t] = IF @ = "set" THEN "raised" ELSE @]

(* Mutant: the outer loop is forgotten.                                    *)
Return_NoPrev(t) ==
  /\ In(t, "poll") \/ In(t, "wait")
  /\ Top(t).loop # NoLoop /\ ~running[Top(t).loop]
  /\ frames' = [frames EXCEPT ![t] = Front(@)] /\ GiveBack(t)
  /\ refs' = IF current[t] = NoLoop THEN refs ELSE [refs EXCEPT ![current[t]] = @ - 1]
  /\ current' = [current EXCEPT ![t] = NoLoop]
  /\ Raise(t)
  /\ UNCHANGED <<loopVars, sigVars>>

(* Mutant: run() does not look at the exception.                           *)
Return_NoRaise(t) ==
  /\ In(t, "poll") \/ In(t, "wait")
  /\ Top(t).loop # NoLoop /\ ~running[Top(t).loop]
  /\ frames' = [frames EXCEPT ![t] = Front(@)] /\ GiveBack(t)
  /\ refs' = IF current[t] = NoLoop THEN refs ELSE [refs EXCEPT ![current[t]] = @ - 1]
  /\ current' = [current EXCEPT ![t] = Top(t).prev]
  /\ UNCHANGED <<loopVars, err, sigVars>>

(* g_main_loop_run returns and the outer loop is restored; an exception that
   is set is raised by run().                                              *)
Return(t) ==
  /\ In(t, "poll") \/ In(t, "wait")
  /\ Top(t).loop # NoLoop /\ ~running[Top(t).loop]
  /\ frames' = [frames EXCEPT ![t] = Front(@)] /\ GiveBack(t)
  /\ refs' = IF current[t] = NoLoop THEN refs ELSE [refs EXCEPT ![current[t]] = @ - 1]
  /\ current' = [current EXCEPT ![t] = Top(t).prev]
  /\ Raise(t)
  /\ UNCHANGED <<loopVars, sigVars>>

-----------------------------------------------------------------------------
(* A signal reaches the process in thread t, and interrupts its poll.      *)
Signal(t) ==
  /\ sent < MaxSignals /\ sent' = sent + 1
  /\ tripped' = TRUE
  /\ pipe' = IF wakeup /\ pipe < PipeSize THEN pipe + 1 ELSE pipe
  /\ \/ UNCHANGED frames
     \/ GoesOn(t) /\ StartCheck(t, FALSE)
  /\ UNCHANGED <<loopVars, refs, owner, current, err, wakeup>>

(* Python code of the main thread handles the signal between two bytecodes;
   what it raises there is its own.                                        *)
Handle ==
  /\ tripped /\ (frames[Main] = <<>> \/ In(Main, "callback"))
  /\ tripped' = FALSE
  /\ \/ \E l \in made : /\ running' = [running EXCEPT ![l] = FALSE]
     \/ UNCHANGED running
  /\ UNCHANGED <<made, refs, owner, frames, current, err, wakeup, pipe, sent>>

Step(t) ==
  \/ \E l \in Loops : \/ \E r \in BOOLEAN : Create(t, l, r)
                      \/ Dealloc(t, l) \/ Run(t, l) \/ Quit(t, l) \/ Check(t, l)
  \/ \E c \in Contexts : Iterate(t, c)
  \/ Acquire(t) \/ PollPipe(t) \/ PollOther(t) \/ Dispatch(t) \/ EndIteration(t) \/ Return(t)
  \/ Signal(t)

Next == Handle \/ \E t \in Threads : Step(t)

Spec == Init /\ [][Next]_vars

(* Callbacks return, Python handles signals before its next call and GLib
   goes on with what it has begun; nothing but the pipe is certain to end a
   poll.                                                                   *)
FairSpec ==
  /\ Spec /\ WF_vars(Handle)
  /\ \A t \in Threads :
       /\ WF_vars(PollPipe(t)) /\ WF_vars(\E l \in Loops : Check(t, l))
       /\ WF_vars(Dispatch(t)) /\ WF_vars(Return(t))
       /\ SF_vars(EndIteration(t)) /\ SF_vars(Acquire(t))

-----------------------------------------------------------------------------
(* Properties                                                              *)

(* l is the loop of the innermost run among the first n frames of t.       *)
Innermost(t, n, l) ==
  \/ l = NoLoop /\ \A i \in 1..n : frames[t][i].loop = NoLoop
  \/ \E i \in 1..n : /\ l = frames[t][i].loop /\ l # NoLoop
                     /\ \A j \in (i + 1)..n : frames[t][j].loop = NoLoop

RunsOf(l) ==
  {p \in Threads \X (1..MaxNest) : p[2] \in DOMAIN frames[p[1]] /\ frames[p[1]][p[2]].loop = l}

(* After any nesting of runs and iterations, the thread's value is the loop
   of its innermost run, and owns one reference for each of its runs.      *)
Restored ==
  /\ \A t \in Threads : Innermost(t, Len(frames[t]), current[t])
  /\ \A l \in Loops : refs[l] = Cardinality(RunsOf(l))

(* The process has one MainLoop, the main thread alone iterates its context
   and its callbacks start no loop or iteration of their own.              *)
Alone ==
  /\ Cardinality(made) <= 1 /\ Len(frames[Main]) <= 1
  /\ \A t \in Threads \ {Main} : \A i \in DOMAIN frames[t] :
       frames[t][i].ctx \notin {Ctx[l] : l \in made}

(* Then a signal that finds the main thread in the poll of a loop is
   handled, whichever thread the kernel gives it to.                       *)
SignalSeen ==
  []Alone => ((tripped /\ GoesOn(Main) /\ Top(Main).loop \in Loops) ~> ~tripped)

(* Then the exception that ends a loop is raised by the run() of that loop,
   unless a callback of the same iteration fails after it.                 *)
InterruptEnds ==
  []Alone /\ [](err[Main] # "printed") =>
    ((err[Main] = "set" /\ current[Main] # NoLoop /\ ~running[current[Main]])
       ~> err[Main] = "raised")

(* A loop that has been quit ends, unless it is run again ...              *)
QuitEnds == \A l \in Loops : (~running[l]) ~> (running[l] \/ \A t \in Threads : ~Runs(t, l))

(* ... which is certain only of a single loop.                             *)
QuitEndsAlone == []Alone => QuitEnds
=============================================================================
