------------------------------ MODULE Sources ------------------------------
(***************************************************************************)
(* The life of one GSource that Python code makes: an object of glib.Idle, *)
(* glib.Timeout or a subclass of glib.Source (glib/pygsource.c), or what   *)
(* glib.idle_add() and its relatives make without an object                *)
(* (glib/glibmodule.c).                                                    *)
(*                                                                         *)
(* A GSource lives by the references of its object, of its context and of  *)
(* the calls that the context makes.  It refers to the object of a         *)
(* glib.Source for its methods, with no reference but the one that         *)
(* attach() takes.  The context calls without the GIL: another thread may  *)
(* change the source between GLib's choice to call and the call.           *)
(***************************************************************************)
EXTENDS Integers, Sequences, SequencesExt

CONSTANTS
  Threads,
  Datas, NoData, \* what callbacks are called with, with their references
  MaxAttach,     \* bound on calls of attach()
  MaxNest        \* bound on calls of the context in a thread

ASSUME SourcesAssumption == NoData \notin Datas /\ MaxAttach \in Nat /\ MaxNest \in Nat

VARIABLES
  kind,      \* "source" (glib.Source), "idle" (glib.Idle, glib.Timeout),
             \* "function" (idle_add, timeout_add), "watch", "child" or
             \* "channel" (the add_watch method of a glib.IOChannel)
  remote,    \* Python code changes the source in threads that do not call it
  object,    \* the Python object: "none", "live" or "freed"
  held,      \* Python code references it
  attaches,  \* references that attach() took and destroy() has not dropped
  source,    \* self->source is set
  owns,      \* the object's reference to the GSource is not dropped
  gsource,   \* the GSource: "none", "live" or "finalized"
  context,   \* source->context is set
  destroyed, \* the GSource is destroyed
  ending,    \* threads in destroy() that are to forget the GSource
  recurse,   \* can_recurse
  data,      \* the callback data of the GSource
  datas,     \* of each data: "unused", "owned" or "released"
  calls,     \* of each thread: the calls in progress, innermost last
  over,      \* the callback returned FALSE, or Python code removed the source
  misused    \* attach() was called again, set_callback() after the end, or
             \* destroy() while another one had yet to forget the GSource

Kinds == {"source", "idle", "function", "watch", "child", "channel"}
Results == {"true", "false", "raised", "unclear"} \* "unclear": truth raises an exception
fixed == <<kind, remote>>
vars == <<fixed, ending, object, held, attaches, source, owns, gsource, context, destroyed,
          recurse, data, datas, calls, over, misused>>

Call == [what : {"prepare", "check", "dispatch"}, data : Datas \cup {NoData}, running : BOOLEAN]

TypeOK ==
  /\ kind \in Kinds /\ remote \in BOOLEAN
  /\ object \in {"none", "live", "freed"} /\ held \in BOOLEAN /\ attaches \in (-1)..MaxAttach
  /\ source \in BOOLEAN /\ owns \in BOOLEAN /\ gsource \in {"none", "live", "finalized"}
  /\ context \in BOOLEAN /\ destroyed \in BOOLEAN /\ recurse \in BOOLEAN
  /\ data \in Datas \cup {NoData} /\ datas \in [Datas -> {"unused", "owned", "released"}]
  /\ calls \in [Threads -> Seq(Call)] /\ over \in BOOLEAN /\ misused \in BOOLEAN
  /\ ending \subseteq Threads

Init ==
  /\ kind \in Kinds /\ remote \in BOOLEAN
  /\ object = "none" /\ held = FALSE /\ attaches = 0 /\ source = FALSE /\ owns = FALSE
  /\ gsource = "none" /\ context = FALSE /\ destroyed = FALSE /\ recurse = FALSE /\ ending = {}
  /\ data = NoData /\ datas = [d \in Datas |-> "unused"]
  /\ calls = [t \in Threads |-> <<>>] /\ over = FALSE /\ misused = FALSE

-----------------------------------------------------------------------------
Attached == context /\ ~destroyed
Busy(cs) == \E t \in Threads : cs[t] # <<>>
InCall(t) == calls[t] # <<>> /\ Last(calls[t]).running

(* A bound method that is being called references the object.              *)
Bound(cs) == kind = "source" /\ \E t \in Threads : \E i \in DOMAIN cs[t] : cs[t][i].running

(* g_main_dispatch references the data of the callback it calls.           *)
Lent(cs) == UNION {{cs[t][i].data : i \in DOMAIN cs[t]} : t \in Threads}

(* Python code runs in t, and may change the source.                       *)
InPython(t) ==
  /\ calls[t] = <<>> \/ InCall(t)
  /\ ~remote => (Busy(calls) => calls[t] # <<>>)

(* ... and has its object.                                                 *)
Has(t) == InPython(t) /\ object = "live" /\ (held \/ (kind = "source" /\ InCall(t)))

(* Mutant: the data of a child watch has no destroy notification.          *)
Dropped_NoChild(used) == {e \in Datas : datas[e] = "owned" /\ e \notin used /\ kind # "child"}

(* _pyglib_destroy_notify, child_watch_dnotify and pyg_iowatch_data_free get
   the data that is no longer used; the last two do not take the GIL.      *)
Dropped(used) == {e \in Datas : datas[e] = "owned" /\ e \notin used}

(* What follows a step after which self->source is src, the object's
   reference own and the callback data d.  Without references the object is
   freed (pyg_source_dealloc and pyg_source_clear); without references the
   GSource is finalized; data that neither the GSource nor a call uses is
   released.                                                               *)
Settle(src, own, d) ==
  LET kept == object = "live" /\ (held' \/ attaches' > 0 \/ ending' # {} \/ Bound(calls'))
      mine == own /\ (kept \/ ~src)
      refd == mine \/ (context' /\ ~destroyed') \/ Busy(calls')
      left == IF refd THEN d ELSE NoData
      used == {left} \cup Lent(calls')
  IN  /\ object' = IF object = "live" /\ ~kept THEN "freed" ELSE object
      /\ source' = (src /\ kept) /\ owns' = mine /\ data' = left
      /\ gsource' = IF refd THEN "live" ELSE "finalized"
      /\ datas' = [e \in Datas |->
           CASE e \in Dropped(used) -> "released" [] e = left -> "owned" [] OTHER -> datas[e]]

-----------------------------------------------------------------------------
(* The operations of Python code                                           *)

(* pyg_source_init, pyg_idle_init, pyg_timeout_init                        *)
Create(t) ==
  /\ gsource = "none" /\ kind \in {"source", "idle"} /\ InPython(t)
  /\ object' = "live" /\ held' = TRUE /\ source' = TRUE /\ owns' = TRUE /\ gsource' = "live"
  /\ UNCHANGED <<fixed, ending, attaches, context, destroyed, recurse, data, datas, calls, over,
                 misused>>

(* A source without an object, that starts with its data.                  *)
Install(t, d) ==
  /\ gsource = "none" /\ InPython(t)
  /\ gsource' = "live" /\ context' = TRUE
  /\ data' = d /\ datas' = [datas EXCEPT ![d] = "owned"]
  /\ UNCHANGED <<fixed, ending, object, held, attaches, source, owns, destroyed, recurse, calls,
                 over, misused>>

Add(t, d)      == kind = "function" /\ Install(t, d)
AddWatch(t, d) == kind = "watch" /\ Install(t, d)
AddChild(t, d) == kind = "child" /\ Install(t, d)
AddChannelWatch(t, d) == kind = "channel" /\ Install(t, d)

(* Mutant: the context calls an object that it has no reference to.        *)
Attach_NoIncref(t) ==
  /\ Has(t) /\ source /\ attaches < MaxAttach
  /\ context' = TRUE /\ misused' = (misused \/ context)
  /\ UNCHANGED <<fixed, ending, object, held, attaches, source, owns, gsource, destroyed, recurse,
                 data, datas, calls, over>>

(* GLib attaches a GSource once; the reference is taken each time.         *)
Attach(t) ==
  /\ Has(t) /\ source /\ attaches < MaxAttach
  /\ attaches' = IF kind = "source" THEN attaches + 1 ELSE attaches
  /\ context' = TRUE /\ misused' = (misused \/ context)
  /\ UNCHANGED <<fixed, ending, object, held, source, owns, gsource, destroyed, recurse, data,
                 datas, calls, over>>

(* The GSource lets go of its callback data, and Python code that this runs
   sees that destroy() has not forgotten the GSource yet.                  *)
Finalizing == Attached /\ data \notin {NoData} \cup Lent(calls)

(* Mutant: destroy() drops attach()'s reference only while the source is in
   the context.                                                            *)
Destroy_IfAttached(t) ==
  /\ Has(t) /\ source
  /\ attaches' = IF kind = "source" /\ Attached THEN attaches - 1 ELSE attaches
  /\ ending' = IF Finalizing THEN ending \cup {t} ELSE ending
  /\ destroyed' = TRUE /\ over' = TRUE /\ misused' = (misused \/ ending # {})
  /\ UNCHANGED <<fixed, held, context, recurse, calls>>
  /\ Settle(Finalizing, owns, IF Attached THEN NoData ELSE data)

(* destroy() forgets the GSource with the reference to it.  A GSource drops
   its callback data only if it is destroyed in a context.  What that runs
   may call destroy() again, which drops attach()'s reference again.       *)
Destroy(t) ==
  /\ Has(t) /\ source
  /\ attaches' = IF kind = "source" /\ context THEN attaches - 1 ELSE attaches
  /\ ending' = IF Finalizing THEN ending \cup {t} ELSE ending
  /\ destroyed' = TRUE /\ over' = TRUE /\ misused' = (misused \/ ending # {})
  /\ UNCHANGED <<fixed, held, context, recurse, calls>>
  /\ Settle(Finalizing, owns, IF Attached THEN NoData ELSE data)

(* ... after the Python code that dropping the data has run.               *)
Forget(t) ==
  /\ t \in ending /\ ending' = ending \ {t}
  /\ UNCHANGED <<fixed, held, attaches, context, destroyed, recurse, calls, over, misused>>
  /\ Settle(FALSE, owns, data)

(* glib.source_remove() knows nothing of the object.                       *)
SourceRemove(t) ==
  /\ InPython(t) /\ Attached
  /\ destroyed' = TRUE /\ over' = TRUE
  /\ UNCHANGED <<fixed, ending, held, attaches, context, recurse, calls, misused>>
  /\ Settle(source, owns, NoData)

SetCallback(t, d) ==
  /\ Has(t) /\ source /\ datas[d] = "unused"
  /\ misused' = (misused \/ destroyed)
  /\ UNCHANGED <<fixed, ending, held, attaches, context, destroyed, recurse, calls, over>>
  /\ Settle(source, owns, d)

SetCanRecurse(t) ==
  /\ Has(t) /\ source /\ recurse' = ~recurse
  /\ UNCHANGED <<fixed, ending, object, held, attaches, source, owns, gsource, context, destroyed,
                 data, datas, calls, over, misused>>

(* Frames and variables get the object, and let go of it.                  *)
Keep(t) ==
  /\ Has(t) /\ ~held /\ held' = TRUE
  /\ UNCHANGED <<fixed, ending, object, attaches, source, owns, gsource, context, destroyed,
                 recurse, data, datas, calls, over, misused>>

LetGo(t) ==
  /\ InPython(t) /\ held /\ held' = FALSE
  /\ UNCHANGED <<fixed, ending, attaches, context, destroyed, recurse, calls, over, misused>>
  /\ Settle(source, owns, data)

-----------------------------------------------------------------------------
(* The calls of the context                                                *)

(* GLib chooses to call the source, in the one thread that iterates the
   context, and not again in a dispatch unless the source can recurse.     *)
Begin(t, what) ==
  /\ Attached /\ Len(calls[t]) < MaxNest
  /\ \A u \in Threads \ {t} : calls[u] = <<>>
  /\ calls[t] # <<>> => InCall(t) /\ Last(calls[t]).what = "dispatch" /\ recurse
  /\ kind # "source" => what = "dispatch" /\ data # NoData
  /\ calls' = [calls EXCEPT ![t] = Append(@,
       [what |-> what, data |-> IF what = "dispatch" THEN data ELSE NoData, running |-> FALSE])]
  /\ UNCHANGED <<fixed, ending, object, held, attaches, source, owns, gsource, context, destroyed,
                 recurse, data, datas, over, misused>>

(* The thread has the GIL and calls the method or the callback.            *)
Enter(t) ==
  /\ calls[t] # <<>> /\ ~InCall(t)
  /\ kind = "source" => object = "live"
  /\ calls' = [calls EXCEPT ![t] = Append(Front(@), [Last(@) EXCEPT !.running = TRUE])]
  /\ UNCHANGED <<fixed, ending, object, held, attaches, source, owns, gsource, context, destroyed,
                 recurse, data, datas, over, misused>>

(* pyg_iowatch_marshal returns what PyObject_IsTrue does, -1 for an exception. *)
ChannelMore(result) == result \in {"true", "unclear"}

(* _pyglib_handler_marshal, and the other marshallers, make a callback that
   fails a FALSE one, and one whose result has no truth value a TRUE one.  *)
More(result) ==
  \/ kind = "channel" /\ ChannelMore(result)
  \/ kind \notin {"child", "channel"} /\ result \in {"true", "unclear"}

(* Mutant: a callback that returns FALSE is called again.                  *)
Return_IgnoresFalse(t, result) ==
  /\ InCall(t) /\ t \notin ending
  /\ calls' = [calls EXCEPT ![t] = Front(@)]
  /\ over' = (over \/ (Last(calls[t]).what = "dispatch" /\ ~More(result)))
  /\ UNCHANGED <<fixed, ending, held, attaches, context, destroyed, recurse, misused>>
  /\ Settle(source, owns, data)

(* A source whose dispatch returns FALSE is destroyed, as a child watch
   always is.                                                              *)
Return(t, result) ==
  LET ends == Last(calls[t]).what = "dispatch" /\ ~More(result) IN
  /\ InCall(t) /\ t \notin ending
  /\ calls' = [calls EXCEPT ![t] = Front(@)]
  /\ over' = (over \/ ends) /\ destroyed' = (destroyed \/ ends)
  /\ UNCHANGED <<fixed, ending, held, attaches, context, recurse, misused>>
  /\ Settle(source, owns, IF ends /\ Attached THEN NoData ELSE data)

(* An idle or timeout source without a callback is destroyed.              *)
DispatchNothing ==
  /\ Attached /\ kind = "idle" /\ data = NoData /\ ~Busy(calls)
  /\ destroyed' = TRUE
  /\ UNCHANGED <<fixed, ending, held, attaches, context, recurse, calls, over, misused>>
  /\ Settle(source, owns, NoData)

-----------------------------------------------------------------------------
Step ==
  \/ \E t \in Threads :
       \/ Create(t) \/ Attach(t) \/ Destroy(t) \/ Forget(t) \/ SourceRemove(t) \/ SetCanRecurse(t)
       \/ Keep(t) \/ LetGo(t) \/ Enter(t)
       \/ \E d \in Datas : Add(t, d) \/ AddWatch(t, d) \/ AddChild(t, d) \/ AddChannelWatch(t, d)
                        \/ SetCallback(t, d)
       \/ \E what \in {"prepare", "check", "dispatch"} : Begin(t, what)
       \/ \E result \in Results : Return(t, result)
  \/ DispatchNothing

(* Nothing is said of what follows once a reference that the object does not
   have was dropped.                                                       *)
Next == attaches >= 0 /\ Step

Spec == Init /\ [][Next]_vars

(* Calls that have begun are made, and return, as destroy() does.          *)
FairSpec ==
  /\ Spec
  /\ \A t \in Threads : /\ WF_vars(Enter(t)) /\ WF_vars(Forget(t))
                       /\ WF_vars(\E result \in Results : Return(t, result))

-----------------------------------------------------------------------------
(* Properties                                                              *)

(* The data of a callback that the context calls is not released, whoever
   changes the source meanwhile; the object whose method it calls is not
   freed, as long as Python code changes a source in the thread that calls
   it: the call refers to the object before the method is bound to it.     *)
CallsLive ==
  \A t \in Threads : \A i \in DOMAIN calls[t] :
    /\ calls[t][i].data # NoData => datas[calls[t][i].data] = "owned"
    /\ kind = "source" /\ ~remote => object = "live"

(* The object of an attached source has one reference for it until
   destroy() drops it, whoever destroyed the GSource before, and whatever
   Python code does before destroy() has forgotten the GSource but to call
   destroy() again.                                                        *)
Balanced ==
  ~misused => attaches = IF kind = "source" /\ context /\ source /\ ending = {} THEN 1 ELSE 0

(* "... until it returns FALSE, at which point the timeout is automatically
   destroyed and the function will not be called again": nor is it after
   destroy() and source_remove(), in the thread that calls it.             *)
NotCalledAgain == [][\A t \in Threads : Enter(t) /\ over => remote]_vars

(* With an attached source, the data of its callbacks goes.               *)
Released ==
  \A d \in Datas :
    (datas[d] = "owned" /\ context /\ destroyed /\ ~misused /\ (kind = "source" => ~remote))
      ~> (datas[d] = "released" \/ misused)

(* An object that Python code lets go of is freed, once it has been
   destroyed if it had been attached.                                      *)
Reclaimed ==
  (object = "live" /\ ~held /\ ~misused /\ (context => ~source)) ~> (held \/ object = "freed")

(* Neither callback data nor objects stay for ever.                        *)
Freed == Released /\ Reclaimed
=============================================================================
