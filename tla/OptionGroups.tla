---------------------------- MODULE OptionGroups ----------------------------
(***************************************************************************)
(* glib.OptionGroup and glib.OptionContext: who frees a GOptionGroup, and  *)
(* which references keep the wrapper that it calls back.  A wrapper owns   *)
(* its GOptionGroup until it is transferred to a context, which frees it   *)
(* with itself; a wrapper made by pyglib_option_group_new is for a group   *)
(* of another library.                                                     *)
(***************************************************************************)
EXTENDS Integers, FiniteSets

CONSTANTS Groups, OptionContexts, Null

ASSUME OptionGroupsAssumption ==
  /\ IsFiniteSet(OptionContexts) /\ Groups \cap OptionContexts = {}
  /\ Null \notin Groups \cup OptionContexts
  /\ {"none", "wrapper", "library", "lost", "freed"} \cap (Groups \cup OptionContexts) = {}

VARIABLES
  wrapper,   \* of each group: its PyGOptionGroup
  freedBy,   \* of each GOptionGroup: who frees it
  held,      \* wrappers of groups that Python code references
  context    \* of each context: its PyGOptionContext, and what GLib has

groupVars == <<wrapper, freedBy, held>>
optionVars == <<groupVars, context>>

Unmade == [live |-> FALSE, refs |-> 0, other |-> FALSE, inContext |-> FALSE,
           group |-> FALSE, callback |-> FALSE, strings |-> FALSE]
NoContext == [live |-> FALSE, mainGroup |-> Null, gmain |-> Null, parsing |-> FALSE]

OptionsInit ==
  /\ wrapper = [g \in Groups |-> Unmade] /\ freedBy = [g \in Groups |-> "none"]
  /\ held = {}
  /\ context = [c \in OptionContexts |-> NoContext]

-----------------------------------------------------------------------------
(* The wrapper, one operator per function that changes it.                 *)

(* destroy_g_group: GLib frees the GOptionGroup of wrapper r.              *)
Destroyed(r) ==
  [r EXCEPT !.group = FALSE, !.callback = FALSE, !.strings = FALSE,
            !.refs = IF r.inContext THEN @ - 1 ELSE @]

(* pyg_option_group_dealloc frees the GOptionGroup of wrapper r.           *)
Frees(r) == r.live /\ r.refs = 0 /\ ~r.other /\ ~r.inContext /\ r.group

(* The wrapper after its references have changed                           *)
Settled(r) ==
  IF r.live /\ r.refs = 0
  THEN [(IF Frees(r) THEN Destroyed(r) ELSE r) EXCEPT !.live = FALSE]
  ELSE r

(* pyglib_option_group_transfer_group, which refuses a group that it has
   already transferred                                                     *)
Transferred(r) == [r EXCEPT !.inContext = TRUE, !.refs = @ + 1]

(* ... and with a reference for the caller besides the context's           *)
Taken(r) == [Transferred(r) EXCEPT !.refs = @ + 1]

Usable(g) == g \in held /\ wrapper[g].live

-----------------------------------------------------------------------------
NewGroup(g) ==
  /\ freedBy[g] = "none"
  /\ wrapper' = [wrapper EXCEPT ![g] =
       [Unmade EXCEPT !.live = TRUE, !.refs = 1, !.group = TRUE, !.callback = TRUE]]
  /\ freedBy' = [freedBy EXCEPT ![g] = "wrapper"]
  /\ held' = held \cup {g} /\ UNCHANGED context

(* pyglib_option_group_new, for the group of another library               *)
WrapGroup(g) ==
  /\ freedBy[g] = "none"
  /\ wrapper' = [wrapper EXCEPT ![g] =
       [Unmade EXCEPT !.live = TRUE, !.refs = 1, !.group = TRUE, !.other = TRUE]]
  /\ freedBy' = [freedBy EXCEPT ![g] = "library"]
  /\ held' = held \cup {g} /\ UNCHANGED context

(* The entries' strings belong to the wrapper; those parsed before a bad
   entry stay with it.  A group that was freed takes none, without an error. *)
AddEntries(g) ==
  /\ Usable(g) /\ ~wrapper[g].other
  /\ wrapper' = [wrapper EXCEPT ![g].strings = TRUE]
  /\ UNCHANGED <<freedBy, held, context>>

NewContext(c) ==
  /\ ~context[c].live
  /\ context' = [context EXCEPT ![c] = [NoContext EXCEPT !.live = TRUE]]
  /\ UNCHANGED groupVars

Takes(c, g) == context[c].live /\ Usable(g) /\ ~wrapper[g].inContext

(* Mutant: no reference is taken for the context.                          *)
AddGroup_Borrowed(c, g) ==
  /\ Takes(c, g)
  /\ wrapper' = [wrapper EXCEPT ![g].inContext = TRUE]
  /\ freedBy' = [freedBy EXCEPT ![g] = c]
  /\ UNCHANGED <<held, context>>

(* add_group, which takes a reference besides the context's                *)
AddGroup(c, g) ==
  /\ Takes(c, g)
  /\ wrapper' = [wrapper EXCEPT ![g] = Taken(@)]
  /\ freedBy' = [freedBy EXCEPT ![g] = c]
  /\ UNCHANGED <<held, context>>

(* Mutant: the reference in main_group is borrowed.                        *)
SetMainGroup_Borrowed(c, g) ==
  /\ Takes(c, g)
  /\ wrapper' = [wrapper EXCEPT ![g] = Transferred(@)]
  /\ freedBy' = [freedBy EXCEPT ![g] = IF context[c].gmain = Null THEN c ELSE "lost"]
  /\ context' = [context EXCEPT ![c].mainGroup = g,
                                ![c].gmain = IF @ = Null THEN g ELSE @]
  /\ UNCHANGED held

(* set_main_group: GLib keeps the main group that it has, and then frees the
   new one no more; main_group forgets the earlier one without a decref.   *)
SetMainGroup(c, g) ==
  /\ Takes(c, g)
  /\ wrapper' = [wrapper EXCEPT ![g] = Taken(@)]
  /\ freedBy' = [freedBy EXCEPT ![g] = IF context[c].gmain = Null THEN c ELSE "lost"]
  /\ context' = [context EXCEPT ![c].mainGroup = g,
                                ![c].gmain = IF @ = Null THEN g ELSE @]
  /\ UNCHANGED held

GetMainGroup(c) ==
  /\ context[c].live /\ context[c].mainGroup \notin held \cup {Null}
  /\ held' = held \cup {context[c].mainGroup}
  /\ wrapper' = [wrapper EXCEPT ![context[c].mainGroup].refs = @ + 1]
  /\ UNCHANGED <<freedBy, context>>

(* parse() lets go of the GIL while GLib parses and calls arg_func back.   *)
Parse(c) ==
  /\ context[c].live /\ ~context[c].parsing
  /\ context' = [context EXCEPT ![c].parsing = TRUE] /\ UNCHANGED groupVars

(* pyglib_gerror_exception_check: the attributes of a GError must be of the
   right types; it prints what it cannot translate.                        *)
GErrorCheck(raises) == CASE raises = "nothing" -> 0 [] raises = "GError" -> -1 [] OTHER -> -2

(* arg_func: the callback runs Python code, which has the wrapper as an
   argument and may keep it.  Only a GError that it raises ends the parse:
   any other exception counts as success.                                  *)
Callback(c, g, raises, keeps) ==
  /\ context[c].parsing /\ freedBy[g] = c /\ ~wrapper[g].other /\ wrapper[g].strings
  /\ context' = [context EXCEPT ![c].parsing = GErrorCheck(raises) # -1]
  /\ held' = IF keeps THEN held \cup {g} ELSE held
  /\ wrapper' = [wrapper EXCEPT ![g].refs = IF keeps /\ g \notin held THEN @ + 1 ELSE @]
  /\ UNCHANGED freedBy

ParseReturns(c) ==
  /\ context[c].parsing
  /\ context' = [context EXCEPT ![c].parsing = FALSE] /\ UNCHANGED groupVars

(* Python drops its reference to the wrapper of a group.                   *)
DropGroup(g) ==
  /\ Usable(g)
  /\ LET r == [wrapper[g] EXCEPT !.refs = @ - 1]
     IN  /\ wrapper' = [wrapper EXCEPT ![g] = Settled(r)]
         /\ freedBy' = [freedBy EXCEPT ![g] = IF Frees(r) THEN "freed" ELSE @]
  /\ held' = held \ {g} /\ UNCHANGED context

(* The last reference to a context is dropped: main_group is released and
   the groups of the context freed; the caller of parse() has a reference. *)
DropContext(c) ==
  /\ context[c].live /\ ~context[c].parsing
  /\ LET unmain(g) == IF context[c].mainGroup = g THEN [wrapper[g] EXCEPT !.refs = @ - 1]
                      ELSE wrapper[g]
         freed(g) == IF freedBy[g] = c /\ ~wrapper[g].other THEN Destroyed(unmain(g))
                     ELSE unmain(g)
     IN  wrapper' = [g \in Groups |-> Settled(freed(g))]
  /\ freedBy' = [g \in Groups |-> IF freedBy[g] = c THEN "freed" ELSE freedBy[g]]
  /\ context' = [context EXCEPT ![c] = NoContext]
  /\ UNCHANGED held

OptionsNext ==
  \/ \E g \in Groups : NewGroup(g) \/ WrapGroup(g) \/ AddEntries(g) \/ DropGroup(g)
  \/ \E c \in OptionContexts :
        \/ NewContext(c) \/ GetMainGroup(c) \/ Parse(c) \/ ParseReturns(c) \/ DropContext(c)
        \/ \E g \in Groups :
              \/ AddGroup(c, g) \/ SetMainGroup(c, g)
              \/ \E raises \in {"nothing", "GError", "malformed", "other"}, keeps \in BOOLEAN :
                    Callback(c, g, raises, keeps)

OptionsSpec == OptionsInit /\ [][OptionsNext]_optionVars

-----------------------------------------------------------------------------
(* What a context may call is there: while a live context has a group made
   by glib.OptionGroup(), its wrapper, to which the GOptionGroup's user data
   points, and the wrapper's callback have not been freed, whatever Python
   has dropped, before, after or in the middle of a parse.                 *)
GroupCallable ==
  \A g \in Groups :
     freedBy[g] \in OptionContexts \cup {"wrapper"} /\ ~wrapper[g].other =>
        /\ wrapper[g].live /\ wrapper[g].callback /\ wrapper[g].group
        /\ freedBy[g] \in OptionContexts => context[freedBy[g]].live

(* A GOptionGroup is freed by one owner: what a context has is not freed by
   its wrapper, the wrapper's pointer is NULL once a context has freed it,
   and a wrapper that goes away leaves neither its group nor its callback. *)
FreedOnce ==
  \A g \in Groups :
     LET r == wrapper[g]
     IN  /\ ~r.other /\ freedBy[g] = "freed" => ~r.group /\ ~r.callback
         /\ ~r.live /\ ~r.other /\ freedBy[g] # "none" => freedBy[g] = "freed"

(* How many need the wrapper of g: Python code, contexts whose main_group it
   is, and the context that has the GOptionGroup.                          *)
Needs(g) ==
  LET one(b) == IF b THEN 1 ELSE 0
  IN  one(g \in held) + Cardinality({c \in OptionContexts : context[c].mainGroup = g})
      + one(freedBy[g] \in OptionContexts)

(* Each of them has a reference, however often the group is handed to a
   context, taken out of one or replaced.                                  *)
ReferencesSuffice ==
  \A g \in Groups : (wrapper[g].live <=> wrapper[g].refs > 0) /\ wrapper[g].refs >= Needs(g)

(* A wrapper is kept for those who need it, and the group is freed once, by
   the one who owns it then.                                               *)
GroupKept == FreedOnce /\ ReferencesSuffice
=============================================================================
