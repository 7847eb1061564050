---------------------------- MODULE Registration ----------------------------
(***************************************************************************)
(* The GTypes that Python classes register, and the classes that stand for *)
(* GTypes.  A GType is its name.  What a class declares is told apart only *)
(* by whether all of it is there.                                          *)
(***************************************************************************)
EXTENDS Integers, FiniteSets, FiniteSetsExt, Sequences

CONSTANTS
  Classes,      \* Python classes, made by class statements or by pygobject
  CTypes,       \* GTypes of libraries, below Root
  Root,         \* GObject
  RootClass,    \* gobject.GObject
  Interfaces,   \* GTypes of interfaces
  Bases,        \* names of Python classes
  Tries,        \* the limit of name_serial
  Declarations, \* what class statements declare
  Null

ASSUME RegistrationAssumption ==
  /\ Tries \in Nat \ {0} /\ Root \in CTypes /\ RootClass \in Classes
  /\ Null \notin Classes \cup CTypes \cup Interfaces \cup Bases \cup (Bases \X (1..Tries))
  /\ Null \notin Declarations
  /\ CTypes \cap (Bases \X (1..Tries)) = {} /\ Interfaces \cap CTypes = {}
  /\ Interfaces \cap (Bases \X (1..Tries)) = {}
  /\ Declarations \subseteq [named : BOOLEAN, signals : {"none", "fine", "bad"},
                             properties : {"none", "fine", "bad"}]

VARIABLES
  type,         \* of each name: its GType
  class,        \* the Python classes
  supported,    \* interfaces with a GInterfaceInfo, for Python classes
  registering   \* the class in type_register(), and how far it is

regVars == <<type, class, supported, registering>>

PyTypes == Bases \X (1..Tries)
Types == CTypes \cup PyTypes

NoType == [supers |-> <<>>, class |-> Null, replaced |-> FALSE, flag |-> FALSE, inits |-> "fine",
           interfaces |-> {}, twice |-> FALSE, signals |-> "none", properties |-> "none"]
NoClass == [state |-> "unused", mro |-> <<>>, gtype |-> Null, interfaces |-> {}, first |-> Null,
            name |-> Null, declares |-> Null]
Idle == [class |-> Null, named |-> FALSE, phase |-> "idle"]

Made(t) == type[t].supers # <<>>
Parent(t) == type[t].supers[Len(type[t].supers) - 1]
Base(c) == class[c].mro[2]
Elements(s) == {s[i] : i \in DOMAIN s}

(* pygobject_object_register_types                                         *)
RegInit ==
  /\ \E conforms \in SUBSET Interfaces :
       type = [t \in Types |->
         CASE t = Root -> [NoType EXCEPT !.supers = <<Root>>, !.class = RootClass, !.flag = TRUE]
           [] t \in CTypes \ {Root} -> [NoType EXCEPT !.supers = <<Root, t>>, !.interfaces = conforms]
           [] OTHER -> NoType]
  /\ class = [c \in Classes |->
       IF c = RootClass
       THEN [NoClass EXCEPT !.state = "done", !.mro = <<c>>, !.gtype = Root]
       ELSE NoClass]
  /\ supported \in SUBSET Interfaces
  /\ registering = Idle

-----------------------------------------------------------------------------
(* Classes for GTypes                                                      *)

(* pyg_type_from_object finds __gtype__ along the bases, where an interface
   before the base class hides what that one has.                          *)
TypeOf(c) ==
  LET mro == class[c].mro
      found == {i \in DOMAIN mro : {class[mro[i]].gtype, class[mro[i]].first} # {Null}}
      d == class[mro[Min(found)]]
  IN  IF d.gtype # Null THEN d.gtype ELSE d.first

(* The bases of a class for t: pyg_type_get_bases.  The lookup of the parent's
   class, and of the interfaces', comes first.                             *)
Unbound(c, t) ==
  /\ class[c].state = "unused" /\ t \in CTypes \ {Root} /\ type[Parent(t)].class # Null

Stands(c, t, new) ==
  /\ class' = [class EXCEPT ![c] = [NoClass EXCEPT !.state = "done", !.gtype = t,
                    !.mro = <<c>> \o class[type[Parent(t)].class].mro]]
  /\ type' = [type EXCEPT ![t] = [new EXCEPT !.class = c, !.replaced = type[t].class # Null]]
  /\ UNCHANGED <<supported, registering>>

(* A module's pygobject_register_class, which may replace a class that was made
   at runtime.  The module then calls pyg_set_object_has_new_constructor if it
   is new, and pyg_register_class_init if it overrides virtual functions.  *)
RegisterClass(c, t, new_constructor, inits) ==
  /\ Unbound(c, t) /\ ~type[t].replaced /\ ~type[t].flag
  /\ Stands(c, t, [type[t] EXCEPT !.flag = new_constructor, !.inits = inits])

(* pygobject_lookup_class of a GType without a class makes one.            *)
LookupClass(c, t) == Unbound(c, t) /\ type[t].class = Null /\ Stands(c, t, type[t])

-----------------------------------------------------------------------------
(* Class statements and type_register()                                    *)

Declares(d) == d.named \/ d.signals # "none" \/ d.properties # "none"

(* A class statement.  GObjectMeta._type_register registers classes that
   declare something.                                                      *)
ClassStatement(c, b, d, implements, first, name) ==
  /\ class[c].state = "unused" /\ class[b].state \notin {"unused", "registering"}
  /\ registering = Idle /\ first \in implements \cup {Null}
  /\ class' = [class EXCEPT ![c] =
       [NoClass EXCEPT !.state = IF Declares(d) THEN "registering" ELSE "plain", !.declares = d,
          !.mro = <<c>> \o class[b].mro, !.interfaces = implements, !.first = first,
          !.name = name]]
  /\ registering' = IF Declares(d) THEN [class |-> c, named |-> d.named, phase |-> "check"] ELSE Idle
  /\ UNCHANGED <<type, supported>>

(* gobject.type_register(c), of a class that Python code has, also again after
   it has failed                                                           *)
TypeRegister(c, named) ==
  /\ registering = Idle /\ class[c].state \in {"plain", "failed"}
  /\ registering' = [class |-> c, named |-> named, phase |-> "check"]
  /\ UNCHANGED <<type, class, supported>>

(* The call ends; state "done" means that it has returned the class.       *)
Ends(state) ==
  /\ class' = [class EXCEPT ![registering.class].state = state] /\ registering' = Idle

At(phase) == registering.phase = phase
Goes(phase) == registering' = [registering EXCEPT !.phase = phase]

(* Mutant: a class that has a GType is registered once more.               *)
Registers_Again(c) == TRUE

(* _wrap_pyg_type_register: a class whose GType is not its tp_base's is taken
   to be registered already.                                               *)
Registers(c) == TypeOf(c) = TypeOf(Base(c))

(* get_type_name_for_class: the first name that is free, or the last one   *)
TypeName(c) ==
  LET free == {i \in 1..Tries : ~Made(<<class[c].name, i>>)}
  IN  <<class[c].name, IF registering.named THEN 1 ELSE Min(free \cup {Tries})>>

(* pyg_type_add_interfaces: those of the bases that Python can implement,
   the parent's or all others                                              *)
Added(c, parents, new_interfaces) ==
  {i \in class[c].interfaces : i \in supported /\ (new_interfaces <=> i \notin parents)}

WithInterfaces(t, set, parents) ==
  [t EXCEPT !.interfaces = @ \cup set, !.twice = @ \/ (set \cap (t.interfaces \ parents)) # {}]

(* pyg_type_register: the GType, its class, its flag and the interfaces that
   the parent has.  GLib refuses a name in use, or an interface as parent. *)
RegisterStatic ==
  LET c == registering.class
      parent == TypeOf(c)
      t == TypeName(c)
  IN  /\ At("check") /\ Registers(c)
      /\ IF parent \in Types /\ ~Made(t)
         THEN /\ type' = [type EXCEPT ![t] =
                   WithInterfaces([NoType EXCEPT !.supers = Append(type[parent].supers, t), !.class = c,
                                     !.flag = type[parent].flag, !.interfaces = type[parent].interfaces],
                                  Added(c, type[parent].interfaces, FALSE), type[parent].interfaces)]
              /\ class' = [class EXCEPT ![c].gtype = t]
              /\ Goes("signals")
         ELSE Ends("plain") /\ UNCHANGED type
      /\ UNCHANGED supported

(* ... and so is one whose registration has failed half-way.               *)
AlreadyRegistered ==
  /\ At("check") /\ ~Registers(registering.class)
  /\ Ends(IF class[registering.class].gtype = Null THEN "done" ELSE "retried")
  /\ UNCHANGED <<type, supported>>

(* Mutant: the error is left to the caller.                                *)
Fails_Never(kind) == FALSE

Fails(kind) == kind = "bad"

(* add_signals stops at the first that create_signal or override_signal
   cannot do; those before it stay.                                        *)
AddSignals ==
  LET c == registering.class
      kind == class[c].declares.signals
  IN  /\ At("signals")
      /\ type' = [type EXCEPT ![class[c].gtype].signals = kind]
      /\ IF Fails(kind) THEN Ends("failed") ELSE Goes("properties") /\ UNCHANGED class
      /\ UNCHANGED supported

(* add_properties, which stops likewise                                    *)
AddProperties ==
  LET c == registering.class
      kind == class[c].declares.properties
  IN  /\ At("properties")
      /\ type' = [type EXCEPT ![class[c].gtype].properties = kind]
      /\ IF Fails(kind) THEN Ends("failed") ELSE Goes("interfaces") /\ UNCHANGED class
      /\ UNCHANGED supported

(* The interfaces that the parent has not, and then the class_init functions
   of all ancestors, up to one that fails                                  *)
Finish ==
  LET c == registering.class
      t == class[c].gtype
      parents == type[Parent(t)].interfaces
  IN  /\ At("interfaces")
      /\ type' = [type EXCEPT ![t] = WithInterfaces(@, Added(c, parents, TRUE), parents)]
      /\ Ends(IF \E s \in Elements(type[t].supers) : type[s].inits = "fail" THEN "failed" ELSE "done")
      /\ UNCHANGED supported

RegNext ==
  \/ RegisterStatic \/ AlreadyRegistered \/ AddSignals \/ AddProperties \/ Finish
  \/ \E c \in Classes, t \in CTypes :
        \/ LookupClass(c, t)
        \/ \E new_constructor \in BOOLEAN, inits \in {"fine", "fail"} :
              RegisterClass(c, t, new_constructor, inits)
  \/ \E c \in Classes :
        \/ \E named \in BOOLEAN : TypeRegister(c, named)
        \/ \E b \in Classes, d \in Declarations, implements \in SUBSET Interfaces, first \in Interfaces \cup {Null},
              name \in Bases : ClassStatement(c, b, d, implements, first, name)

-----------------------------------------------------------------------------
Defined == {c \in Classes : class[c].state # "unused"}

(* The GTypes of Python classes descend as the classes do, in whatever order
   classes are registered: also below a base that is registered only later,
   which they then skip.  The class that pygobject_lookup_class finds for the
   GType of a class is this class or a base of it, unless a module has replaced
   a class made at runtime; and no GType has the class of another.         *)
Hierarchy ==
  /\ \A c \in Defined \ {RootClass} : class[c].gtype # Null =>
        /\ TypeOf(Base(c)) \in Types
        /\ Parent(class[c].gtype) \in Elements(type[TypeOf(Base(c))].supers)
  /\ \A t \in Types : type[t].class # Null => class[type[t].class].gtype = t
  /\ \A c \in Defined : TypeOf(c) \in Types =>
        \/ type[TypeOf(c)].replaced \/ type[TypeOf(c)].class \in Elements(class[c].mro)

(* A class whose type_register() has returned, and had not failed before, has
   all it declares, unless an interface that comes before its base hides that
   it has no GType; each interface was added once.                         *)
Complete ==
  \A c \in Defined \ {RootClass} : class[c].state = "done" /\ class[c].declares # Null =>
     \/ TypeOf(c) \in Interfaces
     \/ LET t == type[class[c].gtype]
        IN  /\ t.signals = class[c].declares.signals /\ t.properties = class[c].declares.properties
            /\ "bad" \notin {t.signals, t.properties}
            /\ ~t.twice /\ class[c].interfaces \cap supported \subseteq t.interfaces
=============================================================================
