------------------------------- MODULE Values -------------------------------
(***************************************************************************)
(* GValues: how Python objects are converted to them and back, and what    *)
(* the functions that do so leave behind when a conversion fails; and the  *)
(* memory of boxed values, that GValues and gobject.GBoxed wrappers share. *)
(* Integers keep their widths, which the value of their sign bit gives;    *)
(* gint64 is a long.  Booleans, floating point values, pointers, objects   *)
(* and ParamSpecs are left out.                                            *)
(***************************************************************************)
EXTENDS Integers, Sequences, FiniteSets

CONSTANTS
  Wrappers,  \* GBoxed wrappers
  Cells,     \* memory of boxed values
  Lists,     \* lists of arguments: kinds of values, and Python objects for them
  Limits,    \* what declarations of properties give: minimum, maximum and default
  CNumbers,  \* what C handlers answer
  CharSign, IntSign, LongSign,  \* the sign bits of char, int and long
  Null

VARIABLES
  call,     \* the function in progress, and how far it is
  value,    \* its GValues
  cell,     \* of each boxed value: what frees it
  wrapper   \* of each GBoxed wrapper: its boxed value, and if it frees that;
            \* and who has it: a method while it is called, a handler, or anyone

valuesVars == <<call, value, cell, wrapper>>

-----------------------------------------------------------------------------
(* Integers: do they fit, and what is left if they are cut off?            *)

InSigned(n, sign) == n \in (-sign)..(sign - 1)
InUnsigned(n, sign) == n \in 0..(2 * sign - 1)
Unsigned(n, sign) == n % (2 * sign)
Signed(n, sign) == Unsigned(n + sign, sign) - sign

Number == {"int", "uint", "long", "ulong", "int64", "uint64", "enum", "flags"}
Kinds == Number \cup {"char", "uchar", "any", "boxed", "string"}

(* Python objects, and arguments.  An int is a long of C's, and n the integral
   part of a float; what other objects with an __int__ give is left out.   *)
PyObjects ==
  {obj \in [py : {"int", "long", "float", "wrapper", "other", "unprintable"}, n : Int,
            w : Wrappers \cup {Null}] :
     /\ obj.py = "int" => InSigned(obj.n, LongSign)
     /\ obj.py = "wrapper" => obj.w \in Wrappers}
Arguments == [kind : Kinds, obj : PyObjects]

ASSUME ValuesAssumption ==
  /\ {CharSign, IntSign, LongSign} \subseteq Nat \ {0} /\ IntSign <= LongSign
  /\ Lists \subseteq Seq(Arguments) \ {<<>>} /\ Limits \subseteq Seq(PyObjects) /\ CNumbers \subseteq Int
  /\ Null \notin Cells \cup Wrappers

Stored(n) == [outcome |-> "ok", n |-> n]
Kept == [outcome |-> "kept", n |-> 0]     \* the value stays initialised
Unset == [outcome |-> "unset", n |-> 0]   \* it is unset, as an exception was pending

Checked(test, n) == IF test THEN Stored(n) ELSE Unset

(* Mutant: the upper bound is that of a long.                              *)
UInt_Unbounded(obj) ==
  IF obj.py = "int" THEN IF obj.n >= 0 THEN Stored(Unsigned(obj.n, IntSign)) ELSE Kept
  ELSE Checked(obj.py = "long" /\ InUnsigned(obj.n, LongSign), Unsigned(obj.n, IntSign))

(* G_TYPE_UINT: the range is checked for an int, but not for a long.       *)
UInt(obj) ==
  IF obj.py = "int" THEN IF InUnsigned(obj.n, IntSign) THEN Stored(obj.n) ELSE Kept
  ELSE Checked(obj.py = "long" /\ InUnsigned(obj.n, LongSign), Unsigned(obj.n, IntSign))

ULong(obj) ==
  IF obj.py = "int" THEN IF obj.n >= 0 THEN Stored(obj.n) ELSE Kept
  ELSE Checked(obj.py = "long" /\ InUnsigned(obj.n, LongSign), obj.n)

IsNumber(obj) == obj.py \in {"int", "long"}

(* A negative int leaves an OverflowError behind.                          *)
UInt64(obj) ==
  IF ~IsNumber(obj) \/ (obj.py = "int" /\ obj.n < 0) THEN Kept
  ELSE Checked(InUnsigned(obj.n, LongSign), obj.n)

(* The values of a C type                                                  *)
InKind(kind, n) ==
  CASE kind \in {"int", "enum"} -> InSigned(n, IntSign)
    [] kind \in {"uint", "flags"} -> InUnsigned(n, IntSign)
    [] kind \in {"long", "int64"} -> InSigned(n, LongSign)
    [] kind = "uchar" -> InUnsigned(n, CharSign)
    [] OTHER -> InUnsigned(n, LongSign)

(* pyg_enum_get_value and pyg_flags_get_value, of an integer               *)
EnumOrFlags(kind, obj) ==
  IF ~IsNumber(obj) THEN Kept
  ELSE Checked(InSigned(obj.n, LongSign),
               IF kind = "enum" THEN Signed(obj.n, IntSign) ELSE Unsigned(obj.n, IntSign))

(* _PyLong_AsLong and PyLong_AsLongLong take what __int__ gives: a float loses
   its fraction.                                                           *)
HasInt(obj) == obj.py \in {"int", "long", "float"}
AsLong(obj, n) == Checked(HasInt(obj) /\ InSigned(obj.n, LongSign), n)

FromNumber(kind, obj) ==
  CASE kind = "int" -> AsLong(obj, Signed(obj.n, IntSign))
    [] kind \in {"long", "int64"} -> AsLong(obj, obj.n)
    [] kind = "uint" -> UInt(obj)
    [] kind = "ulong" -> ULong(obj)
    [] kind = "uint64" -> UInt64(obj)
    [] OTHER -> EnumOrFlags(kind, obj)

-----------------------------------------------------------------------------
(* Values                                                                  *)

Zero == [held |-> "zero", kind |-> Null, n |-> 0, cell |-> Null]
Empty(kind) == [held |-> "empty", kind |-> kind, n |-> 0, cell |-> Null]
Full(kind, n, c) == [held |-> "full", kind |-> kind, n |-> n, cell |-> c]

NewCell == CHOOSE c \in Cells : cell[c] = "none"

Converted(v) == [ok |-> TRUE, v |-> v]
Failed(v) == [ok |-> FALSE, v |-> v]

(* A uchar takes an int as a number; of any other object it takes the first
   character of its text, as a char does, and n says nothing.              *)
AsNumber(kind, obj) == kind \in Number \/ (kind = "uchar" /\ obj.py = "int")

FromInt(kind, obj) ==
  IF kind = "uchar" THEN IF InUnsigned(obj.n, CharSign) THEN Stored(obj.n) ELSE Kept
  ELSE FromNumber(kind, obj)

(* A GValue takes a copy of a boxed value, whatever type it is for.        *)
Copies(kind, obj) == kind \in {"any", "boxed"} /\ obj.py = "wrapper"

FromText(kind, obj) ==
  IF obj.py = "unprintable" THEN Failed(Empty(kind)) ELSE Converted(Full(kind, 0, Null))

(* A GValue for any type takes one of the object's type, that is an int, a
   long, or a double, before that is converted.                            *)
FromAny(obj) ==
  IF IsNumber(obj) /\ FromNumber(obj.py, obj).outcome # "ok" THEN Failed(Full("any", 0, Null))
  ELSE IF HasInt(obj) THEN Converted(Full("any", 0, Null)) ELSE Failed(Empty("any"))

(* pyg_value_from_pyobject: what it makes of the value, and if it succeeds *)
From(kind, obj) ==
  LET number == FromInt(kind, obj)
  IN  CASE AsNumber(kind, obj) /\ number.outcome = "ok" -> Converted(Full(kind, number.n, Null))
        [] AsNumber(kind, obj) /\ number.outcome = "unset" -> Failed(Zero)
        [] Copies(kind, obj) -> Converted(Full(kind, 0, NewCell))
        [] kind = "any" /\ obj.py # "wrapper" -> FromAny(obj)
        [] kind \in {"char", "string"} -> FromText(kind, obj)
        [] kind = "uchar" /\ obj.py # "int" -> FromText(kind, obj)
        [] OTHER -> Failed(Empty(kind))

(* g_value_unset frees what the value owns; a value may be static.         *)
UnsetAll(vs) ==
  [c \in Cells |-> IF cell[c] = "value" /\ \E v \in vs : v.cell = c THEN "freed" ELSE cell[c]]

-----------------------------------------------------------------------------
(* The functions that make values of Python objects.  "all": all values are
   initialised before the first is converted; "single": each value is used,
   and unset, before the next; "static": a boxed value is not copied;
   "cleans": which values are unset when one cannot be converted.          *)

Function(all, single, static, cleans) ==
  [all |-> all, single |-> single, static |-> static, cleans |-> cleans]

SetProperty == Function(FALSE, TRUE, FALSE, "none")         \* set_property_from_pspec
ValueArray == Function(FALSE, FALSE, FALSE, "array")        \* pyg_value_array_from_pyobject
ObjectNew == Function(FALSE, FALSE, FALSE, "before")        \* pyg_object_new
ObjectInit == Function(FALSE, FALSE, FALSE, "before")       \* pygobject_init
ConstructorArgs == Function(FALSE, FALSE, FALSE, "before")  \* pyg_parse_constructor_args
Emit == Function(TRUE, FALSE, FALSE, "all")                 \* pygobject_emit
Chain == Function(TRUE, FALSE, TRUE, "all")                 \* pygobject_chain_from_overridden

Functions == {SetProperty, ValueArray, ObjectNew, ObjectInit, ConstructorArgs, Emit, Chain}

CreateProperty == Function(TRUE, FALSE, FALSE, "none")      \* create_property

Idle == [phase |-> "idle", function |-> SetProperty, args |-> <<>>, given |-> Null]
NoBoxed == [cell |-> Null, owns |-> FALSE, by |-> "anyone"]

ValuesInit ==
  /\ call = Idle /\ value = <<>> /\ cell = [c \in Cells |-> "none"]
  /\ wrapper = [w \in Wrappers |-> NoBoxed]

Begin(f, args) ==
  /\ call.phase = "idle"
  /\ call' = [Idle EXCEPT !.phase = "convert", !.function = f, !.args = args]
  /\ value' = IF f.all THEN [i \in DOMAIN args |-> Empty(args[i].kind)] ELSE <<>>
  /\ UNCHANGED <<cell, wrapper>>

(* How many values are converted                                           *)
At == Cardinality({i \in DOMAIN value : value[i].held = "full"})

Put(v) == IF call.function.all THEN [value EXCEPT ![At + 1] = v] ELSE Append(value, v)

(* Mutant: the values converted before are forgotten.                      *)
Cleans_Itself(f, before, v) == IF f.cleans = "none" THEN {} ELSE {v}

(* The values that a failure unsets: v is the one that failed.             *)
Cleans(f, before, v) ==
  CASE f.cleans = "none" -> {}
    [] f.cleans = "before" -> before
    [] f.cleans \in {"all", "array"} -> before \cup {v}

Elements(s) == {s[i] : i \in DOMAIN s}
Converting == call.phase = "convert" /\ At < Len(call.args) /\ (call.function.single => value = <<>>)

(* Python has the object, and a wrapper's memory has not been freed.       *)
Has(obj) == obj.py = "wrapper" => /\ wrapper[obj.w].cell # Null /\ wrapper[obj.w].by # "method"
                                  /\ cell[wrapper[obj.w].cell] # "freed"

ConvertNext ==
  LET arg == call.args[At + 1]
      got == From(arg.kind, arg.obj)
      static == call.function.static /\ arg.kind = "boxed" /\ got.v.cell # Null
      v == IF static THEN Full(arg.kind, 0, wrapper[arg.obj.w].cell) ELSE got.v
  IN  /\ Converting /\ Has(arg.obj) /\ (Copies(arg.kind, arg.obj) => \E c \in Cells : cell[c] = "none")
      /\ IF got.ok
         THEN /\ value' = Put(v) /\ call' = call
              /\ cell' = IF static \/ v.cell = Null THEN cell ELSE [cell EXCEPT ![v.cell] = "value"]
         ELSE /\ cell' = UnsetAll(Cleans(call.function, Elements(SubSeq(value, 1, At)), v))
              /\ value' = <<>> /\ call' = Idle
      /\ UNCHANGED wrapper

(* The values are used: a property is set, an object made, a signal emitted. *)
Use ==
  /\ call.phase = "convert" /\ value # <<>> /\ (call.function.single \/ At = Len(call.args))
  /\ call' = [call EXCEPT !.phase = "used"] /\ UNCHANGED <<value, cell, wrapper>>

(* pyg_boxed_new(copy_boxed, own_ref), for wrapper w                       *)
Boxed(w, c, copy_boxed, own_ref, by) ==
  /\ wrapper[w].cell = Null /\ (copy_boxed => \E n \in Cells : cell[n] = "none")
  /\ wrapper' = [wrapper EXCEPT ![w] =
       [cell |-> IF copy_boxed THEN NewCell ELSE c, owns |-> own_ref, by |-> by]]
  /\ cell' = IF own_ref THEN [cell EXCEPT ![IF copy_boxed THEN NewCell ELSE c] = "wrapper"] ELSE cell

Used(i) == call.phase = "used" /\ value[i].cell # Null
Emission == call.function \in {Emit, Chain}

(* do_set_property() gets a copy of a boxed value,                         *)
ToPython(w, i) ==
  /\ Used(i) /\ ~Emission /\ call.function # ValueArray
  /\ Boxed(w, value[i].cell, TRUE, TRUE, "anyone") /\ UNCHANGED <<call, value>>

(* a handler or an emission hook does not,                                 *)
ToHandler(w, i) ==
  /\ Used(i) /\ Emission
  /\ Boxed(w, value[i].cell, FALSE, FALSE, "handler") /\ UNCHANGED <<call, value>>

(* and the method for a signal's class handler does not at first.  When it
   returns, or fails, what others reference gets a copy.                   *)
ToMethod(w, i) ==
  /\ Used(i) /\ Emission
  /\ Boxed(w, value[i].cell, FALSE, FALSE, "method") /\ UNCHANGED <<call, value>>

MethodReturns(w, kept) ==
  /\ wrapper[w].by = "method" /\ (kept => \E c \in Cells : cell[c] = "none")
  /\ wrapper' = [wrapper EXCEPT ![w] =
       IF kept THEN [cell |-> NewCell, owns |-> TRUE, by |-> "anyone"] ELSE NoBoxed]
  /\ cell' = IF kept THEN [cell EXCEPT ![NewCell] = "wrapper"] ELSE cell
  /\ UNCHANGED <<call, value>>

(* A handler in C, of a signal that a Python class defines, gets its arguments
   from g_value_to_ffi_type, which has no address for an enum or flags.    *)
NoAddress == {"enum", "flags"}

ToCHandler ==
  /\ call.phase = "used" /\ Emission /\ \E i \in DOMAIN value : value[i].kind \in NoAddress
  /\ call' = [call EXCEPT !.phase = "crashed"] /\ UNCHANGED <<value, cell, wrapper>>

(* The call returns, or goes on with the next property, as set_properties()
   and get_properties() do.                                                *)
Finish ==
  /\ call.phase \in {"used", "given", "declared"} /\ \A w \in Wrappers : wrapper[w].by # "method"
  /\ cell' = UnsetAll(Elements(value)) /\ value' = <<>>
  /\ call' = IF call.function.single /\ Len(call.args) > 1
             THEN [call EXCEPT !.phase = IF @ = "used" THEN "convert" ELSE "ask", !.args = Tail(@),
                               !.given = Null]
             ELSE Idle
  /\ UNCHANGED wrapper

-----------------------------------------------------------------------------
(* Values that are asked for: get_property(), and what emit() returns.     *)

(* get_property(), or an emission that returns a value                     *)
Ask(kind) ==
  /\ call.phase = "idle" /\ value' = <<Empty(kind)>> /\ call' = [Idle EXCEPT !.phase = "asked"]
  /\ UNCHANGED <<cell, wrapper>>

(* get_properties()                                                        *)
AskAll(kinds) ==
  /\ call.phase = "idle"
  /\ call' = [Idle EXCEPT !.phase = "ask", !.args = kinds] /\ UNCHANGED <<value, cell, wrapper>>

AskNext ==
  /\ call.phase = "ask" /\ value' = <<Empty(call.args[1])>> /\ call' = [call EXCEPT !.phase = "asked"]
  /\ UNCHANGED <<cell, wrapper>>

(* do_get_property or a handler answers; an answer that cannot be converted is
   printed, and the value stays as it is.                                  *)
Answer(obj) ==
  LET got == From(value[1].kind, obj)
  IN  /\ call.phase = "asked" /\ Has(obj)
      /\ (Copies(value[1].kind, obj) => \E c \in Cells : cell[c] = "none")
      /\ value' = <<got.v>> /\ call' = [call EXCEPT !.phase = "answered"]
      /\ cell' = IF got.v.cell = Null THEN cell ELSE [cell EXCEPT ![got.v.cell] = "value"]
      /\ UNCHANGED wrapper

(* A class handler in C answers a number, which g_value_from_ffi_type does
   not know how to keep if it is an enum or flags.                         *)
AnswerC(n) ==
  LET kind == value[1].kind
  IN  /\ call.phase = "asked" /\ kind \in Number /\ InKind(kind, n)
      /\ value' = IF kind \in NoAddress THEN value ELSE <<Full(kind, n, Null)>>
      /\ call' = [call EXCEPT !.phase = "answered"] /\ UNCHANGED <<cell, wrapper>>

(* An accumulator gets wrapper w for what earlier handlers have returned,
   without a copy; if what it returns is taken, that is freed.             *)
Accumulate(w, obj) ==
  LET v == value[1]
      got == From(v.kind, obj)
      taken == got.v.held = "full"
  IN  /\ call.phase = "answered" /\ v.cell # Null /\ wrapper[w].cell = Null /\ Has(obj)
      /\ (Copies(v.kind, obj) => \E c \in Cells : cell[c] = "none")
      /\ wrapper' = [wrapper EXCEPT ![w] = [cell |-> v.cell, owns |-> FALSE, by |-> "handler"]]
      /\ value' = IF taken THEN <<got.v>> ELSE value
      /\ cell' = [c \in Cells |-> IF taken /\ c = v.cell THEN "freed"
                                 ELSE IF taken /\ c = got.v.cell THEN "value" ELSE cell[c]]
      /\ UNCHANGED call

(* pyg_value_as_pyobject, with a copy of what is boxed; a value that has been
   unset is of no type that it knows.                                      *)
AsPyObject(w) ==
  /\ call.phase = "answered" /\ value[1].cell # Null
  /\ Boxed(w, value[1].cell, TRUE, TRUE, "anyone")
  /\ call' = [call EXCEPT !.phase = "given"] /\ UNCHANGED value

(* pyg_enum_from_gtype and pyg_flags_from_gtype take an int, which an object
   of the class gets that is registered, imported or made for the type.    *)
EnumFromGType(n) == [py |-> "int", n |-> n]
FlagsFromGType(n) == [py |-> "int", n |-> Signed(n, IntSign)]

ULongAsPy(n) == [py |-> IF InSigned(n, LongSign) THEN "int" ELSE "long", n |-> n]

NumberAsPy(v) ==
  CASE v.kind \in {"int", "long", "int64", "uint"} -> [py |-> "int", n |-> v.n]
    [] v.kind \in {"ulong", "uint64"} -> ULongAsPy(v.n)
    [] v.kind = "enum" -> EnumFromGType(v.n)
    [] OTHER -> FlagsFromGType(v.n)

AnswerPlain ==
  /\ call.phase = "answered" /\ value[1].cell = Null
  /\ call' = [call EXCEPT !.phase = "given",
                          !.given = IF value[1].kind \in Number THEN NumberAsPy(value[1]) ELSE Null]
  /\ UNCHANGED <<value, cell, wrapper>>

-----------------------------------------------------------------------------
(* Wrappers                                                                *)

(* A library's function returns a boxed value, which is the wrapper's, or not. *)
Returned(w, c, own_ref) ==
  /\ cell[c] = "none" /\ wrapper[w].cell = Null
  /\ wrapper' = [wrapper EXCEPT ![w] = [cell |-> c, owns |-> own_ref, by |-> "anyone"]]
  /\ cell' = [cell EXCEPT ![c] = IF own_ref THEN "wrapper" ELSE "library"]
  /\ UNCHANGED <<call, value>>

Copy(w, copy) ==
  /\ wrapper[w].cell # Null /\ cell[wrapper[w].cell] # "freed"
  /\ Boxed(copy, wrapper[w].cell, TRUE, TRUE, "anyone") /\ UNCHANGED <<call, value>>

(* pyg_boxed_dealloc, when nothing uses the wrapper                        *)
Dealloc(w) ==
  /\ wrapper[w].cell # Null /\ wrapper[w].by # "method"
  /\ \A i \in DOMAIN value : value[i].cell # wrapper[w].cell
  /\ cell' = IF wrapper[w].owns THEN [cell EXCEPT ![wrapper[w].cell] = "freed"] ELSE cell
  /\ wrapper' = [wrapper EXCEPT ![w] = NoBoxed]
  /\ UNCHANGED <<call, value>>

-----------------------------------------------------------------------------
(* Properties that classes declare                                         *)

(* How PyArg_ParseTuple reads a limit or a default: "i" and "l" refuse what
   does not fit, "I", "k" and "K" drop the bits that do not; only "L" takes a
   float.                                                                  *)
Parsed(kind, obj) ==
  IF ~IsNumber(obj) /\ (kind # "int64" \/ ~HasInt(obj)) THEN Kept
  ELSE CASE kind = "int" -> Checked(InSigned(obj.n, IntSign), obj.n)
         [] kind \in {"long", "int64"} -> Checked(InSigned(obj.n, LongSign), obj.n)
         [] kind = "uint" -> Stored(Unsigned(obj.n, IntSign))
         [] OTHER -> Stored(Unsigned(obj.n, LongSign))

(* The default of enums and flags is converted as a property is.           *)
ParsedDefault(kind, obj) == IF kind \in NoAddress THEN EnumOrFlags(kind, obj) ELSE Parsed(kind, obj)

(* create_property, of a tuple in __gproperties__ that pyg_param_spec_from_object
   takes apart: a minimum, a maximum and a default, or the default alone.
   GLib makes no ParamSpec when the default is out of range; if an enum has
   it is not modelled.                                                     *)
Declare(kind, objs) ==
  LET p == [i \in DOMAIN objs |-> ParsedDefault(kind, objs[i])]
  IN  /\ call.phase = "idle" /\ kind \in Number
      /\ (kind \in NoAddress) = (Len(objs) = 1)
      /\ \A i \in DOMAIN p : p[i].outcome = "ok"
      /\ Len(p) = 3 => p[1].n <= p[3].n /\ p[3].n <= p[2].n
      /\ value' = [i \in DOMAIN p |-> Full(kind, p[i].n, Null)]
      /\ call' = [Idle EXCEPT !.phase = "declared", !.function = CreateProperty,
                   !.args = [i \in DOMAIN p |-> [kind |-> kind, obj |-> objs[i]]]]
      /\ UNCHANGED <<cell, wrapper>>

ValuesNext ==
  /\ call.phase # "crashed"
  /\ \/ \E f \in Functions, args \in Lists : Begin(f, args)
     \/ ConvertNext \/ Use \/ ToCHandler \/ Finish \/ AskNext \/ AnswerPlain
     \/ \E kind \in Kinds : Ask(kind) \/ AskAll(<<"boxed", kind>>)
     \/ \E args \in Lists : Answer(args[1].obj)
     \/ \E n \in CNumbers : AnswerC(n)
     \/ \E kind \in Number, objs \in Limits : Declare(kind, objs)
     \/ \E w \in Wrappers :
           \/ AsPyObject(w) \/ Dealloc(w)
           \/ \E i \in DOMAIN value : ToPython(w, i) \/ ToHandler(w, i) \/ ToMethod(w, i)
           \/ \E kept \in BOOLEAN : MethodReturns(w, kept)
           \/ \E c \in Cells, own_ref \in BOOLEAN : Returned(w, c, own_ref)
           \/ \E copy \in Wrappers : Copy(w, copy)
           \/ \E args \in Lists : Accumulate(w, args[1].obj)

ValuesSpec == ValuesInit /\ [][ValuesNext]_valuesVars

-----------------------------------------------------------------------------
(* Each boxed value has one owner.  What a GValue has copied is freed with it,
   whichever of the arguments could not be converted; what a wrapper owns is
   freed by it alone; and a wrapper that points at freed memory is one that
   a handler or an accumulator got without a copy, and kept: what a do_
   method kept is its own.                                                 *)
BoxedOwned ==
  /\ \A c \in Cells :
       LET owners == {w \in Wrappers : wrapper[w].cell = c /\ wrapper[w].owns}
       IN  /\ cell[c] = "wrapper" <=> owners # {}
           /\ Cardinality(owners) <= 1
           /\ cell[c] = "value" => \E i \in DOMAIN value : value[i].cell = c
  /\ \A w \in Wrappers :
       wrapper[w].cell # Null /\ cell[wrapper[w].cell] = "freed" => wrapper[w].by = "handler"

(* Kinds that lose what exceeds their width without an error               *)
Narrow(arg) == arg.kind \in {"int", "enum", "flags"} \/ (arg.kind = "uint" /\ arg.obj.py = "long")

(* A number that was converted, of a float its integral part, is the one that
   was given, except that ints, enums and flags, and uints given as a long,
   are cut off.  What Python gets of a number, whoever has set it, it can give
   back for the same number.  And a limit or default of a property that could
   also be set as its value, means the same there.                         *)
Faithful ==
  /\ call.phase \in {"convert", "used"} => \A i \in DOMAIN value \cap DOMAIN call.args :
       LET v == value[i]
           n == call.args[i].obj.n
       IN  v.held = "full" /\ AsNumber(v.kind, call.args[i].obj) =>
             /\ Unsigned(n, IntSign) = Unsigned(v.n, IntSign)
             /\ Narrow(call.args[i]) \/ n = v.n
             /\ InKind(v.kind, v.n)
  /\ call.given # Null =>
       FromNumber(value[1].kind, call.given) = Stored(value[1].n) /\ InKind(value[1].kind, value[1].n)
  /\ call.phase = "declared" => \A i \in DOMAIN value :
       LET set == FromNumber(value[i].kind, call.args[i].obj)
       IN  set.outcome = "ok" => value[i].n = set.n
=============================================================================
