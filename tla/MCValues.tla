------------------------------ MODULE MCValues ------------------------------
(* Instances of Values: numbers at the limits of the widths, given one by one;
   and pairs of arguments of which the second may fail in each way.        *)
EXTENDS Values, TLC

CONSTANTS w1, w2

Obj(py, n) == [py |-> py, n |-> n, w |-> Null]
Arg(kind, obj) == [kind |-> kind, obj |-> obj]

Objs == {Obj("int", n) : n \in {-1, 1, 3, 4, 7}} \cup {Obj("long", n) : n \in {-9, 8, 15, 16}}
        \cup {Obj("float", n) : n \in {3, 8}} \cup {Obj("other", 0)}
Wrapped == {[py |-> "wrapper", n |-> 0, w |-> w] : w \in {w1, w2}}

MCLists ==
  {<<Arg(kind, obj)>> : kind \in Number, obj \in Objs}
  \cup {<<Arg(kind, obj)>> : kind \in {"char", "uchar", "any", "string"},
          obj \in {Obj("int", -1), Obj("int", 1), Obj("long", 8), Obj("unprintable", 0)}}
  \cup {<<Arg("boxed", o), b>> : o \in Wrapped,
          b \in {Arg("boxed", p) : p \in Wrapped} \cup
                {Arg("string", Obj("unprintable", 0)), Arg("uint", Obj("long", 16)),
                 Arg("any", Obj("long", 8)), Arg("boxed", Obj("other", 0))}}
  \cup {<<Arg("any", o), Arg(kind, o)>> : o \in Wrapped, kind \in {"boxed", "int"}}

MCCNumbers == {-8, -2, 1, 3, 15}

MCLimits ==
  {<<Obj("int", a), Obj("int", b), Obj("int", c)>> :
     a \in {-8, -1, 0}, b \in {1, 7}, c \in {-1, 0, 1, 5}}
  \cup {<<Obj("int", 0), Obj("long", 15), Obj("long", c)>> : c \in {8, 17, -16}}
  \cup {<<Obj("int", 0), Obj("float", 7), Obj("float", 3)>>}
  \cup {<<Obj(py, n)>> : py \in {"int", "long"}, n \in {-1, 3, 7}}

Symmetry == Permutations(Cells) \cup Permutations({w1, w2})
=============================================================================
