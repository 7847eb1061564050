---------------------------- MODULE TypesProofs -----------------------------
(***************************************************************************)
(* Proofs about Registration and Construction, for any classes, types and  *)
(* interfaces, any declarations, and any objects made by any threads.      *)
(***************************************************************************)
EXTENDS Construction, SequenceTheorems, WellFoundedInduction, TLAPS

-----------------------------------------------------------------------------
(* Types of the variables                                                  *)

Kinds == {"none", "fine", "bad"}
States == {"unused", "registering", "plain", "failed", "retried", "done"}

TypeRecord ==
  [supers : Seq(Types), class : Classes \cup {Null}, replaced : BOOLEAN, flag : BOOLEAN,
   inits : {"fine", "fail"}, interfaces : SUBSET Interfaces, twice : BOOLEAN,
   signals : Kinds, properties : Kinds]

ClassRecord ==
  [state : States, mro : Seq(Classes), gtype : Types \cup {Null}, interfaces : SUBSET Interfaces,
   first : Interfaces \cup {Null}, name : Bases \cup {Null}, declares : Declarations \cup {Null}]

RegTyped ==
  /\ type \in [Types -> TypeRecord] /\ class \in [Classes -> ClassRecord]
  /\ supported \in SUBSET Interfaces
  /\ registering \in [class : Classes \cup {Null}, named : BOOLEAN,
                      phase : {"idle", "check", "signals", "properties", "interfaces"}]

ObjectRecord ==
  [type : Types \cup {Null}, wrapper : Wrappers \cup {Null}, inits : Nat, for : Wrappers \cup {Null}]
WrapperRecord == [class : Classes \cup {Null}, obj : Objects \cup {Null}]
Frame == [object : Objects, wrapper : Wrappers \cup {Null}, todo : Seq(Types), init : BOOLEAN]

ConTyped ==
  /\ object \in [Objects -> ObjectRecord] /\ wrapper \in [Wrappers -> WrapperRecord]
  /\ stack \in [Threads -> Seq(Frame)] /\ tls \in [Threads -> Wrappers \cup {Null}]
  /\ early \in SUBSET Wrappers

-----------------------------------------------------------------------------
(* The invariant of Registration                                           *)

(* The classes that k, a value of the variable class, defines              *)
InUse(k) == {c \in Classes : k[c].state # "unused"}

(* The bases of a class are classes, up to RootClass; what follows a base
   are the bases of that.                                                  *)
MroOK(k, c) ==
  LET m == k[c].mro
  IN  /\ Len(m) >= 1 /\ m[1] = c /\ m[Len(m)] = RootClass /\ (c # RootClass => Len(m) >= 2)
      /\ \A i \in 1..Len(m) :
           /\ m[i] \in InUse(k) /\ Len(k[m[i]].mro) = Len(m) - i + 1
           /\ \A j \in 1..(Len(m) - i + 1) : k[m[i]].mro[j] = m[i + j - 1]

ClassesIn(k) ==
  /\ k \in [Classes -> ClassRecord]
  /\ RootClass \in InUse(k) /\ k[RootClass].gtype = Root /\ k[RootClass].declares = Null
  /\ k[RootClass].mro = <<RootClass>>
  /\ \A c \in InUse(k) : MroOK(k, c)
  /\ \A c \in Classes \ InUse(k) : k[c].gtype = Null

ClassesOK == ClassesIn(class)

TypesOK ==
  /\ type[Root].supers = <<Root>> /\ type[Root].class = RootClass /\ ~type[Root].replaced
  /\ \A t \in CTypes \ {Root} : type[t].supers = <<Root, t>>
  /\ \A t \in Types : Made(t) => /\ type[t].supers[Len(type[t].supers)] = t
                                 /\ t # Root => Len(type[t].supers) >= 2 /\ Made(Parent(t))

(* A class has the GType that has it, and the GType has it unless that has
   been given another class.                                               *)
LinksOK ==
  /\ \A t \in Types : /\ type[t].class # Null => class[type[t].class].gtype = t
                      /\ type[t].replaced => type[t].class # Null /\ t \in CTypes
  /\ \A c \in Classes : class[c].gtype # Null =>
       /\ Made(class[c].gtype)
       /\ type[class[c].gtype].replaced \/ type[class[c].gtype].class = c

(* Every GType of a class is below that of its base.                       *)
BelowOK ==
  \A c \in Defined \ {RootClass} : class[c].gtype # Null =>
     /\ TypeOf(Base(c)) \in Types
     /\ Parent(class[c].gtype) \in Elements(type[TypeOf(Base(c))].supers)

(* What the states of classes mean, and how far a registration is.         *)
StatesOK ==
  /\ \A c \in Classes :
       /\ class[c].state \in {"registering", "plain", "failed", "retried"} =>
            class[c].declares # Null /\ class[c].name # Null
       /\ class[c].gtype \in CTypes => class[c].state = "done" /\ class[c].declares = Null
  /\ registering.phase = "idle" => registering = Idle
  /\ registering.phase # "idle" =>
       registering.class # Null /\ class[registering.class].state \in {"registering", "plain", "failed"}

Full(c) ==
  LET t == type[class[c].gtype]
  IN  /\ t.signals = class[c].declares.signals /\ t.properties = class[c].declares.properties
      /\ "bad" \notin {t.signals, t.properties} /\ ~t.twice
      /\ class[c].interfaces \cap supported \subseteq t.interfaces

(* A registration, r, that has made the GType                              *)
Halfway(r, k, y) ==
  LET t == k[r.class].gtype
      parent == y[t].supers[Len(y[t].supers) - 1]
      d == k[r.class].declares
  IN  /\ t \in PyTypes /\ ~y[t].twice /\ parent # t /\ y[t].interfaces = y[parent].interfaces
      /\ r.phase \in {"properties", "interfaces"} => y[t].signals = d.signals /\ y[t].signals # "bad"
      /\ r.phase = "interfaces" => y[t].properties = d.properties /\ y[t].properties # "bad"

ProgressOK ==
  /\ \A c \in Defined : class[c].state = "done" /\ class[c].declares # Null =>
       IF class[c].gtype = Null THEN class[c].first # Null ELSE Full(c)
  /\ registering.phase \in {"signals", "properties", "interfaces"} => Halfway(registering, class, type)

RegInv ==
  /\ RegTyped /\ ClassesOK /\ TypesOK /\ LinksOK /\ BelowOK /\ StatesOK /\ ProgressOK

-----------------------------------------------------------------------------
(* The invariant of Construction                                           *)

(* A GType that Python classes may have been told to initialise is there.  *)
FlagsOK == \A t \in Types : type[t].flag => Made(t)

(* A frame is the construction of its object, and the last type to initialise
   is the object's own.  Its wrapper, if it has one, is the one that the
   object was made for, and has that object or waits for it, unless native
   code has made another before.                                           *)
FrameOK(f, ob, wr, waits, ea, ty) ==
  /\ ob[f.object].type # Null /\ ob[f.object].for = f.wrapper
  /\ f.todo # <<>> => f.todo[Len(f.todo)] = ob[f.object].type
  /\ f.init => /\ f.todo # <<>> /\ Head(f.todo) \in PyTypes /\ ty[Head(f.todo)].flag
               /\ ob[f.object].wrapper # Null
  /\ f.wrapper # Null =>
       /\ wr[f.wrapper].class # Null
       /\ wr[f.wrapper].obj \in {Null, f.object} \/ f.wrapper \in ea
       /\ f.todo # <<>> /\ wr[f.wrapper].obj = Null => waits = f.wrapper \/ f.wrapper \in ea

FramesOK ==
  \A t \in Threads : \A i \in 1..Len(stack[t]) :
    FrameOK(stack[t][i], object, wrapper, tls[t], early, type)

(* No object or wrapper is in two constructions.                           *)
Unique ==
  \A t, u \in Threads : \A i \in 1..Len(stack[t]), j \in 1..Len(stack[u]) :
    \/ stack[t][i].object = stack[u][j].object
    \/ stack[t][i].wrapper = stack[u][j].wrapper /\ stack[t][i].wrapper # Null
    => t = u /\ i = j

(* A wrapper that waits is of the innermost construction from Python, whose
   object has none yet; if native code constructs an object within, it is
   early.                                                                  *)
Waits(s, w, ob, ea) ==
  \E i \in 1..Len(s) :
    /\ s[i].wrapper = w /\ ob[s[i].object].wrapper = Null
    /\ \A j \in (i + 1)..Len(s) : s[j].wrapper = Null
    /\ i < Len(s) => w \in ea

WaitingOK ==
  \A t \in Threads : tls[t] # Null =>
    wrapper[tls[t]].obj = Null /\ Waits(stack[t], tls[t], object, early)

ObjectsOK ==
  \A o \in Objects :
    /\ object[o].type = Null => object[o].wrapper = Null /\ object[o].for = Null
    /\ object[o].type # Null => Made(object[o].type)
    /\ object[o].wrapper = Null => object[o].inits = 0
    /\ object[o].wrapper # Null /\ early = {} => object[o].inits = IF object[o].for = Null THEN 1 ELSE 0
    /\ object[o].type \in PyTypes /\ type[object[o].type].flag /\ object[o].wrapper = Null =>
         \E t \in Threads : \E i \in 1..Len(stack[t]) :
            stack[t][i].object = o /\ stack[t][i].todo # <<>>

WrappersOK ==
  \A o \in Objects, w \in Wrappers : wrapper[w].obj = o =>
     \/ object[o].for \in early
     \/ /\ object[o].wrapper = w /\ object[o].for \in {Null, w}
        /\ object[o].for = Null /\ object[o].inits = 0 => w \in early

ConInv == ConTyped /\ FlagsOK /\ FramesOK /\ Unique /\ WaitingOK /\ ObjectsOK /\ WrappersOK

IInv == RegInv /\ ConInv
-----------------------------------------------------------------------------
(* The GType that a class finds                                            *)

Own(k, d) == IF k[d].gtype # Null THEN k[d].gtype ELSE k[d].first
Has(k, d) == k[d].gtype # Null \/ k[d].first # Null

TypeIn(k, c) ==
  LET mro == k[c].mro
      found == {i \in DOMAIN mro : {k[mro[i]].gtype, k[mro[i]].first} # {Null}}
      d == k[mro[Min(found)]]
  IN  IF d.gtype # Null THEN d.gtype ELSE d.first

(* It is that of base number n, the first one that has any.                *)
Finds(k, c, n) ==
  /\ n \in 1..Len(k[c].mro) /\ Has(k, k[c].mro[n])
  /\ \A i \in 1..(n - 1) : ~Has(k, k[c].mro[i])

LEMMA TypeOfIn == \A c : TypeOf(c) = TypeIn(class, c) /\ TypeOf(c)' = TypeIn(class', c)
BY DEF TypeOf, TypeIn

LEMMA Smallest ==
  ASSUME NEW I \in SUBSET Nat, I # {}
  PROVE  Min(I) \in I /\ \A i \in I : Min(I) <= i
<1>1. PICK m \in I : \A i \in I : ~(<<i, m>> \in OpToRel(<, Nat))
  BY WFMin, NatLessThanWellFounded
<1>2. ASSUME NEW i \in I  PROVE ~(i < m)
  <2>1. i < m => <<i, m>> \in OpToRel(<, Nat)  BY DEF OpToRel
  <2>2. QED  BY <1>1, <2>1, Zenon
<1>3. \A i \in I : m =< i  BY <1>2
<1>4. QED  BY <1>3 DEF Min

LEMMA FoundIn ==
  ASSUME NEW k, NEW c, k[c].mro \in Seq(Classes), NEW n, Finds(k, c, n)
  PROVE  TypeIn(k, c) = Own(k, k[c].mro[n])
<1> DEFINE m == k[c].mro
           found == {i \in DOMAIN m : {k[m[i]].gtype, k[m[i]].first} # {Null}}
<1>1. DOMAIN m = 1..Len(m) /\ found \in SUBSET Nat  OBVIOUS
<1>2. \A i \in 1..Len(m) : i \in found <=> Has(k, m[i])  BY <1>1 DEF Has
<1>3. n \in found  BY <1>2 DEF Finds
<1>4. n \in 1..Len(m) /\ \A i \in 1..(n - 1) : ~Has(k, m[i])  BY DEF Finds
<1>5. ASSUME NEW i \in found, i < n  PROVE FALSE
  <2>1. i \in 1..Len(m) /\ Has(k, m[i])  BY <1>1, <1>2, <1>5
  <2> HIDE DEF m, found
  <2>2. i \in 1..(n - 1)  BY <1>4, <1>5, <2>1
  <2>3. QED  BY <1>4, <2>1, <2>2
<1>6. TypeIn(k, c) = Own(k, m[Min(found)])  BY DEF TypeIn, Own
<1> HIDE DEF found
<1>7. Min(found) \in found /\ Min(found) <= n  BY <1>1, <1>3, Smallest
<1>8. Min(found) = n
  <2>1. Min(found) \in Nat  BY <1>1, <1>7
  <2>2. ~(Min(found) < n)  BY <1>5, <1>7
  <2> HIDE DEF m
  <2>3. n \in Nat  BY <1>4
  <2>4. QED  BY <1>7, <2>1, <2>2, <2>3
<1>9. QED  BY <1>6, <1>8

LEMMA FindsSome ==
  ASSUME NEW k, ClassesIn(k), NEW c \in InUse(k)
  PROVE  \E n : Finds(k, c, n)
<1> DEFINE m == k[c].mro
           has == {i \in 1..Len(m) : Has(k, m[i])}
<1>1. MroOK(k, c) /\ m \in Seq(Classes)  BY DEF ClassesIn, InUse, ClassRecord
<1>2. Len(m) \in 1..Len(m) /\ m[Len(m)] = RootClass  BY <1>1 DEF MroOK
<1>3. Has(k, RootClass)  BY RegistrationAssumption DEF ClassesIn, Has
<1>4. has # {} /\ has \in SUBSET Nat  BY <1>2, <1>3
<1> HIDE DEF has
<1>5. Min(has) \in has /\ \A i \in has : Min(has) <= i  BY <1>4, Smallest
<1>6. Min(has) \in 1..Len(m) /\ Has(k, m[Min(has)])  BY <1>5 DEF has
<1>7. ASSUME NEW i \in 1..(Min(has) - 1)  PROVE ~Has(k, m[i])
  <2>1. i \in 1..Len(m) /\ ~(Min(has) <= i)  BY <1>6
  <2>2. i \notin has  BY <1>5, <2>1
  <2>3. QED  BY <2>1, <2>2 DEF has
<1>8. Finds(k, c, Min(has))  BY <1>6, <1>7 DEF Finds
<1>9. QED  BY <1>8

(* A base is at one place only, and what it finds is what a class finds that
   finds nothing before it.                                                *)
LEMMA BaseOnce ==
  ASSUME NEW k, ClassesIn(k), NEW c \in InUse(k)
  PROVE  \A i, j \in 1..Len(k[c].mro) : k[c].mro[i] = k[c].mro[j] => i = j
<1>1. MroOK(k, c) /\ k[c].mro \in Seq(Classes)  BY DEF ClassesIn, InUse, ClassRecord
<1>2. \A i \in 1..Len(k[c].mro) : Len(k[k[c].mro[i]].mro) = Len(k[c].mro) - i + 1
  BY <1>1 DEF MroOK
<1>3. ASSUME NEW i \in 1..Len(k[c].mro), NEW j \in 1..Len(k[c].mro), k[c].mro[i] = k[c].mro[j]
      PROVE  i = j
  <2>1. Len(k[c].mro) - i + 1 = Len(k[c].mro) - j + 1  BY <1>2, <1>3
  <2>2. Len(k[c].mro) \in Nat  BY <1>1
  <2>3. QED  BY <2>1, <2>2
<1>4. QED  BY <1>3

LEMMA BaseFinds ==
  ASSUME NEW k, ClassesIn(k), NEW c \in InUse(k), NEW n, Finds(k, c, n), NEW i \in 1..n
  PROVE  LET b == k[c].mro[i]
         IN  b \in InUse(k) /\ Finds(k, b, n - i + 1) /\ TypeIn(k, b) = TypeIn(k, c)
<1> DEFINE m == k[c].mro
           b == m[i]
<1>1. MroOK(k, c) /\ m \in Seq(Classes) /\ n \in 1..Len(m)  BY DEF ClassesIn, InUse, ClassRecord, Finds
<1>2. /\ b \in InUse(k) /\ Len(k[b].mro) = Len(m) - i + 1
      /\ \A j \in 1..(Len(m) - i + 1) : k[b].mro[j] = m[i + j - 1]
  BY <1>1 DEF MroOK
<1>3. k[b].mro \in Seq(Classes)  BY <1>2 DEF ClassesIn, InUse, ClassRecord
<1>4. n - i + 1 \in 1..Len(k[b].mro) /\ k[b].mro[n - i + 1] = m[n]
  <2>1. Len(m) \in Nat /\ n \in Nat /\ n <= Len(m)  BY <1>1
  <2>2. n - i + 1 \in 1..(Len(m) - i + 1) /\ i + (n - i + 1) - 1 = n  BY <2>1
  <2>3. QED  BY <1>2, <2>2
<1>5. ASSUME NEW j \in 1..(n - i + 1 - 1)  PROVE ~Has(k, k[b].mro[j])
  <2>1. j \in 1..(Len(m) - i + 1) /\ i + j - 1 \in 1..(n - 1)  BY <1>1
  <2>2. QED  BY <2>1, <1>2 DEF Finds
<1>6. Finds(k, b, n - i + 1)  BY <1>4, <1>5 DEF Finds
<1>7. TypeIn(k, b) = Own(k, m[n]) /\ TypeIn(k, c) = Own(k, m[n])
  BY <1>1, <1>3, <1>4, <1>6, FoundIn
<1>8. QED  BY <1>2, <1>6, <1>7

(* A base is defined, has its own bases, and does not have the class.      *)
LEMMA BaseOK ==
  ASSUME NEW k, ClassesIn(k), NEW c \in InUse(k) \ {RootClass}
  PROVE  /\ k[c].mro \in Seq(Classes) /\ Len(k[c].mro) >= 2 /\ k[c].mro[1] = c
         /\ k[c].mro[2] \in InUse(k) /\ k[k[c].mro[2]].mro \in Seq(Classes)
         /\ Len(k[k[c].mro[2]].mro) = Len(k[c].mro) - 1
         /\ \A j \in 1..(Len(k[c].mro) - 1) : k[k[c].mro[2]].mro[j] = k[c].mro[j + 1]
         /\ \A j \in 1..Len(k[k[c].mro[2]].mro) : k[k[c].mro[2]].mro[j] # c
<1> DEFINE m == k[c].mro
           b == m[2]
<1>1. MroOK(k, c) /\ m \in Seq(Classes)  BY DEF ClassesIn, InUse, ClassRecord
<1>2. Len(m) >= 2 /\ m[1] = c /\ Len(m) \in Nat  BY <1>1 DEF MroOK
<1>3. 2 \in 1..Len(m) /\ Len(m) - 2 + 1 = Len(m) - 1  BY <1>2
<1>4. /\ b \in InUse(k) /\ Len(k[b].mro) = Len(m) - 1
      /\ \A j \in 1..(Len(m) - 1) : k[b].mro[j] = m[2 + j - 1]
  BY <1>1, <1>3 DEF MroOK
<1>5. k[b].mro \in Seq(Classes)  BY <1>4 DEF ClassesIn, InUse, ClassRecord
<1> HIDE DEF m
<1>6. \A j \in 1..(Len(m) - 1) : 2 + j - 1 = j + 1 /\ j + 1 \in 1..Len(m) /\ j + 1 # 1  BY <1>2
<1>7. 1 \in 1..Len(m)  BY <1>2
<1>8. \A i, j \in 1..Len(m) : m[i] = m[j] => i = j  BY BaseOnce DEF m
<1>9. \A j \in 1..(Len(m) - 1) : m[j + 1] # c  BY <1>2, <1>6, <1>7, <1>8
<1>10. QED  BY <1>1, <1>2, <1>4, <1>5, <1>6, <1>9 DEF m

(* A class without a GType of its own finds that of its base.              *)
LEMMA FindsBase ==
  ASSUME NEW k, ClassesIn(k), NEW c \in InUse(k) \ {RootClass}, ~Has(k, c)
  PROVE  TypeIn(k, c) = TypeIn(k, k[c].mro[2])
<1>1. PICK n : Finds(k, c, n)  BY FindsSome
<1>2. k[c].mro[1] = c /\ Len(k[c].mro) \in Nat  BY BaseOK
<1>3. n \in 1..Len(k[c].mro) /\ n # 1  BY <1>1, <1>2 DEF Finds
<1>4. 2 \in 1..n  BY <1>2, <1>3
<1>5. QED  BY <1>1, <1>4, BaseFinds

(* One that has its own finds that.                                        *)
LEMMA FindsOwn ==
  ASSUME NEW k, ClassesIn(k), NEW c \in InUse(k), Has(k, c)
  PROVE  TypeIn(k, c) = Own(k, c)
<1>1. MroOK(k, c) /\ k[c].mro \in Seq(Classes)  BY DEF ClassesIn, InUse, ClassRecord
<1>2. k[c].mro[1] = c /\ 1 \in 1..Len(k[c].mro)  BY <1>1 DEF MroOK
<1>3. Finds(k, c, 1)  BY <1>2 DEF Finds
<1>4. QED  BY <1>1, <1>2, <1>3, FoundIn

(* What a class finds is a GType: that of a base, or an interface.         *)
LEMMA FoundWhat ==
  ASSUME NEW k, ClassesIn(k), NEW c \in InUse(k)
  PROVE  \E i \in 1..Len(k[c].mro) :
           LET d == k[c].mro[i]
           IN  d \in InUse(k) /\ TypeIn(k, c) = Own(k, d) /\ Has(k, d)
<1>1. PICK n : Finds(k, c, n)  BY FindsSome
<1>2. k[c].mro \in Seq(Classes) /\ n \in 1..Len(k[c].mro) /\ Has(k, k[c].mro[n])
  BY <1>1 DEF ClassesIn, InUse, ClassRecord, Finds
<1>3. TypeIn(k, c) = Own(k, k[c].mro[n])  BY <1>1, <1>2, FoundIn
<1>4. k[c].mro[n] \in InUse(k)  BY <1>2 DEF ClassesIn, MroOK
<1>5. QED  BY <1>2, <1>3, <1>4

LEMMA MroKept ==
  ASSUME NEW k, NEW l, NEW c, k[c].mro \in Seq(Classes), MroOK(k, c), l[c].mro = k[c].mro,
         \A d \in InUse(k) : d \in InUse(l),
         \A i \in 1..Len(k[c].mro) : l[k[c].mro[i]].mro = k[k[c].mro[i]].mro
  PROVE  MroOK(l, c)
<1> DEFINE q == k[c].mro
           N == Len(q)
<1>1. N \in Nat /\ l[c].mro = q  OBVIOUS
<1>2. \A i \in 1..N : l[q[i]].mro = k[q[i]].mro  OBVIOUS
<1>3. /\ N >= 1 /\ q[1] = c /\ q[N] = RootClass /\ (c # RootClass => N >= 2)
      /\ \A i \in 1..N : /\ q[i] \in InUse(k) /\ Len(k[q[i]].mro) = N - i + 1
                         /\ \A j \in 1..(N - i + 1) : k[q[i]].mro[j] = q[i + j - 1]
  BY DEF MroOK
<1>4. Len(q) = N  OBVIOUS
<1> HIDE DEF q, N
<1>5. \A i \in 1..N : /\ q[i] \in InUse(l) /\ Len(l[q[i]].mro) = N - i + 1
                      /\ \A j \in 1..(N - i + 1) : l[q[i]].mro[j] = q[i + j - 1]
  BY <1>2, <1>3
<1>6. QED  BY <1>1, <1>3, <1>4, <1>5 DEF MroOK

(* A change of other fields changes neither bases nor what is found.       *)
LEMMA LookupKept ==
  ASSUME NEW k, ClassesIn(k), NEW l \in [Classes -> ClassRecord], InUse(l) = InUse(k),
         \A c \in Classes : /\ l[c].mro = k[c].mro /\ l[c].gtype = k[c].gtype
                            /\ l[c].first = k[c].first /\ l[c].declares = k[c].declares
  PROVE  ClassesIn(l) /\ \A c \in InUse(k) : TypeIn(l, c) = TypeIn(k, c)
<1>1. \A c \in InUse(k) : k[c].mro \in Seq(Classes) /\ MroOK(k, c) /\ c \in Classes
  BY DEF ClassesIn, InUse, ClassRecord
<1>2. \A c \in InUse(k) : \A i \in 1..Len(k[c].mro) : k[c].mro[i] \in InUse(k)
  BY <1>1 DEF MroOK
<1>3. ASSUME NEW c \in InUse(k)  PROVE MroOK(l, c)
  <2>1. \A i \in 1..Len(k[c].mro) : l[k[c].mro[i]].mro = k[k[c].mro[i]].mro  BY <1>1, <1>2
  <2>2. l[c].mro = k[c].mro /\ k[c].mro \in Seq(Classes) /\ MroOK(k, c)  BY <1>1
  <2>3. QED  BY <2>1, <2>2, MroKept
<1>4. RootClass \in Classes  BY RegistrationAssumption
<1>5. ClassesIn(l)  BY <1>3, <1>4 DEF ClassesIn
<1>6. ASSUME NEW c \in InUse(k)  PROVE TypeIn(l, c) = TypeIn(k, c)
  <2>1. PICK n : Finds(k, c, n)  BY FindsSome
  <2>2. Finds(l, c, n)  BY <1>1, <1>2, <2>1 DEF Finds, Has
  <2>3. l[c].mro \in Seq(Classes)  BY <1>1
  <2>4. TypeIn(k, c) = Own(k, k[c].mro[n]) /\ TypeIn(l, c) = Own(l, l[c].mro[n])
    BY <1>1, <2>1, <2>2, <2>3, FoundIn
  <2>5. k[c].mro[n] \in Classes /\ l[c].mro = k[c].mro  BY <1>1, <1>2, <2>1 DEF Finds
  <2>6. QED  BY <2>4, <2>5 DEF Own
<1>7. QED  BY <1>5, <1>6

LEMMA Prepend ==
  ASSUME NEW S, NEW c \in S, NEW m \in Seq(S)
  PROVE  LET q == <<c>> \o m
         IN  /\ q \in Seq(S) /\ Len(q) = Len(m) + 1 /\ q[1] = c
             /\ \A i \in 1..Len(m) : q[i + 1] = m[i]
<1>1. <<c>> \in Seq(S) /\ Len(<<c>>) = 1 /\ <<c>>[1] = c  OBVIOUS
<1>2. /\ <<c>> \o m \in Seq(S) /\ Len(<<c>> \o m) = 1 + Len(m)
      /\ \A i \in 1..(1 + Len(m)) : (<<c>> \o m)[i] = IF i <= 1 THEN <<c>>[i] ELSE m[i - 1]
  BY <1>1, ConcatProperties
<1>3. Len(m) \in Nat  OBVIOUS
<1>4. \A i \in 1..Len(m) : i + 1 \in 1..(1 + Len(m)) /\ ~(i + 1 <= 1) /\ i + 1 - 1 = i  BY <1>3
<1>5. 1 \in 1..(1 + Len(m))  BY <1>3
<1>6. QED  BY <1>1, <1>2, <1>3, <1>4, <1>5

(* l has the class c, with fields r, made below b.                         *)
Extended(k, c, b, r, l) ==
  /\ c \in Classes \ InUse(k) /\ b \in InUse(k) /\ r \in ClassRecord /\ r.state # "unused"
  /\ Len(r.mro) = Len(k[b].mro) + 1 /\ r.mro[1] = c
  /\ \A i \in 1..Len(k[b].mro) : r.mro[i + 1] = k[b].mro[i]
  /\ l = [k EXCEPT ![c] = r]

LEMMA NewClass ==
  ASSUME NEW k, ClassesIn(k), NEW c, NEW b, NEW r, NEW l, Extended(k, c, b, r, l)
  PROVE  /\ ClassesIn(l) /\ InUse(l) = InUse(k) \cup {c} /\ c # RootClass
         /\ r.mro[2] = b /\ \A d \in InUse(k) : TypeIn(l, d) = TypeIn(k, d)
<1> DEFINE m == k[b].mro
<1>0. c \in Classes \ InUse(k) /\ b \in InUse(k) /\ r \in ClassRecord /\ r.state # "unused"
  BY DEF Extended
<1>1. /\ k \in [Classes -> ClassRecord] /\ l \in [Classes -> ClassRecord]
      /\ l[c] = r /\ \A d \in Classes \ {c} : l[d] = k[d]
  BY DEF ClassesIn, Extended
<1>2. InUse(l) = InUse(k) \cup {c} /\ c # RootClass  BY <1>0, <1>1 DEF InUse, ClassesIn
<1>3. \A d \in InUse(k) : l[d] = k[d] /\ d # c /\ d \in Classes  BY <1>0, <1>1 DEF InUse
<1>4. l[c] = r  BY <1>1
<1>5. m \in Seq(Classes) /\ MroOK(k, b)  BY <1>0 DEF ClassesIn, InUse, ClassRecord
<1>6. Len(r.mro) = Len(m) + 1 /\ r.mro[1] = c /\ \A i \in 1..Len(m) : r.mro[i + 1] = m[i]
  BY DEF Extended
<1>7. ASSUME NEW d \in InUse(k)  PROVE MroOK(l, d) /\ TypeIn(l, d) = TypeIn(k, d)
  <2>1. MroOK(k, d) /\ k[d].mro \in Seq(Classes)  BY DEF ClassesIn, InUse, ClassRecord
  <2>2. \A i \in 1..Len(k[d].mro) : k[d].mro[i] \in InUse(k)  BY <2>1 DEF MroOK
  <2>3. \A i \in 1..Len(k[d].mro) : l[k[d].mro[i]] = k[k[d].mro[i]]  BY <1>3, <2>2
  <2>4. l[d] = k[d]  BY <1>3
  <2>5. MroOK(l, d)
    <3>1. \A i \in 1..Len(k[d].mro) : l[k[d].mro[i]].mro = k[k[d].mro[i]].mro  BY <2>3
    <3>2. l[d].mro = k[d].mro /\ \A e \in InUse(k) : e \in InUse(l)  BY <1>2, <2>4
    <3>3. QED  BY <2>1, <3>1, <3>2, MroKept
  <2>6. PICK n : Finds(k, d, n)  BY FindsSome
  <2>7. Finds(l, d, n)
    <3> DEFINE q == k[d].mro
    <3>1. n \in 1..Len(q) /\ Has(k, q[n]) /\ \A i \in 1..(n - 1) : ~Has(k, q[i])  BY <2>6 DEF Finds
    <3>2. \A i \in 1..(n - 1) : i \in 1..Len(q)  BY <2>1, <3>1
    <3>3. \A i \in 1..Len(q) : Has(l, q[i]) <=> Has(k, q[i])  BY <2>3 DEF Has
    <3> HIDE DEF q
    <3>4. n \in 1..Len(q) /\ Has(l, q[n]) /\ \A i \in 1..(n - 1) : ~Has(l, q[i])  BY <3>1, <3>2, <3>3
    <3>5. QED  BY <2>4, <3>4 DEF Finds, q
  <2>8. TypeIn(k, d) = Own(k, k[d].mro[n]) /\ TypeIn(l, d) = Own(l, l[d].mro[n])
    BY <2>1, <2>4, <2>6, <2>7, FoundIn
  <2>9. QED  BY <2>3, <2>4, <2>5, <2>6, <2>8 DEF Own, Finds
<1>8. MroOK(l, c)
  <2>1. Len(m) \in Nat /\ Len(m) >= 1 /\ m[Len(m)] = RootClass /\ m[1] = b  BY <1>5 DEF MroOK
  <2>2. r.mro[Len(m) + 1] = RootClass  BY <1>6, <2>1
  <2>3. ASSUME NEW i \in 1..(Len(m) + 1)
        PROVE  /\ r.mro[i] \in InUse(l) /\ Len(l[r.mro[i]].mro) = Len(m) + 1 - i + 1
               /\ \A j \in 1..(Len(m) + 1 - i + 1) : l[r.mro[i]].mro[j] = r.mro[i + j - 1]
    <3>1. CASE i = 1
      <4>1. r.mro[i] = c /\ l[c].mro = r.mro /\ c \in InUse(l)  BY <1>2, <1>4, <1>6, <3>1
      <4>2. Len(m) + 1 - i + 1 = Len(m) + 1 /\ \A j \in 1..(Len(m) + 1) : i + j - 1 = j  BY <2>1, <3>1
      <4> HIDE DEF m
      <4>3. QED  BY <1>6, <4>1, <4>2
    <3>2. CASE i # 1
      <4>1. i - 1 \in 1..Len(m) /\ r.mro[i] = m[i - 1]
        <5>1. i - 1 \in 1..Len(m) /\ i - 1 + 1 = i  BY <2>1, <3>2
        <5>2. QED  BY <1>6, <5>1
      <4>2. /\ m[i - 1] \in InUse(k) /\ Len(k[m[i - 1]].mro) = Len(m) - (i - 1) + 1
            /\ \A j \in 1..(Len(m) - (i - 1) + 1) : k[m[i - 1]].mro[j] = m[i - 1 + j - 1]
        BY <1>5, <4>1 DEF MroOK
      <4>3. l[r.mro[i]] = k[m[i - 1]] /\ r.mro[i] \in InUse(l)  BY <1>2, <1>3, <4>1, <4>2
      <4>4. Len(m) - (i - 1) + 1 = Len(m) + 1 - i + 1  BY <2>1
      <4>5. ASSUME NEW j \in 1..(Len(m) + 1 - i + 1)  PROVE l[r.mro[i]].mro[j] = r.mro[i + j - 1]
        <5>1. i - 1 + j - 1 \in 1..Len(m) /\ (i - 1 + j - 1) + 1 = i + j - 1  BY <2>1, <3>2
        <5>2. r.mro[i + j - 1] = m[i - 1 + j - 1]  BY <1>6, <5>1
        <5>3. QED  BY <4>2, <4>3, <4>4, <5>2
      <4>6. QED  BY <4>2, <4>3, <4>4, <4>5
    <3>3. QED  BY <3>1, <3>2
  <2>4. Len(r.mro) = Len(m) + 1 /\ l[c].mro = r.mro /\ Len(m) + 1 >= 2  BY <1>4, <1>6, <2>1
  <2> HIDE DEF m
  <2> DEFINE q == r.mro
             N == Len(q)
  <2>6. N = Len(m) + 1 /\ q[1] = c /\ q[N] = RootClass /\ l[c].mro = q  BY <1>6, <2>2, <2>4
  <2>7. \A i \in 1..N : /\ q[i] \in InUse(l) /\ Len(l[q[i]].mro) = N - i + 1
                        /\ \A j \in 1..(N - i + 1) : l[q[i]].mro[j] = q[i + j - 1]
    BY <2>3, <2>6
  <2>8. N = Len(q) /\ N >= 2  BY <2>4, <2>6
  <2> HIDE DEF q
  <2>9. QED  BY <2>6, <2>7, <2>8 DEF MroOK
<1>9. ClassesIn(l)
  <2>1. l[RootClass] = k[RootClass]  BY <1>3 DEF ClassesIn
  <2>2. \A d \in Classes \ InUse(l) : l[d] = k[d] /\ d \in Classes \ InUse(k)  BY <1>1, <1>2
  <2>3. QED  BY <1>1, <1>2, <1>7, <1>8, <2>1, <2>2 DEF ClassesIn
<1>10. r.mro[2] = b
  <2>1. 1 \in 1..Len(m) /\ m[1] = b /\ 1 + 1 = 2  BY <1>5 DEF MroOK
  <2>2. QED  BY <1>6, <2>1
<1>11. QED  BY <1>2, <1>7, <1>9, <1>10

(* The class b, which has none, is given the GType t.                      *)
GetsType(k, b, t, l) ==
  /\ b \in InUse(k) \ {RootClass} /\ ~Has(k, b) /\ t \in Types
  /\ l = [k EXCEPT ![b].gtype = t]

(* The classes below b that found one through it find t now.               *)
LEMMA NewType ==
  ASSUME NEW k, ClassesIn(k), NEW b, NEW t, NEW l, GetsType(k, b, t, l)
  PROVE  /\ ClassesIn(l) /\ InUse(l) = InUse(k) /\ TypeIn(l, b) = t
         /\ \A c \in InUse(k) :
              \/ TypeIn(l, c) = TypeIn(k, c)
              \/ TypeIn(l, c) = t /\ TypeIn(k, c) = TypeIn(k, b)
         /\ \A c \in InUse(k) :
              (\A i \in 1..Len(k[c].mro) : k[c].mro[i] # b) => TypeIn(l, c) = TypeIn(k, c)
<1>0. b \in InUse(k) \ {RootClass} /\ ~Has(k, b) /\ t \in Types /\ l = [k EXCEPT ![b].gtype = t]
  BY DEF GetsType
<1>1. k \in [Classes -> ClassRecord] /\ b \in Classes /\ b # RootClass  BY <1>0 DEF ClassesIn, InUse
<1>2. /\ l \in [Classes -> ClassRecord]
      /\ \A d \in Classes : /\ l[d].state = k[d].state /\ l[d].mro = k[d].mro /\ l[d].first = k[d].first
                            /\ l[d].declares = k[d].declares /\ (d # b => l[d] = k[d])
      /\ l[b].gtype = t
  BY <1>0, <1>1 DEF ClassRecord
<1>3. InUse(l) = InUse(k)  BY <1>2 DEF InUse
<1>4. \A c \in InUse(k) : /\ k[c].mro \in Seq(Classes) /\ MroOK(k, c) /\ c \in Classes
                          /\ \A i \in 1..Len(k[c].mro) : k[c].mro[i] \in Classes
  BY DEF ClassesIn, InUse, ClassRecord
<1>5. ASSUME NEW c \in InUse(k)  PROVE MroOK(l, c)
  <2>1. \A i \in 1..Len(k[c].mro) : l[k[c].mro[i]].mro = k[k[c].mro[i]].mro  BY <1>2, <1>4
  <2>2. l[c].mro = k[c].mro /\ k[c].mro \in Seq(Classes) /\ MroOK(k, c)  BY <1>2, <1>4
  <2>3. QED  BY <1>3, <2>1, <2>2, MroKept
<1>6. RootClass \in Classes  BY RegistrationAssumption
<1>7. ClassesIn(l)
  <2>1. \A d \in Classes \ InUse(k) : l[d].gtype = Null  BY <1>0, <1>2 DEF ClassesIn
  <2>2. QED  BY <1>1, <1>2, <1>3, <1>5, <1>6, <2>1 DEF ClassesIn
<1>8. \A d \in Classes \ {b} : (Has(l, d) <=> Has(k, d)) /\ Own(l, d) = Own(k, d)  BY <1>2 DEF Has, Own
<1>9. t # Null  BY <1>0, RegistrationAssumption DEF Types, PyTypes
<1>10. Has(l, b) /\ Own(l, b) = t  BY <1>2, <1>9 DEF Has, Own
<1>11. TypeIn(l, b) = t  BY <1>0, <1>3, <1>7, <1>10, FindsOwn
<1>12. ASSUME NEW c \in InUse(k)
       PROVE  /\ \/ TypeIn(l, c) = TypeIn(k, c)
                 \/ TypeIn(l, c) = t /\ TypeIn(k, c) = TypeIn(k, b)
              /\ (\A i \in 1..Len(k[c].mro) : k[c].mro[i] # b) => TypeIn(l, c) = TypeIn(k, c)
  <2>1. PICK n : Finds(k, c, n)  BY FindsSome
  <2> DEFINE q == k[c].mro
  <2>2. q \in Seq(Classes) /\ l[c].mro = q /\ \A i \in 1..Len(q) : q[i] \in Classes  BY <1>2, <1>4
  <2>3. n \in 1..Len(q) /\ Has(k, q[n]) /\ \A i \in 1..(n - 1) : ~Has(k, q[i])  BY <2>1 DEF Finds
  <2>4. \A i, j \in 1..Len(q) : q[i] = q[j] => i = j  BY BaseOnce
  <2>5. q[n] # b /\ q[n] \in Classes  BY <1>0, <2>2, <2>3
  <2>6. TypeIn(k, c) = Own(k, q[n])  BY <2>1, <2>2, FoundIn
  <2>7. CASE \A i \in 1..(n - 1) : q[i] # b
    <3>1. \A i \in 1..(n - 1) : i \in 1..Len(q)  BY <2>2, <2>3
    <3>2. \A i \in 1..(n - 1) : ~Has(l, q[i])  BY <1>8, <2>2, <2>3, <2>7, <3>1
    <3>3. Has(l, q[n])  BY <1>8, <2>3, <2>5
    <3>4. Finds(l, c, n)  BY <2>2, <2>3, <3>2, <3>3 DEF Finds
    <3>5. TypeIn(l, c) = Own(l, q[n])
      <4>1. l[c].mro \in Seq(Classes) /\ TypeIn(l, c) = Own(l, l[c].mro[n])  BY <2>2, <3>4, FoundIn
      <4>2. QED  BY <2>2, <4>1
    <3>6. QED  BY <1>8, <2>5, <2>6, <3>5
  <2>8. CASE \E i \in 1..(n - 1) : q[i] = b
    <3>1. PICK i \in 1..(n - 1) : q[i] = b  BY <2>8
    <3>2. i \in 1..Len(q) /\ i \in 1..n  BY <2>2, <2>3
    <3>3. TypeIn(k, b) = TypeIn(k, c)  BY <2>1, <3>1, <3>2, BaseFinds
    <3>4. \A j \in 1..(i - 1) : j \in 1..(n - 1) /\ j \in 1..Len(q) /\ j # i  BY <2>2, <2>3
    <3>5. \A j \in 1..(i - 1) : q[j] # b /\ ~Has(k, q[j]) /\ q[j] \in Classes
      BY <2>2, <2>3, <2>4, <3>1, <3>2, <3>4
    <3>6. \A j \in 1..(i - 1) : ~Has(l, q[j])  BY <1>8, <3>5
    <3>7. Finds(l, c, i)  BY <1>10, <2>2, <3>1, <3>2, <3>6 DEF Finds
    <3>8. TypeIn(l, c) = t
      <4>1. l[c].mro \in Seq(Classes) /\ TypeIn(l, c) = Own(l, l[c].mro[i])  BY <2>2, <3>7, FoundIn
      <4>2. QED  BY <1>10, <2>2, <3>1, <4>1
    <3>9. QED  BY <3>1, <3>2, <3>3, <3>8
  <2>9. QED  BY <2>7, <2>8
<1>13. QED  BY <1>3, <1>7, <1>11, <1>12

-----------------------------------------------------------------------------
(* Steps of Registration                                                   *)

LEMMA Names ==
  /\ Null \notin Types /\ Null \notin Interfaces /\ Null \notin Classes /\ Null \notin Bases
  /\ Null \notin Declarations /\ Interfaces \cap Types = {} /\ CTypes \cap PyTypes = {}
  /\ Root \in CTypes /\ RootClass \in Classes /\ Tries \in Nat \ {0}
  /\ CTypes \subseteq Types /\ PyTypes \subseteq Types
BY RegistrationAssumption DEF Types, PyTypes

LEMMA Fields ==
  ASSUME RegTyped
  PROVE  /\ \A t \in Types :
              /\ type[t].supers \in Seq(Types) /\ type[t].class \in Classes \cup {Null}
              /\ type[t].interfaces \in SUBSET Interfaces
         /\ \A c \in Classes :
              /\ class[c].mro \in Seq(Classes) /\ class[c].gtype \in Types \cup {Null}
              /\ class[c].first \in Interfaces \cup {Null} /\ class[c].state \in States
              /\ class[c].name \in Bases \cup {Null} /\ class[c].declares \in Declarations \cup {Null}
BY DEF RegTyped, TypeRecord, ClassRecord

(* What a class finds, if it is a GType                                    *)
LEMMA Found ==
  ASSUME RegInv, NEW c \in Defined
  PROVE  /\ TypeOf(c) \in Types \cup Interfaces
         /\ TypeOf(c) \in Types =>
              /\ Made(TypeOf(c))
              /\ \E i \in 1..Len(class[c].mro) :
                   /\ class[c].mro[i] \in Defined /\ class[class[c].mro[i]].gtype = TypeOf(c)
                   /\ type[TypeOf(c)].replaced \/ type[TypeOf(c)].class = class[c].mro[i]
<1>1. RegTyped /\ ClassesIn(class) /\ LinksOK /\ Defined = InUse(class)
  BY DEF RegInv, ClassesOK, Defined, InUse
<1>2. PICK i \in 1..Len(class[c].mro) :
        LET d == class[c].mro[i]
        IN  d \in InUse(class) /\ TypeIn(class, c) = Own(class, d) /\ Has(class, d)
  BY <1>1, FoundWhat
<1> DEFINE d == class[c].mro[i]
<1>3. d \in Classes /\ d \in Defined /\ TypeOf(c) = Own(class, d) /\ Has(class, d)
  BY <1>1, <1>2, TypeOfIn DEF Defined
<1> HIDE DEF d
<1>4. class[d].gtype \in Types \cup {Null} /\ class[d].first \in Interfaces \cup {Null}
  BY <1>1, <1>3, Fields
<1>5. TypeOf(c) \in Types \cup Interfaces  BY <1>3, <1>4 DEF Own, Has
<1>6. ASSUME TypeOf(c) \in Types
      PROVE  /\ class[d].gtype = TypeOf(c) /\ Made(TypeOf(c))
             /\ type[TypeOf(c)].replaced \/ type[TypeOf(c)].class = d
  <2>1. class[d].gtype = TypeOf(c)  BY <1>3, <1>4, <1>6, Names DEF Own, Has
  <2>2. class[d].gtype # Null  BY <1>6, <2>1, Names
  <2>3. QED  BY <1>1, <1>3, <2>1, <2>2 DEF LinksOK
<1>7. QED  BY <1>3, <1>5, <1>6 DEF d

(* The parent of a GType                                                   *)
LEMMA Parents ==
  ASSUME RegTyped, TypesOK, NEW t \in Types \ {Root}, Made(t)
  PROVE  /\ type[t].supers \in Seq(Types) /\ Len(type[t].supers) >= 2
         /\ Parent(t) \in Types /\ Made(Parent(t)) /\ type[t].supers[Len(type[t].supers)] = t
<1>1. /\ Len(type[t].supers) >= 2 /\ type[t].supers \in Seq(Types) /\ Made(Parent(t))
      /\ type[t].supers[Len(type[t].supers)] = t
  BY Fields DEF TypesOK
<1> DEFINE q == type[t].supers
<1> HIDE DEF q
<1>2. Len(q) - 1 \in 1..Len(q) /\ q \in Seq(Types)  BY <1>1 DEF q
<1>3. QED  BY <1>1, <1>2 DEF Parent, q

LEMMA HalfwayKept ==
  ASSUME RegTyped, TypesOK, LinksOK, Halfway(registering, class, type), registering.class \in Classes,
         NEW k, k[registering.class].gtype = class[registering.class].gtype,
         k[registering.class].declares = class[registering.class].declares,
         NEW y,
         \A t \in Types : /\ y[t].supers = type[t].supers /\ y[t].interfaces = type[t].interfaces
                          /\ y[t].twice = type[t].twice /\ y[t].signals = type[t].signals
                          /\ y[t].properties = type[t].properties
  PROVE  Halfway(registering, k, y)
<1> DEFINE t == class[registering.class].gtype
<1>1. t \in PyTypes  BY DEF Halfway
<1>2. t \in Types \ {Root} /\ t # Null  BY <1>1, Names
<1>3. Made(t)  BY <1>2 DEF LinksOK
<1> HIDE DEF t
<1>4. type[t].supers[Len(type[t].supers) - 1] \in Types  BY <1>2, <1>3, Parents DEF Parent
<1>5. k[registering.class].gtype = t  BY DEF t
<1> DEFINE p == type[t].supers[Len(type[t].supers) - 1]
           d == class[registering.class].declares
<1>6. /\ t \in PyTypes /\ ~type[t].twice /\ p # t /\ type[t].interfaces = type[p].interfaces
      /\ registering.phase \in {"properties", "interfaces"} =>
           type[t].signals = d.signals /\ type[t].signals # "bad"
      /\ registering.phase = "interfaces" =>
           type[t].properties = d.properties /\ type[t].properties # "bad"
  BY DEF Halfway, t
<1>7. y[t].supers[Len(y[t].supers) - 1] = p  BY <1>2
<1>8. k[registering.class].declares = d  OBVIOUS
<1> HIDE DEF p, d
<1>9. p \in Types  BY <1>4 DEF p
<1>10. QED  BY <1>2, <1>5, <1>6, <1>7, <1>8, <1>9 DEF Halfway

LEMMA BaseDefined ==
  ASSUME RegInv, NEW c \in Defined \ {RootClass}
  PROVE  Base(c) \in Defined /\ Base(c) \in Classes /\ class[c].mro[2] = Base(c)
<1>1. ClassesIn(class) /\ c \in InUse(class) \ {RootClass}  BY DEF RegInv, ClassesOK, Defined, InUse
<1>2. class[c].mro[2] \in InUse(class)  BY <1>1, BaseOK
<1>3. QED  BY <1>2 DEF Base, Defined, InUse

(* The links and the hierarchy stand when only other fields change.        *)
LEMMA LinksKept ==
  ASSUME RegInv, type' \in [Types -> TypeRecord], Defined' = Defined,
         \A t \in Types : /\ type'[t].supers = type[t].supers /\ type'[t].class = type[t].class
                          /\ type'[t].replaced = type[t].replaced,
         \A c \in Classes : class'[c].gtype = class[c].gtype,
         \A c \in Defined : /\ TypeOf(c)' = TypeOf(c)
                            /\ c # RootClass => Base(c)' = Base(c)
  PROVE  TypesOK' /\ LinksOK' /\ BelowOK'
<1>1. RegTyped /\ TypesOK /\ LinksOK /\ BelowOK  BY DEF RegInv
<1>2. \A t \in Types : (Made(t)' <=> Made(t)) /\ Parent(t)' = Parent(t)  BY DEF Made, Parent
<1>3. TypesOK'
  <2>1. \A t \in CTypes : t \in Types  BY DEF Types
  <2>2. Root \in Types  BY Names
  <2>3. type'[Root].supers = <<Root>> /\ type'[Root].class = RootClass /\ ~type'[Root].replaced
    BY <1>1, <2>2 DEF TypesOK
  <2>4. \A t \in CTypes \ {Root} : type'[t].supers = <<Root, t>>  BY <1>1, <2>1 DEF TypesOK
  <2>5. \A t \in Types : Made(t) => /\ type[t].supers[Len(type[t].supers)] = t
                                    /\ t # Root => Len(type[t].supers) >= 2 /\ Made(Parent(t))
    BY <1>1 DEF TypesOK
  <2>6. ASSUME NEW t \in Types, Made(t), t # Root  PROVE Parent(t) \in Types
    <3>1. Len(type[t].supers) >= 2 /\ type[t].supers \in Seq(Types)  BY <1>1, <2>5, <2>6, Fields
    <3> DEFINE q == type[t].supers
    <3> HIDE DEF q
    <3>2. Len(q) - 1 \in 1..Len(q) /\ q \in Seq(Types)  BY <3>1 DEF q
    <3>3. QED  BY <3>2 DEF Parent, q
  <2>7. ASSUME NEW t \in Types, Made(t)', t # Root
        PROVE  Len(type'[t].supers) >= 2 /\ Made(Parent(t))'
    <3>1. Made(t) /\ Made(Parent(t)) /\ Parent(t) \in Types /\ Len(type[t].supers) >= 2
      BY <1>2, <2>5, <2>6, <2>7
    <3>2. type'[Parent(t)].supers # <<>> /\ Parent(t)' = Parent(t)  BY <1>2, <3>1 DEF Made
    <3>3. QED  BY <3>1, <3>2 DEF Made
  <2>8. \A t \in Types : Made(t)' => type'[t].supers[Len(type'[t].supers)] = t  BY <1>2, <2>5
  <2>9. QED  BY <2>3, <2>4, <2>7, <2>8 DEF TypesOK
<1>4. LinksOK'
  <2>1. \A t \in Types : type[t].class \in Classes \cup {Null}  BY <1>1, Fields
  <2>2. \A c \in Classes : class[c].gtype \in Types \cup {Null}  BY <1>1, Fields
  <2>3. \A t \in Types : /\ type'[t].class # Null => class'[type'[t].class].gtype = t
                         /\ type'[t].replaced => type'[t].class # Null /\ t \in CTypes
    BY <1>1, <2>1 DEF LinksOK
  <2>4. ASSUME NEW c \in Classes, class'[c].gtype # Null
        PROVE  /\ Made(class[c].gtype)' /\ class'[c].gtype = class[c].gtype
               /\ type'[class[c].gtype].replaced \/ type'[class[c].gtype].class = c
    <3>1. class[c].gtype \in Types /\ class[c].gtype # Null  BY <2>2, <2>4
    <3>2. /\ Made(class[c].gtype)
          /\ type[class[c].gtype].replaced \/ type[class[c].gtype].class = c
      BY <1>1, <3>1 DEF LinksOK
    <3>3. QED  BY <1>2, <3>1, <3>2 DEF Made
  <2>5. QED  BY <2>3, <2>4 DEF LinksOK, Made
<1>5. BelowOK'
  <2>1. ASSUME NEW c \in Defined \ {RootClass}, class[c].gtype # Null
        PROVE  /\ TypeOf(Base(c))' \in Types
               /\ Parent(class[c].gtype)' \in Elements(type[TypeOf(Base(c))].supers)'
    <3>1. Base(c) \in Defined /\ Base(c)' = Base(c) /\ TypeOf(Base(c)) \in Types
      BY <1>1, <2>1, BaseDefined DEF BelowOK
    <3>2. TypeOf(Base(c))' = TypeOf(Base(c))  BY <3>1
    <3>3. class[c].gtype \in Types /\ class'[c].gtype = class[c].gtype  BY <1>1, <2>1, Fields DEF Defined
    <3>4. Parent(class[c].gtype)' = Parent(class[c].gtype)  BY <1>2, <3>3
    <3>5. Parent(class[c].gtype) \in Elements(type[TypeOf(Base(c))].supers)  BY <1>1, <2>1 DEF BelowOK
    <3>6. type'[TypeOf(Base(c))].supers = type[TypeOf(Base(c))].supers  BY <3>1
    <3>7. QED  BY <3>1, <3>2, <3>4, <3>5, <3>6 DEF Elements
  <2>2. \A c \in Defined : c \in Classes  BY DEF Defined
  <2>3. QED  BY <2>1, <2>2 DEF BelowOK
<1>6. QED  BY <1>3, <1>4, <1>5

(* What a new class leaves as it is                                        *)
LEMMA ClassMade ==
  ASSUME RegInv, NEW c, NEW b, NEW r, Extended(class, c, b, r, class')
  PROVE  /\ ClassesOK' /\ Defined' = Defined \cup {c} /\ c \notin Defined /\ c # RootClass
         /\ class'[c] = r /\ Base(c)' = b /\ class[c].gtype = Null
         /\ \A d \in Classes \ {c} : class'[d] = class[d]
         /\ \A d \in Defined : /\ TypeOf(d)' = TypeOf(d) /\ class'[d] = class[d]
                               /\ d # RootClass => Base(d)' = Base(d) /\ Base(d) \in Defined
<1>1. RegTyped /\ ClassesIn(class) /\ Defined = InUse(class)  BY DEF RegInv, ClassesOK, Defined, InUse
<1>2. c \in Classes \ InUse(class) /\ b \in InUse(class)  BY DEF Extended
<1>3. /\ ClassesIn(class') /\ InUse(class') = InUse(class) \cup {c} /\ c # RootClass
      /\ r.mro[2] = b /\ \A d \in InUse(class) : TypeIn(class', d) = TypeIn(class, d)
  BY <1>1, NewClass
<1>4. Defined' = InUse(class')  BY DEF Defined, InUse
<1>5. class'[c] = r /\ \A d \in Classes \ {c} : class'[d] = class[d]
  BY <1>1, <1>2 DEF RegTyped, Extended
<1>6. class[c].gtype = Null  BY <1>1, <1>2 DEF ClassesIn
<1>7. \A d \in Defined : TypeOf(d)' = TypeOf(d)  BY <1>1, <1>3, TypeOfIn
<1>8. \A d \in Defined : d \in Classes \ {c}  BY <1>1, <1>2 DEF Defined
<1>9. \A d \in Defined \ {RootClass} : Base(d)' = Base(d) /\ Base(d) \in Defined
  BY <1>5, <1>8, BaseDefined DEF Base
<1>10. ClassesOK'  BY <1>3 DEF ClassesOK
<1>11. Base(c)' = b  BY <1>3, <1>5 DEF Base
<1>12. QED  BY <1>1, <1>2, <1>3, <1>4, <1>5, <1>6, <1>7, <1>8, <1>9, <1>10, <1>11

(* A class for a library's GType                                           *)
LEMMA StandsStep ==
  ASSUME RegInv, NEW c \in Classes, NEW t \in CTypes, Unbound(c, t),
         NEW flag \in BOOLEAN, NEW inits \in {"fine", "fail"},
         Stands(c, t, [type[t] EXCEPT !.flag = flag, !.inits = inits])
  PROVE  RegInv'
<1>1. /\ RegTyped /\ ClassesOK /\ TypesOK /\ LinksOK /\ BelowOK /\ StatesOK /\ ProgressOK
  BY DEF RegInv
<1>2. t \in Types /\ t # Root /\ t \in CTypes \ {Root} /\ t # Null /\ Root \in Types  BY Names DEF Unbound
<1>3. Parent(t) = Root
  <2>1. type[t].supers = <<Root, t>>  BY <1>1, <1>2 DEF TypesOK
  <2>2. QED  BY <2>1 DEF Parent
<1>4. type[Root].class = RootClass /\ RootClass \in Defined
  BY <1>1 DEF TypesOK, ClassesOK, ClassesIn, Defined, InUse
<1> DEFINE r == [NoClass EXCEPT !.state = "done", !.gtype = t, !.mro = <<c>> \o class[RootClass].mro]
<1>5. class' = [class EXCEPT ![c] = r]  BY <1>3, <1>4 DEF Stands
<1>6. r.state = "done" /\ r.gtype = t /\ r.declares = Null /\ r.name = Null
  BY DEF NoClass
<1>7. /\ r \in ClassRecord /\ Len(r.mro) = Len(class[RootClass].mro) + 1 /\ r.mro[1] = c
      /\ \A i \in 1..Len(class[RootClass].mro) : r.mro[i + 1] = class[RootClass].mro[i]
  <2> DEFINE m == class[RootClass].mro
             q == <<c>> \o m
  <2>1. m \in Seq(Classes)  BY <1>1, Fields, Names
  <2>2. /\ q \in Seq(Classes) /\ Len(q) = Len(m) + 1 /\ q[1] = c
        /\ \A i \in 1..Len(m) : q[i + 1] = m[i]
    BY <2>1, Prepend
  <2>3. r = [NoClass EXCEPT !.state = "done", !.gtype = t, !.mro = q]  OBVIOUS
  <2> HIDE DEF m, q, r
  <2>4. r \in ClassRecord /\ r.mro = q  BY <1>2, <2>2, <2>3 DEF ClassRecord, NoClass, States
  <2>5. QED  BY <2>2, <2>4 DEF m
<1> HIDE DEF r
<1>8. /\ ClassesOK' /\ Defined' = Defined \cup {c} /\ c \notin Defined /\ c # RootClass
      /\ class'[c] = r /\ Base(c)' = RootClass /\ class[c].gtype = Null
      /\ \A d \in Classes \ {c} : class'[d] = class[d]
      /\ \A d \in Defined : /\ TypeOf(d)' = TypeOf(d) /\ class'[d] = class[d]
                            /\ d # RootClass => Base(d)' = Base(d) /\ Base(d) \in Defined
  <2>1. Extended(class, c, RootClass, r, class')
    BY <1>4, <1>5, <1>6, <1>7 DEF Extended, Unbound, Defined, InUse
  <2>2. QED  BY <2>1, ClassMade
<1>9. /\ type' \in [Types -> TypeRecord]
      /\ \A u \in Types : /\ type'[u].supers = type[u].supers /\ type'[u].interfaces = type[u].interfaces
                          /\ type'[u].twice = type[u].twice /\ type'[u].signals = type[u].signals
                          /\ type'[u].properties = type[u].properties
      /\ \A u \in Types \ {t} : type'[u] = type[u]
      /\ type'[t].class = c /\ type'[t].replaced = (type[t].class # Null)
  <2>1. type \in [Types -> TypeRecord] /\ type[t] \in TypeRecord  BY <1>1, <1>2 DEF RegTyped
  <2> DEFINE n == [[type[t] EXCEPT !.flag = flag, !.inits = inits]
                     EXCEPT !.class = c, !.replaced = type[t].class # Null]
  <2>2. /\ n \in TypeRecord /\ n.class = c /\ n.replaced = (type[t].class # Null)
        /\ n.supers = type[t].supers /\ n.interfaces = type[t].interfaces
        /\ n.twice = type[t].twice /\ n.signals = type[t].signals /\ n.properties = type[t].properties
    BY <2>1 DEF TypeRecord
  <2>3. type' = [type EXCEPT ![t] = n]  BY DEF Stands
  <2> HIDE DEF n
  <2>4. QED  BY <1>2, <2>1, <2>2, <2>3
<1>10. supported' = supported /\ registering' = registering  BY DEF Stands
<1>11. RegTyped'  BY <1>1, <1>8, <1>9, <1>10 DEF RegTyped, ClassesOK, ClassesIn
<1>12. \A u \in Types : (Made(u)' <=> Made(u)) /\ Parent(u)' = Parent(u)  BY <1>9 DEF Made, Parent
<1>13. TypesOK'
  <2>1. \A u \in CTypes : u \in Types  BY DEF Types
  <2>2. type'[Root].supers = <<Root>> /\ type'[Root].class = RootClass /\ ~type'[Root].replaced
    BY <1>1, <1>2, <1>9 DEF TypesOK
  <2>3. \A u \in CTypes \ {Root} : type'[u].supers = <<Root, u>>  BY <1>1, <1>9, <2>1 DEF TypesOK
  <2>4. ASSUME NEW u \in Types, Made(u)'
        PROVE  /\ type'[u].supers[Len(type'[u].supers)] = u
               /\ u # Root => Len(type'[u].supers) >= 2 /\ Made(Parent(u))'
    <3>1. Made(u) /\ type'[u].supers = type[u].supers  BY <1>9, <1>12, <2>4
    <3>2. type[u].supers[Len(type[u].supers)] = u  BY <1>1, <3>1 DEF TypesOK
    <3>3. ASSUME u # Root  PROVE Len(type[u].supers) >= 2 /\ Made(Parent(u)) /\ Parent(u) \in Types
      <4>1. Len(type[u].supers) >= 2 /\ type[u].supers \in Seq(Types) /\ Made(Parent(u))
        BY <1>1, <3>1, <3>3, Fields DEF TypesOK
      <4> DEFINE q == type[u].supers
      <4> HIDE DEF q
      <4>2. Len(q) - 1 \in 1..Len(q) /\ q \in Seq(Types)  BY <4>1 DEF q
      <4>3. QED  BY <4>1, <4>2 DEF Parent, q
    <3>4. ASSUME u # Root  PROVE Made(Parent(u))'
      <4>1. type'[Parent(u)].supers # <<>> /\ Parent(u)' = Parent(u)  BY <1>9, <1>12, <3>3, <3>4 DEF Made
      <4>2. QED  BY <4>1 DEF Made
    <3>5. QED  BY <3>1, <3>2, <3>3, <3>4
  <2>5. QED  BY <2>2, <2>3, <2>4 DEF TypesOK
<1>14. LinksOK'
  <2>1. ASSUME NEW u \in Types
        PROVE  /\ type'[u].class # Null => class'[type'[u].class].gtype = u
               /\ type'[u].replaced => type'[u].class # Null /\ u \in CTypes
    <3>1. CASE u = t
      BY <1>6, <1>8, <1>9, <3>1, Names
    <3>2. CASE u # t
      <4>1. type'[u] = type[u] /\ type[u].class \in Classes \cup {Null}  BY <1>1, <1>9, <3>2, Fields
      <4>2. type[u].class # Null => class[type[u].class].gtype = u  BY <1>1 DEF LinksOK
      <4>3. u # Null  BY Names
      <4>4. type[u].class # Null => type[u].class \in Classes \ {c}  BY <1>8, <4>1, <4>2, <4>3
      <4>5. QED  BY <1>1, <1>8, <4>1, <4>2, <4>4 DEF LinksOK
    <3>3. QED  BY <3>1, <3>2
  <2>2. ASSUME NEW d \in Classes, class'[d].gtype # Null
        PROVE  /\ type'[class'[d].gtype].supers # <<>>
               /\ type'[class'[d].gtype].replaced \/ type'[class'[d].gtype].class = d
    <3>1. CASE d = c
      <4>1. class'[d].gtype = t  BY <1>6, <1>8, <3>1
      <4>2. type'[t].supers = <<Root, t>>  BY <1>2, <1>13 DEF TypesOK
      <4>3. QED  BY <1>9, <3>1, <4>1, <4>2
    <3>2. CASE d # c
      <4>1. class'[d] = class[d] /\ class[d].gtype \in Types  BY <1>1, <1>8, <2>2, <3>2, Fields
      <4>2. /\ Made(class[d].gtype) /\ (type[class[d].gtype].replaced => type[class[d].gtype].class # Null)
            /\ type[class[d].gtype].replaced \/ type[class[d].gtype].class = d
        BY <1>1, <2>2, <4>1 DEF LinksOK
      <4>3. type'[class[d].gtype].replaced \/ type'[class[d].gtype].class = d
        BY <1>9, <4>1, <4>2, Names
      <4>4. QED  BY <1>9, <4>1, <4>2, <4>3 DEF Made
    <3>3. QED  BY <3>1, <3>2
  <2>3. QED  BY <2>1, <2>2 DEF LinksOK, Made
<1>15. BelowOK'
  <2>1. ASSUME NEW d \in Classes, d \in Defined', d # RootClass, class'[d].gtype # Null
        PROVE  /\ TypeOf(Base(d))' \in Types
               /\ Parent(class[d].gtype)' \in Elements(type[TypeOf(Base(d))].supers)'
    <3>1. CASE d = c
      <4>1. TypeIn(class, RootClass) = Root
        <5>1. class[RootClass].gtype = Root  BY <1>1 DEF ClassesOK, ClassesIn
        <5>2. Has(class, RootClass) /\ Own(class, RootClass) = Root  BY <1>2, <5>1, Names DEF Has, Own
        <5>3. QED  BY <1>1, <1>4, <5>2, FindsOwn DEF ClassesOK, Defined, InUse
      <4>2. TypeOf(Base(d))' = Root
        <5>1. TypeOf(RootClass)' = Root  BY <1>4, <1>8, <4>1, TypeOfIn
        <5>2. QED  BY <1>8, <3>1, <5>1, TypeOfIn
      <4>3. class'[d].gtype = t /\ Parent(t)' = Root  BY <1>2, <1>3, <1>6, <1>8, <1>12, <3>1
      <4>4. type'[Root].supers = <<Root>> /\ Root \in Elements(<<Root>>)  BY <1>13 DEF TypesOK, Elements
      <4>5. Parent(class[d].gtype)' = Root  BY <4>3 DEF Parent
      <4>6. QED  BY <1>2, <4>2, <4>4, <4>5 DEF Elements
    <3>2. CASE d # c
      <4>1. d \in Defined /\ class'[d] = class[d] /\ Base(d) \in Defined /\ Base(d)' = Base(d)
        BY <1>8, <2>1, <3>2
      <4>2. /\ TypeOf(Base(d)) \in Types
            /\ Parent(class[d].gtype) \in Elements(type[TypeOf(Base(d))].supers)
        BY <1>1, <2>1, <4>1 DEF BelowOK
      <4>3. TypeOf(Base(d))' = TypeOf(Base(d))  BY <1>8, <4>1, TypeOfIn
      <4>4. class[d].gtype \in Types  BY <1>1, <2>1, <4>1, Fields
      <4>5. Parent(class[d].gtype)' = Parent(class[d].gtype)  BY <1>9, <4>1, <4>4 DEF Parent
      <4>6. type'[TypeOf(Base(d))].supers = type[TypeOf(Base(d))].supers  BY <1>9, <4>2
      <4>7. QED  BY <4>2, <4>3, <4>5, <4>6 DEF Elements
    <3>3. QED  BY <3>1, <3>2
  <2>2. \A d \in Defined' : d \in Classes  BY DEF Defined
  <2>3. QED  BY <2>1, <2>2 DEF BelowOK
<1>16. StatesOK'
  <2>1. ASSUME NEW d \in Classes
        PROVE  /\ class'[d].state \in {"registering", "plain", "failed", "retried"} =>
                    class'[d].declares # Null /\ class'[d].name # Null
               /\ class'[d].gtype \in CTypes => class'[d].state = "done" /\ class'[d].declares = Null
    BY <1>1, <1>6, <1>8 DEF StatesOK
  <2>2. registering.phase # "idle" => registering.class \in Classes \ {c}
    BY <1>1 DEF StatesOK, RegTyped, Unbound
  <2>3. QED  BY <1>1, <1>8, <1>10, <2>1, <2>2 DEF StatesOK
<1>17. ProgressOK'
  <2>1. ASSUME NEW d \in Defined', class'[d].state = "done", class'[d].declares # Null
        PROVE  IF class'[d].gtype = Null THEN class'[d].first # Null ELSE Full(d)'
    <3>1. d # c /\ d \in Defined /\ d \in Classes /\ class'[d] = class[d]
      BY <1>6, <1>8, <2>1 DEF Defined
    <3>2. IF class[d].gtype = Null THEN class[d].first # Null ELSE Full(d)
      BY <1>1, <2>1, <3>1 DEF ProgressOK
    <3>3. class[d].gtype # Null => class[d].gtype \in Types  BY <1>1, <3>1, Fields
    <3>4. QED  BY <1>9, <1>10, <3>1, <3>2, <3>3 DEF Full
  <2>2. ASSUME registering.phase \in {"signals", "properties", "interfaces"}
        PROVE  Halfway(registering, class', type')
    <3>1. /\ registering.class \in Classes /\ registering.class # c
          /\ class'[registering.class] = class[registering.class]
      BY <1>1, <1>8, <2>2 DEF StatesOK, RegTyped, Unbound
    <3>2. Halfway(registering, class, type)  BY <1>1, <2>2 DEF ProgressOK
    <3>3. QED  BY <1>1, <1>9, <3>1, <3>2, HalfwayKept
  <2>3. QED  BY <1>10, <2>1, <2>2 DEF ProgressOK
<1>18. QED  BY <1>8, <1>11, <1>13, <1>14, <1>15, <1>16, <1>17 DEF RegInv

LEMMA StatementStep ==
  ASSUME RegInv, NEW c \in Classes, NEW b \in Classes, NEW d \in Declarations,
         NEW implements \in SUBSET Interfaces, NEW first \in Interfaces \cup {Null}, NEW name \in Bases,
         ClassStatement(c, b, d, implements, first, name)
  PROVE  RegInv'
<1>1. /\ RegTyped /\ ClassesOK /\ TypesOK /\ LinksOK /\ BelowOK /\ StatesOK /\ ProgressOK
  BY DEF RegInv
<1>2. /\ class[c].state = "unused" /\ b \in Defined /\ registering = Idle
      /\ type' = type /\ supported' = supported
  BY DEF ClassStatement, Defined
<1> DEFINE r == [NoClass EXCEPT !.state = IF Declares(d) THEN "registering" ELSE "plain", !.declares = d,
                   !.mro = <<c>> \o class[b].mro, !.interfaces = implements, !.first = first, !.name = name]
<1>3. class' = [class EXCEPT ![c] = r]  BY DEF ClassStatement
<1>4. /\ r.state \in {"registering", "plain"} /\ (Declares(d) => r.state = "registering")
      /\ r.gtype = Null /\ r.declares = d /\ r.name = name
  BY DEF NoClass
<1>5. /\ r \in ClassRecord /\ Len(r.mro) = Len(class[b].mro) + 1 /\ r.mro[1] = c
      /\ \A i \in 1..Len(class[b].mro) : r.mro[i + 1] = class[b].mro[i]
  <2> DEFINE m == class[b].mro
             q == <<c>> \o m
             st == IF Declares(d) THEN "registering" ELSE "plain"
  <2>1. m \in Seq(Classes)  BY <1>1, Fields
  <2>2. /\ q \in Seq(Classes) /\ Len(q) = Len(m) + 1 /\ q[1] = c
        /\ \A i \in 1..Len(m) : q[i + 1] = m[i]
    BY <2>1, Prepend
  <2>3. r = [NoClass EXCEPT !.state = st, !.declares = d, !.mro = q, !.interfaces = implements,
                            !.first = first, !.name = name]
    OBVIOUS
  <2>4. st \in States  BY DEF States
  <2> HIDE DEF m, q, r, st
  <2>5. r \in ClassRecord /\ r.mro = q  BY <2>2, <2>3, <2>4 DEF ClassRecord, NoClass
  <2>6. QED  BY <2>2, <2>5 DEF m
<1> HIDE DEF r
<1>6. Extended(class, c, b, r, class')
  BY <1>2, <1>3, <1>4, <1>5 DEF Extended, Defined, InUse
<1>7. /\ ClassesOK' /\ Defined' = Defined \cup {c} /\ c \notin Defined /\ c # RootClass
      /\ class'[c] = r /\ class[c].gtype = Null
      /\ \A e \in Classes \ {c} : class'[e] = class[e]
      /\ \A e \in Defined : /\ TypeOf(e)' = TypeOf(e) /\ class'[e] = class[e]
                            /\ e # RootClass => Base(e)' = Base(e) /\ Base(e) \in Defined
  BY <1>6, ClassMade
<1>8. registering' = IF Declares(d) THEN [class |-> c, named |-> d.named, phase |-> "check"] ELSE Idle
  BY DEF ClassStatement
<1>9. RegTyped'
  <2>1. d.named \in BOOLEAN  BY RegistrationAssumption
  <2>2. registering' \in [class : Classes \cup {Null}, named : BOOLEAN,
                           phase : {"idle", "check", "signals", "properties", "interfaces"}]
    BY <1>8, <2>1 DEF Idle
  <2>3. QED  BY <1>1, <1>2, <1>7, <2>2 DEF RegTyped, ClassesOK, ClassesIn
<1>10. TypesOK'  BY <1>1, <1>2 DEF TypesOK, Made, Parent
<1>11. \A e \in Classes : class'[e].gtype = class[e].gtype  BY <1>4, <1>7
<1>12. LinksOK'
  <2>1. \A t \in Types : type[t].class \in Classes \cup {Null}  BY <1>1, Fields
  <2>2. QED  BY <1>1, <1>2, <1>11, <2>1 DEF LinksOK, Made
<1>13. BelowOK'
  <2>1. ASSUME NEW e \in Classes, e \in Defined', e # RootClass, class'[e].gtype # Null
        PROVE  /\ TypeOf(Base(e))' \in Types
               /\ Parent(class[e].gtype)' \in Elements(type[TypeOf(Base(e))].supers)'
    <3>1. e \in Defined /\ class'[e] = class[e] /\ Base(e) \in Defined /\ Base(e)' = Base(e)
      BY <1>7, <1>11, <2>1
    <3>2. /\ TypeOf(Base(e)) \in Types
          /\ Parent(class[e].gtype) \in Elements(type[TypeOf(Base(e))].supers)
      BY <1>1, <2>1, <3>1 DEF BelowOK
    <3>3. TypeOf(Base(e))' = TypeOf(Base(e))  BY <1>7, <3>1, TypeOfIn
    <3>4. Parent(class[e].gtype)' = Parent(class[e].gtype)  BY <1>2, <3>1 DEF Parent
    <3>5. QED  BY <1>2, <3>2, <3>3, <3>4 DEF Elements
  <2>2. \A e \in Defined' : e \in Classes  BY DEF Defined
  <2>3. QED  BY <2>1, <2>2 DEF BelowOK
<1>14. StatesOK'
  <2>1. d # Null /\ name # Null /\ c # Null  BY Names
  <2>2. ASSUME NEW e \in Classes
        PROVE  /\ class'[e].state \in {"registering", "plain", "failed", "retried"} =>
                    class'[e].declares # Null /\ class'[e].name # Null
               /\ class'[e].gtype \in CTypes => class'[e].state = "done" /\ class'[e].declares = Null
    BY <1>1, <1>4, <1>7, <2>1, Names DEF StatesOK, Types
  <2>3. QED  BY <1>4, <1>7, <1>8, <2>1, <2>2 DEF StatesOK, Idle
<1>15. ProgressOK'
  <2>1. ASSUME NEW e \in Defined', class'[e].state = "done", class'[e].declares # Null
        PROVE  IF class'[e].gtype = Null THEN class'[e].first # Null ELSE Full(e)'
    <3>1. e \in Defined /\ class'[e] = class[e]  BY <1>4, <1>7, <2>1
    <3>2. IF class[e].gtype = Null THEN class[e].first # Null ELSE Full(e)
      BY <1>1, <2>1, <3>1 DEF ProgressOK
    <3>3. QED  BY <1>2, <3>1, <3>2 DEF Full
  <2>2. registering'.phase \notin {"signals", "properties", "interfaces"}  BY <1>8 DEF Idle
  <2>3. QED  BY <2>1, <2>2 DEF ProgressOK
<1>16. QED  BY <1>7, <1>9, <1>10, <1>12, <1>13, <1>14, <1>15 DEF RegInv

(* What remains when only the state of a class changes                     *)
LEMMA StateKept ==
  ASSUME RegInv, NEW c \in Defined, NEW st \in States, st # "unused",
         class' = [class EXCEPT ![c].state = st]
  PROVE  /\ ClassesOK' /\ Defined' = Defined /\ class'[c].state = st
         /\ \A d \in Classes : /\ class'[d].gtype = class[d].gtype /\ class'[d].first = class[d].first
                               /\ class'[d].declares = class[d].declares /\ class'[d].name = class[d].name
                               /\ class'[d].interfaces = class[d].interfaces
                               /\ d # c => class'[d] = class[d]
         /\ \A d \in Defined : /\ TypeOf(d)' = TypeOf(d)
                               /\ d # RootClass => Base(d)' = Base(d)
<1>1. ClassesIn(class) /\ Defined = InUse(class) /\ class \in [Classes -> ClassRecord] /\ c \in Classes
  BY DEF RegInv, ClassesOK, ClassesIn, Defined, InUse
<1>2. /\ class' \in [Classes -> ClassRecord] /\ class'[c].state = st
      /\ \A d \in Classes : /\ class'[d].gtype = class[d].gtype /\ class'[d].first = class[d].first
                            /\ class'[d].declares = class[d].declares /\ class'[d].name = class[d].name
                            /\ class'[d].interfaces = class[d].interfaces
                            /\ class'[d].mro = class[d].mro /\ d # c => class'[d] = class[d]
  BY <1>1 DEF ClassRecord
<1>3. InUse(class') = InUse(class)
  <2>1. class[c].state # "unused"  BY DEF Defined
  <2>2. QED  BY <1>1, <1>2, <2>1 DEF InUse
<1>4. ClassesIn(class') /\ \A d \in InUse(class) : TypeIn(class', d) = TypeIn(class, d)
  <2>1. \A d \in Classes : /\ class'[d].mro = class[d].mro /\ class'[d].gtype = class[d].gtype
                           /\ class'[d].first = class[d].first /\ class'[d].declares = class[d].declares
    BY <1>2
  <2>2. class' \in [Classes -> ClassRecord]  BY <1>2
  <2>3. QED  BY <1>1, <1>3, <2>1, <2>2, LookupKept
<1>5. Defined' = InUse(class')  BY DEF Defined, InUse
<1>6. \A d \in Defined : Base(d)' = Base(d)  BY <1>2 DEF Base, Defined
<1>7. \A d \in Defined : TypeOf(d)' = TypeOf(d)  BY <1>1, <1>4, TypeOfIn
<1>8. QED  BY <1>1, <1>2, <1>3, <1>4, <1>5, <1>6, <1>7 DEF ClassesOK

LEMMA Registering ==
  ASSUME RegInv, registering.phase # "idle"
  PROVE  /\ registering.class \in Defined /\ registering.class \in Classes \ {RootClass}
         /\ class[registering.class].state \in {"registering", "plain", "failed"}
         /\ class[registering.class].declares \in Declarations /\ class[registering.class].name \in Bases
         /\ class[registering.class].gtype \notin CTypes
<1>1. RegTyped /\ ClassesOK /\ StatesOK  BY DEF RegInv
<1> DEFINE c == registering.class
<1>2. c \in Classes /\ class[c].state \in {"registering", "plain", "failed"}  BY <1>1 DEF RegTyped, StatesOK
<1> HIDE DEF c
<1>3. c \in Defined  BY <1>2 DEF Defined
<1>4. class[c].declares # Null /\ class[c].name # Null  BY <1>1, <1>2 DEF StatesOK
<1>5. c # RootClass  BY <1>1, <1>4 DEF ClassesOK, ClassesIn
<1>6. class[c].gtype \notin CTypes  BY <1>1, <1>2 DEF StatesOK
<1>7. class[c].declares \in Declarations /\ class[c].name \in Bases  BY <1>1, <1>2, <1>4, Fields
<1>8. QED  BY <1>2, <1>3, <1>5, <1>6, <1>7 DEF c

LEMMA TypeRegisterStep ==
  ASSUME RegInv, NEW c \in Classes, NEW named \in BOOLEAN, TypeRegister(c, named)
  PROVE  RegInv'
<1>1. RegTyped /\ ClassesOK /\ TypesOK /\ LinksOK /\ BelowOK /\ StatesOK /\ ProgressOK  BY DEF RegInv
<1>2. /\ registering' = [class |-> c, named |-> named, phase |-> "check"]
      /\ type' = type /\ class' = class /\ supported' = supported
      /\ class[c].state \in {"plain", "failed"}
  BY DEF TypeRegister
<1>3. registering'.phase = "check" /\ registering'.class = c /\ c # Null  BY <1>2, Names
<1>4. RegTyped'  BY <1>1, <1>2 DEF RegTyped
<1>5. ClassesOK' /\ Defined' = Defined  BY <1>1, <1>2 DEF ClassesOK, Defined
<1>6. TypesOK' /\ LinksOK' /\ BelowOK'
  <2>1. \A d \in Defined : TypeOf(d)' = TypeOf(d) /\ Base(d)' = Base(d)  BY <1>2, TypeOfIn DEF Base
  <2>2. QED  BY <1>1, <1>2, <1>5, <2>1, LinksKept DEF RegTyped
<1>7. StatesOK'  BY <1>1, <1>2, <1>3 DEF StatesOK
<1>8. ProgressOK'  BY <1>1, <1>2, <1>3 DEF ProgressOK, Defined, Full
<1>9. QED  BY <1>4, <1>5, <1>6, <1>7, <1>8 DEF RegInv

(* The call ends, and has changed no GType.                                *)
LEMMA EndsStep ==
  ASSUME RegInv, registering.phase # "idle", NEW st \in {"plain", "retried", "done"}, Ends(st),
         type' = type, supported' = supported,
         st = "done" => class[registering.class].gtype = Null /\ class[registering.class].first # Null
  PROVE  RegInv'
<1>1. RegTyped /\ ClassesOK /\ TypesOK /\ LinksOK /\ BelowOK /\ StatesOK /\ ProgressOK  BY DEF RegInv
<1> DEFINE c == registering.class
<1>2. /\ c \in Defined /\ c \in Classes \ {RootClass} /\ class[c].gtype \notin CTypes
      /\ class[c].declares \in Declarations /\ class[c].name \in Bases
  BY Registering
<1>3. class' = [class EXCEPT ![c].state = st] /\ registering' = Idle  BY DEF Ends
<1>4. st = "done" => class[c].gtype = Null /\ class[c].first # Null  OBVIOUS
<1> HIDE DEF c
<1>5. st \in States /\ st # "unused"  BY DEF States
<1>6. /\ ClassesOK' /\ Defined' = Defined /\ class'[c].state = st
      /\ \A d \in Classes : /\ class'[d].gtype = class[d].gtype /\ class'[d].first = class[d].first
                            /\ class'[d].declares = class[d].declares /\ class'[d].name = class[d].name
                            /\ class'[d].interfaces = class[d].interfaces
                            /\ d # c => class'[d] = class[d]
      /\ \A d \in Defined : /\ TypeOf(d)' = TypeOf(d)
                            /\ d # RootClass => Base(d)' = Base(d)
  BY <1>2, <1>3, <1>5, StateKept
<1>7. registering' \in [class : Classes \cup {Null}, named : BOOLEAN,
                        phase : {"idle", "check", "signals", "properties", "interfaces"}]
  BY <1>3 DEF Idle
<1>8. RegTyped'  BY <1>1, <1>6, <1>7 DEF RegTyped, ClassesOK, ClassesIn
<1>9. TypesOK' /\ LinksOK' /\ BelowOK'  BY <1>6, <1>8, LinksKept DEF RegTyped
<1>10. StatesOK'
  <2>1. ASSUME NEW d \in Classes
        PROVE  /\ class'[d].state \in {"registering", "plain", "failed", "retried"} =>
                    class'[d].declares # Null /\ class'[d].name # Null
               /\ class'[d].gtype \in CTypes => class'[d].state = "done" /\ class'[d].declares = Null
    <3>1. CASE d = c  BY <1>2, <1>6, <3>1, Names
    <3>2. CASE d # c  BY <1>1, <1>6, <3>2 DEF StatesOK
    <3>3. QED  BY <3>1, <3>2
  <2>2. registering'.phase = "idle" /\ registering' = Idle  BY <1>3 DEF Idle
  <2>3. QED  BY <2>1, <2>2 DEF StatesOK
<1>11. ProgressOK'
  <2>1. ASSUME NEW d \in Defined, class'[d].state = "done", class'[d].declares # Null
        PROVE  IF class'[d].gtype = Null THEN class'[d].first # Null ELSE Full(d)'
    <3>1. d \in Classes  BY DEF Defined
    <3>2. CASE d = c  BY <1>4, <1>6, <2>1, <3>1, <3>2
    <3>3. CASE d # c
      <4>1. class'[d] = class[d]  BY <1>6, <3>1, <3>3
      <4>2. IF class[d].gtype = Null THEN class[d].first # Null ELSE Full(d)
        BY <1>1, <2>1, <4>1 DEF ProgressOK
      <4>3. QED  BY <4>1, <4>2 DEF Full
    <3>4. QED  BY <3>2, <3>3
  <2>2. registering'.phase = "idle"  BY <1>3 DEF Idle
  <2>3. QED  BY <1>6, <2>1, <2>2 DEF ProgressOK
<1>12. QED  BY <1>6, <1>8, <1>9, <1>10, <1>11 DEF RegInv

LEMMA AlreadyStep ==
  ASSUME RegInv, AlreadyRegistered
  PROVE  RegInv'
<1> DEFINE c == registering.class
           st == IF class[c].gtype = Null THEN "done" ELSE "retried"
<1>1. /\ registering.phase = "check" /\ TypeOf(c) # TypeOf(Base(c)) /\ Ends(st)
      /\ type' = type /\ supported' = supported
  BY DEF AlreadyRegistered, At, Registers
<1>2. c \in Defined /\ c \in Classes \ {RootClass}  BY <1>1, Registering
<1>3. ASSUME class[c].gtype = Null  PROVE class[c].first # Null
  <2>1. SUFFICES ASSUME class[c].first = Null  PROVE FALSE  OBVIOUS
  <2> HIDE DEF c
  <2>2. ClassesIn(class) /\ c \in InUse(class) \ {RootClass}  BY <1>2 DEF RegInv, ClassesOK, Defined, InUse
  <2>3. ~Has(class, c)  BY <1>3, <2>1 DEF Has
  <2>4. TypeIn(class, c) = TypeIn(class, class[c].mro[2])  BY <2>2, <2>3, FindsBase
  <2>5. TypeOf(c) = TypeOf(Base(c))  BY <2>4, TypeOfIn DEF Base
  <2>6. QED  BY <1>1, <2>5
<1>4. st \in {"plain", "retried", "done"} /\ (st = "done" => class[c].gtype = Null)  OBVIOUS
<1> HIDE DEF st
<1>5. QED  BY <1>1, <1>3, <1>4, EndsStep

(* The registration of c, with GType t, goes on, or ends: the GType changes to
   n, which keeps its place.                                               *)
Advances(c, t, n) ==
  /\ c = registering.class /\ t = class[c].gtype
  /\ registering.phase \in {"signals", "properties", "interfaces"}
  /\ n \in TypeRecord /\ type' = [type EXCEPT ![t] = n] /\ supported' = supported
  /\ n.supers = type[t].supers /\ n.class = type[t].class /\ n.replaced = type[t].replaced
  /\ \/ /\ class' = class
        /\ \E phase \in {"properties", "interfaces"} : registering' = [registering EXCEPT !.phase = phase]
        /\ Halfway(registering', class', type')
     \/ \E st \in {"failed", "done"} :
          /\ class' = [class EXCEPT ![c].state = st] /\ registering' = Idle
          /\ st = "done" =>
               /\ n.signals = class[c].declares.signals /\ n.properties = class[c].declares.properties
               /\ "bad" \notin {n.signals, n.properties} /\ ~n.twice
               /\ class[c].interfaces \cap supported \subseteq n.interfaces

(* What is known in the middle of a registration                           *)
LEMMA Middle ==
  ASSUME RegInv, registering.phase \in {"signals", "properties", "interfaces"},
         NEW c, c = registering.class, NEW t, t = class[c].gtype
  PROVE  /\ c \in Defined /\ c \in Classes \ {RootClass} /\ class[c].declares \in Declarations
         /\ class[c].state \in {"registering", "plain", "failed"}
         /\ t \in PyTypes /\ t \in Types \ {Root} /\ t # Null /\ Made(t) /\ type[t].class = c
         /\ Parent(t) \in Types /\ Parent(t) # t /\ ~type[t].twice
         /\ type[t].interfaces = type[Parent(t)].interfaces
         /\ \A d \in Classes \ {c} : class[d].gtype # t
<1>1. RegTyped /\ TypesOK /\ LinksOK /\ ProgressOK  BY DEF RegInv
<1>2. /\ c \in Defined /\ c \in Classes \ {RootClass} /\ class[c].declares \in Declarations
      /\ class[c].state \in {"registering", "plain", "failed"}
  BY Registering
<1>3. Halfway(registering, class, type)  BY <1>1 DEF ProgressOK
<1>4. /\ t \in PyTypes /\ ~type[t].twice /\ Parent(t) # t
      /\ type[t].interfaces = type[Parent(t)].interfaces
  BY <1>3 DEF Halfway, Parent
<1>5. t \in Types \ {Root} /\ t # Null /\ t \notin CTypes  BY <1>4, Names
<1>6. Made(t) /\ ~type[t].replaced /\ type[t].class = c  BY <1>1, <1>2, <1>5 DEF LinksOK
<1>7. Parent(t) \in Types  BY <1>1, <1>5, <1>6, Parents
<1>8. \A d \in Classes \ {c} : class[d].gtype # t  BY <1>1, <1>5, <1>6 DEF LinksOK
<1>9. QED  BY <1>2, <1>4, <1>5, <1>6, <1>7, <1>8

LEMMA AdvanceStep ==
  ASSUME RegInv, NEW c, NEW t, NEW n, Advances(c, t, n)
  PROVE  RegInv'
<1>1. RegTyped /\ ClassesOK /\ TypesOK /\ LinksOK /\ BelowOK /\ StatesOK /\ ProgressOK  BY DEF RegInv
<1>2. /\ c = registering.class /\ t = class[c].gtype
      /\ registering.phase \in {"signals", "properties", "interfaces"}
      /\ n \in TypeRecord /\ type' = [type EXCEPT ![t] = n] /\ supported' = supported
      /\ n.supers = type[t].supers /\ n.class = type[t].class /\ n.replaced = type[t].replaced
  BY DEF Advances
<1>3. /\ c \in Defined /\ c \in Classes \ {RootClass} /\ class[c].declares \in Declarations
      /\ class[c].state \in {"registering", "plain", "failed"}
      /\ t \in PyTypes /\ t \in Types \ {Root} /\ t # Null
      /\ \A d \in Classes \ {c} : class[d].gtype # t
  BY <1>2, Middle
<1>4. /\ type' \in [Types -> TypeRecord] /\ type'[t] = n
      /\ \A u \in Types \ {t} : type'[u] = type[u]
      /\ \A u \in Types : /\ type'[u].supers = type[u].supers /\ type'[u].class = type[u].class
                          /\ type'[u].replaced = type[u].replaced
  BY <1>1, <1>2, <1>3 DEF RegTyped
<1>5. /\ ClassesOK' /\ Defined' = Defined
      /\ \A d \in Classes : class'[d].gtype = class[d].gtype
      /\ \A d \in Classes \ {c} : class'[d] = class[d]
      /\ \A d \in Defined : /\ TypeOf(d)' = TypeOf(d)
                            /\ d # RootClass => Base(d)' = Base(d)
  <2>1. CASE class' = class
    <3>1. ClassesOK' /\ Defined' = Defined  BY <1>1, <2>1 DEF ClassesOK, Defined
    <3>2. QED  BY <2>1, <3>1, TypeOfIn DEF Base
  <2>2. CASE \E st \in {"failed", "done"} : class' = [class EXCEPT ![c].state = st]
    <3>1. PICK st \in {"failed", "done"} : class' = [class EXCEPT ![c].state = st]  BY <2>2
    <3>2. st \in States /\ st # "unused"  BY DEF States
    <3>3. QED  BY <1>3, <3>1, <3>2, StateKept
  <2>3. QED  BY <2>1, <2>2 DEF Advances
<1>6. registering' \in [class : Classes \cup {Null}, named : BOOLEAN,
                        phase : {"idle", "check", "signals", "properties", "interfaces"}]
  <2>1. Idle \in [class : Classes \cup {Null}, named : BOOLEAN,
                   phase : {"idle", "check", "signals", "properties", "interfaces"}]
    BY DEF Idle
  <2>2. \A phase \in {"properties", "interfaces"} :
          [registering EXCEPT !.phase = phase]
            \in [class : Classes \cup {Null}, named : BOOLEAN,
                phase : {"idle", "check", "signals", "properties", "interfaces"}]
    BY <1>1 DEF RegTyped
  <2>3. registering' = Idle \/ \E phase \in {"properties", "interfaces"} :
                                registering' = [registering EXCEPT !.phase = phase]
    BY DEF Advances
  <2>4. QED  BY <2>1, <2>2, <2>3
<1>7. RegTyped'  BY <1>1, <1>2, <1>4, <1>5, <1>6 DEF RegTyped, ClassesOK, ClassesIn
<1>8. TypesOK' /\ LinksOK' /\ BelowOK'  BY <1>4, <1>5, LinksKept
<1>9. StatesOK' /\ ProgressOK'
  <2>1. ASSUME NEW d \in Defined, d # c, class'[d].state = "done", class'[d].declares # Null
        PROVE  IF class'[d].gtype = Null THEN class'[d].first # Null ELSE Full(d)'
    <3>1. class'[d] = class[d] /\ d \in Classes \ {c}  BY <1>5, <2>1 DEF Defined
    <3>2. IF class[d].gtype = Null THEN class[d].first # Null ELSE Full(d)
      BY <1>1, <2>1, <3>1 DEF ProgressOK
    <3>3. class[d].gtype # Null => class[d].gtype \in Types \ {t}  BY <1>1, <1>3, <3>1, Fields
    <3>4. QED  BY <1>2, <1>4, <3>1, <3>2, <3>3 DEF Full
  <2>2. CASE /\ class' = class
             /\ \E phase \in {"properties", "interfaces"} : registering' = [registering EXCEPT !.phase = phase]
             /\ Halfway(registering', class', type')
    <3>1. PICK phase \in {"properties", "interfaces"} : registering' = [registering EXCEPT !.phase = phase]
      BY <2>2
    <3>2. registering'.class = registering.class /\ registering'.phase \notin {"idle", "check"}
      BY <1>1, <3>1 DEF RegTyped
    <3>3. StatesOK'  BY <1>1, <1>2, <1>3, <2>2, <3>2 DEF StatesOK
    <3>4. class'[c].state # "done"  BY <1>3, <2>2
    <3>5. QED  BY <1>5, <2>1, <2>2, <3>3, <3>4 DEF ProgressOK
  <2>3. ASSUME NEW st \in {"failed", "done"},
               class' = [class EXCEPT ![c].state = st] /\ registering' = Idle,
               st = "done" =>
                 /\ n.signals = class[c].declares.signals /\ n.properties = class[c].declares.properties
                 /\ "bad" \notin {n.signals, n.properties} /\ ~n.twice
                 /\ class[c].interfaces \cap supported \subseteq n.interfaces
        PROVE  StatesOK' /\ ProgressOK'
    <3>1. st \in States /\ st # "unused"  BY DEF States
    <3>2. /\ class'[c].state = st
          /\ \A d \in Classes : /\ class'[d].declares = class[d].declares /\ class'[d].name = class[d].name
                                /\ class'[d].interfaces = class[d].interfaces
      BY <1>3, <2>3, <3>1, StateKept
    <3>3. registering'.phase = "idle" /\ registering' = Idle  BY <2>3 DEF Idle
    <3>4. ASSUME NEW d \in Classes
          PROVE  /\ class'[d].state \in {"registering", "plain", "failed", "retried"} =>
                      class'[d].declares # Null /\ class'[d].name # Null
                 /\ class'[d].gtype \in CTypes => class'[d].state = "done" /\ class'[d].declares = Null
      <4>1. CASE d = c
        <5>1. class[c].declares # Null /\ class[c].name # Null  BY <1>1, <1>3 DEF StatesOK
        <5>2. class'[c].gtype \notin CTypes  BY <1>2, <1>3, <1>5, Names
        <5>3. QED  BY <1>3, <3>2, <4>1, <5>1, <5>2
      <4>2. CASE d # c  BY <1>1, <1>5, <4>2 DEF StatesOK
      <4>3. QED  BY <4>1, <4>2
    <3>5. StatesOK'  BY <3>3, <3>4 DEF StatesOK
    <3>6. ASSUME st = "done"  PROVE class'[c].gtype # Null /\ Full(c)'
      <4>1. class'[c].gtype = t  BY <1>2, <1>3, <1>5
      <4>2. QED  BY <1>2, <1>3, <1>4, <2>3, <3>2, <3>6, <4>1 DEF Full
    <3>7. QED  BY <1>5, <2>1, <3>2, <3>3, <3>5, <3>6 DEF ProgressOK
  <2>4. QED  BY <2>2, <2>3 DEF Advances
<1>10. QED  BY <1>5, <1>7, <1>8, <1>9 DEF RegInv

LEMMA SignalsStep ==
  ASSUME RegInv, AddSignals
  PROVE  RegInv'
<1>1. SUFFICES ASSUME NEW c, c = registering.class, NEW t, t = class[c].gtype,
                      NEW n, n = [type[t] EXCEPT !.signals = class[c].declares.signals]
               PROVE  RegInv'
  OBVIOUS
<1>2. RegTyped /\ ProgressOK /\ registering.phase = "signals"  BY DEF RegInv, AddSignals, At
<1>3. /\ c \in Defined /\ c \in Classes \ {RootClass} /\ class[c].declares \in Declarations
      /\ t \in PyTypes /\ t \in Types \ {Root} /\ t # Null /\ Made(t)
      /\ Parent(t) \in Types /\ Parent(t) # t /\ ~type[t].twice
      /\ type[t].interfaces = type[Parent(t)].interfaces
  BY <1>1, <1>2, Middle
<1>4. class[c].declares.signals \in Kinds  BY <1>3, RegistrationAssumption DEF Kinds
<1>5. type \in [Types -> TypeRecord] /\ type[t] \in TypeRecord  BY <1>2, <1>3 DEF RegTyped
<1>6. /\ n \in TypeRecord /\ n.supers = type[t].supers /\ n.class = type[t].class
      /\ n.replaced = type[t].replaced /\ n.twice = type[t].twice /\ n.interfaces = type[t].interfaces
      /\ n.signals = class[c].declares.signals
  BY <1>1, <1>4, <1>5 DEF TypeRecord
<1>7. /\ type' = [type EXCEPT ![t] = n] /\ supported' = supported
      /\ IF Fails(class[c].declares.signals) THEN Ends("failed") ELSE Goes("properties") /\ class' = class
  BY <1>1 DEF AddSignals
<1>8. CASE Fails(class[c].declares.signals)
  <2>1. class' = [class EXCEPT ![c].state = "failed"] /\ registering' = Idle  BY <1>1, <1>7, <1>8 DEF Ends
  <2>2. Advances(c, t, n)  BY <1>1, <1>2, <1>6, <1>7, <2>1 DEF Advances
  <2>3. QED  BY <2>2, AdvanceStep
<1>9. CASE ~Fails(class[c].declares.signals)
  <2>1. registering' = [registering EXCEPT !.phase = "properties"] /\ class' = class
    BY <1>7, <1>9 DEF Goes
  <2>2. registering'.phase = "properties" /\ registering'.class = c  BY <1>1, <1>2, <2>1 DEF RegTyped
  <2>3. type'[t] = n /\ type'[Parent(t)] = type[Parent(t)]  BY <1>3, <1>5, <1>7
  <2>4. class[c].declares.signals # "bad"  BY <1>9 DEF Fails
  <2>5. type'[t].supers[Len(type'[t].supers) - 1] = Parent(t)  BY <1>6, <2>3 DEF Parent
  <2>6. Halfway(registering', class', type')
    <3>1. class'[registering'.class].gtype = t /\ class'[registering'.class].declares = class[c].declares
      BY <1>1, <2>1, <2>2
    <3>2. QED  BY <1>3, <1>6, <2>2, <2>3, <2>4, <2>5, <3>1 DEF Halfway
  <2>7. Advances(c, t, n)  BY <1>1, <1>2, <1>6, <1>7, <2>1, <2>6 DEF Advances
  <2>8. QED  BY <2>7, AdvanceStep
<1>10. QED  BY <1>8, <1>9

LEMMA PropertiesStep ==
  ASSUME RegInv, AddProperties
  PROVE  RegInv'
<1>1. SUFFICES ASSUME NEW c, c = registering.class, NEW t, t = class[c].gtype,
                      NEW n, n = [type[t] EXCEPT !.properties = class[c].declares.properties]
               PROVE  RegInv'
  OBVIOUS
<1>2. RegTyped /\ ProgressOK /\ registering.phase = "properties"  BY DEF RegInv, AddProperties, At
<1>3. /\ c \in Defined /\ c \in Classes \ {RootClass} /\ class[c].declares \in Declarations
      /\ t \in PyTypes /\ t \in Types \ {Root} /\ t # Null /\ Made(t)
      /\ Parent(t) \in Types /\ Parent(t) # t /\ ~type[t].twice
      /\ type[t].interfaces = type[Parent(t)].interfaces
  BY <1>1, <1>2, Middle
<1>4. class[c].declares.properties \in Kinds  BY <1>3, RegistrationAssumption DEF Kinds
<1>5. type \in [Types -> TypeRecord] /\ type[t] \in TypeRecord  BY <1>2, <1>3 DEF RegTyped
<1>6. /\ n \in TypeRecord /\ n.supers = type[t].supers /\ n.class = type[t].class
      /\ n.replaced = type[t].replaced /\ n.twice = type[t].twice /\ n.interfaces = type[t].interfaces
      /\ n.properties = class[c].declares.properties /\ n.signals = type[t].signals
  BY <1>1, <1>4, <1>5 DEF TypeRecord
<1>7. /\ type' = [type EXCEPT ![t] = n] /\ supported' = supported
      /\ IF Fails(class[c].declares.properties) THEN Ends("failed") ELSE Goes("interfaces") /\ class' = class
  BY <1>1 DEF AddProperties
<1>8. CASE Fails(class[c].declares.properties)
  <2>1. class' = [class EXCEPT ![c].state = "failed"] /\ registering' = Idle  BY <1>1, <1>7, <1>8 DEF Ends
  <2>2. Advances(c, t, n)  BY <1>1, <1>2, <1>6, <1>7, <2>1 DEF Advances
  <2>3. QED  BY <2>2, AdvanceStep
<1>9. CASE ~Fails(class[c].declares.properties)
  <2>1. registering' = [registering EXCEPT !.phase = "interfaces"] /\ class' = class
    BY <1>7, <1>9 DEF Goes
  <2>2. registering'.phase = "interfaces" /\ registering'.class = c  BY <1>1, <1>2, <2>1 DEF RegTyped
  <2>3. type'[t] = n /\ type'[Parent(t)] = type[Parent(t)]  BY <1>3, <1>5, <1>7
  <2>4. class[c].declares.properties # "bad"  BY <1>9 DEF Fails
  <2>5. type'[t].supers[Len(type'[t].supers) - 1] = Parent(t)  BY <1>6, <2>3 DEF Parent
  <2>6. type[t].signals = class[c].declares.signals /\ type[t].signals # "bad"
    BY <1>1, <1>2 DEF ProgressOK, Halfway
  <2>7. Halfway(registering', class', type')
    <3>1. class'[registering'.class].gtype = t /\ class'[registering'.class].declares = class[c].declares
      BY <1>1, <2>1, <2>2
    <3>2. QED  BY <1>3, <1>6, <2>2, <2>3, <2>4, <2>5, <2>6, <3>1 DEF Halfway
  <2>8. Advances(c, t, n)  BY <1>1, <1>2, <1>6, <1>7, <2>1, <2>7 DEF Advances
  <2>9. QED  BY <2>8, AdvanceStep
<1>10. QED  BY <1>8, <1>9

LEMMA FinishStep ==
  ASSUME RegInv, Finish
  PROVE  RegInv'
<1>1. SUFFICES ASSUME NEW c, c = registering.class, NEW t, t = class[c].gtype,
                      NEW parents, parents = type[Parent(t)].interfaces,
                      NEW n, n = WithInterfaces(type[t], Added(c, parents, TRUE), parents)
               PROVE  RegInv'
  OBVIOUS
<1>2. RegTyped /\ ProgressOK /\ registering.phase = "interfaces"  BY DEF RegInv, Finish, At
<1>3. /\ c \in Defined /\ c \in Classes \ {RootClass} /\ class[c].declares \in Declarations
      /\ t \in PyTypes /\ t \in Types \ {Root} /\ ~type[t].twice /\ type[t].interfaces = parents
  BY <1>1, <1>2, Middle
<1>4. type \in [Types -> TypeRecord] /\ type[t] \in TypeRecord  BY <1>2, <1>3 DEF RegTyped
<1>5. Added(c, parents, TRUE) \subseteq Interfaces  BY <1>2, <1>3 DEF Added, RegTyped
<1>6. \A i \in class[c].interfaces : i \in supported => i \in parents \/ i \in Added(c, parents, TRUE)
  BY DEF Added
<1>7. Added(c, parents, TRUE) \cap (type[t].interfaces \ parents) = {}  BY <1>3
<1> DEFINE set == Added(c, parents, TRUE)
<1> HIDE DEF set
<1>8. /\ n \in TypeRecord /\ n.supers = type[t].supers /\ n.class = type[t].class
      /\ n.replaced = type[t].replaced /\ n.interfaces = type[t].interfaces \cup set
      /\ n.signals = type[t].signals /\ n.properties = type[t].properties /\ ~n.twice
  <2>1. n = [type[t] EXCEPT !.interfaces = @ \cup set,
                            !.twice = @ \/ (set \cap (type[t].interfaces \ parents)) # {}]
    BY <1>1 DEF WithInterfaces, set
  <2>2. set \subseteq Interfaces /\ set \cap (type[t].interfaces \ parents) = {}  BY <1>5, <1>7 DEF set
  <2>3. n = [type[t] EXCEPT !.interfaces = type[t].interfaces \cup set, !.twice = FALSE]
    BY <1>3, <1>4, <2>1, <2>2 DEF TypeRecord
  <2>4. QED  BY <1>4, <2>2, <2>3 DEF TypeRecord
<1>9. type' = [type EXCEPT ![t] = n] /\ supported' = supported
  BY <1>1, <1>3, <1>4 DEF Finish
<1>10. \E st \in {"failed", "done"} : class' = [class EXCEPT ![c].state = st] /\ registering' = Idle
  <2> DEFINE st == IF \E s \in Elements(type[t].supers) : type[s].inits = "fail" THEN "failed" ELSE "done"
  <2>1. Ends(st)  BY <1>1 DEF Finish
  <2>2. st \in {"failed", "done"}  OBVIOUS
  <2> HIDE DEF st
  <2>3. QED  BY <1>1, <2>1, <2>2 DEF Ends
<1>11. /\ type[t].signals = class[c].declares.signals /\ type[t].signals # "bad"
       /\ type[t].properties = class[c].declares.properties /\ type[t].properties # "bad"
  BY <1>1, <1>2 DEF ProgressOK, Halfway
<1>12. class[c].interfaces \cap supported \subseteq n.interfaces  BY <1>3, <1>6, <1>8 DEF set
<1>13. Advances(c, t, n)  BY <1>1, <1>2, <1>8, <1>9, <1>10, <1>11, <1>12 DEF Advances
<1>14. QED  BY <1>13, AdvanceStep

LEMMA NameFound ==
  ASSUME NEW c, class[c].name \in Bases
  PROVE  TypeName(c) \in PyTypes
<1> DEFINE free == {i \in 1..Tries : ~Made(<<class[c].name, i>>)}
<1>1. Tries \in Nat \ {0}  BY Names
<1>2. free \cup {Tries} \in SUBSET Nat /\ free \cup {Tries} # {} /\ free \cup {Tries} \subseteq 1..Tries
  BY <1>1
<1>3. TypeName(c) = <<class[c].name, IF registering.named THEN 1 ELSE Min(free \cup {Tries})>>
  BY DEF TypeName
<1> HIDE DEF free
<1>4. Min(free \cup {Tries}) \in 1..Tries  BY <1>2, Smallest
<1>5. 1 \in 1..Tries  BY <1>1
<1>6. QED  BY <1>3, <1>4, <1>5 DEF PyTypes

(* A class that registers has no GType, and hides none.                    *)
LEMMA NoneYet ==
  ASSUME RegInv, registering.phase = "check", NEW c, c = registering.class,
         Registers(c), TypeOf(c) \in Types
  PROVE  ~Has(class, c)
<1>1. SUFFICES ASSUME Has(class, c)  PROVE FALSE  OBVIOUS
<1>2. RegTyped /\ LinksOK /\ ClassesIn(class) /\ Defined = InUse(class) /\ StatesOK
  BY DEF RegInv, ClassesOK, Defined, InUse
<1>3. /\ c \in Defined /\ c \in Classes \ {RootClass} /\ class[c].gtype \notin CTypes
  BY Registering
<1>4. TypeOf(c) = Own(class, c)  BY <1>1, <1>2, <1>3, FindsOwn, TypeOfIn
<1>5. class[c].gtype \in Types \cup {Null} /\ class[c].first \in Interfaces \cup {Null}
  BY <1>2, <1>3, Fields
<1>6. TypeOf(c) = class[c].gtype  BY <1>1, <1>4, <1>5, Names DEF Own, Has
<1>7. Base(c) \in Defined /\ class[c].mro[2] = Base(c)  BY <1>3, BaseDefined
<1>8. TypeOf(Base(c)) = class[c].gtype  BY <1>6 DEF Registers
<1>9. PICK i \in 1..Len(class[Base(c)].mro) :
        /\ class[Base(c)].mro[i] \in Defined
        /\ type[class[c].gtype].replaced \/ type[class[c].gtype].class = class[Base(c)].mro[i]
  BY <1>6, <1>7, <1>8, Found
<1>10. class[Base(c)].mro[i] # c
  <2>1. c \in InUse(class) \ {RootClass}  BY <1>2, <1>3
  <2>2. \A j \in 1..Len(class[class[c].mro[2]].mro) : class[class[c].mro[2]].mro[j] # c
    BY <1>2, <2>1, BaseOK
  <2>3. QED  BY <1>7, <1>9, <2>2
<1>11. class[c].gtype \in Types /\ class[c].gtype # Null  BY <1>6, Names
<1>12. type[class[c].gtype].replaced \/ type[class[c].gtype].class = c  BY <1>2, <1>3, <1>11 DEF LinksOK
<1>13. type[class[c].gtype].replaced  BY <1>9, <1>10, <1>12
<1>14. QED  BY <1>2, <1>3, <1>11, <1>13 DEF LinksOK

LEMMA StaticStep ==
  ASSUME RegInv, RegisterStatic
  PROVE  RegInv'
<1>1. SUFFICES ASSUME NEW c, c = registering.class, NEW p, p = TypeOf(c), NEW t, t = TypeName(c)
               PROVE  RegInv'
  OBVIOUS
<1>2. /\ RegTyped /\ ClassesOK /\ TypesOK /\ LinksOK /\ BelowOK /\ StatesOK /\ ProgressOK
      /\ registering.phase = "check" /\ Registers(c) /\ supported' = supported
      /\ ClassesIn(class) /\ Defined = InUse(class)
  BY <1>1 DEF RegInv, RegisterStatic, At, ClassesOK, Defined, InUse
<1>3. /\ c \in Defined /\ c \in Classes \ {RootClass} /\ class[c].gtype \notin CTypes
      /\ class[c].state \in {"registering", "plain", "failed"} /\ class[c].name \in Bases
  BY <1>1, <1>2, Registering
<1>4. CASE ~(p \in Types /\ ~Made(t))
  <2>1. Ends("plain") /\ type' = type  BY <1>1, <1>4 DEF RegisterStatic
  <2>2. QED  BY <1>2, <2>1, EndsStep
<1>5. CASE p \in Types /\ ~Made(t)
  <2> DEFINE added == Added(c, type[p].interfaces, FALSE)
             new == [NoType EXCEPT !.supers = Append(type[p].supers, t), !.class = c,
                       !.flag = type[p].flag, !.interfaces = type[p].interfaces]
             n == WithInterfaces(new, added, type[p].interfaces)
  <2>1. /\ type' = [type EXCEPT ![t] = n] /\ class' = [class EXCEPT ![c].gtype = t]
        /\ registering' = [registering EXCEPT !.phase = "signals"]
    BY <1>1, <1>5 DEF RegisterStatic, Goes
  <2>2. t \in PyTypes /\ t \in Types \ {Root} /\ t \notin CTypes /\ t # Null
    BY <1>1, <1>3, NameFound, Names
  <2>3. Made(p) /\ p # t  BY <1>1, <1>3, <1>5, Found
  <2>4. ~Has(class, c)  BY <1>1, <1>2, <1>5, NoneYet
  <2>5. class[c].gtype = Null  BY <2>4 DEF Has
  <2>6. GetsType(class, c, t, class')  BY <1>2, <1>3, <2>1, <2>2, <2>4 DEF GetsType
  <2>7. /\ ClassesIn(class') /\ InUse(class') = InUse(class) /\ TypeIn(class', c) = t
        /\ \A d \in InUse(class) :
             \/ TypeIn(class', d) = TypeIn(class, d)
             \/ TypeIn(class', d) = t /\ TypeIn(class, d) = TypeIn(class, c)
        /\ \A d \in InUse(class) :
             (\A i \in 1..Len(class[d].mro) : class[d].mro[i] # c) => TypeIn(class', d) = TypeIn(class, d)
    BY <1>2, <2>6, NewType
  <2>8. ClassesOK' /\ Defined' = Defined  BY <1>2, <2>7 DEF ClassesOK, Defined, InUse
  <2>9. /\ class'[c].gtype = t /\ class'[c].state = class[c].state
        /\ \A d \in Classes \ {c} : class'[d] = class[d]
        /\ \A d \in Classes : /\ class'[d].mro = class[d].mro /\ class'[d].declares = class[d].declares
                              /\ class'[d].name = class[d].name
    BY <1>2, <1>3, <2>1 DEF RegTyped, ClassRecord
  <2>10. /\ type[p].supers \in Seq(Types) /\ Len(type[p].supers) \in Nat
         /\ Len(type[p].supers) >= 1 /\ type[p].supers[Len(type[p].supers)] = p
         /\ type[p].interfaces \in SUBSET Interfaces /\ type[p].flag \in BOOLEAN
    <3>1. type[p].supers \in Seq(Types) /\ type[p].interfaces \in SUBSET Interfaces /\ type[p].flag \in BOOLEAN
      BY <1>2, <1>5 DEF RegTyped, TypeRecord
    <3>2. type[p].supers # <<>> /\ type[p].supers[Len(type[p].supers)] = p
      BY <1>2, <1>5, <2>3 DEF TypesOK, Made
    <3> DEFINE q == type[p].supers
    <3> HIDE DEF q
    <3>3. Len(q) \in Nat /\ Len(q) >= 1  BY <3>1, <3>2, EmptySeq DEF q
    <3>4. QED  BY <3>1, <3>2, <3>3 DEF q
  <2>11. /\ Append(type[p].supers, t) \in Seq(Types)
         /\ Len(Append(type[p].supers, t)) = Len(type[p].supers) + 1
         /\ Append(type[p].supers, t)[Len(type[p].supers) + 1] = t
         /\ \A i \in 1..Len(type[p].supers) : Append(type[p].supers, t)[i] = type[p].supers[i]
    BY <2>2, <2>10, AppendProperties
  <2> DEFINE q == Append(type[p].supers, t)
  <2>12. added \subseteq type[p].interfaces  BY DEF Added
  <2>13. /\ n \in TypeRecord /\ n.supers = q /\ n.class = c /\ ~n.replaced
         /\ n.interfaces = type[p].interfaces /\ ~n.twice
    <3> HIDE DEF q, added
    <3>1. new = [NoType EXCEPT !.supers = q, !.class = c, !.flag = type[p].flag,
                               !.interfaces = type[p].interfaces]
      BY DEF q
    <3>2. /\ new \in TypeRecord /\ new.supers = q /\ new.class = c /\ ~new.replaced
          /\ new.interfaces = type[p].interfaces /\ new.twice = FALSE
      BY <1>3, <2>10, <2>11, <3>1 DEF NoType, TypeRecord, Kinds, q
    <3>3. n = [new EXCEPT !.interfaces = @ \cup added,
                          !.twice = @ \/ (added \cap (new.interfaces \ type[p].interfaces)) # {}]
      BY DEF WithInterfaces
    <3> HIDE DEF new, n
    <3>4. new.interfaces \cup added = type[p].interfaces
          /\ added \cap (new.interfaces \ type[p].interfaces) = {}
      BY <2>12, <3>2
    <3>5. n = [new EXCEPT !.interfaces = type[p].interfaces, !.twice = FALSE]  BY <3>2, <3>3, <3>4 DEF TypeRecord
    <3>6. QED  BY <2>10, <3>2, <3>5 DEF TypeRecord
  <2> HIDE DEF n, q
  <2>14. /\ type' \in [Types -> TypeRecord] /\ type'[t] = n
         /\ \A u \in Types \ {t} : type'[u] = type[u]
    BY <1>2, <2>1, <2>2, <2>13 DEF RegTyped
  <2>15. RegTyped'
    <3>1. registering' \in [class : Classes \cup {Null}, named : BOOLEAN,
                            phase : {"idle", "check", "signals", "properties", "interfaces"}]
      BY <1>2, <2>1 DEF RegTyped
    <3>2. QED  BY <1>2, <2>7, <2>14, <3>1 DEF RegTyped, ClassesIn
  <2>16. /\ Len(q) = Len(type[p].supers) + 1 /\ q[Len(q)] = t /\ q[Len(q) - 1] = p
         /\ Len(q) >= 2 /\ q # <<>>
    <3>1. Len(q) = Len(type[p].supers) + 1 /\ q[Len(type[p].supers) + 1] = t /\ q \in Seq(Types)
      BY <2>11 DEF q
    <3>2. \A i \in 1..Len(type[p].supers) : q[i] = type[p].supers[i]  BY <2>11 DEF q
    <3>3. Len(type[p].supers) \in 1..Len(type[p].supers) /\ Len(q) - 1 = Len(type[p].supers)
      BY <2>10, <3>1
    <3>4. Len(q) >= 2 /\ q # <<>>  BY <2>10, <3>1, EmptySeq
    <3>5. QED  BY <2>10, <3>1, <3>2, <3>3, <3>4
  <2>17. /\ \A u \in Types \ {t} : (Made(u)' <=> Made(u)) /\ Parent(u)' = Parent(u)
         /\ Made(t)' /\ Parent(t)' = p
    BY <2>13, <2>14, <2>16 DEF Made, Parent
  <2>18. TypesOK'
    <3>1. \A u \in CTypes : u \in Types \ {t}  BY <2>2 DEF Types
    <3>2. type'[Root].supers = <<Root>> /\ type'[Root].class = RootClass /\ ~type'[Root].replaced
      BY <1>2, <2>14, <3>1, Names DEF TypesOK
    <3>3. \A u \in CTypes \ {Root} : type'[u].supers = <<Root, u>>  BY <1>2, <2>14, <3>1 DEF TypesOK
    <3>4. ASSUME NEW u \in Types, Made(u)'
          PROVE  /\ type'[u].supers[Len(type'[u].supers)] = u
                 /\ u # Root => Len(type'[u].supers) >= 2 /\ Made(Parent(u))'
      <4>1. CASE u = t
        <5>1. type'[p] = type[p]  BY <1>5, <2>3, <2>14
        <5>2. Made(Parent(u))'  BY <2>3, <2>17, <4>1, <5>1 DEF Made
        <5>3. QED  BY <2>13, <2>14, <2>16, <4>1, <5>2
      <4>2. CASE u # t
        <5>1. Made(u) /\ type'[u] = type[u] /\ Parent(u)' = Parent(u)  BY <2>14, <2>17, <3>4, <4>2
        <5>2. type[u].supers[Len(type[u].supers)] = u  BY <1>2, <5>1 DEF TypesOK
        <5>3. ASSUME u # Root  PROVE Len(type[u].supers) >= 2 /\ Made(Parent(u))'
          <6>1. Len(type[u].supers) >= 2 /\ Made(Parent(u)) /\ Parent(u) \in Types
            BY <1>2, <5>1, <5>3, Parents
          <6>2. Parent(u) # t  BY <1>5, <6>1
          <6>3. type'[Parent(u)] = type[Parent(u)]  BY <2>14, <6>1, <6>2
          <6>4. QED  BY <5>1, <6>1, <6>3 DEF Made
        <5>4. QED  BY <5>1, <5>2, <5>3
      <4>3. QED  BY <4>1, <4>2
    <3>5. QED  BY <3>2, <3>3, <3>4 DEF TypesOK
  <2>19. LinksOK'
    <3>1. ASSUME NEW u \in Types
          PROVE  /\ type'[u].class # Null => class'[type'[u].class].gtype = u
                 /\ type'[u].replaced => type'[u].class # Null /\ u \in CTypes
      <4>1. CASE u = t  BY <2>9, <2>13, <2>14, <4>1
      <4>2. CASE u # t
        <5>1. type'[u] = type[u] /\ type[u].class \in Classes \cup {Null}  BY <1>2, <2>14, <4>2, Fields
        <5>2. type[u].class # Null => class[type[u].class].gtype = u  BY <1>2 DEF LinksOK
        <5>3. type[u].class # Null => type[u].class \in Classes \ {c}  BY <2>5, <5>1, <5>2, Names
        <5>4. QED  BY <1>2, <2>9, <5>1, <5>2, <5>3 DEF LinksOK
      <4>3. QED  BY <4>1, <4>2
    <3>2. ASSUME NEW d \in Classes, class'[d].gtype # Null
          PROVE  /\ type'[class'[d].gtype].supers # <<>>
                 /\ type'[class'[d].gtype].replaced \/ type'[class'[d].gtype].class = d
      <4>1. CASE d = c  BY <2>9, <2>13, <2>14, <2>16, <4>1
      <4>2. CASE d # c
        <5>1. class'[d] = class[d] /\ class[d].gtype \in Types  BY <1>2, <2>9, <3>2, <4>2, Fields
        <5>2. /\ Made(class[d].gtype)
              /\ type[class[d].gtype].replaced \/ type[class[d].gtype].class = d
          BY <1>2, <3>2, <5>1 DEF LinksOK
        <5>3. type'[class[d].gtype] = type[class[d].gtype]  BY <1>5, <2>14, <5>1, <5>2
        <5>4. QED  BY <5>1, <5>2, <5>3 DEF Made
      <4>3. QED  BY <4>1, <4>2
    <3>3. QED  BY <3>1, <3>2 DEF LinksOK, Made
  <2>20. BelowOK'
    <3>1. ASSUME NEW d \in Classes, d \in Defined', d # RootClass, class'[d].gtype # Null
          PROVE  /\ TypeOf(Base(d))' \in Types
                 /\ Parent(class[d].gtype)' \in Elements(type[TypeOf(Base(d))].supers)'
      <4>1. d \in Defined /\ Base(d) \in InUse(class) /\ Base(d)' = Base(d)
        BY <1>2, <2>8, <2>9, <3>1, BaseDefined DEF Base
      <4>2. CASE d = c
        <5>1. class[c].mro[2] = Base(c) /\ c \in InUse(class) \ {RootClass}  BY <1>2, <1>3, BaseDefined
        <5>2. \A i \in 1..Len(class[Base(c)].mro) : class[Base(c)].mro[i] # c  BY <1>2, <5>1, BaseOK
        <5>3. TypeIn(class', Base(c)) = TypeIn(class, Base(c))  BY <2>7, <4>1, <4>2, <5>2
        <5>4. TypeOf(Base(d))' = p
          <6>1. TypeIn(class, Base(c)) = p  BY <1>1, <1>2, TypeOfIn DEF Registers
          <6>2. QED  BY <4>1, <4>2, <5>3, <6>1, TypeOfIn
        <5>5. Parent(class[d].gtype)' = p  BY <2>9, <2>17, <4>2 DEF Parent
        <5>6. type'[p].supers = type[p].supers /\ p \in Elements(type[p].supers)
          <6>1. Len(type[p].supers) \in DOMAIN type[p].supers  BY <2>10
          <6>2. QED  BY <1>5, <2>3, <2>10, <2>14, <6>1 DEF Elements
        <5>7. QED  BY <1>5, <5>4, <5>5, <5>6 DEF Elements
      <4>3. CASE d # c
        <5>1. class'[d] = class[d] /\ class[d].gtype \in Types  BY <1>2, <2>9, <3>1, <4>3, Fields
        <5>2. /\ TypeOf(Base(d)) \in Types
              /\ Parent(class[d].gtype) \in Elements(type[TypeOf(Base(d))].supers)
          BY <1>2, <3>1, <4>1, <5>1 DEF BelowOK
        <5>3. Made(class[d].gtype) /\ class[d].gtype # t  BY <1>2, <1>5, <3>1, <5>1 DEF LinksOK
        <5>4. Parent(class[d].gtype)' = Parent(class[d].gtype)
          BY <2>14, <5>1, <5>3 DEF Parent
        <5>5. Base(d) \in Defined /\ Made(TypeOf(Base(d)))  BY <1>2, <4>1, <5>2, Found
        <5>6. TypeOf(Base(d)) # t /\ type'[TypeOf(Base(d))] = type[TypeOf(Base(d))]
          BY <1>5, <2>14, <5>2, <5>5
        <5>7. \/ TypeIn(class', Base(d)) = TypeIn(class, Base(d))
              \/ TypeIn(class', Base(d)) = t /\ TypeIn(class, Base(d)) = TypeIn(class, c)
          BY <2>7, <4>1
        <5>8. \/ TypeOf(Base(d))' = TypeOf(Base(d))
              \/ TypeOf(Base(d))' = t /\ TypeOf(Base(d)) = p
          BY <1>1, <4>1, <5>7, TypeOfIn
        <5>9. CASE TypeOf(Base(d))' = TypeOf(Base(d))  BY <5>2, <5>4, <5>6, <5>9 DEF Elements
        <5>10. CASE TypeOf(Base(d))' = t /\ TypeOf(Base(d)) = p
          <6>1. Elements(type[p].supers) \subseteq Elements(q)
            <7>1. DOMAIN type[p].supers = 1..Len(type[p].supers) /\ DOMAIN q = 1..(Len(type[p].supers) + 1)
              BY <2>10, <2>11 DEF q
            <7>2. \A i \in 1..Len(type[p].supers) : q[i] = type[p].supers[i] /\ i \in 1..(Len(type[p].supers) + 1)
              BY <2>10, <2>11 DEF q
            <7>3. QED  BY <7>1, <7>2 DEF Elements
          <6>2. type'[TypeOf(Base(d))'].supers = q  BY <2>13, <2>14, <5>10
          <6>3. QED  BY <2>2, <5>2, <5>4, <5>10, <6>1, <6>2 DEF Elements
        <5>11. QED  BY <5>8, <5>9, <5>10
      <4>4. QED  BY <4>2, <4>3
    <3>2. \A d \in Defined' : d \in Classes  BY DEF Defined
    <3>3. QED  BY <3>1, <3>2 DEF BelowOK
  <2>21. registering'.phase = "signals" /\ registering'.class = c  BY <1>1, <1>2, <2>1 DEF RegTyped
  <2>22. StatesOK'
    <3>1. ASSUME NEW d \in Classes
          PROVE  /\ class'[d].state \in {"registering", "plain", "failed", "retried"} =>
                      class'[d].declares # Null /\ class'[d].name # Null
                 /\ class'[d].gtype \in CTypes => class'[d].state = "done" /\ class'[d].declares = Null
      <4>1. CASE d = c  BY <1>2, <2>2, <2>9, <4>1 DEF StatesOK
      <4>2. CASE d # c  BY <1>2, <2>9, <4>2 DEF StatesOK
      <4>3. QED  BY <4>1, <4>2
    <3>2. QED  BY <1>3, <2>9, <2>21, <3>1, Names DEF StatesOK
  <2>23. ProgressOK'
    <3>1. ASSUME NEW d \in Defined, class'[d].state = "done", class'[d].declares # Null
          PROVE  IF class'[d].gtype = Null THEN class'[d].first # Null ELSE Full(d)'
      <4>1. d \in Classes \ {c} /\ class'[d] = class[d]  BY <1>3, <2>9, <3>1 DEF Defined
      <4>2. IF class[d].gtype = Null THEN class[d].first # Null ELSE Full(d)
        BY <1>2, <3>1, <4>1 DEF ProgressOK
      <4>3. class[d].gtype # Null => class[d].gtype \in Types /\ Made(class[d].gtype)
        BY <1>2, <4>1, Fields DEF LinksOK
      <4>4. class[d].gtype # Null => type'[class[d].gtype] = type[class[d].gtype]  BY <1>5, <2>14, <4>3
      <4>5. QED  BY <1>2, <4>1, <4>2, <4>4 DEF Full
    <3>2. Halfway(registering', class', type')
      <4>1. class'[registering'.class].gtype = t /\ type'[t] = n /\ type'[p] = type[p]
        BY <1>5, <2>3, <2>9, <2>14, <2>21
      <4>2. n.supers[Len(n.supers) - 1] = p  BY <2>13, <2>16
      <4>3. QED  BY <2>2, <2>3, <2>13, <2>21, <4>1, <4>2 DEF Halfway
    <3>3. QED  BY <2>8, <2>21, <3>1, <3>2 DEF ProgressOK
  <2>24. QED  BY <2>8, <2>15, <2>18, <2>19, <2>20, <2>22, <2>23 DEF RegInv
<1>6. QED  BY <1>4, <1>5

LEMMA RegStarts ==
  ASSUME RegInit
  PROVE  RegInv
<1>1. PICK conforms \in SUBSET Interfaces :
        type = [t \in Types |->
          CASE t = Root -> [NoType EXCEPT !.supers = <<Root>>, !.class = RootClass, !.flag = TRUE]
            [] t \in CTypes \ {Root} -> [NoType EXCEPT !.supers = <<Root, t>>, !.interfaces = conforms]
            [] OTHER -> NoType]
  BY DEF RegInit
<1> DEFINE root == [NoType EXCEPT !.supers = <<Root>>, !.class = RootClass, !.flag = TRUE]
           other(t) == [NoType EXCEPT !.supers = <<Root, t>>, !.interfaces = conforms]
           gobject == [NoClass EXCEPT !.state = "done", !.mro = <<RootClass>>, !.gtype = Root]
<1>2. Root \in Types /\ RootClass \in Classes /\ \A t \in CTypes : t \in Types  BY Names
<1>3. /\ root \in TypeRecord /\ root.supers = <<Root>> /\ root.class = RootClass /\ ~root.replaced
  <2> DEFINE q == <<Root>>
  <2>1. q \in Seq(Types)  BY <1>2
  <2>2. root = [NoType EXCEPT !.supers = q, !.class = RootClass, !.flag = TRUE]  OBVIOUS
  <2> HIDE DEF q, root
  <2>3. root \in TypeRecord /\ root.supers = q /\ root.class = RootClass /\ ~root.replaced
    BY <1>2, <2>1, <2>2 DEF NoType, TypeRecord, Kinds
  <2>4. QED  BY <2>3 DEF q
<1>4. \A t \in CTypes : /\ other(t) \in TypeRecord /\ other(t).supers = <<Root, t>>
                        /\ other(t).class = Null /\ ~other(t).replaced
  <2>1. SUFFICES ASSUME NEW t \in CTypes
                 PROVE  /\ other(t) \in TypeRecord /\ other(t).supers = <<Root, t>>
                        /\ other(t).class = Null /\ ~other(t).replaced
    BY Zenon
  <2> DEFINE q == <<Root, t>>
             r == other(t)
  <2>2. q \in Seq(Types)  BY <1>2
  <2>3. r = [NoType EXCEPT !.supers = q, !.interfaces = conforms]  OBVIOUS
  <2> HIDE DEF q, r
  <2>4. r \in TypeRecord /\ r.supers = q /\ r.class = Null /\ ~r.replaced
    BY <2>2, <2>3 DEF NoType, TypeRecord, Kinds
  <2>5. QED  BY <2>4 DEF q, r
<1>5. NoType \in TypeRecord /\ NoType.supers = <<>> /\ NoType.class = Null /\ ~NoType.replaced
  BY DEF NoType, TypeRecord, Kinds
<1> HIDE DEF root, other
<1>6. /\ type[Root] = root /\ \A t \in CTypes \ {Root} : type[t] = other(t)
      /\ \A t \in Types \ CTypes : type[t] = NoType
  BY <1>1, <1>2, Names DEF root, other
<1>7. /\ type[Root].supers = <<Root>> /\ type[Root].class = RootClass /\ ~type[Root].replaced
      /\ \A t \in CTypes \ {Root} : /\ type[t].supers = <<Root, t>> /\ type[t].class = Null
                                     /\ ~type[t].replaced
      /\ \A t \in Types \ CTypes : type[t].supers = <<>> /\ type[t].class = Null /\ ~type[t].replaced
  BY <1>3, <1>4, <1>5, <1>6
<1>8. type \in [Types -> TypeRecord]
  <2>1. \A t \in Types : type[t] \in TypeRecord  BY <1>3, <1>4, <1>5, <1>6
  <2>2. DOMAIN type = Types /\ type = [t \in Types |-> type[t]]  BY <1>1
  <2>3. QED  BY <2>1, <2>2
<1>9. class = [c \in Classes |-> IF c = RootClass THEN gobject ELSE NoClass]  BY DEF RegInit
<1>10. /\ gobject \in ClassRecord /\ gobject.state = "done" /\ gobject.mro = <<RootClass>>
       /\ gobject.gtype = Root /\ gobject.declares = Null
  <2> DEFINE q == <<RootClass>>
  <2>1. q \in Seq(Classes)  BY <1>2
  <2>2. gobject = [NoClass EXCEPT !.state = "done", !.mro = q, !.gtype = Root]  OBVIOUS
  <2> HIDE DEF q, gobject
  <2>3. /\ gobject \in ClassRecord /\ gobject.state = "done" /\ gobject.mro = q
        /\ gobject.gtype = Root /\ gobject.declares = Null
    BY <1>2, <2>1, <2>2 DEF NoClass, ClassRecord, States
  <2>4. QED  BY <2>3 DEF q
<1>11. /\ NoClass \in ClassRecord /\ NoClass.state = "unused" /\ NoClass.gtype = Null
  BY DEF NoClass, ClassRecord, States
<1> HIDE DEF gobject
<1>12. /\ class \in [Classes -> ClassRecord] /\ class[RootClass] = gobject
       /\ \A c \in Classes \ {RootClass} : class[c] = NoClass
  BY <1>2, <1>9, <1>10, <1>11
<1>13. InUse(class) = {RootClass} /\ Defined = {RootClass}
  BY <1>2, <1>10, <1>11, <1>12 DEF InUse, Defined
<1>14. registering = Idle /\ registering.phase = "idle" /\ supported \in SUBSET Interfaces
  BY DEF RegInit, Idle
<1>15. RegTyped
  <2>1. Idle \in [class : Classes \cup {Null}, named : BOOLEAN,
                  phase : {"idle", "check", "signals", "properties", "interfaces"}]
    BY DEF Idle
  <2>2. QED  BY <1>8, <1>12, <1>14, <2>1 DEF RegTyped
<1>16. ClassesOK
  <2>1. Len(<<RootClass>>) = 1 /\ <<RootClass>>[1] = RootClass  OBVIOUS
  <2>2. MroOK(class, RootClass)
    <3> DEFINE m == <<RootClass>>
    <3>1. class[RootClass].mro = m  BY <1>10, <1>12
    <3> HIDE DEF m
    <3>2. Len(m) = 1 /\ m[1] = RootClass /\ \A i \in 1..1 : i = 1 /\ 1 - i + 1 = 1 /\ i + i - 1 = 1
      BY <2>1 DEF m
    <3>3. \A i \in 1..Len(m) : /\ m[i] \in InUse(class) /\ Len(class[m[i]].mro) = Len(m) - i + 1
                               /\ \A j \in 1..(Len(m) - i + 1) : class[m[i]].mro[j] = m[i + j - 1]
      BY <1>13, <3>1, <3>2
    <3>4. QED  BY <3>1, <3>2, <3>3 DEF MroOK
  <2>3. \A c \in Classes \ InUse(class) : class[c].gtype = Null  BY <1>11, <1>12, <1>13
  <2>4. QED  BY <1>10, <1>12, <1>13, <2>2, <2>3 DEF ClassesOK, ClassesIn
<1>17. TypesOK
  <2>2. ASSUME NEW t \in Types, Made(t)
        PROVE  /\ type[t].supers[Len(type[t].supers)] = t
               /\ t # Root => Len(type[t].supers) >= 2 /\ Made(Parent(t))
    <3>1. t \in CTypes  BY <1>7, <2>2 DEF Made
    <3>2. CASE t = Root
      <4>1. type[t].supers = <<t>>  BY <1>7, <3>2
      <4>2. QED  BY <3>2, <4>1
    <3>3. CASE t # Root
      <4>1. type[t].supers = <<Root, t>>  BY <1>7, <3>1, <3>3
      <4>2. Parent(t) = Root  BY <4>1 DEF Parent
      <4>3. Made(Root)  BY <1>7 DEF Made
      <4>4. QED  BY <4>1, <4>2, <4>3
    <3>4. QED  BY <3>2, <3>3
  <2>3. QED  BY <1>7, <2>2 DEF TypesOK
<1>18. LinksOK
  <2>1. \A t \in Types : type[t].class # Null => t = Root  BY <1>7
  <2>2. \A t \in Types : ~type[t].replaced  BY <1>7
  <2>3. \A c \in Classes : class[c].gtype # Null => c = RootClass  BY <1>11, <1>12
  <2>4. class[RootClass].gtype = Root /\ Made(Root)  BY <1>7, <1>10, <1>12 DEF Made
  <2>5. QED  BY <1>7, <2>1, <2>2, <2>3, <2>4 DEF LinksOK
<1>19. BelowOK  BY <1>13 DEF BelowOK
<1>20. StatesOK
  <2>1. class[RootClass].state = "done" /\ class[RootClass].declares = Null  BY <1>10, <1>12
  <2>2. \A c \in Classes \ {RootClass} : class[c].state = "unused" /\ class[c].gtype = Null
    BY <1>11, <1>12
  <2>3. Null \notin CTypes  BY Names
  <2>4. QED  BY <1>14, <2>1, <2>2, <2>3 DEF StatesOK
<1>21. ProgressOK  BY <1>10, <1>12, <1>13, <1>14 DEF ProgressOK
<1>22. QED  BY <1>15, <1>16, <1>17, <1>18, <1>19, <1>20, <1>21 DEF RegInv

LEMMA RegSteps ==
  ASSUME RegInv, RegNext
  PROVE  RegInv'
<1>1. ASSUME NEW c \in Classes, NEW t \in CTypes, LookupClass(c, t)  PROVE RegInv'
  <2>1. type[t] \in TypeRecord  BY Names DEF RegInv, RegTyped
  <2>2. Unbound(c, t) /\ Stands(c, t, type[t])  BY <1>1 DEF LookupClass
  <2>3. type[t].flag \in BOOLEAN /\ type[t].inits \in {"fine", "fail"}  BY <2>1 DEF TypeRecord
  <2>4. type[t] = [type[t] EXCEPT !.flag = type[t].flag, !.inits = type[t].inits]  BY <2>1 DEF TypeRecord
  <2>5. Stands(c, t, [type[t] EXCEPT !.flag = type[t].flag, !.inits = type[t].inits])
    BY <2>2, <2>4, Zenon
  <2>6. QED  BY <2>2, <2>3, <2>5, StandsStep
<1>2. ASSUME NEW c \in Classes, NEW t \in CTypes, NEW new_constructor \in BOOLEAN,
             NEW inits \in {"fine", "fail"}, RegisterClass(c, t, new_constructor, inits)
      PROVE  RegInv'
  BY <1>2, StandsStep, Zenon DEF RegisterClass
<1>3. ASSUME NEW c \in Classes, NEW named \in BOOLEAN, TypeRegister(c, named)  PROVE RegInv'
  BY <1>3, TypeRegisterStep
<1>4. ASSUME NEW c \in Classes, NEW b \in Classes, NEW d \in Declarations,
             NEW implements \in SUBSET Interfaces, NEW first \in Interfaces \cup {Null}, NEW name \in Bases,
             ClassStatement(c, b, d, implements, first, name)
      PROVE  RegInv'
  BY <1>4, StatementStep, Zenon
<1>5. QED
  BY <1>1, <1>2, <1>3, <1>4, StaticStep, AlreadyStep, SignalsStep, PropertiesStep, FinishStep DEF RegNext

(* ... of which the properties are a part                                  *)
LEMMA RegProperties ==
  ASSUME RegInv
  PROVE  Hierarchy /\ Complete
<1>1. RegTyped /\ LinksOK /\ BelowOK /\ ProgressOK /\ ClassesIn(class) /\ Defined = InUse(class)
  BY DEF RegInv, ClassesOK, Defined, InUse
<1>2. ASSUME NEW c \in Defined, TypeOf(c) \in Types
      PROVE  type[TypeOf(c)].replaced \/ type[TypeOf(c)].class \in Elements(class[c].mro)
  <2>1. PICK i \in 1..Len(class[c].mro) :
          type[TypeOf(c)].replaced \/ type[TypeOf(c)].class = class[c].mro[i]
    BY <1>2, Found
  <2>2. class[c].mro \in Seq(Classes)  BY <1>1, Fields DEF Defined
  <2>3. class[c].mro[i] \in Elements(class[c].mro)  BY <2>2 DEF Elements
  <2>4. QED  BY <2>1, <2>3
<1>3. Hierarchy  BY <1>1, <1>2 DEF Hierarchy, BelowOK, LinksOK
<1>4. ASSUME NEW c \in Defined, class[c].state = "done", class[c].declares # Null
      PROVE  TypeOf(c) \in Interfaces \/ Full(c)
  <2>1. CASE class[c].gtype = Null
    <3>1. class[c].first # Null  BY <1>1, <1>4, <2>1 DEF ProgressOK
    <3>2. Has(class, c) /\ Own(class, c) = class[c].first  BY <2>1, <3>1 DEF Has, Own
    <3>3. TypeOf(c) = class[c].first  BY <1>1, <3>2, FindsOwn, TypeOfIn
    <3>4. class[c].first \in Interfaces  BY <1>1, <3>1, Fields DEF Defined
    <3>5. QED  BY <3>3, <3>4
  <2>2. CASE class[c].gtype # Null  BY <1>1, <1>4, <2>2 DEF ProgressOK
  <2>3. QED  BY <2>1, <2>2
<1>5. Complete  BY <1>4 DEF Complete, Full
<1>6. QED  BY <1>3, <1>5

-----------------------------------------------------------------------------
(* Steps of Construction                                                   *)

(* A GType stays, and so does the flag of a Python class's.                *)
LEMMA RegKeeps ==
  ASSUME RegInv, RegNext
  PROVE  \A t \in Types : /\ Made(t) => Made(t)'
                          /\ t \in PyTypes /\ Made(t) => type'[t].flag = type[t].flag
                          /\ type'[t].flag => type[t].flag \/ Made(t)'
<1>1. type \in [Types -> TypeRecord] /\ TypesOK  BY DEF RegInv, RegTyped
<1>2. ASSUME NEW c \in Classes, NEW t \in CTypes, Unbound(c, t), NEW flag \in BOOLEAN,
             NEW inits \in {"fine", "fail"},
             Stands(c, t, [type[t] EXCEPT !.flag = flag, !.inits = inits])
      PROVE  \A u \in Types : /\ Made(u) => Made(u)'
                              /\ u \in PyTypes /\ Made(u) => type'[u].flag = type[u].flag
                              /\ type'[u].flag => type[u].flag \/ Made(u)'
  <2>1. t \in Types \ PyTypes /\ t # Root /\ type[t] \in TypeRecord  BY <1>1, <1>2, Names DEF Unbound
  <2> DEFINE n == [[type[t] EXCEPT !.flag = flag, !.inits = inits]
                     EXCEPT !.class = c, !.replaced = type[t].class # Null]
  <2>2. n.supers = type[t].supers  BY <2>1 DEF TypeRecord
  <2>3. type' = [type EXCEPT ![t] = n]  BY <1>2 DEF Stands
  <2> HIDE DEF n
  <2>4. type'[t].supers = type[t].supers /\ \A u \in Types \ {t} : type'[u] = type[u]
    BY <1>1, <2>1, <2>2, <2>3
  <2>5. Made(t)
    <3>1. type[t].supers = <<Root, t>>  BY <1>1, <2>1 DEF TypesOK
    <3>2. QED  BY <3>1 DEF Made
  <2>6. QED  BY <2>1, <2>4, <2>5 DEF Made
<1>3. ASSUME RegisterStatic
      PROVE  \A u \in Types : /\ Made(u) => Made(u)'
                              /\ u \in PyTypes /\ Made(u) => type'[u].flag = type[u].flag
                              /\ type'[u].flag => type[u].flag \/ Made(u)'
  <2>1. SUFFICES ASSUME NEW c, c = registering.class, NEW p, p = TypeOf(c), NEW t, t = TypeName(c)
                 PROVE  \A u \in Types : /\ Made(u) => Made(u)'
                                         /\ u \in PyTypes /\ Made(u) => type'[u].flag = type[u].flag
                                         /\ type'[u].flag => type[u].flag \/ Made(u)'
    OBVIOUS
  <2>2. CASE ~(p \in Types /\ ~Made(t))
    <3>1. type' = type  BY <1>3, <2>1, <2>2 DEF RegisterStatic
    <3>2. QED  BY <3>1 DEF Made
  <2>3. CASE p \in Types /\ ~Made(t)
    <3> DEFINE n == WithInterfaces(
                      [NoType EXCEPT !.supers = Append(type[p].supers, t), !.class = c,
                         !.flag = type[p].flag, !.interfaces = type[p].interfaces],
                      Added(c, type[p].interfaces, FALSE), type[p].interfaces)
    <3>1. type' = [type EXCEPT ![t] = n]  BY <1>3, <2>1, <2>3 DEF RegisterStatic
    <3>2. n.supers = Append(type[p].supers, t)  BY DEF WithInterfaces, NoType
    <3> HIDE DEF n
    <3>3. \A u \in Types \ {t} : type'[u] = type[u]  BY <1>1, <3>1
    <3>4. type[p].supers \in Seq(Types)  BY <1>1, <2>3 DEF TypeRecord
    <3>5. t \in Types => Made(t)'
      <4>1. SUFFICES ASSUME t \in Types  PROVE Made(t)'  OBVIOUS
      <4>2. type'[t].supers = Append(type[p].supers, t)  BY <1>1, <3>1, <3>2, <4>1
      <4>3. Append(type[p].supers, t) # <<>>  BY <3>4, <4>1, AppendProperties
      <4>4. QED  BY <4>2, <4>3 DEF Made
    <3>6. \A u \in Types \ {t} : Made(u)' <=> Made(u)  BY <3>3 DEF Made
    <3>7. QED  BY <2>3, <3>3, <3>5, <3>6
  <2>4. QED  BY <2>2, <2>3
<1>4. ASSUME NEW t, NEW n, n.supers = type[t].supers /\ n.flag = type[t].flag,
             type' = [type EXCEPT ![t] = n]
      PROVE  \A u \in Types : /\ Made(u) => Made(u)'
                              /\ u \in PyTypes /\ Made(u) => type'[u].flag = type[u].flag
                              /\ type'[u].flag => type[u].flag \/ Made(u)'
  <2>1. \A u \in Types : type'[u].supers = type[u].supers /\ type'[u].flag = type[u].flag  BY <1>1, <1>4
  <2>2. QED  BY <2>1 DEF Made
<1>5. ASSUME AddSignals \/ AddProperties \/ Finish
      PROVE  \E t, n : /\ n.supers = type[t].supers /\ n.flag = type[t].flag
                       /\ type' = [type EXCEPT ![t] = n]
  <2> DEFINE c == registering.class
             t == class[c].gtype
  <2>1. t \in Types /\ type[t] \in TypeRecord
    <3>1. registering.phase \in {"signals", "properties", "interfaces"}
      BY <1>5 DEF AddSignals, AddProperties, Finish, At
    <3>2. t \in Types  BY <3>1, Middle
    <3>3. QED  BY <1>1, <3>2
  <2>2. CASE AddSignals
    <3>1. type' = [type EXCEPT ![t] = [type[t] EXCEPT !.signals = class[c].declares.signals]]
      BY <2>2 DEF AddSignals
    <3>2. [type[t] EXCEPT !.signals = class[c].declares.signals].supers = type[t].supers
          /\ [type[t] EXCEPT !.signals = class[c].declares.signals].flag = type[t].flag
      BY <2>1 DEF TypeRecord
    <3>3. QED  BY <3>1, <3>2
  <2>3. CASE AddProperties
    <3>1. type' = [type EXCEPT ![t] = [type[t] EXCEPT !.properties = class[c].declares.properties]]
      BY <2>3 DEF AddProperties
    <3>2. [type[t] EXCEPT !.properties = class[c].declares.properties].supers = type[t].supers
          /\ [type[t] EXCEPT !.properties = class[c].declares.properties].flag = type[t].flag
      BY <2>1 DEF TypeRecord
    <3>3. QED  BY <3>1, <3>2
  <2>4. CASE Finish
    <3> DEFINE parents == type[Parent(t)].interfaces
               n == WithInterfaces(type[t], Added(c, parents, TRUE), parents)
    <3>1. type' = [type EXCEPT ![t] = n]  BY <1>1, <2>1, <2>4 DEF Finish
    <3>2. n.supers = type[t].supers /\ n.flag = type[t].flag  BY <2>1 DEF WithInterfaces, TypeRecord
    <3> HIDE DEF n
    <3>3. QED  BY <3>1, <3>2
  <2>5. QED  BY <1>5, <2>2, <2>3, <2>4
<1>6. ASSUME NEW c \in Classes, NEW t \in CTypes, LookupClass(c, t)
      PROVE  \E flag \in BOOLEAN, inits \in {"fine", "fail"} :
               Unbound(c, t) /\ Stands(c, t, [type[t] EXCEPT !.flag = flag, !.inits = inits])
  <2>1. type[t] \in TypeRecord  BY <1>1, Names
  <2>2. Unbound(c, t) /\ Stands(c, t, type[t])  BY <1>6 DEF LookupClass
  <2>3. type[t].flag \in BOOLEAN /\ type[t].inits \in {"fine", "fail"}  BY <2>1 DEF TypeRecord
  <2>4. type[t] = [type[t] EXCEPT !.flag = type[t].flag, !.inits = type[t].inits]  BY <2>1 DEF TypeRecord
  <2>5. Stands(c, t, [type[t] EXCEPT !.flag = type[t].flag, !.inits = type[t].inits])
    BY <2>2, <2>4, Zenon
  <2>6. QED  BY <2>2, <2>3, <2>5
<1>7. ASSUME type' = type
      PROVE  \A u \in Types : /\ Made(u) => Made(u)'
                              /\ u \in PyTypes /\ Made(u) => type'[u].flag = type[u].flag
                              /\ type'[u].flag => type[u].flag \/ Made(u)'
  BY <1>7 DEF Made
<1>8. CASE RegisterStatic  BY <1>3, <1>8
<1>9. CASE AddSignals \/ AddProperties \/ Finish  BY <1>4, <1>5, <1>9
<1>10. CASE \E c \in Classes, t \in CTypes : LookupClass(c, t)  BY <1>2, <1>6, <1>10
<1>11. CASE \E c \in Classes, t \in CTypes, new_constructor \in BOOLEAN, inits \in {"fine", "fail"} :
              RegisterClass(c, t, new_constructor, inits)
  BY <1>2, <1>11 DEF RegisterClass
<1>12. CASE \/ AlreadyRegistered \/ \E c \in Classes, named \in BOOLEAN : TypeRegister(c, named)
            \/ \E c, b \in Classes, d \in Declarations, implements \in SUBSET Interfaces,
                  first \in Interfaces \cup {Null}, name \in Bases :
                  ClassStatement(c, b, d, implements, first, name)
  BY <1>7, <1>12 DEF AlreadyRegistered, TypeRegister, ClassStatement
<1>13. QED  BY <1>8, <1>9, <1>10, <1>11, <1>12 DEF RegNext

LEMMA RegStill ==
  ASSUME RegInv, UNCHANGED regVars
  PROVE  RegInv'
<1>1. RegTyped /\ ClassesOK /\ TypesOK /\ LinksOK /\ BelowOK /\ StatesOK /\ ProgressOK  BY DEF RegInv
<1>2. type' = type /\ class' = class /\ supported' = supported /\ registering' = registering
  BY DEF regVars
<1>3. RegTyped' /\ ClassesOK' /\ Defined' = Defined /\ StatesOK'
  BY <1>1, <1>2 DEF RegTyped, ClassesOK, Defined, StatesOK
<1>4. TypesOK' /\ LinksOK' /\ BelowOK'
  <2>1. \A d \in Defined : TypeOf(d)' = TypeOf(d) /\ Base(d)' = Base(d)  BY <1>2, TypeOfIn DEF Base
  <2>2. QED  BY <1>1, <1>2, <1>3, <2>1, LinksKept DEF RegTyped
<1>5. ProgressOK'  BY <1>1, <1>2, <1>3 DEF ProgressOK, Full
<1>6. QED  BY <1>3, <1>4, <1>5 DEF RegInv

(* The stack of t, with n frames, loses the last one; gets another frame, g, in
   its place; or gets g besides.                                           *)
Pops(t, n) ==
  /\ stack' \in [Threads -> Seq(Frame)] /\ \A u \in Threads \ {t} : stack'[u] = stack[u]
  /\ Len(stack'[t]) = n - 1 /\ \A i \in 1..(n - 1) : stack'[t][i] = stack[t][i]

Replaces(t, n, g) ==
  /\ stack' \in [Threads -> Seq(Frame)] /\ \A u \in Threads \ {t} : stack'[u] = stack[u]
  /\ Len(stack'[t]) = n /\ stack'[t][n] = g /\ \A i \in 1..(n - 1) : stack'[t][i] = stack[t][i]

Pushes(t, n, g) ==
  /\ stack' \in [Threads -> Seq(Frame)] /\ \A u \in Threads \ {t} : stack'[u] = stack[u]
  /\ Len(stack'[t]) = n + 1 /\ stack'[t][n + 1] = g /\ \A i \in 1..n : stack'[t][i] = stack[t][i]

LEMMA Frames ==
  ASSUME ConTyped, NEW t \in Threads
  PROVE  /\ stack[t] \in Seq(Frame) /\ Len(stack[t]) \in Nat
         /\ stack[t] # <<>> => Len(stack[t]) \in 1..Len(stack[t]) /\ Top(t) = stack[t][Len(stack[t])]
         /\ \A i \in 1..Len(stack[t]) :
              /\ stack[t][i] \in Frame /\ stack[t][i].object \in Objects
              /\ stack[t][i].wrapper \in Wrappers \cup {Null} /\ stack[t][i].todo \in Seq(Types)
              /\ stack[t][i].init \in BOOLEAN
<1>1. stack[t] \in Seq(Frame) /\ Len(stack[t]) \in Nat  BY DEF ConTyped
<1> DEFINE s == stack[t]
<1> HIDE DEF s
<1>2. s # <<>> => Len(s) \in 1..Len(s)  BY <1>1, EmptySeq DEF s
<1>3. \A i \in 1..Len(s) : s[i] \in Frame  BY <1>1 DEF s
<1>4. \A i \in 1..Len(s) : /\ s[i].object \in Objects /\ s[i].wrapper \in Wrappers \cup {Null}
                           /\ s[i].todo \in Seq(Types) /\ s[i].init \in BOOLEAN
  BY <1>3 DEF Frame
<1>5. QED  BY <1>1, <1>2, <1>3, <1>4 DEF s, Top

LEMMA Pop ==
  ASSUME ConTyped, NEW t \in Threads, stack[t] # <<>>, stack' = [stack EXCEPT ![t] = Below(t)]
  PROVE  Pops(t, Len(stack[t]))
<1> DEFINE s == stack[t]
<1>1. s \in Seq(Frame) /\ Len(s) \in Nat /\ Len(s) \in 1..Len(s)  BY Frames
<1>2. Below(t) = SubSeq(s, 1, Len(s) - 1)  BY DEF Below
<1> HIDE DEF s
<1>3. \A i \in 1..(Len(s) - 1) : s[i] \in Frame  BY <1>1
<1>4. /\ SubSeq(s, 1, Len(s) - 1) \in Seq(Frame) /\ Len(SubSeq(s, 1, Len(s) - 1)) = Len(s) - 1
      /\ \A i \in 1..(Len(s) - 1) : SubSeq(s, 1, Len(s) - 1)[i] = s[i]
  <2> DEFINE N == Len(s) - 1
  <2>1. N \in Nat /\ 1 \in Int /\ N \in Int /\ \A i \in 1..N : s[i] \in Frame  BY <1>1, <1>3
  <2> HIDE DEF N
  <2>2. /\ SubSeq(s, 1, N) \in Seq(Frame) /\ Len(SubSeq(s, 1, N)) = IF 1 <= N THEN N - 1 + 1 ELSE 0
        /\ \A i \in 1..(N - 1 + 1) : SubSeq(s, 1, N)[i] = s[1 + i - 1]
    BY <2>1, SubSeqProperties
  <2>3. N - 1 + 1 = N /\ (IF 1 <= N THEN N - 1 + 1 ELSE 0) = N /\ \A i \in 1..N : 1 + i - 1 = i  BY <2>1
  <2>4. Len(SubSeq(s, 1, N)) = N /\ \A i \in 1..N : SubSeq(s, 1, N)[i] = s[i]  BY <2>2, <2>3
  <2>5. QED  BY <2>2, <2>4 DEF N
<1>5. Pops(t, Len(s))
  <2> DEFINE q == Below(t)
  <2>1. q \in Seq(Frame) /\ Len(q) = Len(s) - 1 /\ \A i \in 1..(Len(s) - 1) : q[i] = s[i]  BY <1>2, <1>4
  <2> HIDE DEF q
  <2>2. stack' = [stack EXCEPT ![t] = q]  BY DEF q
  <2>3. stack' \in [Threads -> Seq(Frame)] /\ stack'[t] = q /\ \A u \in Threads \ {t} : stack'[u] = stack[u]
    BY <2>1, <2>2 DEF ConTyped
  <2>4. QED  BY <2>1, <2>3 DEF Pops, s
<1>6. QED  BY <1>5 DEF s

LEMMA Replace ==
  ASSUME ConTyped, NEW t \in Threads, NEW n, n = Len(stack[t]), stack[t] # <<>>, NEW g \in Frame,
         NEW q, q = [stack[t] EXCEPT ![n] = g], stack' = [stack EXCEPT ![t] = q]
  PROVE  Replaces(t, n, g)
<1> DEFINE s == stack[t]
<1>1. s \in Seq(Frame) /\ n \in Nat /\ n \in 1..n /\ n = Len(s)  BY Frames
<1> HIDE DEF s
<1>2. q = [s EXCEPT ![n] = g]  BY DEF s
<1>3. q \in Seq(Frame) /\ Len(q) = n /\ q[n] = g /\ \A i \in 1..(n - 1) : q[i] = s[i]
  <2>1. /\ [s EXCEPT ![n] = g] \in Seq(Frame) /\ Len([s EXCEPT ![n] = g]) = Len(s)
        /\ \A j \in 1..Len(s) : [s EXCEPT ![n] = g][j] = IF j = n THEN g ELSE s[j]
    BY <1>1, ExceptSeq
  <2>2. \A i \in 1..(n - 1) : i \in 1..n /\ i # n  BY <1>1
  <2>3. QED  BY <1>1, <1>2, <2>1, <2>2
<1>4. stack' \in [Threads -> Seq(Frame)] /\ stack'[t] = q /\ \A u \in Threads \ {t} : stack'[u] = stack[u]
  BY <1>3 DEF ConTyped
<1>5. QED  BY <1>3, <1>4 DEF Replaces, s

LEMMA Push ==
  ASSUME ConTyped, NEW t \in Threads, NEW g \in Frame, stack' = [stack EXCEPT ![t] = Append(@, g)]
  PROVE  Pushes(t, Len(stack[t]), g)
<1> DEFINE s == stack[t]
           q == Append(s, g)
<1>1. s \in Seq(Frame) /\ Len(s) \in Nat  BY Frames
<1>2. stack' = [stack EXCEPT ![t] = q]  BY DEF ConTyped
<1> HIDE DEF s
<1>3. q \in Seq(Frame) /\ Len(q) = Len(s) + 1 /\ q[Len(s) + 1] = g /\ \A i \in 1..Len(s) : q[i] = s[i]
  BY <1>1, AppendProperties
<1> HIDE DEF q
<1>4. stack' \in [Threads -> Seq(Frame)] /\ stack'[t] = q /\ \A u \in Threads \ {t} : stack'[u] = stack[u]
  BY <1>2, <1>3 DEF ConTyped
<1>5. QED  BY <1>3, <1>4 DEF Pushes, s

(* Another frame has another object, and another wrapper if it has one.    *)
LEMMA Others ==
  ASSUME ConTyped, Unique, NEW t \in Threads, NEW n \in 1..Len(stack[t]),
         NEW u \in Threads, NEW i \in 1..Len(stack[u]), u # t \/ i # n
  PROVE  /\ stack[u][i].object # stack[t][n].object
         /\ stack[t][n].wrapper # Null => stack[u][i].wrapper # stack[t][n].wrapper
BY DEF Unique

LEMMA UniqueKept ==
  ASSUME Unique, \A u \in Threads : \A i \in 1..Len(stack'[u]) :
           /\ i \in 1..Len(stack[u]) /\ stack'[u][i].object = stack[u][i].object
           /\ stack'[u][i].wrapper = stack[u][i].wrapper
  PROVE  Unique'
BY DEF Unique

(* What waits in t is of a frame of t, and no object has it.               *)
LEMMA Waiting ==
  ASSUME ConTyped, WaitingOK, NEW t \in Threads, tls[t] # Null
  PROVE  /\ tls[t] \in Wrappers /\ wrapper[tls[t]].obj = Null
         /\ \E i \in 1..Len(stack[t]) :
              /\ stack[t][i].wrapper = tls[t] /\ object[stack[t][i].object].wrapper = Null
              /\ \A j \in (i + 1)..Len(stack[t]) : stack[t][j].wrapper = Null
              /\ i < Len(stack[t]) => tls[t] \in early
BY DEF ConTyped, WaitingOK, Waits

(* The others wait on, whatever happens to the innermost object of t, o.   *)
Untouched(u, o) ==
  /\ stack'[u] = stack[u] /\ early \subseteq early'
  /\ \A x \in Objects \ {o} : object'[x].wrapper = object[x].wrapper
  /\ \A i \in 1..Len(stack[u]) : stack[u][i].object # o

LEMMA OthersWait ==
  ASSUME ConTyped, WaitingOK, NEW u \in Threads, NEW o, tls[u] # Null, Untouched(u, o)
  PROVE  /\ wrapper[tls[u]].obj = Null /\ Waits(stack'[u], tls[u], object', early')
         /\ \E i \in 1..Len(stack[u]) : stack[u][i].wrapper = tls[u]
<1>1. PICK i \in 1..Len(stack[u]) :
        /\ stack[u][i].wrapper = tls[u] /\ object[stack[u][i].object].wrapper = Null
        /\ \A j \in (i + 1)..Len(stack[u]) : stack[u][j].wrapper = Null
        /\ i < Len(stack[u]) => tls[u] \in early
  BY Waiting
<1>2. stack[u][i].object \in Objects \ {o}  BY Frames DEF Untouched
<1>3. object'[stack[u][i].object].wrapper = Null  BY <1>1, <1>2 DEF Untouched
<1>4. Waits(stack'[u], tls[u], object', early')  BY <1>1, <1>3 DEF Waits, Untouched
<1>5. QED  BY <1>1, <1>4, Waiting

(* While classes are registered                                            *)
LEMMA RegisterStep ==
  ASSUME RegInv, RegNext, ConInv, UNCHANGED conVars
  PROVE  ConInv'
<1>1. ConTyped /\ FlagsOK /\ FramesOK /\ Unique /\ WaitingOK /\ ObjectsOK /\ WrappersOK  BY DEF ConInv
<1>2. object' = object /\ wrapper' = wrapper /\ stack' = stack /\ tls' = tls /\ early' = early
  BY DEF conVars
<1>3. ConTyped' /\ Unique' /\ WaitingOK' /\ WrappersOK'
  BY <1>1, <1>2 DEF ConTyped, Unique, WaitingOK, WrappersOK
<1>4. \A t \in Types : /\ Made(t) => Made(t)'
                       /\ t \in PyTypes /\ Made(t) => type'[t].flag = type[t].flag
                       /\ type'[t].flag => type[t].flag \/ Made(t)'
  BY RegKeeps
<1>5. FlagsOK'  BY <1>1, <1>4 DEF FlagsOK
<1>6. FramesOK'
  <2>1. ASSUME NEW u \in Threads, NEW i \in 1..Len(stack[u])
        PROVE  FrameOK(stack[u][i], object, wrapper, tls[u], early, type')
    <3> DEFINE f == stack[u][i]
    <3>1. FrameOK(f, object, wrapper, tls[u], early, type) /\ f.todo \in Seq(Types)  BY <1>1, Frames DEF FramesOK
    <3> HIDE DEF f
    <3>2. f.todo # <<>> /\ Head(f.todo) \in PyTypes /\ type[Head(f.todo)].flag => type'[Head(f.todo)].flag
      <4>1. \A h \in PyTypes : type[h].flag => type'[h].flag  BY <1>1, <1>4, Names DEF FlagsOK
      <4>2. QED  BY <4>1
    <3>3. FrameOK(f, object, wrapper, tls[u], early, type')  BY <3>1, <3>2 DEF FrameOK
    <3>4. QED  BY <3>3 DEF f
  <2>2. QED  BY <1>2, <2>1 DEF FramesOK
<1>7. ObjectsOK'
  <2>1. ASSUME NEW o \in Objects
        PROVE  /\ object[o].type # Null => Made(object[o].type)'
               /\ object[o].type \in PyTypes /\ type'[object[o].type].flag => type[object[o].type].flag
    <3>1. object[o].type \in Types \cup {Null}  BY <1>1 DEF ConTyped, ObjectRecord
    <3>2. object[o].type # Null => Made(object[o].type)  BY <1>1 DEF ObjectsOK
    <3>3. \A t \in PyTypes : t \in Types /\ t # Null  BY Names
    <3>4. object[o].type # Null => type'[object[o].type].supers # <<>>  BY <1>4, <3>1, <3>2 DEF Made
    <3>5. QED  BY <1>2, <1>4, <3>2, <3>3, <3>4 DEF Made
  <2>2. QED  BY <1>1, <1>2, <2>1 DEF ObjectsOK, Made
<1>8. QED  BY <1>1, <1>3, <1>5, <1>6, <1>7 DEF ConInv

LEMMA Tailed ==
  ASSUME NEW f \in Frame, f.todo # <<>>
  PROVE  /\ Tail(f.todo) \in Seq(Types) /\ Head(f.todo) \in Types
         /\ Tail(f.todo) # <<>> => Tail(f.todo)[Len(Tail(f.todo))] = f.todo[Len(f.todo)]
         /\ Tail(f.todo) = <<>> => Head(f.todo) = f.todo[Len(f.todo)]
         /\ [f EXCEPT !.todo = Tail(f.todo), !.init = FALSE] \in Frame
<1> DEFINE q == f.todo
<1>1. q \in Seq(Types) /\ q # <<>>  BY DEF Frame
<1> HIDE DEF q
<1>2. /\ Head(q) \in Types /\ Tail(q) \in Seq(Types) /\ Len(Tail(q)) = Len(q) - 1
      /\ \A i \in 1..Len(Tail(q)) : Tail(q)[i] = q[i + 1]
  BY <1>1, HeadTailProperties
<1>3. Head(q) = q[1] /\ Len(q) \in Nat /\ Len(q) >= 1  BY <1>1, EmptySeq
<1>4. ASSUME Tail(q) # <<>>  PROVE Tail(q)[Len(Tail(q))] = q[Len(q)]
  <2> DEFINE N == Len(Tail(q))
  <2>1. N \in 1..N /\ N + 1 = Len(q)  BY <1>2, <1>3, <1>4, EmptySeq
  <2>2. QED  BY <1>2, <2>1
<1>5. ASSUME Tail(q) = <<>>  PROVE Head(q) = q[Len(q)]
  <2>1. Len(Tail(q)) = 0  BY <1>2, <1>5, EmptySeq
  <2> DEFINE N == Len(Tail(q))
             M == Len(q)
  <2>2. M = 1
    <3>1. N = M - 1 /\ N = 0 /\ M \in Nat  BY <1>2, <1>3, <2>1
    <3> HIDE DEF N, M
    <3>2. QED  BY <3>1
  <2>3. QED  BY <1>3, <2>2
<1>6. [f EXCEPT !.todo = Tail(q), !.init = FALSE] \in Frame  BY <1>2 DEF Frame
<1>7. QED  BY <1>2, <1>4, <1>5, <1>6 DEF q

(* A type has been initialised, and nothing else is done.                  *)
LEMMA TailStep ==
  ASSUME ConInv, NEW t \in Threads, NEW n, n = Len(stack[t]), stack[t] # <<>>,
         NEW f, f = stack[t][n], f.todo # <<>>,
         NEW g, g = [f EXCEPT !.todo = Tail(f.todo), !.init = FALSE],
         Replaces(t, n, g), UNCHANGED <<type, object, wrapper, tls, early>>,
         Tail(f.todo) = <<>> /\ object[f.object].wrapper = Null =>
           ~(object[f.object].type \in PyTypes /\ type[object[f.object].type].flag)
  PROVE  ConInv'
<1>1. ConTyped /\ FlagsOK /\ FramesOK /\ Unique /\ WaitingOK /\ ObjectsOK /\ WrappersOK  BY DEF ConInv
<1>2. n \in 1..n /\ n \in Nat /\ f \in Frame /\ f.object \in Objects  BY <1>1, Frames
<1>3. /\ stack' \in [Threads -> Seq(Frame)] /\ \A u \in Threads \ {t} : stack'[u] = stack[u]
      /\ Len(stack'[t]) = n /\ stack'[t][n] = g /\ \A i \in 1..(n - 1) : stack'[t][i] = stack[t][i]
  BY DEF Replaces
<1>4. /\ g.object = f.object /\ g.wrapper = f.wrapper /\ g.todo = Tail(f.todo) /\ g.init = FALSE
  BY <1>2 DEF Frame
<1>5. \A u \in Threads : \A i \in 1..Len(stack'[u]) :
        /\ i \in 1..Len(stack[u]) /\ stack'[u][i].object = stack[u][i].object
        /\ stack'[u][i].wrapper = stack[u][i].wrapper
        /\ u # t \/ i # n => stack'[u][i] = stack[u][i]
  <2>1. \A i \in 1..n : i \in 1..(n - 1) \/ i = n  BY <1>2
  <2>2. QED  BY <1>3, <1>4, <2>1
<1>6. \A u \in Threads : Len(stack'[u]) = Len(stack[u])  BY <1>3
<1>7. object' = object /\ wrapper' = wrapper /\ tls' = tls /\ early' = early /\ type' = type  OBVIOUS
<1>8. ConTyped' /\ FlagsOK' /\ WrappersOK'  BY <1>1, <1>3, <1>7 DEF ConTyped, FlagsOK, WrappersOK, Made
<1>9. Unique'  BY <1>1, <1>5, UniqueKept
<1>10. FramesOK'
  <2>1. ASSUME NEW u \in Threads, NEW i \in 1..Len(stack'[u])
        PROVE  FrameOK(stack'[u][i], object, wrapper, tls[u], early, type)
    <3>1. CASE u # t \/ i # n  BY <1>1, <1>5, <3>1 DEF FramesOK
    <3>2. CASE u = t /\ i = n
      <4>1. FrameOK(f, object, wrapper, tls[t], early, type)  BY <1>1, <1>2 DEF FramesOK
      <4>2. Tail(f.todo) # <<>> => Tail(f.todo)[Len(Tail(f.todo))] = f.todo[Len(f.todo)]  BY <1>2, Tailed
      <4> DEFINE q == Tail(f.todo)
      <4> HIDE DEF q
      <4>3. g.todo = q /\ (q # <<>> => q[Len(q)] = f.todo[Len(f.todo)])  BY <1>4, <4>2 DEF q
      <4>4. FrameOK(g, object, wrapper, tls[t], early, type)  BY <1>4, <4>1, <4>3 DEF FrameOK
      <4>5. QED  BY <1>3, <3>2, <4>4
    <3>3. QED  BY <3>1, <3>2
  <2>2. QED  BY <1>7, <2>1 DEF FramesOK
<1>11. WaitingOK'
  <2>1. ASSUME NEW u \in Threads, tls[u] # Null
        PROVE  wrapper[tls[u]].obj = Null /\ Waits(stack'[u], tls[u], object, early)
    <3>1. PICK i \in 1..Len(stack[u]) :
            /\ stack[u][i].wrapper = tls[u] /\ object[stack[u][i].object].wrapper = Null
            /\ \A j \in (i + 1)..Len(stack[u]) : stack[u][j].wrapper = Null
            /\ i < Len(stack[u]) => tls[u] \in early
      BY <1>1, <2>1, Waiting
    <3>2. \A j \in (i + 1)..Len(stack'[u]) : stack'[u][j].wrapper = Null
      <4>1. \A j \in (i + 1)..Len(stack[u]) : j \in 1..Len(stack[u])  OBVIOUS
      <4>2. QED  BY <1>5, <1>6, <3>1, <4>1
    <3>3. stack'[u][i].wrapper = tls[u] /\ object[stack'[u][i].object].wrapper = Null /\ i \in 1..Len(stack'[u])
      BY <1>5, <1>6, <3>1
    <3>5. Waits(stack'[u], tls[u], object, early)  BY <1>6, <3>1, <3>2, <3>3 DEF Waits
    <3>4. QED  BY <1>1, <2>1, <3>5 DEF WaitingOK
  <2>2. QED  BY <1>7, <2>1 DEF WaitingOK
<1>12. ObjectsOK'
  <2>1. ASSUME NEW o \in Objects, object[o].type \in PyTypes, type[object[o].type].flag, object[o].wrapper = Null
        PROVE  \E u \in Threads : \E i \in 1..Len(stack'[u]) : stack'[u][i].object = o /\ stack'[u][i].todo # <<>>
    <3>1. PICK u \in Threads : \E i \in 1..Len(stack[u]) : stack[u][i].object = o /\ stack[u][i].todo # <<>>
      BY <1>1, <2>1 DEF ObjectsOK
    <3>2. PICK i \in 1..Len(stack[u]) : stack[u][i].object = o /\ stack[u][i].todo # <<>>  BY <3>1
    <3>3. CASE u # t \/ i # n
      <4>1. i \in 1..Len(stack'[u])  BY <1>6
      <4>2. stack'[u][i] = stack[u][i]  BY <1>5, <3>3, <4>1
      <4>3. QED  BY <3>2, <4>1, <4>2
    <3>4. CASE u = t /\ i = n
      <4>1. o = f.object  BY <3>2, <3>4
      <4>2. g.todo # <<>> /\ g.object = o  BY <1>4, <2>1, <4>1
      <4>3. t \in Threads /\ n \in 1..Len(stack'[t]) /\ stack'[t][n] = g  BY <1>2, <1>3
      <4>4. \E j \in 1..Len(stack'[t]) : stack'[t][j].object = o /\ stack'[t][j].todo # <<>>  BY <4>2, <4>3
      <4>5. QED  BY <4>4
    <3>5. QED  BY <3>3, <3>4
  <2>2. QED  BY <1>1, <1>7, <2>1 DEF ObjectsOK, Made
<1>13. QED  BY <1>8, <1>9, <1>10, <1>11, <1>12 DEF ConInv

(* Nothing that a frame, f, depends on changes, where a waits and then b.  *)
Kept(f, a, b) ==
  /\ FrameOK(f, object, wrapper, a, early, type) /\ type' = type /\ early \subseteq early'
  /\ object'[f.object].type = object[f.object].type /\ object'[f.object].for = object[f.object].for
  /\ object[f.object].wrapper # Null => object'[f.object].wrapper # Null
  /\ f.wrapper # Null => /\ wrapper'[f.wrapper] = wrapper[f.wrapper]
                         /\ f.todo # <<>> /\ a = f.wrapper => b = a \/ f.wrapper \in early'

LEMMA FrameKept ==
  ASSUME NEW f, NEW a, NEW b, Kept(f, a, b)
  PROVE  FrameOK(f, object', wrapper', b, early', type')
BY DEF Kept, FrameOK

(* The innermost frame of t                                                *)
LEMMA TopOK ==
  ASSUME ConInv, NEW t \in Threads, NEW n, n = Len(stack[t]), NEW f, f = stack[t][n], stack[t] # <<>>
  PROVE  /\ n \in Nat /\ n \in 1..n /\ Top(t) = f /\ f \in Frame
         /\ f.object \in Objects /\ f.wrapper \in Wrappers \cup {Null}
         /\ FrameOK(f, object, wrapper, tls[t], early, type) /\ object[f.object].type \in Types
         /\ \A u \in Threads : \A i \in 1..Len(stack[u]) : u # t \/ i # n =>
              /\ stack[u][i].object # f.object
              /\ f.wrapper # Null => stack[u][i].wrapper # f.wrapper
<1>1. ConTyped /\ FramesOK /\ Unique  BY DEF ConInv
<1>2. /\ n \in Nat /\ n \in 1..n /\ Top(t) = f /\ f \in Frame
      /\ f.object \in Objects /\ f.wrapper \in Wrappers \cup {Null}
  BY <1>1, Frames
<1>3. FrameOK(f, object, wrapper, tls[t], early, type)  BY <1>1 DEF FramesOK
<1>4. object[f.object].type \in Types \cup {Null}  BY <1>1, <1>2 DEF ConTyped, ObjectRecord
<1>5. object[f.object].type # Null  BY <1>3 DEF FrameOK
<1>6. \A u \in Threads : \A i \in 1..Len(stack[u]) : u # t \/ i # n =>
        /\ stack[u][i].object # f.object
        /\ f.wrapper # Null => stack[u][i].wrapper # f.wrapper
  BY <1>1, <1>2, Others
<1>7. QED  BY <1>2, <1>3, <1>4, <1>5, <1>6

LEMMA Initialises ==
  ASSUME ConInv, NEW t \in Threads, NEW n, n = Len(stack[t]), stack[t] # <<>>,
         NEW f, f = stack[t][n], f.todo # <<>>, ~f.init, stack' = Initialised(t)
  PROVE  Replaces(t, n, [f EXCEPT !.todo = Tail(f.todo), !.init = FALSE])
<1>1. ConTyped /\ f \in Frame  BY TopOK DEF ConInv
<1> DEFINE g == [f EXCEPT !.todo = Tail(f.todo), !.init = FALSE]
           q == [stack[t] EXCEPT ![n] = g]
<1>2. g \in Frame  BY <1>1, Tailed
<1>3. [f EXCEPT !.todo = Tail(@)] = g  BY <1>1 DEF Frame
<1>4. stack' = [stack EXCEPT ![t] = q]  BY <1>3 DEF Initialised
<1> HIDE DEF g, q
<1>5. q = [stack[t] EXCEPT ![n] = g]  BY DEF q
<1>6. Replaces(t, n, g)  BY <1>1, <1>2, <1>4, <1>5, Replace
<1>7. QED  BY <1>6 DEF g

LEMMA IgnoredStep ==
  ASSUME RegInv, ConInv, NEW t \in Threads, CInit(t) \/ InitIgnored(t)
  PROVE  ConInv'
<1>1. SUFFICES ASSUME NEW n, n = Len(stack[t]), NEW f, f = stack[t][n],
                      NEW g, g = [f EXCEPT !.todo = Tail(f.todo), !.init = FALSE]
               PROVE  ConInv'
  OBVIOUS
<1>2. stack[t] # <<>> /\ f.todo # <<>> /\ ~(Head(f.todo) \in PyTypes /\ type[Head(f.todo)].flag)
      /\ stack' = Initialised(t) /\ UNCHANGED <<type, object, wrapper, tls, early>>
  BY <1>1, Names DEF CInit, InitIgnored, Initialising, Top, regVars
<1>3. f \in Frame /\ FrameOK(f, object, wrapper, tls[t], early, type)  BY <1>1, <1>2, TopOK
<1>4. ~f.init  BY <1>2, <1>3 DEF FrameOK
<1>5. Replaces(t, n, g)  BY <1>1, <1>2, <1>4, Initialises
<1>6. Tail(f.todo) = <<>> => ~(object[f.object].type \in PyTypes /\ type[object[f.object].type].flag)
  <2>1. f.todo[Len(f.todo)] = object[f.object].type  BY <1>2, <1>3 DEF FrameOK
  <2>2. Tail(f.todo) = <<>> => Head(f.todo) = f.todo[Len(f.todo)]  BY <1>2, <1>3, Tailed
  <2>3. QED  BY <1>2, <2>1, <2>2
<1>7. QED  BY <1>1, <1>2, <1>5, <1>6, TailStep

LEMMA ReturnsStep ==
  ASSUME ConInv, NEW t \in Threads, InitReturns(t)
  PROVE  ConInv'
<1>1. SUFFICES ASSUME NEW n, n = Len(stack[t]), NEW f, f = stack[t][n],
                      NEW g, g = [f EXCEPT !.todo = Tail(f.todo), !.init = FALSE]
               PROVE  ConInv'
  OBVIOUS
<1>2. stack[t] # <<>> /\ f.init /\ UNCHANGED <<type, object, wrapper, tls, early>>
  BY <1>1 DEF InitReturns, Top, regVars
<1>3. f \in Frame /\ FrameOK(f, object, wrapper, tls[t], early, type) /\ ConTyped
  BY <1>1, <1>2, TopOK DEF ConInv
<1>4. f.todo # <<>> /\ object[f.object].wrapper # Null  BY <1>2, <1>3 DEF FrameOK
<1>5. Replaces(t, n, g)
  <2> DEFINE q == [stack[t] EXCEPT ![n] = g]
             h == [f EXCEPT !.init = FALSE]
             p == [stack[t] EXCEPT ![n] = h]
             s == [stack EXCEPT ![t] = p]
  <2>1. g \in Frame  BY <1>1, <1>3, <1>4, Tailed
  <2>2. [h EXCEPT !.todo = Tail(h.todo)] = g  BY <1>1
  <2>3. stack' = [s EXCEPT ![t] = [s[t] EXCEPT ![n] = [s[t][n] EXCEPT !.todo = Tail(s[t][n].todo)]]]
    BY <1>1 DEF InitReturns
  <2>6. stack' = [s EXCEPT ![t] = [p EXCEPT ![n] = g]]  BY <2>2, <2>3
  <2>8. stack' = [stack EXCEPT ![t] = q]  BY <2>6
  <2> HIDE DEF q
  <2>9. q = [stack[t] EXCEPT ![n] = g]  BY DEF q
  <2>10. QED  BY <1>1, <1>2, <1>3, <2>1, <2>8, <2>9, Replace
<1>6. QED  BY <1>1, <1>2, <1>4, <1>5, TailStep

(* A wrapper that waits for its object is taken over by the innermost one, or
   the innermost one has a wrapper already.                                *)
LEMMA KnownStep ==
  ASSUME RegInv, ConInv, NEW t \in Threads, InitKnown(t)
  PROVE  ConInv'
<1>1. SUFFICES ASSUME NEW n, n = Len(stack[t]), NEW f, f = stack[t][n],
                      NEW g, g = [f EXCEPT !.todo = Tail(f.todo), !.init = FALSE],
                      NEW o, o = f.object, NEW w, w = tls[t]
               PROVE  ConInv'
  OBVIOUS
<1>2. ConTyped /\ FlagsOK /\ FramesOK /\ Unique /\ WaitingOK /\ ObjectsOK /\ WrappersOK  BY DEF ConInv
<1>3. /\ stack[t] # <<>> /\ f.todo # <<>> /\ ~f.init
      /\ {object[o].wrapper, w} # {Null} /\ stack' = Initialised(t)
      /\ object' = [object EXCEPT ![o].wrapper = IF TakesOver(o, w) THEN w ELSE @]
      /\ wrapper' = IF TakesOver(o, w) THEN [wrapper EXCEPT ![w].obj = o] ELSE wrapper
      /\ tls' = [tls EXCEPT ![t] = Null] /\ type' = type /\ early' = early
  BY <1>1 DEF InitKnown, Initialising, Top, Cleared, regVars
<1>4. /\ n \in Nat /\ n \in 1..n /\ f \in Frame
      /\ o \in Objects /\ f.wrapper \in Wrappers \cup {Null}
      /\ FrameOK(f, object, wrapper, tls[t], early, type)
      /\ \A u \in Threads : \A i \in 1..Len(stack[u]) : u # t \/ i # n =>
              /\ stack[u][i].object # o
              /\ f.wrapper # Null => stack[u][i].wrapper # f.wrapper
  BY <1>1, <1>3, TopOK
<1>5. Replaces(t, n, g)  BY <1>1, <1>3, Initialises
<1>6. /\ stack' \in [Threads -> Seq(Frame)] /\ \A u \in Threads \ {t} : stack'[u] = stack[u]
      /\ Len(stack'[t]) = n /\ stack'[t][n] = g /\ \A i \in 1..(n - 1) : stack'[t][i] = stack[t][i]
  BY <1>5 DEF Replaces
<1>7. g.object = o /\ g.wrapper = f.wrapper /\ g.todo = Tail(f.todo) /\ g.init = FALSE
  BY <1>1
<1>8. \A u \in Threads : \A i \in 1..Len(stack'[u]) :
        /\ i \in 1..Len(stack[u]) /\ stack'[u][i].object = stack[u][i].object
        /\ stack'[u][i].wrapper = stack[u][i].wrapper
        /\ u # t \/ i # n => stack'[u][i] = stack[u][i]
  <2>1. stack'[t][n].object = stack[t][n].object /\ stack'[t][n].wrapper = stack[t][n].wrapper
    BY <1>1, <1>6
  <2>3. \A i \in 1..n : stack'[t][i].object = stack[t][i].object /\ stack'[t][i].wrapper = stack[t][i].wrapper
    BY <1>6, <2>1
  <2>4. QED  BY <1>1, <1>6, <2>3
<1>9. object \in [Objects -> ObjectRecord] /\ wrapper \in [Wrappers -> WrapperRecord]
      /\ tls \in [Threads -> Wrappers \cup {Null}]
  BY <1>2 DEF ConTyped
<1>10. CASE w = Null
  <2>1. object[o].wrapper # Null  BY <1>3, <1>10
  <2>2. object' = object /\ wrapper' = wrapper /\ tls' = tls
    BY <1>1, <1>3, <1>4, <1>9, <1>10 DEF TakesOver, ObjectRecord
  <2>3. QED  BY <1>1, <1>3, <1>5, <2>1, <2>2, TailStep
<1>11. CASE w # Null
  <2>1. w \in Wrappers /\ wrapper[w].obj = Null  BY <1>1, <1>2, <1>11, Waiting
  <2>2. PICK i \in 1..Len(stack[t]) :
          /\ stack[t][i].wrapper = w /\ object[stack[t][i].object].wrapper = Null
          /\ \A j \in (i + 1)..Len(stack[t]) : stack[t][j].wrapper = Null
          /\ i < Len(stack[t]) => w \in early
    BY <1>1, <1>2, <1>11, Waiting
  <2>3. f.wrapper = w \/ (f.wrapper = Null /\ w \in early)
    <3>1. CASE i = n  BY <1>1, <2>2
    <3>2. CASE i # n
      <4>2. QED  BY <1>1, <2>2
    <3>3. QED  BY <3>1, <3>2
  <2>4. object[o].wrapper # Null => w \in early
    <3>3. QED  BY <1>1, <2>2
  <2>5. \A u \in Threads : \A j \in 1..Len(stack[u]) : stack[u][j].wrapper = w => u = t /\ j = i
    BY <1>2, <2>2, <1>11 DEF Unique
  <2>6. object[o].for = f.wrapper  BY <1>1, <1>4 DEF FrameOK
  <2> DEFINE take == object[o].wrapper = Null
  <2>7. /\ \A x \in Objects : /\ object'[x].type = object[x].type /\ object'[x].for = object[x].for
                               /\ object'[x].inits = object[x].inits
                               /\ object'[x].wrapper = IF take /\ x = o THEN w ELSE object[x].wrapper
        /\ object' \in [Objects -> ObjectRecord]
    <3>1. CASE take
      <4>1. object' = [object EXCEPT ![o].wrapper = w]  BY <1>3, <1>11, <2>1, <3>1 DEF TakesOver
      <4>2. QED  BY <1>4, <1>9, <2>1, <3>1, <4>1 DEF ObjectRecord
    <3>2. CASE ~take
      <4>1. object' = object  BY <1>3, <1>9, <3>2 DEF TakesOver, ObjectRecord
      <4>2. QED  BY <1>9, <3>2, <4>1
    <3>3. QED  BY <3>1, <3>2
  <2>8. /\ \A v \in Wrappers : /\ wrapper'[v].class = wrapper[v].class
                                /\ wrapper'[v].obj = IF take /\ v = w THEN o ELSE wrapper[v].obj
        /\ wrapper' \in [Wrappers -> WrapperRecord]
        /\ \A v \in Wrappers \ {w} : wrapper'[v] = wrapper[v]
    BY <1>3, <1>4, <1>9, <2>1 DEF TakesOver, WrapperRecord
  <2>9. tls' \in [Threads -> Wrappers \cup {Null}] /\ tls'[t] = Null
        /\ \A u \in Threads \ {t} : tls'[u] = tls[u]
    BY <1>3, <1>9
  <2>10. ConTyped'  BY <1>2, <1>3, <1>6, <2>7, <2>8 DEF ConTyped
  <2>11. FlagsOK' /\ Unique'  BY <1>2, <1>3, <1>8, UniqueKept DEF FlagsOK, Made
  <2>12. FramesOK'
    <3>1. ASSUME NEW u \in Threads, NEW j \in 1..Len(stack[u])
          PROVE  FrameOK(stack[u][j], object', wrapper', tls'[u], early', type')
      <4>1. SUFFICES ASSUME NEW h, h = stack[u][j]  PROVE FrameOK(h, object', wrapper', tls'[u], early', type')
        OBVIOUS
      <4>2. FrameOK(h, object, wrapper, tls[u], early, type) /\ h.object \in Objects
            /\ h.wrapper \in Wrappers \cup {Null}
        BY <1>2, <4>1, Frames DEF FramesOK
      <4>3. CASE h.wrapper # w
        <5>1. h.wrapper # Null => wrapper'[h.wrapper] = wrapper[h.wrapper]  BY <2>8, <4>2, <4>3
        <5>2. tls[u] = h.wrapper => tls'[u] = h.wrapper  BY <1>1, <2>9, <4>3
        <5>3. object'[h.object].type = object[h.object].type /\ object'[h.object].for = object[h.object].for
              /\ (object[h.object].wrapper # Null => object'[h.object].wrapper # Null)
          BY <2>7, <4>2
        <5>4. Kept(h, tls[u], tls'[u])  BY <1>3, <4>2, <5>1, <5>2, <5>3 DEF Kept
        <5>5. QED  BY <5>4, FrameKept
      <4>4. CASE h.wrapper = w
        <5>1. u = t /\ j = i  BY <2>5, <4>1, <4>4
        <5>2. w \in early \/ h.object = o
          <6>1. i = n => h = f  BY <1>1, <4>1, <5>1
          <6>3. QED  BY <1>1, <2>2, <6>1
        <5>3. object'[h.object].type = object[h.object].type /\ object'[h.object].for = object[h.object].for
              /\ (object[h.object].wrapper # Null => object'[h.object].wrapper # Null)
          BY <2>7, <4>2
        <5>4. wrapper'[w].class = wrapper[w].class /\ wrapper'[w].obj = (IF take THEN o ELSE Null)
          BY <2>1, <2>8
        <5>5. wrapper'[w].obj = Null => w \in early  BY <1>4, <2>4, <5>4, ConstructionAssumption
        <5>6. QED  BY <1>3, <4>2, <4>4, <5>2, <5>3, <5>5 DEF FrameOK
      <4>5. QED  BY <4>3, <4>4
    <3>2. FrameOK(g, object', wrapper', tls'[t], early', type')
      <4>1. FrameOK(f, object', wrapper', tls'[t], early', type')  BY <1>1, <3>1
      <4>2. Tail(f.todo) # <<>> => Tail(f.todo)[Len(Tail(f.todo))] = f.todo[Len(f.todo)]  BY <1>3, <1>4, Tailed
      <4> DEFINE q == Tail(f.todo)
      <4> HIDE DEF q
      <4>3. g.todo = q /\ (q # <<>> => q[Len(q)] = f.todo[Len(f.todo)])  BY <1>7, <4>2 DEF q
      <4>4. QED  BY <1>1, <1>3, <1>7, <4>1, <4>3 DEF FrameOK
    <3>3. ASSUME NEW u \in Threads, NEW j \in 1..Len(stack'[u])
          PROVE  FrameOK(stack'[u][j], object', wrapper', tls'[u], early', type')
      <4>1. CASE u # t \/ j # n  BY <1>8, <3>1, <4>1
      <4>2. CASE u = t /\ j = n  BY <1>6, <3>2, <4>2
      <4>3. QED  BY <4>1, <4>2
    <3>4. QED  BY <3>3 DEF FramesOK
  <2>13. WaitingOK'
    <3>1. ASSUME NEW u \in Threads, tls'[u] # Null
          PROVE  wrapper'[tls'[u]].obj = Null /\ Waits(stack'[u], tls'[u], object', early')
      <4>1. u \in Threads \ {t} /\ tls'[u] = tls[u] /\ tls[u] # Null /\ stack'[u] = stack[u]
        BY <1>6, <2>9, <3>1
      <4>2. Untouched(u, o)  BY <1>3, <1>4, <4>1 DEF Untouched
      <4>3. /\ wrapper[tls[u]].obj = Null /\ Waits(stack'[u], tls[u], object', early')
            /\ \E j \in 1..Len(stack[u]) : stack[u][j].wrapper = tls[u]
        BY <1>2, <4>1, <4>2, OthersWait
      <4>4. tls[u] # w /\ tls[u] \in Wrappers  BY <1>9, <2>5, <4>1, <4>3
      <4>5. QED  BY <2>8, <4>1, <4>3, <4>4
    <3>2. QED  BY <3>1 DEF WaitingOK
  <2>14. ObjectsOK'
    <3>1. ASSUME NEW x \in Objects, object[x].type \in PyTypes, type[object[x].type].flag,
                 object'[x].wrapper = Null
          PROVE  \E u \in Threads : \E j \in 1..Len(stack'[u]) : stack'[u][j].object = x /\ stack'[u][j].todo # <<>>
      <4>1. x # o /\ object[x].wrapper = Null  BY <1>11, <2>7, <3>1
      <4>2. PICK u \in Threads : \E j \in 1..Len(stack[u]) : stack[u][j].object = x /\ stack[u][j].todo # <<>>
        BY <1>2, <3>1, <4>1 DEF ObjectsOK
      <4>3. PICK j \in 1..Len(stack[u]) : stack[u][j].object = x /\ stack[u][j].todo # <<>>  BY <4>2
      <4>4. u # t \/ j # n  BY <1>1, <4>1, <4>3
      <4>5. j \in 1..Len(stack'[u])  BY <1>1, <1>6
      <4>6. stack'[u][j] = stack[u][j]  BY <1>8, <4>4, <4>5
      <4>7. QED  BY <4>3, <4>5, <4>6
    <3>2. ASSUME NEW x \in Objects, object'[x].wrapper # Null, early = {}
          PROVE  object[x].inits = IF object[x].for = Null THEN 1 ELSE 0
      <4>1. CASE object[x].wrapper # Null  BY <1>2, <3>2, <4>1 DEF ObjectsOK
      <4>2. CASE object[x].wrapper = Null
        <5>1. x = o /\ object[x].inits = 0  BY <1>2, <2>7, <3>2, <4>2 DEF ObjectsOK
        <5>2. object[x].for = w  BY <2>3, <2>6, <3>2, <5>1
        <5>3. QED  BY <1>11, <5>1, <5>2
      <4>3. QED  BY <4>1, <4>2
    <3>3. ASSUME NEW x \in Objects
          PROVE  /\ object[x].type = Null => object'[x].wrapper = Null /\ object[x].for = Null
                 /\ object[x].type # Null => Made(object[x].type)'
                 /\ object'[x].wrapper = Null => object[x].inits = 0
      <4>1. object[o].type # Null  BY <1>1, <1>4 DEF FrameOK
      <4>2. QED  BY <1>2, <1>3, <1>11, <4>1 DEF ObjectsOK, Made
    <3>4. QED  BY <1>3, <3>1, <3>2, <3>3 DEF ObjectsOK
  <2>15. WrappersOK'
    <3>1. ASSUME NEW x \in Objects, NEW v \in Wrappers, wrapper'[v].obj = x
          PROVE  \/ object'[x].for \in early
                 \/ /\ object'[x].wrapper = v /\ object'[x].for \in {Null, v}
                    /\ object'[x].for = Null /\ object'[x].inits = 0 => v \in early
      <4>1. CASE take /\ v = w
        <5>1. x = o  BY <2>8, <3>1, <4>1
        <5>2. object'[x].wrapper = v /\ object'[x].for = f.wrapper  BY <2>6, <2>7, <4>1, <5>1
        <5>3. QED  BY <1>11, <2>3, <4>1, <5>2
      <4>2. CASE ~(take /\ v = w)
        <5>1. wrapper[v].obj = x  BY <2>8, <3>1, <4>2
        <5>2. \/ object[x].for \in early
              \/ /\ object[x].wrapper = v /\ object[x].for \in {Null, v}
                 /\ object[x].for = Null /\ object[x].inits = 0 => v \in early
          BY <1>2, <5>1 DEF WrappersOK
        <5>3. object[x].wrapper = v => object'[x].wrapper = v  BY <2>7, ConstructionAssumption
        <5>4. QED  BY <2>7, <5>2, <5>3
      <4>3. QED  BY <4>1, <4>2
    <3>2. QED  BY <1>3, <3>1 DEF WrappersOK
  <2>16. QED  BY <2>10, <2>11, <2>12, <2>13, <2>14, <2>15 DEF ConInv
<1>12. QED  BY <1>10, <1>11

(* An object of native code's gets a wrapper, and its __init__ is called.  *)
LEMMA NewStep ==
  ASSUME RegInv, ConInv, NEW t \in Threads, NEW w \in Wrappers, InitNew(t, w)
  PROVE  ConInv'
<1>1. SUFFICES ASSUME NEW n, n = Len(stack[t]), NEW f, f = stack[t][n],
                      NEW g, g = [f EXCEPT !.init = TRUE], NEW o, o = f.object,
                      NEW k, k = type[object[o].type].class
               PROVE  ConInv'
  OBVIOUS
<1>2. ConTyped /\ FlagsOK /\ FramesOK /\ Unique /\ WaitingOK /\ ObjectsOK /\ WrappersOK  BY DEF ConInv
<1>3. /\ stack[t] # <<>> /\ f.todo # <<>>
      /\ Head(f.todo) \in PyTypes /\ type[Head(f.todo)].flag
      /\ object[o].wrapper = Null /\ tls[t] = Null /\ wrapper[w] = NoWrapper
      /\ wrapper' = [wrapper EXCEPT ![w] = [class |-> k, obj |-> o]]
      /\ object' = [object EXCEPT ![o].wrapper = w, ![o].inits = @ + 1]
      /\ stack' = [stack EXCEPT ![t][n].init = TRUE]
      /\ tls' = tls /\ type' = type /\ early' = early
  BY <1>1 DEF InitNew, Initialising, Top, regVars
<1>4. /\ n \in Nat /\ n \in 1..n /\ f \in Frame
      /\ o \in Objects /\ f.wrapper \in Wrappers \cup {Null}
      /\ FrameOK(f, object, wrapper, tls[t], early, type) /\ object[o].type \in Types
      /\ \A u \in Threads : \A i \in 1..Len(stack[u]) : u # t \/ i # n =>
              /\ stack[u][i].object # o
              /\ f.wrapper # Null => stack[u][i].wrapper # f.wrapper
  <2>1. stack[t] # <<>>  BY <1>3
  <2>2. QED  BY <1>1, <2>1, TopOK
<1>5. g \in Frame /\ g.object = o /\ g.wrapper = f.wrapper /\ g.todo = f.todo /\ g.init = TRUE
  BY <1>1, <1>4 DEF Frame
<1>6. Replaces(t, n, g)
  <2> DEFINE q == [stack[t] EXCEPT ![n] = g]
  <2>1. stack' = [stack EXCEPT ![t] = q]  BY <1>1, <1>3
  <2> HIDE DEF q
  <2>2. q = [stack[t] EXCEPT ![n] = g]  BY DEF q
  <2>3. QED  BY <1>1, <1>2, <1>3, <1>5, <2>1, <2>2, Replace
<1>7. /\ stack' \in [Threads -> Seq(Frame)] /\ \A u \in Threads \ {t} : stack'[u] = stack[u]
      /\ Len(stack'[t]) = n /\ stack'[t][n] = g /\ \A i \in 1..(n - 1) : stack'[t][i] = stack[t][i]
  BY <1>6 DEF Replaces
<1>8. \A u \in Threads : \A i \in 1..Len(stack'[u]) :
        /\ i \in 1..Len(stack[u]) /\ stack'[u][i].object = stack[u][i].object
        /\ stack'[u][i].wrapper = stack[u][i].wrapper /\ stack'[u][i].todo = stack[u][i].todo
        /\ u # t \/ i # n => stack'[u][i] = stack[u][i]
  <2>1. stack'[t][n].object = stack[t][n].object /\ stack'[t][n].wrapper = stack[t][n].wrapper
        /\ stack'[t][n].todo = stack[t][n].todo
    BY <1>1, <1>7
  <2>3. \A i \in 1..n : stack'[t][i].object = stack[t][i].object /\ stack'[t][i].wrapper = stack[t][i].wrapper
                        /\ stack'[t][i].todo = stack[t][i].todo
    BY <1>7, <2>1
  <2>4. QED  BY <1>1, <1>7, <2>3
<1>9. object \in [Objects -> ObjectRecord] /\ wrapper \in [Wrappers -> WrapperRecord]
      /\ tls \in [Threads -> Wrappers \cup {Null}]
  BY <1>2 DEF ConTyped
<1>10. /\ \A x \in Objects : /\ object'[x].type = object[x].type /\ object'[x].for = object[x].for
                              /\ object'[x].wrapper = IF x = o THEN w ELSE object[x].wrapper
       /\ \A x \in Objects \ {o} : object'[x] = object[x]
       /\ object'[o].inits = object[o].inits + 1
       /\ object' \in [Objects -> ObjectRecord]
  <2>1. SUFFICES ASSUME NEW b, b = object[o], NEW i, i = b.inits + 1,
                        NEW r, r = [b EXCEPT !.wrapper = w, !.inits = i]
                 PROVE  <1>10!1 /\ <1>10!2 /\ <1>10!3 /\ <1>10!4
    OBVIOUS
  <2>2. b \in ObjectRecord  BY <1>4, <1>9, <2>1
  <2>3. object' = [object EXCEPT ![o] = r]  BY <1>3, <2>1
  <2>4. r \in ObjectRecord /\ r.type = b.type /\ r.for = b.for /\ r.wrapper = w /\ r.inits = i
    <3>1. b.inits \in Nat  BY <2>2 DEF ObjectRecord
    <3>2. i \in Nat  BY <2>1, <3>1
    <3>3. QED  BY <2>1, <2>2, <3>2 DEF ObjectRecord
  <2>5. QED  BY <1>4, <1>9, <2>1, <2>3, <2>4
<1>11. w # Null /\ wrapper[w].class = Null /\ wrapper[w].obj = Null /\ o # Null
  BY <1>3, <1>4, ConstructionAssumption DEF NoWrapper
<1>12. /\ \A v \in Wrappers : wrapper'[v].obj = IF v = w THEN o ELSE wrapper[v].obj
       /\ wrapper' \in [Wrappers -> WrapperRecord]
       /\ \A v \in Wrappers \ {w} : wrapper'[v] = wrapper[v]
  <2>1. k \in Classes \cup {Null}  BY <1>1, <1>4, Fields DEF RegInv
  <2>2. QED  BY <1>3, <1>4, <1>9, <2>1 DEF WrapperRecord
<1>13. \A u \in Threads : \A i \in 1..Len(stack[u]) : stack[u][i].wrapper # w
  BY <1>2, <1>11 DEF FramesOK, FrameOK
<1>14. object[o].for = f.wrapper /\ object[o].inits = 0  BY <1>1, <1>2, <1>3, <1>4 DEF FrameOK, ObjectsOK
<1>15. f.wrapper # Null => f.wrapper \in early
  <2>1. SUFFICES ASSUME f.wrapper # Null, f.wrapper \notin early  PROVE FALSE  OBVIOUS
  <2>2. wrapper[f.wrapper].obj = o  BY <1>1, <1>3, <1>4, <2>1 DEF FrameOK
  <2>3. object[o].for \in early \/ object[o].wrapper = f.wrapper  BY <1>2, <1>4, <2>1, <2>2 DEF WrappersOK
  <2>4. QED  BY <1>3, <1>14, <2>1, <2>3
<1>16. ConTyped'  BY <1>2, <1>3, <1>7, <1>10, <1>12 DEF ConTyped
<1>17. FlagsOK' /\ Unique'  BY <1>2, <1>3, UniqueKept DEF FlagsOK, Made
<1>18. FramesOK'
  <2>1. ASSUME NEW u \in Threads, NEW j \in 1..Len(stack[u])
        PROVE  FrameOK(stack[u][j], object', wrapper', tls'[u], early', type')
    <3>1. SUFFICES ASSUME NEW h, h = stack[u][j]  PROVE FrameOK(h, object', wrapper', tls'[u], early', type')
      OBVIOUS
    <3>2. FrameOK(h, object, wrapper, tls[u], early, type) /\ h.object \in Objects
          /\ h.wrapper \in Wrappers \cup {Null}
      BY <1>2, <3>1, Frames DEF FramesOK
    <3>3. h.wrapper # Null => wrapper'[h.wrapper] = wrapper[h.wrapper]  BY <1>12, <1>13, <3>1, <3>2
    <3>4. object'[h.object].type = object[h.object].type /\ object'[h.object].for = object[h.object].for
          /\ (object[h.object].wrapper # Null => object'[h.object].wrapper # Null)
      BY <1>10, <1>11, <3>2
    <3>5. Kept(h, tls[u], tls'[u])  BY <1>3, <3>2, <3>3, <3>4 DEF Kept
    <3>6. QED  BY <3>5, FrameKept
  <2>2. FrameOK(g, object', wrapper', tls'[t], early', type')
    <3>1. FrameOK(f, object', wrapper', tls'[t], early', type')  BY <1>1, <1>4, <2>1
    <3>2. object'[o].wrapper # Null  BY <1>4, <1>10, <1>11
    <3>3. QED  BY <1>1, <1>3, <1>5, <3>1, <3>2 DEF FrameOK
  <2>3. ASSUME NEW u \in Threads, NEW j \in 1..Len(stack'[u])
        PROVE  FrameOK(stack'[u][j], object', wrapper', tls'[u], early', type')
    <3>1. CASE u # t \/ j # n  BY <1>8, <2>1, <3>1
    <3>2. CASE u = t /\ j = n  BY <1>7, <2>2, <3>2
    <3>3. QED  BY <3>1, <3>2
  <2>4. QED  BY <2>3 DEF FramesOK
<1>19. WaitingOK'
  <2>1. ASSUME NEW u \in Threads, tls'[u] # Null
        PROVE  wrapper'[tls'[u]].obj = Null /\ Waits(stack'[u], tls'[u], object', early')
    <3>1. u \in Threads \ {t} /\ tls'[u] = tls[u] /\ tls[u] # Null /\ stack'[u] = stack[u]
      BY <1>3, <2>1
    <3>2. Untouched(u, o)  BY <1>3, <1>4, <1>10, <3>1 DEF Untouched
    <3>3. /\ wrapper[tls[u]].obj = Null /\ Waits(stack'[u], tls[u], object', early')
          /\ \E j \in 1..Len(stack[u]) : stack[u][j].wrapper = tls[u]
      BY <1>2, <3>1, <3>2, OthersWait
    <3>4. tls[u] # w /\ tls[u] \in Wrappers  BY <1>9, <1>13, <3>1, <3>3
    <3>5. QED  BY <1>12, <3>1, <3>3, <3>4
  <2>2. QED  BY <2>1 DEF WaitingOK
<1>20. ObjectsOK'
  <2>1. ASSUME NEW x \in Objects, object[x].type \in PyTypes, type[object[x].type].flag,
               object'[x].wrapper = Null
        PROVE  \E u \in Threads : \E j \in 1..Len(stack'[u]) : stack'[u][j].object = x /\ stack'[u][j].todo # <<>>
    <3>1. x # o /\ object[x].wrapper = Null  BY <1>10, <1>11, <2>1
    <3>2. PICK u \in Threads : \E j \in 1..Len(stack[u]) : stack[u][j].object = x /\ stack[u][j].todo # <<>>
      BY <1>2, <2>1, <3>1 DEF ObjectsOK
    <3>3. PICK j \in 1..Len(stack[u]) : stack[u][j].object = x /\ stack[u][j].todo # <<>>  BY <3>2
    <3>4. u # t \/ j # n  BY <1>1, <3>1, <3>3
    <3>5. j \in 1..Len(stack'[u])  BY <1>1, <1>7
    <3>6. stack'[u][j] = stack[u][j]  BY <1>8, <3>4, <3>5
    <3>7. QED  BY <3>3, <3>5, <3>6
  <2>2. ASSUME NEW x \in Objects, object'[x].wrapper # Null, early = {}
        PROVE  object'[x].inits = IF object[x].for = Null THEN 1 ELSE 0
    <3>1. CASE x # o  BY <1>2, <1>10, <2>2, <3>1 DEF ObjectsOK
    <3>2. CASE x = o  BY <1>10, <1>14, <1>15, <2>2, <3>2
    <3>3. QED  BY <3>1, <3>2
  <2>3. ASSUME NEW x \in Objects
        PROVE  /\ object[x].type = Null => object'[x].wrapper = Null /\ object[x].for = Null
               /\ object[x].type # Null => Made(object[x].type)'
               /\ object'[x].wrapper = Null => object'[x].inits = 0
    <3>1. object[o].type # Null  BY <1>1, <1>4 DEF FrameOK
    <3>2. QED  BY <1>2, <1>3, <1>10, <1>11, <3>1 DEF ObjectsOK, Made
  <2>4. QED  BY <1>3, <1>10, <2>1, <2>2, <2>3 DEF ObjectsOK, Made
<1>21. WrappersOK'
  <2>1. ASSUME NEW x \in Objects, NEW v \in Wrappers, wrapper'[v].obj = x
        PROVE  \/ object'[x].for \in early
               \/ /\ object'[x].wrapper = v /\ object'[x].for \in {Null, v}
                  /\ object'[x].for = Null /\ object'[x].inits = 0 => v \in early
    <3>1. CASE v = w
      <4>1. x = o  BY <1>12, <2>1, <3>1
      <4>2. object'[x].wrapper = v /\ object'[x].for = f.wrapper /\ object'[x].inits = 1
        BY <1>10, <1>14, <3>1, <4>1
      <4>3. QED  BY <1>15, <4>2
    <3>2. CASE v # w
      <4>1. wrapper[v].obj = x  BY <1>12, <2>1, <3>2
      <4>2. \/ object[x].for \in early
            \/ /\ object[x].wrapper = v /\ object[x].for \in {Null, v}
               /\ object[x].for = Null /\ object[x].inits = 0 => v \in early
        BY <1>2, <4>1 DEF WrappersOK
      <4>3. object[x].wrapper = v => x # o  BY <1>3, ConstructionAssumption
      <4>4. QED  BY <1>10, <4>2, <4>3
    <3>3. QED  BY <3>1, <3>2
  <2>2. QED  BY <1>3, <2>1 DEF WrappersOK
<1>22. QED  BY <1>16, <1>17, <1>18, <1>19, <1>20, <1>21 DEF ConInv

(* g_object_newv returns, to pygobject_constructv or to native code.       *)
LEMMA EndStep ==
  ASSUME ConInv, NEW t \in Threads, EndPython(t) \/ EndNative(t)
  PROVE  ConInv'
<1>1. SUFFICES ASSUME NEW n, n = Len(stack[t]), NEW f, f = stack[t][n],
                      NEW o, o = f.object, NEW w, w = f.wrapper
               PROVE  ConInv'
  OBVIOUS
<1> DEFINE take == w # Null /\ wrapper[w].obj = Null
<1>2. ConTyped /\ FlagsOK /\ FramesOK /\ Unique /\ WaitingOK /\ ObjectsOK /\ WrappersOK  BY DEF ConInv
<1>3. /\ stack[t] # <<>> /\ f.todo = <<>> /\ type' = type /\ early' = early
      /\ stack' = [stack EXCEPT ![t] = Below(t)]
      /\ \/ w # Null /\ tls' = [tls EXCEPT ![t] = Null]
            /\ wrapper' = [wrapper EXCEPT ![w].obj = IF @ = Null THEN o ELSE @]
            /\ object' = IF wrapper[w].obj = Null THEN [object EXCEPT ![o].wrapper = w] ELSE object
         \/ w = Null /\ tls' = tls /\ wrapper' = wrapper /\ object' = object
  BY <1>1 DEF EndPython, EndNative, Top, regVars
<1>4. /\ n \in Nat /\ n \in 1..n /\ f \in Frame
      /\ o \in Objects /\ w \in Wrappers \cup {Null}
      /\ FrameOK(f, object, wrapper, tls[t], early, type)
      /\ \A u \in Threads : \A i \in 1..Len(stack[u]) : u # t \/ i # n =>
              /\ stack[u][i].object # o
              /\ w # Null => stack[u][i].wrapper # w
  BY <1>1, <1>3, TopOK
<1>5. Pops(t, n)  BY <1>1, <1>2, <1>3, Pop
<1>6. /\ stack' \in [Threads -> Seq(Frame)] /\ \A u \in Threads \ {t} : stack'[u] = stack[u]
      /\ Len(stack'[t]) = n - 1 /\ \A i \in 1..(n - 1) : stack'[t][i] = stack[t][i]
  BY <1>5 DEF Pops
<1>7. \A u \in Threads : \A i \in 1..Len(stack'[u]) :
        i \in 1..Len(stack[u]) /\ stack'[u][i] = stack[u][i] /\ (u # t \/ i # n)
  <2>2. QED  BY <1>1, <1>6
<1>8. object \in [Objects -> ObjectRecord] /\ wrapper \in [Wrappers -> WrapperRecord]
      /\ tls \in [Threads -> Wrappers \cup {Null}]
  BY <1>2 DEF ConTyped
<1>9. /\ \A x \in Objects : /\ object'[x].type = object[x].type /\ object'[x].for = object[x].for
                             /\ object'[x].inits = object[x].inits
                             /\ object'[x].wrapper = IF take /\ x = o THEN w ELSE object[x].wrapper
      /\ object' \in [Objects -> ObjectRecord]
  <2>1. CASE take
    <3>1. object' = [object EXCEPT ![o].wrapper = w]  BY <1>3, <2>1
    <3>2. QED  BY <1>4, <1>8, <2>1, <3>1 DEF ObjectRecord
  <2>2. CASE ~take
    <3>1. object' = object  BY <1>3, <2>2
    <3>2. QED  BY <1>8, <2>2, <3>1
  <2>3. QED  BY <2>1, <2>2
<1>10. /\ \A v \in Wrappers : /\ wrapper'[v].class = wrapper[v].class
                               /\ wrapper'[v].obj = IF take /\ v = w THEN o ELSE wrapper[v].obj
       /\ wrapper' \in [Wrappers -> WrapperRecord]
       /\ \A v \in Wrappers \ {w} : wrapper'[v] = wrapper[v]
  BY <1>3, <1>4, <1>8 DEF WrapperRecord
<1>11. /\ tls' \in [Threads -> Wrappers \cup {Null}] /\ \A u \in Threads \ {t} : tls'[u] = tls[u]
       /\ tls'[t] = IF w = Null THEN tls[t] ELSE Null
  BY <1>3, <1>8
<1>12. tls[t] # Null /\ w # Null => tls[t] = w
  <2>1. SUFFICES ASSUME tls[t] # Null, w # Null  PROVE tls[t] = w  OBVIOUS
  <2>2. PICK i \in 1..Len(stack[t]) :
          stack[t][i].wrapper = tls[t] /\ \A j \in (i + 1)..Len(stack[t]) : stack[t][j].wrapper = Null
    BY <1>2, <2>1, Waiting
  <2>3. CASE i = n  BY <1>1, <2>2, <2>3
  <2>4. CASE i # n
    <3>2. QED  BY <1>1, <2>1, <2>2
  <2>5. QED  BY <2>3, <2>4
<1>13. object[o].for = w /\ object[o].type # Null  BY <1>1, <1>4 DEF FrameOK
<1>14. ConTyped'  BY <1>2, <1>3, <1>6, <1>9, <1>10 DEF ConTyped
<1>15. FlagsOK'  BY <1>2, <1>3 DEF FlagsOK, Made
<1>16. Unique'
  <2>1. SUFFICES ASSUME NEW u \in Threads, NEW v \in Threads,
                        NEW i \in 1..Len(stack'[u]), NEW j \in 1..Len(stack'[v]),
                        \/ stack'[u][i].object = stack'[v][j].object
                        \/ stack'[u][i].wrapper = stack'[v][j].wrapper /\ stack'[u][i].wrapper # Null
                 PROVE  u = v /\ i = j
    BY DEF Unique
  <2>2. /\ i \in 1..Len(stack[u]) /\ stack'[u][i] = stack[u][i]
        /\ j \in 1..Len(stack[v]) /\ stack'[v][j] = stack[v][j]
    BY <1>7
  <2>3. QED  BY <1>2, <2>1, <2>2 DEF Unique
<1>17. FramesOK'
  <2>1. ASSUME NEW u \in Threads, NEW j \in 1..Len(stack'[u])
        PROVE  FrameOK(stack'[u][j], object', wrapper', tls'[u], early', type')
    <3>1. SUFFICES ASSUME NEW h, h = stack'[u][j]  PROVE FrameOK(h, object', wrapper', tls'[u], early', type')
      OBVIOUS
    <3>2. j \in 1..Len(stack[u]) /\ h = stack[u][j] /\ h.object # o /\ (w # Null => h.wrapper # w)
      BY <1>4, <1>7, <3>1
    <3>3. FrameOK(h, object, wrapper, tls[u], early, type) /\ h.object \in Objects
          /\ h.wrapper \in Wrappers \cup {Null}
      BY <1>2, <3>2, Frames DEF FramesOK
    <3>4. h.wrapper # Null => wrapper'[h.wrapper] = wrapper[h.wrapper]  BY <1>10, <3>2, <3>3
    <3>5. object'[h.object].type = object[h.object].type /\ object'[h.object].for = object[h.object].for
          /\ object'[h.object].wrapper = object[h.object].wrapper
      BY <1>9, <3>2, <3>3
    <3>6. h.wrapper # Null /\ tls[u] = h.wrapper => tls'[u] = h.wrapper  BY <1>11, <1>12, <3>2
    <3>7. Kept(h, tls[u], tls'[u])  BY <1>3, <3>3, <3>4, <3>5, <3>6 DEF Kept
    <3>8. QED  BY <3>7, FrameKept
  <2>2. QED  BY <2>1 DEF FramesOK
<1>18. WaitingOK'
  <2>1. ASSUME NEW u \in Threads \ {t}, tls'[u] # Null
        PROVE  wrapper'[tls'[u]].obj = Null /\ Waits(stack'[u], tls'[u], object', early')
    <3>1. tls'[u] = tls[u] /\ tls[u] # Null /\ stack'[u] = stack[u]  BY <1>6, <1>11, <2>1
    <3>2. Untouched(u, o)  BY <1>3, <1>4, <1>9, <3>1 DEF Untouched
    <3>3. /\ wrapper[tls[u]].obj = Null /\ Waits(stack'[u], tls[u], object', early')
          /\ \E j \in 1..Len(stack[u]) : stack[u][j].wrapper = tls[u]
      BY <1>2, <3>1, <3>2, OthersWait
    <3>4. tls[u] # w /\ tls[u] \in Wrappers  BY <1>4, <1>8, <3>1, <3>3
    <3>5. QED  BY <1>10, <3>1, <3>3, <3>4
  <2>2. ASSUME tls'[t] # Null
        PROVE  wrapper'[tls'[t]].obj = Null /\ Waits(stack'[t], tls'[t], object', early')
    <3>1. w = Null /\ tls'[t] = tls[t] /\ tls[t] # Null  BY <1>11, <2>2
    <3>3. PICK i \in 1..Len(stack[t]) :
            /\ stack[t][i].wrapper = tls[t] /\ object[stack[t][i].object].wrapper = Null
            /\ \A j \in (i + 1)..Len(stack[t]) : stack[t][j].wrapper = Null
            /\ i < Len(stack[t]) => tls[t] \in early
      BY <1>2, <3>1, Waiting
    <3>4. i # n  BY <1>1, <3>1, <3>3
    <3>5. i \in 1..(n - 1) /\ \A j \in (i + 1)..(n - 1) : j \in (i + 1)..n /\ j \in 1..(n - 1)
      BY <1>1, <3>4
    <3>6. tls[t] \in early  BY <1>1, <3>3, <3>5
    <3>7. stack'[t][i] = stack[t][i] /\ \A j \in (i + 1)..(n - 1) : stack'[t][j].wrapper = Null
      BY <1>1, <1>6, <3>3, <3>5
    <3>8. Waits(stack'[t], tls[t], object, early)  BY <1>6, <3>3, <3>5, <3>6, <3>7 DEF Waits
    <3>9. QED  BY <1>2, <1>3, <3>1, <3>8, Waiting
  <2>3. QED  BY <2>1, <2>2 DEF WaitingOK
<1>19. ObjectsOK'
  <2>1. ASSUME NEW x \in Objects, object[x].type \in PyTypes, type[object[x].type].flag,
               object'[x].wrapper = Null
        PROVE  \E u \in Threads : \E j \in 1..Len(stack'[u]) : stack'[u][j].object = x /\ stack'[u][j].todo # <<>>
    <3>1. object[x].wrapper = Null  BY <1>9, <2>1
    <3>2. PICK u \in Threads : \E j \in 1..Len(stack[u]) : stack[u][j].object = x /\ stack[u][j].todo # <<>>
      BY <1>2, <2>1, <3>1 DEF ObjectsOK
    <3>3. PICK j \in 1..Len(stack[u]) : stack[u][j].object = x /\ stack[u][j].todo # <<>>  BY <3>2
    <3>4. u # t \/ j # n  BY <1>1, <1>3, <3>3
    <3>5. j \in 1..Len(stack'[u])  BY <1>1, <1>6, <3>4
    <3>6. stack'[u][j] = stack[u][j]  BY <1>7, <3>5
    <3>7. QED  BY <3>3, <3>5, <3>6
  <2>2. ASSUME NEW x \in Objects, object'[x].wrapper # Null, early = {}
        PROVE  object[x].inits = IF object[x].for = Null THEN 1 ELSE 0
    <3>1. CASE object[x].wrapper # Null  BY <1>2, <2>2, <3>1 DEF ObjectsOK
    <3>2. CASE object[x].wrapper = Null
      <4>1. x = o /\ w # Null /\ object[x].inits = 0  BY <1>2, <1>9, <2>2, <3>2 DEF ObjectsOK
      <4>2. QED  BY <1>13, <4>1
    <3>3. QED  BY <3>1, <3>2
  <2>3. ASSUME NEW x \in Objects
        PROVE  /\ object[x].type = Null => object'[x].wrapper = Null /\ object[x].for = Null
               /\ object[x].type # Null => Made(object[x].type)'
               /\ object'[x].wrapper = Null => object[x].inits = 0
    BY <1>2, <1>3, <1>9, <1>13 DEF ObjectsOK, Made
  <2>4. QED  BY <1>3, <1>9, <2>1, <2>2, <2>3 DEF ObjectsOK
<1>20. WrappersOK'
  <2>1. ASSUME NEW x \in Objects, NEW v \in Wrappers, wrapper'[v].obj = x
        PROVE  \/ object'[x].for \in early
               \/ /\ object'[x].wrapper = v /\ object'[x].for \in {Null, v}
                  /\ object'[x].for = Null /\ object'[x].inits = 0 => v \in early
    <3>1. CASE take /\ v = w
      <4>1. x = o  BY <1>10, <2>1, <3>1
      <4>2. object'[x].wrapper = v /\ object'[x].for = v  BY <1>9, <1>13, <3>1, <4>1
      <4>3. QED  BY <3>1, <4>2
    <3>2. CASE ~(take /\ v = w)
      <4>1. wrapper[v].obj = x  BY <1>10, <2>1, <3>2
      <4>2. \/ object[x].for \in early
            \/ /\ object[x].wrapper = v /\ object[x].for \in {Null, v}
               /\ object[x].for = Null /\ object[x].inits = 0 => v \in early
        BY <1>2, <4>1 DEF WrappersOK
      <4>4. x = o /\ take => object[x].for = w /\ w # Null  BY <1>13
      <4>5. QED  BY <1>9, <4>2, <4>4
    <3>3. QED  BY <3>1, <3>2
  <2>2. QED  BY <1>3, <2>1 DEF WrappersOK
<1>21. QED  BY <1>14, <1>15, <1>16, <1>17, <1>18, <1>19, <1>20 DEF ConInv

(* A construction of an object for wrapper w, or for native code           *)
Started(t, o, gtype, w, g) ==
  /\ object[o].type = Null /\ gtype \in Types /\ Made(gtype)
  /\ object' = [object EXCEPT ![o].type = gtype, ![o].for = w]
  /\ g = [object |-> o, wrapper |-> w, todo |-> type[gtype].supers, init |-> FALSE]
  /\ stack' = [stack EXCEPT ![t] = Append(@, g)]
  /\ type' = type /\ early \subseteq early' /\ early' \subseteq Wrappers
  /\ w # Null => wrapper[w] = NoWrapper /\ wrapper'[w].class # Null
  /\ wrapper' \in [Wrappers -> WrapperRecord]
  /\ \A v \in Wrappers : wrapper'[v].obj = wrapper[v].obj /\ (v # w => wrapper'[v] = wrapper[v])
  /\ tls' \in [Threads -> Wrappers \cup {Null}] /\ \A u \in Threads \ {t} : tls'[u] = tls[u]
  /\ \/ w = Null /\ tls'[t] = tls[t] /\ (tls[t] = Null \/ tls[t] \in early')
     \/ w # Null /\ tls'[t] = w

LEMMA BeginStep ==
  ASSUME RegInv, ConInv, NEW t \in Threads, NEW o \in Objects, NEW gtype, NEW w \in Wrappers \cup {Null},
         NEW g, Started(t, o, gtype, w, g), RunsPython(t) \/ w = Null
  PROVE  ConInv'
<1>1. SUFFICES ASSUME NEW n, n = Len(stack[t])  PROVE ConInv'  OBVIOUS
<1>2. ConTyped /\ FlagsOK /\ FramesOK /\ Unique /\ WaitingOK /\ ObjectsOK /\ WrappersOK  BY DEF ConInv
<1>3. /\ object[o].type = Null /\ gtype \in Types /\ Made(gtype) /\ type' = type
      /\ object' = [object EXCEPT ![o].type = gtype, ![o].for = w]
      /\ g = [object |-> o, wrapper |-> w, todo |-> type[gtype].supers, init |-> FALSE]
      /\ stack' = [stack EXCEPT ![t] = Append(@, g)]
      /\ early \subseteq early' /\ early' \subseteq Wrappers
      /\ tls' \in [Threads -> Wrappers \cup {Null}] /\ wrapper' \in [Wrappers -> WrapperRecord]
      /\ \A u \in Threads \ {t} : tls'[u] = tls[u]
      /\ w # Null => wrapper[w].class = Null /\ wrapper[w].obj = Null /\ wrapper'[w].class # Null
      /\ \A v \in Wrappers : wrapper'[v].obj = wrapper[v].obj /\ (v # w => wrapper'[v] = wrapper[v])
      /\ \/ w = Null /\ tls'[t] = tls[t] /\ (tls[t] = Null \/ tls[t] \in early')
         \/ w # Null /\ tls'[t] = w
  BY DEF Started, NoWrapper
<1>4. type[gtype].supers \in Seq(Types) /\ type[gtype].supers # <<>>
      /\ type[gtype].supers[Len(type[gtype].supers)] = gtype /\ gtype # Null
  BY <1>3, Fields, Names DEF RegInv, TypesOK, Made
<1>5. /\ g \in Frame /\ g.object = o /\ g.wrapper = w /\ g.todo = type[gtype].supers /\ g.init = FALSE
  BY <1>3, <1>4 DEF Frame
<1>6. Pushes(t, n, g)  BY <1>1, <1>2, <1>3, <1>5, Push
<1>7. /\ stack' \in [Threads -> Seq(Frame)] /\ \A u \in Threads \ {t} : stack'[u] = stack[u]
      /\ Len(stack'[t]) = n + 1 /\ stack'[t][n + 1] = g /\ \A i \in 1..n : stack'[t][i] = stack[t][i]
  BY <1>6 DEF Pushes
<1>8. n \in Nat /\ n + 1 \in 1..(n + 1) /\ \A u \in Threads : \A i \in 1..Len(stack[u]) :
        i \in 1..Len(stack'[u]) /\ stack'[u][i] = stack[u][i]
  <2>3. QED  BY <1>1, <1>7
<1>9. \A u \in Threads : \A i \in 1..Len(stack'[u]) :
        \/ i \in 1..Len(stack[u]) /\ stack'[u][i] = stack[u][i]
        \/ u = t /\ i = n + 1 /\ stack'[u][i] = g
  <2>2. QED  BY <1>1, <1>7
<1>10. object \in [Objects -> ObjectRecord] /\ wrapper \in [Wrappers -> WrapperRecord]
      /\ tls \in [Threads -> Wrappers \cup {Null}] /\ early \subseteq Wrappers
  BY <1>2 DEF ConTyped
<1>11. /\ \A x \in Objects \ {o} : object'[x] = object[x]
       /\ object'[o].type = gtype /\ object'[o].for = w
       /\ object'[o].wrapper = object[o].wrapper /\ object'[o].inits = object[o].inits
       /\ object' \in [Objects -> ObjectRecord]
  <2>1. SUFFICES ASSUME NEW b, b = object[o], NEW r, r = [b EXCEPT !.type = gtype, !.for = w]
                 PROVE  <1>11!1 /\ <1>11!2 /\ <1>11!3 /\ <1>11!4
    OBVIOUS
  <2>2. b \in ObjectRecord  BY <1>10, <2>1
  <2>3. object' = [object EXCEPT ![o] = r]  BY <1>3, <2>1
  <2>4. r \in ObjectRecord /\ r.type = gtype /\ r.for = w /\ r.wrapper = b.wrapper /\ r.inits = b.inits
    BY <1>3, <2>1, <2>2 DEF ObjectRecord
  <2>5. QED  BY <1>10, <2>1, <2>3, <2>4
<1>12. object[o].wrapper = Null /\ object[o].for = Null /\ object[o].inits = 0
  BY <1>2, <1>3 DEF ObjectsOK
<1>13. \A u \in Threads : \A i \in 1..Len(stack[u]) :
         stack[u][i].object # o /\ (w # Null => stack[u][i].wrapper # w)
  BY <1>2, <1>3 DEF FramesOK, FrameOK
<1>14. ASSUME NEW i \in 1..Len(stack[t]), tls[t] # Null, stack[t][i].wrapper = tls[t], stack[t][i].todo # <<>>
       PROVE  tls[t] \in early'
  <2>1. CASE w = Null  BY <1>3, <1>14, <2>1
  <2>2. CASE w # Null
    <3>1. PICK j \in 1..Len(stack[t]) :
            /\ stack[t][j].wrapper = tls[t] /\ object[stack[t][j].object].wrapper = Null
            /\ j < Len(stack[t]) => tls[t] \in early
      BY <1>2, <1>14, Waiting
    <3>2. i = j  BY <1>2, <1>14, <3>1 DEF Unique
    <3>3. CASE j < n  BY <1>1, <1>3, <3>1, <3>3
    <3>4. CASE j = n
      <4>1. stack[t] # <<>> /\ Top(t) = stack[t][n]
        <5>2. QED  BY <1>1 DEF Top
      <4>2. stack[t][n].init  BY <1>14, <2>2, <3>2, <3>4, <4>1 DEF RunsPython, Initialising
      <4>3. FrameOK(stack[t][n], object, wrapper, tls[t], early, type)  BY <1>1, <1>2 DEF FramesOK
      <4>4. QED  BY <3>1, <3>4, <4>2, <4>3 DEF FrameOK
    <3>5. QED  BY <1>1, <3>3, <3>4
  <2>3. QED  BY <2>1, <2>2
<1>15. ConTyped'  BY <1>3, <1>7, <1>11 DEF ConTyped
<1>16. FlagsOK'  BY <1>2, <1>3 DEF FlagsOK, Made
<1>17. Unique'
  <2>1. SUFFICES ASSUME NEW u \in Threads, NEW v \in Threads, NEW i \in 1..Len(stack'[u]), NEW j \in 1..Len(stack'[v]),
                        \/ stack'[u][i].object = stack'[v][j].object
                        \/ stack'[u][i].wrapper = stack'[v][j].wrapper /\ stack'[u][i].wrapper # Null
                 PROVE  u = v /\ i = j
    BY DEF Unique
  <2>2. CASE i \in 1..Len(stack[u]) /\ stack'[u][i] = stack[u][i]
             /\ j \in 1..Len(stack[v]) /\ stack'[v][j] = stack[v][j]
    BY <1>2, <2>1, <2>2 DEF Unique
  <2>3. CASE i \in 1..Len(stack[u]) /\ stack'[u][i] = stack[u][i] /\ stack'[v][j] = g
    BY <1>5, <1>13, <2>1, <2>3
  <2>4. CASE stack'[u][i] = g /\ j \in 1..Len(stack[v]) /\ stack'[v][j] = stack[v][j]
    BY <1>5, <1>13, <2>1, <2>4
  <2>6. QED  BY <1>9, <2>2, <2>3, <2>4
<1>18. FramesOK'
  <2>1. ASSUME NEW u \in Threads, NEW j \in 1..Len(stack[u])
        PROVE  FrameOK(stack[u][j], object', wrapper', tls'[u], early', type')
    <3>1. SUFFICES ASSUME NEW h, h = stack[u][j]  PROVE FrameOK(h, object', wrapper', tls'[u], early', type')
      OBVIOUS
    <3>2. h.object # o /\ (w # Null => h.wrapper # w)  BY <1>13, <3>1
    <3>3. FrameOK(h, object, wrapper, tls[u], early, type) /\ h.object \in Objects
          /\ h.wrapper \in Wrappers \cup {Null}
      BY <1>2, <3>1, Frames DEF FramesOK
    <3>4. h.wrapper # Null => wrapper'[h.wrapper] = wrapper[h.wrapper]  BY <1>3, <3>2, <3>3
    <3>5. object'[h.object] = object[h.object]  BY <1>11, <3>2, <3>3
    <3>6. h.wrapper # Null /\ h.todo # <<>> /\ tls[u] = h.wrapper => tls'[u] = h.wrapper \/ h.wrapper \in early'
      BY <1>3, <1>14, <3>1
    <3>7. Kept(h, tls[u], tls'[u])  BY <1>3, <3>3, <3>4, <3>5, <3>6 DEF Kept
    <3>8. QED  BY <3>7, FrameKept
  <2>2. FrameOK(g, object', wrapper', tls'[t], early', type')
    <3> DEFINE q == type[gtype].supers
    <3> HIDE DEF q
    <3>2. w # Null => wrapper'[w].class # Null /\ wrapper'[w].obj = Null /\ tls'[t] = w  BY <1>3
    <3>3. QED  BY <1>4, <1>5, <1>11, <3>2 DEF FrameOK
  <2>3. QED  BY <1>9, <2>1, <2>2 DEF FramesOK
<1>19. WaitingOK'
  <2>1. ASSUME NEW u \in Threads \ {t}, tls'[u] # Null
        PROVE  wrapper'[tls'[u]].obj = Null /\ Waits(stack'[u], tls'[u], object', early')
    <3>1. tls'[u] = tls[u] /\ tls[u] # Null /\ stack'[u] = stack[u] /\ tls[u] \in Wrappers
      BY <1>3, <2>1
    <3>2. Untouched(u, o)  BY <1>3, <1>11, <1>13, <3>1 DEF Untouched
    <3>3. wrapper[tls[u]].obj = Null /\ Waits(stack'[u], tls[u], object', early')
      BY <1>2, <3>1, <3>2, OthersWait
    <3>4. QED  BY <1>3, <3>1, <3>3
  <2>2. ASSUME tls'[t] # Null
        PROVE  wrapper'[tls'[t]].obj = Null /\ Waits(stack'[t], tls'[t], object', early')
    <3>1. CASE w # Null
      <4>1. tls'[t] = w /\ wrapper'[w].obj = Null  BY <1>3, <3>1
      <4>2. object'[stack'[t][n + 1].object].wrapper = Null /\ stack'[t][n + 1].wrapper = w
        BY <1>5, <1>7, <1>11, <1>12
      <4>4. Waits(stack'[t], w, object', early')  BY <1>7, <1>8, <4>2 DEF Waits
      <4>5. QED  BY <4>1, <4>4
    <3>2. CASE w = Null
      <4>1. tls'[t] = tls[t] /\ tls[t] # Null /\ tls[t] \in early' /\ tls[t] \in Wrappers
        BY <1>3, <2>2, <3>2
      <4>2. PICK i \in 1..Len(stack[t]) :
              /\ stack[t][i].wrapper = tls[t] /\ object[stack[t][i].object].wrapper = Null
              /\ \A j \in (i + 1)..Len(stack[t]) : stack[t][j].wrapper = Null
        BY <1>2, <4>1, Waiting
      <4>3. i \in 1..(n + 1) /\ stack'[t][i] = stack[t][i]  BY <1>7, <1>8
      <4>4. stack[t][i].object \in Objects \ {o}  BY <1>2, <1>13, Frames
      <4>5. object'[stack[t][i].object].wrapper = Null  BY <1>11, <4>2, <4>4
      <4>6. ASSUME NEW j \in (i + 1)..(n + 1)  PROVE stack'[t][j].wrapper = Null
        <5>1. CASE j = n + 1  BY <1>5, <1>7, <3>2, <5>1
        <5>2. CASE j # n + 1
          <6>1. j \in (i + 1)..n /\ j \in 1..n  BY <1>1, <5>2
          <6>2. QED  BY <1>1, <1>7, <4>2, <6>1
        <5>3. QED  BY <5>1, <5>2
      <4>7. Waits(stack'[t], tls[t], object', early')  BY <1>7, <4>1, <4>2, <4>3, <4>5, <4>6 DEF Waits
      <4>8. wrapper'[tls[t]].obj = Null  BY <1>2, <1>3, <4>1, Waiting
      <4>9. QED  BY <4>1, <4>7, <4>8
    <3>3. QED  BY <3>1, <3>2
  <2>3. QED  BY <2>1, <2>2 DEF WaitingOK
<1>20. ObjectsOK'
  <2>1. ASSUME NEW x \in Objects \ {o}, object[x].type \in PyTypes, type[object[x].type].flag,
               object[x].wrapper = Null
        PROVE  \E u \in Threads : \E j \in 1..Len(stack'[u]) : stack'[u][j].object = x /\ stack'[u][j].todo # <<>>
    <3>1. PICK u \in Threads : \E j \in 1..Len(stack[u]) : stack[u][j].object = x /\ stack[u][j].todo # <<>>
      BY <1>2, <2>1 DEF ObjectsOK
    <3>2. PICK j \in 1..Len(stack[u]) : stack[u][j].object = x /\ stack[u][j].todo # <<>>  BY <3>1
    <3>3. j \in 1..Len(stack'[u]) /\ stack'[u][j] = stack[u][j]  BY <1>8
    <3>4. QED  BY <3>2, <3>3
  <2>2. \E u \in Threads : \E j \in 1..Len(stack'[u]) : stack'[u][j].object = o /\ stack'[u][j].todo # <<>>
    BY <1>4, <1>5, <1>7, <1>8
  <2>3. ASSUME NEW x \in Objects \ {o}
        PROVE  /\ object[x].type = Null => object[x].wrapper = Null /\ object[x].for = Null
               /\ object[x].type # Null => Made(object[x].type)'
               /\ object[x].wrapper = Null => object[x].inits = 0
               /\ object[x].wrapper # Null /\ early' = {} => object[x].inits = IF object[x].for = Null THEN 1 ELSE 0
    <3>1. /\ object[x].type = Null => object[x].wrapper = Null /\ object[x].for = Null
          /\ object[x].type # Null => Made(object[x].type)
          /\ object[x].wrapper = Null => object[x].inits = 0
          /\ object[x].wrapper # Null /\ early = {} => object[x].inits = IF object[x].for = Null THEN 1 ELSE 0
      BY <1>2 DEF ObjectsOK
    <3>2. early' = {} => early = {}  BY <1>3
    <3>3. Made(object[x].type) => Made(object[x].type)'
      <4>1. object'[x] = object[x]  BY <1>11
      <4>2. QED  BY <1>3, <4>1 DEF Made
    <3>4. QED  BY <3>1, <3>2, <3>3
  <2>4. Made(gtype)'  BY <1>3 DEF Made
  <2>5. QED  BY <1>3, <1>4, <1>11, <1>12, <2>1, <2>2, <2>3, <2>4 DEF ObjectsOK, Made
<1>21. WrappersOK'
  <2>1. ASSUME NEW x \in Objects, NEW v \in Wrappers, wrapper'[v].obj = x
        PROVE  \/ object'[x].for \in early'
               \/ /\ object'[x].wrapper = v /\ object'[x].for \in {Null, v}
                  /\ object'[x].for = Null /\ object'[x].inits = 0 => v \in early'
    <3>1. wrapper[v].obj = x  BY <1>3, <2>1
    <3>2. \/ object[x].for \in early
          \/ /\ object[x].wrapper = v /\ object[x].for \in {Null, v}
             /\ object[x].for = Null /\ object[x].inits = 0 => v \in early
      BY <1>2, <3>1 DEF WrappersOK
    <3>3. x # o  BY <1>10, <1>12, <3>2, ConstructionAssumption
    <3>4. QED  BY <1>3, <1>11, <3>2, <3>3
  <2>2. QED  BY <2>1 DEF WrappersOK
<1>22. QED  BY <1>15, <1>16, <1>17, <1>18, <1>19, <1>20, <1>21 DEF ConInv

LEMMA NativeStep ==
  ASSUME RegInv, ConInv, NEW t \in Threads, NEW o \in Objects, NEW gtype \in PyTypes, BeginNative(t, o, gtype)
  PROVE  ConInv'
<1>1. SUFFICES ASSUME NEW g, g = [object |-> o, wrapper |-> Null, todo |-> type[gtype].supers, init |-> FALSE]
               PROVE  ConInv'
  OBVIOUS
<1>2. ConTyped  BY DEF ConInv
<1>3. /\ object[o].type = Null /\ Made(gtype) /\ object' = [object EXCEPT ![o].type = gtype, ![o].for = Null]
      /\ stack' = [stack EXCEPT ![t] = Append(@, g)] /\ type' = type
      /\ early' = early \cup ({tls[t]} \ {Null}) /\ wrapper' = wrapper /\ tls' = tls
  BY <1>1 DEF BeginNative, Begun, regVars
<1>4. gtype \in Types  BY Names
<1>6. Started(t, o, gtype, Null, g)  BY <1>1, <1>2, <1>3, <1>4 DEF Started, ConTyped
<1>7. QED  BY <1>6, BeginStep

LEMMA PythonStep ==
  ASSUME RegInv, ConInv, NEW t \in Threads, NEW w \in Wrappers, NEW o \in Objects, NEW c \in Classes,
         BeginPython(t, w, o, c)
  PROVE  ConInv'
<1>1. SUFFICES ASSUME NEW gtype, gtype = TypeOf(c),
                      NEW g, g = [object |-> o, wrapper |-> w, todo |-> type[gtype].supers, init |-> FALSE]
               PROVE  ConInv'
  OBVIOUS
<1>2. ConTyped /\ w # Null /\ c # Null  BY Names, ConstructionAssumption DEF ConInv
<1>3. /\ RunsPython(t) /\ class[c].state # "unused" /\ gtype \notin Interfaces /\ wrapper[w] = NoWrapper
      /\ object[o].type = Null /\ object' = [object EXCEPT ![o].type = gtype, ![o].for = w]
      /\ stack' = [stack EXCEPT ![t] = Append(@, g)] /\ type' = type /\ early' = early
      /\ wrapper' = [wrapper EXCEPT ![w].class = c] /\ tls' = [tls EXCEPT ![t] = w]
  BY <1>1 DEF BeginPython, Begun, regVars
<1>4. gtype \in Types /\ Made(gtype)
  <2>1. c \in Defined  BY <1>3 DEF Defined
  <2>2. QED  BY <1>1, <1>3, <2>1, Found
<1>5. /\ wrapper' \in [Wrappers -> WrapperRecord] /\ wrapper'[w].class # Null
      /\ \A v \in Wrappers : wrapper'[v].obj = wrapper[v].obj /\ (v # w => wrapper'[v] = wrapper[v])
  BY <1>2, <1>3 DEF ConTyped, WrapperRecord
<1>6. /\ tls' \in [Threads -> Wrappers \cup {Null}] /\ tls'[t] = w
      /\ \A u \in Threads \ {t} : tls'[u] = tls[u] /\ early \subseteq early' /\ early' \subseteq Wrappers
  BY <1>2, <1>3 DEF ConTyped
<1>7. early \subseteq early' /\ early' \subseteq Wrappers  BY <1>2, <1>3 DEF ConTyped
<1>8. Started(t, o, gtype, w, g)  BY <1>1, <1>2, <1>3, <1>4, <1>5, <1>6, <1>7 DEF Started
<1>9. QED  BY <1>3, <1>8, BeginStep

LEMMA ConSteps ==
  ASSUME RegInv, ConInv, ConNext
  PROVE  RegInv' /\ ConInv'
<1>1. RegInv'
  <2>1. UNCHANGED regVars
    BY DEF ConNext, CInit, InitIgnored, InitKnown, InitReturns, EndPython, EndNative, InitNew, BeginNative, BeginPython
  <2>2. QED  BY <2>1, RegStill
<1>2. ConInv'
  BY IgnoredStep, ReturnsStep, KnownStep, NewStep, EndStep, NativeStep, PythonStep DEF ConNext
<1>3. QED  BY <1>1, <1>2

LEMMA ConStarts ==
  ASSUME Init
  PROVE  ConInv
<1>1. /\ object = [o \in Objects |-> NoObject] /\ wrapper = [w \in Wrappers |-> NoWrapper]
      /\ stack = [t \in Threads |-> <<>>] /\ tls = [t \in Threads |-> Null] /\ early = {}
  BY DEF Init
<1>3. ConTyped  BY <1>1 DEF ConTyped, NoObject, NoWrapper, ObjectRecord, WrapperRecord
<1>4. FramesOK /\ Unique /\ WaitingOK  BY <1>1 DEF FramesOK, Unique, WaitingOK
<1>5. ObjectsOK /\ WrappersOK
  BY <1>1, Names, ConstructionAssumption DEF ObjectsOK, WrappersOK, NoObject, NoWrapper
<1>6. FlagsOK
  <2>1. ASSUME NEW t \in CTypes  PROVE Made(t)
    <3>1. type[t].supers = <<Root>> \/ type[t].supers = <<Root, t>>  BY RegStarts DEF Init, RegInv, TypesOK
    <3>2. <<Root>> # <<>> /\ <<Root, t>> # <<>>
      <4>1. Len(<<Root>>) = 1 /\ Len(<<Root, t>>) = 2 /\ Len(<<>>) = 0  OBVIOUS
      <4>2. QED  BY <4>1
    <3>3. QED  BY <3>1, <3>2 DEF Made
  <2>2. ASSUME NEW t \in Types \ CTypes  PROVE ~type[t].flag
    <3>1. t # Root /\ t \notin CTypes \ {Root}  BY Names
    <3>2. type[t] = NoType  BY <2>2, <3>1 DEF Init, RegInit
    <3>3. QED  BY <3>2 DEF NoType
  <2>3. QED  BY <2>1, <2>2 DEF FlagsOK
<1>7. QED  BY <1>3, <1>4, <1>5, <1>6 DEF ConInv

(* What Construction promises is a part of it, too.                        *)
LEMMA ConProperties ==
  ASSUME ConInv
  PROVE  OwnObject /\ InitOnce
<1>1. ConTyped /\ FramesOK /\ WaitingOK /\ ObjectsOK /\ WrappersOK  BY DEF ConInv
<1>2. OwnObject
  <2>1. ASSUME NEW t \in Threads, stack[t] = <<>>  PROVE tls[t] = Null
    <3>1. SUFFICES ASSUME tls[t] # Null  PROVE FALSE  OBVIOUS
    <3>2. PICK i \in 1..Len(stack[t]) : TRUE  BY <1>1, <3>1, Waiting
    <3>3. Len(stack[t]) = 0  BY <2>1
    <3>4. QED  BY <3>3
  <2>2. QED  BY <1>1, <2>1 DEF OwnObject, WrappersOK
<1>3. InitOnce
  <2>1. SUFFICES ASSUME NEW o \in Objects, object[o].type \in PyTypes, type[object[o].type].flag,
                        \A t \in Threads : \A i \in DOMAIN stack[t] :
                          stack[t][i].object = o => stack[t][i].todo = <<>>
                 PROVE  /\ object[o].wrapper # Null
                        /\ early = {} => object[o].inits = IF object[o].for = Null THEN 1 ELSE 0
    BY DEF InitOnce
  <2>2. object[o].wrapper # Null
    <3>1. SUFFICES ASSUME object[o].wrapper = Null  PROVE FALSE  OBVIOUS
    <3>2. PICK t \in Threads : \E i \in 1..Len(stack[t]) : stack[t][i].object = o /\ stack[t][i].todo # <<>>
      BY <1>1, <2>1, <3>1 DEF ObjectsOK
    <3>4. QED  BY <2>1, <3>2
  <2>3. QED  BY <1>1, <2>2 DEF ObjectsOK
<1>4. QED  BY <1>2, <1>3

LEMMA Invariant == Spec => []IInv
<1>1. Init => IInv  BY RegStarts, ConStarts DEF Init, IInv
<1>2. IInv /\ [Next]_vars => IInv'
  <2>1. SUFFICES ASSUME RegInv, ConInv, [Next]_vars  PROVE RegInv' /\ ConInv'  BY DEF IInv
  <2>2. CASE RegNext /\ UNCHANGED conVars  BY <2>1, <2>2, RegSteps, RegisterStep
  <2>3. CASE ConNext  BY <2>1, <2>3, ConSteps
  <2>4. CASE UNCHANGED vars
    <3>1. UNCHANGED regVars /\ UNCHANGED conVars  BY <2>4 DEF vars
    <3>2. RegInv'  BY <2>1, <3>1, RegStill
    <3>3. type' = type /\ object' = object /\ wrapper' = wrapper /\ stack' = stack /\ tls' = tls /\ early' = early
      BY <3>1 DEF regVars, conVars
    <3>4. ConTyped' /\ FlagsOK' /\ FramesOK' /\ Unique' /\ WaitingOK' /\ ObjectsOK' /\ WrappersOK'
      BY <2>1, <3>3 DEF ConInv, ConTyped, FlagsOK, FramesOK, Unique, WaitingOK, ObjectsOK, WrappersOK, Made
    <3>5. QED  BY <3>2, <3>4 DEF ConInv
  <2>5. QED  BY <2>1, <2>2, <2>3, <2>4 DEF Next
<1>3. QED  BY <1>1, <1>2, PTL DEF Spec

(* Every GType of a class is found by the class it has, unless that has been
   replaced, and is below the one that its base finds, whatever order code
   looks classes up, registers and derives them in.                        *)
THEOREM Hierarchical == Spec => []Hierarchy
<1>1. IInv => Hierarchy  BY RegProperties DEF IInv
<1>2. QED  BY <1>1, Invariant, PTL

(* A class whose registration has succeeded has a GType with all signals,
   properties and interfaces it declares.                                  *)
THEOREM Completed == Spec => []Complete
<1>1. IInv => Complete  BY RegProperties DEF IInv
<1>2. QED  BY <1>1, Invariant, PTL

(* A wrapper gets the object that was constructed for it, however many
   constructions, of Python's and of native code's, nest in how many threads. *)
THEOREM GetsItsObject == Spec => []OwnObject
<1>1. IInv => OwnObject  BY ConProperties DEF IInv
<1>2. QED  BY <1>1, Invariant, PTL

(* An initialised object has a wrapper, whose __init__ was called once.    *)
THEOREM InitialisedOnce == Spec => []InitOnce
<1>1. IInv => InitOnce  BY ConProperties DEF IInv
<1>2. QED  BY <1>1, Invariant, PTL
=============================================================================
