--------------------------- MODULE ClosuresProofs ---------------------------
(***************************************************************************)
(* Proofs of the safety properties of Closures, for any threads, closures, *)
(* callbacks and nesting of emissions.                                     *)
(***************************************************************************)
EXTENDS Closures, Integers, FiniteSetTheorems, SequenceTheorems, WellFoundedInduction, TLAPS

Steps == {"idle", "read", "write", "drop"}
Invals == [on : Ids \cup {NoClosure}, step : Steps, list : Seq(Ids), locked : BOOLEAN]

Typed ==
  /\ state \in [Ids -> {"unused", "valid", "invalid"}]
  /\ refs \subseteq Ids /\ closures \in Seq(Ids) /\ connected \subseteq Ids
  /\ calling \in [Threads -> Seq(Calls)] /\ inval \in [Threads -> Invals]
  /\ freeing \in Seq(Ids)

(* A GObject goes with its wrapper, or after it.                           *)
Together == wrapper # "cleared" => alive = "alive"

(* Only the finalizer acts on a GObject that is destroyed.                 *)
Stages ==
  /\ alive \in {"alive", "destroying", "gone"} /\ finalizer \in Threads \cup {NoThread}
  /\ alive = "destroying" <=> finalizer # NoThread
  /\ alive # "alive" =>
       \A t \in Threads : calling[t] = <<>> /\ (inval[t] = Idle \/ t = finalizer)
  /\ alive # "destroying" => freeing = <<>>
  /\ freeing # <<>> => connected = {}
  /\ alive = "gone" => closures = <<>>
  /\ Together

(* A closure that can be called is valid, and a valid one has its
   references, which it loses when its own invalidation gets there.        *)
Kept ==
  /\ \A t \in Threads : \A i \in DOMAIN calling[t] :
       state[calling[t][i].on] = "valid" /\ (natives = {} => calling[t][i].python)
  /\ \A c \in connected : state[c] = "valid"
  /\ \A c \in Ids : state[c] = "valid" => c \in refs
  /\ \A c \in refs : state[c] = "valid" \/ \E t \in Threads : inval[t].on = c
  /\ \A t \in Threads : inval[t] = Idle \/
       /\ inval[t].on \in refs /\ state[inval[t].on] = "invalid" /\ inval[t].step # "idle"
       /\ \A u \in Threads : inval[u].on = inval[t].on => u = t

Unequal(s) == \A i, j \in DOMAIN s : s[i] = s[j] => i = j

(* Without native threads the list is as pygobject_watch_closure and
   pygobject_unwatch_closure leave it, one after the other.                *)
Listed ==
  /\ Unequal(closures)
  /\ \A c \in Watched : state[c] = "valid" \/
       \E t \in Threads : inval[t].on = c /\ inval[t].step \in {"read", "write"}
  /\ \A c \in Ids : state[c] = "valid" => c \in Watched \cup ToSet(freeing)
  /\ freeing # <<>> => closures = <<>>
  /\ \A t \in Threads :
       /\ inval[t] # Idle /\ alive = "alive" => inval[t].locked
       /\ inval[t].step = "write" =>
            ~inval[t].locked /\ inval[t].list = RemoveFirst(closures, inval[t].on)

IInv == Typed /\ Stages /\ Kept /\ (natives = {} => Listed)

-----------------------------------------------------------------------------
(* What g_slist_remove leaves.                                             *)
LEMMA SmallestIndex ==
  ASSUME NEW I \in SUBSET Nat, I # {}
  PROVE  Min(I) \in I
<1>1. I \subseteq Nat
  OBVIOUS
<1>2. PICK m \in I : \A k \in I : ~(<<k, m>> \in OpToRel(<, Nat))
  BY <1>1, WFMin, NatLessThanWellFounded
<1>3. ASSUME NEW k \in I  PROVE ~(k < m)
  <2>1. k < m => <<k, m>> \in OpToRel(<, Nat)  BY DEF OpToRel
  <2> QED BY <1>2, <2>1, Zenon
<1>4. \A k \in I : m =< k  BY <1>3
<1> QED BY <1>4 DEF Min

LEMMA RemovedAt ==
  ASSUME NEW S, NEW s \in Seq(S), NEW k \in 1..Len(s)
  PROVE  /\ RemoveAt(s, k) \in Seq(S)
         /\ Len(RemoveAt(s, k)) = Len(s) - 1
         /\ \A i \in 1..Len(s) - 1 :
              RemoveAt(s, k)[i] = IF i < k THEN s[i] ELSE s[i + 1]
<1> DEFINE a == SubSeq(s, 1, k - 1)  b == SubSeq(s, k + 1, Len(s))
<1>1. /\ a \in Seq(S) /\ Len(a) = k - 1
      /\ \A i \in 1..k - 1 : a[i] = s[i]
  BY SubSeqProperties
<1>2. /\ b \in Seq(S) /\ Len(b) = Len(s) - k
      /\ \A i \in 1..Len(s) - k : b[i] = s[k + i]
  BY SubSeqProperties
<1>3. RemoveAt(s, k) = a \o b  BY DEF RemoveAt
<1> HIDE DEF a, b
<1>4. /\ a \o b \in Seq(S) /\ Len(a \o b) = Len(a) + Len(b)
      /\ \A i \in 1..Len(a) + Len(b) : (a \o b)[i] = IF i <= Len(a) THEN a[i] ELSE b[i - Len(a)]
  BY <1>1, <1>2, ConcatProperties
<1> QED BY <1>1, <1>2, <1>3, <1>4

LEMMA RemovedFirst ==
  ASSUME NEW S, NEW s \in Seq(S), NEW e
  PROVE  /\ RemoveFirst(s, e) \in Seq(S)
         /\ Unequal(s) => Unequal(RemoveFirst(s, e)) /\ ToSet(RemoveFirst(s, e)) = ToSet(s) \ {e}
<1> DEFINE I == {i \in 1..Len(s) : s[i] = e}
<1>1. CASE I = {}
  <2>1. RemoveFirst(s, e) = s  BY <1>1 DEF RemoveFirst
  <2> QED BY <2>1, <1>1 DEF ToSet
<1>2. CASE I # {}
  <2> DEFINE k == Min(I)  r == RemoveAt(s, k)
  <2>1. k \in I
    <3>1. I \in SUBSET Nat  OBVIOUS
    <3> HIDE DEF I
    <3> QED BY <3>1, <1>2, SmallestIndex
  <2>2. RemoveFirst(s, e) = r  BY <1>2 DEF RemoveFirst, SelectInSeq
  <2>3. k \in 1..Len(s) /\ s[k] = e  BY <2>1
  <2> HIDE DEF k, r
  <2>4. /\ r \in Seq(S) /\ Len(r) = Len(s) - 1
        /\ \A i \in 1..Len(s) - 1 : r[i] = IF i < k THEN s[i] ELSE s[i + 1]
    BY <2>3, RemovedAt DEF r
  <2>5. ASSUME Unequal(s)  PROVE Unequal(r) /\ ToSet(r) = ToSet(s) \ {e}
    <3>1. ASSUME NEW i \in 1..Len(r), NEW j \in 1..Len(r), r[i] = r[j]  PROVE i = j
      <4> DEFINE before(l) == IF l < k THEN l ELSE l + 1
      <4>1. before(i) \in 1..Len(s) /\ before(j) \in 1..Len(s)  BY <2>4
      <4>2. r[i] = s[before(i)] /\ r[j] = s[before(j)]  BY <2>4
      <4>3. before(i) = before(j)
        <5> HIDE DEF before
        <5>1. s[before(i)] = s[before(j)]  BY <4>2, <3>1
        <5> QED BY <5>1, <4>1, <2>5 DEF Unequal
      <4> QED BY <4>3, <2>3
    <3>2. ASSUME NEW x \in ToSet(r)  PROVE x \in ToSet(s) \ {e}
      <4>1. PICK i \in 1..Len(s) - 1 : x = r[i]  BY <2>4 DEF ToSet
      <4> DEFINE l == IF i < k THEN i ELSE i + 1
      <4>2. l \in 1..Len(s) /\ l # k /\ x = s[l]  BY <4>1, <2>4
      <4> HIDE DEF l
      <4>3. x # e  BY <4>2, <2>3, <2>5 DEF Unequal
      <4> QED BY <4>2, <4>3 DEF ToSet
    <3>3. ASSUME NEW x \in ToSet(s) \ {e}  PROVE x \in ToSet(r)
      <4>1. PICK i \in 1..Len(s) : x = s[i] /\ i # k  BY <2>3 DEF ToSet
      <4>2. CASE i < k  BY <4>1, <4>2, <2>3, <2>4 DEF ToSet
      <4>3. CASE i > k
        <5>1. r[i - 1] = x /\ i - 1 \in 1..Len(r)  BY <4>1, <4>3, <2>3, <2>4
        <5> QED BY <5>1 DEF ToSet
      <4> QED BY <4>1, <4>2, <4>3, <2>3
    <3> QED BY <3>1, <3>2, <3>3 DEF Unequal
  <2> QED BY <2>2, <2>4, <2>5
<1> QED BY <1>1, <1>2

(* pygobject_watch_closure adds a closure that is not on the list.         *)
LEMMA Added ==
  ASSUME NEW S, NEW s \in Seq(S), NEW c \in S
  PROVE  /\ Cons(c, s) \in Seq(S) /\ ToSet(Cons(c, s)) = ToSet(s) \cup {c}
         /\ Unequal(s) /\ c \notin ToSet(s) => Unequal(Cons(c, s))
<1> DEFINE r == Cons(c, s)
<1>1. /\ r \in Seq(S) /\ Len(r) = Len(s) + 1 /\ r[1] = c
      /\ \A i \in 2..Len(s) + 1 : r[i] = s[i - 1]
  <2> QED BY DEF Cons
<1> HIDE DEF r
<1>2. ASSUME NEW x \in ToSet(s)  PROVE x \in ToSet(r)
  <2>1. PICK i \in 1..Len(s) : x = s[i]  BY DEF ToSet
  <2>2. r[i + 1] = x /\ i + 1 \in 1..Len(r)  BY <2>1, <1>1
  <2> QED BY <2>2 DEF ToSet
<1>3. ASSUME NEW x \in ToSet(r)  PROVE x \in ToSet(s) \cup {c}
  <2>1. PICK i \in 1..Len(r) : x = r[i]  BY DEF ToSet
  <2> QED BY <1>1 DEF ToSet
<1>4. c \in ToSet(r)  BY <1>1 DEF ToSet
<1>5. ASSUME Unequal(s), c \notin ToSet(s)  PROVE Unequal(r)
  <2>1. \A i \in 1..Len(s) : s[i] # c  BY <1>5 DEF ToSet
  <2> QED BY <2>1, <1>1, <1>5 DEF Unequal
<1> QED BY <1>1, <1>2, <1>3, <1>4, <1>5 DEF r

(* A list without repetitions is as long as its set is large.              *)
LEMMA LengthOfUnequal ==
  ASSUME NEW S, NEW s \in Seq(S), Unequal(s)
  PROVE  Len(s) = Cardinality(ToSet(s))
<1>1. s \in Bijection(1..Len(s), ToSet(s))
  BY DEF Bijection, Injection, Surjection, IsInjective, ToSet, Unequal
<1>2. ExistsBijection(1..Len(s), ToSet(s))  BY <1>1 DEF ExistsBijection
<1> QED BY <1>2, FS_CountingElements

-----------------------------------------------------------------------------
(* What the steps of the inductive argument have in common: emissions go on
   or end, pygobject_data_free drops closures that need no invalidation.   *)
Fewer ==
  /\ calling' \in [Threads -> Seq(Calls)]
  /\ \A t \in Threads :
       /\ calling[t] = <<>> => calling'[t] = <<>>
       /\ \A i \in DOMAIN calling'[t] : \E j \in DOMAIN calling[t] :
            /\ calling'[t][i].on = calling[t][j].on
            /\ calling'[t][i].python = calling[t][j].python

Freed(C) ==
  /\ freeing' \in Seq(Ids)
  /\ freeing = <<>> => freeing' = <<>>
  /\ ToSet(freeing) \subseteq ToSet(freeing') \cup C

LEMMA Fallen ==
  ASSUME calling' = calling, calling \in [Threads -> Seq(Calls)]
  PROVE  Fewer
BY DEF Fewer

LEMMA KeptFreeing ==
  ASSUME Typed, freeing' = freeing
  PROVE  Freed({})
BY DEF Freed, Typed

LEMMA TypedCall ==
  ASSUME Typed, NEW t \in Threads, NEW i \in DOMAIN calling[t]
  PROVE  calling[t][i] \in Calls /\ calling[t][i].on \in Ids
<1> DEFINE s == calling[t]
<1>1. s \in Seq(Calls)  BY DEF Typed
<1> HIDE DEF s
<1>2. \A j \in DOMAIN s : s[j] \in Calls  BY <1>1
<1>3. calling[t][i] \in Calls  BY <1>2 DEF s
<1> QED BY <1>3 DEF Calls

LEMMA TypedWatched ==
  ASSUME Typed
  PROVE  Watched \subseteq Ids
<1> DEFINE s == closures
<1>1. s \in Seq(Ids)  BY DEF Typed
<1> HIDE DEF s
<1>2. \A j \in DOMAIN s : s[j] \in Ids  BY <1>1
<1> QED BY <1>2 DEF s, Watched, ToSet

LEMMA WatchedWhenValid ==
  ASSUME IInv, natives = {}, alive = "alive", NEW c \in Ids, state[c] = "valid"
  PROVE  c \in Watched
BY DEF IInv, Listed, Stages, ToSet

(* A step that begins no invalidation.                                     *)
LEMMA Shrinks ==
  ASSUME IInv, connected' \subseteq connected, Fewer, Freed({c \in Ids : state[c] # "valid"}),
         Together',
         UNCHANGED <<alive, state, natives, refs, closures, inval, finalizer>>
  PROVE  IInv'
<1>0. Typed /\ Stages /\ Kept /\ (natives = {} => Listed)  BY DEF IInv
<1>2. /\ connected' \subseteq Ids /\ calling' \in [Threads -> Seq(Calls)] /\ freeing' \in Seq(Ids)
  BY <1>0 DEF Typed, Fewer, Freed
<1>3. Typed'  BY <1>0, <1>2 DEF Typed
<1>4. Stages'
  <2>1. \A t \in Threads : calling[t] = <<>> => calling'[t] = <<>>  BY DEF Fewer
  <2>2. freeing = <<>> => freeing' = <<>>  BY DEF Freed
  <2> QED BY <1>0, <2>1, <2>2 DEF Stages
<1>5. Kept'
  <2>1. ASSUME NEW t \in Threads, NEW i \in DOMAIN calling'[t]
        PROVE  state[calling'[t][i].on] = "valid" /\ (natives = {} => calling'[t][i].python)
    BY <1>0 DEF Kept, Fewer
  <2> QED BY <2>1, <1>0 DEF Kept
<1>6. ASSUME natives = {}  PROVE Listed'
  <2>1. \A c \in Ids : state[c] = "valid" => c \in Watched \cup ToSet(freeing')
    BY <1>0, <1>6 DEF Listed, Freed
  <2>2. freeing' # <<>> => closures = <<>>  BY <1>0, <1>6 DEF Listed, Freed
  <2> QED BY <2>1, <2>2, <1>0, <1>6 DEF Listed, Watched
<1> QED BY <1>3, <1>4, <1>5, <1>6 DEF IInv

(* g_closure_invalidate on a closure that nothing uses any more.           *)
LEMMA Begins ==
  ASSUME IInv, NEW t \in Threads, NEW c \in Ids, NEW locked \in BOOLEAN,
         StartInvalidate(t, c, locked), inval[t] = Idle, state[c] = "valid",
         connected' \subseteq connected, c \notin connected', Fewer, Freed({c}),
         \A u \in Threads : \A i \in DOMAIN calling'[u] : calling'[u][i].on # c,
         t = finalizer \/ (alive = "alive" /\ (natives = {} => locked)),
         UNCHANGED <<alive, wrapper, natives, refs, closures, finalizer>>
  PROVE  IInv'
<1> DEFINE new == [on |-> c, step |-> "read", list |-> <<>>, locked |-> locked]
<1>0. Typed /\ Stages /\ Kept /\ (natives = {} => Listed)  BY DEF IInv
<1>2. /\ new \in Invals /\ new.on = c /\ new.step = "read" /\ new.locked = locked /\ new # Idle
  BY DEF Invals, Steps, Idle
<1>3. state' = [state EXCEPT ![c] = "invalid"] /\ inval' = [inval EXCEPT ![t] = new]
  BY DEF StartInvalidate
<1> HIDE DEF new
<1>4. /\ state' \in [Ids -> {"unused", "valid", "invalid"}] /\ state'[c] = "invalid"
      /\ \A d \in Ids \ {c} : state'[d] = state[d]
  BY <1>0, <1>3 DEF Typed
<1>5. /\ inval' \in [Threads -> Invals] /\ inval'[t] = new
      /\ \A u \in Threads \ {t} : inval'[u] = inval[u]
  BY <1>0, <1>2, <1>3 DEF Typed
<1>6. Typed'
  <2>1. /\ connected' \subseteq Ids /\ calling' \in [Threads -> Seq(Calls)]
        /\ freeing' \in Seq(Ids)
    BY <1>0 DEF Typed, Fewer, Freed
  <2> QED BY <2>1, <1>0, <1>4, <1>5 DEF Typed
<1>7. Stages'
  <2>1. \A u \in Threads : calling[u] = <<>> => calling'[u] = <<>>  BY DEF Fewer
  <2>2. freeing = <<>> => freeing' = <<>>  BY DEF Freed
  <2> QED BY <1>0, <1>5, <2>1, <2>2 DEF Stages, Together
<1>8. c \in refs /\ \A u \in Threads : inval[u].on # c
  BY <1>0, ClosuresAssumption DEF Kept, Idle
<1>9. Kept'
  <2>1. ASSUME NEW u \in Threads, NEW i \in DOMAIN calling'[u]
        PROVE  state'[calling'[u][i].on] = "valid" /\ (natives = {} => calling'[u][i].python)
    <3>1. PICK j \in DOMAIN calling[u] : /\ calling'[u][i].on = calling[u][j].on
                                        /\ calling'[u][i].python = calling[u][j].python
      BY DEF Fewer
    <3>2. calling[u][j].on \in Ids  BY <1>0, TypedCall
    <3> QED BY <3>1, <3>2, <1>0, <1>4 DEF Kept
  <2>2. ASSUME NEW d \in refs
        PROVE  state'[d] = "valid" \/ \E u \in Threads : inval'[u].on = d
    <3>1. CASE d = c  BY <3>1, <1>2, <1>5
    <3>2. CASE d # c
      <4>1. d \in Ids  BY <1>0 DEF Typed
      <4>2. d # NoClosure  BY <4>1, ClosuresAssumption
      <4> QED BY <4>1, <4>2, <3>2, <1>0, <1>4, <1>5 DEF Kept, Idle
    <3> QED BY <3>1, <3>2
  <2>3. ASSUME NEW u \in Threads
        PROVE  inval'[u] = Idle \/
          /\ inval'[u].on \in refs /\ state'[inval'[u].on] = "invalid" /\ inval'[u].step # "idle"
          /\ \A v \in Threads : inval'[v].on = inval'[u].on => v = u
    <3>1. CASE u = t  BY <3>1, <1>2, <1>4, <1>5, <1>8
    <3>2. CASE u # t
      <4>1. inval'[u] = inval[u]  BY <3>2, <1>5
      <4>2. inval[u] = Idle \/
          /\ inval[u].on \in refs /\ state[inval[u].on] = "invalid" /\ inval[u].step # "idle"
          /\ \A v \in Threads : inval[v].on = inval[u].on => v = u
        BY <1>0 DEF Kept
      <4>4. inval[u].on \in refs => inval[u].on \in Ids  BY <1>0 DEF Typed
      <4> QED BY <4>1, <4>2, <4>4, <1>2, <1>4, <1>5
    <3> QED BY <3>1, <3>2
  <2>4. \A d \in connected' : state'[d] = "valid"
    BY <1>0, <1>4 DEF Kept, Typed
  <2>5. \A d \in Ids : state'[d] = "valid" => d \in refs
    BY <1>0, <1>4 DEF Kept
  <2> QED BY <2>1, <2>2, <2>3, <2>4, <2>5 DEF Kept
<1>10. ASSUME natives = {}  PROVE Listed'
  <2>1. ASSUME NEW d \in Watched
        PROVE  state'[d] = "valid" \/
                 \E u \in Threads : inval'[u].on = d /\ inval'[u].step \in {"read", "write"}
    <3>1. CASE d = c  BY <3>1, <1>2, <1>5
    <3>2. CASE d # c
      <4>1. d \in Ids  BY <1>0, TypedWatched
      <4>2. state[d] = "valid" \/
              \E u \in Threads : inval[u].on = d /\ inval[u].step \in {"read", "write"}
        BY <1>0, <1>10 DEF Listed
      <4>3. inval[t].step \notin {"read", "write"}  BY DEF Idle
      <4> QED BY <4>1, <4>2, <4>3, <3>2, <1>4, <1>5
    <3> QED BY <3>1, <3>2
  <2>2. ASSUME NEW d \in Ids, state'[d] = "valid"  PROVE d \in Watched \cup ToSet(freeing')
    BY <2>2, <1>0, <1>4, <1>10 DEF Listed, Freed
  <2>3. ASSUME NEW u \in Threads
        PROVE  /\ inval'[u] # Idle /\ alive = "alive" => inval'[u].locked
               /\ inval'[u].step = "write" =>
                    ~inval'[u].locked /\ inval'[u].list = RemoveFirst(closures, inval'[u].on)
    <3>1. CASE u = t
      <4>1. alive = "alive" => locked
        BY <1>0, <1>10, ClosuresAssumption DEF Stages
      <4> QED BY <4>1, <3>1, <1>2, <1>5
    <3>2. CASE u # t  BY <3>2, <1>0, <1>5, <1>10 DEF Listed
    <3> QED BY <3>1, <3>2
  <2>4. freeing' # <<>> => closures = <<>>  BY <1>0, <1>10 DEF Listed, Freed
  <2> QED BY <2>1, <2>2, <2>3, <2>4, <1>0, <1>10 DEF Listed, Watched
<1> QED BY <1>6, <1>7, <1>9, <1>10 DEF IInv

-----------------------------------------------------------------------------
(* The steps of the list and of the invalidations.                         *)
LEMMA NewStep ==
  ASSUME IInv, alive = "alive", NEW c \in Ids, NEW f, NewClosure(c, f),
         connected' \subseteq connected \cup {c},
         UNCHANGED <<alive, wrapper, finalizer, freeing, natives, calling, inval>>
  PROVE  IInv'
<1>0. Typed /\ Stages /\ Kept /\ (natives = {} => Listed)  BY DEF IInv
<1>2. /\ state[c] = "unused" /\ state' = [state EXCEPT ![c] = "valid"]
      /\ refs' = refs \cup {c} /\ closures' = Cons(c, closures)
  BY DEF NewClosure
<1>3. /\ state' \in [Ids -> {"unused", "valid", "invalid"}] /\ state'[c] = "valid"
      /\ \A d \in Ids \ {c} : state'[d] = state[d]
  BY <1>0, <1>2 DEF Typed
<1>4. /\ closures' \in Seq(Ids) /\ Watched' = Watched \cup {c}
      /\ Unequal(closures) /\ c \notin Watched => Unequal(closures')
  <2>1. closures \in Seq(Ids)  BY <1>0 DEF Typed
  <2> QED BY <2>1, <1>2, Added DEF Watched
<1>5. Typed'  BY <1>0, <1>2, <1>4 DEF Typed
<1>6. Stages'  BY <1>0 DEF Stages, Together
<1>7. Kept'
  <2>1. ASSUME NEW t \in Threads, NEW i \in DOMAIN calling[t]
        PROVE  state'[calling[t][i].on] = "valid"
    <3>1. calling[t][i].on \in Ids  BY <1>0, TypedCall
    <3> QED BY <3>1, <1>0, <1>3 DEF Kept
  <2>2. \A t \in Threads : inval[t].on \in refs /\ state[inval[t].on] = "invalid" =>
          inval[t].on \in refs' /\ state'[inval[t].on] = "invalid"
    BY <1>2
  <2>3. \A d \in connected' : state'[d] = "valid"  BY <1>0, <1>3 DEF Kept, Typed
  <2>4. \A d \in Ids : state'[d] = "valid" => d \in refs'  BY <1>0, <1>2 DEF Kept
  <2>5. \A d \in refs' : state'[d] = "valid" \/ \E t \in Threads : inval[t].on = d
    BY <1>0, <1>2, <1>3 DEF Kept
  <2> QED BY <2>1, <2>2, <2>3, <2>4, <2>5, <1>0 DEF Kept
<1>8. ASSUME natives = {}  PROVE Listed'
  <2>1. Unequal(closures')
    <3>1. c \notin Watched  BY <1>0, <1>2, <1>8 DEF Listed, Kept, Idle
    <3> QED BY <3>1, <1>0, <1>4, <1>8 DEF Listed
  <2>2. \A t \in Threads : inval[t].step # "write"
    BY <1>0, <1>8 DEF Listed, Idle
  <2>3. \A d \in Watched' : state'[d] = "valid" \/
          \E t \in Threads : inval[t].on = d /\ inval[t].step \in {"read", "write"}
    BY <1>0, <1>3, <1>4, <1>8, TypedWatched DEF Listed
  <2>4. \A d \in Ids : state'[d] = "valid" => d \in Watched' \cup ToSet(freeing)
    BY <1>0, <1>3, <1>4, <1>8 DEF Listed
  <2>5. freeing = <<>>  BY <1>0 DEF Stages
  <2> QED BY <2>1, <2>2, <2>3, <2>4, <2>5, <1>0, <1>8 DEF Listed
<1> QED BY <1>5, <1>6, <1>7, <1>8 DEF IInv

LEMMA CallStep ==
  ASSUME IInv, alive = "alive", NEW t \in Threads, NEW call \in Calls, state[call.on] = "valid",
         natives = {} => call.python, calling' = [calling EXCEPT ![t] = Append(@, call)],
         UNCHANGED <<objVars, handVars, refs, closures, inval>>
  PROVE  IInv'
<1>0. Typed /\ Stages /\ Kept /\ (natives = {} => Listed)  BY DEF IInv
<1>1. /\ alive' = alive /\ wrapper' = wrapper /\ finalizer' = finalizer
      /\ freeing' = freeing /\ state' = state /\ natives' = natives /\ connected' = connected
      /\ refs' = refs /\ closures' = closures /\ inval' = inval
  BY DEF objVars, handVars
<1>4. Typed'  BY <1>0, <1>1 DEF Typed
<1>5. Stages'  BY <1>0, <1>1 DEF Stages, Together
<1>6. Kept'
  <2> QED BY <1>0, <1>1 DEF Kept
<1>7. ASSUME natives = {}  PROVE Listed'
  BY <1>0, <1>1, <1>7 DEF Listed, Watched
<1> QED BY <1>1, <1>4, <1>5, <1>6, <1>7 DEF IInv

LEMMA FrontAndLast ==
  ASSUME NEW S, NEW s \in Seq(S), s # <<>>
  PROVE  /\ Front(s) \in Seq(S) /\ Len(Front(s)) = Len(s) - 1
         /\ \A i \in 1..Len(s) - 1 : Front(s)[i] = s[i]
         /\ Len(s) \in DOMAIN s /\ Last(s) = s[Len(s)]
<1>1. Len(s) \in Nat /\ Len(s) > 0 /\ DOMAIN s = 1..Len(s)  OBVIOUS
<1> QED BY <1>1 DEF Front, Last

LEMMA MarshalStep ==
  ASSUME IInv, NEW t \in Threads, Marshal(t)
  PROVE  IInv'
<1>0. Typed /\ Stages  BY DEF IInv
<1>1. /\ calling[t] # <<>>
      /\ calling' = [calling EXCEPT
           ![t] = Append(Front(@), [Last(@) EXCEPT !.running = TRUE])]
      /\ UNCHANGED <<alive, finalizer, freeing, handVars, refs, closures, inval>>
  BY DEF Marshal
<1> DEFINE s == calling[t]  call == [Last(s) EXCEPT !.running = TRUE]
           new == Append(Front(s), call)
<1>2. s \in Seq(Calls)  BY <1>0 DEF Typed
<1>3. /\ new \in Seq(Calls)
      /\ \A i \in DOMAIN new : i \in DOMAIN s /\ new[i].on = s[i].on /\ new[i].python = s[i].python
  <2>0. s # <<>>  BY <1>1
  <2> HIDE DEF s
  <2>1. /\ Front(s) \in Seq(Calls) /\ Len(Front(s)) = Len(s) - 1
        /\ \A i \in 1..Len(s) - 1 : Front(s)[i] = s[i]
        /\ Len(s) \in DOMAIN s /\ Last(s) = s[Len(s)]
    BY <2>0, <1>2, FrontAndLast
  <2>2. DOMAIN s = 1..Len(s) /\ Len(s) \in Nat /\ s[Len(s)] \in Calls  BY <1>2, <2>1
  <2>3. call \in Calls /\ call.on = s[Len(s)].on /\ call.python = s[Len(s)].python
    BY <2>1, <2>2 DEF Calls
  <2> HIDE DEF call
  <2>4. /\ new \in Seq(Calls) /\ Len(new) = Len(s)
        /\ \A i \in 1..Len(s) - 1 : new[i] = s[i]
        /\ new[Len(s)] = call
    BY <2>1, <2>3
  <2> HIDE DEF new
  <2> QED BY <2>3, <2>4
<1>4. calling' = [calling EXCEPT ![t] = new]  BY <1>1
<1>5. s # <<>>  BY <1>1
<1> HIDE DEF new
<1>6. Fewer  BY <1>0, <1>3, <1>4, <1>5 DEF Fewer, Typed
<1>7. UNCHANGED <<alive, state, natives, connected, refs, closures, inval, freeing, finalizer>>
  BY <1>1 DEF handVars
<1>8. Freed({c \in Ids : state[c] # "valid"})  BY <1>0, <1>7 DEF Freed, Typed
<1>9. Together'  BY <1>0, <1>1, <1>7 DEF Stages, Together
<1> QED BY <1>6, <1>7, <1>8, <1>9, Shrinks

LEMMA ReturnStep ==
  ASSUME IInv, NEW t \in Threads, Return(t)
  PROVE  IInv'
<1>0. Typed /\ Stages /\ Kept  BY DEF IInv
<1> DEFINE s == calling[t]  call == Last(s)
           used == \E u \in Threads : \E i \in DOMAIN calling'[u] : calling'[u][i].on = call.on
<1>1. /\ s # <<>> /\ inval[t] = Idle
      /\ calling' = [calling EXCEPT ![t] = Front(s)]
      /\ UNCHANGED <<objVars, func, natives, connected, blocks, refs, closures>>
  BY DEF Return, InCallback
<1>2. IF call.on \in connected \/ used \/ state[call.on] = "invalid"
      THEN UNCHANGED <<state, inval, gil>>
      ELSE StartInvalidate(t, call.on, call.python)
  BY DEF Return
<1>3. s \in Seq(Calls)  BY <1>0 DEF Typed
<1>4. /\ Front(s) \in Seq(Calls)
      /\ \A i \in DOMAIN Front(s) : i \in DOMAIN s /\ Front(s)[i] = s[i]
      /\ Len(s) \in DOMAIN s /\ call = s[Len(s)]
  <2>1. s # <<>>  BY <1>1
  <2> HIDE DEF s
  <2>2. /\ Front(s) \in Seq(Calls) /\ Len(Front(s)) = Len(s) - 1
        /\ \A i \in 1..Len(s) - 1 : Front(s)[i] = s[i]
        /\ Len(s) \in DOMAIN s /\ Last(s) = s[Len(s)]
    BY <2>1, <1>3, FrontAndLast
  <2> QED BY <2>2
<1>5. Fewer  BY <1>0, <1>1, <1>4 DEF Fewer, Typed
<1>6. UNCHANGED <<alive, wrapper, natives, connected, refs, closures, freeing, finalizer>>
  BY <1>1 DEF objVars
<1>7. \A C : Freed(C)  BY <1>0, <1>6 DEF Freed, Typed
<1>8. CASE call.on \in connected \/ used \/ state[call.on] = "invalid"
  <2>1. Together'  BY <1>0, <1>6 DEF Stages, Together
  <2>2. state' = state /\ inval' = inval  BY <1>2, <1>8
  <2> QED BY <2>1, <2>2, <1>5, <1>6, <1>7, Shrinks
<1>9. CASE ~(call.on \in connected \/ used \/ state[call.on] = "invalid")
  <2>1. call \in Calls  BY <1>4, <1>0, TypedCall
  <2>2. call.on \in Ids /\ call.python \in BOOLEAN  BY <2>1 DEF Calls
  <2>3. state[call.on] = "valid" /\ (natives = {} => call.python)  BY <1>0, <1>4 DEF Kept
  <2>4. alive = "alive"  BY <1>0, <1>1 DEF Stages
  <2>5. StartInvalidate(t, call.on, call.python)  BY <1>2, <1>9
  <2>6. \A u \in Threads : \A i \in DOMAIN calling'[u] : calling'[u][i].on # call.on  BY <1>9
  <2> HIDE DEF call
  <2> QED BY <2>2, <2>3, <2>4, <2>5, <2>6, <1>1, <1>5, <1>6, <1>7, <1>9, Begins
<1> QED BY <1>8, <1>9

-----------------------------------------------------------------------------
(* An invalidation goes on, without effect on other closures.              *)
LEMMA GoesOn ==
  ASSUME IInv, NEW t \in Threads, inval[t] # Idle, NEW new \in Invals,
         new.on = inval[t].on, new.step \in {"write", "drop"},
         inval' = [inval EXCEPT ![t] = new], closures' \in Seq(Ids),
         UNCHANGED <<objVars, handVars, refs, calling>>
  PROVE  Typed' /\ Stages' /\ Kept'
<1>0. Typed /\ Stages /\ Kept  BY DEF IInv
<1>1. /\ alive' = alive /\ wrapper' = wrapper /\ finalizer' = finalizer
      /\ freeing' = freeing /\ state' = state /\ natives' = natives /\ connected' = connected
      /\ refs' = refs /\ calling' = calling
  BY DEF objVars, handVars
<1>4. Typed'  BY <1>0, <1>1 DEF Typed
<1>5. alive # "gone"  BY <1>0, ClosuresAssumption DEF Stages
<1>6. Stages'  BY <1>0, <1>1, <1>5 DEF Stages, Together
<1>8. Kept'  BY <1>0, <1>1 DEF Kept
<1> QED BY <1>4, <1>6, <1>8

(* No two threads change the list at once, if there are no native ones.    *)
LEMMA Alone ==
  ASSUME IInv, natives = {}, NEW t \in Threads, inval[t] # Idle,
         NEW u \in Threads, inval[u].step = "write"
  PROVE  u = t
<1>1. ~inval[u].locked /\ inval[u] # Idle /\ alive # "alive"
  BY DEF IInv, Listed, Idle
<1>2. t = finalizer /\ u = finalizer  BY <1>1 DEF IInv, Stages
<1> QED BY <1>2

(* The list loses the closure of t, by one step or the second of two.      *)
LEMMA Removes ==
  ASSUME IInv, NEW t \in Threads, inval[t] # Idle, NEW new \in Invals,
         new.on = inval[t].on, new.step = "drop", new.locked = inval[t].locked,
         inval' = [inval EXCEPT ![t] = new], closures' \in Seq(Ids),
         natives = {} => closures' = RemoveFirst(closures, inval[t].on),
         UNCHANGED <<objVars, handVars, refs, calling>>
  PROVE  IInv'
<1>0. Typed /\ Stages /\ Kept /\ (natives = {} => Listed)  BY DEF IInv
<1>1. Typed' /\ Stages' /\ Kept'  BY GoesOn
<1>2. /\ alive' = alive /\ freeing' = freeing /\ state' = state /\ natives' = natives
  BY DEF objVars, handVars
<1>3. inval'[t] = new /\ \A u \in Threads \ {t} : inval'[u] = inval[u]
  BY <1>0 DEF Typed
<1>4. ASSUME natives = {}  PROVE Listed'
  <2> DEFINE on == inval[t].on
  <2>0. Listed /\ closures \in Seq(Ids)  BY <1>0, <1>4 DEF Typed
  <2>1. Unequal(closures') /\ Watched' = Watched \ {on}
    BY <2>0, <1>4, RemovedFirst DEF Listed, Watched
  <2>2. state[on] = "invalid"  BY <1>0 DEF Kept
  <2>3. ASSUME NEW c \in Watched'
        PROVE  state[c] = "valid" \/
                 \E u \in Threads : inval'[u].on = c /\ inval'[u].step \in {"read", "write"}
    BY <2>0, <2>1 DEF Listed
  <2>4. \A c \in Ids : state[c] = "valid" => c \in Watched' \cup ToSet(freeing)
    BY <2>0, <2>1, <2>2 DEF Listed
  <2>5. freeing # <<>> => closures' = <<>>
    <3>1. ASSUME closures = <<>>  PROVE closures' = <<>>
      <4>1. RemoveFirst(closures, on) = closures  BY <3>1 DEF RemoveFirst
      <4> QED BY <4>1, <3>1, <1>4
    <3> QED BY <3>1, <2>0 DEF Listed
  <2>6. \A u \in Threads : inval'[u].step # "write"
    BY <1>3, <1>4, Alone
  <2>7. \A u \in Threads : inval'[u] # Idle /\ alive = "alive" => inval'[u].locked
    BY <2>0 DEF Listed
  <2> QED BY <2>1, <2>3, <2>4, <2>5, <2>6, <2>7, <1>2 DEF Listed
<1> QED BY <1>1, <1>2, <1>4 DEF IInv

LEMMA UnwatchStep ==
  ASSUME IInv, NEW t \in Threads, Unwatch(t)
  PROVE  IInv'
<1> DEFINE rest == RemoveFirst(closures, inval[t].on)
<1>0. Typed /\ (natives = {} => Listed)  BY DEF IInv
<1>1. /\ inval[t].step = "read" /\ inval[t] # Idle
      /\ UNCHANGED <<objVars, handVars, refs, calling>>
  BY DEF Unwatch, Idle
<1>2. inval[t] \in Invals /\ closures \in Seq(Ids)  BY <1>0 DEF Typed
<1>3. rest \in Seq(Ids)  BY <1>2, RemovedFirst
<1> HIDE DEF rest
<1>4. CASE inval[t].locked
  <2> DEFINE new == [inval[t] EXCEPT !.step = "drop"]
  <2>1. /\ new \in Invals /\ new.on = inval[t].on /\ new.step = "drop"
        /\ new.locked = inval[t].locked
    BY <1>2 DEF Invals, Steps
  <2>2. closures' = rest /\ inval' = [inval EXCEPT ![t] = new]
    BY <1>4 DEF Unwatch, rest
  <2> HIDE DEF new
  <2> QED BY <2>1, <2>2, <1>1, <1>3, Removes DEF rest
<1>5. CASE ~inval[t].locked
  <2> DEFINE new == [inval[t] EXCEPT !.step = "write", !.list = rest]
  <2>1. /\ new \in Invals /\ new.on = inval[t].on /\ new.step = "write" /\ new.list = rest
        /\ new.locked = inval[t].locked
    BY <1>2, <1>3 DEF Invals, Steps
  <2>2. closures' = closures /\ inval' = [inval EXCEPT ![t] = new]
    BY <1>5 DEF Unwatch, rest
  <2> HIDE DEF new
  <2>3. Typed' /\ Stages' /\ Kept'  BY <2>1, <2>2, <1>1, <1>2, GoesOn
  <2>4. /\ alive' = alive /\ freeing' = freeing /\ state' = state /\ natives' = natives
    BY <1>1 DEF objVars, handVars
  <2>5. inval'[t] = new /\ \A u \in Threads \ {t} : inval'[u] = inval[u]
    BY <2>2, <1>0 DEF Typed
  <2>6. ASSUME natives = {}  PROVE Listed'
    <3>0. Listed  BY <1>0, <2>6
    <3>1. ASSUME NEW c \in Watched
          PROVE  state[c] = "valid" \/
                   \E u \in Threads : inval'[u].on = c /\ inval'[u].step \in {"read", "write"}
      BY <3>0, <2>1, <2>5 DEF Listed
    <3>2. ASSUME NEW u \in Threads
          PROVE  /\ inval'[u] # Idle /\ alive = "alive" => inval'[u].locked
                 /\ inval'[u].step = "write" =>
                      ~inval'[u].locked /\ inval'[u].list = RemoveFirst(closures, inval'[u].on)
      <4>1. CASE u = t  BY <3>0, <2>1, <2>5, <1>1, <1>5 DEF Listed, rest
      <4>2. CASE u # t  BY <4>2, <3>0, <2>5 DEF Listed
      <4> QED BY <4>1, <4>2
    <3> QED BY <3>0, <3>1, <3>2, <2>2, <2>4 DEF Listed, Watched
  <2> QED BY <2>3, <2>4, <2>6 DEF IInv
<1> QED BY <1>4, <1>5

LEMMA UnwatchWriteStep ==
  ASSUME IInv, NEW t \in Threads, UnwatchWrite(t)
  PROVE  IInv'
<1> DEFINE new == [inval[t] EXCEPT !.step = "drop", !.list = <<>>]
<1>0. Typed /\ (natives = {} => Listed)  BY DEF IInv
<1>1. /\ inval[t].step = "write" /\ inval[t] # Idle /\ closures' = inval[t].list
      /\ inval' = [inval EXCEPT ![t].step = "drop", ![t].list = <<>>]
      /\ UNCHANGED <<objVars, handVars, refs, calling>>
  BY DEF UnwatchWrite, Idle
<1>2. inval[t] \in Invals /\ <<>> \in Seq(Ids)  BY <1>0 DEF Typed
<1>6. inval' = [inval EXCEPT ![t] = new]  BY <1>1
<1>3. /\ new \in Invals /\ new.on = inval[t].on /\ new.step = "drop"
      /\ new.locked = inval[t].locked
  BY <1>2 DEF Invals, Steps
<1>4. closures' \in Seq(Ids)  BY <1>1, <1>2 DEF Invals
<1>5. natives = {} => closures' = RemoveFirst(closures, inval[t].on)
  BY <1>0, <1>1 DEF Listed
<1> HIDE DEF new
<1> QED BY <1>1, <1>3, <1>4, <1>5, <1>6, Removes

(* pyg_closure_invalidate has dropped the references of the closure.       *)
LEMMA DropRefsStep ==
  ASSUME IInv, NEW t \in Threads, DropRefs(t)
  PROVE  IInv'
<1> DEFINE on == inval[t].on
<1>0. Typed /\ Stages /\ Kept /\ (natives = {} => Listed)  BY DEF IInv
<1>1. /\ inval[t].step = "drop" /\ inval[t] # Idle
      /\ inval' = [inval EXCEPT ![t] = Idle] /\ refs' = refs \ {on}
  BY DEF DropRefs, Idle
<1>2. /\ alive' = alive /\ wrapper' = wrapper /\ finalizer' = finalizer
      /\ freeing' = freeing /\ state' = state /\ natives' = natives /\ connected' = connected
      /\ closures' = closures /\ calling' = calling
  BY DEF DropRefs, objVars, handVars
<1>3. Idle \in Invals /\ Idle.on = NoClosure /\ Idle.step = "idle"
  BY DEF Idle, Invals, Steps
<1>4. /\ inval' \in [Threads -> Invals] /\ inval'[t] = Idle
      /\ \A u \in Threads \ {t} : inval'[u] = inval[u]
  BY <1>0, <1>1, <1>3 DEF Typed
<1>6. Typed'  BY <1>0, <1>1, <1>2, <1>4 DEF Typed
<1>7. Stages'  BY <1>0, <1>2, <1>4 DEF Stages, Together
<1>8. Kept'
  <2>1. \A c \in Ids : state[c] = "valid" => c \in refs'  BY <1>0, <1>1 DEF Kept
  <2>2. \A c \in refs' : state[c] = "valid" \/ \E u \in Threads : inval'[u].on = c
    BY <1>0, <1>1 DEF Kept
  <2>3. ASSUME NEW u \in Threads \ {t}, inval[u] # Idle
        PROVE  /\ inval[u].on \in refs' /\ state[inval[u].on] = "invalid" /\ inval[u].step # "idle"
               /\ \A v \in Threads : inval'[v].on = inval[u].on => v = u
    <3>1. /\ inval[u].on \in refs /\ state[inval[u].on] = "invalid" /\ inval[u].step # "idle"
          /\ \A v \in Threads : inval[v].on = inval[u].on => v = u
      BY <1>0, <2>3 DEF Kept
    <3>2. inval[u].on # NoClosure  BY <3>1, <1>0, ClosuresAssumption DEF Typed
    <3> QED BY <3>1, <3>2, <1>1, <1>3
  <2> QED BY <2>1, <2>2, <2>3, <1>0, <1>2, <1>4 DEF Kept
<1>9. ASSUME natives = {}  PROVE Listed'
  <2>0. Listed  BY <1>0, <1>9
  <2>1. ASSUME NEW c \in Watched
        PROVE  state[c] = "valid" \/
                 \E u \in Threads : inval'[u].on = c /\ inval'[u].step \in {"read", "write"}
    BY <2>0, <1>1 DEF Listed
  <2>2. ASSUME NEW u \in Threads
        PROVE  /\ inval'[u] # Idle /\ alive = "alive" => inval'[u].locked
               /\ inval'[u].step = "write" =>
                    ~inval'[u].locked /\ inval'[u].list = RemoveFirst(closures, inval'[u].on)
    BY <2>0, <1>3, <1>4 DEF Listed
  <2> QED BY <2>0, <2>1, <2>2, <1>2 DEF Listed, Watched
<1> QED BY <1>2, <1>6, <1>7, <1>8, <1>9 DEF IInv

-----------------------------------------------------------------------------
(* Python code connects and disconnects.                                   *)
LEMMA WatchStep ==
  ASSUME IInv, NEW t \in Threads, NEW f \in Funcs, Connect(t, f) \/ Watch(t, f)
  PROVE  IInv'
<1>1. alive = "alive"  BY DEF Connect, Watch, HasObject
<1>2. PICK c \in Ids : NewClosure(c, f) /\ connected' \subseteq connected \cup {c}
  BY DEF Connect, Watch
<1>3. UNCHANGED <<alive, wrapper, finalizer, freeing, natives, calling, inval>>
  BY DEF Connect, Watch, objVars
<1> QED BY <1>1, <1>2, <1>3, NewStep

LEMMA UnlinkStep ==
  ASSUME IInv, NEW t \in Threads, NEW c \in connected, HasObject(t), Unlink(t, c)
  PROVE  IInv'
<1>0. Typed /\ Stages /\ Kept  BY DEF IInv
<1>1. inval[t] = Idle /\ alive = "alive"  BY DEF HasObject, InPython
<1>2. UNCHANGED <<alive, wrapper, natives, refs, closures, freeing, finalizer, calling>>
  BY DEF Unlink, objVars
<1>3. connected' = connected \ {c} /\ c \in Ids /\ state[c] = "valid"
  BY <1>0 DEF Unlink, RemoveHandler, Typed, Kept
<1>4. Fewer  BY <1>0, <1>2, Fallen DEF Typed
<1>5. \A C : Freed(C)  BY <1>0, <1>2 DEF Freed, Typed
<1>6. CASE c \in Busy
  <2>1. state' = state /\ inval' = inval  BY <1>6 DEF Unlink
  <2>2. Together'  BY <1>0, <1>2 DEF Stages, Together
  <2> QED BY <2>1, <2>2, <1>2, <1>3, <1>4, <1>5, Shrinks
<1>7. CASE c \notin Busy
  <2>1. StartInvalidate(t, c, TRUE)  BY <1>7 DEF Unlink
  <2>2. \A u \in Threads : \A i \in DOMAIN calling'[u] : calling'[u][i].on # c
    BY <1>2, <1>3, <1>7 DEF Busy
  <2> QED BY <2>1, <2>2, <1>1, <1>2, <1>3, <1>4, <1>5, Begins
<1> QED BY <1>6, <1>7

LEMMA DisconnectStep ==
  ASSUME IInv, NEW t \in Threads,
         (\E c \in Ids : Disconnect(t, c)) \/ \E f \in Funcs : DisconnectByFunc(t, f)
  PROVE  IInv'
<1>1. PICK c \in connected : HasObject(t) /\ Unlink(t, c)
  BY DEF Disconnect, DisconnectByFunc
<1> QED BY <1>1, UnlinkStep

LEMMA EmitStep ==
  ASSUME IInv, NEW t \in Threads, NEW c \in Ids, Emit(t, c) \/ EmitNative(t, c)
  PROVE  IInv'
<1>1. /\ alive = "alive" /\ state[c] = "valid"
      /\ UNCHANGED <<objVars, handVars, refs, closures, inval>>
  BY DEF Emit, EmitNative, HasObject, Callable
<1>2. CASE Emit(t, c)
  <2> DEFINE call == [on |-> c, python |-> TRUE, running |-> TRUE]
  <2>1. call \in Calls /\ call.on = c /\ call.python  BY DEF Calls
  <2>2. calling' = [calling EXCEPT ![t] = Append(@, call)]  BY <1>2 DEF Emit
  <2> HIDE DEF call
  <2> QED BY <2>1, <2>2, <1>1, CallStep
<1>3. CASE EmitNative(t, c)
  <2> DEFINE call == [on |-> c, python |-> FALSE, running |-> FALSE]
  <2>1. call \in Calls /\ call.on = c  BY DEF Calls
  <2>2. calling[t] = <<>> /\ natives # {} /\ calling' = [calling EXCEPT ![t] = <<call>>]
    BY <1>3 DEF EmitNative
  <2> HIDE DEF call
  <2>4. calling' = [calling EXCEPT ![t] = Append(@, call)]  BY <2>2
  <2> QED BY <2>1, <2>2, <2>4, <1>1, CallStep
<1> QED BY <1>2, <1>3

-----------------------------------------------------------------------------
(* The GObject goes.                                                       *)
LEMMA DyingStep ==
  ASSUME IInv, NEW t \in Threads, alive = "alive", ~Emitting, alive' = "destroying", finalizer' = t,
         wrapper' = "cleared",
         UNCHANGED <<freeing, state, natives, connected, refs, closures, calling, inval>>
  PROVE  IInv'
<1>0. Typed /\ Stages /\ Kept /\ (natives = {} => Listed)  BY DEF IInv
<1>1. /\ freeing' = freeing /\ state' = state /\ natives' = natives /\ connected' = connected
      /\ refs' = refs /\ closures' = closures /\ calling' = calling /\ inval' = inval
  OBVIOUS
<1>2. \A u \in Threads : calling[u] = <<>> /\ inval[u] = Idle  BY DEF Emitting
<1>3. Typed'  BY <1>0, <1>1 DEF Typed
<1>4. Stages'  BY <1>0, <1>2, ClosuresAssumption DEF Stages, Together
<1>5. Kept'  BY <1>0, <1>1 DEF Kept
<1>6. ASSUME natives = {}  PROVE Listed'
  BY <1>0, <1>1, <1>6 DEF Listed, Watched
<1> QED BY <1>1, <1>3, <1>4, <1>5, <1>6 DEF IInv

LEMMA ClearStep ==
  ASSUME IInv, NEW t \in Threads, Clear(t)
  PROVE  IInv'
<1>0. Typed /\ Stages  BY DEF IInv
<1>1. /\ UNCHANGED <<freeing, state, natives, connected, refs, closures, calling, inval>>
      /\ wrapper' = "cleared" /\ ~Emitting
  BY DEF Clear
<1>2. alive = "alive"  BY <1>0 DEF Clear, Stages, Together
<1>3. CASE owned
  <2>1. alive' = alive /\ finalizer' = finalizer  BY <1>3 DEF Clear
  <2>2. Fewer  BY <1>0, <1>1, Fallen DEF Typed
  <2>3. Freed({c \in Ids : state[c] # "valid"})  BY <1>0, <1>1 DEF Freed, Typed
  <2>4. Together'  BY <1>1 DEF Together
  <2> QED BY <2>1, <2>2, <2>3, <2>4, <1>1, Shrinks
<1>4. CASE ~owned
  <2>1. alive' = "destroying" /\ finalizer' = t  BY <1>4 DEF Clear
  <2> QED BY <2>1, <1>1, <1>2, DyingStep
<1> QED BY <1>3, <1>4

LEMMA FinalizeStep ==
  ASSUME IInv, NEW t \in Threads, Finalize(t)
  PROVE  IInv'
<1>1. /\ alive = "alive" /\ ~Emitting /\ alive' = "destroying" /\ finalizer' = t
      /\ wrapper' = "cleared"
      /\ UNCHANGED <<freeing, state, natives, connected, refs, closures, calling, inval>>
  BY DEF Finalize, handVars
<1> QED BY <1>1, DyingStep

(* g_signal_handlers_destroy and pygobject_data_free                       *)
LEMMA Dying ==
  ASSUME IInv, NEW t \in Threads, finalizer = t
  PROVE  /\ alive = "destroying" /\ \A u \in Threads : calling[u] = <<>>
         /\ inval[t] = Idle => \A u \in Threads : inval[u] = Idle
BY ClosuresAssumption DEF IInv, Stages

LEMMA DestroyHandlerStep ==
  ASSUME IInv, NEW t \in Threads, NEW c \in Ids, DestroyHandler(t, c)
  PROVE  IInv'
<1>0. Typed /\ Stages /\ Kept  BY DEF IInv
<1>1. /\ finalizer = t /\ inval[t] = Idle /\ c \in connected /\ connected' = connected \ {c}
      /\ UNCHANGED <<alive, wrapper, natives, refs, closures, freeing, finalizer, calling>>
  BY DEF DestroyHandler, RemoveHandler, objVars
<1>2. state[c] = "valid"  BY <1>0, <1>1 DEF Kept
<1>3. StartInvalidate(t, c, FALSE)  BY <1>2 DEF DestroyHandler
<1>4. Fewer  BY <1>0, <1>1, Fallen DEF Typed
<1>5. Freed({c})  BY <1>0, <1>1 DEF Freed, Typed
<1>6. \A u \in Threads : calling[u] = <<>>  BY <1>1, Dying
<1>7. \A u \in Threads : \A i \in DOMAIN calling'[u] : calling'[u][i].on # c  BY <1>1, <1>6
<1> QED BY <1>1, <1>2, <1>3, <1>4, <1>5, <1>7, Begins

LEMMA DataFreeStep ==
  ASSUME IInv, NEW t \in Threads, DataFree(t)
  PROVE  IInv'
<1>0. Typed /\ Stages /\ Kept /\ (natives = {} => Listed)  BY DEF IInv
<1>1. /\ alive' = alive /\ wrapper' = wrapper /\ finalizer' = finalizer
      /\ state' = state /\ natives' = natives /\ connected' = connected /\ refs' = refs
      /\ calling' = calling /\ inval' = inval
      /\ freeing' = closures /\ closures' = <<>> /\ closures # <<>> /\ connected = {}
  BY DEF DataFree, handVars
<1>2. alive = "destroying" /\ \A u \in Threads : inval[u] = Idle  BY Dying DEF DataFree
<1>3. Typed'
  <2> QED BY <1>0, <1>1 DEF Typed
<1>4. Stages'  BY <1>0, <1>1, <1>2 DEF Stages, Together
<1>5. Kept'  BY <1>0, <1>1 DEF Kept
<1>6. ASSUME natives = {}  PROVE Listed'
  <2>1. /\ freeing = <<>> /\ \A c \in Ids : state[c] = "valid" => c \in Watched
    <3>1. freeing = <<>>  BY <1>0, <1>1, <1>6 DEF Listed
    <3>2. ToSet(freeing) = {}  BY <3>1 DEF ToSet
    <3> QED BY <3>1, <3>2, <1>0, <1>6 DEF Listed
  <2>2. Unequal(closures') /\ Watched' = {} /\ ToSet(freeing') = Watched
    BY <1>1 DEF Unequal, Watched, ToSet
  <2>3. \A u \in Threads : inval[u].step # "write"  BY <1>2 DEF Idle
  <2> QED BY <2>1, <2>2, <2>3, <1>1, <1>2 DEF Listed
<1> QED BY <1>1, <1>3, <1>4, <1>5, <1>6 DEF IInv

LEMMA FreeNextStep ==
  ASSUME IInv, NEW t \in Threads, FreeNext(t)
  PROVE  IInv'
<1> DEFINE c == Head(freeing)
<1>0. Typed /\ Stages /\ Kept  BY DEF IInv
<1>1. /\ finalizer = t /\ inval[t] = Idle /\ freeing # <<>> /\ freeing' = Tail(freeing)
      /\ UNCHANGED <<alive, wrapper, natives, connected, refs, closures, finalizer, calling>>
  BY DEF FreeNext
<1>2. Fewer  BY <1>0, <1>1, Fallen DEF Typed
<1>3. c \in Ids /\ Freed({c})
  <2> DEFINE s == freeing
  <2>1. s \in Seq(Ids) /\ s # <<>>  BY <1>0, <1>1 DEF Typed
  <2> HIDE DEF s
  <2>2. /\ Head(s) \in Ids /\ Tail(s) \in Seq(Ids) /\ Len(Tail(s)) = Len(s) - 1
        /\ \A i \in 1..Len(Tail(s)) : Tail(s)[i] = s[i + 1]
    BY <2>1
  <2>3. ASSUME NEW x \in ToSet(s)  PROVE x \in ToSet(Tail(s)) \/ x = Head(s)
    <3>1. PICK i \in 1..Len(s) : x = s[i]  BY DEF ToSet
    <3>2. CASE i = 1  BY <3>1, <3>2
    <3>3. CASE i # 1
      <4>1. i - 1 \in 1..Len(Tail(s)) /\ Tail(s)[i - 1] = x  BY <3>1, <3>3
      <4>2. DOMAIN Tail(s) = 1..Len(Tail(s))  BY <2>2
      <4> QED BY <4>1, <4>2 DEF ToSet
    <3> QED BY <3>2, <3>3
  <2> QED BY <2>1, <2>3, <1>1 DEF Freed, s
<1> HIDE DEF c
<1>4. CASE state[c] = "valid"
  <2>1. StartInvalidate(t, c, FALSE)  BY <1>4 DEF FreeNext, c
  <2>2. \A u \in Threads : calling[u] = <<>>  BY <1>1, Dying
  <2>3. \A u \in Threads : \A i \in DOMAIN calling'[u] : calling'[u][i].on # c  BY <1>1, <2>2
  <2>4. c \notin connected' /\ connected' \subseteq connected  BY <1>0, <1>1 DEF Stages
  <2> QED BY <2>1, <2>3, <2>4, <1>1, <1>2, <1>3, <1>4, Begins
<1>5. CASE state[c] # "valid"
  <2>1. state' = state /\ inval' = inval  BY <1>5 DEF FreeNext, c
  <2>2. Freed({d \in Ids : state[d] # "valid"})  BY <1>3, <1>5 DEF Freed
  <2>3. Together'  BY <1>0, <1>1 DEF Stages, Together
  <2> QED BY <2>1, <2>2, <2>3, <1>1, <1>2, Shrinks
<1> QED BY <1>4, <1>5

LEMMA GoneStep ==
  ASSUME IInv, NEW t \in Threads, Gone(t)
  PROVE  IInv'
<1>0. Typed /\ Stages /\ Kept /\ (natives = {} => Listed)  BY DEF IInv
<1>1. /\ wrapper' = wrapper /\ state' = state /\ natives' = natives
      /\ connected' = connected /\ refs' = refs /\ calling' = calling /\ inval' = inval
      /\ freeing' = freeing /\ closures' = closures
      /\ alive' = "gone" /\ finalizer' = NoThread /\ closures = <<>> /\ freeing = <<>>
  BY DEF Gone, handVars
<1>2. /\ alive = "destroying" /\ \A u \in Threads : inval[u] = Idle /\ calling[u] = <<>>
  BY Dying DEF Gone
<1>3. Typed'  BY <1>0, <1>1 DEF Typed
<1>4. Stages'  BY <1>0, <1>1, <1>2 DEF Stages, Together
<1>5. Kept'  BY <1>0, <1>1 DEF Kept
<1>6. ASSUME natives = {}  PROVE Listed'
  BY <1>0, <1>1, <1>6 DEF Listed, Watched
<1> QED BY <1>1, <1>3, <1>4, <1>5, <1>6 DEF IInv

-----------------------------------------------------------------------------
(* Steps that leave all of this alone.                                     *)
LEMMA RestStep ==
  ASSUME IInv, Together', UNCHANGED <<alive, freeing, finalizer, state, natives, connected, refs,
                                      closures, calling, inval>>
  PROVE  IInv'
<1>0. Typed  BY DEF IInv
<1>1. Fewer  BY <1>0, Fallen DEF Typed
<1>2. Freed({c \in Ids : state[c] # "valid"})  BY <1>0 DEF Freed, Typed
<1> QED BY <1>1, <1>2, Shrinks

LEMMA BlockStep ==
  ASSUME IInv, NEW t, NEW c, Block(t, c) \/ Unblock(t, c)
  PROVE  IInv'
<1>1. UNCHANGED <<wrapper, alive, freeing, finalizer, state, natives, connected, refs,
                  closures, calling, inval>>
  BY DEF Block, Unblock, objVars
<1>2. Together'  BY <1>1 DEF IInv, Stages, Together
<1> QED BY <1>1, <1>2, RestStep

LEMMA FrameStep ==
  ASSUME IInv, LetGo \/ NativeUnref \/ Wrap \/ UNCHANGED vars
  PROVE  IInv'
<1>1. UNCHANGED <<alive, freeing, finalizer, state, natives, connected, refs, closures, calling,
                  inval>>
  BY DEF LetGo, NativeUnref, Wrap, vars, objVars, handVars
<1>2. wrapper' = wrapper \/ alive = "alive"
  BY DEF LetGo, NativeUnref, Wrap, vars, objVars, IInv, Stages, Together
<1>3. Together'  BY <1>1, <1>2 DEF IInv, Stages, Together
<1> QED BY <1>1, <1>3, RestStep

LEMMA Begun == Init => IInv
<1> SUFFICES ASSUME Init  PROVE IInv  OBVIOUS
<1>1. /\ Idle \in Invals /\ Idle.step = "idle" /\ Idle.on = NoClosure
      /\ <<>> \in Seq(Calls) /\ <<>> \in Seq(Ids)
  BY DEF Idle, Invals, Steps
<1>2. Typed  BY <1>1 DEF Init, Typed
<1>3. Stages  BY DEF Init, Stages, Together
<1>4. Kept  BY DEF Init, Kept
<1>5. Listed
  <2>1. Unequal(closures) /\ Watched = {} /\ freeing = <<>>  BY DEF Init, Unequal, Watched, ToSet
  <2> QED BY <2>1, <1>1 DEF Init, Listed
<1> QED BY <1>2, <1>3, <1>4, <1>5 DEF IInv

LEMMA Inductive ==
  ASSUME IInv, [Next]_vars
  PROVE  IInv'
<1>1. ASSUME NEW t \in Threads, NEW f \in Funcs,
             \/ Connect(t, f) \/ Watch(t, f) \/ DisconnectByFunc(t, f)
             \/ BlockByFunc(t, f) \/ UnblockByFunc(t, f)
      PROVE  IInv'
  <2>1. CASE Connect(t, f) \/ Watch(t, f)  BY <2>1, WatchStep
  <2>2. CASE DisconnectByFunc(t, f)  BY <2>2, DisconnectStep
  <2>3. CASE BlockByFunc(t, f) \/ UnblockByFunc(t, f)
    BY <2>3, BlockStep DEF BlockByFunc, UnblockByFunc
  <2> QED BY <1>1, <2>1, <2>2, <2>3
<1>2. ASSUME NEW t \in Threads, NEW c \in Ids,
             \/ Disconnect(t, c) \/ Block(t, c) \/ Unblock(t, c)
             \/ Emit(t, c) \/ EmitNative(t, c) \/ DestroyHandler(t, c)
      PROVE  IInv'
  BY <1>2, DisconnectStep, BlockStep, EmitStep, DestroyHandlerStep
<1>3. ASSUME NEW t \in Threads,
             \/ Marshal(t) \/ Return(t) \/ Unwatch(t) \/ UnwatchWrite(t) \/ DropRefs(t)
             \/ Clear(t) \/ Finalize(t) \/ DataFree(t) \/ FreeNext(t) \/ Gone(t)
      PROVE  IInv'
  BY <1>3, MarshalStep, ReturnStep, UnwatchStep, UnwatchWriteStep, DropRefsStep, ClearStep,
     FinalizeStep, DataFreeStep, FreeNextStep, GoneStep
<1>4. CASE LetGo \/ NativeUnref \/ Wrap \/ UNCHANGED vars  BY <1>4, FrameStep
<1> QED BY <1>1, <1>2, <1>3, <1>4 DEF Next

LEMMA Invariance == Spec => []IInv
<1> QED BY Begun, Inductive, PTL DEF Spec

(* The callback that pyg_closure_marshal calls is kept by its closure; what
   pygobject_traverse shows the collector is all that can be called, once,
   unless a native thread emits; and nothing is left when the GObject is
   gone.                                                                   *)
THEOREM CallbacksStayAlive == Spec => []CallbacksKept
<1>1. ASSUME IInv  PROVE CallbacksKept
  <2>0. Typed /\ Stages /\ Kept /\ (natives = {} => Listed)  BY <1>1 DEF IInv
  <2>1. CallbackAlive
    <3>1. ASSUME NEW c \in Busy  PROVE c \in refs
      <4>1. PICK t \in Threads : \E i \in DOMAIN calling[t] : calling[t][i].on = c
        BY DEF Busy
      <4>2. PICK i \in DOMAIN calling[t] : calling[t][i].on = c  BY <4>1
      <4> QED BY <4>2, <2>0, TypedCall DEF Kept
    <3> QED BY <3>1 DEF CallbackAlive
  <2>2. ASSUME natives = {}  PROVE Enumerated /\ Watched \subseteq refs
    <3>0. Listed  BY <2>0, <2>2
    <3>1. ASSUME alive = "alive"  PROVE connected \cup Busy \subseteq Watched
      <4>1. freeing = <<>> /\ ToSet(freeing) = {}  BY <2>0, <3>1 DEF Stages, ToSet
      <4>2. \A c \in Ids : state[c] = "valid" => c \in Watched  BY <3>0, <4>1 DEF Listed
      <4>3. \A c \in connected : c \in Ids /\ state[c] = "valid"  BY <2>0 DEF Typed, Kept
      <4>4. \A c \in Busy : c \in Ids /\ state[c] = "valid"  BY <2>0 DEF Busy, Kept
      <4> QED BY <4>2, <4>3, <4>4
    <3>2. Len(closures) = Cardinality(Watched)
      BY <2>0, <3>0, LengthOfUnequal DEF Typed, Listed, Watched
    <3>3. Watched \subseteq refs
      <4>1. ASSUME NEW c \in Watched  PROVE c \in refs
        <5>1. c \in Ids  BY <2>0, TypedWatched
        <5>2. CASE state[c] = "valid"  BY <5>1, <5>2, <2>0 DEF Kept
        <5>3. CASE state[c] # "valid"
          <6>1. PICK t \in Threads : inval[t].on = c /\ inval[t].step \in {"read", "write"}
            BY <3>0, <5>3 DEF Listed
          <6> QED BY <6>1, <2>0 DEF Kept, Idle
        <5> QED BY <5>2, <5>3
      <4> QED BY <4>1
    <3> QED BY <3>1, <3>2, <3>3 DEF Enumerated
  <2>3. ASSUME natives = {}, alive = "gone"  PROVE refs = {}
    <3>1. freeing = <<>> /\ closures = <<>> /\ finalizer = NoThread  BY <2>0, <2>3 DEF Stages
    <3>2. ToSet(freeing) = {} /\ Watched = {}  BY <3>1 DEF ToSet, Watched
    <3>3. \A t \in Threads : inval[t] = Idle
      BY <2>0, <2>3, ClosuresAssumption DEF Stages
    <3>4. ASSUME NEW c \in refs  PROVE FALSE
      <4>1. c \in Ids /\ c # NoClosure  BY <2>0, ClosuresAssumption DEF Typed
      <4>2. state[c] # "valid"  BY <4>1, <2>0, <2>3, <3>2 DEF Listed
      <4> QED BY <4>1, <4>2, <2>0, <3>3 DEF Kept, Idle
    <3> QED BY <3>4
  <2> QED BY <2>1, <2>2, <2>3 DEF CallbacksKept, TraverseSafe, AllReleased
<1> QED BY <1>1, Invariance, PTL
=============================================================================
