---------------------------- MODULE GObjectProofs ----------------------------
(***************************************************************************)
(* Proofs about two parts of the gobject module that share nothing:        *)
(* WeakRef, for any threads and callbacks; and Values, for any widths of   *)
(* int and long, any arguments and limits of properties, and any number of *)
(* boxed values and wrappers.                                              *)
(***************************************************************************)
EXTENDS WeakRef, Values, Integers, SequenceTheorems, FiniteSetTheorems, TLAPS

-----------------------------------------------------------------------------
(* Weak references                                                         *)

(* TypeOK, except that a flag that says a reference is owned when none is
   can take the count below zero.                                          *)
Typed ==
  /\ owners \in SUBSET Threads /\ disposer \in Threads \cup {NoThread}
  /\ gone \in BOOLEAN /\ registered \in BOOLEAN
  /\ stage \in {"none", "live", "freed"}
  /\ obj \in BOOLEAN /\ callback \in BOOLEAN /\ have_floating_ref \in BOOLEAN
  /\ rc \in Int /\ holds \in SUBSET Threads
  /\ notify \in {"idle", "entered", "waiting", "callback"}
  /\ calls \in {0, 1} /\ announces \in BOOLEAN /\ unreffed \in BOOLEAN
  /\ gil \in Threads \cup {NoThread}
  /\ pc \in [Threads -> {"run", "call", "unref"}]

Floats == IF have_floating_ref THEN 1 ELSE 0

(* What have_floating_ref says is true.                                    *)
Known == announces \/ Uninitialised = {FALSE}

(* A method between its two steps has the GIL and the weak reference; the
   thread that disposes is in no method, except in the callback.           *)
MethodsOK ==
  /\ \A t \in Threads : pc[t] # "run" => gil = t /\ t \in holds /\ stage = "live"
  /\ disposer # NoThread /\ notify # "callback" => pc[disposer] = "run"

(* Nothing has happened to a weak reference that is not made.              *)
UnmadeOK ==
  stage = "none" =>
    /\ ~registered /\ ~obj /\ ~callback /\ ~have_floating_ref /\ holds = {} /\ rc = 0
    /\ notify = "idle" /\ calls = 0 /\ ~announces /\ ~unreffed
    /\ gone => owners = {}

(* Where the GObject and the weak reference point at each other            *)
ListOK ==
  /\ registered => obj /\ notify = "idle" /\ calls = 0 /\ ~unreffed
  /\ obj => stage = "live" /\ ~gone /\ (registered \/ notify = "entered")

NotifyOK ==
  /\ notify # "idle" => disposer \in Threads /\ ~gone
  /\ notify \in {"entered", "waiting"} => calls = 0
  /\ notify \in {"waiting", "callback"} => announces
  /\ notify = "callback" => calls = 1

(* A callback that is still to be called, and keeps the weak reference     *)
PendingOK ==
  announces /\ ~unreffed /\ calls = 0 =>
    /\ stage = "live" /\ callback /\ have_floating_ref
    /\ registered \/ notify \in {"entered", "waiting"}

CountOK ==
  /\ callback => announces
  /\ Known => /\ holds # {} \/ have_floating_ref => stage = "live"
              /\ stage = "live" => rc = Cardinality(holds) + Floats

IInv == Typed /\ MethodsOK /\ UnmadeOK /\ ListOK /\ NotifyOK /\ PendingOK /\ CountOK

(* With the GIL: a thread that disposes has it, except in the callback;
   while a method has it, nothing is announced; and the callback is that of a
   weak reference that has its floating reference.                         *)
Locks ==
  /\ disposer # NoThread /\ notify # "callback" =>
        gil = disposer /\ \A t \in Threads : pc[t] = "run"
  /\ \A t \in Threads : pc[t] # "run" => registered
  /\ notify # "idle" => ~unreffed /\ (notify = "entered" => obj)
  /\ notify \in {"waiting", "callback"} => have_floating_ref /\ ~obj
LInv == ~Unlocked => Locks

-----------------------------------------------------------------------------
LEMMA Holders ==
  ASSUME holds \in SUBSET Threads
  PROVE  /\ Cardinality(holds) \in Nat
         /\ Cardinality(holds) = 0 => holds = {}
         /\ \A u \in Threads \ holds : Cardinality(holds \cup {u}) = Cardinality(holds) + 1
         /\ \A u \in holds : Cardinality(holds \ {u}) = Cardinality(holds) - 1
<1>1. IsFiniteSet(holds)
  BY FS_Subset, WeakRefAssumption
<1> QED
  BY <1>1, FS_CardinalityType, FS_EmptySet, FS_AddElement, FS_RemoveElement

LEMMA Single == \A t : Cardinality({t}) = 1 /\ Cardinality({}) = 0
  BY FS_Singleton, FS_EmptySet

(* What CountOK is about has not changed.                                  *)
LEMMA CountSame ==
  ASSUME CountOK, UNCHANGED <<stage, holds, have_floating_ref, rc, announces, callback>>
  PROVE  CountOK'
<1>1. Floats' = Floats /\ Known' = Known /\ stage' = stage /\ holds' = holds /\ rc' = rc
      /\ callback' = callback /\ announces' = announces /\ have_floating_ref' = have_floating_ref
  BY DEF Floats, Known
<1> QED
  BY <1>1 DEF CountOK

LEMMA InitKeeps == Init => IInv /\ LInv
<1> SUFFICES ASSUME Init PROVE IInv /\ LInv
  OBVIOUS
<1>1. /\ ~gone /\ ~registered /\ ~obj /\ ~callback /\ ~have_floating_ref /\ ~announces /\ ~unreffed
      /\ stage = "none" /\ holds = {} /\ notify = "idle" /\ disposer = NoThread /\ calls = 0 /\ rc = 0
  BY Zenon DEF Init
<1>2. Typed
  <2>1. /\ gone \in BOOLEAN /\ registered \in BOOLEAN /\ obj \in BOOLEAN /\ callback \in BOOLEAN
        /\ have_floating_ref \in BOOLEAN /\ announces \in BOOLEAN /\ unreffed \in BOOLEAN
    BY Zenon DEF Init
  <2>2. owners \in SUBSET Threads /\ pc \in [Threads -> {"run", "call", "unref"}] /\ gil = NoThread
    BY DEF Init
  <2> QED
    BY <1>1, <2>1, <2>2 DEF Typed
<1>3. MethodsOK /\ Locks
  BY DEF Init, MethodsOK, Locks
<1>4. UnmadeOK /\ ListOK /\ NotifyOK /\ PendingOK /\ CountOK
  BY <1>1 DEF UnmadeOK, ListOK, NotifyOK, PendingOK, CountOK
<1> QED
  BY <1>2, <1>3, <1>4 DEF IInv, LInv

LEMMA NewKeeps ==
  ASSUME IInv, LInv, NEW t \in Threads, NEW cb \in Callbacks, New(t, cb)
  PROVE  IInv' /\ LInv'
<1> USE WeakRefAssumption DEF IInv, New, InPython
<1>0. /\ have_floating_ref' \in BOOLEAN /\ callback' \in BOOLEAN /\ announces' = callback'
      /\ callback' => have_floating_ref' = TRUE /\ rc' = 2
      /\ ~callback' => have_floating_ref' \in Uninitialised /\ rc' = 1
  BY DEF Typed
<1>1. Typed'
  BY <1>0 DEF Typed
<1>2. MethodsOK'
  BY DEF MethodsOK
<1>3. UnmadeOK'
  BY DEF UnmadeOK
<1>4. ListOK'
  BY DEF UnmadeOK, ListOK
<1>5. NotifyOK'
  BY DEF UnmadeOK, NotifyOK
<1>6. PendingOK'
  BY DEF PendingOK
<1>7. CountOK'
  <2>1. Cardinality(holds') = 1 /\ stage' = "live"
    BY Single
  <2>2. CASE callback'
    BY <2>1, <2>2 DEF CountOK, Floats
  <2>3. CASE ~callback'
    <3>1. Known' => have_floating_ref' = FALSE
      BY <2>3 DEF Known
    <3> QED
      BY <1>0, <2>1, <3>1 DEF CountOK, Floats
  <2> QED
    BY <2>2, <2>3
<1>8. LInv'
  BY DEF UnmadeOK, LInv, Locks
<1> QED
  BY <1>1, <1>2, <1>3, <1>4, <1>5, <1>6, <1>7, <1>8

LEMMA ShareKeeps ==
  ASSUME IInv, LInv, NEW t \in Threads, NEW u \in Threads, Share(t, u)
  PROVE  IInv' /\ LInv'
<1> USE WeakRefAssumption DEF IInv, Share, InPython, gobjectVars
<1>1. Typed'
  BY DEF Typed
<1>2. MethodsOK'
  BY DEF MethodsOK
<1>3. UnmadeOK'
  BY DEF UnmadeOK
<1>4. ListOK'
  BY DEF ListOK
<1>5. NotifyOK'
  BY DEF NotifyOK
<1>6. PendingOK'
  BY DEF PendingOK
<1>7. CountOK'
  <2>1. Cardinality(holds') = Cardinality(holds) + 1 /\ Cardinality(holds) \in Nat
    BY Holders DEF Typed
  <2>2. /\ Known' = Known /\ Floats' = Floats /\ stage' = stage /\ holds # {}
        /\ rc' = rc + 1 /\ callback' = callback /\ announces' = announces
    BY DEF Known, Floats
  <2> QED
    BY <2>1, <2>2 DEF CountOK, Floats
<1>8. LInv'
  BY DEF LInv, Locks
<1> QED
  BY <1>1, <1>2, <1>3, <1>4, <1>5, <1>6, <1>7, <1>8

LEMMA DropKeeps ==
  ASSUME IInv, LInv, NEW t \in Threads, Drop(t)
  PROVE  IInv' /\ LInv'
<1> USE WeakRefAssumption DEF IInv, Drop, InPython, DecRef, Clear
<1>0. /\ rc' = rc - 1 /\ holds' = holds \ {t} /\ t \in holds /\ gil = NoThread
      /\ Cardinality(holds') = Cardinality(holds) - 1 /\ Cardinality(holds') \in Nat
      /\ Cardinality(holds) \in Nat /\ (callback' => callback)
      /\ Cardinality(holds') = 0 => holds' = {}
      /\ \/ /\ rc = 1 /\ stage' = "freed" /\ ~callback' /\ ~obj' /\ registered' = (registered /\ ~obj)
         \/ rc # 1 /\ UNCHANGED <<stage, callback, obj, registered>>
  <2>1. IsFiniteSet(holds \ {t})
    BY FS_Subset DEF Typed
  <2>2. Cardinality(holds \ {t}) \in Nat /\ (Cardinality(holds \ {t}) = 0 => holds \ {t} = {})
    BY <2>1, FS_CardinalityType, FS_EmptySet
  <2> QED
    BY <2>2, Holders DEF Typed
<1>1. Typed'
  <2>2. callback' \in BOOLEAN /\ obj' \in BOOLEAN /\ registered' \in BOOLEAN
    BY DEF Typed
  <2> QED
    BY <2>2 DEF Typed
<1>2. MethodsOK'
  BY DEF MethodsOK
<1>3. UnmadeOK'
  BY DEF UnmadeOK
<1>4. ListOK'
  BY DEF ListOK
<1>5. NotifyOK'
  BY DEF NotifyOK
<1>6. PendingOK'
  <2> SUFFICES ASSUME announces, ~unreffed, calls = 0
               PROVE  /\ stage' = "live" /\ callback' /\ have_floating_ref'
                      /\ registered' \/ notify' \in {"entered", "waiting"}
    BY DEF PendingOK
  <2>1. stage = "live" /\ callback /\ have_floating_ref /\ (registered \/ notify \in {"entered", "waiting"})
    BY DEF PendingOK
  <2>2. rc = Cardinality(holds) + 1
    BY <2>1 DEF CountOK, Known, Floats
  <2>3. rc # 1
    BY <1>0, <2>2
  <2> QED
    BY <2>1, <2>3
<1>7. CountOK'
  <2>1. Known' = Known /\ Floats' = Floats /\ have_floating_ref' = have_floating_ref
        /\ announces' = announces
    BY DEF Known, Floats
  <2>2. Known => stage = "live" /\ rc = Cardinality(holds) + Floats
    BY DEF CountOK
  <2>3. have_floating_ref \in BOOLEAN /\ Floats \in {0, 1} /\ (Floats = 0 => ~have_floating_ref)
    BY DEF Typed, Floats
  <2>4. Known /\ rc = 1 => holds' = {} /\ ~have_floating_ref
    BY <1>0, <2>2, <2>3
  <2>6. Known' => (holds' # {} \/ have_floating_ref' => stage' = "live")
    BY <2>1, <2>2, <2>4
  <2>7. Known' => (stage' = "live" => rc' = Cardinality(holds') + Floats')
    BY <1>0, <2>1, <2>2, <2>3
  <2> QED
    BY <2>6, <2>7 DEF CountOK
<1>8. LInv'
  BY DEF MethodsOK, NotifyOK, LInv, Locks
<1> QED
  BY <1>1, <1>2, <1>3, <1>4, <1>5, <1>6, <1>7, <1>8

LEMMA ReadKeeps ==
  ASSUME IInv, LInv, NEW t \in Threads, CallRead(t) \/ UnrefRead(t)
  PROVE  IInv' /\ LInv'
<1> USE WeakRefAssumption DEF IInv, CallRead, UnrefRead, InPython, gobjectVars, selfVars
<1>1. Typed'
  BY DEF Typed
<1>2. MethodsOK'
  BY DEF Typed, MethodsOK, ListOK
<1>3. UnmadeOK'
  BY DEF UnmadeOK
<1>4. ListOK'
  BY DEF ListOK
<1>5. NotifyOK'
  BY DEF NotifyOK
<1>6. PendingOK'
  BY DEF PendingOK
<1>7. CountOK'
  BY CountSame
<1>8. LInv'
  BY DEF ListOK, NotifyOK, LInv, Locks
<1> QED
  BY <1>1, <1>2, <1>3, <1>4, <1>5, <1>6, <1>7, <1>8

LEMMA CallRefKeeps ==
  ASSUME IInv, LInv, NEW t \in Threads, CallRef(t)
  PROVE  IInv' /\ LInv'
<1> USE WeakRefAssumption DEF IInv, CallRef, selfVars
<1>1. Typed'
  BY DEF Typed
<1>2. MethodsOK'
  BY DEF Typed, MethodsOK
<1>3. UnmadeOK'
  BY DEF MethodsOK, UnmadeOK
<1>4. ListOK'
  BY DEF ListOK
<1>5. NotifyOK'
  BY DEF NotifyOK
<1>6. PendingOK'
  BY DEF PendingOK
<1>7. CountOK'
  BY DEF CountOK, Known, Floats
<1>8. LInv'
  BY DEF LInv, Locks
<1> QED
  BY <1>1, <1>2, <1>3, <1>4, <1>5, <1>6, <1>7, <1>8

LEMMA UnrefDoKeeps ==
  ASSUME IInv, LInv, NEW t \in Threads, UnrefDo(t)
  PROVE  IInv' /\ LInv'
<1> USE WeakRefAssumption DEF IInv, UnrefDo
<1> DEFINE drop == IF have_floating_ref THEN 1 ELSE 0
<1>0. /\ drop \in {0, 1} /\ drop = Floats /\ rc' = rc - drop
      /\ stage' = (IF rc = drop THEN "freed" ELSE stage) /\ callback' = (callback /\ rc # drop)
      /\ stage = "live" /\ holds' = holds /\ t \in holds /\ ~have_floating_ref' /\ ~obj' /\ ~registered' /\ unreffed'
  BY DEF MethodsOK, Floats
<1> HIDE DEF drop
<1>1. Typed'
  <2>1. rc' \in Int /\ stage' \in {"none", "live", "freed"} /\ callback' \in BOOLEAN
    BY <1>0
  <2> QED
    BY <2>1 DEF Typed
<1>2. MethodsOK'
  BY DEF Typed, MethodsOK
<1>3. UnmadeOK'
  BY DEF UnmadeOK
<1>4. ListOK'
  BY DEF ListOK
<1>5. NotifyOK'
  BY DEF NotifyOK
<1>6. PendingOK'
  BY DEF PendingOK
<1>7. CountOK'
  <2>1. Known' = Known /\ Floats' = 0 /\ (callback' => announces')
    BY DEF Known, Floats, CountOK
  <2>3. Cardinality(holds) \in Nat /\ Cardinality(holds) # 0
    BY <1>0, Holders DEF Typed
  <2> QED
    BY <1>0, <2>1, <2>3 DEF CountOK
<1>8. LInv'
  BY DEF Typed, MethodsOK, ListOK, LInv, Locks
<1> QED
  BY <1>1, <1>2, <1>3, <1>4, <1>5, <1>6, <1>7, <1>8

LEMMA OwnersKeeps ==
  ASSUME IInv, LInv, NEW t \in Threads, Release(t) \/ \E u \in Threads : Pass(t, u)
  PROVE  IInv' /\ LInv'
<1> USE WeakRefAssumption DEF IInv, Release, Pass, selfVars
<1>1. Typed'
  BY DEF Typed
<1>2. MethodsOK'
  BY DEF MethodsOK
<1>3. UnmadeOK'
  BY DEF UnmadeOK
<1>4. ListOK'
  BY DEF ListOK
<1>5. NotifyOK'
  BY DEF NotifyOK
<1>6. PendingOK'
  BY DEF PendingOK
<1>7. CountOK'
  BY CountSame
<1>8. LInv'
  BY DEF LInv, Locks
<1> QED
  BY <1>1, <1>2, <1>3, <1>4, <1>5, <1>6, <1>7, <1>8

LEMMA DisposeKeeps ==
  ASSUME IInv, LInv, NEW t \in Threads, Dispose(t)
  PROVE  IInv' /\ LInv'
<1> USE WeakRefAssumption DEF IInv, Dispose, Announce, Locked, selfVars
<1>1. Typed'
  BY DEF Typed, ListOK
<1>2. MethodsOK'
  BY DEF MethodsOK
<1>3. UnmadeOK'
  BY DEF UnmadeOK
<1>4. ListOK'
  BY DEF ListOK, NotifyOK
<1>5. NotifyOK'
  BY DEF ListOK, NotifyOK
<1>6. PendingOK'
  BY DEF NotifyOK, PendingOK
<1>7. CountOK'
  BY DEF CountOK, Known, Floats
<1>8. LInv'
  BY DEF MethodsOK, ListOK, LInv, Locks
<1> QED
  BY <1>1, <1>2, <1>3, <1>4, <1>5, <1>6, <1>7, <1>8

LEMMA NotifyEnterKeeps ==
  ASSUME IInv, LInv, NotifyEnter
  PROVE  IInv' /\ LInv'
<1> USE WeakRefAssumption DEF IInv, NotifyEnter, gobjectVars
<1>1. Typed'
  BY DEF Typed, ListOK
<1>2. MethodsOK'
  BY DEF MethodsOK
<1>3. UnmadeOK'
  BY DEF UnmadeOK
<1>4. ListOK'
  BY DEF ListOK
<1>5. NotifyOK'
  BY DEF NotifyOK, CountOK
<1>6. PendingOK'
  BY DEF PendingOK
<1>7. CountOK'
  BY DEF CountOK, Known, Floats
<1>8. LInv'
  BY DEF NotifyOK, PendingOK, CountOK, LInv, Locks
<1> QED
  BY <1>1, <1>2, <1>3, <1>4, <1>5, <1>6, <1>7, <1>8

LEMMA NotifyCallKeeps ==
  ASSUME IInv, LInv, NotifyCall
  PROVE  IInv' /\ LInv'
<1> USE WeakRefAssumption DEF IInv, NotifyCall, Locked, gobjectVars, selfVars
<1>1. Typed'
  BY DEF Typed, NotifyOK
<1>2. MethodsOK'
  BY DEF MethodsOK
<1>3. UnmadeOK'
  BY DEF UnmadeOK
<1>4. ListOK'
  BY DEF ListOK
<1>5. NotifyOK'
  BY DEF NotifyOK
<1>6. PendingOK'
  BY DEF Typed, PendingOK
<1>7. CountOK'
  BY DEF CountOK, Known, Floats
<1>8. LInv'
  BY DEF LInv, Locks
<1> QED
  BY <1>1, <1>2, <1>3, <1>4, <1>5, <1>6, <1>7, <1>8

LEMMA NotifyEndKeeps ==
  ASSUME IInv, LInv, NotifyEnd
  PROVE  IInv' /\ LInv'
<1> USE WeakRefAssumption DEF IInv, NotifyEnd, Locked, gobjectVars
<1> DEFINE drop == IF have_floating_ref THEN 1 ELSE 0
<1>0. /\ drop \in {0, 1} /\ drop = Floats /\ rc' = rc - drop
      /\ stage' = (IF rc = drop THEN "freed" ELSE stage)
      /\ holds' = holds /\ ~have_floating_ref' /\ ~callback'
  BY DEF Floats
<1> HIDE DEF drop
<1>1. Typed'
  <2>1. rc' \in Int /\ stage' \in {"none", "live", "freed"} /\ gil' \in Threads \cup {NoThread}
    BY DEF Typed
  <2> QED
    BY <2>1 DEF Typed
<1>2. MethodsOK'
  BY DEF MethodsOK
<1>3. UnmadeOK'
  BY DEF UnmadeOK
<1>4. ListOK'
  BY DEF ListOK
<1>5. NotifyOK'
  BY DEF NotifyOK
<1>6. PendingOK'
  BY DEF ListOK, PendingOK
<1>7. CountOK'
  <2>1. Known' = Known /\ Floats' = 0
    BY DEF Known, Floats
  <2>2. Cardinality(holds) \in Nat /\ (Cardinality(holds) = 0 => holds = {})
    BY Holders DEF Typed
  <2>3. Known /\ stage = "live" => rc = Cardinality(holds) + drop
    BY <1>0 DEF CountOK
  <2>4. Known /\ holds # {} => stage = "live"
    BY DEF CountOK
  <2>5. Known /\ stage = "live" /\ rc = drop => holds = {}
    BY <2>2, <2>3, <1>0
  <2>6. Known' /\ holds' # {} => stage' = "live"
    BY <1>0, <2>1, <2>4, <2>5
  <2>7. Known' /\ stage' = "live" => rc' = Cardinality(holds')
    BY <1>0, <2>1, <2>2, <2>3
  <2> QED
    BY <2>1, <2>6, <2>7 DEF CountOK
<1>8. LInv'
  BY DEF MethodsOK, LInv, Locks
<1> QED
  BY <1>1, <1>2, <1>3, <1>4, <1>5, <1>6, <1>7, <1>8

LEMMA FinalizeKeeps ==
  ASSUME IInv, LInv, Finalize
  PROVE  IInv' /\ LInv'
<1> USE WeakRefAssumption DEF IInv, Finalize, Announce, Locked, selfVars
<1>1. Typed'
  BY DEF Typed, ListOK
<1>2. MethodsOK'
  BY DEF MethodsOK
<1>3. UnmadeOK'
  BY DEF UnmadeOK
<1>4. ListOK'
  BY DEF ListOK
<1>5. NotifyOK'
  BY DEF Typed, ListOK, NotifyOK
<1>6. PendingOK'
  BY DEF PendingOK
<1>7. CountOK'
  BY DEF CountOK, Known, Floats
<1>8. LInv'
  BY DEF ListOK, LInv, Locks
<1> QED
  BY <1>1, <1>2, <1>3, <1>4, <1>5, <1>6, <1>7, <1>8

LEMMA NextKeeps == IInv /\ LInv /\ [Next]_vars => IInv' /\ LInv'
<1> SUFFICES ASSUME IInv, LInv, [Next]_vars PROVE IInv' /\ LInv'
  OBVIOUS
<1>1. CASE UNCHANGED vars
  <2>1. UNCHANGED <<owners, disposer, gone, registered, stage, obj, callback, have_floating_ref, rc,
                    holds, notify, calls, announces, unreffed, gil, pc>>
    BY <1>1 DEF vars, gobjectVars, selfVars
  <2>2. CountOK'
    BY <2>1, CountSame DEF IInv
  <2> QED
    BY <2>1, <2>2 DEF IInv, LInv, Locks, Typed, MethodsOK, UnmadeOK, ListOK, NotifyOK, PendingOK
<1>2. CASE Next
  BY <1>2, NewKeeps, DropKeeps, ReadKeeps, CallRefKeeps, UnrefDoKeeps, OwnersKeeps, DisposeKeeps,
     ShareKeeps, NotifyEnterKeeps, NotifyCallKeeps, NotifyEndKeeps, FinalizeKeeps
  DEF Next
<1> QED
  BY <1>1, <1>2

LEMMA Invariance == Spec => [](IInv /\ LInv)
BY InitKeeps, NextKeeps, PTL DEF Spec

-----------------------------------------------------------------------------
(* "when we have a callback, we should INCREF the weakref object to make it
   stay alive": for any threads the notification finds the weak reference,
   if the last reference to the GObject is dropped with the GIL.           *)
THEOREM AliveWhenNotified ==
  ASSUME ~Unlocked
  PROVE  Spec => []StaysAlive
<1>1. IInv /\ LInv => StaysAlive
  <2> SUFFICES ASSUME IInv, LInv, notify # "idle" PROVE stage = "live"
    BY DEF StaysAlive
  <2>1. CASE notify = "entered"
    BY <2>1 DEF IInv, LInv, Locks, ListOK
  <2>2. CASE notify \in {"waiting", "callback"}
    <3>1. have_floating_ref /\ Known
      BY <2>2 DEF IInv, LInv, Locks, NotifyOK, Known
    <3> QED
      BY <3>1 DEF IInv, CountOK
  <2> QED
    BY <2>1, <2>2 DEF IInv, Typed
<1> QED
  BY <1>1, Invariance, PTL

(* The reference count is that of the frames and the floating reference, with
   or without the GIL, if the flag of that reference is false until it is
   set.                                                                    *)
THEOREM ReferencesCounted ==
  ASSUME Uninitialised = {FALSE}
  PROVE  Spec => []Counted
<1>1. IInv => Counted
  BY DEF IInv, CountOK, Known, Floats, Counted
<1> QED
  BY <1>1, Invariance, PTL

(* The callback is called exactly once about the end of a GObject, and the
   weak reference forgets it, whatever threads do with the one or the other
   and whatever the flag was.                                              *)
THEOREM AnnouncedOnce == Spec => []Announced
<1>1. IInv => Announced
  BY DEF IInv, Typed, ListOK, NotifyOK, PendingOK, Announced
<1> QED
  BY <1>1, Invariance, PTL

(* ... and with the GIL no method uses a finalized GObject.                *)
THEOREM EndIsKnown ==
  ASSUME ~Unlocked
  PROVE  Spec => []EndKnown
<1>1. IInv /\ LInv => CallSafe
  BY DEF IInv, LInv, Locks, ListOK, CallSafe
<1> QED
  BY <1>1, AnnouncedOnce, Invariance, PTL DEF EndKnown

(* No call of the callback follows a successful unref(), with the GIL.     *)
THEOREM NotCalledAfterUnref ==
  ASSUME ~Unlocked
  PROVE  Spec => UnrefIsFinal
<1>1. IInv /\ LInv /\ [Next]_vars => [unreffed => calls' = calls]_vars
  <2> SUFFICES ASSUME IInv, LInv, Next, unreffed PROVE calls' = calls
    BY DEF vars
  <2>1. ~NotifyCall
    BY DEF NotifyCall, LInv, Locks
  <2> QED
    BY <2>1
    DEF Next, New, Drop, CallRead, CallRef, UnrefRead, UnrefDo, Release, Dispose, Share, Pass,
       NotifyEnter, NotifyEnd, Finalize
<1> QED
  BY <1>1, Invariance, PTL DEF Spec, UnrefIsFinal

-----------------------------------------------------------------------------
(* Values: the types of the variables                                      *)

Phases ==
  {"idle", "convert", "used", "crashed", "ask", "asked", "answered", "given", "declared"}
Asks == {"ask", "asked", "answered", "given"}
Value == [held : {"zero", "empty", "full"}, kind : Kinds \cup {Null}, n : Int, cell : Cells \cup {Null}]
Functional ==
  [all : BOOLEAN, single : BOOLEAN, static : BOOLEAN, cleans : {"none", "before", "all", "array"}]
WrapperRecord ==
  [cell : Cells \cup {Null}, owns : BOOLEAN, by : {"anyone", "handler", "method"}]
Given == [py : {"int", "long"}, n : Int]

CellStates == {"none", "value", "wrapper", "library", "freed"}
CallRecord(phase) ==
  [phase : Phases, function : Functional, given : Given \cup {Null},
   args : IF phase \in Asks THEN Seq(Kinds) ELSE Seq(Arguments)]

ValuesTyped ==
  /\ call \in CallRecord(call.phase)
  /\ value \in Seq(Value)
  /\ cell \in [Cells -> CellStates]
  /\ wrapper \in [Wrappers -> WrapperRecord]

(* The first k values are converted.                                       *)
FullTo(vs, k) == \A i \in 1..Len(vs) : vs[i].held = "full" <=> i <= k

CallOK ==
  /\ call.phase \in Asks => call.function = SetProperty
  /\ call.phase = "idle" => call = Idle
  /\ call.phase \in {"idle", "ask"} => value = <<>>
  /\ call.phase = "ask" => call.args # <<>>
  /\ call.phase \in {"asked", "answered", "given"} => Len(value) = 1
  /\ call.phase = "asked" => value[1].cell = Null /\ value[1].kind \in Kinds
  /\ call.phase = "answered" => value[1].cell = Null \/ value[1].kind \in Kinds
  /\ call.phase = "convert" =>
       /\ call.function \in Functions /\ At \in 0..Len(value) /\ FullTo(value, At)
       /\ Len(value) <= Len(call.args)
       /\ IF call.function.all THEN Len(value) = Len(call.args) ELSE At = Len(value)
       /\ call.function.single => Len(value) <= 1
  /\ call.phase = "used" => value # <<>> /\ Len(value) <= Len(call.args)
  /\ call.phase \in {"used", "crashed"} => call.function \in Functions
  /\ call.phase = "declared" => call.function = CreateProperty

-----------------------------------------------------------------------------
(* Who owns what                                                           *)

Owners(c) == {w \in Wrappers : wrapper[w].cell = c /\ wrapper[w].owns}

ValuesOK ==
  /\ \A i \in 1..Len(value) : value[i].cell # Null =>
       value[i].held = "full" /\ cell[value[i].cell] \in {"value", "wrapper", "library"}
  /\ \A c \in Cells : cell[c] = "value" => \E i \in 1..Len(value) : value[i].cell = c
  /\ call.phase = "answered" /\ value[1].cell # Null => cell[value[1].cell] = "value"

OwnersOK ==
  \A c \in Cells : /\ cell[c] = "wrapper" <=> Owners(c) # {}
                   /\ \A v, w \in Owners(c) : v = w

WrappersOK ==
  \A w \in Wrappers :
    IF wrapper[w].cell = Null THEN wrapper[w] = NoBoxed
    ELSE /\ cell[wrapper[w].cell] # "none"
         /\ wrapper[w].by = "anyone" => wrapper[w].owns \/ cell[wrapper[w].cell] = "library"
         /\ wrapper[w].by # "anyone" => ~wrapper[w].owns
         /\ wrapper[w].by = "method" =>
              /\ call.phase \in {"used", "crashed"}
              /\ \E i \in 1..Len(value) : value[i].cell = wrapper[w].cell

-----------------------------------------------------------------------------
(* Numbers                                                                 *)

(* What a conversion of x to v, of some kind, does with a number         *)
Exact(arg, v) ==
  v.held = "full" /\ AsNumber(v.kind, arg.obj) =>
    /\ Unsigned(arg.obj.n, IntSign) = Unsigned(v.n, IntSign)
    /\ Narrow(arg) \/ arg.obj.n = v.n
    /\ InKind(v.kind, v.n)

NumbersOK ==
  /\ call.phase \in {"convert", "used"} =>
       \A i \in DOMAIN value \cap DOMAIN call.args : Exact(call.args[i], value[i])
  /\ call.phase \in {"asked", "answered", "given"} /\ value[1].kind \in Number =>
       InKind(value[1].kind, value[1].n)
  /\ call.given # Null =>
       call.phase = "given" /\ value[1].kind \in Number /\ call.given = NumberAsPy(value[1])
  /\ call.phase = "declared" => \A i \in DOMAIN value :
       LET set == FromNumber(value[i].kind, call.args[i].obj)
       IN  set.outcome = "ok" => value[i].n = set.n

ValuesInv == ValuesTyped /\ CallOK /\ ValuesOK /\ OwnersOK /\ WrappersOK /\ NumbersOK

-----------------------------------------------------------------------------
(* Integers                                                                *)

LEMMA Remainder ==
  ASSUME NEW m \in Nat \ {0}, NEW x \in Int
  PROVE  x % m \in 0..(m - 1) /\ x \div m \in Int /\ x = m * (x \div m) + (x % m)
OBVIOUS

LEMMA RemainderOf ==
  ASSUME NEW m \in Nat \ {0}, NEW q \in Int, NEW r \in 0..(m - 1)
  PROVE  (m * q + r) % m = r
OBVIOUS

LEMMA RemainderSame ==
  ASSUME NEW m \in Nat \ {0}, NEW x \in Int, NEW q \in Int
  PROVE  (x + m * q) % m = x % m
<1>1. PICK d \in Int, r \in 0..(m - 1) : x = m * d + r /\ x % m = r  BY Remainder
<1>3. QED  BY <1>1

LEMMA Widths ==
  ASSUME NEW sign \in Nat \ {0}, NEW n \in Int
  PROVE  /\ InUnsigned(Unsigned(n, sign), sign) /\ InSigned(Signed(n, sign), sign)
         /\ Unsigned(n, sign) \in Int /\ Signed(n, sign) \in Int
         /\ InUnsigned(n, sign) => Unsigned(n, sign) = n
         /\ InSigned(n, sign) => Signed(n, sign) = n
         /\ Unsigned(Unsigned(n, sign), sign) = Unsigned(n, sign)
         /\ Unsigned(Signed(n, sign), sign) = Unsigned(n, sign)
<1> DEFINE m == 2 * sign
<1>1. m \in Nat \ {0} /\ n + sign \in Int /\ m - 1 = 2 * sign - 1  OBVIOUS
<1>2. \A x \in Int : Unsigned(x, sign) = x % m  BY DEF Unsigned
<1> HIDE DEF m
<1>3. \A x \in Int : Unsigned(x, sign) \in 0..(m - 1)  BY <1>1, <1>2, Remainder
<1>4. \A x \in 0..(m - 1) : Unsigned(x, sign) = x
  <2>1. SUFFICES ASSUME NEW x \in 0..(m - 1)  PROVE Unsigned(x, sign) = x  OBVIOUS
  <2>2. (m * 0 + x) % m = x  BY <1>1
  <2>3. m * 0 + x = x /\ x \in Int  BY <1>1
  <2>4. QED  BY <1>2, <2>2, <2>3
<1>5. Unsigned(Signed(n, sign), sign) = Unsigned(n, sign)
  <2>1. PICK d \in Int, r \in 0..(m - 1) : n + sign = m * d + r /\ (n + sign) % m = r  BY <1>1
  <2>2. Signed(n, sign) = r - sign /\ r - sign \in Int  BY <1>1, <1>2, <2>1 DEF Signed
  <2>3. n = (r - sign) + m * d
    <3> DEFINE y == m * d
    <3>1. y \in Int  BY <1>1
    <3>2. n + sign = y + r  BY <2>1
    <3> HIDE DEF y
    <3>3. n = (r - sign) + y  BY <3>1, <3>2
    <3>4. QED  BY <3>3 DEF y
  <2>4. n % m = (r - sign) % m  BY <1>1, <2>2, <2>3, RemainderSame
  <2>5. QED  BY <1>2, <2>2, <2>4
<1>6. InSigned(Signed(n, sign), sign) /\ Signed(n, sign) \in Int  BY <1>1, <1>3 DEF Signed, InSigned
<1>7. InSigned(n, sign) => Signed(n, sign) = n  BY <1>1, <1>4 DEF Signed, InSigned
<1>8. InUnsigned(Unsigned(n, sign), sign) /\ Unsigned(n, sign) \in Int  BY <1>1, <1>3 DEF InUnsigned
<1>9. InUnsigned(n, sign) => Unsigned(n, sign) = n  BY <1>1, <1>4 DEF InUnsigned
<1>10. Unsigned(Unsigned(n, sign), sign) = Unsigned(n, sign)  BY <1>3, <1>4
<1>11. QED  BY <1>5, <1>6, <1>7, <1>8, <1>9, <1>10

LEMMA Signs ==
  /\ CharSign \in Nat \ {0} /\ IntSign \in Nat \ {0} /\ LongSign \in Nat \ {0} /\ IntSign <= LongSign
  /\ \A n : InSigned(n, IntSign) => InSigned(n, LongSign)
  /\ \A n : InSigned(n, LongSign) /\ n >= 0 => InUnsigned(n, LongSign)
  /\ \A n : InSigned(n, IntSign) \/ InSigned(n, LongSign) \/ InUnsigned(n, IntSign)
            \/ InUnsigned(n, LongSign) \/ InUnsigned(n, CharSign) => n \in Int
BY ValuesAssumption DEF InSigned, InUnsigned

LEMMA FitsZero == \A kind : InKind(kind, 0)
BY Signs DEF InKind, InSigned, InUnsigned

LEMMA Objects ==
  ASSUME NEW x \in PyObjects
  PROVE  /\ x.py \in {"int", "long", "float", "wrapper", "other", "unprintable"} /\ x.n \in Int
         /\ x.py = "int" => InSigned(x.n, LongSign)
         /\ x.py = "wrapper" => x.w \in Wrappers
BY DEF PyObjects

(* A number that can be stored is the one that was given, or what is left of
   it in a narrower kind.                                                  *)
LEMMA Stores ==
  ASSUME NEW kind \in Number, NEW x \in PyObjects
  PROVE  /\ FromNumber(kind, x).n \in Int
         /\ FromNumber(kind, x).outcome = "ok" =>
              /\ InKind(kind, FromNumber(kind, x).n)
              /\ Unsigned(x.n, IntSign) = Unsigned(FromNumber(kind, x).n, IntSign)
              /\ kind \in {"int", "enum", "flags"} \/ (kind = "uint" /\ x.py = "long")
                  \/ x.n = FromNumber(kind, x).n
<1> DEFINE n == x.n
<1>1. n \in Int /\ (x.py = "int" => InSigned(n, LongSign))  BY Objects
<1>2. /\ InUnsigned(Unsigned(n, IntSign), IntSign) /\ InSigned(Signed(n, IntSign), IntSign)
      /\ Unsigned(n, IntSign) \in Int /\ Signed(n, IntSign) \in Int
      /\ Unsigned(Unsigned(n, IntSign), IntSign) = Unsigned(n, IntSign)
      /\ Unsigned(Signed(n, IntSign), IntSign) = Unsigned(n, IntSign)
  BY <1>1, Widths, Signs
<1>3. /\ IsNumber(x) <=> x.py \in {"int", "long"}
      /\ InSigned(n, LongSign) /\ n >= 0 => InUnsigned(n, LongSign)
  BY Signs DEF IsNumber
<1> HIDE DEF n
<1>4. CASE kind = "int"
  <2>1. FromNumber(kind, x) = Checked(HasInt(x) /\ InSigned(n, LongSign), Signed(n, IntSign))
    BY <1>4 DEF FromNumber, AsLong, n
  <2>2. QED  BY <1>2, <1>4, <2>1 DEF Checked, Stored, Unset, InKind, n
<1>5. CASE kind \in {"long", "int64"}
  <2>1. FromNumber(kind, x) = Checked(HasInt(x) /\ InSigned(n, LongSign), n)
    BY <1>5 DEF FromNumber, AsLong, n
  <2>2. QED  BY <1>1, <1>5, <2>1 DEF Checked, Stored, Unset, InKind, n
<1>6. CASE kind = "uint"
  <2>1. FromNumber(kind, x) = IF x.py = "int" THEN IF InUnsigned(n, IntSign) THEN Stored(n) ELSE Kept
          ELSE Checked(x.py = "long" /\ InUnsigned(n, LongSign), Unsigned(n, IntSign))
    BY <1>6 DEF FromNumber, UInt, n
  <2>2. QED  BY <1>1, <1>2, <1>6, <2>1 DEF Checked, Stored, Unset, Kept, InKind, n
<1>7. CASE kind = "ulong"
  <2>1. FromNumber(kind, x) = IF x.py = "int" THEN IF n >= 0 THEN Stored(n) ELSE Kept
          ELSE Checked(x.py = "long" /\ InUnsigned(n, LongSign), n)
    BY <1>7 DEF FromNumber, ULong, n
  <2>2. QED  BY <1>1, <1>3, <1>7, <2>1 DEF Checked, Stored, Unset, Kept, InKind, n
<1>8. CASE kind = "uint64"
  <2>1. FromNumber(kind, x) =
          IF ~IsNumber(x) \/ (x.py = "int" /\ n < 0) THEN Kept ELSE Checked(InUnsigned(n, LongSign), n)
    BY <1>8 DEF FromNumber, UInt64, n
  <2>2. QED  BY <1>1, <1>8, <2>1 DEF Checked, Stored, Unset, Kept, InKind, n
<1>9. CASE kind \in {"enum", "flags"}
  <2>1. FromNumber(kind, x) =
          IF ~IsNumber(x) THEN Kept
          ELSE Checked(InSigned(n, LongSign),
                       IF kind = "enum" THEN Signed(n, IntSign) ELSE Unsigned(n, IntSign))
    BY <1>9 DEF FromNumber, EnumOrFlags, n
  <2>2. QED  BY <1>2, <1>9, <2>1 DEF Checked, Stored, Unset, Kept, InKind, n
<1>10. QED  BY <1>4, <1>5, <1>6, <1>7, <1>8, <1>9 DEF Number

(* What Python gets of a number is stored as the same.                     *)
LEMMA GivesBack ==
  ASSUME NEW v, v.kind \in Number, InKind(v.kind, v.n)
  PROVE  NumberAsPy(v) \in Given /\ FromNumber(v.kind, NumberAsPy(v)) = Stored(v.n)
<1> DEFINE kind == v.kind
           n == v.n
<1>1. /\ kind \in {"int", "enum"} => InSigned(n, IntSign)
      /\ kind \in {"uint", "flags"} => InUnsigned(n, IntSign)
      /\ kind \in {"long", "int64"} => InSigned(n, LongSign)
      /\ kind \in {"ulong", "uint64"} => InUnsigned(n, LongSign)
  BY DEF InKind
<1>2. n \in Int  BY <1>1, Signs DEF Number
<1>3. /\ InSigned(n, IntSign) => Signed(n, IntSign) = n /\ InSigned(n, LongSign)
      /\ InUnsigned(n, IntSign) => Unsigned(n, IntSign) = n
      /\ Signed(n, IntSign) \in Int /\ InSigned(Signed(n, IntSign), LongSign)
      /\ Unsigned(Signed(n, IntSign), IntSign) = Unsigned(n, IntSign)
  BY <1>2, Widths, Signs
<1> HIDE DEF kind, n
<1>5. CASE kind = "int"
  <2>1. NumberAsPy(v) = [py |-> "int", n |-> n]  BY <1>5 DEF NumberAsPy, kind, n
  <2>2. QED
    BY <1>1, <1>3, <1>5, <2>1 DEF FromNumber, AsLong, Given, Checked, HasInt, kind, n
<1>6. CASE kind \in {"long", "int64"}
  <2>1. NumberAsPy(v) = [py |-> "int", n |-> n]  BY <1>6 DEF NumberAsPy, kind, n
  <2>2. QED
    BY <1>1, <1>2, <1>6, <2>1 DEF FromNumber, AsLong, Given, Checked, HasInt, kind, n
<1>7. CASE kind = "uint"
  <2>1. NumberAsPy(v) = [py |-> "int", n |-> n]  BY <1>7 DEF NumberAsPy, kind, n
  <2>2. QED
    BY <1>1, <1>2, <1>7, <2>1 DEF FromNumber, UInt, Given, kind, n
<1>8. CASE kind \in {"ulong", "uint64"}
  <2>1. NumberAsPy(v) = [py |-> IF InSigned(n, LongSign) THEN "int" ELSE "long", n |-> n]
    BY <1>8 DEF NumberAsPy, ULongAsPy, kind, n
  <2>2. n >= 0  BY <1>1, <1>8 DEF InUnsigned
  <2>3. QED
    BY <1>1, <1>2, <1>8, <2>1, <2>2 DEF FromNumber, ULong, UInt64, Checked, IsNumber, Given, kind, n
<1>9. CASE kind = "enum"
  <2>1. NumberAsPy(v) = [py |-> "int", n |-> n]  BY <1>9 DEF NumberAsPy, EnumFromGType, kind, n
  <2>2. QED
    BY <1>1, <1>3, <1>9, <2>1 DEF FromNumber, EnumOrFlags, Checked, IsNumber, Given, kind, n
<1>10. CASE kind = "flags"
  <2>1. NumberAsPy(v) = [py |-> "int", n |-> Signed(n, IntSign)]
    BY <1>10 DEF NumberAsPy, FlagsFromGType, kind, n
  <2>2. QED
    BY <1>1, <1>3, <1>10, <2>1 DEF FromNumber, EnumOrFlags, Checked, IsNumber, Given, kind, n
<1>11. QED  BY <1>5, <1>6, <1>7, <1>8, <1>9, <1>10 DEF Number, kind

(* A limit or default means the same as a value of the property.           *)
LEMMA DeclaresSame ==
  ASSUME NEW kind \in Number, NEW x \in PyObjects
  PROVE  /\ ParsedDefault(kind, x).n \in Int
         /\ ParsedDefault(kind, x).outcome = "ok" /\ FromNumber(kind, x).outcome = "ok" =>
              ParsedDefault(kind, x).n = FromNumber(kind, x).n
<1> DEFINE n == x.n
<1>1. n \in Int /\ (x.py = "int" => InSigned(n, LongSign))  BY Objects
<1>2. /\ InSigned(n, IntSign) => Signed(n, IntSign) = n
      /\ InUnsigned(n, IntSign) => Unsigned(n, IntSign) = n
      /\ InUnsigned(n, LongSign) => Unsigned(n, LongSign) = n
      /\ Unsigned(n, IntSign) \in Int /\ Unsigned(n, LongSign) \in Int
  BY <1>1, Widths, Signs
<1>3. InSigned(n, LongSign) /\ n >= 0 => InUnsigned(n, LongSign)  BY Signs
<1> HIDE DEF n
<1>4. CASE kind \in NoAddress
  <2>1. ParsedDefault(kind, x) = EnumOrFlags(kind, x) /\ FromNumber(kind, x) = EnumOrFlags(kind, x)
    BY <1>4 DEF ParsedDefault, FromNumber, NoAddress
  <2>2. QED  BY <2>1, Stores
<1>5. CASE kind \notin NoAddress /\ ~IsNumber(x)
  <2>1. CASE kind # "int64" \/ ~HasInt(x)
    <3>1. ParsedDefault(kind, x) = Kept  BY <1>5, <2>1 DEF ParsedDefault, Parsed
    <3>2. QED  BY <3>1 DEF Kept
  <2>2. CASE kind = "int64" /\ HasInt(x)
    <3>1. ParsedDefault(kind, x) = Checked(InSigned(n, LongSign), n)
      BY <1>5, <2>2 DEF ParsedDefault, Parsed, n
    <3>2. FromNumber(kind, x) = Checked(HasInt(x) /\ InSigned(n, LongSign), n)
      BY <2>2 DEF FromNumber, AsLong, n
    <3>3. QED  BY <1>1, <2>2, <3>1, <3>2 DEF Checked, Stored, Unset
  <2>3. QED  BY <2>1, <2>2
<1>6. CASE kind \notin NoAddress /\ IsNumber(x)
  <2>1. ParsedDefault(kind, x) = Parsed(kind, x) /\ x.py \in {"int", "long"}
    BY <1>6 DEF ParsedDefault, IsNumber
  <2>2. CASE kind = "int"
    <3>1. Parsed(kind, x) = Checked(InSigned(n, IntSign), n)  BY <1>6, <2>2 DEF Parsed, n
    <3>2. FromNumber(kind, x) = Checked(HasInt(x) /\ InSigned(n, LongSign), Signed(n, IntSign))
      BY <2>2 DEF FromNumber, AsLong, n
    <3>3. QED  BY <1>1, <1>2, <2>1, <3>1, <3>2 DEF Checked, Stored, Unset
  <2>3. CASE kind \in {"long", "int64"}
    <3>1. Parsed(kind, x) = Checked(InSigned(n, LongSign), n)  BY <1>6, <2>3 DEF Parsed, n
    <3>2. FromNumber(kind, x) = Checked(HasInt(x) /\ InSigned(n, LongSign), n)
      BY <2>3 DEF FromNumber, AsLong, n
    <3>3. QED  BY <1>1, <2>1, <3>1, <3>2 DEF Checked, Stored, Unset
  <2>4. CASE kind = "uint"
    <3>1. Parsed(kind, x) = Stored(Unsigned(n, IntSign))  BY <1>6, <2>4 DEF Parsed, n
    <3>2. FromNumber(kind, x) = IF x.py = "int" THEN IF InUnsigned(n, IntSign) THEN Stored(n) ELSE Kept
            ELSE Checked(x.py = "long" /\ InUnsigned(n, LongSign), Unsigned(n, IntSign))
      BY <2>4 DEF FromNumber, UInt, n
    <3>3. QED  BY <1>2, <2>1, <3>1, <3>2 DEF Checked, Stored, Unset, Kept
  <2>5. CASE kind \in {"ulong", "uint64"}
    <3>1. Parsed(kind, x) = Stored(Unsigned(n, LongSign))  BY <1>6, <2>5 DEF Parsed, n
    <3>2. CASE kind = "ulong"
      <4>1. FromNumber(kind, x) = IF x.py = "int" THEN IF n >= 0 THEN Stored(n) ELSE Kept
              ELSE Checked(x.py = "long" /\ InUnsigned(n, LongSign), n)
        BY <3>2 DEF FromNumber, ULong, n
      <4>2. QED  BY <1>1, <1>2, <1>3, <2>1, <3>1, <4>1 DEF Checked, Stored, Unset, Kept
    <3>3. CASE kind = "uint64"
      <4>1. FromNumber(kind, x) =
              IF ~IsNumber(x) \/ (x.py = "int" /\ n < 0) THEN Kept ELSE Checked(InUnsigned(n, LongSign), n)
        BY <3>3 DEF FromNumber, UInt64, n
      <4>2. QED  BY <1>2, <2>1, <3>1, <4>1 DEF Checked, Stored, Unset, Kept
    <3>4. QED  BY <2>5, <3>2, <3>3
  <2>6. QED  BY <1>6, <2>2, <2>3, <2>4, <2>5 DEF Number, NoAddress
<1>7. QED  BY <1>4, <1>5, <1>6

-----------------------------------------------------------------------------
(* Values                                                                  *)

LEMMA FreshCell ==
  ASSUME \E c \in Cells : cell[c] = "none"
  PROVE  NewCell \in Cells /\ cell[NewCell] = "none"
BY DEF NewCell

(* The same of all that is taken as a number                               *)
LEMMA StoresInt ==
  ASSUME NEW kind \in Kinds, NEW x \in PyObjects, AsNumber(kind, x)
  PROVE  /\ FromInt(kind, x).n \in Int
         /\ FromInt(kind, x).outcome = "ok" =>
              /\ InKind(kind, FromInt(kind, x).n)
              /\ Unsigned(x.n, IntSign) = Unsigned(FromInt(kind, x).n, IntSign)
              /\ kind \in {"int", "enum", "flags"} \/ (kind = "uint" /\ x.py = "long")
                  \/ x.n = FromInt(kind, x).n
<1>1. CASE kind = "uchar"
  <2>1. FromInt(kind, x) = IF InUnsigned(x.n, CharSign) THEN Stored(x.n) ELSE Kept  BY <1>1 DEF FromInt
  <2>2. x.n \in Int  BY Objects
  <2>3. QED  BY <1>1, <2>1, <2>2 DEF Stored, Kept, InKind
<1>2. CASE kind # "uchar"
  <2>1. kind \in Number /\ FromInt(kind, x) = FromNumber(kind, x)  BY <1>2 DEF AsNumber, FromInt
  <2>2. QED  BY <2>1, Stores
<1>3. QED  BY <1>1, <1>2

(* What a conversion of x to a value of some kind makes of it            *)
LEMMA Makes ==
  ASSUME NEW kind \in Kinds, NEW x \in PyObjects, Copies(kind, x) => \E c \in Cells : cell[c] = "none",
         NEW got, got = From(kind, x)
  PROVE  /\ got.v \in Value /\ got.ok \in BOOLEAN
         /\ got.v.kind \in Number => InKind(got.v.kind, got.v.n)
         /\ got.ok => got.v.held = "full" /\ got.v.kind = kind
         /\ got.v.cell # Null => got.ok /\ Copies(kind, x) /\ got.v.cell = NewCell
         /\ got.ok /\ AsNumber(kind, x) =>
              /\ InKind(kind, got.v.n)
              /\ Unsigned(x.n, IntSign) = Unsigned(got.v.n, IntSign)
              /\ kind \in {"int", "enum", "flags"} \/ (kind = "uint" /\ x.py = "long") \/ x.n = got.v.n
<1> DEFINE number == FromInt(kind, x)
<1>1. \A v : /\ Converted(v).ok = TRUE /\ Converted(v).v = v
             /\ Failed(v).ok = FALSE /\ Failed(v).v = v
  BY DEF Converted, Failed
<1>2. \A k, n, c : /\ Full(k, n, c).held = "full" /\ Full(k, n, c).kind = k
                   /\ Full(k, n, c).n = n /\ Full(k, n, c).cell = c
                   /\ k \in Kinds /\ n \in Int /\ c \in Cells \cup {Null} => Full(k, n, c) \in Value
  BY DEF Full, Value
<1>3. \A k : /\ Empty(k).n = 0 /\ Empty(k).cell = Null /\ (k \in Kinds => Empty(k) \in Value)
             /\ Zero.n = 0 /\ Zero.cell = Null /\ Zero \in Value
  BY DEF Empty, Zero, Value
<1>4. /\ kind \in Number => kind \notin {"char", "uchar", "any", "boxed", "string"}
      /\ AsNumber(kind, x) <=> kind \in Number \/ (kind = "uchar" /\ x.py = "int")
      /\ Copies(kind, x) <=> kind \in {"any", "boxed"} /\ x.py = "wrapper"
  BY DEF Number, AsNumber, Copies
<1>5. AsNumber(kind, x) => /\ number.n \in Int
                           /\ number.outcome = "ok" =>
                                /\ InKind(kind, number.n)
                                /\ Unsigned(x.n, IntSign) = Unsigned(number.n, IntSign)
                                /\ kind \in {"int", "enum", "flags"} \/ (kind = "uint" /\ x.py = "long")
                                   \/ x.n = number.n
  BY StoresInt
<1> HIDE DEF number
<1>7. got =
    CASE AsNumber(kind, x) /\ number.outcome = "ok" -> Converted(Full(kind, number.n, Null))
      [] AsNumber(kind, x) /\ number.outcome = "unset" -> Failed(Zero)
      [] Copies(kind, x) -> Converted(Full(kind, 0, NewCell))
      [] kind = "any" /\ x.py # "wrapper" -> FromAny(x)
      [] kind \in {"char", "string"} -> FromText(kind, x)
      [] kind = "uchar" /\ x.py # "int" -> FromText(kind, x)
      [] OTHER -> Failed(Empty(kind))
  BY DEF From, number
<1>8. CASE AsNumber(kind, x)
  <2>1. CASE number.outcome = "ok"
    <3>1. got = Converted(Full(kind, number.n, Null))  BY <1>4, <1>7, <1>8, <2>1
    <3>2. got.ok = TRUE /\ got.v = Full(kind, number.n, Null)  BY <1>1, <3>1
    <3>3. /\ got.v.held = "full" /\ got.v.kind = kind /\ got.v.n = number.n /\ got.v.cell = Null
          /\ got.v \in Value
      BY <1>2, <1>5, <1>8, <3>2
    <3>4. QED  BY <1>5, <1>8, <2>1, <3>2, <3>3
  <2>2. CASE number.outcome # "ok"
    <3>1. got \in {Failed(Zero), Failed(Empty(kind))}  BY <1>4, <1>7, <1>8, <2>2
    <3>2. got.ok = FALSE /\ (got.v = Zero \/ got.v = Empty(kind))  BY <1>1, <3>1
    <3>3. got.v \in Value /\ got.v.n = 0 /\ got.v.cell = Null  BY <1>3, <3>2
    <3>4. QED  BY <3>2, <3>3, FitsZero
  <2>3. QED  BY <2>1, <2>2
<1>9. CASE ~AsNumber(kind, x)
  <2>1. \/ got \in {Converted(Full(kind, 0, Null)), Failed(Full(kind, 0, Null))}
        \/ Copies(kind, x) /\ got = Converted(Full(kind, 0, NewCell))
        \/ got = Failed(Empty(kind))
    <3>1. CASE Copies(kind, x)  BY <1>4, <1>7, <1>9, <3>1
    <3>2. CASE kind = "any" /\ x.py # "wrapper"
      <4>1. got = FromAny(x)  BY <1>4, <1>7, <1>9, <3>2
      <4>2. QED  BY <3>2, <4>1 DEF FromAny
    <3>3. CASE kind \in {"char", "string", "uchar"}
      <4>1. got = FromText(kind, x)  BY <1>4, <1>7, <1>9, <3>3
      <4>2. QED  BY <4>1 DEF FromText
    <3>4. CASE kind = "boxed" /\ x.py # "wrapper"  BY <1>4, <1>7, <1>9, <3>4
    <3>5. QED  BY <1>4, <1>9, <3>1, <3>2, <3>3, <3>4 DEF Kinds
  <2>2. CASE got \in {Converted(Full(kind, 0, Null)), Failed(Full(kind, 0, Null))}
    <3>1. got.ok \in BOOLEAN /\ got.v = Full(kind, 0, Null)  BY <1>1, <2>2
    <3>2. /\ got.v.held = "full" /\ got.v.kind = kind /\ got.v.n = 0 /\ got.v.cell = Null
          /\ got.v \in Value
      BY <1>2, <3>1
    <3>3. QED  BY <1>9, <3>1, <3>2, FitsZero
  <2>3. CASE Copies(kind, x) /\ got = Converted(Full(kind, 0, NewCell))
    <3>1. NewCell \in Cells  BY <2>3, FreshCell
    <3>2. got.ok = TRUE /\ got.v = Full(kind, 0, NewCell)  BY <1>1, <2>3
    <3>3. /\ got.v.held = "full" /\ got.v.kind = kind /\ got.v.n = 0 /\ got.v.cell = NewCell
          /\ got.v \in Value
      BY <1>2, <3>1, <3>2
    <3>4. QED  BY <1>9, <2>3, <3>2, <3>3, FitsZero
  <2>4. CASE got = Failed(Empty(kind))
    <3>1. got.ok = FALSE /\ got.v = Empty(kind)  BY <1>1, <2>4
    <3>2. got.v \in Value /\ got.v.n = 0 /\ got.v.cell = Null  BY <1>3, <3>1
    <3>3. QED  BY <3>1, <3>2, FitsZero
  <2>5. QED  BY <2>1, <2>2, <2>3, <2>4
<1>10. QED  BY <1>8, <1>9

(* How many values are converted                                           *)
LEMMA HowMany ==
  ASSUME NEW vs \in Seq(Value), NEW k \in 0..Len(vs), FullTo(vs, k)
  PROVE  Cardinality({i \in DOMAIN vs : vs[i].held = "full"}) = k
<1>1. {i \in DOMAIN vs : vs[i].held = "full"} = 1..k  BY DEF FullTo
<1>2. Cardinality(1..k) = k  BY FS_Interval
<1>3. QED  BY <1>1, <1>2

LEMMA AtNow ==
  ASSUME NEW k \in 0..Len(value'), value' \in Seq(Value), FullTo(value', k)
  PROVE  At' = k
BY HowMany DEF At

LEMMA Typing ==
  ASSUME ValuesTyped
  PROVE  /\ value \in Seq(Value) /\ Len(value) \in Nat /\ DOMAIN value = 1..Len(value)
         /\ \A i \in 1..Len(value) :
              /\ value[i] \in Value /\ value[i].kind \in Kinds \cup {Null} /\ value[i].n \in Int
              /\ value[i].cell \in Cells \cup {Null}
         /\ \A w \in Wrappers :
              /\ wrapper[w] \in WrapperRecord /\ wrapper[w].cell \in Cells \cup {Null}
              /\ wrapper[w].owns \in BOOLEAN /\ wrapper[w].by \in {"anyone", "handler", "method"}
         /\ NoBoxed \in WrapperRecord /\ NoBoxed.cell = Null /\ NoBoxed.owns = FALSE /\ NoBoxed.by = "anyone"
         /\ Null \notin Cells /\ Null \notin Wrappers
<1>1. value \in Seq(Value) /\ wrapper \in [Wrappers -> WrapperRecord]  BY DEF ValuesTyped
<1>3. \A v \in Value : v.kind \in Kinds \cup {Null} /\ v.n \in Int /\ v.cell \in Cells \cup {Null}
  BY DEF Value
<1>4. \A r \in WrapperRecord :
        r.cell \in Cells \cup {Null} /\ r.owns \in BOOLEAN /\ r.by \in {"anyone", "handler", "method"}
  BY DEF WrapperRecord
<1>5. NoBoxed \in WrapperRecord /\ NoBoxed.cell = Null /\ NoBoxed.owns = FALSE /\ NoBoxed.by = "anyone"
  BY DEF NoBoxed, WrapperRecord
<1>6. QED  BY <1>1, <1>3, <1>4, <1>5, ValuesAssumption

-----------------------------------------------------------------------------
(* Owners: steps that change no wrapper                                    *)

(* Values take new cells, and free their own; methods still run.           *)
SameWrappers ==
  /\ wrapper' = wrapper
  /\ \A c \in Cells : \/ cell'[c] = cell[c]
                      \/ cell[c] = "none" /\ cell'[c] = "value"
                      \/ cell[c] = "value" /\ cell'[c] = "freed"
  /\ \A w \in Wrappers : wrapper[w].by = "method" =>
       call'.phase \in {"used", "crashed"} /\ \E i \in 1..Len(value') : value'[i].cell = wrapper[w].cell

LEMMA KeptOwners ==
  ASSUME ValuesTyped, OwnersOK, WrappersOK, SameWrappers
  PROVE  OwnersOK' /\ WrappersOK'
<1>1. /\ wrapper' = wrapper
      /\ \A c \in Cells : \/ cell'[c] = cell[c]
                          \/ cell[c] = "none" /\ cell'[c] = "value"
                          \/ cell[c] = "value" /\ cell'[c] = "freed"
  BY DEF SameWrappers
<1>2. \A c \in Cells : Owners(c)' = Owners(c)  BY <1>1 DEF Owners
<1>3. OwnersOK'
  <2>1. SUFFICES ASSUME NEW c \in Cells
                 PROVE  /\ cell'[c] = "wrapper" <=> Owners(c)' # {}
                        /\ \A v, w \in Owners(c)' : v = w
    BY DEF OwnersOK
  <2>2. cell[c] = "wrapper" <=> Owners(c) # {}  BY DEF OwnersOK
  <2>3. \A v, w \in Owners(c) : v = w  BY DEF OwnersOK
  <2>4. QED  BY <1>1, <1>2, <2>2, <2>3
<1>4. WrappersOK'
  <2>1. SUFFICES ASSUME NEW w \in Wrappers
                 PROVE  IF wrapper[w].cell = Null THEN wrapper[w] = NoBoxed
                        ELSE /\ cell'[wrapper[w].cell] # "none"
                             /\ wrapper[w].by = "anyone" => wrapper[w].owns \/ cell'[wrapper[w].cell] = "library"
                             /\ wrapper[w].by # "anyone" => ~wrapper[w].owns
                             /\ wrapper[w].by = "method" =>
                                  /\ call'.phase \in {"used", "crashed"}
                                  /\ \E i \in 1..Len(value') : value'[i].cell = wrapper[w].cell
    BY <1>1 DEF WrappersOK
  <2>2. CASE wrapper[w].cell = Null  BY <2>2 DEF WrappersOK
  <2>3. CASE wrapper[w].cell # Null
    <3>1. wrapper[w].cell \in Cells  BY <2>3, Typing
    <3>2. /\ cell[wrapper[w].cell] # "none"
          /\ wrapper[w].by = "anyone" => wrapper[w].owns \/ cell[wrapper[w].cell] = "library"
          /\ wrapper[w].by # "anyone" => ~wrapper[w].owns
      BY <2>3 DEF WrappersOK
    <3>3. wrapper[w].by = "method" =>
            call'.phase \in {"used", "crashed"} /\ \E i \in 1..Len(value') : value'[i].cell = wrapper[w].cell
      BY DEF SameWrappers
    <3>4. cell'[wrapper[w].cell] # "none" /\ (cell[wrapper[w].cell] = "library" => cell'[wrapper[w].cell] = "library")
      BY <1>1, <3>1, <3>2
    <3>5. QED  BY <2>3, <3>2, <3>3, <3>4
  <2>4. QED  BY <2>2, <2>3
<1>5. QED  BY <1>3, <1>4

(* No value is boxed, before and after; or the values stay.                *)
Plain ==
  /\ UNCHANGED <<cell, wrapper>>
  /\ \/ value' = value
     \/ /\ \A i \in 1..Len(value) : value[i].cell = Null
        /\ \A i \in 1..Len(value') : value'[i].cell = Null
  /\ call.phase \in {"used", "crashed"} => call'.phase \in {"used", "crashed"}
  /\ call'.phase = "answered" => value'[1].cell = Null

LEMMA PlainKeeps ==
  ASSUME ValuesTyped, ValuesOK, OwnersOK, WrappersOK, Plain
  PROVE  ValuesOK' /\ OwnersOK' /\ WrappersOK'
<1>1. cell' = cell /\ wrapper' = wrapper  BY DEF Plain
<1>2. \/ value' = value
      \/ /\ \A i \in 1..Len(value) : value[i].cell = Null
         /\ \A i \in 1..Len(value') : value'[i].cell = Null
  BY DEF Plain
<1>3. ValuesOK'
  <2>1. CASE value' = value  BY <2>1 DEF ValuesOK, Plain
  <2>2. CASE /\ \A i \in 1..Len(value) : value[i].cell = Null
             /\ \A i \in 1..Len(value') : value'[i].cell = Null
    <3>1. \A c \in Cells : cell[c] # "value"  BY <2>2, Typing DEF ValuesOK
    <3>2. QED  BY <3>1 DEF ValuesOK, Plain
  <2>3. QED  BY <1>2, <2>1, <2>2
<1>4. SameWrappers
  <2>1. \A w \in Wrappers : wrapper[w].by = "method" =>
          /\ call'.phase \in {"used", "crashed"}
          /\ \E i \in 1..Len(value') : value'[i].cell = wrapper[w].cell
    <3>1. SUFFICES ASSUME NEW w \in Wrappers, wrapper[w].by = "method"
                   PROVE  /\ call'.phase \in {"used", "crashed"}
                          /\ \E i \in 1..Len(value') : value'[i].cell = wrapper[w].cell
      OBVIOUS
    <3>2. wrapper[w].cell # Null  BY <3>1, Typing DEF WrappersOK
    <3>3. call.phase \in {"used", "crashed"} /\ \E i \in 1..Len(value) : value[i].cell = wrapper[w].cell
      BY <3>1, <3>2 DEF WrappersOK
    <3>4. QED  BY <3>2, <3>3 DEF Plain
  <2>2. QED  BY <1>1, <2>1 DEF SameWrappers
<1>5. QED  BY <1>3, <1>4, KeptOwners

(* All values are unset, and no method runs.                               *)
AllUnset(vs) ==
  /\ wrapper' = wrapper /\ cell' = UnsetAll(vs) /\ value' = <<>>
  /\ \A w \in Wrappers : wrapper[w].by # "method"
  /\ \A c \in Cells : cell[c] = "value" => \E v \in vs : v.cell = c
  /\ call'.phase # "answered"

LEMMA UnsetKeeps ==
  ASSUME NEW vs, ValuesTyped, ValuesOK, OwnersOK, WrappersOK, AllUnset(vs)
  PROVE  ValuesOK' /\ OwnersOK' /\ WrappersOK'
<1>1. \A c \in Cells : cell'[c] = IF cell[c] = "value" THEN "freed" ELSE cell[c]
  BY DEF AllUnset, UnsetAll
<1>2. value' = <<>> /\ Len(value') = 0 /\ 1..Len(value') = {}
  <2>1. value' = <<>>  BY DEF AllUnset
  <2>3. QED  BY <2>1
<1>3. ValuesOK'
  <2>1. \A i \in 1..Len(value') : FALSE  BY <1>2
  <2>2. \A c \in Cells : cell'[c] # "value"  BY <1>1
  <2>3. call'.phase # "answered"  BY DEF AllUnset
  <2>4. QED  BY <2>1, <2>2, <2>3 DEF ValuesOK
<1>4. SameWrappers  BY <1>1 DEF AllUnset, SameWrappers
<1>5. QED  BY <1>3, <1>4, KeptOwners

-----------------------------------------------------------------------------
(* Owners: steps that change a wrapper                                     *)

(* Methods run, and answers are waited for, as before.                     *)
SameValues ==
  /\ value' = value
  /\ call.phase \in {"used", "crashed"} => call'.phase \in {"used", "crashed"}
  /\ call'.phase = "answered" => call.phase = "answered"

(* The wrapper gets memory of its own.                                     *)
GetsOwn(w, c) ==
  /\ SameValues /\ c \in Cells /\ cell[c] = "none" /\ ~wrapper[w].owns
  /\ wrapper' = [wrapper EXCEPT ![w] = [cell |-> c, owns |-> TRUE, by |-> "anyone"]]
  /\ cell' = [cell EXCEPT ![c] = "wrapper"]

LEMMA OwnKeeps ==
  ASSUME NEW w \in Wrappers, NEW c, ValuesTyped, ValuesOK, OwnersOK, WrappersOK, GetsOwn(w, c)
  PROVE  ValuesOK' /\ OwnersOK' /\ WrappersOK'
<1> DEFINE own == [cell |-> c, owns |-> TRUE, by |-> "anyone"]
<1>1. /\ c \in Cells /\ cell[c] = "none" /\ ~wrapper[w].owns /\ value' = value
      /\ wrapper' = [wrapper EXCEPT ![w] = own] /\ cell' = [cell EXCEPT ![c] = "wrapper"]
  BY DEF GetsOwn, SameValues
<1>2. own.cell = c /\ own.owns = TRUE /\ own.by = "anyone"  OBVIOUS
<1> HIDE DEF own
<1>3. wrapper'[w] = own /\ \A o \in Wrappers \ {w} : wrapper'[o] = wrapper[o]  BY <1>1 DEF ValuesTyped
<1>4. cell'[c] = "wrapper" /\ \A d \in Cells \ {c} : cell'[d] = cell[d]  BY <1>1 DEF ValuesTyped
<1>5. Null \notin Cells /\ \A o \in Wrappers : wrapper[o].cell \in Cells \cup {Null}  BY Typing
<1>7. \A o \in Wrappers : wrapper[o].cell # c  BY <1>1, <1>5 DEF WrappersOK
<1>8. ValuesOK'
  <2>3. call'.phase = "answered" => call.phase = "answered"  BY DEF GetsOwn, SameValues
  <2>4. \A i \in 1..Len(value') : value'[i].cell # Null =>
          value'[i].held = "full" /\ cell'[value'[i].cell] \in {"value", "wrapper", "library"}
    BY <1>1 DEF ValuesOK
  <2>5. \A d \in Cells : cell'[d] = "value" => \E i \in 1..Len(value') : value'[i].cell = d
    BY <1>1 DEF ValuesOK
  <2>6. call'.phase = "answered" /\ value'[1].cell # Null => cell'[value'[1].cell] = "value"
    <3>1. SUFFICES ASSUME call.phase = "answered", value[1].cell # Null  PROVE cell'[value[1].cell] = "value"
      BY <1>1, <2>3
    <3>2. cell[value[1].cell] = "value"  BY <3>1 DEF ValuesOK
    <3>3. CASE value[1].cell \in Cells  BY <1>1, <3>2
    <3>4. CASE value[1].cell \notin Cells  BY <1>1, <3>2
    <3>5. QED  BY <3>3, <3>4
  <2>7. QED  BY <2>4, <2>5, <2>6 DEF ValuesOK
<1>9. OwnersOK'
  <2>1. \A d \in Cells \ {c} : Owners(d)' = Owners(d)
    BY <1>1, <1>2 DEF Owners
  <2>2. Owners(c)' = {w} /\ Owners(c) = {}
    BY <1>2, <1>3, <1>7 DEF Owners
  <2>3. \A d \in Cells \ {c} : /\ cell'[d] = "wrapper" <=> Owners(d)' # {}
                               /\ \A o, p \in Owners(d)' : o = p
    BY <1>4, <2>1 DEF OwnersOK
  <2>4. cell'[c] = "wrapper" /\ Owners(c)' # {} /\ \A o, p \in Owners(c)' : o = p
    BY <1>4, <2>2
  <2>5. QED  BY <2>3, <2>4 DEF OwnersOK
<1>10. WrappersOK'
  <2>1. SUFFICES ASSUME NEW o \in Wrappers
                 PROVE  IF wrapper'[o].cell = Null THEN wrapper'[o] = NoBoxed
                        ELSE /\ cell'[wrapper'[o].cell] # "none"
                             /\ wrapper'[o].by = "anyone" =>
                                  wrapper'[o].owns \/ cell'[wrapper'[o].cell] = "library"
                             /\ wrapper'[o].by # "anyone" => ~wrapper'[o].owns
                             /\ wrapper'[o].by = "method" =>
                                  /\ call'.phase \in {"used", "crashed"}
                                  /\ \E i \in 1..Len(value') : value'[i].cell = wrapper'[o].cell
    BY DEF WrappersOK
  <2>2. CASE o = w  BY <1>1, <1>2, <1>3, <1>4, <1>5, <2>2
  <2>3. CASE o # w /\ wrapper[o].cell = Null  BY <1>3, <2>3 DEF WrappersOK
  <2>4. CASE o # w /\ wrapper[o].cell # Null
    <3>1. wrapper'[o] = wrapper[o] /\ wrapper[o].cell \in Cells  BY <1>3, <1>5, <2>4
    <3>2. cell'[wrapper[o].cell] = cell[wrapper[o].cell]  BY <1>4, <1>7, <3>1
    <3>3. /\ cell[wrapper[o].cell] # "none"
          /\ wrapper[o].by = "anyone" => wrapper[o].owns \/ cell[wrapper[o].cell] = "library"
          /\ wrapper[o].by # "anyone" => ~wrapper[o].owns
          /\ wrapper[o].by = "method" =>
               call.phase \in {"used", "crashed"} /\ \E i \in 1..Len(value) : value[i].cell = wrapper[o].cell
      BY <2>4 DEF WrappersOK
    <3>4. wrapper[o].by = "method" =>
            call'.phase \in {"used", "crashed"} /\ \E i \in 1..Len(value') : value'[i].cell = wrapper[o].cell
      BY <3>3 DEF GetsOwn, SameValues
    <3>5. QED  BY <2>4, <3>1, <3>2, <3>3, <3>4
  <2>5. QED  BY <2>2, <2>3, <2>4
<1>11. QED  BY <1>8, <1>9, <1>10

(* The wrapper points at memory that is not its own.                       *)
Borrows(w, c, by) ==
  /\ wrapper[w].cell = Null /\ c \in Cells /\ cell'[c] # "none" /\ by \in {"anyone", "handler", "method"}
  /\ wrapper' = [wrapper EXCEPT ![w] = [cell |-> c, owns |-> FALSE, by |-> by]]
  /\ by = "anyone" => cell'[c] = "library"
  /\ \A d \in Cells : \/ cell'[d] = cell[d]
                      \/ cell[d] = "none" /\ cell'[d] \in {"value", "library"}
                      \/ cell[d] = "value" /\ cell'[d] = "freed"
  /\ \A o \in Wrappers : wrapper'[o].by = "method" =>
       call'.phase \in {"used", "crashed"} /\ \E i \in 1..Len(value') : value'[i].cell = wrapper'[o].cell

LEMMA BorrowKeeps ==
  ASSUME NEW w \in Wrappers, NEW c, NEW by, ValuesTyped, OwnersOK, WrappersOK, Borrows(w, c, by)
  PROVE  OwnersOK' /\ WrappersOK'
<1> DEFINE r == [cell |-> c, owns |-> FALSE, by |-> by]
<1>1. /\ wrapper[w].cell = Null /\ c \in Cells /\ cell'[c] # "none"
      /\ wrapper' = [wrapper EXCEPT ![w] = r]
      /\ by = "anyone" => cell'[c] = "library"
  BY DEF Borrows
<1>2. \A d \in Cells : \/ cell'[d] = cell[d]
                       \/ cell[d] = "none" /\ cell'[d] \in {"value", "library"}
                       \/ cell[d] = "value" /\ cell'[d] = "freed"
  BY DEF Borrows
<1>3. r.cell = c /\ r.owns = FALSE /\ r.by = by  OBVIOUS
<1> HIDE DEF r
<1>4. wrapper'[w] = r /\ \A o \in Wrappers \ {w} : wrapper'[o] = wrapper[o]  BY <1>1 DEF ValuesTyped
<1>5. Null \notin Cells /\ NoBoxed.owns = FALSE /\ \A o \in Wrappers : wrapper[o].cell \in Cells \cup {Null}
  BY Typing
<1>6. OwnersOK'
  <2>1. ~wrapper[w].owns  BY <1>1, <1>5 DEF WrappersOK
  <2>2. \A d \in Cells : Owners(d)' = Owners(d)  BY <1>3, <1>4, <2>1 DEF Owners
  <2>3. SUFFICES ASSUME NEW d \in Cells
                 PROVE  /\ cell'[d] = "wrapper" <=> Owners(d)' # {}
                        /\ \A o, p \in Owners(d)' : o = p
    BY DEF OwnersOK
  <2>4. /\ cell[d] = "wrapper" <=> Owners(d) # {}
        /\ \A o, p \in Owners(d) : o = p
    BY DEF OwnersOK
  <2>5. cell'[d] = "wrapper" <=> cell[d] = "wrapper"  BY <1>2
  <2>6. QED  BY <2>2, <2>4, <2>5
<1>7. WrappersOK'
  <2>1. SUFFICES ASSUME NEW o \in Wrappers
                 PROVE  IF wrapper'[o].cell = Null THEN wrapper'[o] = NoBoxed
                        ELSE /\ cell'[wrapper'[o].cell] # "none"
                             /\ wrapper'[o].by = "anyone" =>
                                  wrapper'[o].owns \/ cell'[wrapper'[o].cell] = "library"
                             /\ wrapper'[o].by # "anyone" => ~wrapper'[o].owns
                             /\ wrapper'[o].by = "method" =>
                                  /\ call'.phase \in {"used", "crashed"}
                                  /\ \E i \in 1..Len(value') : value'[i].cell = wrapper'[o].cell
    BY DEF WrappersOK
  <2>2. wrapper'[o].by = "method" =>
          call'.phase \in {"used", "crashed"} /\ \E i \in 1..Len(value') : value'[i].cell = wrapper'[o].cell
    BY DEF Borrows
  <2>3. CASE o = w  BY <1>1, <1>3, <1>4, <1>5, <2>2, <2>3
  <2>4. CASE o # w /\ wrapper[o].cell = Null  BY <1>4, <2>4 DEF WrappersOK
  <2>5. CASE o # w /\ wrapper[o].cell # Null
    <3>1. wrapper'[o] = wrapper[o] /\ wrapper[o].cell \in Cells  BY <1>4, <1>5, <2>5
    <3>2. /\ cell[wrapper[o].cell] # "none"
          /\ wrapper[o].by = "anyone" => wrapper[o].owns \/ cell[wrapper[o].cell] = "library"
          /\ wrapper[o].by # "anyone" => ~wrapper[o].owns
      BY <2>5 DEF WrappersOK
    <3>3. cell'[wrapper[o].cell] # "none" /\ (cell[wrapper[o].cell] = "library" => cell'[wrapper[o].cell] = "library")
      BY <1>2, <3>1, <3>2
    <3>4. QED  BY <2>2, <2>5, <3>1, <3>2, <3>3
  <2>6. QED  BY <2>3, <2>4, <2>5
<1>8. QED  BY <1>6, <1>7

(* No value's memory changes hands.                                        *)
ValuesStay ==
  /\ value' = value /\ (call'.phase = "answered" => call.phase = "answered")
  /\ \A i \in 1..Len(value) : value[i].cell # Null => cell'[value[i].cell] = cell[value[i].cell]
  /\ \A d \in Cells : cell'[d] = "value" => cell[d] = "value"

LEMMA StayKeeps ==
  ASSUME ValuesTyped, ValuesOK, ValuesStay, call.phase = "answered" => Len(value) = 1
  PROVE  ValuesOK'
<1>1. value' = value /\ (call'.phase = "answered" => call.phase = "answered")  BY DEF ValuesStay
<1>2. \A i \in 1..Len(value) : value[i].cell # Null => cell'[value[i].cell] = cell[value[i].cell]
  BY DEF ValuesStay
<1>3. \A d \in Cells : cell'[d] = "value" => cell[d] = "value"  BY DEF ValuesStay
<1>4. \A i \in 1..Len(value') : value'[i].cell # Null =>
        value'[i].held = "full" /\ cell'[value'[i].cell] \in {"value", "wrapper", "library"}
  BY <1>1, <1>2 DEF ValuesOK
<1>5. \A d \in Cells : cell'[d] = "value" => \E i \in 1..Len(value') : value'[i].cell = d
  BY <1>1, <1>3 DEF ValuesOK
<1>6. call'.phase = "answered" /\ value'[1].cell # Null => cell'[value'[1].cell] = "value"
  BY <1>1, <1>2 DEF ValuesOK
<1>7. QED  BY <1>4, <1>5, <1>6 DEF ValuesOK

(* The wrapper lets go of its memory, and frees it if it is its own.       *)
LetsGo(w) ==
  /\ SameValues /\ wrapper' = [wrapper EXCEPT ![w] = NoBoxed]
  /\ cell' = IF wrapper[w].owns THEN [cell EXCEPT ![wrapper[w].cell] = "freed"] ELSE cell
  /\ wrapper[w].owns => \A i \in 1..Len(value) : value[i].cell # wrapper[w].cell

LEMMA LetGoKeeps ==
  ASSUME NEW w \in Wrappers, ValuesTyped, CallOK, ValuesOK, OwnersOK, WrappersOK, LetsGo(w)
  PROVE  ValuesOK' /\ OwnersOK' /\ WrappersOK'
<1> DEFINE c == wrapper[w].cell
<1>1. /\ value' = value /\ wrapper' = [wrapper EXCEPT ![w] = NoBoxed]
      /\ wrapper[w].owns => cell' = [cell EXCEPT ![c] = "freed"] /\ \A i \in 1..Len(value) : value[i].cell # c
      /\ ~wrapper[w].owns => cell' = cell
  BY DEF LetsGo, SameValues
<1>2. /\ Null \notin Cells /\ NoBoxed.owns = FALSE /\ NoBoxed.cell = Null
      /\ \A o \in Wrappers : wrapper[o].cell \in Cells \cup {Null}
  BY Typing
<1>3. wrapper[w].owns => c \in Cells  BY <1>2 DEF WrappersOK
<1>4. \A o \in Wrappers : wrapper[o].cell = c /\ wrapper[o].owns /\ wrapper[w].owns => o = w
  BY <1>3 DEF OwnersOK, Owners
<1>5. wrapper[w].owns => cell[c] = "wrapper"  BY <1>3 DEF OwnersOK, Owners
<1> HIDE DEF c
<1>6. wrapper'[w] = NoBoxed /\ \A o \in Wrappers \ {w} : wrapper'[o] = wrapper[o]  BY <1>1 DEF ValuesTyped
<1>7. \A d \in Cells : cell'[d] = IF wrapper[w].owns /\ d = c THEN "freed" ELSE cell[d]  BY <1>1
  DEF ValuesTyped
<1>8. ValuesOK'
  <2>2. ValuesStay  BY DEF ValuesStay, LetsGo, SameValues
  <2>3. QED  BY <2>2, StayKeeps DEF CallOK
<1>9. OwnersOK'
  <2>1. SUFFICES ASSUME NEW d \in Cells
                 PROVE  /\ cell'[d] = "wrapper" <=> Owners(d)' # {}
                        /\ \A o, p \in Owners(d)' : o = p
    BY DEF OwnersOK
  <2>2. /\ cell[d] = "wrapper" <=> Owners(d) # {}
        /\ \A o, p \in Owners(d) : o = p
    BY DEF OwnersOK
  <2>3. CASE wrapper[w].owns /\ d = c
    <3>1. Owners(d)' = {}  BY <1>2, <1>4, <1>6, <2>3 DEF Owners
    <3>2. QED  BY <1>7, <2>3, <3>1
  <2>4. CASE ~(wrapper[w].owns /\ d = c)
    <3>1. Owners(d)' = Owners(d)  BY <1>2, <1>6, <2>4 DEF Owners, c
    <3>2. QED  BY <1>7, <2>2, <2>4, <3>1
  <2>5. QED  BY <2>3, <2>4
<1>10. WrappersOK'
  <2>1. SUFFICES ASSUME NEW o \in Wrappers
                 PROVE  IF wrapper'[o].cell = Null THEN wrapper'[o] = NoBoxed
                        ELSE /\ cell'[wrapper'[o].cell] # "none"
                             /\ wrapper'[o].by = "anyone" =>
                                  wrapper'[o].owns \/ cell'[wrapper'[o].cell] = "library"
                             /\ wrapper'[o].by # "anyone" => ~wrapper'[o].owns
                             /\ wrapper'[o].by = "method" =>
                                  /\ call'.phase \in {"used", "crashed"}
                                  /\ \E i \in 1..Len(value') : value'[i].cell = wrapper'[o].cell
    BY DEF WrappersOK
  <2>2. CASE o = w  BY <1>2, <1>6, <2>2
  <2>3. CASE o # w /\ wrapper[o].cell = Null  BY <1>6, <2>3 DEF WrappersOK
  <2>4. CASE o # w /\ wrapper[o].cell # Null
    <3>1. wrapper'[o] = wrapper[o] /\ wrapper[o].cell \in Cells  BY <1>2, <1>6, <2>4
    <3>2. /\ cell[wrapper[o].cell] # "none"
          /\ wrapper[o].by = "anyone" => wrapper[o].owns \/ cell[wrapper[o].cell] = "library"
          /\ wrapper[o].by # "anyone" => ~wrapper[o].owns
          /\ wrapper[o].by = "method" =>
               call.phase \in {"used", "crashed"} /\ \E i \in 1..Len(value) : value[i].cell = wrapper[o].cell
      BY <2>4 DEF WrappersOK
    <3>3. wrapper[o].by = "method" =>
            call'.phase \in {"used", "crashed"} /\ \E i \in 1..Len(value') : value'[i].cell = wrapper[o].cell
      BY <3>2 DEF LetsGo, SameValues
    <3>4. cell'[wrapper[o].cell] # "none"  BY <1>7, <3>1, <3>2
    <3>5. wrapper[o].by = "anyone" => wrapper[o].owns \/ cell'[wrapper[o].cell] = "library"
      BY <1>5, <1>7, <3>1, <3>2
    <3>6. QED  BY <2>4, <3>1, <3>2, <3>3, <3>4, <3>5
  <2>5. QED  BY <2>2, <2>3, <2>4
<1>11. QED  BY <1>8, <1>9, <1>10

-----------------------------------------------------------------------------
(* Types of what steps make                                                *)

LEMMA CallFields ==
  ASSUME ValuesTyped
  PROVE  /\ call \in CallRecord(call.phase)
         /\ call.phase \in Phases /\ call.function \in Functional /\ call.given \in Given \cup {Null}
         /\ call.phase \in Asks => call.args \in Seq(Kinds)
         /\ call.phase \notin Asks => call.args \in Seq(Arguments)
<1>1. call \in CallRecord(call.phase)  BY DEF ValuesTyped
<1>2. QED  BY <1>1 DEF CallRecord

(* Only the phase changes.                                                 *)
ToPhase(p) ==
  /\ p \in Phases /\ call' = [call EXCEPT !.phase = p]
  /\ p \in Asks <=> call.phase \in Asks

LEMMA PhaseFields ==
  ASSUME NEW p, ValuesTyped, ToPhase(p)
  PROVE  /\ call'.phase = p /\ call'.function = call.function
         /\ call'.args = call.args /\ call'.given = call.given
         /\ call' \in CallRecord(call'.phase)
<1>1. call \in CallRecord(call.phase)  BY CallFields
<1>2. p \in Phases /\ call' = [call EXCEPT !.phase = p] /\ (p \in Asks <=> call.phase \in Asks)
  BY DEF ToPhase
<1>3. /\ call'.phase = p /\ call'.function = call.function
      /\ call'.args = call.args /\ call'.given = call.given
  BY <1>2
<1>4. call' \in CallRecord(p)
  <2>1. CASE p \in Asks  BY <1>1, <1>2 DEF CallRecord
  <2>2. CASE p \notin Asks  BY <1>1, <1>2 DEF CallRecord
  <2>3. QED  BY <2>1, <2>2
<1>5. QED  BY <1>3, <1>4

LEMMA IdleTyped ==
  /\ SetProperty \in Functional /\ CreateProperty \in Functional /\ Functions \subseteq Functional
  /\ SetProperty \in Functions /\ SetProperty.all = FALSE /\ SetProperty.single = TRUE
  /\ \A f \in Functions : f.single => ~f.all
  /\ \A f \in Functions : f.cleans = "none" => f.single
  /\ Idle.phase = "idle" /\ Idle.function = SetProperty /\ Idle.args = <<>> /\ Idle.given = Null
  /\ Idle \in CallRecord("idle")
<1>1. \A a, b, c \in BOOLEAN : \A d :
        /\ Function(a, b, c, d).all = a /\ Function(a, b, c, d).single = b
        /\ Function(a, b, c, d).static = c /\ Function(a, b, c, d).cleans = d
        /\ d \in {"none", "before", "all", "array"} => Function(a, b, c, d) \in Functional
  BY DEF Function, Functional
<1>2. SetProperty \in Functional /\ CreateProperty \in Functional  BY <1>1 DEF SetProperty, CreateProperty
<1>3. \A f \in Functions :
        f \in Functional /\ (f.single => ~f.all) /\ (f.cleans = "none" => f.single)
  <2>1. SUFFICES ASSUME NEW f \in Functions
                 PROVE  f \in Functional /\ (f.single => ~f.all) /\ (f.cleans = "none" => f.single)
    OBVIOUS
  <2>2. PICK a \in BOOLEAN, b \in BOOLEAN, c \in BOOLEAN, d \in {"none", "before", "all", "array"} :
          f = Function(a, b, c, d) /\ (b => ~a) /\ (d = "none" => b)
    <3>1. f \in {Function(FALSE, TRUE, FALSE, "none"), Function(FALSE, FALSE, FALSE, "array"),
                 Function(FALSE, FALSE, FALSE, "before"), Function(TRUE, FALSE, FALSE, "all"),
                 Function(TRUE, FALSE, TRUE, "all")}
      BY DEF Functions, SetProperty, ValueArray, ObjectNew, ObjectInit, ConstructorArgs, Emit, Chain
    <3> DEFINE good(a, b, c, d) == f = Function(a, b, c, d) /\ (b => ~a) /\ (d = "none" => b)
    <3>2. \/ good(FALSE, TRUE, FALSE, "none") \/ good(FALSE, FALSE, FALSE, "array")
          \/ good(FALSE, FALSE, FALSE, "before") \/ good(TRUE, FALSE, FALSE, "all")
          \/ good(TRUE, FALSE, TRUE, "all")
      BY <3>1
    <3> HIDE DEF good
    <3>3. \E a \in BOOLEAN, b \in BOOLEAN, c \in BOOLEAN, d \in {"none", "before", "all", "array"} :
            good(a, b, c, d)
      BY <3>2
    <3>4. QED  BY <3>3 DEF good
  <2>3. /\ f.all = a /\ f.single = b /\ f.cleans = d /\ f \in Functional  BY <1>1, <2>2
  <2>4. QED  BY <2>2, <2>3
<1>4. SetProperty \in Functions /\ SetProperty.all = FALSE /\ SetProperty.single = TRUE
  BY <1>1 DEF Functions, SetProperty
<1>5. <<>> \in Seq(Arguments) /\ "idle" \in Phases /\ "idle" \notin Asks  BY DEF Phases, Asks
<1>6. Idle.phase = "idle" /\ Idle.function = SetProperty /\ Idle.args = <<>> /\ Idle.given = Null
  BY DEF Idle
<1>7. Idle \in CallRecord("idle")  BY <1>2, <1>5 DEF Idle, CallRecord
<1>8. QED  BY <1>2, <1>3, <1>4, <1>6, <1>7

(* Nothing is called, and the values stay.                                 *)
LEMMA SameCall ==
  ASSUME CallOK, NumbersOK, UNCHANGED <<call, value>>
  PROVE  CallOK' /\ NumbersOK' /\ SameValues
<1>2. CallOK'  BY DEF CallOK, At
<1>3. NumbersOK'  BY DEF NumbersOK
<1>4. QED  BY <1>2, <1>3 DEF SameValues

LEMMA WrapperTyped ==
  ASSUME NEW c \in Cells \cup {Null}, NEW owns \in BOOLEAN, NEW by \in {"anyone", "handler", "method"}
  PROVE  [cell |-> c, owns |-> owns, by |-> by] \in WrapperRecord
BY DEF WrapperRecord

-----------------------------------------------------------------------------
(* Steps: wrappers                                                         *)

LEMMA GetsOwnSteps ==
  ASSUME NEW w \in Wrappers, NEW c, ValuesInv, UNCHANGED <<call, value>>, GetsOwn(w, c)
  PROVE  ValuesInv'
<1>1. ValuesTyped /\ CallOK /\ ValuesOK /\ OwnersOK /\ WrappersOK /\ NumbersOK  BY DEF ValuesInv
<1>2. ValuesOK' /\ OwnersOK' /\ WrappersOK'  BY <1>1, OwnKeeps
<1>3. CallOK' /\ NumbersOK'  BY <1>1, SameCall
<1>4. /\ c \in Cells /\ cell' = [cell EXCEPT ![c] = "wrapper"]
      /\ wrapper' = [wrapper EXCEPT ![w] = [cell |-> c, owns |-> TRUE, by |-> "anyone"]]
  BY DEF GetsOwn
<1>5. [cell |-> c, owns |-> TRUE, by |-> "anyone"] \in WrapperRecord  BY <1>4, WrapperTyped
<1>6. ValuesTyped'  BY <1>1, <1>4, <1>5 DEF ValuesTyped, CellStates
<1>7. QED  BY <1>2, <1>3, <1>6 DEF ValuesInv

LEMMA BoxedCopies ==
  ASSUME NEW w \in Wrappers, NEW c, ValuesTyped, WrappersOK, Boxed(w, c, TRUE, TRUE, "anyone"), SameValues
  PROVE  GetsOwn(w, NewCell)
<1>1. wrapper[w].cell = Null /\ \E d \in Cells : cell[d] = "none"  BY DEF Boxed
<1>2. NewCell \in Cells /\ cell[NewCell] = "none"  BY <1>1, FreshCell
<1>3. ~wrapper[w].owns  BY <1>1, Typing DEF WrappersOK
<1>4. wrapper' = [wrapper EXCEPT ![w] = [cell |-> NewCell, owns |-> TRUE, by |-> "anyone"]]
      /\ cell' = [cell EXCEPT ![NewCell] = "wrapper"]
  BY DEF Boxed
<1>5. QED  BY <1>2, <1>3, <1>4 DEF GetsOwn

LEMMA ToPythonKeeps ==
  ASSUME NEW w \in Wrappers, NEW i \in DOMAIN value, ValuesInv, ToPython(w, i)
  PROVE  ValuesInv'
<1>1. UNCHANGED <<call, value>> /\ Boxed(w, value[i].cell, TRUE, TRUE, "anyone")  BY DEF ToPython
<1>2. SameValues  BY <1>1, SameCall DEF ValuesInv
<1>3. GetsOwn(w, NewCell)  BY <1>1, <1>2, BoxedCopies DEF ValuesInv
<1>4. QED  BY <1>1, <1>3, GetsOwnSteps

LEMMA CopyKeeps ==
  ASSUME NEW w \in Wrappers, NEW copy \in Wrappers, ValuesInv, Copy(w, copy)
  PROVE  ValuesInv'
<1>1. UNCHANGED <<call, value>> /\ Boxed(copy, wrapper[w].cell, TRUE, TRUE, "anyone")  BY DEF Copy
<1>2. SameValues  BY <1>1, SameCall DEF ValuesInv
<1>3. GetsOwn(copy, NewCell)  BY <1>1, <1>2, BoxedCopies DEF ValuesInv
<1>4. QED  BY <1>1, <1>3, GetsOwnSteps

LEMMA LetsGoSteps ==
  ASSUME NEW w \in Wrappers, ValuesInv, UNCHANGED <<call, value>>, LetsGo(w)
  PROVE  ValuesInv'
<1>1. ValuesTyped /\ CallOK /\ ValuesOK /\ OwnersOK /\ WrappersOK /\ NumbersOK  BY DEF ValuesInv
<1>2. ValuesOK' /\ OwnersOK' /\ WrappersOK'  BY <1>1, LetGoKeeps
<1>3. CallOK' /\ NumbersOK'  BY <1>1, SameCall
<1>4. /\ wrapper' = [wrapper EXCEPT ![w] = NoBoxed]
      /\ cell' = IF wrapper[w].owns THEN [cell EXCEPT ![wrapper[w].cell] = "freed"] ELSE cell
  BY DEF LetsGo
<1>5. NoBoxed \in WrapperRecord  BY <1>1, Typing
<1>6. cell' \in [Cells -> CellStates]
  <2>1. CASE wrapper[w].owns  BY <1>1, <1>4 DEF ValuesTyped, CellStates
  <2>2. CASE ~wrapper[w].owns  BY <1>1, <1>4, <2>2 DEF ValuesTyped
  <2>3. QED  BY <2>1, <2>2
<1>7. ValuesTyped'  BY <1>1, <1>4, <1>5, <1>6 DEF ValuesTyped
<1>8. QED  BY <1>2, <1>3, <1>7 DEF ValuesInv

LEMMA DeallocKeeps ==
  ASSUME NEW w \in Wrappers, ValuesInv, Dealloc(w)
  PROVE  ValuesInv'
<1>1. UNCHANGED <<call, value>>  BY DEF Dealloc
<1>2. SameValues  BY <1>1, SameCall DEF ValuesInv
<1>4. LetsGo(w)  BY <1>2 DEF Dealloc, LetsGo
<1>5. QED  BY <1>1, <1>4, LetsGoSteps

LEMMA MethodReturnsKeeps ==
  ASSUME NEW w \in Wrappers, NEW kept \in BOOLEAN, ValuesInv, MethodReturns(w, kept)
  PROVE  ValuesInv'
<1>1. UNCHANGED <<call, value>> /\ wrapper[w].by = "method"  BY DEF MethodReturns
<1>2. SameValues  BY <1>1, SameCall DEF ValuesInv
<1>3. ~wrapper[w].owns  BY <1>1, Typing DEF ValuesInv, WrappersOK
<1>4. CASE kept
  <2>1. NewCell \in Cells /\ cell[NewCell] = "none"  BY <1>4, FreshCell DEF MethodReturns
  <2>2. GetsOwn(w, NewCell)  BY <1>2, <1>3, <1>4, <2>1 DEF MethodReturns, GetsOwn
  <2>3. QED  BY <1>1, <2>2, GetsOwnSteps
<1>5. CASE ~kept
  <2>1. LetsGo(w)  BY <1>2, <1>3, <1>5 DEF MethodReturns, LetsGo
  <2>2. QED  BY <1>1, <2>1, LetsGoSteps
<1>6. QED  BY <1>4, <1>5

LEMMA BorrowSteps ==
  ASSUME NEW w \in Wrappers, NEW c, NEW by, ValuesInv, UNCHANGED <<call, value>>, Borrows(w, c, by), ValuesStay,
         cell' \in [Cells -> CellStates]
  PROVE  ValuesInv'
<1>1. ValuesTyped /\ CallOK /\ ValuesOK /\ OwnersOK /\ WrappersOK /\ NumbersOK  BY DEF ValuesInv
<1>2. OwnersOK' /\ WrappersOK'  BY <1>1, BorrowKeeps
<1>3. ValuesOK'  BY <1>1, StayKeeps DEF CallOK
<1>4. CallOK' /\ NumbersOK'  BY <1>1, SameCall
<1>5. wrapper' = [wrapper EXCEPT ![w] = [cell |-> c, owns |-> FALSE, by |-> by]]  BY DEF Borrows
<1>6. [cell |-> c, owns |-> FALSE, by |-> by] \in WrapperRecord  BY WrapperTyped DEF Borrows
<1>7. ValuesTyped'  BY <1>1, <1>5, <1>6 DEF ValuesTyped
<1>8. QED  BY <1>2, <1>3, <1>4, <1>7 DEF ValuesInv

(* A handler or a method points at the memory of a value.                  *)
LEMMA PointsAtValue ==
  ASSUME NEW w \in Wrappers, NEW i \in DOMAIN value, NEW by \in {"handler", "method"}, ValuesInv,
         UNCHANGED <<call, value>>, Used(i), Boxed(w, value[i].cell, FALSE, FALSE, by)
  PROVE  ValuesInv'
<1> DEFINE c == value[i].cell
<1>1. ValuesTyped /\ CallOK /\ ValuesOK /\ OwnersOK /\ WrappersOK  BY DEF ValuesInv
<1>2. i \in 1..Len(value) /\ c \in Cells /\ call.phase = "used"  BY <1>1, Typing DEF Used
<1>3. cell[c] \in {"value", "wrapper", "library"}  BY <1>2, Typing, <1>1 DEF ValuesOK
<1>4. /\ wrapper[w].cell = Null /\ cell' = cell
      /\ wrapper' = [wrapper EXCEPT ![w] = [cell |-> c, owns |-> FALSE, by |-> by]]
  BY DEF Boxed
<1>5. \A o \in Wrappers : wrapper'[o].by = "method" =>
        call'.phase \in {"used", "crashed"} /\ \E j \in 1..Len(value') : value'[j].cell = wrapper'[o].cell
  <2>1. SUFFICES ASSUME NEW o \in Wrappers, wrapper'[o].by = "method"
                 PROVE  \E j \in 1..Len(value) : value[j].cell = wrapper'[o].cell
    BY <1>2
  <2>2. CASE o = w
    <3>1. wrapper'[w].cell = c  BY <1>1, <1>4 DEF ValuesTyped
    <3>2. QED  BY <1>2, <2>2, <3>1
  <2>3. CASE o # w
    <3>1. wrapper'[o] = wrapper[o]  BY <1>4, <2>3
    <3>2. QED  BY <1>1, <2>1, <3>1, Typing DEF WrappersOK
  <2>4. QED  BY <2>2, <2>3
<1>6. Borrows(w, c, by)  BY <1>2, <1>3, <1>4, <1>5 DEF Borrows
<1>7. ValuesStay  BY <1>4 DEF ValuesStay
<1>8. cell' \in [Cells -> CellStates]  BY <1>1, <1>4 DEF ValuesTyped
<1>9. QED  BY <1>6, <1>7, <1>8, BorrowSteps

LEMMA ReturnedKeeps ==
  ASSUME NEW w \in Wrappers, NEW c \in Cells, NEW own_ref \in BOOLEAN, ValuesInv, Returned(w, c, own_ref)
  PROVE  ValuesInv'
<1>1. ValuesTyped /\ CallOK /\ ValuesOK /\ OwnersOK /\ WrappersOK  BY DEF ValuesInv
<1>2. UNCHANGED <<call, value>> /\ cell[c] = "none" /\ wrapper[w].cell = Null  BY DEF Returned
<1>3. SameValues  BY <1>2, SameCall DEF ValuesInv
<1>4. ~wrapper[w].owns  BY <1>1, <1>2, Typing DEF WrappersOK
<1>5. CASE own_ref
  <2>1. GetsOwn(w, c)  BY <1>3, <1>4, <1>5 DEF Returned, GetsOwn
  <2>2. QED  BY <1>2, <2>1, GetsOwnSteps
<1>6. CASE ~own_ref
  <2>1. /\ wrapper' = [wrapper EXCEPT ![w] = [cell |-> c, owns |-> FALSE, by |-> "anyone"]]
        /\ cell' = [cell EXCEPT ![c] = "library"]
    BY <1>6 DEF Returned
  <2>2. \A d \in Cells : cell'[d] = IF d = c THEN "library" ELSE cell[d]  BY <1>1, <2>1 DEF ValuesTyped
  <2>3. \A o \in Wrappers : wrapper'[o].by = "method" => wrapper[o].by = "method" /\ wrapper'[o] = wrapper[o]
    <3>1. wrapper'[w].by = "anyone" /\ \A o \in Wrappers \ {w} : wrapper'[o] = wrapper[o]
      BY <1>1, <2>1 DEF ValuesTyped
    <3>2. QED  BY <3>1
  <2>4. \A o \in Wrappers : wrapper'[o].by = "method" =>
          call'.phase \in {"used", "crashed"} /\ \E j \in 1..Len(value') : value'[j].cell = wrapper'[o].cell
    BY <1>1, <1>2, <2>3, Typing DEF WrappersOK
  <2>5. Borrows(w, c, "anyone")  BY <1>2, <2>1, <2>2, <2>4 DEF Borrows
  <2>6. ValuesStay
    <3>1. \A i \in 1..Len(value) : value[i].cell # Null => value[i].cell \in Cells \ {c}
      BY <1>1, <1>2, Typing DEF ValuesOK
    <3>2. QED  BY <1>2, <2>2, <3>1 DEF ValuesStay
  <2>7. cell' \in [Cells -> CellStates]  BY <1>1, <2>1 DEF ValuesTyped, CellStates
  <2>8. QED  BY <1>2, <2>5, <2>6, <2>7, BorrowSteps
<1>7. QED  BY <1>5, <1>6

LEMMA AsPyObjectKeeps ==
  ASSUME NEW w \in Wrappers, ValuesInv, AsPyObject(w)
  PROVE  ValuesInv'
<1>1. ValuesTyped /\ CallOK /\ ValuesOK /\ OwnersOK /\ WrappersOK /\ NumbersOK  BY DEF ValuesInv
<1>2. /\ call.phase = "answered" /\ value[1].cell # Null /\ value' = value
      /\ Boxed(w, value[1].cell, TRUE, TRUE, "anyone")
  BY DEF AsPyObject
<1>3. ToPhase("given")  BY DEF AsPyObject, ToPhase, Phases, Asks
<1>4. /\ call'.phase = "given" /\ call'.function = call.function
      /\ call'.args = call.args /\ call'.given = call.given /\ call' \in CallRecord(call'.phase)
  BY <1>1, <1>3, PhaseFields
<1>5. SameValues  BY <1>2 DEF SameValues
<1>6. GetsOwn(w, NewCell)  BY <1>1, <1>2, <1>5, BoxedCopies
<1>7. ValuesOK' /\ OwnersOK' /\ WrappersOK'  BY <1>1, <1>6, OwnKeeps
<1>8. ValuesTyped'
  <2>1. NewCell \in Cells  BY <1>6 DEF GetsOwn
  <2>2. [cell |-> NewCell, owns |-> TRUE, by |-> "anyone"] \in WrapperRecord  BY <2>1, WrapperTyped
  <2>3. /\ wrapper' = [wrapper EXCEPT ![w] = [cell |-> NewCell, owns |-> TRUE, by |-> "anyone"]]
        /\ cell' = [cell EXCEPT ![NewCell] = "wrapper"]
    BY <1>6 DEF GetsOwn
  <2>4. QED  BY <1>1, <1>2, <1>4, <2>2, <2>3 DEF ValuesTyped, CellStates
<1>9. CallOK'  BY <1>1, <1>2, <1>4 DEF CallOK, Asks
<1>10. NumbersOK'  BY <1>1, <1>2, <1>4 DEF NumbersOK
<1>11. QED  BY <1>7, <1>8, <1>9, <1>10 DEF ValuesInv

-----------------------------------------------------------------------------
(* Steps: calls that leave boxed values alone                              *)

CallTyped(v) == call' \in CallRecord(call'.phase) /\ value' = v /\ v \in Seq(Value)

LEMMA PlainSteps ==
  ASSUME ValuesInv, Plain, NEW v, CallTyped(v), CallOK', NumbersOK'
  PROVE  ValuesInv'
<1>1. ValuesOK' /\ OwnersOK' /\ WrappersOK'  BY PlainKeeps DEF ValuesInv
<1>2. ValuesTyped'  BY DEF ValuesInv, ValuesTyped, CallTyped, Plain
<1>3. QED  BY <1>1, <1>2 DEF ValuesInv

LEMMA CallMade ==
  ASSUME NEW f \in Functional, NEW p \in Phases \ Asks, NEW args \in Seq(Arguments),
         NEW r, r = [phase |-> p, function |-> f, args |-> args, given |-> Null]
  PROVE  /\ r.phase = p /\ r.function = f /\ r.args = args /\ r.given = Null
         /\ r \in CallRecord(r.phase)
BY DEF CallRecord

LEMMA AskMade ==
  ASSUME NEW f \in Functional, NEW p \in Asks, NEW args \in Seq(Kinds),
         NEW r, r = [phase |-> p, function |-> f, args |-> args, given |-> Null]
  PROVE  /\ r.phase = p /\ r.function = f /\ r.args = args /\ r.given = Null
         /\ r \in CallRecord(r.phase)
BY DEF CallRecord, Phases, Asks

LEMMA MadeValues ==
  /\ \A kind \in Kinds : /\ Empty(kind) \in Value /\ Empty(kind).held = "empty" /\ Empty(kind).kind = kind
                         /\ Empty(kind).n = 0 /\ Empty(kind).cell = Null
  /\ \A kind \in Kinds, n \in Int, c \in Cells \cup {Null} :
        /\ Full(kind, n, c) \in Value /\ Full(kind, n, c).held = "full" /\ Full(kind, n, c).kind = kind
        /\ Full(kind, n, c).n = n /\ Full(kind, n, c).cell = c
  /\ Number \subseteq Kinds
BY DEF Empty, Full, Value, Kinds

(* A sequence of one value                                                 *)
LEMMA One ==
  ASSUME NEW v \in Value
  PROVE  <<v>> \in Seq(Value) /\ Len(<<v>>) = 1 /\ <<v>>[1] = v /\ \A i \in 1..Len(<<v>>) : <<v>>[i] = v
OBVIOUS

LEMMA Nothing == Len(<<>>) = 0 /\ <<>> \in Seq(Value) /\ \A i \in 1..Len(<<>>) : FALSE
OBVIOUS

LEMMA BeginKeeps ==
  ASSUME NEW f \in Functions, NEW args \in Lists, ValuesInv, Begin(f, args)
  PROVE  ValuesInv'
<1>1. ValuesTyped /\ CallOK /\ ValuesOK  BY DEF ValuesInv
<1>2. args \in Seq(Arguments) /\ args # <<>>  BY ValuesAssumption
<1>3. f \in Functional /\ (f.single => ~f.all) /\ f.all \in BOOLEAN  BY IdleTyped DEF Functional
<1>4. call.phase = "idle" /\ value = <<>>  BY <1>1 DEF Begin, CallOK
<1>5. call' = [phase |-> "convert", function |-> f, args |-> args, given |-> Null]  BY DEF Begin, Idle
<1>6. /\ call'.phase = "convert" /\ call'.function = f /\ call'.args = args /\ call'.given = Null
      /\ call' \in CallRecord(call'.phase)
  BY <1>2, <1>3, <1>5, CallMade DEF Phases, Asks
<1>7. PICK vs \in Seq(Value) : /\ value' = vs /\ Len(vs) = IF f.all THEN Len(args) ELSE 0
                               /\ \A i \in 1..Len(vs) : vs[i].held = "empty" /\ vs[i].cell = Null
  <2>1. CASE f.all
    <3>1. value' = [i \in 1..Len(args) |-> Empty(args[i].kind)]  BY <2>1 DEF Begin
    <3>2. \A i \in 1..Len(args) : args[i].kind \in Kinds
      <4>1. \A i \in 1..Len(args) : args[i] \in Arguments  BY <1>2
      <4>2. QED  BY <4>1 DEF Arguments
    <3>3. \A i \in 1..Len(args) : Empty(args[i].kind) \in Value  BY <3>2, MadeValues
    <3>5. value' \in Seq(Value) /\ Len(value') = Len(args)  BY <3>1, <3>3
    <3>6. \A i \in 1..Len(value') : value'[i].held = "empty" /\ value'[i].cell = Null
      BY <3>1, <3>2, MadeValues
    <3>7. QED  BY <2>1, <3>5, <3>6
  <2>2. CASE ~f.all
    <3>1. value' = <<>>  BY <2>2 DEF Begin
    <3>2. value' \in Seq(Value) /\ Len(value') = 0 /\ \A i \in 1..Len(value') : FALSE  BY <3>1
    <3>3. QED  BY <2>2, <3>2
  <2>3. QED  BY <2>1, <2>2
<1>8. Plain
  <2>2. QED  BY <1>4, <1>7 DEF Plain, Begin
<1>9. CallTyped(vs)  BY <1>6, <1>7 DEF CallTyped
<1>10. FullTo(value', 0) /\ 0 \in 0..Len(value')  BY <1>7 DEF FullTo
<1>11. At' = 0  BY <1>7, <1>10, AtNow
<1>12. CallOK'
  <2>2. FullTo(value', At')  BY <1>10, <1>11
  <2>3. QED  BY <1>3, <1>6, <1>7, <1>11, <2>2 DEF CallOK, Asks
<1>13. NumbersOK'
  <2>2. \A i \in DOMAIN value' \cap DOMAIN call'.args : Exact(call'.args[i], value'[i])
    BY <1>7 DEF Exact
  <2>3. QED  BY <1>6, <2>2 DEF NumbersOK
<1>14. QED  BY <1>8, <1>9, <1>12, <1>13, PlainSteps

LEMMA UseKeeps ==
  ASSUME ValuesInv, Use
  PROVE  ValuesInv'
<1>1. ValuesTyped /\ CallOK /\ NumbersOK  BY DEF ValuesInv
<1>2. call.phase = "convert" /\ value # <<>> /\ UNCHANGED <<value, cell, wrapper>>  BY DEF Use
<1>3. ToPhase("used")  BY DEF Use, ToPhase, Phases, Asks
<1>4. /\ call'.phase = "used" /\ call'.function = call.function
      /\ call'.args = call.args /\ call'.given = call.given /\ call' \in CallRecord(call'.phase)
  BY <1>1, <1>3, PhaseFields
<1>5. CallTyped(value)  BY <1>1, <1>2, <1>4, Typing DEF CallTyped
<1>6. Plain  BY <1>2, <1>4 DEF Plain
<1>7. CallOK'  BY <1>1, <1>2, <1>4 DEF CallOK, Asks
<1>8. NumbersOK'  BY <1>1, <1>2, <1>4 DEF NumbersOK
<1>9. QED  BY <1>5, <1>6, <1>7, <1>8, PlainSteps

LEMMA ToCHandlerKeeps ==
  ASSUME ValuesInv, ToCHandler
  PROVE  ValuesInv'
<1>1. ValuesTyped /\ CallOK /\ NumbersOK  BY DEF ValuesInv
<1>2. call.phase = "used" /\ UNCHANGED <<value, cell, wrapper>>  BY DEF ToCHandler
<1>3. ToPhase("crashed")  BY DEF ToCHandler, ToPhase, Phases, Asks
<1>4. /\ call'.phase = "crashed" /\ call'.function = call.function
      /\ call'.args = call.args /\ call'.given = call.given /\ call' \in CallRecord(call'.phase)
  BY <1>1, <1>3, PhaseFields
<1>5. CallTyped(value)  BY <1>1, <1>2, <1>4, Typing DEF CallTyped
<1>6. Plain  BY <1>2, <1>4 DEF Plain
<1>7. CallOK'  BY <1>1, <1>2, <1>4 DEF CallOK, Asks
<1>8. NumbersOK'  BY <1>1, <1>2, <1>4 DEF NumbersOK
<1>9. QED  BY <1>5, <1>6, <1>7, <1>8, PlainSteps

LEMMA AskKeeps ==
  ASSUME NEW kind \in Kinds, ValuesInv, Ask(kind)
  PROVE  ValuesInv'
<1>1. ValuesTyped /\ CallOK  BY DEF ValuesInv
<1>2. call.phase = "idle" /\ value = <<>> /\ value' = <<Empty(kind)>>  BY <1>1 DEF Ask, CallOK
<1>3. call' = [phase |-> "asked", function |-> SetProperty, args |-> <<>>, given |-> Null]
  BY DEF Ask, Idle
<1>4. /\ call'.phase = "asked" /\ call'.function = SetProperty /\ call'.given = Null
      /\ call' \in CallRecord(call'.phase)
  <2>1. "asked" \in Asks  BY DEF Asks
  <2>3. SetProperty \in Functional  BY IdleTyped
  <2>4. SUFFICES ASSUME NEW args, args = <<>>
                 PROVE  /\ call'.phase = "asked" /\ call'.function = SetProperty /\ call'.given = Null
                        /\ call' \in CallRecord(call'.phase)
    OBVIOUS
  <2>5. call' = [phase |-> "asked", function |-> SetProperty, args |-> args, given |-> Null]
    BY <1>3, <2>4
  <2>6. args \in Seq(Kinds)  BY <2>4
  <2> HIDE <2>4
  <2>7. QED  BY <2>1, <2>3, <2>5, <2>6, AskMade
<1>5. /\ value' \in Seq(Value) /\ Len(value') = 1 /\ value'[1] = Empty(kind)
      /\ \A i \in 1..Len(value') : value'[i] = Empty(kind)
  BY <1>2, MadeValues
<1>6. Plain
  <2>2. QED  BY <1>2, MadeValues DEF Plain, Ask
<1>7. CallTyped(value')  BY <1>4, <1>5 DEF CallTyped
<1>8. CallOK'  BY <1>4, <1>5, MadeValues DEF CallOK
<1>9. NumbersOK'  BY <1>4, <1>5, MadeValues, FitsZero DEF NumbersOK
<1>10. QED  BY <1>6, <1>7, <1>8, <1>9, PlainSteps

LEMMA AskAllKeeps ==
  ASSUME NEW kind \in Kinds, ValuesInv, AskAll(<<"boxed", kind>>)
  PROVE  ValuesInv'
<1> DEFINE kinds == <<"boxed", kind>>
<1>1. ValuesTyped /\ CallOK  BY DEF ValuesInv
<1>2. call.phase = "idle" /\ value = <<>> /\ UNCHANGED <<value, cell, wrapper>>  BY <1>1 DEF AskAll, CallOK
<1>3. "boxed" \in Kinds  BY DEF Kinds
<1>4. kinds \in Seq(Kinds) /\ kinds # <<>>  BY <1>3
<1>5. call' = [phase |-> "ask", function |-> SetProperty, args |-> kinds, given |-> Null]
  BY DEF AskAll, Idle
<1> HIDE DEF kinds
<1>6. /\ call'.phase = "ask" /\ call'.function = SetProperty /\ call'.args = kinds /\ call'.given = Null
      /\ call' \in CallRecord(call'.phase)
  BY <1>4, <1>5, AskMade, IdleTyped DEF Asks
<1>7. Plain  BY <1>2, <1>6 DEF Plain
<1>8. CallTyped(value)  BY <1>2, <1>6 DEF CallTyped
<1>9. CallOK'  BY <1>2, <1>4, <1>6 DEF CallOK
<1>10. NumbersOK'  BY <1>6 DEF NumbersOK
<1>11. QED  BY <1>7, <1>8, <1>9, <1>10, PlainSteps

LEMMA AskNextKeeps ==
  ASSUME ValuesInv, AskNext
  PROVE  ValuesInv'
<1> DEFINE kind == call.args[1]
<1>1. ValuesTyped /\ CallOK /\ NumbersOK  BY DEF ValuesInv
<1>2. call.phase = "ask" /\ value = <<>> /\ call.args # <<>> /\ value' = <<Empty(kind)>>
  BY <1>1 DEF AskNext, CallOK
<1>3. kind \in Kinds
  <2>1. call.args \in Seq(Kinds)  BY <1>1, <1>2, CallFields DEF Asks
  <2>2. QED  BY <1>2, <2>1
<1> HIDE DEF kind
<1>4. ToPhase("asked")  BY DEF AskNext, ToPhase, Phases, Asks
<1>5. /\ call'.phase = "asked" /\ call'.function = call.function
      /\ call'.args = call.args /\ call'.given = call.given /\ call' \in CallRecord(call'.phase)
  BY <1>1, <1>4, PhaseFields
<1>6. /\ value' \in Seq(Value) /\ Len(value') = 1 /\ value'[1] = Empty(kind)
      /\ \A i \in 1..Len(value') : value'[i] = Empty(kind)
  BY <1>2, <1>3, MadeValues
<1>7. Plain
  <2>2. QED  BY <1>2, <1>3, MadeValues DEF Plain, AskNext
<1>8. CallTyped(value')  BY <1>5, <1>6 DEF CallTyped
<1>9. CallOK'
  <2>1. call'.function = SetProperty  BY <1>1, <1>2, <1>5 DEF CallOK, Asks
  <2>2. QED  BY <1>3, <1>5, <1>6, <2>1, MadeValues DEF CallOK
<1>10. NumbersOK'
  <2>1. call'.given = Null  BY <1>1, <1>2, <1>5 DEF NumbersOK
  <2>2. QED  BY <1>3, <1>5, <1>6, <2>1, MadeValues, FitsZero DEF NumbersOK
<1>11. QED  BY <1>7, <1>8, <1>9, <1>10, PlainSteps

LEMMA AnswerCKeeps ==
  ASSUME NEW n \in CNumbers, ValuesInv, AnswerC(n)
  PROVE  ValuesInv'
<1> DEFINE kind == value[1].kind
<1>1. ValuesTyped /\ CallOK /\ NumbersOK  BY DEF ValuesInv
<1>2. /\ call.phase = "asked" /\ kind \in Number /\ InKind(kind, n)
      /\ UNCHANGED <<cell, wrapper>> /\ Len(value) = 1 /\ value[1].cell = Null
      /\ value' = IF kind \in NoAddress THEN value ELSE <<Full(kind, n, Null)>>
  BY <1>1 DEF AnswerC, CallOK
<1>3. n \in Int  BY ValuesAssumption
<1>4. ToPhase("answered")  BY DEF AnswerC, ToPhase, Phases, Asks
<1>5. /\ call'.phase = "answered" /\ call'.function = call.function
      /\ call'.args = call.args /\ call'.given = call.given /\ call' \in CallRecord(call'.phase)
  BY <1>1, <1>4, PhaseFields
<1>6. /\ value' \in Seq(Value) /\ Len(value') = 1 /\ value'[1].cell = Null
      /\ \A i \in 1..Len(value') : value'[i].cell = Null
      /\ value'[1].kind = kind /\ InKind(kind, value'[1].n)
  <2>1. CASE kind \in NoAddress
    <3>1. value' = value  BY <1>2, <2>1
    <3>2. InKind(kind, value[1].n)  BY <1>1, <1>2 DEF NumbersOK
    <3>3. \A i \in 1..Len(value) : i = 1  BY <1>2
    <3>4. QED  BY <1>1, <1>2, <3>1, <3>2, <3>3, Typing
  <2>2. CASE kind \notin NoAddress
    <3>1. value' = <<Full(kind, n, Null)>>  BY <1>2, <2>2
    <3>2. /\ Full(kind, n, Null) \in Value /\ Full(kind, n, Null).kind = kind
          /\ Full(kind, n, Null).n = n /\ Full(kind, n, Null).cell = Null
      BY <1>2, <1>3, MadeValues
    <3>3. /\ value' \in Seq(Value) /\ Len(value') = 1 /\ value'[1] = Full(kind, n, Null)
          /\ \A i \in 1..Len(value') : value'[i] = Full(kind, n, Null)
      BY <3>1, <3>2
    <3>4. QED  BY <1>2, <3>2, <3>3
  <2>3. QED  BY <2>1, <2>2
<1> HIDE DEF kind
<1>7. Plain
  <2>2. QED  BY <1>2, <1>6 DEF Plain
<1>8. CallTyped(value')  BY <1>5, <1>6 DEF CallTyped
<1>9. CallOK'  BY <1>1, <1>2, <1>5, <1>6 DEF CallOK, Asks
<1>10. NumbersOK'
  <2>1. call'.given = Null  BY <1>1, <1>2, <1>5 DEF NumbersOK
  <2>2. QED  BY <1>5, <1>6, <2>1 DEF NumbersOK
<1>11. QED  BY <1>7, <1>8, <1>9, <1>10, PlainSteps

LEMMA AnswerPlainKeeps ==
  ASSUME ValuesInv, AnswerPlain
  PROVE  ValuesInv'
<1> DEFINE given == IF value[1].kind \in Number THEN NumberAsPy(value[1]) ELSE Null
<1>1. ValuesTyped /\ CallOK /\ NumbersOK  BY DEF ValuesInv
<1>2. /\ call.phase = "answered" /\ value[1].cell = Null /\ UNCHANGED <<value, cell, wrapper>>
      /\ call' = [call EXCEPT !.phase = "given", !.given = given]
  BY DEF AnswerPlain
<1>3. given \in Given \cup {Null}
  <2>1. value[1].kind \in Number => InKind(value[1].kind, value[1].n)  BY <1>1, <1>2 DEF NumbersOK
  <2>2. QED  BY <2>1, GivesBack
<1>4. given # Null => value[1].kind \in Number /\ given = NumberAsPy(value[1])  OBVIOUS
<1> HIDE DEF given
<1>5. call \in CallRecord("answered")  BY <1>1, <1>2, CallFields
<1>6. /\ call'.phase = "given" /\ call'.function = call.function /\ call'.args = call.args
      /\ call'.given = given /\ call' \in CallRecord("given")
  BY <1>2, <1>3, <1>5 DEF CallRecord, Asks, Phases
<1>7. CallTyped(value)  BY <1>1, <1>2, <1>6, Typing DEF CallTyped
<1>8. Plain  BY <1>2 DEF Plain
<1>9. CallOK'  BY <1>1, <1>2 DEF CallOK, Asks
<1>10. NumbersOK'  BY <1>1, <1>2, <1>4 DEF NumbersOK
<1>11. QED  BY <1>7, <1>8, <1>9, <1>10, PlainSteps

LEMMA DeclareKeeps ==
  ASSUME NEW kind \in Number, NEW objs \in Limits, ValuesInv, Declare(kind, objs)
  PROVE  ValuesInv'
<1> DEFINE args == [i \in 1..Len(objs) |-> [kind |-> kind, obj |-> objs[i]]]
           vs == [i \in 1..Len(objs) |-> Full(kind, ParsedDefault(kind, objs[i]).n, Null)]
<1>1. ValuesTyped /\ CallOK /\ NumbersOK  BY DEF ValuesInv
<1>2. objs \in Seq(PyObjects) /\ DOMAIN objs = 1..Len(objs) /\ Len(objs) \in Nat
      /\ \A i \in 1..Len(objs) : objs[i] \in PyObjects
  BY ValuesAssumption
<1>4. call.phase = "idle" /\ value = <<>> /\ UNCHANGED <<cell, wrapper>>  BY <1>1 DEF Declare, CallOK
<1>5. value' = vs  BY DEF Declare
<1>6. \A i \in 1..Len(objs) : ParsedDefault(kind, objs[i]).outcome = "ok"  BY DEF Declare
<1>7. call' = [phase |-> "declared", function |-> CreateProperty, args |-> args, given |-> Null]
  BY <1>2 DEF Declare, Idle
<1>8. args \in Seq(Arguments) /\ \A i \in 1..Len(objs) : args[i].obj = objs[i]
  <2>1. \A i \in 1..Len(objs) : [kind |-> kind, obj |-> objs[i]] \in Arguments
    BY <1>2, MadeValues DEF Arguments
  <2>2. QED  BY <2>1
<1>9. \A i \in 1..Len(objs) :
        /\ vs[i] \in Value /\ vs[i].cell = Null /\ vs[i].kind = kind
        /\ vs[i].n = ParsedDefault(kind, objs[i]).n
  <2>1. SUFFICES ASSUME NEW i \in 1..Len(objs)
                 PROVE  /\ vs[i] \in Value /\ vs[i].cell = Null /\ vs[i].kind = kind
                        /\ vs[i].n = ParsedDefault(kind, objs[i]).n
    OBVIOUS
  <2>2. ParsedDefault(kind, objs[i]).n \in Int  BY <1>2, DeclaresSame
  <2>4. QED  BY <2>2, MadeValues
<1>10. vs \in Seq(Value) /\ Len(vs) = Len(objs) /\ DOMAIN vs = 1..Len(objs)
  <2>1. \A i \in 1..Len(objs) : Full(kind, ParsedDefault(kind, objs[i]).n, Null) \in Value  BY <1>9
  <2>2. QED  BY <2>1
<1> HIDE DEF args, vs
<1>11. /\ call'.phase = "declared" /\ call'.function = CreateProperty /\ call'.args = args
       /\ call'.given = Null /\ call' \in CallRecord(call'.phase)
  <2>1. "declared" \in Phases \ Asks /\ CreateProperty \in Functional  BY IdleTyped DEF Phases, Asks
  <2>2. QED  BY <1>7, <1>8, <2>1, CallMade
<1>12. Plain
  <2>2. \A i \in 1..Len(value') : value'[i].cell = Null  BY <1>5, <1>9, <1>10
  <2>3. QED  BY <1>4, <1>11, <2>2 DEF Plain
<1>13. CallTyped(value')  BY <1>5, <1>10, <1>11 DEF CallTyped
<1>14. CallOK'  BY <1>11 DEF CallOK, Asks
<1>15. NumbersOK'
  <2>1. SUFFICES ASSUME NEW i \in DOMAIN vs, FromNumber(vs[i].kind, args[i].obj).outcome = "ok"
                 PROVE  vs[i].n = FromNumber(vs[i].kind, args[i].obj).n
    BY <1>5, <1>11 DEF NumbersOK
  <2>2. i \in 1..Len(objs) /\ objs[i] \in PyObjects  BY <1>2, <1>10
  <2>3. vs[i].kind = kind /\ args[i].obj = objs[i] /\ vs[i].n = ParsedDefault(kind, objs[i]).n
    BY <1>8, <1>9, <2>2
  <2>4. ParsedDefault(kind, objs[i]).outcome = "ok"  BY <1>6, <2>2
  <2>5. FromNumber(kind, objs[i]).outcome = "ok"  BY <2>1, <2>3
  <2>6. ParsedDefault(kind, objs[i]).n = FromNumber(kind, objs[i]).n  BY <2>2, <2>4, <2>5, DeclaresSame
  <2>7. QED  BY <2>3, <2>6
<1>16. QED  BY <1>12, <1>13, <1>14, <1>15, PlainSteps

-----------------------------------------------------------------------------
(* Steps: answers                                                          *)

(* The only value is replaced by one that has a copy of its own, or none.  *)
Replaces(v) ==
  /\ value' = <<v>> /\ v \in Value /\ Len(value) = 1
  /\ v.cell # Null => v.held = "full" /\ cell[v.cell] = "none" /\ cell'[v.cell] = "value"
  /\ \A c \in Cells : cell'[c] = IF c = v.cell THEN "value" ELSE IF c = value[1].cell THEN "freed" ELSE cell[c]

LEMMA ReplaceKeeps ==
  ASSUME NEW v, ValuesTyped, ValuesOK, Replaces(v)
  PROVE  ValuesOK' /\ value' \in Seq(Value) /\ Len(value') = 1 /\ value'[1] = v
<1>6. QED  BY DEF ValuesOK, Replaces

LEMMA AnswerKeeps ==
  ASSUME NEW x \in PyObjects, ValuesInv, Answer(x)
  PROVE  ValuesInv'
<1> DEFINE kind == value[1].kind
           got == From(kind, x)
<1>1. ValuesTyped /\ CallOK /\ ValuesOK /\ OwnersOK /\ WrappersOK /\ NumbersOK  BY DEF ValuesInv
<1>2. /\ call.phase = "asked" /\ Len(value) = 1 /\ value[1].cell = Null /\ kind \in Kinds
      /\ Copies(kind, x) => \E c \in Cells : cell[c] = "none"
      /\ value' = <<got.v>> /\ wrapper' = wrapper
      /\ cell' = IF got.v.cell = Null THEN cell ELSE [cell EXCEPT ![got.v.cell] = "value"]
  BY <1>1 DEF Answer, CallOK
<1>3. /\ got.v \in Value
      /\ got.v.kind \in Number => InKind(got.v.kind, got.v.n)
      /\ got.ok => got.v.held = "full" /\ got.v.kind = kind
      /\ got.v.cell # Null => got.ok /\ Copies(kind, x) /\ got.v.cell = NewCell
  BY <1>2, Makes
<1>4. got.v.cell # Null => got.v.cell \in Cells /\ cell[got.v.cell] = "none"  BY <1>2, <1>3, FreshCell
<1> HIDE DEF got
<1>5. Null \notin Cells  BY <1>1, Typing
<1>6. Replaces(got.v)
  <2>1. CASE got.v.cell = Null  BY <1>2, <1>3, <1>5, <2>1 DEF Replaces
  <2>2. CASE got.v.cell # Null
    <3>1. cell' = [cell EXCEPT ![got.v.cell] = "value"]  BY <1>2, <2>2
    <3>2. \A c \in Cells : cell'[c] = IF c = got.v.cell THEN "value" ELSE cell[c]  BY <1>1, <3>1
      DEF ValuesTyped
    <3>3. QED  BY <1>2, <1>3, <1>4, <1>5, <3>2 DEF Replaces
  <2>3. QED  BY <2>1, <2>2
<1>7. ValuesOK'  BY <1>1, <1>6, ReplaceKeeps
<1>8. value' \in Seq(Value) /\ Len(value') = 1 /\ value'[1] = got.v  BY <1>1, <1>6, ReplaceKeeps
<1>9. ToPhase("answered")  BY DEF Answer, ToPhase, Phases, Asks
<1>10. /\ call'.phase = "answered" /\ call'.function = call.function
       /\ call'.args = call.args /\ call'.given = call.given /\ call' \in CallRecord(call'.phase)
  BY <1>1, <1>9, PhaseFields
<1>11. \A c \in Cells : cell'[c] = cell[c] \/ (cell[c] = "none" /\ cell'[c] = "value")
  BY <1>2, <1>4
<1>12. OwnersOK' /\ WrappersOK'
  <2>1. \A w \in Wrappers : wrapper[w].by # "method"  BY <1>1, <1>2, Typing DEF WrappersOK
  <2>2. SameWrappers  BY <1>2, <1>11, <2>1 DEF SameWrappers
  <2>3. QED  BY <1>1, <2>2, KeptOwners
<1>13. cell' \in [Cells -> CellStates]  BY <1>1, <1>2 DEF ValuesTyped, CellStates
<1>14. ValuesTyped'  BY <1>1, <1>2, <1>8, <1>10, <1>13 DEF ValuesTyped
<1>15. CallOK'  BY <1>1, <1>2, <1>3, <1>10 DEF CallOK, Asks
<1>16. NumbersOK'
  <2>1. call'.given = Null  BY <1>1, <1>2, <1>10 DEF NumbersOK
  <2>2. QED  BY <1>3, <1>8, <1>10, <2>1 DEF NumbersOK
<1>17. QED  BY <1>7, <1>12, <1>14, <1>15, <1>16 DEF ValuesInv

LEMMA AccumulateKeeps ==
  ASSUME NEW w \in Wrappers, NEW x \in PyObjects, ValuesInv, Accumulate(w, x)
  PROVE  ValuesInv'
<1> DEFINE c == value[1].cell
           kind == value[1].kind
           got == From(kind, x)
           taken == got.v.held = "full"
<1>1. ValuesTyped /\ CallOK /\ ValuesOK /\ OwnersOK /\ WrappersOK /\ NumbersOK  BY DEF ValuesInv
<1>2. /\ call.phase = "answered" /\ Len(value) = 1 /\ c # Null /\ kind \in Kinds /\ call' = call
      /\ wrapper[w].cell = Null /\ (Copies(kind, x) => \E d \in Cells : cell[d] = "none")
      /\ wrapper' = [wrapper EXCEPT ![w] = [cell |-> c, owns |-> FALSE, by |-> "handler"]]
      /\ value' = IF taken THEN <<got.v>> ELSE value
      /\ cell' = [d \in Cells |-> IF taken /\ d = c THEN "freed"
                                  ELSE IF taken /\ d = got.v.cell THEN "value" ELSE cell[d]]
  BY <1>1 DEF Accumulate, CallOK
<1>3. /\ got.v \in Value
      /\ got.v.kind \in Number => InKind(got.v.kind, got.v.n)
      /\ got.ok => got.v.held = "full" /\ got.v.kind = kind
      /\ got.v.cell # Null => got.ok /\ Copies(kind, x) /\ got.v.cell = NewCell
  BY <1>2, Makes
<1>4. got.v.cell # Null => got.v.cell \in Cells /\ cell[got.v.cell] = "none"  BY <1>2, <1>3, FreshCell
<1>5. c \in Cells /\ cell[c] = "value" /\ Null \notin Cells /\ 1 \in 1..Len(value)
  <2>2. QED  BY <1>1, <1>2, Typing DEF ValuesOK
<1> HIDE DEF got
<1>7. CASE taken
  <2>1. value' = <<got.v>>  BY <1>2, <1>7
  <2>2. \A d \in Cells : cell'[d] = IF d = got.v.cell THEN "value" ELSE IF d = c THEN "freed" ELSE cell[d]
    BY <1>2, <1>4, <1>5, <1>7
  <2>3. Replaces(got.v)  BY <1>2, <1>3, <1>4, <1>5, <1>7, <2>1, <2>2 DEF Replaces
  <2>4. ValuesOK' /\ value' \in Seq(Value) /\ Len(value') = 1 /\ value'[1] = got.v
    BY <1>1, <2>3, ReplaceKeeps
  <2>5. \A d \in Cells : \/ cell'[d] = cell[d]
                         \/ cell[d] = "none" /\ cell'[d] = "value"
                         \/ cell[d] = "value" /\ cell'[d] = "freed"
    BY <1>4, <1>5, <2>2
  <2>7. \A o \in Wrappers : wrapper'[o].by # "method"
    <3>1. \A o \in Wrappers \ {w} : wrapper'[o] = wrapper[o]  BY <1>2
    <3>2. wrapper'[w].by = "handler"  BY <1>1, <1>2 DEF ValuesTyped
    <3>3. \A o \in Wrappers : wrapper[o].by # "method"  BY <1>1, <1>2, Typing DEF WrappersOK
    <3>4. QED  BY <3>1, <3>2, <3>3
  <2>8. Borrows(w, c, "handler")  BY <1>2, <1>5, <2>5, <2>7 DEF Borrows
  <2>9. OwnersOK' /\ WrappersOK'  BY <1>1, <2>8, BorrowKeeps
  <2>10. [cell |-> c, owns |-> FALSE, by |-> "handler"] \in WrapperRecord  BY <1>5, WrapperTyped
  <2>11. cell' \in [Cells -> CellStates]  BY <1>1, <1>2 DEF ValuesTyped, CellStates
  <2>12. wrapper' \in [Wrappers -> WrapperRecord]  BY <1>1, <1>2, <2>10 DEF ValuesTyped
  <2>13. ValuesTyped'  BY <1>1, <1>2, <2>4, <2>11, <2>12 DEF ValuesTyped
  <2>14. CallOK'  BY <1>1, <1>2, <1>3 DEF CallOK
  <2>15. NumbersOK'  BY <1>1, <1>2, <1>3 DEF NumbersOK
  <2>16. QED  BY <2>4, <2>9, <2>13, <2>14, <2>15 DEF ValuesInv
<1>8. CASE ~taken
  <2>1. value' = value /\ cell' = cell  BY <1>1, <1>2, <1>8 DEF ValuesTyped
  <2>2. \A o \in Wrappers : wrapper'[o].by # "method"
    <3>1. \A o \in Wrappers \ {w} : wrapper'[o] = wrapper[o]  BY <1>2
    <3>2. wrapper'[w].by = "handler"  BY <1>1, <1>2 DEF ValuesTyped
    <3>3. \A o \in Wrappers : wrapper[o].by # "method"  BY <1>1, <1>2, Typing DEF WrappersOK
    <3>4. QED  BY <3>1, <3>2, <3>3
  <2>3. Borrows(w, c, "handler")  BY <1>2, <1>5, <2>1, <2>2 DEF Borrows
  <2>4. ValuesStay  BY <1>2, <2>1 DEF ValuesStay
  <2>5. cell' \in [Cells -> CellStates]  BY <1>1, <2>1 DEF ValuesTyped
  <2>6. QED  BY <1>2, <2>1, <2>3, <2>4, <2>5, BorrowSteps
<1>9. QED  BY <1>7, <1>8

-----------------------------------------------------------------------------
(* Steps: the end of a call                                                *)

LEMMA FinishKeeps ==
  ASSUME ValuesInv, Finish
  PROVE  ValuesInv'
<1> DEFINE more == call.function.single /\ Len(call.args) > 1
           p == IF call.phase = "used" THEN "convert" ELSE "ask"
<1>1. ValuesTyped /\ CallOK /\ ValuesOK /\ OwnersOK /\ WrappersOK /\ NumbersOK  BY DEF ValuesInv
<1>2. /\ call.phase \in {"used", "given", "declared"} /\ \A w \in Wrappers : wrapper[w].by # "method"
      /\ cell' = UnsetAll(Elements(value)) /\ value' = <<>> /\ wrapper' = wrapper
  BY DEF Finish
<1>3. /\ more => call' = [call EXCEPT !.phase = p, !.args = Tail(@), !.given = Null]
      /\ ~more => call' = Idle
  BY DEF Finish
<1>4. CreateProperty.single = FALSE  BY DEF CreateProperty, Function
<1>5. more => call.phase \in {"used", "given"}
  BY <1>1, <1>2, <1>4 DEF CallOK
<1> HIDE DEF more
<1>6. Len(value') = 0 /\ value' \in Seq(Value) /\ DOMAIN value' = {}
  <2>1. value' \in Seq(Value) /\ Len(value') = 0  BY <1>2
  <2>2. QED  BY <2>1
<1>7. FullTo(value', 0) /\ At' = 0
  <2>1. FullTo(value', 0)  BY <1>6 DEF FullTo
  <2>2. QED  BY <1>6, <2>1, AtNow
<1>8. call' \in CallRecord(call'.phase) /\ CallOK' /\ NumbersOK' /\ call'.phase # "answered"
  <2>1. CASE ~more
    <3>1. call' = Idle /\ call'.phase = "idle" /\ call'.given = Null /\ call' \in CallRecord(call'.phase)
      BY <1>3, <2>1, IdleTyped
    <3>2. CallOK'  BY <1>2, <3>1 DEF CallOK, Asks
    <3>3. NumbersOK'  BY <3>1 DEF NumbersOK
    <3>4. QED  BY <3>1, <3>2, <3>3
  <2>2. CASE more
    <3> DEFINE args == Tail(call.args)
    <3>1. call \in CallRecord(call.phase) /\ call.phase \in {"used", "given"} /\ Len(call.args) > 1
      BY <1>1, <1>5, <2>2, CallFields DEF more
    <3>2. /\ call.phase = "used" => call.args \in Seq(Arguments)
          /\ call.phase = "given" => call.args \in Seq(Kinds)
      BY <1>1, CallFields DEF Asks
    <3>3. /\ call.phase = "used" => args \in Seq(Arguments)
          /\ call.phase = "given" => args \in Seq(Kinds)
          /\ Len(args) > 0 /\ Len(args) \in Nat /\ args # <<>>
      <4>3. Len(args) > 0 /\ Len(args) \in Nat  BY <3>1
      <4>4. args # <<>>
        <5> HIDE DEF args
        <5>2. SUFFICES ASSUME args = <<>>  PROVE FALSE  OBVIOUS
        <5>3. Len(args) = 0  BY <5>2
        <5>4. QED  BY <4>3, <5>3
      <4>5. QED  BY <3>2, <4>4
    <3>4. call' = [call EXCEPT !.phase = p, !.args = args, !.given = Null]  BY <1>3, <2>2
    <3> HIDE DEF args
    <3>5. p \in Phases /\ (p = "convert" <=> call.phase = "used") /\ (p = "ask" <=> call.phase = "given")
          /\ p \in {"convert", "ask"}
      BY <3>1 DEF Phases
    <3> HIDE DEF p
    <3>6. /\ call'.phase = p /\ call'.args = args /\ call'.given = Null /\ call'.function = call.function
      BY <3>4
    <3>7. call' \in CallRecord(p)
      <4>1. CASE p = "convert"  BY <3>1, <3>3, <3>4, <3>5 DEF CallRecord, Asks
      <4>2. CASE p = "ask"  BY <3>1, <3>3, <3>4, <3>5 DEF CallRecord, Asks
      <4>3. QED  BY <3>5, <4>1, <4>2
    <3>8. CallOK'
      <4>1. CASE p = "ask"
        <5>1. call.function = SetProperty  BY <1>1, <3>5, <4>1 DEF CallOK, Asks
        <5>2. QED  BY <1>2, <3>3, <3>6, <4>1, <5>1 DEF CallOK
      <4>2. CASE p = "convert"
        <5>1. call.function \in Functions /\ call.function.single
          BY <1>1, <2>2, <3>5, <4>2 DEF CallOK, more
        <5>2. call.function.all = FALSE
          <6>1. ~call.function.all /\ call.function.all \in BOOLEAN  BY <5>1, IdleTyped DEF Functional
          <6>2. QED  BY <6>1
        <5>4. QED  BY <1>6, <1>7, <3>6, <4>2, <5>1, <5>2 DEF CallOK, Asks
      <4>3. QED  BY <3>5, <4>1, <4>2
    <3>9. NumbersOK'  BY <1>6, <3>5, <3>6 DEF NumbersOK
    <3>10. QED  BY <3>5, <3>6, <3>7, <3>8, <3>9
  <2>3. QED  BY <2>1, <2>2
<1>9. ValuesOK' /\ OwnersOK' /\ WrappersOK'
  <2>1. \A c \in Cells : cell[c] = "value" => \E v \in Elements(value) : v.cell = c
    <3>1. \A i \in 1..Len(value) : value[i] \in Elements(value)  BY DEF Elements
    <3>2. QED  BY <1>1, <3>1 DEF ValuesOK
  <2>2. AllUnset(Elements(value))  BY <1>2, <1>8, <2>1 DEF AllUnset
  <2>3. QED  BY <1>1, <2>2, UnsetKeeps
<1>10. cell' \in [Cells -> CellStates]
  BY <1>1, <1>2 DEF ValuesTyped, UnsetAll, CellStates
<1>11. ValuesTyped'  BY <1>1, <1>2, <1>8, <1>10 DEF ValuesTyped
<1>12. QED  BY <1>8, <1>9, <1>11 DEF ValuesInv

-----------------------------------------------------------------------------
(* Steps: one more value                                                   *)

(* The value that comes after those that are converted is v.               *)
Puts(v, k) ==
  /\ value' \in Seq(Value) /\ Len(value) <= Len(value') /\ k + 1 \in 1..Len(value') /\ value'[k + 1] = v
  /\ \A i \in 1..Len(value') : i # k + 1 => i \in 1..Len(value) /\ value'[i] = value[i]
  /\ \A i \in 1..Len(value) : i # k + 1 => value'[i] = value[i]

LEMMA PutPuts ==
  ASSUME NEW v \in Value, ValuesTyped, CallOK, Converting, call.phase = "convert", value' = Put(v)
  PROVE  /\ Puts(v, At) /\ Len(value') <= Len(call.args)
         /\ call.function.all => Len(value') = Len(call.args)
         /\ ~call.function.all => Len(value') = At + 1
         /\ call.function.single => Len(value') = 1
<1> DEFINE k == At
<1>1. /\ value \in Seq(Value) /\ Len(value) \in Nat /\ k \in 0..Len(value) /\ k < Len(call.args)
      /\ IF call.function.all THEN Len(value) = Len(call.args) ELSE k = Len(value)
      /\ Len(call.args) \in Nat /\ call.function \in Functions
      /\ call.function.single => value = <<>>
  <2>2. QED  BY Typing DEF CallOK, Converting
<1>2. value' = IF call.function.all THEN [value EXCEPT ![k + 1] = v] ELSE Append(value, v)
  BY DEF Put
<1> HIDE DEF k
<1>3. CASE call.function.all
  <2>1. k + 1 \in 1..Len(value)  BY <1>1, <1>3
  <2>2. value' = [value EXCEPT ![k + 1] = v]  BY <1>2, <1>3
  <2>3. /\ value' \in Seq(Value) /\ Len(value') = Len(value) /\ value'[k + 1] = v
        /\ \A i \in 1..Len(value) : i # k + 1 => value'[i] = value[i]
    BY <1>1, <2>1, <2>2
  <2>4. Puts(v, k)  BY <2>1, <2>3 DEF Puts
  <2>6. QED  BY <1>1, <1>3, <2>3, <2>4 DEF k
<1>4. CASE ~call.function.all
  <2>1. value' = Append(value, v) /\ k = Len(value)  BY <1>1, <1>2, <1>4
  <2>4. Puts(v, k)  BY <1>1, <2>1 DEF Puts
  <2>6. QED  BY <1>1, <2>1, <2>4 DEF k
<1>5. QED  BY <1>3, <1>4

(* The new value has a copy of its own, memory that is not freed, or none. *)
LEMMA PutsKeep ==
  ASSUME NEW v, NEW k \in Nat, ValuesTyped, ValuesOK, Puts(v, k), call'.phase # "answered",
         \A i \in 1..Len(value) : value[i].held = "full" => i # k + 1,
         v.held = "full" /\ v.cell \in Cells \cup {Null},
         \/ cell' = cell /\ (v.cell # Null => cell[v.cell] \in {"value", "wrapper", "library"})
         \/ v.cell # Null /\ cell[v.cell] = "none" /\ cell' = [cell EXCEPT ![v.cell] = "value"]
  PROVE  ValuesOK'
<1>1. \A c \in Cells : cell'[c] = cell[c] \/ (c = v.cell /\ cell[c] = "none" /\ cell'[c] = "value")
  BY DEF ValuesTyped
<1>2. v.cell # Null => cell'[v.cell] \in {"value", "wrapper", "library"}
  BY DEF ValuesTyped
<1>3. /\ value'[k + 1] = v /\ k + 1 \in 1..Len(value') /\ Len(value) <= Len(value')
      /\ \A i \in 1..Len(value') : i # k + 1 => i \in 1..Len(value) /\ value'[i] = value[i]
      /\ \A i \in 1..Len(value) : i # k + 1 => value'[i] = value[i]
      /\ Len(value) \in Nat /\ Len(value') \in Nat
  BY DEF Puts
<1>4. \A i \in 1..Len(value') : value'[i].cell # Null =>
        value'[i].held = "full" /\ cell'[value'[i].cell] \in {"value", "wrapper", "library"}
  <2>1. SUFFICES ASSUME NEW i \in 1..Len(value'), value'[i].cell # Null
                 PROVE  value'[i].held = "full" /\ cell'[value'[i].cell] \in {"value", "wrapper", "library"}
    OBVIOUS
  <2>2. CASE i = k + 1  BY <1>2, <1>3, <2>1, <2>2
  <2>3. CASE i # k + 1
    <3>1. i \in 1..Len(value) /\ value'[i] = value[i]  BY <1>3, <2>3
    <3>2. value[i].held = "full" /\ cell[value[i].cell] \in {"value", "wrapper", "library"}
      BY <2>1, <3>1 DEF ValuesOK
    <3>3. value[i].cell \in Cells  BY <2>1, <3>1, Typing
    <3>4. cell'[value[i].cell] = cell[value[i].cell]  BY <1>1, <3>2, <3>3
    <3>5. QED  BY <3>1, <3>2, <3>4
  <2>4. QED  BY <2>2, <2>3
<1>5. \A c \in Cells : cell'[c] = "value" => \E i \in 1..Len(value') : value'[i].cell = c
  <2>1. SUFFICES ASSUME NEW c \in Cells, cell'[c] = "value"
                 PROVE  \E i \in 1..Len(value') : value'[i].cell = c
    OBVIOUS
  <2>2. CASE c = v.cell  BY <1>3, <2>2
  <2>3. CASE c # v.cell
    <3>1. PICK i \in 1..Len(value) : value[i].cell = c  BY <1>1, <2>1, <2>3 DEF ValuesOK
    <3>2. value[i].held = "full"  BY <3>1, Typing DEF ValuesOK
    <3>3. value'[i] = value[i] /\ i \in 1..Len(value')  BY <1>3, <3>2
    <3>4. QED  BY <3>1, <3>3
  <2>4. QED  BY <2>2, <2>3
<1>6. QED  BY <1>4, <1>5 DEF ValuesOK

LEMMA ConvertNextKeeps ==
  ASSUME ValuesInv, ConvertNext
  PROVE  ValuesInv'
<1> DEFINE k == At
           arg == call.args[k + 1]
           got == From(arg.kind, arg.obj)
           static == call.function.static /\ arg.kind = "boxed" /\ got.v.cell # Null
           v == IF static THEN Full(arg.kind, 0, wrapper[arg.obj.w].cell) ELSE got.v
           cleaned == Cleans(call.function, Elements(SubSeq(value, 1, k)), v)
<1>1. ValuesTyped /\ CallOK /\ ValuesOK /\ OwnersOK /\ WrappersOK /\ NumbersOK  BY DEF ValuesInv
<1>2. /\ Converting /\ Has(arg.obj) /\ (Copies(arg.kind, arg.obj) => \E c \in Cells : cell[c] = "none")
      /\ wrapper' = wrapper /\ call.phase = "convert"
      /\ got.ok => /\ value' = Put(v) /\ call' = call
                   /\ cell' = IF static \/ v.cell = Null THEN cell ELSE [cell EXCEPT ![v.cell] = "value"]
      /\ ~got.ok => cell' = UnsetAll(cleaned) /\ value' = <<>> /\ call' = Idle
  BY DEF ConvertNext, Converting
<1>3. /\ value \in Seq(Value) /\ Len(value) \in Nat /\ k \in 0..Len(value) /\ k < Len(call.args)
      /\ call.args \in Seq(Arguments) /\ FullTo(value, k) /\ call.function \in Functions
      /\ Len(value) <= Len(call.args)
      /\ call.function.single => value = <<>>
  <2>1. call.args \in Seq(Arguments)  BY <1>1, <1>2, CallFields DEF Asks
  <2>2. QED  BY <1>1, <1>2, <2>1, Typing DEF CallOK, Converting
<1>4. arg \in Arguments /\ k + 1 \in 1..Len(call.args)
  <2>2. QED  BY <1>3
<1>5. arg.kind \in Kinds /\ arg.obj \in PyObjects  BY <1>4 DEF Arguments
<1>6. /\ got.v \in Value /\ got.ok \in BOOLEAN
      /\ got.v.kind \in Number => InKind(got.v.kind, got.v.n)
      /\ got.ok => got.v.held = "full" /\ got.v.kind = arg.kind
      /\ got.v.cell # Null =>
           got.ok /\ Copies(arg.kind, arg.obj) /\ got.v.cell = NewCell
      /\ got.ok /\ AsNumber(arg.kind, arg.obj) =>
           /\ InKind(arg.kind, got.v.n)
           /\ Unsigned(arg.obj.n, IntSign) = Unsigned(got.v.n, IntSign)
           /\ arg.kind \in {"int", "enum", "flags"} \/ (arg.kind = "uint" /\ arg.obj.py = "long")
              \/ arg.obj.n = got.v.n
  BY <1>2, <1>5, Makes
<1>7. \A w \in Wrappers : wrapper[w].by # "method"  BY <1>1, <1>2, Typing DEF WrappersOK
<1> HIDE DEF k, arg, got
<1>8. CASE ~got.ok
  <2>1. call' = Idle /\ call'.phase = "idle" /\ call'.given = Null /\ call' \in CallRecord(call'.phase)
    BY <1>2, <1>8, IdleTyped
  <2>2. CallOK'  BY <1>2, <2>1 DEF CallOK, Asks
  <2>3. NumbersOK'  BY <2>1 DEF NumbersOK
  <2>4. \A c \in Cells : cell[c] = "value" => \E x \in cleaned : x.cell = c
    <3>1. SUFFICES ASSUME NEW c \in Cells, cell[c] = "value"  PROVE \E x \in cleaned : x.cell = c
      OBVIOUS
    <3>2. PICK i \in 1..Len(value) : value[i].cell = c  BY <1>1, <3>1 DEF ValuesOK
    <3>3. value[i].held = "full"  BY <1>1, <3>2, Typing DEF ValuesOK
    <3>4. i \in 1..k  BY <1>3, <3>3 DEF FullTo
    <3>5. value[i] \in Elements(SubSeq(value, 1, k))
      <4>1. Len(SubSeq(value, 1, k)) = k /\ SubSeq(value, 1, k)[i] = value[i]
            /\ DOMAIN SubSeq(value, 1, k) = 1..k
        BY <1>3, <3>4
      <4>2. QED  BY <3>4, <4>1 DEF Elements
    <3>6. call.function.cleans # "none"
      <4>2. QED  BY <1>3, IdleTyped
    <3>7. call.function.cleans \in {"before", "all", "array"}
      <4>1. call.function.cleans \in {"none", "before", "all", "array"}  BY <1>1, CallFields DEF Functional
      <4>2. QED  BY <3>6, <4>1
    <3>8. value[i] \in cleaned  BY <3>5, <3>7 DEF Cleans
    <3>9. QED  BY <3>2, <3>8
  <2>5. AllUnset(cleaned)  BY <1>2, <1>7, <2>1, <2>4 DEF AllUnset
  <2>6. ValuesOK' /\ OwnersOK' /\ WrappersOK'  BY <1>1, <2>5, UnsetKeeps
  <2>7. cell' \in [Cells -> CellStates]
    BY <1>1, <1>2 DEF ValuesTyped, UnsetAll, CellStates
  <2>8. value' \in Seq(Value)  BY <1>2, <1>8, Nothing
  <2>9. ValuesTyped'  BY <1>1, <1>2, <2>1, <2>7, <2>8 DEF ValuesTyped
  <2>10. QED  BY <2>2, <2>3, <2>6, <2>9 DEF ValuesInv
<1>9. CASE got.ok
  <2>1. /\ v \in Value /\ v.held = "full" /\ v.kind = arg.kind /\ v.cell \in Cells \cup {Null}
        /\ \/ cell' = cell /\ (v.cell # Null => cell[v.cell] \in {"value", "wrapper", "library"})
           \/ v.cell # Null /\ cell[v.cell] = "none" /\ cell' = [cell EXCEPT ![v.cell] = "value"]
    <3>1. CASE static
      <4> DEFINE c == wrapper[arg.obj.w].cell
      <4>1. arg.kind = "boxed" /\ arg.obj.py = "wrapper"  BY <1>6, <3>1 DEF Copies
      <4>2. arg.obj.w \in Wrappers  BY <1>5, <4>1, Objects
      <4>3. c \in Cells /\ cell[c] # "freed"  BY <1>1, <1>2, <4>1, <4>2, Typing DEF Has
      <4>4. cell[c] # "none"  BY <1>1, <4>2, <4>3, Typing DEF WrappersOK
      <4>5. cell[c] \in {"value", "wrapper", "library"}  BY <1>1, <4>3, <4>4 DEF ValuesTyped, CellStates
      <4>6. v = Full(arg.kind, 0, c)  BY <3>1
      <4>7. v \in Value /\ v.held = "full" /\ v.kind = arg.kind /\ v.cell = c
        BY <1>5, <4>3, <4>6, MadeValues
      <4>8. cell' = cell  BY <1>2, <1>9, <3>1
      <4>9. QED  BY <4>3, <4>5, <4>7, <4>8
    <3>2. CASE ~static
      <4>1. v = got.v  BY <3>2
      <4>2. v.cell \in Cells \cup {Null}  BY <1>6, <4>1 DEF Value
      <4>3. v.cell # Null => v.cell = NewCell /\ cell[v.cell] = "none"  BY <1>2, <1>6, <4>1, FreshCell
      <4>4. cell' = IF v.cell = Null THEN cell ELSE [cell EXCEPT ![v.cell] = "value"]
        BY <1>2, <1>9, <3>2
      <4>5. QED  BY <1>6, <1>9, <4>1, <4>2, <4>3, <4>4
    <3>3. QED  BY <3>1, <3>2
  <2>2. Exact(arg, v)
    <3>1. CASE static
      <4>1. ~AsNumber(v.kind, arg.obj)  BY <2>1, <3>1 DEF AsNumber, Number
      <4>2. QED  BY <4>1 DEF Exact
    <3>2. CASE ~static
      <4>1. v = got.v  BY <3>2
      <4>2. QED  BY <1>6, <1>9, <4>1 DEF Exact, Narrow
    <3>3. QED  BY <3>1, <3>2
  <2>3. value' = Put(v) /\ call' = call  BY <1>2, <1>9
  <2> HIDE DEF v
  <2>4. /\ Puts(v, k) /\ Len(value') <= Len(call.args)
        /\ call.function.all => Len(value') = Len(call.args)
        /\ ~call.function.all => Len(value') = k + 1
        /\ call.function.single => Len(value') = 1
    BY <1>1, <1>2, <2>1, <2>3, PutPuts DEF k
  <2>5. /\ value' \in Seq(Value) /\ Len(value') \in Nat /\ k + 1 \in 1..Len(value') /\ value'[k + 1] = v
        /\ \A i \in 1..Len(value') : i # k + 1 => i \in 1..Len(value) /\ value'[i] = value[i]
    BY <2>4 DEF Puts
  <2>6. FullTo(value', k + 1)
    <3>1. SUFFICES ASSUME NEW i \in 1..Len(value')  PROVE value'[i].held = "full" <=> i <= k + 1
      BY DEF FullTo
    <3>2. CASE i = k + 1  BY <2>1, <2>5, <3>2
    <3>3. CASE i # k + 1
      <4>1. i \in 1..Len(value) /\ value'[i] = value[i]  BY <2>5, <3>3
      <4>2. value[i].held = "full" <=> i <= k  BY <1>3, <4>1 DEF FullTo
      <4>3. QED  BY <1>3, <3>3, <4>1, <4>2
    <3>4. QED  BY <3>2, <3>3
  <2>7. At' = k + 1
    <3>1. k + 1 \in 0..Len(value')  BY <2>5
    <3>2. SUFFICES ASSUME NEW m, m = k + 1  PROVE At' = m  OBVIOUS
    <3>3. m \in 0..Len(value') /\ FullTo(value', m)  BY <2>6, <3>1, <3>2
    <3>4. QED  BY <2>5, <3>3, AtNow
  <2>8. CallOK'
    <3>1. FullTo(value', At') /\ At' \in 0..Len(value') /\ (~call.function.all => At' = Len(value'))
      BY <1>3, <2>4, <2>6, <2>7
    <3>2. QED  BY <1>2, <1>3, <2>4, <2>5, <3>1 DEF CallOK, Asks
  <2>9. ValuesOK'
    <3>1. \A i \in 1..Len(value) : value[i].held = "full" => i # k + 1  BY <1>3 DEF FullTo
    <3>2. k \in Nat /\ call'.phase # "answered"  BY <1>2, <1>3, <2>3
    <3>3. QED  BY <1>1, <2>1, <2>4, <3>1, <3>2, PutsKeep
  <2>10. OwnersOK' /\ WrappersOK'
    <3>1. \A c \in Cells : cell'[c] = cell[c] \/ (cell[c] = "none" /\ cell'[c] = "value")
      BY <1>1, <2>1 DEF ValuesTyped
    <3>2. SameWrappers  BY <1>2, <1>7, <3>1 DEF SameWrappers
    <3>3. QED  BY <1>1, <3>2, KeptOwners
  <2>11. cell' \in [Cells -> CellStates]  BY <1>1, <2>1 DEF ValuesTyped, CellStates
  <2>12. ValuesTyped'  BY <1>1, <1>2, <2>5, <2>11 DEF ValuesTyped
  <2>13. NumbersOK'
    <3>1. \A i \in DOMAIN value' \cap DOMAIN call.args : Exact(call.args[i], value'[i])
      <4>1. SUFFICES ASSUME NEW i \in 1..Len(value'), i \in DOMAIN call.args
                     PROVE  Exact(call.args[i], value'[i])
        BY <2>5
      <4>2. CASE i = k + 1  BY <2>2, <2>5, <4>2 DEF arg
      <4>3. CASE i # k + 1
        <5>1. i \in DOMAIN value /\ value'[i] = value[i]  BY <2>5, <4>3
        <5>2. Exact(call.args[i], value[i])  BY <1>1, <1>2, <4>1, <5>1 DEF NumbersOK
        <5>3. QED  BY <5>1, <5>2
      <4>4. QED  BY <4>2, <4>3
    <3>2. \A i \in DOMAIN value' \cap DOMAIN call'.args : Exact(call'.args[i], value'[i])  BY <2>3, <3>1
    <3>3. call'.given = Null /\ call'.phase = "convert"  BY <1>1, <1>2, <2>3 DEF NumbersOK
    <3>4. QED  BY <3>2, <3>3 DEF NumbersOK
  <2>14. QED  BY <2>8, <2>9, <2>10, <2>12, <2>13 DEF ValuesInv
<1>10. QED  BY <1>8, <1>9

-----------------------------------------------------------------------------
(* The invariant, and what follows                                         *)

LEMMA ValuesStart == ValuesInit => ValuesInv
<1> SUFFICES ASSUME ValuesInit  PROVE ValuesInv  OBVIOUS
<1>1. /\ call = Idle /\ value = <<>> /\ cell = [c \in Cells |-> "none"]
      /\ wrapper = [w \in Wrappers |-> NoBoxed]
  BY DEF ValuesInit
<1>2. call.phase = "idle" /\ call.given = Null /\ call \in CallRecord(call.phase)  BY <1>1, IdleTyped
<1>3. NoBoxed \in WrapperRecord /\ NoBoxed.cell = Null  BY DEF NoBoxed, WrapperRecord
<1>5. ValuesTyped  BY <1>1, <1>2, <1>3 DEF ValuesTyped, CellStates
<1>6. CallOK  BY <1>1, <1>2 DEF CallOK, Asks
<1>7. ValuesOK  BY <1>1, <1>2 DEF ValuesOK
<1>8. OwnersOK
  <2>1. \A c \in Cells : cell[c] = "none" /\ Owners(c) = {}
    BY <1>1, <1>3, ValuesAssumption DEF Owners
  <2>2. QED  BY <2>1 DEF OwnersOK
<1>9. WrappersOK  BY <1>1, <1>3 DEF WrappersOK
<1>10. NumbersOK  BY <1>2 DEF NumbersOK
<1>11. QED  BY <1>5, <1>6, <1>7, <1>8, <1>9, <1>10 DEF ValuesInv

LEMMA ListsGive == \A args \in Lists : args[1].obj \in PyObjects
<1>1. SUFFICES ASSUME NEW args \in Lists  PROVE args[1].obj \in PyObjects  OBVIOUS
<1>2. args \in Seq(Arguments) /\ args # <<>>  BY ValuesAssumption
<1>3. args[1] \in Arguments  BY <1>2
<1>4. QED  BY <1>3 DEF Arguments

LEMMA ValuesKeep ==
  ASSUME ValuesInv, ValuesNext
  PROVE  ValuesInv'
<1>1. CASE \E f \in Functions, args \in Lists : Begin(f, args)  BY <1>1, BeginKeeps
<1>2. CASE ConvertNext  BY <1>2, ConvertNextKeeps
<1>3. CASE Use  BY <1>3, UseKeeps
<1>4. CASE ToCHandler  BY <1>4, ToCHandlerKeeps
<1>5. CASE Finish  BY <1>5, FinishKeeps
<1>6. CASE AskNext  BY <1>6, AskNextKeeps
<1>7. CASE AnswerPlain  BY <1>7, AnswerPlainKeeps
<1>8. CASE \E kind \in Kinds : Ask(kind) \/ AskAll(<<"boxed", kind>>)
  BY <1>8, AskKeeps, AskAllKeeps
<1>9. CASE \E args \in Lists : Answer(args[1].obj)  BY <1>9, ListsGive, AnswerKeeps
<1>10. CASE \E n \in CNumbers : AnswerC(n)  BY <1>10, AnswerCKeeps
<1>11. CASE \E kind \in Number, objs \in Limits : Declare(kind, objs)  BY <1>11, DeclareKeeps
<1>12. CASE \E w \in Wrappers : AsPyObject(w)  BY <1>12, AsPyObjectKeeps
<1>13. CASE \E w \in Wrappers : Dealloc(w)  BY <1>13, DeallocKeeps
<1>14. CASE \E w \in Wrappers, i \in DOMAIN value : ToPython(w, i)  BY <1>14, ToPythonKeeps
<1>15. CASE \E w \in Wrappers, i \in DOMAIN value : ToHandler(w, i)
  <2>1. PICK w \in Wrappers, i \in DOMAIN value : ToHandler(w, i)  BY <1>15
  <2>2. /\ Used(i) /\ UNCHANGED <<call, value>> /\ Boxed(w, value[i].cell, FALSE, FALSE, "handler")
    BY <2>1 DEF ToHandler
  <2>3. QED  BY <2>2, PointsAtValue
<1>16. CASE \E w \in Wrappers, i \in DOMAIN value : ToMethod(w, i)
  <2>1. PICK w \in Wrappers, i \in DOMAIN value : ToMethod(w, i)  BY <1>16
  <2>2. /\ Used(i) /\ UNCHANGED <<call, value>> /\ Boxed(w, value[i].cell, FALSE, FALSE, "method")
    BY <2>1 DEF ToMethod
  <2>3. QED  BY <2>2, PointsAtValue
<1>17. CASE \E w \in Wrappers, kept \in BOOLEAN : MethodReturns(w, kept)  BY <1>17, MethodReturnsKeeps
<1>18. CASE \E w \in Wrappers, c \in Cells, own_ref \in BOOLEAN : Returned(w, c, own_ref)
  BY <1>18, ReturnedKeeps
<1>19. CASE \E w \in Wrappers, copy \in Wrappers : Copy(w, copy)  BY <1>19, CopyKeeps
<1>20. CASE \E w \in Wrappers, args \in Lists : Accumulate(w, args[1].obj)
  BY <1>20, ListsGive, AccumulateKeeps
<1>21. QED
  BY <1>1, <1>2, <1>3, <1>4, <1>5, <1>6, <1>7, <1>8, <1>9, <1>10, <1>11, <1>12, <1>13, <1>14, <1>15,
     <1>16, <1>17, <1>18, <1>19, <1>20
  DEF ValuesNext

LEMMA ValuesInductive == ValuesSpec => []ValuesInv
<1>1. ValuesInv /\ UNCHANGED valuesVars => ValuesInv'
  BY DEF ValuesInv, valuesVars, ValuesTyped, CallOK, At, ValuesOK, OwnersOK, Owners, WrappersOK, NumbersOK
<1>2. ValuesInv /\ [ValuesNext]_valuesVars => ValuesInv'  BY <1>1, ValuesKeep
<1>3. QED  BY <1>2, ValuesStart, PTL DEF ValuesSpec

(* Each boxed value has one owner, and only a handler's wrapper is left with
   freed memory: pyg_boxed_new and pyg_boxed_dealloc, pyg_value_from_pyobject,
   and what the functions that convert values unset when one fails.        *)
THEOREM OwnedOnce == ValuesSpec => []BoxedOwned
<1>1. ValuesInv => BoxedOwned
  <2> SUFFICES ASSUME ValuesInv  PROVE BoxedOwned  OBVIOUS
  <2>1. ValuesTyped /\ ValuesOK /\ OwnersOK /\ WrappersOK  BY DEF ValuesInv
  <2>2. \A c \in Cells :
          LET them == {w \in Wrappers : wrapper[w].cell = c /\ wrapper[w].owns}
          IN  /\ cell[c] = "wrapper" <=> them # {}
              /\ Cardinality(them) <= 1
              /\ cell[c] = "value" => \E i \in DOMAIN value : value[i].cell = c
    <3>1. SUFFICES ASSUME NEW c \in Cells
                   PROVE  /\ cell[c] = "wrapper" <=> Owners(c) # {}
                          /\ Cardinality(Owners(c)) <= 1
                          /\ cell[c] = "value" => \E i \in DOMAIN value : value[i].cell = c
      BY DEF Owners
    <3>2. /\ cell[c] = "wrapper" <=> Owners(c) # {}
          /\ \A v, w \in Owners(c) : v = w
      BY <2>1 DEF OwnersOK
    <3>3. cell[c] = "value" => \E i \in DOMAIN value : value[i].cell = c
      BY <2>1 DEF ValuesOK
    <3>4. Cardinality(Owners(c)) <= 1
      <4>1. CASE Owners(c) = {}
        <5>1. Cardinality({}) = 0  BY FS_EmptySet
        <5>2. QED  BY <4>1, <5>1
      <4>2. CASE Owners(c) # {}
        <5>1. PICK w : w \in Owners(c)  BY <4>2
        <5>2. Owners(c) = {w}  BY <3>2, <5>1
        <5>3. Cardinality({w}) = 1  BY FS_Singleton
        <5>4. QED  BY <5>2, <5>3
      <4>3. QED  BY <4>1, <4>2
    <3>5. QED  BY <3>2, <3>3, <3>4
  <2>3. \A w \in Wrappers :
          wrapper[w].cell # Null /\ cell[wrapper[w].cell] = "freed" => wrapper[w].by = "handler"
    <3>1. SUFFICES ASSUME NEW w \in Wrappers, wrapper[w].cell # Null, cell[wrapper[w].cell] = "freed"
                   PROVE  wrapper[w].by = "handler"
      OBVIOUS
    <3>2. wrapper[w].cell \in Cells /\ wrapper[w].by \in {"anyone", "handler", "method"}
      BY <2>1, <3>1, Typing
    <3>3. wrapper[w].by # "anyone"
      <4>1. wrapper[w].owns => cell[wrapper[w].cell] = "wrapper"  BY <2>1, <3>2 DEF OwnersOK, Owners
      <4>2. QED  BY <2>1, <3>1, <4>1 DEF WrappersOK
    <3>4. wrapper[w].by # "method"
      <4>1. wrapper[w].by = "method" => \E i \in 1..Len(value) : value[i].cell = wrapper[w].cell
        BY <2>1, <3>1 DEF WrappersOK
      <4>2. \A i \in 1..Len(value) : value[i].cell # Null => cell[value[i].cell] # "freed"
        BY <2>1 DEF ValuesOK
      <4>3. QED  BY <3>1, <4>1, <4>2
    <3>5. QED  BY <3>2, <3>3, <3>4
  <2>4. QED  BY <2>2, <2>3 DEF BoxedOwned
<1>2. QED  BY <1>1, ValuesInductive, PTL

(* No number is changed on its way, but what the narrow kinds cut off, and the
   fraction of a float that is taken for an int, a long or a gint64; what
   Python gets it can give back; and limits mean what values do: the
   conversions of pyg_value_from_pyobject, pyg_value_as_pyobject and
   create_property.                                                        *)
THEOREM NumbersFaithful == ValuesSpec => []Faithful
<1>1. ValuesInv => Faithful
  <2> SUFFICES ASSUME ValuesInv  PROVE Faithful  OBVIOUS
  <2>1. NumbersOK /\ CallOK  BY DEF ValuesInv
  <2>2. call.phase \in {"convert", "used"} => \A i \in DOMAIN value \cap DOMAIN call.args :
          LET v == value[i]
              n == call.args[i].obj.n
          IN  v.held = "full" /\ AsNumber(v.kind, call.args[i].obj) =>
                /\ Unsigned(n, IntSign) = Unsigned(v.n, IntSign)
                /\ Narrow(call.args[i]) \/ n = v.n
                /\ InKind(v.kind, v.n)
    BY <2>1 DEF NumbersOK, Exact
  <2>3. call.given # Null =>
          FromNumber(value[1].kind, call.given) = Stored(value[1].n) /\ InKind(value[1].kind, value[1].n)
    <3>1. SUFFICES ASSUME call.given # Null
                   PROVE  /\ FromNumber(value[1].kind, call.given) = Stored(value[1].n)
                          /\ InKind(value[1].kind, value[1].n)
      OBVIOUS
    <3>2. call.phase = "given" /\ value[1].kind \in Number /\ call.given = NumberAsPy(value[1])
      BY <2>1, <3>1 DEF NumbersOK
    <3>3. InKind(value[1].kind, value[1].n)  BY <2>1, <3>2 DEF NumbersOK
    <3>4. QED  BY <3>2, <3>3, GivesBack
  <2>4. call.phase = "declared" => \A i \in DOMAIN value :
          LET set == FromNumber(value[i].kind, call.args[i].obj)
          IN  set.outcome = "ok" => value[i].n = set.n
    BY <2>1 DEF NumbersOK
  <2>5. QED  BY <2>2, <2>3, <2>4 DEF Faithful
<1>2. QED  BY <1>1, ValuesInductive, PTL
=============================================================================
