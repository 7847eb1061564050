-------------------------- MODULE PyGObjectProofs --------------------------
(***************************************************************************)
(* Proofs about PyGObject for any finite sets of threads and wrappers, any *)
(* kind of type and any bound.  All but the lemmas assume Orderly: without *)
(* it the code has neither OneWrapper nor InUseLive, as runs show.         *)
(***************************************************************************)
EXTENDS PyGObjectInv, FiniteSetTheorems, TLAPS

(* Cardinality of a set of threads or wrappers, and how it moves.          *)
LEMMA Counting ==
  ASSUME NEW U, IsFiniteSet(U), NEW S \in SUBSET U
  PROVE  /\ IsFiniteSet(S)
         /\ Cardinality(S) \in Nat
         /\ S # {} => Cardinality(S) > 0
         /\ \A x \in U : /\ Cardinality(S \cup {x}) =
                              IF x \in S THEN Cardinality(S) ELSE Cardinality(S) + 1
                         /\ Cardinality(S \ {x}) =
                              IF x \in S THEN Cardinality(S) - 1 ELSE Cardinality(S)
<1>1. IsFiniteSet(S) /\ Cardinality(S) \in Nat
  BY FS_Subset, FS_CardinalityType
<1>2. S # {} => Cardinality(S) > 0
  BY <1>1, FS_EmptySet
<1>3. QED
  BY <1>1, <1>2, FS_AddElement, FS_RemoveElement

(* Sets of threads and sets of wrappers, with the facts of Counting.       *)
LEMMA Finite ==
  /\ \A S \in SUBSET Threads : IsFiniteSet(S) /\ Cardinality(S) \in Nat
  /\ \A S \in SUBSET Wrappers : IsFiniteSet(S) /\ Cardinality(S) \in Nat
  /\ \A S \in SUBSET Threads, t \in Threads :
       /\ t \in S => Cardinality(S \ {t}) = Cardinality(S) - 1 /\ Cardinality(S) > 0
       /\ t \notin S => Cardinality(S \cup {t}) = Cardinality(S) + 1
  /\ \A S \in SUBSET Wrappers, w \in Wrappers :
       /\ w \in S => Cardinality(S \ {w}) = Cardinality(S) - 1 /\ Cardinality(S) > 0
       /\ w \notin S => Cardinality(S \cup {w}) = Cardinality(S) + 1
  /\ Cardinality({}) = 0
BY ConstantsAssumption, Counting, FS_EmptySet

(* The initial state satisfies the invariant.                              *)
LEMMA InitInv == Init => IInv
<1> SUFFICES ASSUME Init PROVE IInv
  OBVIOUS
<1>1. TypeOK
  <2>1. Quiet \in Notes
    BY DEF Quiet, Notes
  <2>3. /\ stage \in [Wrappers -> {"free", "live", "dying", "unreffed"}]
        /\ rc \in [Wrappers -> Int] /\ holds \in [Wrappers -> SUBSET Threads]
        /\ pc \in [Threads -> PCs] /\ note \in [Threads -> Notes]
        /\ cur \in [Threads -> Wrappers \cup {NoWrapper}]
        /\ ending \in [Threads -> Wrappers \cup {NoWrapper}]
    BY <2>1 DEF Init, PCs
  <2>4. QED
    BY <2>3 DEF Init, TypeOK
<1>2. GilOK /\ CurOK /\ MakingOK /\ ClearerOK /\ EndingOK /\ NoteOK /\ WrapperOK /\ QdataOK /\ RcOK
  BY ConstantsAssumption DEF Init, GilOK, CurOK, MakingOK, ClearerOK, EndingOK, NoteOK, WrapperOK,
     QdataOK, RcOK, Quiet, InGilSection
<1>3. Owning = {} /\ Switching = {}
  BY DEF Init, Owning, Switching
<1>4. RefsBacked
  BY <1>3, Finite DEF Init, RefsBacked, Owned
<1>5. QED
  BY <1>1, <1>2, <1>4 DEF IInv

(* The three kinds of owners are counted by natural numbers.               *)
LEMMA Sizes ==
  ASSUME IInv
  PROVE  /\ Cardinality(native) \in Nat /\ native \in SUBSET Threads
         /\ Cardinality(Owning) \in Nat /\ Owning \in SUBSET Wrappers
         /\ Cardinality(Switching) \in Nat /\ Switching \in SUBSET Threads
         /\ gref >= Cardinality(native) + Cardinality(Owning) + Cardinality(Switching)
         /\ native # {} => Cardinality(native) > 0
         /\ Owning # {} => Cardinality(Owning) > 0
         /\ Switching # {} => Cardinality(Switching) > 0
<1>1. native \in SUBSET Threads /\ Owning \in SUBSET Wrappers /\ Switching \in SUBSET Threads
  BY DEF IInv, TypeOK, Owning, Switching
<1>2. QED
  BY <1>1, Finite DEF IInv, RefsBacked, Owned

(* The terms of the balance of a wrapper's ob_refcnt.                      *)
LEMMA RcTerms ==
  ASSUME IInv, NEW w \in Wrappers
  PROVE  /\ rc[w] \in Int
         /\ holds[w] \in SUBSET Threads /\ Cardinality(holds[w]) \in Nat
         /\ \A k \in {"inc", "dec"} : /\ Owing(k, w) \in SUBSET Threads
                                      /\ Cardinality(Owing(k, w)) \in Nat
         /\ Self(w) \in {0, 1} /\ Upheld(w) \in {0, 1}
<1>1. rc[w] \in Int /\ holds[w] \in SUBSET Threads
  BY DEF IInv, TypeOK
<1>2. \A k \in {"inc", "dec"} : Owing(k, w) \in SUBSET Threads
  BY DEF Owing
<1>3. QED
  BY <1>1, <1>2, Finite DEF Self, Upheld

(* Whoever owes a live wrapper a Py_INCREF has it in a Python frame and owns
   the GObject, so the wrapper is upheld: ob_refcnt is at least the number
   of the frames that owe nothing, and 1 more if anybody owes a Py_INCREF. *)
LEMMA Balance ==
  ASSUME IInv, NEW w \in Wrappers, stage[w] = "live"
  PROVE  /\ Owing("inc", w) \in SUBSET holds[w]
         /\ rc[w] = Cardinality(holds[w]) + Self(w) + Upheld(w)
                    + Cardinality(Owing("dec", w)) - Cardinality(Owing("inc", w))
         /\ Cardinality(Owing("inc", w)) =< Cardinality(holds[w])
         /\ \A t \in holds[w] \ Owing("inc", w) :
              Cardinality(Owing("inc", w)) < Cardinality(holds[w])
         /\ Owing("inc", w) # {} => Upheld(w) = 1
<1>1. Owing("inc", w) \in SUBSET holds[w]
  BY DEF IInv, NoteOK, Owing
<1>2. rc[w] = Cardinality(holds[w]) + Self(w) + Upheld(w)
              + Cardinality(Owing("dec", w)) - Cardinality(Owing("inc", w))
  BY DEF IInv, RcOK
<1>3. IsFiniteSet(holds[w])
  BY RcTerms, Finite
<1>4. Cardinality(Owing("inc", w)) =< Cardinality(holds[w])
  BY <1>1, <1>3, FS_Subset
<1>5. ASSUME NEW t \in holds[w] \ Owing("inc", w)
      PROVE  Cardinality(Owing("inc", w)) < Cardinality(holds[w])
  <2>1. Cardinality(Owing("inc", w)) # Cardinality(holds[w])
    BY <1>1, <1>3, FS_Subset
  <2>2. QED
    BY <2>1, <1>4, RcTerms
<1>6. ASSUME Owing("inc", w) # {}
      PROVE  Upheld(w) = 1
  <2>1. PICK t \in Threads : note[t] = [kind |-> "inc", on |-> w]
    BY <1>6 DEF Owing
  <2>2. t \in native /\ toggle = w
    BY <2>1 DEF IInv, NoteOK, Quiet
  <2>3. w \in Owning
    BY DEF Owning
  <2>4. gref > 1
    BY <2>2, <2>3, Sizes DEF IInv, TypeOK
  <2>5. QED
    BY <2>2, <2>4 DEF Upheld
<1>7. QED
  BY <1>1, <1>2, <1>4, <1>5, <1>6

(* While a wrapper is live, no thread is in pygobject_dealloc before the
   wrapper it clears is unregistered, and none is making another.          *)
LEMMA LiveWrapper ==
  ASSUME IInv, NEW w \in Wrappers, stage[w] = "live"
  PROVE  /\ qdata = w /\ gref > 0 /\ w # NoWrapper
         /\ \A u \in Threads : pc[u] \in {"run", "switch", "nested", "recheck", "unref"}
         /\ \A x \in Wrappers : stage[x] = "live" => x = w
         /\ \A x \in Wrappers : ~(stage[x] = "dying" /\ x \in dict)
<1> USE DEF IInv
<1>1. qdata = w /\ gref > 0 /\ w # NoWrapper /\ \A x \in Wrappers : stage[x] = "live" => x = w
  BY ConstantsAssumption DEF WrapperOK
<1>2. ASSUME NEW u \in Threads
      PROVE  pc[u] \notin {"callbacks", "clear", "making", "remove"}
  <2>1. pc[u] \notin {"callbacks", "clear", "making"}
    BY <1>1 DEF CurOK, MakingOK
  <2>2. pc[u] # "remove"
    BY <1>1, <2>1 DEF CurOK, WrapperOK
  <2>3. QED
    BY <2>1, <2>2
<1>3. \A u \in Threads : pc[u] \in {"run", "switch", "nested", "recheck", "unref"}
  BY <1>2 DEF TypeOK, PCs
<1>4. \A x \in Wrappers : ~(stage[x] = "dying" /\ x \in dict)
  BY <1>2 DEF WrapperOK
<1>5. QED
  BY <1>1, <1>3, <1>4

(* Without a GObject there is neither an owner nor a notification.         *)
LEMMA EmptyWorld ==
  ASSUME IInv, NoObject
  PROVE  /\ native = {} /\ qdata = NoWrapper /\ toggle = NoWrapper
         /\ dict = {} /\ flag = {} /\ selfref = {} /\ gil = NoThread
         /\ Owning = {} /\ Switching = {}
         /\ \A t \in Threads : pc[t] = "run" /\ note[t] = Quiet /\ ending[t] = NoWrapper
<1> USE DEF IInv, NoObject
<1>1. native = {} /\ Owning = {} /\ Switching = {}
  BY Sizes
<1>2. qdata = NoWrapper /\ toggle = NoWrapper
  BY DEF TypeOK, QdataOK
<1>3. dict = {} /\ flag = {} /\ selfref = {}
  BY DEF TypeOK, WrapperOK
<1>4. \A t \in Threads : pc[t] = "run" /\ ending[t] = NoWrapper
  BY <1>1 DEF TypeOK, CurOK, MakingOK, EndingOK, PCs
<1>5. \A t \in Threads : note[t] = Quiet
  BY <1>2 DEF NoteOK
<1>6. gil = NoThread
  BY <1>4 DEF TypeOK, GilOK, InGilSection
<1>7. QED
  BY <1>1, <1>2, <1>3, <1>4, <1>5, <1>6

(* A GObject that native code has just created has one owner.              *)
LEMMA NativeNewInv ==
  ASSUME IInv, NEW t \in Threads, NativeNew(t)
  PROVE  IInv'
<1> USE DEF IInv
<1>1. TypeOK'
  BY ConstantsAssumption DEF TypeOK, NativeNew, wrapVars, thrVars
<1>2. GilOK' /\ CurOK' /\ MakingOK' /\ ClearerOK' /\ EndingOK'
  BY EmptyWorld DEF NativeNew, wrapVars, thrVars, GilOK, CurOK, MakingOK, ClearerOK, EndingOK
<1>3. \A u \in Threads : note[u] = Quiet
  BY DEF TypeOK, NativeNew, NoObject, NoteOK
<1>4. NoteOK'
  BY <1>3 DEF NativeNew, thrVars, NoteOK, Quiet
<1>5. WrapperOK' /\ QdataOK'
  BY DEF TypeOK, NativeNew, NoObject, wrapVars, WrapperOK, QdataOK
<1>6. RcOK'
  BY DEF NativeNew, NoObject, wrapVars, RcOK
<1>7. RefsBacked'
  <2>1. native = {} /\ Owning' = {} /\ Switching' = {}
    BY Sizes DEF NativeNew, NoObject, Owning, Switching, wrapVars, thrVars
  <2>3. QED
    BY <2>1, Finite DEF RefsBacked, Owned, NativeNew
<1>8. QED
  BY <1>1, <1>2, <1>4, <1>5, <1>6, <1>7

(* Taking the floating reference over changes no count.                    *)
LEMMA NativeSinkInv ==
  ASSUME IInv, NEW t \in Threads, NativeSink(t)
  PROVE  IInv'
<1> USE DEF IInv
<1>1. TypeOK'
  BY DEF TypeOK, NativeSink, wrapVars, thrVars
<1>2. GilOK' /\ CurOK' /\ MakingOK' /\ ClearerOK' /\ EndingOK'
  BY DEF NativeSink, wrapVars, thrVars, GilOK, CurOK, MakingOK, ClearerOK, EndingOK
<1>3. NoteOK'
  BY DEF NativeSink, wrapVars, thrVars, NoteOK
<1>4. WrapperOK' /\ QdataOK'
  BY DEF NativeSink, wrapVars, thrVars, WrapperOK, QdataOK
<1>5. RcOK'
  BY DEF NativeSink, wrapVars, thrVars, RcOK, Owing, Self, Upheld
<1>6. RefsBacked'
  BY DEF NativeSink, wrapVars, thrVars, RefsBacked, Owned, Owning, Switching
<1>7. QED
  BY <1>1, <1>2, <1>3, <1>4, <1>5, <1>6

(* Handing out the registered wrapper adds one Python reference to it.     *)
LEMMA WrapExistingInv ==
  ASSUME IInv, Orderly, NEW t \in Threads, WrapExisting(t)
  PROVE  IInv'
<1> USE DEF IInv
<1>0. stage[qdata] = "live" /\ qdata \in Wrappers
  BY DEF Orderly, TypeOK, WrapExisting
<1>1. TypeOK'
  BY DEF TypeOK, WrapExisting, refVars, thrVars
<1>2. GilOK' /\ CurOK' /\ MakingOK' /\ ClearerOK' /\ EndingOK'
  BY <1>0, LiveWrapper DEF TypeOK, WrapExisting, refVars, thrVars, GilOK, CurOK, MakingOK, ClearerOK, EndingOK
<1>3. NoteOK'
  BY DEF WrapExisting, refVars, thrVars, NoteOK
<1>4. WrapperOK' /\ QdataOK'
  BY <1>0 DEF WrapExisting, refVars, WrapperOK, QdataOK
<1>5. RcOK'
  <2>1. PICK w \in Wrappers : w = qdata
    BY <1>0
  <2>2. Cardinality(holds'[w]) = Cardinality(holds[w]) + 1
    BY <2>1, Finite DEF WrapExisting, TypeOK
  <2>3. ASSUME NEW x \in Wrappers, x # w, stage'[x] = "live"
        PROVE  /\ stage[x] = "live" /\ rc'[x] = rc[x] /\ holds'[x] = holds[x] /\ Self(x)' = Self(x)
               /\ Upheld(x)' = Upheld(x)
               /\ Owing("dec", x)' = Owing("dec", x) /\ Owing("inc", x)' = Owing("inc", x)
    BY <2>1, <2>3 DEF WrapExisting, Owing, Self, Upheld, refVars, thrVars
  <2>4. stage'[w] = "live" =>
          rc'[w] = Cardinality(holds'[w]) + Self(w)' + Upheld(w)'
                   + Cardinality(Owing("dec", w)') - Cardinality(Owing("inc", w)')
    BY <1>0, <2>2, Balance, RcTerms DEF WrapExisting, TypeOK, Owing, Self, Upheld, refVars, thrVars
  <2>5. QED
    BY <2>3, <2>4 DEF RcOK
<1>6. RefsBacked'
  BY DEF WrapExisting, refVars, thrVars, RefsBacked, Owned, Owning, Switching
<1>7. QED
  BY <1>1, <1>2, <1>3, <1>4, <1>5, <1>6

(* A cycle through inst_dict is counted in ob_refcnt.                      *)
LEMMA StoreSelfInv ==
  ASSUME IInv, NEW t \in Threads, NEW w \in Wrappers, StoreSelf(t, w)
  PROVE  IInv'
<1> USE DEF IInv
<1>0. stage[w] = "live"
  BY DEF StoreSelf, WrapperOK
<1>1. TypeOK'
  BY DEF TypeOK, StoreSelf, refVars, thrVars
<1>2. GilOK' /\ CurOK' /\ MakingOK' /\ ClearerOK' /\ EndingOK'
  BY <1>0, LiveWrapper DEF TypeOK, StoreSelf, refVars, thrVars, GilOK, CurOK, MakingOK, ClearerOK, EndingOK
<1>3. NoteOK'
  BY DEF StoreSelf, refVars, thrVars, NoteOK
<1>4. WrapperOK' /\ QdataOK'
  BY DEF StoreSelf, refVars, thrVars, WrapperOK, QdataOK
<1>5. RcOK'
  <2>3. ASSUME NEW x \in Wrappers, x # w, stage'[x] = "live"
        PROVE  /\ stage[x] = "live" /\ rc'[x] = rc[x] /\ holds'[x] = holds[x] /\ Self(x)' = Self(x)
               /\ Upheld(x)' = Upheld(x)
               /\ Owing("dec", x)' = Owing("dec", x) /\ Owing("inc", x)' = Owing("inc", x)
    BY <2>3 DEF StoreSelf, Owing, Self, Upheld, refVars, thrVars
  <2>4. stage'[w] = "live" =>
          rc'[w] = Cardinality(holds'[w]) + Self(w)' + Upheld(w)'
                   + Cardinality(Owing("dec", w)') - Cardinality(Owing("inc", w)')
    BY Balance, RcTerms DEF StoreSelf, TypeOK, WrapperOK, Owing, Self, Upheld, refVars, thrVars
  <2>5. QED
    BY <2>3, <2>4 DEF RcOK
<1>6. RefsBacked'
  BY DEF StoreSelf, refVars, thrVars, RefsBacked, Owned, Owning, Switching
<1>7. QED
  BY <1>1, <1>2, <1>3, <1>4, <1>5, <1>6

(* Python code passes a reference on.                                      *)
LEMMA ShareInv ==
  ASSUME IInv, NEW t \in Threads, NEW u \in Threads, NEW w \in Wrappers, Share(t, u, w)
  PROVE  IInv'
<1> USE DEF IInv
<1>0. stage[w] = "live"
  BY DEF Share, WrapperOK
<1>1. TypeOK'
  BY DEF TypeOK, Share, refVars, thrVars
<1>2. GilOK' /\ CurOK' /\ MakingOK' /\ ClearerOK' /\ EndingOK'
  BY <1>0, LiveWrapper DEF TypeOK, Share, refVars, thrVars, GilOK, CurOK, MakingOK, ClearerOK, EndingOK
<1>3. NoteOK'
  BY DEF Share, refVars, thrVars, NoteOK
<1>4. WrapperOK' /\ QdataOK'
  BY DEF Share, refVars, thrVars, WrapperOK, QdataOK
<1>5. RcOK'
  <2>1. stage[w] = "live"
    BY DEF Share, WrapperOK
  <2>2. Cardinality(holds'[w]) = Cardinality(holds[w]) + 1
    BY Finite DEF Share, TypeOK
  <2>3. ASSUME NEW x \in Wrappers, x # w, stage'[x] = "live"
        PROVE  /\ stage[x] = "live" /\ rc'[x] = rc[x] /\ holds'[x] = holds[x] /\ Self(x)' = Self(x)
               /\ Upheld(x)' = Upheld(x)
               /\ Owing("dec", x)' = Owing("dec", x) /\ Owing("inc", x)' = Owing("inc", x)
    BY <2>3 DEF Share, Owing, Self, Upheld, refVars, thrVars
  <2>4. stage'[w] = "live" =>
          rc'[w] = Cardinality(holds'[w]) + Self(w)' + Upheld(w)'
                   + Cardinality(Owing("dec", w)') - Cardinality(Owing("inc", w)')
    <3>1. rc'[w] = rc[w] + 1
      BY DEF Share, TypeOK
    <3>2. Self(w)' = Self(w) /\ Upheld(w)' = Upheld(w)
      BY DEF Share, Self, Upheld, refVars
    <3>3. Owing("dec", w)' = Owing("dec", w) /\ Owing("inc", w)' = Owing("inc", w)
      BY DEF Share, Owing, thrVars
    <3>4. rc[w] = Cardinality(holds[w]) + Self(w) + Upheld(w)
                  + Cardinality(Owing("dec", w)) - Cardinality(Owing("inc", w))
      BY <2>1, Balance
    <3> QED
      BY <2>2, <3>1, <3>2, <3>3, <3>4, RcTerms
  <2>5. QED
    BY <2>3, <2>4 DEF RcOK
<1>6. RefsBacked'
  BY DEF Share, refVars, thrVars, RefsBacked, Owned, Owning, Switching
<1>7. QED
  BY <1>1, <1>2, <1>3, <1>4, <1>5, <1>6

(* A native reference changes hands, and the count stays.                  *)
LEMMA NativePassInv ==
  ASSUME IInv, NEW t \in Threads, NEW u \in Threads, NativePass(t, u)
  PROVE  IInv'
<1> USE DEF IInv
<1>1. TypeOK'
  BY DEF TypeOK, NativePass, wrapVars, thrVars
<1>2. GilOK' /\ CurOK' /\ MakingOK' /\ ClearerOK' /\ EndingOK'
  BY DEF NativePass, Running, wrapVars, thrVars, GilOK, CurOK, MakingOK, ClearerOK, EndingOK
<1>3. NoteOK'
  BY DEF NativePass, wrapVars, thrVars, Running, NoteOK, Quiet
<1>4. WrapperOK' /\ QdataOK'
  BY DEF NativePass, wrapVars, thrVars, WrapperOK, QdataOK
<1>5. RcOK'
  BY DEF NativePass, wrapVars, thrVars, RcOK, Owing, Self, Upheld
<1>6. RefsBacked'
  <2>1. Owning' = Owning /\ Switching' = Switching /\ gref' = gref
    BY DEF NativePass, wrapVars, thrVars, Owning, Switching
  <2>2. Cardinality(native') = Cardinality(native)
    <3>1. native \ {t} \in SUBSET Threads /\ u \notin native \ {t}
      BY Sizes DEF NativePass
    <3>2. /\ Cardinality(native \ {t}) = Cardinality(native) - 1
          /\ Cardinality((native \ {t}) \cup {u}) = Cardinality(native \ {t}) + 1
      BY <3>1, Finite DEF NativePass
    <3>3. QED
      BY <3>2, Sizes DEF NativePass
  <2>3. QED
    BY <2>1, <2>2 DEF RefsBacked, Owned
<1>7. QED
  BY <1>1, <1>2, <1>3, <1>4, <1>5, <1>6

(* Construction registers the only wrapper, switched if it has a dictionary. *)
LEMMA ConstructInv ==
  ASSUME IInv, NEW t \in Threads, NEW w \in Wrappers, NEW b \in BOOLEAN, Construct(t, w, b)
  PROVE  IInv'
<1> USE DEF IInv
<1>1. TypeOK'
  <2>1. SinkRefs(InitiallyUnowned) \in Nat
    BY DEF SinkRefs
  <2>4. rc' \in [Wrappers -> Int] /\ gref' \in Nat /\ pc' \in [Threads -> PCs]
        /\ cur' \in [Threads -> Wrappers \cup {NoWrapper}]
    <3>1. CASE b
      BY <2>1 DEF TypeOK, Construct, PCs
    <3>2. CASE ~b
      BY <2>1, <3>2 DEF TypeOK, Construct
    <3>3. QED
      BY <3>1, <3>2
  <2>5. dict' \in SUBSET Wrappers /\ flag' \in SUBSET Wrappers /\ gil' \in Threads \cup {NoThread}
        /\ toggle' \in Wrappers \cup {NoWrapper}
    BY DEF TypeOK, Construct
  <2>6. QED
    BY <2>4, <2>5 DEF TypeOK, Construct
<1>2. GilOK' /\ CurOK' /\ MakingOK' /\ ClearerOK' /\ EndingOK'
  <2>1. CASE b
    BY EmptyWorld DEF TypeOK, Construct, GilOK, CurOK, MakingOK, ClearerOK, EndingOK, InGilSection
  <2>2. CASE ~b
    BY <2>2, EmptyWorld DEF Construct, GilOK, CurOK, MakingOK, ClearerOK, EndingOK
  <2>3. QED
    BY <2>1, <2>2
<1>3. NoteOK'
  BY EmptyWorld DEF Construct, NoteOK
<1>4. WrapperOK' /\ QdataOK'
  <2>1. SinkRefs(InitiallyUnowned) \in Nat
    BY DEF SinkRefs
  <2>2. CASE b
    <3>1. WrapperOK'
      BY <2>1, EmptyWorld, ConstantsAssumption DEF TypeOK, Construct, WrapperOK
    <3>2. QdataOK'
      BY <2>2 DEF TypeOK, Construct, QdataOK
    <3>3. QED
      BY <3>1, <3>2
  <2>3. CASE ~b
    <3>1. WrapperOK'
      BY <2>1, EmptyWorld, ConstantsAssumption DEF TypeOK, Construct, WrapperOK
    <3>2. QdataOK'
      BY EmptyWorld DEF TypeOK, Construct, QdataOK
    <3>3. QED
      BY <3>1, <3>2
  <2>4. QED
    BY <2>2, <2>3
<1>5. RcOK'
  <2>0. Cardinality({t}) = 1
    BY FS_Singleton
  <2>1. Owing("inc", w)' = {} /\ Owing("dec", w)' = {}
    BY EmptyWorld DEF Construct, Owing, Quiet
  <2>2. holds'[w] = {t} /\ Self(w)' = 0
    BY EmptyWorld DEF TypeOK, Construct, Self
  <2>3. rc'[w] = 1 + Upheld(w)'
    <3>1. CASE b
      BY DEF TypeOK, Construct, Upheld, SinkRefs
    <3>2. CASE ~b
      BY <3>2, EmptyWorld, ConstantsAssumption DEF TypeOK, Construct, Upheld
    <3>3. QED
      BY <3>1, <3>2
  <2>4. \A x \in Wrappers : stage'[x] = "live" => x = w
    BY DEF Construct, NoObject
  <2>5. QED
    <3>1. Upheld(w)' \in {0, 1}
      BY DEF Upheld
    <3>2. rc'[w] = Cardinality(holds'[w]) + Self(w)' + Upheld(w)'
                   + Cardinality(Owing("dec", w)') - Cardinality(Owing("inc", w)')
      BY <3>1, <2>0, <2>1, <2>2, <2>3, FS_EmptySet
    <3>3. QED
      BY <3>2, <2>4 DEF RcOK
<1>6. RefsBacked'
  <2>1. SinkRefs(InitiallyUnowned) \in Nat
    BY DEF SinkRefs
  <2>2. native' = {} /\ Owning' = {w}
    BY EmptyWorld DEF TypeOK, Construct, Owning
  <2>3. Switching' = IF b THEN {t} ELSE {}
    <3>1. CASE b
      BY EmptyWorld DEF TypeOK, Construct, Switching
    <3>2. CASE ~b
      BY <3>2, EmptyWorld DEF Construct, Switching
    <3>3. QED
      BY <3>1, <3>2
  <2>4. Cardinality({w}) = 1 /\ Cardinality({t}) = 1 /\ Cardinality({}) = 0
    BY FS_Singleton, FS_EmptySet
  <2>5. gref' = IF b THEN 2 + SinkRefs(InitiallyUnowned) ELSE 1 + SinkRefs(InitiallyUnowned)
    BY DEF Construct
  <2>6. QED
    BY <2>1, <2>2, <2>3, <2>4, <2>5 DEF RefsBacked, Owned
<1>7. QED
  BY <1>1, <1>2, <1>3, <1>4, <1>5, <1>6

(* A second wrapper is made only when no wrapper is live.                  *)
LEMMA WrapRegisterInv ==
  ASSUME IInv, NEW t \in Threads, NEW w \in Wrappers, WrapRegister(t, w)
  PROVE  IInv'
<1> USE DEF IInv
<1>0. WrapRefs \in Nat /\ WrapRefs > 0
  BY DEF WrapRefs, SinkRefs
<1>1. qdata = NoWrapper /\ t \in native /\ note[t] = Quiet
  BY DEF WrapRegister, MakingOK
<1>a. gref > 1 \/ Owning = {}
  BY <1>1, Sizes DEF TypeOK
<1>b. /\ toggle = NoWrapper /\ gil = NoThread
      /\ \A x \in Wrappers : stage[x] # "live" /\ ~(stage[x] = "dying" /\ x \in dict)
      /\ \A u \in Threads : note[u] = Quiet
  BY <1>1, <1>a, ConstantsAssumption DEF WrapRegister, QdataOK, WrapperOK, NoteOK, Owning, TypeOK
<1>2. TypeOK'
  <2>1. gref' \in Nat
    BY <1>0 DEF TypeOK, WrapRegister
  <2>3. /\ stage' \in [Wrappers -> {"free", "live", "dying", "unreffed"}]
        /\ rc' \in [Wrappers -> Int] /\ pc' \in [Threads -> PCs]
    BY DEF TypeOK, WrapRegister, PCs
  <2>4. QED
    BY <2>1, <2>3 DEF TypeOK, WrapRegister
<1>3. GilOK'
  BY ConstantsAssumption DEF TypeOK, WrapRegister, GilOK, InGilSection
<1>4. MakingOK'
  BY DEF TypeOK, WrapRegister, MakingOK
<1>5. CurOK'
  BY <1>1, ConstantsAssumption DEF TypeOK, WrapRegister, CurOK
<1>6. ClearerOK' /\ EndingOK'
  BY DEF TypeOK, WrapRegister, ClearerOK, EndingOK
<1>7. NoteOK'
  BY <1>b DEF WrapRegister, NoteOK, Quiet
<1>8. WrapperOK' /\ QdataOK'
  BY <1>0, <1>b DEF TypeOK, WrapRegister, WrapperOK, QdataOK
<1>9. RcOK'
  <2>0. Cardinality({t}) = 1
    BY FS_Singleton
  <2>1. Owing("inc", w)' = {} /\ Owing("dec", w)' = {}
    BY <1>b DEF WrapRegister, Owing, Quiet
  <2>2. rc'[w] = 1 /\ holds'[w] = {t} /\ Self(w)' = 0 /\ Upheld(w)' = 0
    BY <1>b, ConstantsAssumption DEF TypeOK, WrapRegister, WrapperOK, Self, Upheld
  <2>3. \A x \in Wrappers : stage'[x] = "live" => x = w
    BY <1>b DEF WrapRegister
  <2>4. QED
    <3>1. rc'[w] = Cardinality(holds'[w]) + Self(w)' + Upheld(w)'
                   + Cardinality(Owing("dec", w)') - Cardinality(Owing("inc", w)')
      BY <2>0, <2>1, <2>2, FS_EmptySet
    <3>2. QED
      BY <3>1, <2>3 DEF RcOK
<1>10. RefsBacked'
  <2>1. Owning' = Owning \cup {w} /\ w \notin Owning /\ Switching' = Switching /\ native' = native
    BY DEF TypeOK, WrapRegister, Owning, Switching
  <2>2. Cardinality(Owning') = Cardinality(Owning) + 1
    BY <2>1, Sizes, Finite
  <2>3. gref' >= gref + 1
    BY <1>0 DEF TypeOK, WrapRegister
  <2>4. QED
    BY <1>2, <2>1, <2>2, <2>3, Sizes DEF TypeOK, RefsBacked, Owned
<1>11. QED
  BY <1>2, <1>3, <1>4, <1>5, <1>6, <1>7, <1>8, <1>9, <1>10

(* A thread that begins to make a wrapper owns the GObject, and is the only
   one to make it a wrapper.                                               *)
LEMMA WrapStartInv ==
  ASSUME IInv, Orderly, NEW t \in Threads, WrapStart(t)
  PROVE  IInv'
<1> USE DEF IInv
<1>0. pc[t] = "run" /\ t \in native /\ note[t] = Quiet
  BY ConstantsAssumption
  DEF WrapStart, Reachable, InPython, Running, CurOK, WrapperOK
<1>1. TypeOK'
  BY DEF TypeOK, WrapStart, refVars, wrapVars, PCs
<1>2. GilOK' /\ CurOK' /\ EndingOK'
  BY <1>0 DEF TypeOK, WrapStart, refVars, wrapVars, GilOK, CurOK, EndingOK, InGilSection
<1>a. ClearerOK'
  BY <1>0 DEF TypeOK, WrapStart, ClearerOK
<1>3. MakingOK'
  BY <1>0 DEF TypeOK, WrapStart, Orderly, refVars, MakingOK
<1>4. NoteOK'
  BY <1>0 DEF TypeOK, WrapStart, refVars, wrapVars, NoteOK
<1>5. WrapperOK' /\ QdataOK'
  BY <1>0 DEF TypeOK, WrapStart, refVars, wrapVars, WrapperOK, QdataOK
<1>6. RcOK'
  BY DEF WrapStart, refVars, wrapVars, RcOK, Owing, Self, Upheld
<1>7. RefsBacked'
  <2>1. Owning' = Owning /\ Switching' = Switching
    BY <1>0 DEF TypeOK, WrapStart, wrapVars, Owning, Switching
  <2>2. QED
    BY <2>1 DEF RefsBacked, Owned, WrapStart, refVars
<1>8. QED
  BY <1>1, <1>2, <1>a, <1>3, <1>4, <1>5, <1>6, <1>7

(* The callbacks of weak references leave the wrapper to its clear.        *)
LEMMA CallbacksEndInv ==
  ASSUME IInv, NEW t \in Threads, CallbacksEnd(t)
  PROVE  IInv'
<1> USE DEF IInv
<1>1. TypeOK'
  BY DEF TypeOK, CallbacksEnd, refVars, wrapVars, PCs
<1>2. GilOK'
  BY ConstantsAssumption DEF TypeOK, CallbacksEnd, GilOK, InGilSection
<1>3. CurOK' /\ MakingOK' /\ ClearerOK' /\ EndingOK'
  BY DEF TypeOK, CallbacksEnd, refVars, wrapVars, CurOK, MakingOK, ClearerOK, EndingOK
<1>4. NoteOK'
  BY DEF TypeOK, CallbacksEnd, refVars, wrapVars, NoteOK
<1>5. WrapperOK' /\ QdataOK'
  BY DEF TypeOK, CallbacksEnd, refVars, wrapVars, WrapperOK, QdataOK
<1>6. RcOK'
  BY DEF CallbacksEnd, refVars, wrapVars, RcOK, Owing, Self, Upheld
<1>7. RefsBacked'
  <2>1. Owning' = Owning /\ Switching' = Switching
    BY DEF TypeOK, CallbacksEnd, wrapVars, Owning, Switching
  <2>2. QED
    BY <2>1 DEF RefsBacked, Owned, CallbacksEnd, refVars
<1>8. QED
  BY <1>1, <1>2, <1>3, <1>4, <1>5, <1>6, <1>7

(* Asking for __dict__ switches the wrapper to a toggle reference.         *)
LEMMA GetDictInv ==
  ASSUME IInv, NEW t \in Threads, NEW w \in Wrappers, GetDict(t, w)
  PROVE  IInv'
<1> USE DEF IInv
<1>0. /\ toggle = NoWrapper /\ gil = NoThread /\ w \notin flag /\ stage[w] = "live" /\ gref > 0
      /\ \A x \in Wrappers : stage[x] = "live" => x = w
      /\ \A u \in Threads : note[u] = Quiet
      /\ \A x \in Wrappers : ~(stage[x] = "dying" /\ x \in dict)
  BY ConstantsAssumption, LiveWrapper DEF GetDict, InPython, QdataOK, WrapperOK, NoteOK
<1>b. \A u \in Threads : pc[u] \notin {"callbacks", "making"}
  BY <1>0, LiveWrapper
<1>a. PICK next \in {"switch", "nested"} :
        /\ dict' = dict \cup {w} /\ flag' = flag \cup {w}
        /\ rc' = [rc EXCEPT ![w] = @ + 1]
        /\ gref' = gref + 1 /\ toggle' = w /\ gil' = t
        /\ pc' = [pc EXCEPT ![t] = next] /\ cur' = [cur EXCEPT ![t] = w]
        /\ pc[t] = "run" /\ note[t] = Quiet /\ t \in holds[w]
        /\ UNCHANGED <<floating, qdata, native, stage, selfref, holds, note, ending>>
  BY <1>0, <1>b DEF GetDict, SwitchToToggleRef, InPython, Running
<1>1. TypeOK'
  BY <1>a DEF TypeOK, PCs
<1>2. GilOK' /\ CurOK' /\ MakingOK' /\ ClearerOK' /\ EndingOK'
  <2>1. GilOK'
    BY <1>0, <1>a, ConstantsAssumption DEF TypeOK, GilOK, InGilSection
  <2>2. CurOK' /\ EndingOK'
    BY <1>0, <1>a, <1>b DEF TypeOK, CurOK, EndingOK
  <2>3. MakingOK'
    BY <1>a, <1>b DEF TypeOK, MakingOK
  <2>4. ClearerOK'
    <3>1. \A u \in Threads : u # t /\ pc[u] \notin {"run", "making"} => cur[u] # w
      BY <1>0, <1>b, ConstantsAssumption DEF TypeOK, GilOK, InGilSection, CurOK, PCs
    <3>2. QED
      BY <1>a, <3>1 DEF TypeOK, ClearerOK
  <2>5. QED
    BY <2>1, <2>2, <2>3, <2>4
<1>3. NoteOK'
  BY <1>0, <1>a DEF NoteOK
<1>4. WrapperOK' /\ QdataOK'
  BY <1>0, <1>a DEF TypeOK, WrapperOK, QdataOK
<1>5. RcOK'
  <2>1. /\ Owing("inc", w) = {} /\ Owing("inc", w)' = {}
        /\ Owing("dec", w) = {} /\ Owing("dec", w)' = {}
    BY <1>0, <1>a DEF Owing, Quiet
  <2>2. Self(w)' = Self(w) /\ Upheld(w) = 0 /\ Upheld(w)' = 1
    BY <1>0, <1>a, ConstantsAssumption DEF TypeOK, Self, Upheld
  <2>3. rc[w] = Cardinality(holds[w]) + Self(w)
    <3>1. rc[w] = Cardinality(holds[w]) + Self(w) + Upheld(w)
                  + Cardinality(Owing("dec", w)) - Cardinality(Owing("inc", w))
      BY <1>0, Balance
    <3>2. Cardinality(Owing("dec", w)) = 0 /\ Cardinality(Owing("inc", w)) = 0
      BY <2>1, FS_EmptySet
    <3>3. QED
      BY <3>1, <3>2, <2>2, RcTerms
  <2>4. rc'[w] = rc[w] + 1 /\ holds'[w] = holds[w] /\ stage' = stage
    BY <1>a DEF TypeOK
  <2>5. QED
    <3>1. rc'[w] = Cardinality(holds'[w]) + Self(w)' + Upheld(w)'
                   + Cardinality(Owing("dec", w)') - Cardinality(Owing("inc", w)')
      <4>1. Self(w)' = Self(w) /\ Upheld(w)' = 1 /\ Self(w) \in Int /\ Cardinality(holds[w]) \in Int
        BY <2>2, RcTerms
      <4>2. Cardinality(Owing("dec", w)') = 0 /\ Cardinality(Owing("inc", w)') = 0
        BY <2>1, FS_EmptySet
      <4>3. QED
        BY <4>1, <4>2, <2>3, <2>4
    <3>2. \A x \in Wrappers : stage'[x] = "live" => x = w
      BY <1>0, <2>4
    <3>3. QED
      BY <3>1, <3>2 DEF RcOK
<1>6. RefsBacked'
  <2>1. Owning' = Owning /\ Switching' = Switching \cup {t} /\ t \notin Switching /\ native' = native
    BY <1>a DEF TypeOK, Owning, Switching
  <2>2. Cardinality(Switching') = Cardinality(Switching) + 1
    BY <2>1, Sizes, Finite
  <2>3. QED
    BY <1>a, <2>1, <2>2, Sizes DEF TypeOK, RefsBacked, Owned
<1>7. QED
  BY <1>1, <1>2, <1>3, <1>4, <1>5, <1>6

(* So does the first attribute, directly or through __dict__.              *)
LEMMA SetAttrInv ==
  ASSUME IInv, NEW t \in Threads, NEW w \in Wrappers, NEW b \in BOOLEAN, SetAttr(t, w, b)
  PROVE  IInv'
<1> USE DEF IInv
<1>0. /\ toggle = NoWrapper /\ gil = NoThread /\ w \notin flag /\ stage[w] = "live" /\ gref > 0
      /\ \A x \in Wrappers : stage[x] = "live" => x = w
      /\ \A u \in Threads : note[u] = Quiet
      /\ \A x \in Wrappers : ~(stage[x] = "dying" /\ x \in dict)
  BY ConstantsAssumption, LiveWrapper DEF SetAttr, InPython, QdataOK, WrapperOK, NoteOK
<1>b. \A u \in Threads : pc[u] \notin {"callbacks", "making"}
  BY <1>0, LiveWrapper
<1>a. PICK next \in {"switch", "nested"} :
        /\ dict' = dict \cup {w} /\ flag' = flag \cup {w}
        /\ rc' = [rc EXCEPT ![w] = @ + 1]
        /\ gref' = gref + 1 /\ toggle' = w /\ gil' = t
        /\ pc' = [pc EXCEPT ![t] = next] /\ cur' = [cur EXCEPT ![t] = w]
        /\ pc[t] = "run" /\ note[t] = Quiet /\ t \in holds[w]
        /\ UNCHANGED <<floating, qdata, native, stage, selfref, holds, note, ending>>
  BY <1>0, <1>b DEF SetAttr, SwitchToToggleRef, InPython, Running
<1>1. TypeOK'
  BY <1>a DEF TypeOK, PCs
<1>2. GilOK' /\ CurOK' /\ MakingOK' /\ ClearerOK' /\ EndingOK'
  <2>1. GilOK'
    BY <1>0, <1>a, ConstantsAssumption DEF TypeOK, GilOK, InGilSection
  <2>2. CurOK' /\ EndingOK'
    BY <1>0, <1>a, <1>b DEF TypeOK, CurOK, EndingOK
  <2>3. MakingOK'
    BY <1>a, <1>b DEF TypeOK, MakingOK
  <2>4. ClearerOK'
    <3>1. \A u \in Threads : u # t /\ pc[u] \notin {"run", "making"} => cur[u] # w
      BY <1>0, <1>b, ConstantsAssumption DEF TypeOK, GilOK, InGilSection, CurOK, PCs
    <3>2. QED
      BY <1>a, <3>1 DEF TypeOK, ClearerOK
  <2>5. QED
    BY <2>1, <2>2, <2>3, <2>4
<1>3. NoteOK'
  BY <1>0, <1>a DEF NoteOK
<1>4. WrapperOK' /\ QdataOK'
  BY <1>0, <1>a DEF TypeOK, WrapperOK, QdataOK
<1>5. RcOK'
  <2>1. /\ Owing("inc", w) = {} /\ Owing("inc", w)' = {}
        /\ Owing("dec", w) = {} /\ Owing("dec", w)' = {}
    BY <1>0, <1>a DEF Owing, Quiet
  <2>2. Self(w)' = Self(w) /\ Upheld(w) = 0 /\ Upheld(w)' = 1
    BY <1>0, <1>a, ConstantsAssumption DEF TypeOK, Self, Upheld
  <2>3. rc[w] = Cardinality(holds[w]) + Self(w)
    <3>1. rc[w] = Cardinality(holds[w]) + Self(w) + Upheld(w)
                  + Cardinality(Owing("dec", w)) - Cardinality(Owing("inc", w))
      BY <1>0, Balance
    <3>2. Cardinality(Owing("dec", w)) = 0 /\ Cardinality(Owing("inc", w)) = 0
      BY <2>1, FS_EmptySet
    <3>3. QED
      BY <3>1, <3>2, <2>2, RcTerms
  <2>4. rc'[w] = rc[w] + 1 /\ holds'[w] = holds[w] /\ stage' = stage
    BY <1>a DEF TypeOK
  <2>5. QED
    <3>1. rc'[w] = Cardinality(holds'[w]) + Self(w)' + Upheld(w)'
                   + Cardinality(Owing("dec", w)') - Cardinality(Owing("inc", w)')
      <4>1. Self(w)' = Self(w) /\ Upheld(w)' = 1 /\ Self(w) \in Int /\ Cardinality(holds[w]) \in Int
        BY <2>2, RcTerms
      <4>2. Cardinality(Owing("dec", w)') = 0 /\ Cardinality(Owing("inc", w)') = 0
        BY <2>1, FS_EmptySet
      <4>3. QED
        BY <4>1, <4>2, <2>3, <2>4
    <3>2. \A x \in Wrappers : stage'[x] = "live" => x = w
      BY <1>0, <2>4
    <3>3. QED
      BY <3>1, <3>2 DEF RcOK
<1>6. RefsBacked'
  <2>1. Owning' = Owning /\ Switching' = Switching \cup {t} /\ t \notin Switching /\ native' = native
    BY <1>a DEF TypeOK, Owning, Switching
  <2>2. Cardinality(Switching') = Cardinality(Switching) + 1
    BY <2>1, Sizes, Finite
  <2>3. QED
    BY <1>a, <2>1, <2>2, Sizes DEF TypeOK, RefsBacked, Owned
<1>7. QED
  BY <1>1, <1>2, <1>3, <1>4, <1>5, <1>6

(* The switch gives the plain reference back.                              *)
LEMMA SwitchUnrefInv ==
  ASSUME IInv, NEW t \in Threads, SwitchUnref(t)
  PROVE  IInv'
<1> USE DEF IInv
<1>0. PICK w \in Wrappers : w = cur[t] /\ stage[w] = "live" /\ toggle = w /\ t \in holds[w] /\ w \in dict
  BY ConstantsAssumption DEF SwitchUnref, CurOK, QdataOK
<1>a. t \in Switching /\ w \in Owning /\ gref > 1
  <2>1. t \in Switching /\ w \in Owning
    BY <1>0 DEF SwitchUnref, Switching, Owning
  <2>2. QED
    BY <2>1, Sizes DEF TypeOK
<1>b. /\ toggle # NoWrapper /\ Dec(w) # Quiet
      /\ rc' = IF gref = 2 THEN [rc EXCEPT ![w] = @ - 1] ELSE rc
  <2>1. toggle # NoWrapper /\ Dec(w) # Quiet
    BY <1>0, ConstantsAssumption DEF Dec, Quiet
  <2>2. QED
    BY <1>0, <2>1 DEF SwitchUnref, UnrefNote
<1>1. TypeOK'
  <2>1. gref' \in Nat
    BY <1>a DEF TypeOK, SwitchUnref
  <2>2. rc' \in [Wrappers -> Int]
    BY <1>b DEF TypeOK
  <2>3. pc' \in [Threads -> PCs] /\ cur' \in [Threads -> Wrappers \cup {NoWrapper}] /\ gil' \in Threads \cup {NoThread}
    BY DEF TypeOK, SwitchUnref, PCs
  <2>4. QED
    BY <2>1, <2>2, <2>3 DEF TypeOK, SwitchUnref
<1>2. GilOK' /\ CurOK' /\ MakingOK' /\ ClearerOK' /\ EndingOK'
  <2>1. GilOK'
    BY ConstantsAssumption DEF TypeOK, SwitchUnref, GilOK, InGilSection
  <2>2. CurOK' /\ MakingOK' /\ EndingOK'
    BY <1>0, LiveWrapper DEF TypeOK, SwitchUnref, CurOK, MakingOK, EndingOK
  <2>3. ClearerOK'
    BY DEF TypeOK, SwitchUnref, ClearerOK
  <2>4. QED
    BY <2>1, <2>2, <2>3
<1>3. NoteOK'
  BY DEF TypeOK, SwitchUnref, NoteOK
<1>4. WrapperOK' /\ QdataOK'
  <2>1. \A x \in Wrappers : ~(stage[x] = "dying" /\ x \in dict)
    BY <1>a DEF WrapperOK
  <2>2. gref' > 0 /\ UNCHANGED <<stage, qdata, dict, flag, selfref, holds, toggle>>
    BY <1>a DEF TypeOK, SwitchUnref
  <2>3. WrapperOK'
    BY <2>1, <2>2 DEF WrapperOK
  <2>4. QdataOK'
    <3>1. stage[w] = "live" /\ qdata = w
      BY <1>0 DEF WrapperOK
    <3>2. QED
      BY <3>1, <2>2 DEF QdataOK
  <2>5. QED
    BY <2>3, <2>4
<1>5. RcOK'
  <2>1. UNCHANGED <<stage, holds, selfref, note, toggle>> /\ gref' = gref - 1 /\ gref \in Nat
    BY DEF TypeOK, SwitchUnref
  <2>2. \A x \in Wrappers : stage[x] = "live" => x = w
    BY <1>0 DEF WrapperOK
  <2>3. /\ Self(w)' = Self(w)
        /\ Owing("inc", w)' = Owing("inc", w) /\ Owing("dec", w)' = Owing("dec", w)
    BY <2>1 DEF Self, Owing
  <2>4. Upheld(w) = 1 /\ Upheld(w)' = IF gref = 2 THEN 0 ELSE 1
    BY <2>1, <1>0, <1>a DEF Upheld
  <2>5. rc'[w] = IF gref = 2 THEN rc[w] - 1 ELSE rc[w]
    BY <1>b DEF TypeOK
  <2>6. rc[w] = Cardinality(holds[w]) + Self(w) + Upheld(w)
                + Cardinality(Owing("dec", w)) - Cardinality(Owing("inc", w))
    BY <1>0, Balance
  <2>7. rc'[w] = Cardinality(holds'[w]) + Self(w)' + Upheld(w)'
                 + Cardinality(Owing("dec", w)') - Cardinality(Owing("inc", w)')
    BY <2>1, <2>3, <2>4, <2>5, <2>6, RcTerms
  <2>8. QED
    BY <2>1, <2>2, <2>7 DEF RcOK
<1>6. RefsBacked'
  <2>1. Owning' = Owning /\ Switching' = Switching \ {t} /\ native' = native
    BY DEF TypeOK, SwitchUnref, Owning, Switching
  <2>2. Cardinality(Switching') = Cardinality(Switching) - 1
    BY <2>1, <1>a, Sizes, Finite
  <2>3. QED
    BY <2>1, <2>2, Sizes DEF TypeOK, SwitchUnref, RefsBacked, Owned
<1>7. QED
  BY <1>1, <1>2, <1>3, <1>4, <1>5, <1>6

(* The second switch pygobject_setattro asks for does nothing.             *)
LEMMA SetAttrRecheckInv ==
  ASSUME IInv, NEW t \in Threads, SetAttrRecheck(t)
  PROVE  IInv'
<1> USE DEF IInv
<1>0. /\ cur[t] \in flag
      /\ gil' = NoThread /\ pc' = [pc EXCEPT ![t] = "run"] /\ cur' = [cur EXCEPT ![t] = NoWrapper]
      /\ UNCHANGED <<gref, floating, qdata, toggle, native, stage, rc, dict, flag, selfref, holds, note, ending>>
      /\ pc[t] = "recheck" /\ gil = t
  <2>1. cur[t] \in flag
    BY ConstantsAssumption DEF SetAttrRecheck, CurOK, QdataOK, WrapperOK
  <2>2. QED
    BY <2>1 DEF SetAttrRecheck, SwitchToToggleRef
<1>1. TypeOK'
  BY <1>0 DEF TypeOK, PCs
<1>2. GilOK' /\ CurOK' /\ MakingOK' /\ ClearerOK' /\ EndingOK'
  <2>1. GilOK'
    BY <1>0, ConstantsAssumption DEF TypeOK, GilOK, InGilSection
  <2>2. CurOK' /\ MakingOK' /\ EndingOK' /\ ClearerOK'
    BY <1>0 DEF TypeOK, CurOK, MakingOK, EndingOK, ClearerOK
  <2>3. QED
    BY <2>1, <2>2
<1>3. NoteOK'
  BY <1>0 DEF NoteOK
<1>4. WrapperOK' /\ QdataOK'
  <2>3. QED
    BY <1>0 DEF WrapperOK, QdataOK
<1>5. RcOK'
  BY <1>0 DEF RcOK, Owing, Self, Upheld
<1>6. RefsBacked'
  <2>1. Owning' = Owning /\ Switching' = Switching
    BY <1>0 DEF Owning, Switching
  <2>2. QED
    BY <1>0, <2>1 DEF RefsBacked, Owned
<1>7. QED
  BY <1>1, <1>2, <1>3, <1>4, <1>5, <1>6

(* A wrapper whose only reference is one of a frame that owes nothing, of its
   own dictionary or of a notification on its way is not upheld, and nobody
   owes it a Py_INCREF.                                                    *)
LEMMA OnlyRef ==
  ASSUME IInv, NEW w \in Wrappers, stage[w] = "live", rc[w] = 1,
         \/ holds[w] \ Owing("inc", w) # {}
         \/ w \in selfref
         \/ Owing("dec", w) # {}
  PROVE  /\ Upheld(w) = 0 /\ Owing("inc", w) = {}
         /\ Cardinality(holds[w]) + Self(w) + Cardinality(Owing("dec", w)) = 1
<1>1. 1 = Cardinality(holds[w]) + Self(w) + Upheld(w)
          + Cardinality(Owing("dec", w)) - Cardinality(Owing("inc", w))
  BY Balance
<1>2. Cardinality(Owing("inc", w)) =< Cardinality(holds[w])
  BY Balance
<1>3. \/ Cardinality(Owing("inc", w)) < Cardinality(holds[w])
      \/ Self(w) = 1
      \/ Cardinality(Owing("dec", w)) > 0
  <2>1. CASE holds[w] \ Owing("inc", w) # {}
    BY <2>1, Balance
  <2>2. CASE w \in selfref
    BY <2>2 DEF Self
  <2>3. CASE Owing("dec", w) # {}
    BY <2>3, RcTerms, Finite
  <2>4. QED
    BY <2>1, <2>2, <2>3
<1>4. Upheld(w) = 0
  BY <1>1, <1>2, <1>3, RcTerms
<1>5. Owing("inc", w) = {}
  BY <1>4, Balance
<1>6. Cardinality(Owing("inc", w)) = 0
  BY <1>5, FS_EmptySet
<1>7. QED
  BY <1>1, <1>4, <1>5, <1>6, RcTerms

(* When the last reference to w goes, pygobject_dealloc starts in a world
   where no notification is on its way and the wrapper is not upheld.      *)
LEMMA ClearStarts ==
  ASSUME IInv, NEW t \in Threads, NEW w \in Wrappers, NEW next \in {"callbacks", "clear"},
         gil = NoThread, pc[t] = "run", stage[w] = "live", Upheld(w) = 0,
         stage' = [stage EXCEPT ![w] = "dying"],
         pc' = [pc EXCEPT ![t] = next], cur' = [cur EXCEPT ![t] = w],
         gil' = IF next = "clear" THEN t ELSE NoThread,
         next = "callbacks" => rc'[w] = 0 /\ w \notin selfref,
         UNCHANGED <<refVars, dict, flag, selfref, ending>>,
         \A x \in Wrappers : x # w => rc'[x] = rc[x],
         holds'[w] = {}, \A x \in Wrappers : x # w => holds'[x] = holds[x],
         \A u \in Threads : note'[u] = Quiet
  PROVE  /\ GilOK' /\ CurOK' /\ MakingOK' /\ ClearerOK' /\ EndingOK' /\ NoteOK'
         /\ WrapperOK' /\ QdataOK' /\ RcOK' /\ RefsBacked'
<1> USE DEF IInv, refVars
<1>1. qdata = w /\ gref > 0 /\ (w \in dict => gref = 1)
  <2>1. qdata = w /\ gref > 0 /\ (w \in dict => toggle = w)
    BY DEF WrapperOK
  <2>2. QED
    BY <2>1 DEF Upheld, TypeOK
<1>2. \A u \in Threads : pc[u] \in {"run", "unref"}
  BY LiveWrapper, ConstantsAssumption DEF TypeOK, GilOK, InGilSection, PCs
<1>3. GilOK'
  BY <1>2, ConstantsAssumption DEF TypeOK, GilOK, InGilSection
<1>4. CurOK' /\ EndingOK'
  BY <1>1, <1>2 DEF TypeOK, CurOK, EndingOK
<1>a. MakingOK'
  BY <1>2 DEF TypeOK, MakingOK
<1>5. ClearerOK'
  <2>1. \A u \in Threads : u # t /\ pc[u] # "run" => cur[u] # w
    BY <1>2 DEF CurOK
  <2>2. QED
    BY <1>2, <2>1 DEF TypeOK, ClearerOK
<1>6. NoteOK'
  BY DEF NoteOK, Quiet
<1>7. WrapperOK'
  <2>1. \A x \in Wrappers : ~(stage[x] = "dying" /\ x \in dict)
    BY LiveWrapper
  <2>2. pc'[t] \in {"callbacks", "clear"} /\ cur'[t] = w /\ stage'[w] = "dying"
    BY DEF TypeOK
  <2>3. \A x \in Wrappers : x # w => stage'[x] = stage[x] /\ stage[x] # "live"
    BY LiveWrapper DEF TypeOK
  <2>4. QED
    BY <1>1, <2>1, <2>2, <2>3 DEF WrapperOK
<1>8. QdataOK'
  BY <1>1 DEF TypeOK, QdataOK
<1>9. RcOK'
  BY LiveWrapper DEF TypeOK, RcOK
<1>10. RefsBacked'
  <2>1. Owning' = Owning
    BY DEF Owning, TypeOK
  <2>2. Switching' = Switching
    BY <1>2 DEF Switching, TypeOK
  <2>3. QED
    BY <2>1, <2>2 DEF RefsBacked, Owned
<1>11. QED
  BY <1>3, <1>4, <1>a, <1>5, <1>6, <1>7, <1>8, <1>9, <1>10

(* A live wrapper's notifications are the only ones there can be.          *)
LEMMA AllQuiet ==
  ASSUME IInv, NEW w \in Wrappers, stage[w] = "live",
         Owing("inc", w) = {}, NEW t, Owing("dec", w) \in SUBSET {t}
  PROVE  \A u \in Threads : u # t => note[u] = Quiet
<1> SUFFICES ASSUME NEW u \in Threads, u # t, note[u] # Quiet PROVE FALSE
  OBVIOUS
<1>1. note[u].on = w /\ note[u].kind \in {"inc", "dec"} /\ note[u] \in Notes
  BY DEF IInv, NoteOK, WrapperOK, TypeOK
<1>2. note[u] = [kind |-> note[u].kind, on |-> w]
  BY <1>1 DEF Notes
<1>3. QED
  BY <1>1, <1>2 DEF Owing

(* Python drops a reference, perhaps the last one.                         *)
LEMMA DropInv ==
  ASSUME IInv, NEW t \in Threads, NEW w \in Wrappers, Drop(t, w)
  PROVE  IInv'
<1> USE DEF IInv, Drop
<1>0. /\ stage[w] = "live" /\ t \in holds[w] /\ note[t] = Quiet /\ gil = NoThread /\ pc[t] = "run"
      /\ rc' = [rc EXCEPT ![w] = @ - 1] /\ holds' = [holds EXCEPT ![w] = @ \ {t}]
      /\ UNCHANGED <<refVars, dict, flag, selfref, note, ending>>
  <2>1. stage[w] = "live"
    BY DEF WrapperOK
  <2>2. QED
    BY <2>1, LiveWrapper DEF InPython, Running, DecRef
<1>1. /\ Cardinality(holds'[w]) = Cardinality(holds[w]) - 1
      /\ holds'[w] = holds[w] \ {t} /\ holds[w] \in SUBSET Threads
      /\ t \notin Owing("inc", w)
  BY <1>0, RcTerms, Finite DEF TypeOK, Owing, Quiet
<1>2. CASE rc[w] = 1
  <2>1. StartClear(t, w)
    BY <1>2 DEF DecRef
  <2>2. TypeOK'
    BY <1>0, <2>1 DEF TypeOK, StartClear, refVars, PCs
  <2>3. /\ Upheld(w) = 0 /\ Owing("inc", w) = {}
        /\ Cardinality(holds[w]) + Self(w) + Cardinality(Owing("dec", w)) = 1
    BY <1>0, <1>1, <1>2, OnlyRef
  <2>4. Cardinality(holds[w]) > 0
    BY <1>1, Finite
  <2>5. Cardinality(holds'[w]) = 0 /\ Cardinality(Owing("dec", w)) = 0
    BY <1>1, <2>3, <2>4, RcTerms
  <2>6. holds'[w] = {} /\ Owing("dec", w) = {}
    <3>2. QED
      BY <2>5, Finite, FS_EmptySet, RcTerms
  <2>7. \A u \in Threads : note'[u] = Quiet
    BY <1>0, <2>3, <2>6, AllQuiet
  <2>8. w \notin selfref
    BY <2>3, <2>4, RcTerms DEF Self
  <2>a. rc'[w] = 0 /\ \A x \in Wrappers : x # w => rc'[x] = rc[x] /\ holds'[x] = holds[x]
    BY <1>0, <1>2 DEF TypeOK
  <2>b. PICK next \in {"callbacks", "clear"} :
          /\ stage' = [stage EXCEPT ![w] = "dying"]
          /\ pc' = [pc EXCEPT ![t] = next] /\ cur' = [cur EXCEPT ![t] = w]
          /\ gil' = IF next = "clear" THEN t ELSE NoThread
    BY <1>0, <2>1 DEF StartClear
  <2>9. QED
    BY <1>0, <2>b, <2>2, <2>3, <2>6, <2>7, <2>8, <2>a, ClearStarts
<1>3. CASE rc[w] # 1
  <2>1. UNCHANGED <<stage, gil, pc, cur>>
    BY <1>3 DEF DecRef
  <2>2. TypeOK'
    BY <1>0, <2>1 DEF TypeOK, refVars
  <2>3. GilOK' /\ CurOK' /\ MakingOK' /\ ClearerOK' /\ EndingOK'
    BY <1>0, <2>1, LiveWrapper DEF TypeOK, refVars, GilOK, CurOK, MakingOK, ClearerOK, EndingOK
  <2>4. NoteOK'
    BY <1>0, <2>1 DEF NoteOK, Quiet, refVars
  <2>5. WrapperOK' /\ QdataOK'
    BY <2>1 DEF WrapperOK, QdataOK, refVars
  <2>6. RcOK'
    <3>1. \A x \in Wrappers : stage'[x] = "live" => x = w
      BY <2>1 DEF WrapperOK
    <3>2. /\ Self(w)' = Self(w) /\ Upheld(w)' = Upheld(w)
          /\ Owing("inc", w)' = Owing("inc", w) /\ Owing("dec", w)' = Owing("dec", w)
      BY DEF Self, Upheld, Owing, refVars
    <3>3. rc[w] = Cardinality(holds[w]) + Self(w) + Upheld(w)
                  + Cardinality(Owing("dec", w)) - Cardinality(Owing("inc", w))
      BY <1>0, Balance
    <3>4. rc'[w] = rc[w] - 1
      BY <1>0 DEF TypeOK
    <3>5. rc'[w] = Cardinality(holds'[w]) + Self(w)' + Upheld(w)'
                   + Cardinality(Owing("dec", w)') - Cardinality(Owing("inc", w)')
      BY <3>2, <3>3, <3>4, <1>1, RcTerms
    <3>6. QED
      BY <3>1, <3>5 DEF RcOK
  <2>7. RefsBacked'
    BY <2>1 DEF RefsBacked, Owned, Owning, Switching, refVars
  <2>8. QED
    BY <2>2, <2>3, <2>4, <2>5, <2>6, <2>7
<1>4. QED
  BY <1>2, <1>3

(* The cycle collector clears a wrapper only its own dictionary refers to. *)
LEMMA CollectCycleInv ==
  ASSUME IInv, NEW t \in Threads, NEW w \in Wrappers, CollectCycle(t, w)
  PROVE  IInv'
<1> USE DEF IInv, CollectCycle
<1>1. TypeOK'
  BY DEF TypeOK, refVars, PCs
<1>2. /\ Upheld(w) = 0 /\ Owing("inc", w) = {} /\ Self(w) = 1
      /\ Cardinality(holds[w]) + Self(w) + Cardinality(Owing("dec", w)) = 1
  BY OnlyRef DEF Self
<1>3. Cardinality(holds[w]) = 0 /\ Cardinality(Owing("dec", w)) = 0
  BY <1>2, RcTerms
<1>4. holds[w] = {} /\ Owing("dec", w) = {}
  BY <1>3, RcTerms, Finite, FS_EmptySet
<1>5. \A u \in Threads : note'[u] = Quiet
  BY <1>2, <1>4, AllQuiet DEF InPython, Running
<1>6. pc[t] = "run"
  BY LiveWrapper DEF InPython, Running
<1>7. QED
  BY <1>1, <1>2, <1>4, <1>5, <1>6, ClearStarts DEF InPython

(* Two owners of the GObject are two references.                           *)
LEMMA TwoOwners ==
  ASSUME IInv
  PROVE  /\ \A t \in native, w \in Owning : gref > 1
         /\ \A w, x \in Owning : x # w => gref > 1
<1>1. \A t \in native, w \in Owning : gref > 1
  BY Sizes DEF IInv, TypeOK
<1>2. ASSUME NEW w \in Owning, NEW x \in Owning, x # w
      PROVE  gref > 1
  <2>1. Owning \ {w} \in SUBSET Wrappers /\ w \in Wrappers /\ x \in Wrappers /\ x \in Owning \ {w}
    BY <1>2 DEF Owning
  <2>2. Cardinality(Owning \ {w}) = Cardinality(Owning) - 1 /\ Cardinality(Owning \ {w}) > 0
    BY <2>1, Finite
  <2>3. QED
    BY <2>2, Sizes DEF IInv, TypeOK
<1>3. QED
  BY <1>1, <1>2

(* A second owner makes GObject owe the wrapper a Py_INCREF.               *)
LEMMA NativeRefInv ==
  ASSUME IInv, NEW t \in Threads, NativeRef(t)
  PROVE  IInv'
<1> USE DEF IInv, NativeRef
<1>1. PICK w \in Wrappers : stage[w] = "live" /\ t \in holds[w]
  OBVIOUS
<1>2. /\ qdata = w /\ gref > 0 /\ toggle \in {w, NoWrapper} /\ w # NoWrapper
      /\ \A x \in Wrappers : stage[x] = "live" => x = w
      /\ \A x \in Wrappers : ~(stage[x] = "dying" /\ x \in dict)
      /\ note[t] = Quiet /\ pc[t] = "run"
  BY <1>1, LiveWrapper DEF QdataOK, Running
<1>3. RefNote \in {Quiet, Inc(w)} /\ (RefNote = Inc(w) <=> gref = 1 /\ toggle = w)
  BY <1>2 DEF RefNote, Quiet, Inc
<1>4. TypeOK'
  <2>1. RefNote \in Notes
    BY <1>3 DEF Quiet, Inc, Notes
  <2>2. QED
    BY <2>1 DEF TypeOK, wrapVars
<1>5. GilOK' /\ CurOK' /\ MakingOK' /\ ClearerOK' /\ EndingOK'
  BY <1>1, LiveWrapper DEF wrapVars, GilOK, CurOK, MakingOK, ClearerOK, EndingOK
<1>6. NoteOK'
  <2>1. ASSUME NEW u \in Threads, u # t
        PROVE  note'[u] = note[u]
    BY <2>1
  <2>3. RefNote = Inc(w) => toggle = w /\ RefNote.kind = "inc" /\ RefNote.on = w
    BY <1>3 DEF Inc
  <2>4. RefNote # Inc(w) => RefNote = Quiet /\ RefNote.kind # "inc"
    BY <1>3 DEF Quiet
  <2>5. UNCHANGED <<toggle, stage, pc, holds>> /\ native' = native \cup {t}
    BY DEF wrapVars
  <2>6. QED
    BY <1>2, <2>3, <2>4, <2>5 DEF NoteOK
<1>7. WrapperOK' /\ QdataOK'
  BY <1>2 DEF TypeOK, wrapVars, WrapperOK, QdataOK
<1>8. RcOK'
  <2>1. Self(w)' = Self(w) /\ rc' = rc /\ holds' = holds /\ stage' = stage /\ toggle' = toggle /\ gref' = gref + 1
    BY DEF Self, wrapVars
  <2>2. Owing("dec", w)' = Owing("dec", w)
    BY <1>2, <1>3 DEF Owing, Quiet, Inc
  <2>3. CASE gref = 1 /\ toggle = w
    <3>1. Upheld(w) = 0 /\ Upheld(w)' = 1
      BY <2>3 DEF Upheld
    <3>2. Owing("inc", w)' = Owing("inc", w) \cup {t} /\ t \notin Owing("inc", w)
      BY <1>2, <1>3, <2>3 DEF Owing, Quiet, Inc, TypeOK
    <3>3. Cardinality(Owing("inc", w)') = Cardinality(Owing("inc", w)) + 1
      BY <3>2, RcTerms, Finite
    <3>4. rc[w] = Cardinality(holds[w]) + Self(w) + Upheld(w)
                  + Cardinality(Owing("dec", w)) - Cardinality(Owing("inc", w))
      BY <1>1, Balance
    <3>5. rc'[w] = Cardinality(holds'[w]) + Self(w)' + Upheld(w)'
                   + Cardinality(Owing("dec", w)') - Cardinality(Owing("inc", w)')
      BY <2>1, <2>2, <3>1, <3>3, <3>4, RcTerms
    <3>6. QED
      BY <3>5, <1>2, <2>1 DEF RcOK
  <2>4. CASE ~(gref = 1 /\ toggle = w)
    <3>1. Upheld(w)' = Upheld(w)
      BY <2>4 DEF Upheld, TypeOK
    <3>2. Owing("inc", w)' = Owing("inc", w)
      BY <1>2, <1>3, <2>4 DEF Owing
    <3>3. QED
      BY <1>2, <2>1, <2>2, <3>1, <3>2 DEF RcOK
  <2>5. QED
    BY <2>3, <2>4
<1>9. RefsBacked'
  <2>1. Owning' = Owning /\ Switching' = Switching
    BY DEF wrapVars, Owning, Switching
  <2>2. Cardinality(native') = Cardinality(native) + 1
    BY Sizes, Finite
  <2>3. QED
    BY <2>1, <2>2, Sizes DEF RefsBacked, Owned, TypeOK
<1>10. QED
  BY <1>4, <1>5, <1>6, <1>7, <1>8, <1>9

(* A GObject's reference is dropped in thread t by someone who does not own
   the last one if a wrapper is still live: the notification that follows
   and what the wrapper is upheld by agree again.                          *)
LEMMA UnrefBalance ==
  ASSUME IInv, NEW t \in Threads, note[t] = Quiet,
         gref' = gref - 1, UNCHANGED <<toggle, rc, holds, selfref>>,
         note' = [note EXCEPT ![t] = UnrefNote], pc'[t] = "run" \/ toggle = NoWrapper,
         \A u \in Threads : u # t => pc'[u] = pc[u],
         native' \in {native, native \ {t}},
         \A x \in Wrappers : stage'[x] = "live" <=> stage[x] = "live",
         \A x \in Wrappers : stage[x] = "live" => gref > 1,
         \A x \in Wrappers : ~(stage[x] = "dying" /\ x \in dict)
  PROVE  NoteOK' /\ RcOK'
<1> USE DEF IInv
<1>1. toggle # NoWrapper => toggle \in Wrappers /\ stage[toggle] = "live"
  BY DEF TypeOK, QdataOK
<1>2. /\ UnrefNote \in {Quiet, Dec(toggle)}
      /\ UnrefNote = Dec(toggle) <=> gref = 2 /\ toggle # NoWrapper
  BY DEF UnrefNote, Quiet, Dec
<1>3. NoteOK'
  <2>1. ASSUME NEW u \in Threads, u # t
        PROVE  note'[u] = note[u]
    BY <2>1
  <2>2. note'[t] = UnrefNote
    BY DEF TypeOK
  <2>3. UnrefNote = Dec(toggle) => toggle # NoWrapper /\ UnrefNote.kind = "dec" /\ UnrefNote.on = toggle
    BY <1>2 DEF Dec
  <2>4. UnrefNote # Dec(toggle) => UnrefNote = Quiet /\ UnrefNote.kind = "none"
    BY <1>2 DEF Quiet
  <2>6. QED
    BY <1>1, <2>2, <2>3, <2>4 DEF NoteOK
<1>4. RcOK'
  <2>1. SUFFICES ASSUME NEW w \in Wrappers, stage[w] = "live"
                 PROVE  rc[w] = Cardinality(holds[w]) + Self(w) + Upheld(w)'
                          + Cardinality(Owing("dec", w)') - Cardinality(Owing("inc", w)')
    BY DEF RcOK, Self
  <2>2. rc[w] = Cardinality(holds[w]) + Self(w) + Upheld(w)
                + Cardinality(Owing("dec", w)) - Cardinality(Owing("inc", w))
    BY <2>1, Balance
  <2>3. Owing("inc", w)' = Owing("inc", w)
    BY <1>2 DEF Owing, Quiet, Dec
  <2>4. CASE gref = 2 /\ toggle = w
    <3>1. Upheld(w) = 1 /\ Upheld(w)' = 0
      BY <2>4 DEF Upheld
    <3>2. w # NoWrapper
      BY ConstantsAssumption
    <3>3. Owing("dec", w)' = Owing("dec", w) \cup {t} /\ t \notin Owing("dec", w)
      BY <1>2, <2>4, <3>2 DEF Owing, Quiet, Dec, TypeOK
    <3>4. Cardinality(Owing("dec", w)') = Cardinality(Owing("dec", w)) + 1
      BY <3>3, RcTerms, Finite
    <3>5. QED
      BY <2>2, <2>3, <3>1, <3>4, RcTerms
  <2>5. CASE ~(gref = 2 /\ toggle = w)
    <3>1. Upheld(w)' = Upheld(w)
      BY <2>5 DEF Upheld, TypeOK
    <3>2. Owing("dec", w)' = Owing("dec", w)
      BY <1>2, <2>5 DEF Owing, Quiet, Dec
    <3>3. QED
      BY <2>2, <2>3, <3>1, <3>2
  <2>6. QED
    BY <2>4, <2>5
<1>5. QED
  BY <1>3, <1>4

(* Native code drops its reference.                                        *)
LEMMA NativeUnrefInv ==
  ASSUME IInv, NEW t \in Threads, NativeUnref(t)
  PROVE  IInv'
<1> USE DEF IInv, NativeUnref
<1>1. /\ gref > 0
      /\ \A x \in Wrappers : stage[x] = "live" => gref > 1
      /\ \A x \in Wrappers : ~(stage[x] = "dying" /\ x \in dict)
  <2>1. gref > 0
    BY Sizes DEF TypeOK
  <2>2. \A x \in Wrappers : stage[x] \in {"live", "dying"} => gref > 1
    BY TwoOwners DEF Owning
  <2>3. QED
    BY <2>1, <2>2 DEF WrapperOK
<1>2. TypeOK'
  <2>1. UnrefNote \in Notes
    BY DEF UnrefNote, Quiet, Dec, Notes, TypeOK
  <2>2. QED
    BY <1>1, <2>1 DEF TypeOK, wrapVars
<1>3. GilOK' /\ CurOK' /\ MakingOK' /\ ClearerOK' /\ EndingOK'
  BY DEF Running, wrapVars, GilOK, CurOK, MakingOK, ClearerOK, EndingOK
<1>a. pc[t] = "run" \/ toggle = NoWrapper
  BY <1>1 DEF Running, CurOK, QdataOK, TypeOK
<1>4. NoteOK' /\ RcOK'
  BY <1>1, <1>a, UnrefBalance DEF Running, wrapVars
<1>5. WrapperOK'
  BY <1>1 DEF TypeOK, wrapVars, WrapperOK
<1>6. QdataOK'
  BY DEF wrapVars, QdataOK
<1>7. RefsBacked'
  <2>1. Owning' = Owning /\ Switching' = Switching
    BY DEF wrapVars, Owning, Switching
  <2>2. Cardinality(native') = Cardinality(native) - 1
    BY Sizes, Finite
  <2>3. QED
    BY <2>1, <2>2, Sizes DEF RefsBacked, Owned, TypeOK
<1>8. QED
  BY <1>2, <1>3, <1>4, <1>5, <1>6, <1>7

(* A wrapper without state drops its plain reference without the GIL.      *)
LEMMA ClearUnrefInv ==
  ASSUME IInv, NEW t \in Threads, ClearUnref(t)
  PROVE  IInv'
<1> USE DEF IInv, ClearUnref
<1>1. PICK w \in Wrappers : w = cur[t] /\ stage[w] = "dying" /\ w \notin dict /\ w \in Owning
  BY DEF CurOK, Owning
<1>2. /\ gref > 0
      /\ \A x \in Wrappers : stage[x] = "live" => gref > 1
      /\ \A x \in Wrappers : ~(stage[x] = "dying" /\ x \in dict)
  <2>1. gref > 0
    BY <1>1, Sizes DEF TypeOK
  <2>2. \A x \in Wrappers : x # w /\ stage[x] \in {"live", "dying"} => gref > 1
    BY <1>1, TwoOwners DEF Owning
  <2>3. QED
    BY <1>1, <2>1, <2>2 DEF WrapperOK
<1>3. TypeOK'
  <2>1. UnrefNote \in Notes
    BY DEF UnrefNote, Quiet, Dec, Notes, TypeOK
  <2>2. QED
    BY <1>1, <1>2, <2>1 DEF TypeOK, PCs
<1>4. note[t] = Quiet
  BY DEF NoteOK
<1>5. GilOK'
  BY DEF GilOK, InGilSection
<1>6. CurOK'
  <2>1. \A u \in Threads : u # t /\ pc[u] \notin {"run", "making"} => cur[u] # w
    BY <1>1 DEF ClearerOK
  <2>2. QED
    BY <1>1, <2>1 DEF TypeOK, CurOK
<1>7. EndingOK' /\ MakingOK' /\ ClearerOK'
  BY <1>1 DEF TypeOK, EndingOK, MakingOK, ClearerOK
<1>8. NoteOK' /\ RcOK'
  <2>1. pc'[t] = "run" /\ \A u \in Threads : u # t => pc'[u] = pc[u]
    BY DEF TypeOK
  <2>2. \A x \in Wrappers : stage'[x] = "live" <=> stage[x] = "live"
    BY <1>1
  <2>3. QED
    BY <1>2, <1>4, <2>1, <2>2, UnrefBalance
<1>9. WrapperOK'
  BY <1>1, <1>2 DEF TypeOK, WrapperOK
<1>10. QdataOK'
  <2>1. qdata # w
    <3>1. ASSUME qdata = w
          PROVE  FALSE
      <4>1. PICK u \in Threads : pc[u] \in {"callbacks", "clear"} /\ cur[u] = w
        BY <1>1, <3>1, ConstantsAssumption DEF QdataOK
      <4>2. QED
        BY <1>1, <4>1 DEF ClearerOK
    <3>2. QED
      BY <3>1
  <2>4. QED
    BY <1>1, <2>1 DEF QdataOK
<1>11. RefsBacked'
  <2>1. Owning' = Owning \ {w} /\ Switching' = Switching
    BY <1>1 DEF TypeOK, Owning, Switching
  <2>2. Cardinality(Owning') = Cardinality(Owning) - 1
    BY <1>1, <2>1, Sizes, Finite
  <2>3. QED
    BY <2>1, <2>2, Sizes DEF RefsBacked, Owned, TypeOK
<1>12. QED
  BY <1>3, <1>5, <1>6, <1>7, <1>8, <1>9, <1>10, <1>11

(* A notification delivered leaves the balance as it was, or frees the
   wrapper if it took the last reference.                                  *)
LEMMA ToggleNotifyInv ==
  ASSUME IInv, NEW t \in Threads, ToggleNotify(t)
  PROVE  IInv'
<1> USE DEF IInv, ToggleNotify
<1>1. PICK w \in Wrappers : /\ w = note[t].on /\ w = toggle /\ w # NoWrapper
                            /\ stage[w] = "live" /\ pc[t] = "run"
                            /\ note[t].kind \in {"inc", "dec"}
                            /\ \A x \in Wrappers : stage[x] = "live" => x = w
  BY DEF NoteOK, WrapperOK, TypeOK
<1>2. note[t] = [kind |-> note[t].kind, on |-> w]
  BY <1>1 DEF TypeOK, Notes
<1>3. /\ Self(w)' = Self(w) /\ Upheld(w)' = Upheld(w)
      /\ UNCHANGED <<refVars, dict, flag, selfref, holds, ending>>
  BY DEF Self, Upheld, refVars
<1>5. note'[t] = Quiet /\ Quiet \in Notes /\ Quiet.kind = "none"
  BY DEF TypeOK, Quiet, Notes
<1>6. \A k \in {"inc", "dec"} : Owing(k, w)' = Owing(k, w) \ {t}
  BY <1>5 DEF Owing
<1>7. NoteOK' \/ ~UNCHANGED <<stage, pc>>
  BY <1>5 DEF NoteOK, refVars
<1>8. rc[w] = Cardinality(holds[w]) + Self(w) + Upheld(w)
              + Cardinality(Owing("dec", w)) - Cardinality(Owing("inc", w))
  BY <1>1, Balance
<1>9. ASSUME UNCHANGED <<stage, gil, pc, cur>>, rc' \in [Wrappers -> Int],
             rc'[w] = Cardinality(holds[w]) + Self(w) + Upheld(w)
                      + Cardinality(Owing("dec", w)') - Cardinality(Owing("inc", w)')
      PROVE  IInv'
  <2>1. TypeOK'
    BY <1>9, <1>5 DEF TypeOK, refVars
  <2>2. GilOK' /\ CurOK' /\ MakingOK' /\ ClearerOK' /\ EndingOK'
    BY <1>9, <1>1, LiveWrapper DEF GilOK, CurOK, MakingOK, ClearerOK, EndingOK, refVars
  <2>3. WrapperOK' /\ QdataOK'
    BY <1>9 DEF WrapperOK, QdataOK, refVars
  <2>4. RcOK'
    BY <1>9, <1>1, <1>3 DEF RcOK
  <2>5. RefsBacked'
    BY <1>9 DEF RefsBacked, Owned, Owning, Switching, refVars
  <2>6. QED
    BY <2>1, <2>2, <2>3, <2>4, <2>5, <1>7, <1>9
<1>10. CASE note[t].kind = "inc"
  <2>1. t \in Owing("inc", w) /\ t \notin Owing("dec", w)
    BY <1>2, <1>10 DEF Owing
  <2>2. Cardinality(Owing("inc", w)') = Cardinality(Owing("inc", w)) - 1
    BY <2>1, <1>6, RcTerms, Finite
  <2>3. Owing("dec", w)' = Owing("dec", w)
    BY <2>1, <1>6
  <2>4. rc' = [rc EXCEPT ![w] = @ + 1] /\ UNCHANGED <<stage, gil, pc, cur>>
    BY <1>1, <1>10
  <2>5. rc' \in [Wrappers -> Int] /\ rc'[w] = rc[w] + 1
    BY <2>4 DEF TypeOK
  <2>6. QED
    BY <2>2, <2>3, <2>4, <2>5, <1>8, <1>9, RcTerms
<1>11. CASE note[t].kind = "dec"
  <2>1. t \in Owing("dec", w) /\ t \notin Owing("inc", w) /\ DecRef(t, w)
    BY <1>2, <1>11 DEF Owing
  <2>2. Cardinality(Owing("dec", w) \ {t}) = Cardinality(Owing("dec", w)) - 1
    BY <2>1, RcTerms, Finite
  <2>3. CASE rc[w] = 1
    <3>1. StartClear(t, w)
      BY <2>1, <2>3 DEF DecRef
    <3>2. /\ Upheld(w) = 0 /\ Owing("inc", w) = {}
          /\ Cardinality(holds[w]) + Self(w) + Cardinality(Owing("dec", w)) = 1
      BY <2>1, <2>3, <1>1, OnlyRef
    <3>3. Cardinality(Owing("dec", w)) > 0
      BY <2>1, RcTerms, Finite
    <3>4. Cardinality(holds[w]) = 0 /\ Cardinality(Owing("dec", w) \ {t}) = 0
      BY <2>2, <3>2, <3>3, RcTerms
    <3>5. holds[w] = {} /\ Owing("dec", w) \ {t} = {}
      <4>1. Owing("dec", w) \ {t} \in SUBSET Threads /\ holds[w] \in SUBSET Threads
        BY RcTerms
      <4>2. QED
        BY <4>1, <3>4, Finite, FS_EmptySet
    <3>6. \A u \in Threads : note'[u] = Quiet
      BY <1>1, <1>5, <3>2, <3>5, AllQuiet
    <3>7. TypeOK'
      BY <1>5, <2>1 DEF TypeOK, StartClear, DecRef, refVars, PCs
    <3>8. w \notin selfref
      BY <3>2, <3>3, RcTerms DEF Self
    <3>9. rc'[w] = 0 /\ \A x \in Wrappers : x # w => rc'[x] = rc[x]
      BY <2>1, <2>3 DEF TypeOK, DecRef
    <3>10. PICK next \in {"callbacks", "clear"} :
             /\ stage' = [stage EXCEPT ![w] = "dying"]
             /\ pc' = [pc EXCEPT ![t] = next] /\ cur' = [cur EXCEPT ![t] = w]
             /\ gil' = IF next = "clear" THEN t ELSE NoThread
      BY <3>1 DEF StartClear
    <3>11. QED
      BY <1>1, <3>2, <3>5, <3>6, <3>7, <3>8, <3>9, <3>10, ClearStarts
  <2>4. CASE rc[w] # 1
    <3>1. rc' = [rc EXCEPT ![w] = @ - 1] /\ UNCHANGED <<stage, gil, pc, cur>>
      BY <2>1, <2>4 DEF DecRef
    <3>2. rc' \in [Wrappers -> Int] /\ rc'[w] = rc[w] - 1
      BY <3>1 DEF TypeOK
    <3>3. Owing("inc", w)' = Owing("inc", w) /\ Owing("dec", w)' = Owing("dec", w) \ {t}
      BY <2>1, <1>6
    <3>4. Cardinality(Owing("dec", w)') = Cardinality(Owing("dec", w)) - 1
      BY <2>2, <3>3
    <3>5. rc'[w] = Cardinality(holds[w]) + Self(w) + Upheld(w)
                   + Cardinality(Owing("dec", w)') - Cardinality(Owing("inc", w)')
      BY <3>2, <3>3, <3>4, <1>8, RcTerms
    <3>6. QED
      BY <3>1, <3>2, <3>5, <1>9
  <2>5. QED
    BY <2>3, <2>4
<1>12. QED
  BY <1>1, <1>10, <1>11

(* Unregistering the wrapper that is being cleared.                        *)
LEMMA ClearUnregisterInv ==
  ASSUME IInv, NEW t \in Threads, ClearUnregister(t)
  PROVE  IInv'
<1> USE DEF IInv, ClearUnregister
<1>1. PICK w \in Wrappers : w = cur[t] /\ qdata = w /\ stage[w] = "dying" /\ w # NoWrapper
  BY ConstantsAssumption DEF CurOK
<1>2. /\ \A x \in Wrappers : stage[x] # "live"
      /\ \A x \in Wrappers : stage[x] = "dying" /\ x \in dict => x = w
      /\ toggle \in {w, NoWrapper} /\ (w \notin dict => toggle = NoWrapper)
  BY <1>1 DEF WrapperOK, QdataOK
<1>3. /\ UNCHANGED <<gref, floating, native, wrapVars, cur, note, ending>>
      /\ qdata' = NoWrapper /\ toggle' = NoWrapper
      /\ pc'[t] = IF w \in dict THEN "remove" ELSE "unref"
      /\ \A u \in Threads : u # t => pc'[u] = pc[u]
      /\ gil' = IF w \in dict THEN t ELSE NoThread
  BY <1>1, <1>2 DEF TypeOK
<1>4. \A u \in Threads : note[u] = Quiet
  BY <1>2 DEF NoteOK
<1>5. TypeOK'
  <2>1. pc' \in [Threads -> PCs]
    BY DEF TypeOK, PCs
  <2>2. QED
    BY <2>1 DEF TypeOK, wrapVars
<1>6. \A u \in Threads : u # t => pc[u] \in {"run", "unref"}
  <2>1. \A u \in Threads : u # t => pc[u] # "callbacks"
    BY <1>1 DEF CurOK, ClearerOK
  <2>2. QED
    BY <1>1, <2>1 DEF TypeOK, GilOK, InGilSection, MakingOK, PCs
<1>7. GilOK'
  BY <1>3, ConstantsAssumption DEF GilOK, InGilSection
<1>8. CurOK' /\ EndingOK'
  BY <1>1, <1>3, <1>6 DEF CurOK, EndingOK, wrapVars
<1>9. ClearerOK' /\ MakingOK'
  BY <1>3, <1>6 DEF ClearerOK, MakingOK
<1>10. NoteOK'
  BY <1>4 DEF NoteOK, Quiet
<1>11. WrapperOK'
  BY <1>1, <1>3 DEF WrapperOK, wrapVars
<1>12. QdataOK' /\ RcOK'
  BY <1>2, <1>3 DEF QdataOK, RcOK, wrapVars
<1>13. RefsBacked'
  <2>1. Owning' = Owning /\ Switching' = Switching
    BY <1>3 DEF Owning, Switching, wrapVars
  <2>2. QED
    BY <2>1 DEF RefsBacked, Owned
<1>14. QED
  BY <1>5, <1>7, <1>8, <1>9, <1>10, <1>11, <1>12, <1>13

(* Removing the toggle reference takes the last reference there is.        *)
LEMMA ClearRemoveToggleInv ==
  ASSUME IInv, NEW t \in Threads, ClearRemoveToggle(t)
  PROVE  IInv' /\ gref' = 0
<1> USE DEF IInv, ClearRemoveToggle, FreeWrapper
<1>1. PICK w \in Wrappers : /\ w = cur[t] /\ w \in dict /\ stage[w] = "dying" /\ w \in Owning
                            /\ toggle = NoWrapper /\ qdata \in {w, NoWrapper} /\ gref = 1
  BY DEF CurOK, WrapperOK, Owning
<1>3. native = {} /\ Owning = {w}
  <2>1. native = {}
    BY <1>1, TwoOwners
  <2>2. \A x \in Owning : x = w
    BY <1>1, TwoOwners
  <2>3. QED
    BY <1>1, <2>1, <2>2
<1>4. \A x \in Wrappers : stage[x] # "live" /\ stage'[x] \in {"free", "unreffed"}
  <2>1. \A x \in Wrappers : x # w => stage[x] \in {"free", "unreffed"}
    BY <1>3 DEF Owning, TypeOK
  <2>2. QED
    BY <1>1, <2>1 DEF TypeOK
<1>5. \A u \in Threads : note[u] = Quiet
  BY <1>1 DEF NoteOK
<1>6. TypeOK'
  BY <1>1 DEF TypeOK, PCs
<1>7. GilOK'
  BY ConstantsAssumption DEF TypeOK, GilOK, InGilSection
<1>8. \A u \in Threads : pc'[u] = "run"
  <2>1. \A u \in Threads : pc[u] # "run" => u = t
    <3>1. ASSUME NEW u \in Threads, pc[u] # "run"
          PROVE  cur[u] = w /\ pc[u] # "making"
      <4>1. pc[u] # "making"
        BY <1>3 DEF MakingOK
      <4>2. cur[u] \in Wrappers /\ stage[cur[u]] \in {"live", "dying"}
        BY <3>1, <4>1 DEF CurOK, TypeOK, PCs
      <4>3. QED
        BY <4>1, <4>2, <1>3 DEF Owning
    <3>2. QED
      BY <3>1 DEF ClearerOK
  <2>2. QED
    BY <2>1 DEF TypeOK
<1>9. CurOK' /\ MakingOK' /\ ClearerOK'
  BY <1>8 DEF CurOK, MakingOK, ClearerOK
<1>10. EndingOK'
  BY <1>1 DEF EndingOK
<1>11. NoteOK'
  BY <1>5 DEF NoteOK
<1>12. WrapperOK'
  BY <1>4 DEF WrapperOK
<1>13. QdataOK'
  <2>1. qdata = NoWrapper
    BY <1>1, <1>8 DEF QdataOK, TypeOK
  <2>2. QED
    BY <1>1, <2>1 DEF QdataOK
<1>a. RcOK'
  BY <1>4 DEF RcOK
<1>14. RefsBacked' /\ gref' = 0
  <2>1. Owning' = {} /\ Switching' = {} /\ native' = {}
    BY <1>3, <1>4, <1>8 DEF Owning, Switching
  <2>2. Cardinality({}) = 0
    BY FS_EmptySet
  <2>3. QED
    BY <1>1, <2>1, <2>2 DEF RefsBacked, Owned
<1>15. QED
  BY <1>6, <1>7, <1>9, <1>10, <1>11, <1>12, <1>13, <1>a, <1>14

(* Giving back the memory of a wrapper that has dropped its reference.     *)
LEMMA ClearEndInv ==
  ASSUME IInv, NEW t \in Threads, ClearEnd(t)
  PROVE  IInv'
<1> USE DEF IInv, ClearEnd, FreeWrapper
<1>1. PICK w \in Wrappers : w = ending[t] /\ stage[w] = "unreffed" /\ w \notin dict
  BY DEF EndingOK, TypeOK
<1>4. TypeOK'
  BY DEF TypeOK, refVars
<1>5. GilOK' /\ NoteOK'
  BY <1>1 DEF GilOK, NoteOK, refVars
<1>6. CurOK' /\ MakingOK' /\ ClearerOK'
  BY <1>1 DEF TypeOK, CurOK, MakingOK, ClearerOK, refVars
<1>7. EndingOK'
  BY DEF EndingOK, ClearerOK, TypeOK
<1>8. WrapperOK'
  BY <1>1 DEF WrapperOK, refVars
<1>9. QdataOK'
  BY <1>1 DEF QdataOK, refVars
<1>10. RcOK'
  BY <1>1 DEF RcOK, Self, Upheld, Owing, refVars
<1>11. RefsBacked'
  <2>1. Owning' = Owning /\ Switching' = Switching
    BY <1>1 DEF Owning, Switching
  <2>2. QED
    BY <2>1 DEF RefsBacked, Owned, refVars
<1>12. QED
  BY <1>4, <1>5, <1>6, <1>7, <1>8, <1>9, <1>10, <1>11

-----------------------------------------------------------------------------
(* Every step keeps the invariant.                                         *)
LEMMA StepInv == Orderly /\ IInv /\ [Next]_vars => IInv'
<1> SUFFICES ASSUME Orderly, IInv, [Next]_vars PROVE IInv'
  OBVIOUS
<1>1. CASE Next
  <2>1. PICK t \in Threads :
          \/ NativeNew(t) \/ NativeSink(t)
          \/ \E w \in Wrappers, b \in BOOLEAN : Construct(t, w, b)
          \/ WrapExisting(t) \/ WrapStart(t)
          \/ \E w \in Wrappers : WrapRegister(t, w)
          \/ \E w \in Wrappers : GetDict(t, w)
          \/ \E w \in Wrappers, b \in BOOLEAN : SetAttr(t, w, b)
          \/ SwitchUnref(t) \/ SetAttrRecheck(t)
          \/ \E w \in Wrappers : StoreSelf(t, w)
          \/ \E u \in Threads, w \in Wrappers : Share(t, u, w)
          \/ \E w \in Wrappers : Drop(t, w)
          \/ \E w \in Wrappers : CollectCycle(t, w)
          \/ NativeRef(t) \/ NativeUnref(t)
          \/ \E u \in Threads : NativePass(t, u)
          \/ ToggleNotify(t)
          \/ CallbacksEnd(t) \/ ClearUnregister(t) \/ ClearRemoveToggle(t)
          \/ ClearUnref(t) \/ ClearEnd(t)
    BY <1>1 DEF Next
  <2>2. CASE NativeNew(t) \/ NativeSink(t) \/ NativeRef(t) \/ NativeUnref(t)
             \/ \E u \in Threads : NativePass(t, u)
    BY <2>2, NativeNewInv, NativeSinkInv, NativeRefInv, NativeUnrefInv, NativePassInv
  <2>3. CASE \/ \E w \in Wrappers, b \in BOOLEAN : Construct(t, w, b)
             \/ WrapExisting(t) \/ WrapStart(t)
             \/ \E w \in Wrappers : WrapRegister(t, w)
    BY <2>3, ConstructInv, WrapExistingInv, WrapStartInv, WrapRegisterInv
  <2>4. CASE \/ \E w \in Wrappers : GetDict(t, w)
             \/ \E w \in Wrappers, b \in BOOLEAN : SetAttr(t, w, b)
             \/ SwitchUnref(t) \/ SetAttrRecheck(t)
    BY <2>4, GetDictInv, SetAttrInv, SwitchUnrefInv, SetAttrRecheckInv
  <2>5. CASE \/ \E w \in Wrappers : StoreSelf(t, w)
             \/ \E u \in Threads, w \in Wrappers : Share(t, u, w)
             \/ \E w \in Wrappers : Drop(t, w)
             \/ \E w \in Wrappers : CollectCycle(t, w)
    BY <2>5, StoreSelfInv, ShareInv, DropInv, CollectCycleInv
  <2>6. CASE ToggleNotify(t) \/ CallbacksEnd(t) \/ ClearUnregister(t)
             \/ ClearRemoveToggle(t) \/ ClearUnref(t) \/ ClearEnd(t)
    BY <2>6, ToggleNotifyInv, CallbacksEndInv, ClearUnregisterInv, ClearRemoveToggleInv, ClearUnrefInv,
       ClearEndInv
  <2>7. QED
    BY <2>1, <2>2, <2>3, <2>4, <2>5, <2>6
<1>2. CASE UNCHANGED vars
  BY <1>2 DEF vars, refVars, wrapVars, thrVars, IInv, TypeOK, GilOK, CurOK, MakingOK, ClearerOK,
     EndingOK, NoteOK, WrapperOK, QdataOK, RcOK, Self, Upheld, Owing, RefsBacked, Owned,
     Owning, Switching
<1>3. QED
  BY <1>1, <1>2

(* The inductive invariant, of which the safety properties are consequences. *)
THEOREM Invariance == Orderly => (Spec => []IInv)
<1> SUFFICES ASSUME Orderly PROVE Spec => []IInv
  OBVIOUS
<1>1. Init => IInv
  BY InitInv
<1>2. IInv /\ [Next]_vars => IInv'
  BY StepInv
<1>3. QED
  BY <1>1, <1>2, PTL DEF Spec

(* Every variable keeps its type; above all, ref_count, which every clear and
   every switch lowers, never goes below zero.                             *)
THEOREM TypeCorrect == Orderly => (Spec => []TypeOK)
<1> SUFFICES ASSUME Orderly PROVE Spec => []TypeOK
  OBVIOUS
<1>1. IInv => TypeOK
  BY DEF IInv
<1>2. QED
  BY <1>1, Invariance, PTL

(* ref_count covers native code and every wrapper that has not dropped its
   reference: pygobject_clear and the switch to a toggle reference never
   take what is not theirs (pygobject.c:586-601, 1081-1098).               *)
THEOREM ReferencesBacked == Orderly => (Spec => []RefsBacked)
<1> SUFFICES ASSUME Orderly PROVE Spec => []RefsBacked
  OBVIOUS
<1>1. IInv => RefsBacked
  BY DEF IInv
<1>2. QED
  BY <1>1, Invariance, PTL

(* A wrapper in a Python frame is registered and not being cleared.        *)
THEOREM HeldWrappersLive == Orderly => (Spec => []HeldIsLive)
<1> SUFFICES ASSUME Orderly PROVE Spec => []HeldIsLive
  OBVIOUS
<1>1. IInv => HeldIsLive
  BY DEF IInv, WrapperOK, HeldIsLive
<1>2. QED
  BY <1>1, Invariance, PTL

(* pyg_toggle_notify never runs on a wrapper that is not there any more
   (pygobject.c:565-578).                                                  *)
THEOREM NotificationsLive == Orderly => (Spec => []NotifyLive)
<1> SUFFICES ASSUME Orderly PROVE Spec => []NotifyLive
  OBVIOUS
<1>1. IInv => NotifyLive
  BY DEF IInv, NoteOK, NotifyLive
<1>2. QED
  BY <1>1, Invariance, PTL

(* Wrappers in use, by Python code or by a notification, are alive
   (pygobject.c:565-578, 1081-1098).                                       *)
THEOREM WrappersInUseLive == Orderly => (Spec => []InUseLive)
<1> SUFFICES ASSUME Orderly PROVE Spec => []InUseLive
  OBVIOUS
<1>1. HeldIsLive /\ NotifyLive => InUseLive
  BY DEF InUseLive
<1>2. QED
  BY <1>1, HeldWrappersLive, NotificationsLive, PTL

(* A GObject never has two live wrappers (pygobject.c:914-960).            *)
THEOREM SingleWrapper == Orderly => (Spec => []OneWrapper)
<1> SUFFICES ASSUME Orderly PROVE Spec => []OneWrapper
  OBVIOUS
<1>1. IInv => OneWrapper
  BY DEF IInv, WrapperOK, OneWrapper
<1>2. QED
  BY <1>1, Invariance, PTL

(* In between notifications GObject upholds the wrapper with instance state
   exactly while somebody else owns the GObject.                           *)
THEOREM BalancedToggle == Orderly => (Spec => []ToggleBalanced)
<1> SUFFICES ASSUME Orderly PROVE Spec => []ToggleBalanced
  OBVIOUS
<1>1. IInv => ToggleBalanced
  <2>1. SUFFICES ASSUME IInv, toggle # NoWrapper, gil = NoThread,
                        \A t \in Threads : note[t] = Quiet
                 PROVE  rc[toggle] = Cardinality(holds[toggle])
                                     + (IF toggle \in selfref THEN 1 ELSE 0)
                                     + (IF gref > 1 THEN 1 ELSE 0)
    BY DEF ToggleBalanced
  <2>2. toggle \in Wrappers /\ toggle \in dict /\ stage[toggle] \in {"live", "dying"} /\ qdata = toggle
    BY <2>1 DEF IInv, QdataOK, TypeOK
  <2>a. CASE stage[toggle] = "dying"
    <3>1. PICK t \in Threads : pc[t] = "callbacks" /\ cur[t] = toggle
      BY <2>1, <2>2, <2>a, ConstantsAssumption DEF IInv, QdataOK, GilOK, InGilSection
    <3>2. rc[toggle] = 0 /\ toggle \notin selfref /\ holds[toggle] = {} /\ gref = 1
      BY <2>1, <2>2, <2>a, <3>1 DEF IInv, CurOK, WrapperOK
    <3>3. QED
      BY <3>2, FS_EmptySet
  <2>b. CASE stage[toggle] = "live"
    <3>3. Owing("dec", toggle) = {} /\ Owing("inc", toggle) = {}
      BY <2>1 DEF Owing, Quiet
    <3>4. Cardinality(Owing("dec", toggle)) = 0 /\ Cardinality(Owing("inc", toggle)) = 0
      BY <3>3, FS_EmptySet
    <3>5. rc[toggle] = Cardinality(holds[toggle]) + Self(toggle) + Upheld(toggle)
                       + Cardinality(Owing("dec", toggle)) - Cardinality(Owing("inc", toggle))
      BY <2>1, <2>2, <2>b DEF IInv, RcOK
    <3>6. QED
      BY <2>1, <2>2, <3>4, <3>5, RcTerms DEF Self, Upheld
  <2>c. QED
    BY <2>2, <2>a, <2>b
<1>2. QED
  BY <1>1, Invariance, PTL

(* Python attributes live as long as the GObject: the step that frees the
   wrapper with the instance dictionary is the one that finalizes it.      *)
THEOREM StateIsKept == Orderly => (Spec => StateKept)
<1> SUFFICES ASSUME Orderly PROVE Spec => StateKept
  OBVIOUS
<1>1. IInv /\ [Next]_vars =>
        [\A w \in Wrappers : (w \in dict /\ stage[w] = "dying" /\ stage'[w] = "free")
                               => gref' = 0]_vars
  <2> SUFFICES ASSUME IInv, [Next]_vars, NEW w \in Wrappers,
                      w \in dict, stage[w] = "dying", stage'[w] = "free"
               PROVE  gref' = 0
    OBVIOUS
  <2>1. CASE UNCHANGED vars
    BY <2>1 DEF vars, wrapVars
  <2>2. CASE Next
    <3>1. PICK t \in Threads :
            ClearRemoveToggle(t) \/ ClearEnd(t) \/ stage' = stage
            \/ \E x \in Wrappers, s \in {"live", "dying", "unreffed"} :
                 stage' = [stage EXCEPT ![x] = s]
      <4> DEFINE Moves == stage' = stage \/ \E x \in Wrappers, s \in {"live", "dying", "unreffed"} :
                                              stage' = [stage EXCEPT ![x] = s]
      <4>1. ASSUME NEW t \in Threads,
                   \/ NativeNew(t) \/ NativeSink(t) \/ WrapExisting(t) \/ WrapStart(t)
                   \/ CallbacksEnd(t) \/ SwitchUnref(t)
                   \/ SetAttrRecheck(t) \/ NativeRef(t) \/ NativeUnref(t) \/ ToggleNotify(t)
                   \/ ClearUnregister(t) \/ ClearUnref(t) \/ \E u \in Threads : NativePass(t, u)
            PROVE  Moves
        BY <4>1
        DEF NativeNew, NativeSink, WrapExisting, WrapStart, CallbacksEnd, SwitchUnref, SetAttrRecheck, NativeRef,
           NativeUnref, ToggleNotify, ClearUnregister, ClearUnref, NativePass, DecRef, StartClear,
           wrapVars, IInv, TypeOK
      <4>2. ASSUME NEW t \in Threads, NEW x \in Wrappers,
                   \/ WrapRegister(t, x) \/ GetDict(t, x) \/ StoreSelf(t, x) \/ Drop(t, x)
                   \/ CollectCycle(t, x) \/ \E u \in Threads : Share(t, u, x)
                   \/ \E b \in BOOLEAN : Construct(t, x, b) \/ SetAttr(t, x, b)
            PROVE  Moves
        BY <4>2
        DEF WrapRegister, GetDict, StoreSelf, Drop, CollectCycle, Share, Construct, SetAttr, DecRef,
           StartClear
      <4> HIDE DEF Moves
      <4>3. PICK t \in Threads : ClearRemoveToggle(t) \/ ClearEnd(t) \/ Moves
        BY <2>2, <4>1, <4>2 DEF Next
      <4> QED
        BY <4>3 DEF Moves
    <3>2. CASE ClearRemoveToggle(t)
      BY <3>2, ClearRemoveToggleInv
    <3>3. CASE ClearEnd(t)
      BY <3>3 DEF ClearEnd, FreeWrapper, IInv, EndingOK
    <3>4. CASE stage' = stage \/ \E x \in Wrappers, s \in {"live", "dying", "unreffed"} :
                                   stage' = [stage EXCEPT ![x] = s]
      BY <3>4 DEF IInv, TypeOK
    <3>5. QED
      BY <3>1, <3>2, <3>3, <3>4
  <2>3. QED
    BY <2>1, <2>2
<1>2. QED
  BY <1>1, Invariance, PTL DEF Spec, StateKept

-----------------------------------------------------------------------------
(* Refinement: the threads whose Python frames hold the GObject.           *)
Users == native \cup UNION {holds[w] : w \in Wrappers}

(* If at most one wrapper is held, its holders are the Python users.       *)
LEMMA OneHeld ==
  ASSUME NEW H, NEW w \in Wrappers, \A x \in Wrappers : x # w => H[x] = {}
  PROVE  UNION {H[x] : x \in Wrappers} = H[w]
OBVIOUS

(* The users of a GObject with a live wrapper, and of one without.         *)
LEMMA UsersAre ==
  ASSUME IInv
  PROVE  /\ \A w \in Wrappers : stage[w] = "live" => Users = native \cup holds[w]
         /\ (\A w \in Wrappers : stage[w] # "live") => Users = native
         /\ Users # {} => gref > 0
         /\ \A w \in Wrappers : holds[w] # {} => stage[w] = "live"
         /\ \A w, x \in Wrappers : stage[w] = "live" /\ stage[x] = "live" => x = w
<1>1. \A w, x \in Wrappers : stage[w] = "live" /\ stage[x] = "live" => x = w
  BY DEF IInv, WrapperOK
<1>2. \A x \in Wrappers : stage[x] # "live" => holds[x] = {}
  BY DEF IInv, WrapperOK
<1>3. \A w \in Wrappers : stage[w] = "live" => Users = native \cup holds[w]
  BY <1>1, <1>2 DEF Users
<1>4. (\A w \in Wrappers : stage[w] # "live") => Users = native
  BY <1>2 DEF Users
<1>5. native # {} => gref > 0
  BY Sizes DEF IInv, TypeOK
<1>6. \A w \in Wrappers : stage[w] = "live" => gref > 0
  BY DEF IInv, WrapperOK
<1>7. QED
  BY <1>1, <1>2, <1>3, <1>4, <1>5, <1>6

(* Every step is one of the abstract specification's, or a stutter.        *)
LEMMA StepRefines ==
  ASSUME IInv, IInv', [Next]_vars
  PROVE  [Lifetime!Next]_(Lifetime!vars)
<1> DEFINE AStep == \/ Lifetime!Next
                    \/ UNCHANGED <<gref > 0, Users, dict # {}>>
<1>1. SUFFICES AStep
  BY DEF Lifetime!vars, Users
<1>2. CASE UNCHANGED vars
  BY <1>2 DEF vars, refVars, wrapVars, Users
<1>3. CASE \E t \in Threads : \/ NativeNew(t)
                              \/ \E w \in Wrappers, b \in BOOLEAN : Construct(t, w, b)
  <2>1. PICK t \in Threads : \/ NativeNew(t)
                             \/ \E w \in Wrappers, b \in BOOLEAN : Construct(t, w, b)
    BY <1>3
  <2>2. Users = {} /\ ~(gref > 0)
    BY <2>1, UsersAre DEF NativeNew, Construct, NoObject
  <2>3. Users' = {t} /\ gref' > 0
    <3>1. CASE NativeNew(t)
      <4>1. holds' = holds /\ native' = {t} /\ gref' = 1
        BY <3>1 DEF NativeNew, wrapVars
      <4>2. QED
        BY <4>1, <2>2 DEF Users
    <3>2. CASE \E w \in Wrappers, b \in BOOLEAN : Construct(t, w, b)
      <4>1. PICK w \in Wrappers, b \in BOOLEAN : Construct(t, w, b)
        BY <3>2
      <4>2. native' = {} /\ holds' = [holds EXCEPT ![w] = {t}] /\ gref' > 0
        BY <4>1, <2>2 DEF Construct, Users, SinkRefs
      <4>3. \A x \in Wrappers : holds[x] = {}
        BY <2>2 DEF Users
      <4>4. holds'[w] = {t} /\ \A x \in Wrappers : x # w => holds'[x] = {}
        BY <4>2, <4>3 DEF IInv, TypeOK
      <4>5. UNION {holds'[x] : x \in Wrappers} = {t}
        BY <4>4
      <4>6. QED
        BY <4>2, <4>5 DEF Users
    <3>3. QED
      BY <2>1, <3>1, <3>2
  <2>4. Lifetime!Create(t)
    BY <2>2, <2>3 DEF Lifetime!Create, Users
  <2>5. QED
    BY <2>4 DEF Lifetime!Next
<1>4. CASE \E t \in Threads : \/ NativeSink(t) \/ SetAttrRecheck(t) \/ ToggleNotify(t)
                              \/ ClearUnregister(t) \/ SwitchUnref(t) \/ ClearEnd(t)
                              \/ \E w \in Wrappers : StoreSelf(t, w) \/ CollectCycle(t, w)
  <2>1. UNCHANGED <<native, holds, dict>>
    <3>1. CASE \E t \in Threads : ClearEnd(t)
      BY <3>1 DEF ClearEnd, FreeWrapper, refVars, IInv, EndingOK
    <3>2. CASE \E t \in Threads : \/ NativeSink(t) \/ SetAttrRecheck(t) \/ ToggleNotify(t)
                                  \/ ClearUnregister(t) \/ SwitchUnref(t)
                                  \/ \E w \in Wrappers : StoreSelf(t, w) \/ CollectCycle(t, w)
      BY <3>2 DEF NativeSink, SetAttrRecheck, ToggleNotify, ClearUnregister, SwitchUnref,
         StoreSelf, CollectCycle, refVars, wrapVars
    <3>3. QED
      BY <1>4, <3>1, <3>2
  <2>2. (gref > 0)' = (gref > 0)
    <3>1. CASE gref' = gref
      BY <3>1
    <3>2. CASE \E t \in Threads : SetAttrRecheck(t) \/ SwitchUnref(t)
      BY <3>2 DEF SetAttrRecheck, SwitchUnref, IInv, CurOK, WrapperOK
    <3>3. QED
      BY <1>4, <3>2
      DEF NativeSink, ToggleNotify, ClearUnregister, ClearEnd, StoreSelf, CollectCycle, refVars
  <2>3. QED
    BY <2>1, <2>2 DEF Users
<1>5. CASE \E t \in Threads : \/ WrapExisting(t) \/ NativeRef(t)
                              \/ \E w \in Wrappers : WrapRegister(t, w)
  <2>1. PICK t \in Threads : \/ WrapExisting(t) \/ NativeRef(t)
                             \/ \E w \in Wrappers : WrapRegister(t, w)
    BY <1>5
  <2>2. Users # {} /\ Users' = Users \cup {t} /\ dict' = dict /\ gref' > 0
    <3>1. CASE NativeRef(t)
      BY <3>1 DEF NativeRef, wrapVars, Users, IInv, TypeOK
    <3>2. CASE WrapExisting(t)
      <4>1. qdata \in Wrappers /\ stage' = stage /\ gref' = gref /\ native' = native
        BY <3>2 DEF WrapExisting, refVars, IInv, TypeOK
      <4>2. \A x \in Wrappers : holds'[x] = IF x = qdata THEN holds[x] \cup {t} ELSE holds[x]
        BY <3>2 DEF WrapExisting, IInv, TypeOK
      <4>3. Users' = Users \cup {t}
        BY <4>1, <4>2 DEF Users
      <4>4. QED
        BY <3>2, <4>1, <4>3, UsersAre DEF WrapExisting, Reachable
    <3>3. CASE \E w \in Wrappers : WrapRegister(t, w)
      <4>1. PICK w \in Wrappers : WrapRegister(t, w)
        BY <3>3
      <4>2. holds[w] = {} /\ t \in native /\ native' = native /\ gref' > 0
        BY <4>1, Sizes DEF WrapRegister, WrapRefs, SinkRefs, IInv, TypeOK, WrapperOK, MakingOK
      <4>5. QED
        BY <4>1, <4>2 DEF WrapRegister, Users
    <3>4. QED
      BY <2>1, <3>1, <3>2, <3>3
  <2>3. Lifetime!Share(t)
    BY <2>2, UsersAre DEF Lifetime!Share, Users
  <2>4. QED
    BY <2>3 DEF Lifetime!Next
<1>6. CASE \E t \in Threads, w \in Wrappers :
             GetDict(t, w) \/ \E b \in BOOLEAN : SetAttr(t, w, b)
  <2>1. PICK t \in Threads, w \in Wrappers :
               GetDict(t, w) \/ \E b \in BOOLEAN : SetAttr(t, w, b)
    BY <1>6
  <2>2. t \in Users /\ Users' = Users /\ dict' = dict \cup {w} /\ t \in holds[w]
    BY <2>1 DEF GetDict, SetAttr, Users
  <2>3. gref > 0 /\ gref' > 0
    BY <2>1, UsersAre DEF GetDict, SetAttr, SwitchToToggleRef, IInv, TypeOK
  <2>4. Lifetime!Store(t)
    BY <2>2, <2>3 DEF Lifetime!Store, Users
  <2>5. QED
    BY <2>4 DEF Lifetime!Next
<1>7. CASE \E t, u \in Threads : \/ NativePass(t, u)
                                 \/ \E w \in Wrappers : Share(t, u, w)
  <2>1. PICK t \in Threads, u \in Threads : \/ NativePass(t, u)
                                            \/ \E w \in Wrappers : Share(t, u, w)
    BY <1>7
  <2>2. t \in Users /\ Users' \in {Users \cup {u}, (Users \ {t}) \cup {u}}
        /\ UNCHANGED <<gref, dict>>
    <3>1. CASE NativePass(t, u)
      BY <3>1 DEF NativePass, wrapVars, Users
    <3>2. CASE \E w \in Wrappers : Share(t, u, w)
      <4>1. PICK w \in Wrappers : Share(t, u, w)
        BY <3>2
      <4>2. \A x \in Wrappers : holds'[x] = IF x = w THEN holds[x] \cup {u} ELSE holds[x]
        BY <4>1 DEF Share, IInv, TypeOK
      <4>3. QED
        BY <4>1, <4>2 DEF Share, refVars, Users
    <3>3. QED
      BY <2>1, <3>1, <3>2
  <2>3. Lifetime!Pass(t, u)
    BY <2>2 DEF Lifetime!Pass, Users
  <2>4. QED
    BY <2>3 DEF Lifetime!Next
<1>8. CASE \E t \in Threads : NativeUnref(t) \/ \E w \in Wrappers : Drop(t, w)
  <2>1. PICK t \in Threads : NativeUnref(t) \/ \E w \in Wrappers : Drop(t, w)
    BY <1>8
  <2>2. CASE NativeUnref(t)
    <3>1. t \in Users /\ native' = native \ {t} /\ UNCHANGED <<holds, dict, stage>> /\ gref' = gref - 1
      BY <2>2 DEF NativeUnref, Users, wrapVars
    <3>2. gref > 0
      BY <3>1, UsersAre
    <3>4. CASE gref' > 0
      <4>1. QED
        BY <3>1, <3>2, <3>4 DEF Lifetime!Next, Lifetime!Release, Users
    <3>5. CASE ~(gref' > 0)
      <4>1. gref = 1 /\ t \in native
        BY <2>2, <3>5 DEF NativeUnref, IInv, TypeOK
      <4>2. Owning = {} /\ Cardinality(native) = 1
        BY <4>1, Sizes DEF IInv, TypeOK
      <4>3. \A w \in Wrappers : stage[w] \in {"free", "unreffed"}
        BY <4>2 DEF Owning, IInv, TypeOK
      <4>4. dict = {} /\ Users = native
        BY <4>3, UsersAre DEF IInv, TypeOK, WrapperOK
      <4>5. native \ {t} = {}
        <5>1. native \in SUBSET Threads
          BY Sizes
        <5>2. Cardinality(native \ {t}) = 0 /\ IsFiniteSet(native \ {t})
          BY <4>1, <4>2, <5>1, Finite
        <5>3. QED
          BY <5>2, FS_EmptySet
      <4>6. Users' = {}
        <5>1. \A x \in Wrappers : holds[x] = {}
          BY <4>3, UsersAre
        <5>2. QED
          BY <3>1, <4>5, <5>1 DEF Users
      <4>7. QED
        BY <3>1, <3>2, <4>4, <4>6 DEF Lifetime!Next, Lifetime!Release, Users
    <3>6. QED
      BY <3>4, <3>5
  <2>3. CASE \E w \in Wrappers : Drop(t, w)
    <3>1. PICK w \in Wrappers : Drop(t, w)
      BY <2>3
    <3>2. t \in Users /\ UNCHANGED <<gref, native, dict>> /\ stage[w] = "live"
      BY <3>1, UsersAre DEF Drop, refVars
    <3>3. Users' = Users \ {t} \/ Users' = Users
      <4>1. holds'[w] = holds[w] \ {t} /\ \A x \in Wrappers : x # w => holds'[x] = holds[x]
        BY <3>1 DEF Drop, IInv, TypeOK
      <4>2. \A x \in Wrappers : x # w => holds'[x] = {}
        BY <3>2, <4>1, UsersAre
      <4>3. UNION {holds'[x] : x \in Wrappers} = holds'[w]
        BY <4>2
      <4>4. Users' = native \cup (holds[w] \ {t}) /\ Users = native \cup holds[w]
        BY <3>2, <4>1, <4>3 DEF Users
      <4>5. QED
        BY <4>4
    <3>4. QED
      BY <3>2, <3>3 DEF Lifetime!Next, Lifetime!Release, Users
  <2>4. QED
    BY <2>1, <2>2, <2>3
<1>9. CASE \E t \in Threads : ClearRemoveToggle(t) \/ ClearUnref(t)
  <2>1. PICK t \in Threads : ClearRemoveToggle(t) \/ ClearUnref(t)
    BY <1>9
  <2>2. PICK w \in Wrappers : /\ w = cur[t] /\ stage[w] = "dying" /\ w \in Owning
                              /\ gref' = gref - 1 /\ UNCHANGED <<native, holds>>
                              /\ dict' \in {dict, dict \ {w}}
    BY <2>1 DEF ClearRemoveToggle, ClearUnref, FreeWrapper, IInv, CurOK, Owning
  <2>3. gref > 0 /\ Users' = Users
    BY <2>2 DEF IInv, TypeOK, Users
  <2>4. CASE gref' > 0
    <3>1. ClearUnref(t)
      BY <2>1, <2>4, ClearRemoveToggleInv
    <3>2. QED
      BY <2>3, <2>4, <3>1 DEF ClearUnref
  <2>5. CASE ~(gref' > 0)
    <3>1. gref = 1 /\ gref' = 0
      BY <2>2, <2>5 DEF IInv, TypeOK
    <3>2. native = {} /\ \A x \in Owning : x = w
      BY <2>2, <3>1, TwoOwners
    <3>3. \A x \in Wrappers : x # w => stage[x] \in {"free", "unreffed"}
      BY <3>2 DEF Owning, IInv, TypeOK
    <3>4. Users = {}
      BY <2>2, <3>2, <3>3, UsersAre
    <3>5. dict \in SUBSET {w}
      BY <3>3 DEF IInv, TypeOK, WrapperOK
    <3>6. dict' = {}
      BY <2>1, <2>2, <3>5 DEF ClearRemoveToggle, ClearUnref, FreeWrapper, IInv, CurOK
    <3>7. Lifetime!Reclaim
      BY <2>3, <3>1, <3>4, <3>6 DEF Lifetime!Reclaim, Users
    <3>8. QED
      BY <3>7 DEF Lifetime!Next
  <2>6. QED
    BY <2>4, <2>5
<1>10. CASE \E t \in Threads : WrapStart(t) \/ CallbacksEnd(t)
  BY <1>10 DEF WrapStart, CallbacksEnd, refVars, wrapVars, Users
<1>11. QED
  BY <1>2, <1>3, <1>4, <1>5, <1>6, <1>7, <1>8, <1>9, <1>10 DEF Next

(* The wrappers implement GObjectLifetime: the GObject and the attributes
   Python code gave it live as long as anybody uses it.                    *)
THEOREM Refinement == Orderly => (Spec => KeepsLifetime)
<1> SUFFICES ASSUME Orderly PROVE Spec => KeepsLifetime
  OBVIOUS
<1>1. Init => Lifetime!Init
  BY DEF Init, Lifetime!Init
<1>2. IInv /\ IInv' /\ [Next]_vars => [Lifetime!Next]_(Lifetime!vars)
  BY StepRefines
<1>3. QED
  BY <1>1, <1>2, Invariance, PTL DEF Spec, Lifetime!Spec, KeepsLifetime

-----------------------------------------------------------------------------
(* A type whose objects pygobject_sink adds no reference to                *)
NeverAdds == \A floats \in BOOLEAN : SinkRefs(floats) = 0

(* The wrapper that pygobject_setattro looks at again has been switched.   *)
LEMMA RecheckFlagged ==
  ASSUME IInv, NEW t \in Threads, pc[t] = "recheck"
  PROVE  cur[t] \in flag
<1>1. cur[t] \in Wrappers /\ toggle = cur[t] /\ toggle # NoWrapper
  BY ConstantsAssumption DEF IInv, CurOK
<1>2. QED
  BY <1>1 DEF IInv, QdataOK, WrapperOK

(* Who owns the GObject, and how many references there are, move together. *)
LEMMA StepExact ==
  ASSUME IInv, NoSurplus, NeverAdds, Next
  PROVE  NoSurplus'
<1> USE DEF NoSurplus, Owned
<1>0. /\ Cardinality(native) \in Nat /\ Cardinality(Owning) \in Nat /\ Cardinality(Switching) \in Nat
      /\ native \in SUBSET Threads /\ Owning \in SUBSET Wrappers /\ Switching \in SUBSET Threads
      /\ gref \in Nat /\ Cardinality({}) = 0
  BY Sizes, Finite
<1>1. CASE \E t \in Threads : \/ NativeSink(t) \/ WrapExisting(t) \/ ToggleNotify(t)
                              \/ ClearUnregister(t) \/ SetAttrRecheck(t) \/ ClearEnd(t)
                              \/ \E w \in Wrappers : \/ StoreSelf(t, w) \/ Drop(t, w)
                                                     \/ CollectCycle(t, w)
                                                     \/ \E u \in Threads : Share(t, u, w)
  <2>1. PICK t \in Threads : \/ NativeSink(t) \/ WrapExisting(t) \/ ToggleNotify(t)
                             \/ ClearUnregister(t) \/ SetAttrRecheck(t) \/ ClearEnd(t)
                             \/ \E w \in Wrappers : \/ StoreSelf(t, w) \/ Drop(t, w)
                                                    \/ CollectCycle(t, w)
                                                    \/ \E u \in Threads : Share(t, u, w)
    BY <1>1
  <2>2. UNCHANGED <<gref, native>>
    <3>1. CASE SetAttrRecheck(t)
      BY <3>1, RecheckFlagged DEF SetAttrRecheck, SwitchToToggleRef
    <3>2. CASE \/ NativeSink(t) \/ WrapExisting(t) \/ ToggleNotify(t)
               \/ ClearUnregister(t) \/ ClearEnd(t)
               \/ \E w \in Wrappers : \/ StoreSelf(t, w) \/ Drop(t, w) \/ CollectCycle(t, w)
                                      \/ \E u \in Threads : Share(t, u, w)
      BY <3>2 DEF NativeSink, WrapExisting, ToggleNotify, ClearUnregister, ClearEnd,
         StoreSelf, Drop, CollectCycle, Share, refVars
    <3>3. QED
      BY <2>1, <3>1, <3>2
  <2>3. \A x \in Wrappers : stage'[x] \in {"live", "dying"} <=> stage[x] \in {"live", "dying"}
    <3>1. CASE ToggleNotify(t)
      BY <3>1 DEF ToggleNotify, DecRef, StartClear, IInv, NoteOK, TypeOK
    <3>2. CASE ClearEnd(t)
      BY <3>2 DEF ClearEnd, FreeWrapper, IInv, EndingOK
    <3>3. CASE \E w \in Wrappers : Drop(t, w) \/ CollectCycle(t, w)
      BY <3>3 DEF Drop, CollectCycle, DecRef, StartClear, IInv, WrapperOK, TypeOK
    <3>4. CASE \/ NativeSink(t) \/ WrapExisting(t) \/ ClearUnregister(t) \/ SetAttrRecheck(t)
               \/ \E w \in Wrappers : StoreSelf(t, w) \/ \E u \in Threads : Share(t, u, w)
      BY <3>4 DEF NativeSink, WrapExisting, ClearUnregister, SetAttrRecheck, StoreSelf,
         Share, wrapVars
    <3>5. QED
      BY <2>1, <3>1, <3>2, <3>3, <3>4
  <2>4. \A u \in Threads : pc'[u] \in {"switch", "nested"} <=> pc[u] \in {"switch", "nested"}
    <3>1. CASE ToggleNotify(t)
      BY <3>1 DEF ToggleNotify, DecRef, StartClear, IInv, NoteOK, TypeOK
    <3>2. CASE SetAttrRecheck(t)
      <4>1. cur[t] \in flag
        BY <3>2, RecheckFlagged DEF SetAttrRecheck
      <4>2. QED
        BY <3>2, <4>1 DEF SetAttrRecheck, SwitchToToggleRef, IInv, TypeOK
    <3>3. CASE \E w \in Wrappers : Drop(t, w) \/ CollectCycle(t, w)
      BY <3>3 DEF Drop, CollectCycle, DecRef, StartClear, InPython, Running, IInv, TypeOK
    <3>4. CASE \/ NativeSink(t) \/ WrapExisting(t) \/ ClearUnregister(t) \/ ClearEnd(t)
               \/ \E w \in Wrappers : StoreSelf(t, w) \/ \E u \in Threads : Share(t, u, w)
      BY <3>4 DEF NativeSink, WrapExisting, ClearUnregister, ClearEnd, StoreSelf, Share,
         thrVars, IInv, TypeOK
    <3>5. QED
      BY <2>1, <3>1, <3>2, <3>3, <3>4
  <2>5. QED
    BY <2>2, <2>3, <2>4 DEF Owning, Switching
<1>2. CASE \E t \in Threads : \/ NativeNew(t)
                              \/ \E w \in Wrappers, b \in BOOLEAN : Construct(t, w, b)
  <2>1. PICK t \in Threads : \/ NativeNew(t)
                             \/ \E w \in Wrappers, b \in BOOLEAN : Construct(t, w, b)
    BY <1>2
  <2>2. gref = 0 /\ Owning = {} /\ \A x \in Wrappers : stage[x] = "free"
    BY <2>1 DEF NativeNew, Construct, NoObject, Owning
  <2>3. native = {} /\ Switching = {}
    <3>1. Cardinality(native) = 0 /\ Cardinality(Switching) = 0
      BY <2>2, <1>0
    <3>2. QED
      BY <3>1, Sizes
  <2>4. CASE NativeNew(t)
    <3>1. native' = {t} /\ Owning' = Owning /\ Switching' = Switching /\ gref' = 1
      BY <2>4 DEF NativeNew, Owning, Switching, wrapVars, thrVars
    <3>2. Cardinality({t}) = 1
      BY Finite
    <3>3. QED
      BY <1>0, <2>2, <3>1, <3>2
  <2>5. ASSUME NEW w \in Wrappers, NEW b \in BOOLEAN, Construct(t, w, b)
        PROVE  NoSurplus'
    <3>1. native' = {} /\ gref' = (IF b THEN 2 ELSE 1)
      BY <2>3, <2>5 DEF Construct, SinkRefs
    <3>2. Owning' = {w}
      BY <2>2, <2>5 DEF Construct, Owning, IInv, TypeOK
    <3>3. Switching' = IF b THEN {t} ELSE {}
      BY <2>3, <2>5 DEF Construct, Switching, IInv, TypeOK
    <3>4. Cardinality({w}) = 1 /\ Cardinality({t}) = 1
      BY Finite
    <3>5. QED
      BY <1>0, <3>1, <3>2, <3>3, <3>4
  <2>6. QED
    BY <2>1, <2>4, <2>5
<1>3. CASE \E t \in Threads : NativeRef(t) \/ NativeUnref(t)
  <2>1. PICK t \in Threads : NativeRef(t) \/ NativeUnref(t)
    BY <1>3
  <2>2. Owning' = Owning /\ Switching' = Switching
    BY <2>1 DEF NativeRef, NativeUnref, wrapVars, Owning, Switching
  <2>3. Cardinality(native') - Cardinality(native) = gref' - gref
    BY <2>1, <1>0, Finite DEF NativeRef, NativeUnref
  <2>4. Cardinality(native') \in Nat /\ gref' \in Int
    BY <2>1, <1>0, Finite DEF NativeRef, NativeUnref
  <2>5. QED
    BY <1>0, <2>2, <2>3, <2>4
<1>4. CASE \E t, u \in Threads : NativePass(t, u)
  <2>1. PICK t \in Threads, u \in Threads : NativePass(t, u)
    BY <1>4
  <2>2. Owning' = Owning /\ Switching' = Switching /\ gref' = gref
    BY <2>1 DEF NativePass, wrapVars, thrVars, Owning, Switching
  <2>3. Cardinality(native \ {t}) = Cardinality(native) - 1 /\ u \notin native \ {t}
    BY <2>1, <1>0, Finite DEF NativePass
  <2>4. Cardinality(native') = Cardinality(native)
    <3>1. native \ {t} \in SUBSET Threads
      BY <1>0
    <3>2. Cardinality((native \ {t}) \cup {u}) = Cardinality(native \ {t}) + 1
      BY <3>1, <2>3, Finite
    <3>3. QED
      BY <1>0, <2>1, <2>3, <3>2 DEF NativePass
  <2>5. QED
    BY <2>2, <2>4
<1>5. CASE \E t \in Threads, w \in Wrappers : WrapRegister(t, w)
  <2>1. PICK t \in Threads, w \in Wrappers : WrapRegister(t, w)
    BY <1>5
  <2>2. gref' = gref + 1 /\ native' = native /\ Switching' = Switching
    BY <2>1 DEF WrapRegister, WrapRefs, NeverAdds, IInv, TypeOK, Switching, thrVars
  <2>3. Owning' = Owning \cup {w} /\ w \notin Owning
    BY <2>1 DEF WrapRegister, Owning, IInv, TypeOK
  <2>4. Cardinality(Owning') = Cardinality(Owning) + 1
    BY <2>3, <1>0, Finite
  <2>5. QED
    BY <1>0, <2>2, <2>4
<1>6. CASE \E t \in Threads, w \in Wrappers :
             GetDict(t, w) \/ \E b \in BOOLEAN : SetAttr(t, w, b)
  <2>1. PICK t \in Threads, w \in Wrappers :
             GetDict(t, w) \/ \E b \in BOOLEAN : SetAttr(t, w, b)
    BY <1>6
  <2>2. w \notin flag /\ pc[t] = "run"
    BY <2>1, LiveWrapper DEF GetDict, SetAttr, InPython, Running, IInv, WrapperOK
  <2>3. gref' = gref + 1 /\ native' = native /\ Owning' = Owning
    BY <2>1, <2>2 DEF GetDict, SetAttr, SwitchToToggleRef, Owning
  <2>4. pc' = [pc EXCEPT ![t] = "switch"] \/ pc' = [pc EXCEPT ![t] = "nested"]
    BY <2>1, <2>2 DEF GetDict, SetAttr, SwitchToToggleRef
  <2>5. Switching' = Switching \cup {t} /\ t \notin Switching
    BY <2>2, <2>4 DEF Switching, IInv, TypeOK
  <2>6. Cardinality(Switching') = Cardinality(Switching) + 1
    BY <2>5, <1>0, Finite
  <2>7. QED
    BY <1>0, <2>3, <2>6
<1>7. CASE \E t \in Threads : SwitchUnref(t)
  <2>1. PICK t \in Threads : SwitchUnref(t)
    BY <1>7
  <2>2. gref' = gref - 1 /\ native' = native /\ Owning' = Owning
    BY <2>1 DEF SwitchUnref, Owning
  <2>3. Switching' = Switching \ {t} /\ t \in Switching
    BY <2>1 DEF SwitchUnref, Switching, IInv, TypeOK
  <2>4. Cardinality(Switching') = Cardinality(Switching) - 1
    BY <2>3, <1>0, Finite
  <2>5. QED
    BY <1>0, <2>2, <2>4
<1>8. CASE \E t \in Threads : ClearRemoveToggle(t) \/ ClearUnref(t)
  <2>1. PICK t \in Threads : ClearRemoveToggle(t) \/ ClearUnref(t)
    BY <1>8
  <2>2. PICK w \in Wrappers : w = cur[t] /\ stage[w] = "dying"
    BY <2>1 DEF ClearRemoveToggle, ClearUnref, IInv, CurOK
  <2>3. gref' = gref - 1 /\ native' = native
    BY <2>1 DEF ClearRemoveToggle, ClearUnref
  <2>4. Owning' = Owning \ {w} /\ w \in Owning
    BY <2>1, <2>2 DEF ClearRemoveToggle, ClearUnref, FreeWrapper, Owning, IInv, TypeOK
  <2>5. Switching' = Switching
    BY <2>1 DEF ClearRemoveToggle, ClearUnref, Switching, IInv, TypeOK
  <2>6. Cardinality(Owning') = Cardinality(Owning) - 1
    BY <2>4, <1>0, Finite
  <2>7. QED
    BY <1>0, <2>3, <2>5, <2>6
<1>9. CASE \E t \in Threads : WrapStart(t) \/ CallbacksEnd(t)
  <2>1. PICK t \in Threads : WrapStart(t) \/ CallbacksEnd(t)
    BY <1>9
  <2>2. pc[t] \in {"run", "callbacks"}
    BY <2>1 DEF WrapStart, CallbacksEnd, InPython, Running
  <2>3. UNCHANGED <<gref, native>> /\ Owning' = Owning /\ Switching' = Switching
    BY <2>1, <2>2 DEF WrapStart, CallbacksEnd, refVars, wrapVars, Owning, Switching, IInv, TypeOK
  <2>4. QED
    BY <2>3
<1>10. QED
  BY <1>1, <1>2, <1>3, <1>4, <1>5, <1>6, <1>7, <1>8, <1>9 DEF Next

(* No reference leaks: for every type but the initially unowned ones without
   a sink function, the references are exactly those that somebody owns,
   whatever the interleaving of rewraps, switches and clears.              *)
THEOREM Exact == Orderly /\ NeverAdds => (Spec => []NoSurplus)
<1> SUFFICES ASSUME Orderly, NeverAdds PROVE Spec => []NoSurplus
  OBVIOUS
<1>1. Init => NoSurplus
  <2>1. SUFFICES ASSUME Init PROVE NoSurplus
    OBVIOUS
  <2>2. Owning = {} /\ Switching = {} /\ native = {} /\ gref = 0
    BY <2>1 DEF Init, Owning, Switching
  <2>3. QED
    BY <2>2, FS_EmptySet DEF NoSurplus, Owned
<1>2. IInv /\ NoSurplus /\ [Next]_vars => NoSurplus'
  <2>1. SUFFICES ASSUME IInv, NoSurplus, UNCHANGED vars PROVE NoSurplus'
    BY StepExact
  <2>2. QED
    BY <2>1 DEF vars, refVars, wrapVars, thrVars, NoSurplus, Owned, Owning, Switching
<1>3. QED
  BY <1>1, <1>2, Invariance, PTL DEF Spec

=============================================================================
