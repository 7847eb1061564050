--------------------------- MODULE GilStateProofs ---------------------------
(***************************************************************************)
(* Proofs about GilState for any sets of threads and any depth of nesting, *)
(* when threads_init() is called outside of any bracket.                   *)
(***************************************************************************)
EXTENDS GilStateInv, FiniteSetTheorems, SequenceTheorems, TLAPS

(* The counted callbacks of a stack.                                       *)
EnsuredIn(s) == {i \in DOMAIN s : s[i].kind = "ensure" /\ s[i].marked}

(* The stack under the innermost frame.                                    *)
Below(s) == SubSeq(s, 1, Len(s) - 1)

(* What pushing a frame does to a stack.                                   *)
LEMMA PushFacts ==
  ASSUME NEW s \in Seq(Frames), NEW f \in Frames
  PROVE  /\ Append(s, f) \in Seq(Frames) /\ Append(s, f) # <<>>
         /\ Len(Append(s, f)) = Len(s) + 1
         /\ DOMAIN Append(s, f) = (DOMAIN s) \cup {Len(s) + 1}
         /\ \A i \in DOMAIN s : Append(s, f)[i] = s[i]
         /\ Append(s, f)[Len(s) + 1] = f
OBVIOUS

(* What popping the innermost frame does to a stack.                       *)
LEMMA PopFacts ==
  ASSUME NEW s \in Seq(Frames), s # <<>>
  PROVE  /\ Below(s) \in Seq(Frames)
         /\ Len(s) \in Nat \ {0} /\ s[Len(s)] \in Frames
         /\ Len(Below(s)) = Len(s) - 1
         /\ DOMAIN Below(s) = (DOMAIN s) \ {Len(s)}
         /\ \A i \in DOMAIN Below(s) : Below(s)[i] = s[i]
         /\ Below(s) = <<>> <=> Len(s) = 1
<1>1. Len(s) \in Nat \ {0} /\ s[Len(s)] \in Frames
  OBVIOUS
<1>3. /\ SubSeq(s, 1, Len(s) - 1) \in Seq(Frames)
      /\ Len(SubSeq(s, 1, Len(s) - 1)) = IF 1 <= Len(s) - 1 THEN (Len(s) - 1) - 1 + 1 ELSE 0
      /\ \A i \in 1..((Len(s) - 1) - 1 + 1) : SubSeq(s, 1, Len(s) - 1)[i] = s[1 + i - 1]
  <2>2. QED
    OBVIOUS
<1>4. Below(s) \in Seq(Frames) /\ Len(Below(s)) = Len(s) - 1
  <2>1. Below(s) \in Seq(Frames)
    BY <1>3, Zenon DEF Below
  <2>2. Len(Below(s)) = IF 1 <= Len(s) - 1 THEN (Len(s) - 1) - 1 + 1 ELSE 0
    BY <1>3, Zenon DEF Below
  <2>3. Len(Below(s)) = Len(s) - 1
    <3>1. CASE 1 <= Len(s) - 1
      <4>1. Len(Below(s)) = (Len(s) - 1) - 1 + 1
        BY <2>2, <3>1, Zenon
      <4>2. QED
        BY <4>1
    <3>2. CASE ~(1 <= Len(s) - 1)
      <4>1. Len(Below(s)) = 0
        BY <2>2, <3>2, Zenon
      <4>2. \A n \in Nat \ {0} : ~(1 <= n - 1) => n = 1
        OBVIOUS
      <4>3. Len(s) = 1
        BY <1>1, <3>2, <4>2, Zenon
      <4>4. QED
        BY <4>1, <4>3
    <3>3. QED
      BY <3>1, <3>2
  <2>4. QED
    BY <2>1, <2>3
<1>5. DOMAIN Below(s) = 1..(Len(s) - 1) /\ DOMAIN s = 1..Len(s)
  BY <1>4
<1>6. \A i \in DOMAIN Below(s) : Below(s)[i] = s[i]
  BY DEF Below
<1>7. DOMAIN Below(s) = (DOMAIN s) \ {Len(s)}
  BY <1>5
<1>9. QED
  BY <1>4, <1>6, <1>7

(* The number of counted callbacks, and how it moves.                      *)
LEMMA EnsuredFacts ==
  ASSUME NEW s \in Seq(Frames)
  PROVE  /\ IsFiniteSet(EnsuredIn(s)) /\ Cardinality(EnsuredIn(s)) \in Nat
         /\ EnsuredIn(s) # {} => Cardinality(EnsuredIn(s)) > 0
         /\ \A f \in Frames : Cardinality(EnsuredIn(Append(s, f))) =
              IF f.kind = "ensure" /\ f.marked THEN Cardinality(EnsuredIn(s)) + 1
                                               ELSE Cardinality(EnsuredIn(s))
         /\ s # <<>> => Cardinality(EnsuredIn(Below(s))) =
              IF s[Len(s)].kind = "ensure" /\ s[Len(s)].marked
              THEN Cardinality(EnsuredIn(s)) - 1 ELSE Cardinality(EnsuredIn(s))
<1>1. IsFiniteSet(1..Len(s))
  BY FS_Interval
<1>2. EnsuredIn(s) \subseteq 1..Len(s)
  BY DEF EnsuredIn
<1>3. IsFiniteSet(EnsuredIn(s)) /\ Cardinality(EnsuredIn(s)) \in Nat
  BY <1>1, <1>2, FS_Subset, FS_CardinalityType
<1>4. EnsuredIn(s) # {} => Cardinality(EnsuredIn(s)) > 0
  BY <1>3, FS_EmptySet
<1>5. ASSUME NEW f \in Frames
      PROVE  Cardinality(EnsuredIn(Append(s, f))) =
               IF f.kind = "ensure" /\ f.marked THEN Cardinality(EnsuredIn(s)) + 1
                                                ELSE Cardinality(EnsuredIn(s))
  <2>1. EnsuredIn(Append(s, f)) =
          IF f.kind = "ensure" /\ f.marked THEN EnsuredIn(s) \cup {Len(s) + 1}
                                           ELSE EnsuredIn(s)
    BY DEF EnsuredIn
  <2>2. Len(s) + 1 \notin EnsuredIn(s)
    BY <1>2
  <2>3. QED
    BY <1>3, <2>1, <2>2, FS_AddElement
<1>6. ASSUME s # <<>>
      PROVE  Cardinality(EnsuredIn(Below(s))) =
               IF s[Len(s)].kind = "ensure" /\ s[Len(s)].marked
               THEN Cardinality(EnsuredIn(s)) - 1 ELSE Cardinality(EnsuredIn(s))
  <2>1. EnsuredIn(Below(s)) = EnsuredIn(s) \ {Len(s)}
    BY <1>6, PopFacts DEF EnsuredIn
  <2>2. Len(s) \in EnsuredIn(s) <=> s[Len(s)].kind = "ensure" /\ s[Len(s)].marked
    BY <1>6 DEF EnsuredIn
  <2>3. CASE Len(s) \in EnsuredIn(s)
    BY <1>3, <2>1, <2>2, FS_RemoveElement
  <2>4. CASE Len(s) \notin EnsuredIn(s)
    <3>1. EnsuredIn(Below(s)) = EnsuredIn(s)
      BY <2>1, <2>4
    <3>2. QED
      BY <2>2, <2>4, <3>1
  <2>5. QED
    BY <2>3, <2>4
<1>7. QED
  BY <1>3, <1>4, <1>5, <1>6

(* Ensured is EnsuredIn of the thread's stack, in every state.             *)
LEMMA EnsuredIs ==
  ASSUME NEW t \in Threads
  PROVE  Ensured(t) = EnsuredIn(stack[t]) /\ Ensured(t)' = EnsuredIn(stack'[t])
BY DEF Ensured, EnsuredIn

(* The initial state satisfies the invariant.                              *)
LEMMA InitInv == Init => Inv
<1> SUFFICES ASSUME Init PROVE Inv
  OBVIOUS
<1> USE GilAssumption
<1>1. TypeOK
  <2>2. stack \in [Threads -> Seq(Frames)]
    BY DEF Init
  <2>3. count \in [Threads -> Nat]
    BY DEF Init, Base
  <2>4. QED
    BY <2>2, <2>3 DEF Init, TypeOK
<1>2. NoFatal /\ Agree /\ EarlyOK
  BY DEF Init, NoFatal, Agree, EarlyOK, Threads
<1>3. Counted
  <2> SUFFICES ASSUME NEW t \in Threads
               PROVE  count[t] = Base(t) + Cardinality(Ensured(t))
    BY DEF Counted
  <2>1. Ensured(t) = {}
    BY DEF Init, Ensured
  <2>2. Base(t) \in Nat
    BY DEF Base
  <2>3. QED
    BY <2>1, <2>2, FS_EmptySet DEF Init
<1>4. \A t \in Threads : FramesOK(t) /\ BottomOK(t) /\ HolderOK(t)
  BY DEF Init, FramesOK, BottomOK, HolderOK, Threads
<1>5. QED
  BY <1>1, <1>2, <1>3, <1>4 DEF Inv

(* A thread that a step does not touch keeps its part of the invariant, as
   long as the GIL does not come to it or go from it.                      *)
LEMMA Untouched ==
  ASSUME Inv, NEW u \in Threads,
         stack'[u] = stack[u], mode'[u] = mode[u],
         stack[u] # <<>> => enabled' = enabled,
         imported => imported', enabled => enabled',
         inited => inited' /\ (gil' = u <=> gil = u),
         ~inited /\ inited' => gil' # u /\ u # Main
  PROVE  FramesOK(u)' /\ BottomOK(u)' /\ HolderOK(u)'
<1> USE DEF Inv
<1>1. FramesOK(u)'
  BY DEF FramesOK, Keeps
<1>2. BottomOK(u)'
  BY DEF BottomOK
<1>3. HolderOK(u)'
  <2>1. CASE inited
    BY <2>1 DEF HolderOK, Keeps
  <2>2. CASE ~inited /\ inited'
    <3>1. stack[u] = <<>> /\ mode[u] \in {"absent", "native"}
      BY <2>2 DEF EarlyOK
    <3>2. ~Keeps(u, Len(stack[u]))'
      BY <3>1 DEF Keeps
    <3>3. QED
      BY <2>2, <3>1, <3>2 DEF HolderOK
  <2>3. CASE ~inited'
    BY <2>3 DEF HolderOK
  <2>4. QED
    BY <2>1, <2>2, <2>3
<1>4. QED
  BY <1>1, <1>2, <1>3

(* A push that records what FramesOK asks for keeps it, and counts.        *)
LEMMA Pushed ==
  ASSUME Inv, NEW t \in Threads, NEW f \in Frames, Push(t, f), UNCHANGED flags,
         f.kind # "call" => f.marked = enabled,
         f.kind = "ensure" => (f.took <=> ~Keeps(t, Len(stack[t]))),
         f.lib = "gobject" => imported,
         stack[t] = <<>> => (f.kind = "ensure" <=> t \in NativeThreads)
  PROVE  /\ stack' \in [Threads -> Seq(Frames)]
         /\ \A u \in Threads \ {t} : stack'[u] = stack[u]
         /\ FramesOK(t)'
         /\ stack'[t] # <<>> /\ (stack'[t][1].kind = "ensure" <=> t \in NativeThreads)
         /\ Len(stack'[t]) # 0 /\ stack'[t][Len(stack'[t])] = f
         /\ Cardinality(Ensured(t))' =
              IF f.kind = "ensure" /\ f.marked THEN Cardinality(Ensured(t)) + 1
                                               ELSE Cardinality(Ensured(t))
<1> DEFINE s == stack[t]
<1>1. stack \in [Threads -> Seq(Frames)] /\ s \in Seq(Frames)
  BY DEF Inv, TypeOK
<1>2. stack'[t] = Append(s, f)
  BY <1>1 DEF Push
<1>3. stack' \in [Threads -> Seq(Frames)] /\ \A u \in Threads \ {t} : stack'[u] = stack[u]
  BY <1>1 DEF Push
<1>4. /\ Len(stack'[t]) = Len(s) + 1 /\ stack'[t] # <<>>
      /\ DOMAIN stack'[t] = (DOMAIN s) \cup {Len(s) + 1}
      /\ \A i \in DOMAIN s : stack'[t][i] = s[i]
      /\ stack'[t][Len(s) + 1] = f
  BY <1>2, PushFacts
<1>6. ASSUME NEW i \in 0..Len(s) PROVE Keeps(t, i)' = Keeps(t, i)
  BY <1>4 DEF Keeps
<1>7. FramesOK(t)'
  <2> SUFFICES ASSUME NEW i \in DOMAIN stack'[t]
               PROVE  /\ stack'[t][i].kind # "call" => stack'[t][i].marked = enabled'
                      /\ stack'[t][i].kind = "ensure" =>
                           (stack'[t][i].took <=> ~Keeps(t, i - 1)')
                      /\ stack'[t][i].lib = "gobject" => imported'
    BY DEF FramesOK
  <2>1. CASE i \in DOMAIN s
    <3>1. i - 1 \in 0..Len(s)
      BY <2>1
    <3>2. Keeps(t, i - 1)' = Keeps(t, i - 1)
      BY <1>6, <3>1
    <3>3. QED
      BY <1>4, <3>2 DEF Inv, FramesOK, flags
  <2>2. CASE i = Len(s) + 1
    <3>1. Keeps(t, i - 1)' = Keeps(t, Len(s))
      BY <1>6, <2>2
    <3>2. QED
      BY <1>4, <2>2, <3>1 DEF flags
  <2>3. QED
    BY <1>4, <2>1, <2>2
<1>8. stack'[t][1].kind = "ensure" <=> t \in NativeThreads
  <2>1. CASE s = <<>>
    BY <1>4, <2>1
  <2>2. CASE s # <<>>
    <3>2. QED
      BY <1>4 DEF Inv, BottomOK
  <2>3. QED
    BY <2>1, <2>2
<1>9. Cardinality(Ensured(t))' =
        IF f.kind = "ensure" /\ f.marked THEN Cardinality(Ensured(t)) + 1
                                         ELSE Cardinality(Ensured(t))
  <2>1. Cardinality(EnsuredIn(Append(s, f))) =
          IF f.kind = "ensure" /\ f.marked THEN Cardinality(EnsuredIn(s)) + 1
                                           ELSE Cardinality(EnsuredIn(s))
    BY <1>1, EnsuredFacts
  <2>2. Ensured(t) = EnsuredIn(s) /\ Ensured(t)' = EnsuredIn(Append(s, f))
    BY <1>2, EnsuredIs
  <2>4. QED
    BY <2>1, <2>2, Zenon
<1>11. QED
  BY <1>3, <1>4, <1>7, <1>8, <1>9

(* A pop keeps FramesOK, and shows what the frame below keeps.             *)
LEMMA Popped ==
  ASSUME Inv, NEW t \in Threads, stack[t] # <<>>, Pop(t), UNCHANGED flags
  PROVE  /\ stack' \in [Threads -> Seq(Frames)]
         /\ \A u \in Threads \ {t} : stack'[u] = stack[u]
         /\ FramesOK(t)'
         /\ stack'[t] # <<>> => (stack'[t][1].kind = "ensure" <=> t \in NativeThreads)
         /\ stack'[t] = <<>> => (Top(t).kind = "ensure" <=> t \in NativeThreads)
         /\ Keeps(t, Len(stack[t]))' = Keeps(t, Len(stack[t]) - 1)
         /\ Len(stack[t]) \in Nat \ {0} /\ Top(t) \in Frames /\ Top(t) = stack[t][Len(stack[t])]
         /\ Cardinality(Ensured(t))' =
              IF Top(t).kind = "ensure" /\ Top(t).marked THEN Cardinality(Ensured(t)) - 1
                                                         ELSE Cardinality(Ensured(t))
<1> DEFINE s == stack[t]
<1>1. stack \in [Threads -> Seq(Frames)] /\ s \in Seq(Frames)
  BY DEF Inv, TypeOK
<1>2. stack'[t] = Below(s)
  BY <1>1 DEF Pop, Below
<1>3. /\ Below(s) \in Seq(Frames)
      /\ Len(s) \in Nat \ {0} /\ s[Len(s)] \in Frames
      /\ Len(Below(s)) = Len(s) - 1
      /\ DOMAIN Below(s) = (DOMAIN s) \ {Len(s)}
      /\ \A i \in DOMAIN Below(s) : Below(s)[i] = s[i]
      /\ Below(s) = <<>> <=> Len(s) = 1
  BY <1>1, PopFacts
<1>4. stack' \in [Threads -> Seq(Frames)] /\ \A u \in Threads \ {t} : stack'[u] = stack[u]
  BY <1>1 DEF Pop
<1>5. DOMAIN s = 1..Len(s) /\ DOMAIN Below(s) = 1..(Len(s) - 1)
  BY <1>3
<1>6. ASSUME NEW i \in 0..(Len(s) - 1) PROVE Keeps(t, i)' = Keeps(t, i)
  BY <1>2, <1>3 DEF Keeps
<1>7. FramesOK(t)'
  <2> SUFFICES ASSUME NEW i \in 1..(Len(s) - 1)
               PROVE  /\ stack'[t][i].kind # "call" => stack'[t][i].marked = enabled'
                      /\ stack'[t][i].kind = "ensure" =>
                           (stack'[t][i].took <=> ~Keeps(t, i - 1)')
                      /\ stack'[t][i].lib = "gobject" => imported'
    BY <1>2, <1>5 DEF FramesOK
  <2>1. Keeps(t, i - 1)' = Keeps(t, i - 1)
    BY <1>6
  <2>2. stack'[t][i] = s[i] /\ i \in DOMAIN s
    BY <1>2, <1>3
  <2>3. QED
    BY <2>1, <2>2 DEF Inv, FramesOK, flags
<1>8. s[1].kind = "ensure" <=> t \in NativeThreads
  BY DEF Inv, BottomOK
<1>9. stack'[t] # <<>> => (stack'[t][1].kind = "ensure" <=> t \in NativeThreads)
  <2> HAVE stack'[t] # <<>>
  <2>2. QED
    BY <1>2, <1>3, <1>8
<1>10. stack'[t] = <<>> => (Top(t).kind = "ensure" <=> t \in NativeThreads)
  BY <1>2, <1>3, <1>8 DEF Top
<1>11. Keeps(t, Len(stack[t]))' = Keeps(t, Len(s) - 1)
  <2>1. Len(stack'[t]) = Len(s) - 1 /\ Len(s) - 1 \in 0..(Len(s) - 1)
    BY <1>2, <1>3
  <2>4. Len(s) - 1 # 0 => stack'[t][Len(s) - 1] = s[Len(s) - 1]
    BY <1>2, <1>3
  <2>5. QED
    BY <2>1, <2>4 DEF Keeps
<1>12. Cardinality(Ensured(t))' =
         IF Top(t).kind = "ensure" /\ Top(t).marked THEN Cardinality(Ensured(t)) - 1
                                                    ELSE Cardinality(Ensured(t))
  BY <1>1, <1>2, EnsuredIs, EnsuredFacts DEF Top
<1>13. QED
  BY <1>3, <1>4, <1>7, <1>9, <1>10, <1>11, <1>12 DEF Top

(* A step of t: what is left to show when the other threads keep their mode
   and their stack, and do not get or lose the GIL.                        *)
LEMMA Assemble ==
  ASSUME Inv, NEW t \in Threads,
         TypeOK', NoFatal', Agree', EarlyOK',
         FramesOK(t)', BottomOK(t)', HolderOK(t)',
         count'[t] = Base(t) + Cardinality(Ensured(t))',
         imported => imported', enabled => enabled', inited => inited',
         \A u \in Threads \ {t} :
           /\ stack'[u] = stack[u] /\ mode'[u] = mode[u] /\ count'[u] = count[u]
           /\ stack[u] # <<>> => enabled' = enabled
           /\ inited => (gil' = u <=> gil = u)
           /\ ~inited /\ inited' => gil' # u /\ u # Main
  PROVE  Inv'
<1>1. ASSUME NEW u \in Threads \ {t}
      PROVE  FramesOK(u)' /\ BottomOK(u)' /\ HolderOK(u)'
  BY Untouched
<1>2. Counted'
  <2> SUFFICES ASSUME NEW u \in Threads
               PROVE  count'[u] = Base(u) + Cardinality(Ensured(u))'
    BY DEF Counted
  <2>1. CASE u = t
    BY <2>1
  <2>2. CASE u # t
    <3>1. Ensured(u)' = Ensured(u)
      BY <2>2 DEF Ensured
    <3>2. count'[u] = count[u] /\ count[u] = Base(u) + Cardinality(Ensured(u))
      BY <2>2 DEF Inv, Counted
    <3>4. QED
      BY <3>1, <3>2
  <2>3. QED
    BY <2>2
<1>3. QED
  BY <1>1, <1>2 DEF Inv

(* What a thread that runs Python code or native code knows.               *)
LEMMA Facts ==
  ASSUME Inv, NEW t \in Threads
  PROVE  /\ mode[t] = "python" /\ inited => gil = t
         /\ mode[t] = "python" /\ ~inited => t = Main
         /\ mode[t] = "ready" => inited
         /\ t \in PyThreads \/ t \in NativeThreads
         /\ stack[t] \in Seq(Frames) /\ mode[t] \in {"python", "ready", "native", "absent"}
         /\ count[t] \in Nat /\ Base(t) \in {0, 1} /\ (Base(t) = 1 <=> t \in PyThreads)
         /\ Cardinality(Ensured(t)) \in Nat
         /\ count[t] = Base(t) + Cardinality(Ensured(t))
<1>1. Cardinality(Ensured(t)) \in Nat
  BY EnsuredIs, EnsuredFacts DEF Inv, TypeOK
<1>2. QED
  BY <1>1 DEF Inv, TypeOK, Counted, HolderOK, EarlyOK, Threads, Base

(* StartThread keeps the invariant.                                        *)
LEMMA StartThreadInv ==
  ASSUME Inv, NEW t \in Threads, NEW u \in Threads, StartThread(t, u)
  PROVE  Inv'
<1> USE DEF StartThread, InitThreads, Enter
<1>1. TypeOK' /\ NoFatal' /\ Agree'
  BY DEF Inv, TypeOK, NoFatal, Agree
<1>2. EarlyOK'
  BY DEF EarlyOK
<1>4. mode'[t] = "python" /\ inited' /\ gil' = t
  BY Facts
<1>5. FramesOK(t)' /\ BottomOK(t)' /\ HolderOK(t)'
  <2>1. FramesOK(t)' /\ BottomOK(t)'
    BY DEF Inv, FramesOK, BottomOK, Keeps
  <2>2. HolderOK(t)'
    BY <1>4 DEF HolderOK
  <2>3. QED
    BY <2>1, <2>2
<1>6. FramesOK(u)' /\ BottomOK(u)' /\ HolderOK(u)'
  <2>1. FramesOK(u)' /\ BottomOK(u)'
    BY DEF Inv, FramesOK, BottomOK
  <2>2. HolderOK(u)'
    BY DEF HolderOK
  <2>3. QED
    BY <2>1, <2>2
<1>7. ASSUME NEW v \in Threads \ {t, u}
      PROVE  FramesOK(v)' /\ BottomOK(v)' /\ HolderOK(v)'
  <2>2. ~inited => gil' # v /\ v # Main
    BY Facts
  <2>3. QED
    BY <2>2, Untouched
<1>8. Counted'
  BY DEF Inv, Counted, Ensured
<1>9. QED
  BY <1>1, <1>2, <1>5, <1>6, <1>7, <1>8 DEF Inv

(* Yield keeps the invariant.                                              *)
LEMMA YieldInv ==
  ASSUME Inv, NEW t \in Threads, Yield(t)
  PROVE  Inv'
<1> USE DEF Yield, Enter, flags
<1>1. TypeOK' /\ NoFatal' /\ Agree' /\ EarlyOK'
  BY DEF Inv, TypeOK, NoFatal, Agree, EarlyOK
<1>2. mode'[t] = "ready"
  BY DEF Inv, TypeOK
<1>3. FramesOK(t)' /\ BottomOK(t)' /\ HolderOK(t)'
  BY <1>2 DEF Inv, FramesOK, BottomOK, HolderOK, Keeps
<1>4. count'[t] = Base(t) + Cardinality(Ensured(t))'
  BY DEF Inv, Counted, Ensured
<1>5. \A u \in Threads \ {t} :
        /\ stack'[u] = stack[u] /\ mode'[u] = mode[u] /\ count'[u] = count[u]
        /\ enabled' = enabled /\ (gil' = u <=> gil = u)
  BY GilAssumption
<1>6. QED
  BY <1>1, <1>3, <1>4, <1>5, Assemble

(* Resume keeps the invariant.                                             *)
LEMMA ResumeInv ==
  ASSUME Inv, NEW t \in Threads, Resume(t)
  PROVE  Inv'
<1> USE DEF Resume, Enter, flags
<1>2. TypeOK' /\ NoFatal' /\ Agree' /\ EarlyOK'
  BY DEF Inv, TypeOK, NoFatal, Agree, EarlyOK
<1>4. FramesOK(t)' /\ BottomOK(t)' /\ HolderOK(t)'
  BY DEF Inv, FramesOK, BottomOK, HolderOK, Keeps
<1>5. count'[t] = Base(t) + Cardinality(Ensured(t))'
  BY DEF Inv, Counted, Ensured
<1>6. \A u \in Threads \ {t} :
        /\ stack'[u] = stack[u] /\ mode'[u] = mode[u] /\ count'[u] = count[u]
        /\ enabled' = enabled /\ (gil' = u <=> gil = u)
  BY GilAssumption
<1>7. QED
  BY <1>2, <1>4, <1>5, <1>6, Assemble


(* Import keeps the invariant.                                             *)
LEMMA ImportInv ==
  ASSUME Inv, NEW t \in Threads, Import(t)
  PROVE  Inv'
<1> USE DEF Import
<1>1. TypeOK' /\ NoFatal' /\ Agree' /\ EarlyOK'
  BY DEF Inv, TypeOK, NoFatal, Agree, EarlyOK
<1>2. FramesOK(t)' /\ BottomOK(t)' /\ HolderOK(t)'
  BY DEF Inv, FramesOK, BottomOK, HolderOK, Keeps
<1>3. count'[t] = Base(t) + Cardinality(Ensured(t))'
  BY DEF Inv, Counted, Ensured
<1>4. QED
  BY <1>1, <1>2, <1>3, Assemble

(* EnableThreads keeps the invariant when no bracket is open.              *)
LEMMA EnableThreadsInv ==
  ASSUME Inv, Disciplined, NEW t \in Threads, EnableThreads(t)
  PROVE  Inv'
<1> USE DEF EnableThreads, InitThreads
<1>2. TypeOK' /\ NoFatal' /\ Agree' /\ EarlyOK'
  BY DEF Inv, TypeOK, NoFatal, Agree, EarlyOK
<1>3. gil' = t
  BY Facts
<1>4. FramesOK(t)' /\ BottomOK(t)' /\ HolderOK(t)'
  <2>1. FramesOK(t)'
    BY DEF FramesOK
  <2>2. BottomOK(t)'
    BY DEF Inv, BottomOK
  <2>3. HolderOK(t)'
    BY <1>3 DEF HolderOK
  <2>4. QED
    BY <2>1, <2>2, <2>3
<1>5. count'[t] = Base(t) + Cardinality(Ensured(t))'
  BY DEF Inv, Counted, Ensured
<1>6. ASSUME NEW u \in Threads \ {t}, ~inited
      PROVE  gil' # u /\ u # Main
  BY <1>6, Facts
<1>7. \A u \in Threads \ {t} :
        /\ stack'[u] = stack[u] /\ mode'[u] = mode[u] /\ count'[u] = count[u]
        /\ stack[u] # <<>> => enabled' = enabled
        /\ inited => (gil' = u <=> gil = u)
        /\ ~inited /\ inited' => gil' # u /\ u # Main
  BY <1>6
<1>8. QED
  BY <1>2, <1>4, <1>5, <1>7, Assemble

(* Call keeps the invariant.                                               *)
LEMMA CallInv ==
  ASSUME Inv, NEW t \in Threads, Call(t)
  PROVE  Inv'
<1> USE DEF Call, Enter
<1> DEFINE g == [kind |-> "call", lib |-> "glib", marked |-> FALSE, took |-> FALSE]
<1>1. PICK f \in Frames : f = g
  BY DEF Frames, Libs
<1>2. stack[t] = <<>> => t \notin NativeThreads
  BY GilAssumption DEF Inv, BottomOK
<1>3. /\ stack' \in [Threads -> Seq(Frames)]
      /\ \A u \in Threads \ {t} : stack'[u] = stack[u]
      /\ FramesOK(t)'
      /\ stack'[t] # <<>> /\ (stack'[t][1].kind = "ensure" <=> t \in NativeThreads)
      /\ Len(stack'[t]) # 0 /\ stack'[t][Len(stack'[t])] = f
      /\ Cardinality(Ensured(t))' =
           IF f.kind = "ensure" /\ f.marked THEN Cardinality(Ensured(t)) + 1
                                            ELSE Cardinality(Ensured(t))
  BY <1>1, <1>2, Pushed
<1>5. TypeOK' /\ NoFatal' /\ Agree'
  BY <1>3 DEF Inv, TypeOK, NoFatal, Agree, flags
<1>6. EarlyOK'
  BY <1>3 DEF Inv, EarlyOK, TypeOK, flags
<1>7. BottomOK(t)'
  <2>1. t \in NativeThreads => enabled
    BY GilAssumption DEF Inv, BottomOK
  <2>2. QED
    BY <1>3, <2>1 DEF BottomOK, flags
<1>8. HolderOK(t)'
  BY <1>1, <1>3, Facts DEF HolderOK, Keeps, flags
<1>9. count'[t] = Base(t) + Cardinality(Ensured(t))'
  BY <1>1, <1>3, Facts
<1>11. QED
  BY <1>3, <1>5, <1>6, <1>7, <1>8, <1>9, Assemble DEF flags


(* CallReturn keeps the invariant.                                         *)
LEMMA CallReturnInv ==
  ASSUME Inv, NEW t \in Threads, CallReturn(t)
  PROVE  Inv'
<1> USE DEF CallReturn, Enter
<1>1. /\ stack' \in [Threads -> Seq(Frames)]
      /\ \A u \in Threads \ {t} : stack'[u] = stack[u]
      /\ FramesOK(t)'
      /\ stack'[t] # <<>> => (stack'[t][1].kind = "ensure" <=> t \in NativeThreads)
      /\ stack'[t] = <<>> => (Top(t).kind = "ensure" <=> t \in NativeThreads)
      /\ Keeps(t, Len(stack[t]))' = Keeps(t, Len(stack[t]) - 1)
      /\ Len(stack[t]) \in Nat \ {0} /\ Top(t) \in Frames /\ Top(t) = stack[t][Len(stack[t])]
      /\ Cardinality(Ensured(t))' =
           IF Top(t).kind = "ensure" /\ Top(t).marked THEN Cardinality(Ensured(t)) - 1
                                                      ELSE Cardinality(Ensured(t))
  BY Popped
<1>2. mode'[t] = "python"
  BY DEF Inv, TypeOK
<1>3. TypeOK' /\ NoFatal' /\ Agree'
  BY <1>1 DEF Inv, TypeOK, NoFatal, Agree, flags
<1>4. inited => gil = t
  BY <1>1 DEF Inv, HolderOK, Keeps
<1>6. EarlyOK'
  BY <1>1 DEF Inv, EarlyOK, flags
<1>7. BottomOK(t)'
  <2>1. t \in NativeThreads => enabled
    BY DEF Inv, BottomOK
  <2>2. stack'[t] = <<>> => t \in PyThreads
    BY <1>1 DEF Threads
  <2>3. QED
    BY <1>1, <1>2, <2>1, <2>2 DEF BottomOK, flags
<1>8. HolderOK(t)'
  BY <1>2, <1>4 DEF HolderOK, flags
<1>9. count'[t] = Base(t) + Cardinality(Ensured(t))'
  BY <1>1, Facts
<1>11. QED
  BY <1>1, <1>3, <1>6, <1>7, <1>8, <1>9, Assemble DEF flags

(* The flag that a bracket tests is glib's.                                *)
LEMMA FlagIs ==
  ASSUME Inv, NEW lib \in Libs, lib = "gobject" => imported
  PROVE  Flag(lib) = enabled /\ enabled \in BOOLEAN
BY DEF Flag, Inv, Agree, Libs, TypeOK

(* BeginAllow keeps the invariant.                                         *)
LEMMA BeginAllowInv ==
  ASSUME Inv, NEW t \in Threads, NEW lib \in Libs, BeginAllow(t, lib)
  PROVE  Inv'
<1> USE DEF BeginAllow, Enter
<1> DEFINE g == [kind |-> "allow", lib |-> lib, marked |-> Flag(lib), took |-> FALSE]
<1>1. Flag(lib) = enabled /\ enabled \in BOOLEAN
  BY FlagIs
<1>2. PICK f \in Frames : f = g
  BY <1>1 DEF Frames
<1>3. f.kind = "allow" /\ f.marked = enabled /\ f.lib = lib
  BY <1>1, <1>2
<1>4. t \in NativeThreads => stack[t] # <<>> /\ enabled
  BY GilAssumption DEF Inv, BottomOK
<1>5. Push(t, f) /\ UNCHANGED flags
  BY <1>2
<1>6. /\ stack' \in [Threads -> Seq(Frames)]
      /\ \A u \in Threads \ {t} : stack'[u] = stack[u]
      /\ FramesOK(t)'
      /\ stack'[t] # <<>> /\ (stack'[t][1].kind = "ensure" <=> t \in NativeThreads)
      /\ Len(stack'[t]) # 0 /\ stack'[t][Len(stack'[t])] = f
      /\ Cardinality(Ensured(t))' =
           IF f.kind = "ensure" /\ f.marked THEN Cardinality(Ensured(t)) + 1
                                            ELSE Cardinality(Ensured(t))
  BY <1>3, <1>4, <1>5, Pushed
<1>7. mode'[t] = "native" /\ t # NoThread /\ gil' = IF enabled THEN NoThread ELSE gil
  BY <1>1, GilAssumption DEF Inv, TypeOK
<1>8. TypeOK' /\ NoFatal' /\ Agree'
  BY <1>6 DEF Inv, TypeOK, NoFatal, Agree, flags
<1>9. EarlyOK'
  BY <1>6 DEF Inv, EarlyOK, flags
<1>10. BottomOK(t)'
  BY <1>4, <1>6 DEF BottomOK, flags
<1>11. HolderOK(t)'
  BY <1>3, <1>6, <1>7, Facts DEF HolderOK, Keeps, flags
<1>12. count'[t] = Base(t) + Cardinality(Ensured(t))'
  BY <1>3, <1>6, Facts
<1>13. ASSUME NEW u \in Threads \ {t}
       PROVE  /\ mode'[u] = mode[u] /\ count'[u] = count[u]
              /\ inited => (gil' = u <=> gil = u)
  BY GilAssumption, Facts
<1>14. QED
  BY <1>6, <1>8, <1>9, <1>10, <1>11, <1>12, <1>13, Assemble DEF flags


(* The innermost frame of t, and the flag that its end tests.              *)
LEMMA TopFacts ==
  ASSUME Inv, NEW t \in Threads, stack[t] # <<>>
  PROVE  /\ Top(t) = stack[t][Len(stack[t])] /\ Len(stack[t]) \in DOMAIN stack[t]
         /\ Flag(Top(t).lib) = enabled /\ enabled \in BOOLEAN
         /\ Top(t).kind # "call" => Top(t).marked = enabled
         /\ Top(t).kind = "ensure" => (Top(t).took <=> ~Keeps(t, Len(stack[t]) - 1))
         /\ Top(t).took \in BOOLEAN
<1>1. Len(stack[t]) \in Nat \ {0} /\ Top(t) = stack[t][Len(stack[t])] /\ Top(t) \in Frames
      /\ Len(stack[t]) \in DOMAIN stack[t]
  BY DEF Inv, TypeOK, Top
<1>2. Top(t).lib \in Libs /\ Top(t).took \in BOOLEAN /\ (Top(t).lib = "gobject" => imported)
  BY <1>1 DEF Frames, Inv, FramesOK
<1>3. Flag(Top(t).lib) = enabled /\ enabled \in BOOLEAN
  BY <1>2 DEF Flag, Inv, Agree, Libs, TypeOK
<1>4. QED
  BY <1>1, <1>2, <1>3 DEF Inv, FramesOK

(* EndAllow keeps the invariant.                                           *)
LEMMA EndAllowInv ==
  ASSUME Inv, NEW t \in Threads, EndAllow(t)
  PROVE  Inv'
<1> USE DEF EndAllow, Enter
<1>1. /\ stack' \in [Threads -> Seq(Frames)]
      /\ \A u \in Threads \ {t} : stack'[u] = stack[u]
      /\ FramesOK(t)'
      /\ stack'[t] # <<>> => (stack'[t][1].kind = "ensure" <=> t \in NativeThreads)
      /\ stack'[t] = <<>> => (Top(t).kind = "ensure" <=> t \in NativeThreads)
      /\ Keeps(t, Len(stack[t]))' = Keeps(t, Len(stack[t]) - 1)
      /\ Len(stack[t]) \in Nat \ {0} /\ Top(t) \in Frames /\ Top(t) = stack[t][Len(stack[t])]
      /\ Cardinality(Ensured(t))' =
           IF Top(t).kind = "ensure" /\ Top(t).marked THEN Cardinality(Ensured(t)) - 1
                                                      ELSE Cardinality(Ensured(t))
  BY Popped
<1>2. Flag(Top(t).lib) = enabled /\ enabled \in BOOLEAN /\ Top(t).marked = enabled
  BY TopFacts
<1>3. mode'[t] = "python" /\ t # NoThread
  BY GilAssumption DEF Inv, TypeOK
<1>4. fatal' = fatal /\ IF enabled THEN gil = NoThread /\ gil' = t ELSE gil' = gil
  <2>1. CASE enabled
    <3>1. Flag(Top(t).lib) /\ Top(t).marked
      BY <1>2, <2>1
    <3>2. gil = NoThread /\ gil' = t /\ ~fatal'
      BY <3>1, Zenon
    <3>3. fatal = FALSE /\ fatal' \in BOOLEAN
      BY Zenon DEF Inv, NoFatal, TypeOK
    <3>4. QED
      BY <2>1, <3>2, <3>3
  <2>2. CASE ~enabled
    BY <1>2, <2>2
  <2>3. QED
    BY <1>2, <2>1
<1>5. TypeOK' /\ NoFatal' /\ Agree'
  BY <1>1, <1>4 DEF Inv, TypeOK, NoFatal, Agree, flags
<1>6. inited => gil' = t
  <2>1. CASE enabled
    BY <1>4, <2>1
  <2>2. CASE ~enabled
    <3>1. Keeps(t, Len(stack[t]))
      BY <1>1, <1>2, <2>2 DEF Keeps
    <3>2. QED
      BY <3>1 DEF Inv, HolderOK
  <2>3. QED
    BY <1>2, <2>2
<1>8. EarlyOK'
  BY <1>1, <1>4 DEF Inv, EarlyOK, flags
<1>9. BottomOK(t)'
  <2>1. t \in NativeThreads => enabled
    BY DEF Inv, BottomOK
  <2>2. stack'[t] = <<>> => t \in PyThreads
    BY <1>1 DEF Threads
  <2>3. QED
    BY <1>1, <1>3, <2>1, <2>2 DEF BottomOK, flags
<1>10. HolderOK(t)'
  BY <1>3, <1>6 DEF HolderOK, flags
<1>11. count'[t] = Base(t) + Cardinality(Ensured(t))'
  BY <1>1, Facts
<1>12. ASSUME NEW u \in Threads \ {t}
       PROVE  /\ mode'[u] = mode[u] /\ count'[u] = count[u]
              /\ inited => (gil' = u <=> gil = u)
  BY GilAssumption
<1>13. QED
  BY <1>1, <1>5, <1>8, <1>9, <1>10, <1>11, <1>12, Assemble DEF flags

(* Ensure keeps the invariant.                                             *)
LEMMA EnsureInv ==
  ASSUME Inv, NEW t \in Threads, NEW lib \in Libs, Ensure(t, lib)
  PROVE  Inv'
<1> USE DEF Ensure, Enter
<1>1. Flag(lib) = enabled /\ enabled \in BOOLEAN
  BY FlagIs
<1> DEFINE g == [kind |-> "ensure", lib |-> lib, marked |-> enabled,
                 took |-> enabled /\ gil # t]
<1>2. PICK f \in Frames : f = g
  <2>2. g \in Frames
    BY <1>1, Zenon DEF Frames
  <2>3. QED
    BY <2>2, Zenon
<1>3. f.kind = "ensure" /\ f.marked = enabled /\ f.lib = lib /\ (f.took <=> enabled /\ gil # t)
  BY <1>2
<1>4. Push(t, f) /\ UNCHANGED flags
  <2>1. CASE enabled
    BY <1>1, <1>2
  <2>2. CASE ~enabled
    BY <1>1, <1>2
  <2>3. QED
    BY <2>1, <2>2
<1>5. IF enabled
      THEN gil \in {t, NoThread} /\ gil' = t /\ count' = [count EXCEPT ![t] = @ + 1]
      ELSE gil' = gil /\ count' = count
  BY <1>1
<1>7. ~enabled => Keeps(t, Len(stack[t]))
  <2> HAVE ~enabled
  <2>1. stack[t] # <<>>
    BY DEF Inv, BottomOK
  <2>2. /\ Top(t) = stack[t][Len(stack[t])] /\ Len(stack[t]) \in DOMAIN stack[t]
        /\ Top(t).kind # "call" => Top(t).marked = enabled
    BY <2>1, TopFacts
  <2>4. QED
    BY <2>2 DEF Keeps
<1>8. f.took <=> ~Keeps(t, Len(stack[t]))
  BY <1>3, <1>7 DEF Inv, HolderOK, EarlyOK
<1>9. stack[t] = <<>> => t \in NativeThreads
  BY DEF Inv, BottomOK
<1>10. /\ stack' \in [Threads -> Seq(Frames)]
       /\ \A u \in Threads \ {t} : stack'[u] = stack[u]
       /\ FramesOK(t)'
       /\ stack'[t] # <<>> /\ (stack'[t][1].kind = "ensure" <=> t \in NativeThreads)
       /\ Len(stack'[t]) # 0 /\ stack'[t][Len(stack'[t])] = f
       /\ Cardinality(Ensured(t))' =
            IF f.kind = "ensure" /\ f.marked THEN Cardinality(Ensured(t)) + 1
                                             ELSE Cardinality(Ensured(t))
  BY <1>3, <1>4, <1>8, <1>9, Pushed
<1>11. mode'[t] = "python" /\ t # NoThread
  BY GilAssumption DEF Inv, TypeOK
<1>12. gil' \in Threads \cup {NoThread} /\ count' \in [Threads -> Nat]
  BY <1>5 DEF Inv, TypeOK
<1>13. TypeOK' /\ NoFatal' /\ Agree'
  BY <1>10, <1>12 DEF Inv, TypeOK, NoFatal, Agree, flags
<1>14. ~inited => t = Main /\ ~enabled
  BY <1>7 DEF Inv, EarlyOK, Keeps
<1>15. EarlyOK'
  BY <1>5, <1>10, <1>14 DEF Inv, EarlyOK, flags
<1>16. BottomOK(t)'
  BY <1>10 DEF BottomOK, flags
<1>17. HolderOK(t)'
  <2>1. inited => gil' = t
    BY <1>5, <1>7 DEF Inv, HolderOK
  <2>2. QED
    BY <1>11, <2>1 DEF HolderOK, flags
<1>18. count'[t] = Base(t) + Cardinality(Ensured(t))'
  <2>1. count'[t] = IF enabled THEN count[t] + 1 ELSE count[t]
    BY <1>5 DEF Inv, TypeOK
  <2>2. QED
    BY <1>3, <1>10, <2>1, Facts
<1>19. ASSUME NEW u \in Threads \ {t}
       PROVE  /\ mode'[u] = mode[u] /\ count'[u] = count[u]
              /\ inited => (gil' = u <=> gil = u)
  BY GilAssumption DEF Inv, TypeOK
<1>20. QED
  BY <1>10, <1>13, <1>15, <1>16, <1>17, <1>18, <1>19, Assemble DEF flags


(* Release keeps the invariant: it ends what Ensure began.                 *)
LEMMA ReleaseInv ==
  ASSUME Inv, NEW t \in Threads, Release(t)
  PROVE  Inv'
<1> USE DEF Release, Enter
<1>1. /\ stack' \in [Threads -> Seq(Frames)]
      /\ \A u \in Threads \ {t} : stack'[u] = stack[u]
      /\ FramesOK(t)'
      /\ stack'[t] # <<>> => (stack'[t][1].kind = "ensure" <=> t \in NativeThreads)
      /\ stack'[t] = <<>> => (Top(t).kind = "ensure" <=> t \in NativeThreads)
      /\ Keeps(t, Len(stack[t]))' = Keeps(t, Len(stack[t]) - 1)
      /\ Len(stack[t]) \in Nat \ {0} /\ Top(t) \in Frames /\ Top(t) = stack[t][Len(stack[t])]
      /\ Cardinality(Ensured(t))' =
           IF Top(t).kind = "ensure" /\ Top(t).marked THEN Cardinality(Ensured(t)) - 1
                                                      ELSE Cardinality(Ensured(t))
  BY Popped
<1>2. /\ Flag(Top(t).lib) = enabled /\ enabled \in BOOLEAN /\ Top(t).marked = enabled
      /\ Top(t).took <=> ~Keeps(t, Len(stack[t]) - 1)
  BY TopFacts
<1>3. mode'[t] = "native" /\ t # NoThread
  BY GilAssumption DEF Inv, TypeOK
<1>4. inited => gil = t
  BY Facts
<1>5. enabled => inited
  BY DEF Inv, EarlyOK
<1>6. ASSUME enabled
      PROVE  /\ Cardinality(Ensured(t)) > 0
             /\ count[t] = 1 => t \in NativeThreads /\ Len(stack[t]) = 1
  <2>1. stack[t] \in Seq(Frames) /\ Len(stack[t]) \in EnsuredIn(stack[t])
    <3>1. Len(stack[t]) \in DOMAIN stack[t]
      BY TopFacts
    <3>2. QED
      BY <1>1, <1>2, <1>6, <3>1 DEF Inv, TypeOK, EnsuredIn
  <2>2. Cardinality(Ensured(t)) > 0
    BY <2>1, EnsuredFacts, EnsuredIs
  <2>3. ASSUME count[t] = 1
        PROVE  t \in NativeThreads /\ Len(stack[t]) = 1
    <3>1. t \in NativeThreads /\ Cardinality(Ensured(t)) = 1
      BY <2>2, <2>3, Facts
    <3>2. Cardinality(EnsuredIn(Below(stack[t]))) = 0
      <4>1. stack[t] # <<>> => Cardinality(EnsuredIn(Below(stack[t]))) =
              IF stack[t][Len(stack[t])].kind = "ensure" /\ stack[t][Len(stack[t])].marked
              THEN Cardinality(EnsuredIn(stack[t])) - 1 ELSE Cardinality(EnsuredIn(stack[t]))
        BY <2>1, EnsuredFacts
      <4>2. Ensured(t) = EnsuredIn(stack[t])
        BY EnsuredIs
      <4>3. QED
        BY <1>1, <1>2, <1>6, <3>1, <4>1, <4>2
    <3>3. EnsuredIn(Below(stack[t])) = {}
      <4>1. Below(stack[t]) \in Seq(Frames)
        BY <2>1, PopFacts
      <4>2. EnsuredIn(Below(stack[t])) # {} => Cardinality(EnsuredIn(Below(stack[t]))) > 0
        BY <4>1, EnsuredFacts
      <4>3. QED
        BY <3>2, <4>2
    <3>4. stack[t][1].kind = "ensure" /\ stack[t][1].marked
      <4>1. 1 \in DOMAIN stack[t]
        BY <1>1
      <4>2. QED
        BY <3>1, <4>1 DEF Inv, BottomOK, FramesOK
    <3>5. Len(stack[t]) = 1
      <4> SUFFICES ASSUME Len(stack[t]) # 1 PROVE FALSE
        OBVIOUS
      <4>1. 1 \in DOMAIN Below(stack[t]) /\ Below(stack[t])[1] = stack[t][1]
        <5>1. /\ DOMAIN Below(stack[t]) = (DOMAIN stack[t]) \ {Len(stack[t])}
              /\ \A i \in DOMAIN Below(stack[t]) : Below(stack[t])[i] = stack[t][i]
          BY <2>1, PopFacts
        <5>2. 1 \in DOMAIN stack[t]
          BY <1>1
        <5>3. QED
          BY <5>1, <5>2
      <4>2. QED
        BY <3>3, <3>4, <4>1 DEF EnsuredIn
    <3>6. QED
      BY <3>1, <3>5
  <2>4. QED
    BY <2>2, <2>3
<1>7. IF enabled
      THEN /\ count' = [count EXCEPT ![t] = @ - 1]
           /\ gil' = IF Top(t).took \/ count[t] = 1 THEN NoThread ELSE gil
           /\ fatal' = (gil # t \/ (count[t] = 1 /\ t \in PyThreads))
      ELSE count' = count /\ gil' = gil /\ fatal' = fatal
  BY <1>2
<1>8. NoFatal'
  <2>1. enabled => ~(gil # t \/ (count[t] = 1 /\ t \in PyThreads))
    BY <1>4, <1>5, <1>6, GilAssumption
  <2>2. QED
    BY <1>2, <2>1 DEF NoFatal, Inv
<1>9. count'[t] = Base(t) + Cardinality(Ensured(t))' /\ count' \in [Threads -> Nat]
  <2>1. CASE enabled
    <3>1. count'[t] = count[t] - 1 /\ count[t] - 1 \in Nat
      BY <1>6, <1>7, <2>1, Facts DEF Inv, TypeOK
    <3>2. count' \in [Threads -> Nat]
      BY <3>1 DEF Inv, TypeOK
    <3>3. QED
      BY <1>1, <1>2, <3>2, Facts
  <2>2. CASE ~enabled
    BY <1>1, <1>2, <2>2, Facts DEF Inv, TypeOK
  <2>3. QED
    BY <2>1, <2>2
<1>11. TypeOK' /\ Agree'
  BY <1>1, <1>9 DEF Inv, TypeOK, Agree, flags
<1>13. EarlyOK'
  BY <1>1 DEF Inv, EarlyOK, flags
<1>14. BottomOK(t)'
  <2>1. t \in NativeThreads /\ ~enabled => stack'[t] = <<>>
    BY DEF Inv, BottomOK
  <2>3. QED
    BY <1>1, <1>3, <2>1 DEF BottomOK, flags
<1>15. HolderOK(t)'
  <2> SUFFICES ASSUME inited
               PROVE  gil' = t <=> Keeps(t, Len(stack[t]) - 1)
    BY <1>1, <1>3 DEF HolderOK, flags
  <2>1. CASE enabled /\ count[t] = 1
    BY <1>3, <1>6, <1>7, <2>1 DEF Keeps
  <2>2. CASE enabled /\ count[t] # 1
    BY <1>2, <1>3, <1>4, <2>2
  <2>3. CASE ~enabled
    <3>1. Len(stack[t]) - 1 # 0
      <4>1. t \notin NativeThreads
        BY <2>3 DEF Inv, BottomOK
      <4>2. stack[t][1].kind # "ensure"
        BY <4>1 DEF Inv, BottomOK
      <4>3. QED
        BY <1>1, <4>2
    <3>2. Len(stack[t]) - 1 \in DOMAIN stack[t]
      <4>2. DOMAIN stack[t] = 1..Len(stack[t])
        OBVIOUS
      <4>3. \A n \in Nat \ {0} : n - 1 # 0 => n - 1 \in 1..n
        OBVIOUS
      <4>4. QED
        BY <1>1, <3>1, <4>2, <4>3, Zenon
    <3>3. stack[t][Len(stack[t]) - 1].kind = "allow" =>
            stack[t][Len(stack[t]) - 1].marked = enabled
      BY <3>2 DEF Inv, FramesOK
    <3>4. Keeps(t, Len(stack[t]) - 1)
      BY <2>3, <3>1, <3>3 DEF Keeps
    <3>5. QED
      BY <1>4, <1>7, <2>3, <3>4
  <2>4. QED
    BY <2>1, <2>2, <2>3
<1>16. ASSUME NEW u \in Threads \ {t}
       PROVE  /\ mode'[u] = mode[u] /\ count'[u] = count[u]
              /\ inited => (gil' = u <=> gil = u)
  BY <1>4, GilAssumption DEF Inv, TypeOK
<1>17. QED
  BY <1>1, <1>8, <1>9, <1>11, <1>13, <1>14, <1>15, <1>16, Assemble DEF flags

(* Every step keeps the invariant.                                         *)
LEMMA NextInv == Disciplined /\ Inv /\ [Next]_vars => Inv'
<1> SUFFICES ASSUME Disciplined, Inv, [Next]_vars PROVE Inv'
  OBVIOUS
<1>1. ASSUME NEW t \in Threads, Step(t) PROVE Inv'
  <2>1. ASSUME NEW u \in Threads, StartThread(t, u) PROVE Inv'
    BY <2>1, StartThreadInv
  <2>2. CASE Yield(t)
    BY <2>2, YieldInv
  <2>3. CASE Resume(t)
    BY <2>3, ResumeInv
  <2>4. CASE Import(t)
    BY <2>4, ImportInv
  <2>5. CASE EnableThreads(t)
    BY <2>5, EnableThreadsInv
  <2>6. CASE Call(t)
    BY <2>6, CallInv
  <2>7. CASE CallReturn(t)
    BY <2>7, CallReturnInv
  <2>8. CASE EndAllow(t)
    BY <2>8, EndAllowInv
  <2>9. CASE Release(t)
    BY <2>9, ReleaseInv
  <2>10. ASSUME NEW lib \in Libs, BeginAllow(t, lib) PROVE Inv'
    BY <2>10, BeginAllowInv
  <2>11. ASSUME NEW lib \in Libs, Ensure(t, lib) PROVE Inv'
    BY <2>11, EnsureInv
  <2>12. QED
    BY <1>1, <2>1, <2>2, <2>3, <2>4, <2>5, <2>6, <2>7, <2>8, <2>9, <2>10, <2>11 DEF Step
<1>2. CASE UNCHANGED vars
  BY <1>2
  DEF vars, flags, Inv, TypeOK, NoFatal, Agree, EarlyOK, Counted, Ensured, FramesOK, BottomOK,
     HolderOK, Keeps
<1>3. QED
  BY <1>1, <1>2 DEF Next

(* If threads_init() is called outside of any bracket, the invariant holds
   in every reachable state.                                               *)
THEOREM Invariance == ASSUME Disciplined PROVE Spec => []Inv
BY InitInv, NextInv, PTL DEF Spec

(* Brackets of any depth, of both libraries, in any number of threads, never
   end what they did not begin: the process is not brought down.           *)
THEOREM NeverFatal == ASSUME Disciplined PROVE Spec => []NoFatal
<1>1. Inv => NoFatal
  BY DEF Inv
<1>2. QED
  BY <1>1, Invariance, PTL

(* Python code runs in one thread at a time, with the GIL once there is one. *)
THEOREM Exclusion == ASSUME Disciplined PROVE Spec => []MutualExclusion
<1>1. Inv => MutualExclusion
  <2> SUFFICES ASSUME Inv, NEW t \in Threads, mode[t] = "python"
               PROVE  /\ inited => gil = t
                      /\ \A u \in Threads : mode[u] = "python" => u = t
    BY DEF MutualExclusion
  <2>1. inited => gil = t
    BY Facts
  <2>2. ASSUME NEW u \in Threads, mode[u] = "python" PROVE u = t
    BY <2>2, Facts
  <2>3. QED
    BY <2>1, <2>2
<1>2. QED
  BY <1>1, Invariance, PTL

(* A callback gives the GIL back to native code as it found it.            *)
THEOREM Restoration == ASSUME Disciplined PROVE Spec => []Restored
<1>1. Inv => Restored
  <2> SUFFICES ASSUME Inv, inited, NEW t \in Threads, mode[t] = "native"
               PROVE  gil = t <=> stack[t] # <<>> /\ ~(Top(t).kind = "allow" /\ Top(t).marked)
    BY DEF Restored
  <2>1. gil = t <=> Keeps(t, Len(stack[t]))
    BY DEF Inv, HolderOK
  <2>3. QED
    BY <2>1 DEF Keeps, Top
<1>2. QED
  BY <1>1, Invariance, PTL

(* gobject's copy of the flag never differs from glib's.                   *)
THEOREM Agreement == ASSUME Disciplined PROVE Spec => []Agree
<1>1. Inv => Agree
  BY DEF Inv
<1>2. QED
  BY <1>1, Invariance, PTL

(* A thread state counts exactly the callbacks that use it.                *)
THEOREM Counting == ASSUME Disciplined PROVE Spec => []Counted
<1>1. Inv => Counted
  BY DEF Inv
<1>2. QED
  BY <1>1, Invariance, PTL

=============================================================================
