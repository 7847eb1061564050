----------------------------- MODULE GlibProofs -----------------------------
(***************************************************************************)
(* Proofs about the parts of the glib module that share nothing but GLib:  *)
(* MainLoop, for every set of threads, loops and contexts and every depth  *)
(* of nesting; IOChannel, for any channel, chunk size, counts and number of*)
(* threads; and OptionGroups, for any groups and contexts.                 *)
(***************************************************************************)
EXTENDS MainLoop, IOChannel, OptionGroups, Integers, FiniteSetTheorems, SequenceTheorems,
        WellFoundedInduction, TLAPS

-----------------------------------------------------------------------------
(* Main loops                                                              *)

(* The value that each run saves is the loop of the run it is nested in.   *)
Chained ==
  \A t \in Threads : \A i \in DOMAIN frames[t] :
     frames[t][i].loop # NoLoop => Innermost(t, i - 1, frames[t][i].prev)

Nested == \A t \in Threads : Len(frames[t]) <= MaxNest

LoopsInv == TypeOK /\ Nested /\ Chained /\ Restored

-----------------------------------------------------------------------------
(* Frames                                                                  *)

(* The innermost frame of a thread is one of Frames.                       *)
LEMMA TopTyped ==
  ASSUME TypeOK, NEW t \in Threads, frames[t] # <<>>
  PROVE  /\ Len(frames[t]) \in Nat \ {0} /\ Top(t) = frames[t][Len(frames[t])]
         /\ Top(t) \in Frames
<1>1. frames[t] \in Seq(Frames)  BY DEF TypeOK
<1>2. Len(frames[t]) \in Nat \ {0} /\ frames[t][Len(frames[t])] \in Frames  BY <1>1
<1>3. QED  BY <1>2 DEF Top, Last

(* What Append and Front make of a sequence.                               *)
LEMMA PushedAndPopped ==
  ASSUME NEW S, NEW s \in Seq(S), NEW x \in S
  PROVE  /\ Append(s, x) \in Seq(S) /\ Len(Append(s, x)) = Len(s) + 1
         /\ \A i \in 1..Len(s) : Append(s, x)[i] = s[i]
         /\ Append(s, x)[Len(s) + 1] = x
         /\ s # <<>> => /\ Front(s) \in Seq(S) /\ Len(Front(s)) = Len(s) - 1
                        /\ \A i \in 1..(Len(s) - 1) : Front(s)[i] = s[i]
<1>1. s # <<>> => /\ Front(s) \in Seq(S) /\ Len(Front(s)) = Len(s) - 1
                  /\ \A i \in 1..(Len(s) - 1) : Front(s)[i] = s[i]
  <2> SUFFICES ASSUME s # <<>>
               PROVE  /\ Front(s) \in Seq(S) /\ Len(Front(s)) = Len(s) - 1
                      /\ \A i \in 1..(Len(s) - 1) : Front(s)[i] = s[i]
    OBVIOUS
  <2>1. Len(s) \in Nat \ {0}  OBVIOUS
  <2>2. /\ Len(SubSeq(s, 1, Len(s) - 1)) = Len(s) - 1
        /\ SubSeq(s, 1, Len(s) - 1) \in Seq(S)
        /\ \A i \in 1..(Len(s) - 1) : SubSeq(s, 1, Len(s) - 1)[i] = s[i]
    <3>3. Len(s) - 1 - 1 + 1 = Len(s) - 1  BY <2>1
    <3>4. QED  BY <3>3
  <2>3. QED  BY <2>2 DEF Front
<1>2. QED  BY <1>1

(* A frame of t goes on: the others stay as they are.                      *)
LEMMA BecomeShape ==
  ASSUME TypeOK, NEW t \in Threads, frames[t] # <<>>, NEW g \in Frames, Become(t, g)
  PROVE  /\ frames' \in [Threads -> Seq(Frames)]
         /\ \A u \in Threads :
              /\ Len(frames'[u]) = Len(frames[u])
              /\ \A i \in 1..Len(frames[u]) :
                   frames'[u][i] = IF u = t /\ i = Len(frames[t]) THEN g ELSE frames[u][i]
<1> DEFINE s == frames[t]
<1>1. s \in Seq(Frames) /\ s # <<>> /\ frames \in [Threads -> Seq(Frames)]  BY DEF TypeOK
<1>2. /\ Front(s) \in Seq(Frames) /\ Len(Front(s)) = Len(s) - 1
      /\ \A i \in 1..(Len(s) - 1) : Front(s)[i] = s[i]
  BY <1>1, PushedAndPopped
<1>4. frames' = [frames EXCEPT ![t] = Append(Front(s), g)]  BY DEF Become
<1> DEFINE r == Append(Front(s), g)
<1>6. r \in Seq(Frames) /\ Len(r) = Len(s) /\ \A i \in 1..Len(s) : r[i] = IF i = Len(s) THEN g ELSE s[i]
  BY <1>2
<1>7. frames' = [frames EXCEPT ![t] = r]  BY <1>4
<1> HIDE DEF r
<1>8. QED  BY <1>1, <1>6, <1>7

(* A run or an iteration begins.                                           *)
LEMMA PushShape ==
  ASSUME TypeOK, NEW t \in Threads, NEW g \in Frames,
         frames' = [frames EXCEPT ![t] = Append(@, g)]
  PROVE  /\ frames' \in [Threads -> Seq(Frames)]
         /\ Len(frames'[t]) = Len(frames[t]) + 1 /\ frames'[t][Len(frames[t]) + 1] = g
         /\ \A i \in 1..Len(frames[t]) : frames'[t][i] = frames[t][i]
         /\ \A u \in Threads \ {t} : frames'[u] = frames[u]
<1> DEFINE r == Append(frames[t], g)
<1>1. frames[t] \in Seq(Frames) /\ frames \in [Threads -> Seq(Frames)]  BY DEF TypeOK
<1> HIDE DEF r
<1>4. QED  BY <1>1

(* A run or an iteration is over.                                          *)
LEMMA PopShape ==
  ASSUME TypeOK, NEW t \in Threads, frames[t] # <<>>,
         frames' = [frames EXCEPT ![t] = Front(@)]
  PROVE  /\ frames' \in [Threads -> Seq(Frames)]
         /\ Len(frames'[t]) = Len(frames[t]) - 1
         /\ \A i \in 1..(Len(frames[t]) - 1) : frames'[t][i] = frames[t][i]
         /\ \A u \in Threads \ {t} : frames'[u] = frames[u]
<1> DEFINE r == Front(frames[t])
<1>1. frames[t] \in Seq(Frames) /\ frames \in [Threads -> Seq(Frames)]  BY DEF TypeOK
<1>2. /\ r \in Seq(Frames) /\ Len(r) = Len(frames[t]) - 1
      /\ \A i \in 1..(Len(frames[t]) - 1) : r[i] = frames[t][i]
  BY <1>1, PushedAndPopped
<1>3. frames' = [frames EXCEPT ![t] = r]  OBVIOUS
<1> HIDE DEF r
<1>4. QED  BY <1>1, <1>2, <1>3

-----------------------------------------------------------------------------
(* The references of a loop are finitely many.                             *)
LEMMA RunsFinite ==
  ASSUME NEW l
  PROVE  IsFiniteSet(RunsOf(l)) /\ IsFiniteSet(RunsOf(l)')
<1>1. IsFiniteSet(Threads) /\ MaxNest \in Nat  BY MainLoopAssumption
<1>2. IsFiniteSet(1..MaxNest)  BY <1>1, FS_Interval
<1>3. IsFiniteSet(Threads \X (1..MaxNest))  BY <1>1, <1>2, FS_Product
<1>4. RunsOf(l) \subseteq Threads \X (1..MaxNest) /\ RunsOf(l)' \subseteq Threads \X (1..MaxNest)
  BY DEF RunsOf
<1>5. QED  BY <1>3, <1>4, FS_Subset

(* The innermost run among frames whose loops stay stays.                  *)
LEMMA InnermostSame ==
  ASSUME NEW u \in Threads, NEW n \in Nat, NEW l,
         \A i \in 1..n : frames'[u][i].loop = frames[u][i].loop,
         Innermost(u, n, l)
  PROVE  Innermost(u, n, l)'
<1>2. CASE \E i \in 1..n : /\ l = frames[u][i].loop /\ l # NoLoop
                           /\ \A j \in (i + 1)..n : frames[u][j].loop = NoLoop
  <2>1. PICK i \in 1..n : /\ l = frames[u][i].loop /\ l # NoLoop
                          /\ \A j \in (i + 1)..n : frames[u][j].loop = NoLoop
    BY <1>2
  <2>4. QED  BY DEF Innermost
<1>3. QED  BY DEF Innermost

(* Loops and saved values stay, whatever else changes in the frames.       *)
LEMMA SameKept ==
  ASSUME LoopsInv, UNCHANGED <<current, refs>>,
         frames' \in [Threads -> Seq(Frames)],
         \A u \in Threads :
           /\ Len(frames'[u]) = Len(frames[u])
           /\ \A i \in 1..Len(frames[u]) : /\ frames'[u][i].loop = frames[u][i].loop
                                           /\ frames'[u][i].prev = frames[u][i].prev
  PROVE  Nested' /\ Chained' /\ Restored'
<1>3. ASSUME NEW u \in Threads, NEW n \in Nat, NEW l, n <= Len(frames[u]), Innermost(u, n, l)
      PROVE  Innermost(u, n, l)'
  <2>1. Len(frames[u]) \in Nat  BY DEF LoopsInv, TypeOK
  <2>2. ASSUME NEW i \in 1..n  PROVE frames'[u][i].loop = frames[u][i].loop
    <3>1. i \in 1..Len(frames[u])  BY <2>1, <1>3
    <3>2. QED  BY <3>1
  <2>3. QED  BY <1>3, <2>2, InnermostSame
<1>4. Nested'  BY DEF LoopsInv, Nested
<1>5. Chained'
  <2> SUFFICES ASSUME NEW u \in Threads, NEW i \in DOMAIN frames'[u], frames'[u][i].loop # NoLoop
               PROVE  Innermost(u, i - 1, frames[u][i].prev)'
    BY DEF Chained
  <2>1. Innermost(u, i - 1, frames[u][i].prev) /\ i - 1 \in Nat /\ i - 1 <= Len(frames[u])
    BY DEF LoopsInv, Chained
  <2>3. (Innermost(u, i - 1, frames[u][i].prev) /\ frames'[u][i].prev = frames[u][i].prev)
           => Innermost(u, i - 1, frames[u][i].prev)'
    <3> DEFINE l == frames[u][i].prev
    <3>1. Innermost(u, i - 1, l) => \A m \in {l} : Innermost(u, i - 1, m)'
      BY <1>3
    <3>2. QED  BY <3>1
  <2>4. QED  BY <2>1, <2>3
<1>6. Restored'
  <2>1. \A u \in Threads : Innermost(u, Len(frames[u]), current[u])'
    <3> TAKE u \in Threads
    <3>1. Innermost(u, Len(frames[u]), current[u])  BY DEF LoopsInv, Restored
    <3>2. \A n \in Nat : \A l : (n = Len(frames[u]) /\ l = current[u]) => Innermost(u, n, l)'
      BY <3>1, <1>3
    <3>5. \A m : \A l : (m = Len(frames'[u]) /\ l = current'[u]) => Innermost(u, m, l)'
      BY <3>2
    <3>6. QED  BY <3>5
  <2>2. \A l \in Loops : RunsOf(l)' = RunsOf(l)
    BY DEF RunsOf
  <2>3. QED  BY <2>1, <2>2 DEF LoopsInv, Restored
<1>7. QED  BY <1>4, <1>5, <1>6
(* A frame is pushed that saves the thread's current loop, or runs none.   *)
LEMMA PushKept ==
  ASSUME LoopsInv, NEW t \in Threads, NEW g \in Frames, Len(frames[t]) < MaxNest,
         frames' = [frames EXCEPT ![t] = Append(@, g)],
         \/ /\ g.loop = NoLoop /\ UNCHANGED <<current, refs>>
         \/ /\ g.loop \in Loops /\ g.prev = current[t]
            /\ current' = [current EXCEPT ![t] = g.loop]
            /\ refs' = [refs EXCEPT ![g.loop] = @ + 1]
  PROVE  Nested' /\ Chained' /\ Restored'
<1> SUFFICES ASSUME NEW n, n = Len(frames[t])
             PROVE  Nested' /\ Chained' /\ Restored'
  OBVIOUS
<1>0. TypeOK /\ Nested /\ Chained /\ Restored  BY DEF LoopsInv
<1>1. \A u \in Threads : frames[u] \in Seq(Frames) /\ Len(frames[u]) \in Nat /\ DOMAIN frames[u] = 1..Len(frames[u])
  BY <1>0 DEF TypeOK
<1>2. /\ frames' \in [Threads -> Seq(Frames)]
      /\ Len(frames'[t]) = n + 1 /\ frames'[t][n + 1] = g
      /\ \A i \in 1..n : frames'[t][i] = frames[t][i]
      /\ \A u \in Threads \ {t} : frames'[u] = frames[u]
  BY <1>0, PushShape
<1>3. \A u \in Threads : DOMAIN frames'[u] = 1..Len(frames'[u])  BY <1>2
<1>4. n \in Nat /\ MaxNest \in Nat /\ n < MaxNest /\ NoLoop \notin Loops  BY MainLoopAssumption
<1>5. ASSUME NEW u \in Threads, NEW m \in Nat, NEW l, m <= Len(frames[u]), Innermost(u, m, l)
      PROVE  Innermost(u, m, l)'
  <2>3. QED  BY <1>5, InnermostSame
<1>6. Nested'
  <2> SUFFICES ASSUME NEW u \in Threads  PROVE Len(frames'[u]) <= MaxNest
    BY DEF Nested
  <2>1. CASE u = t  BY <2>1, <1>4
  <2>2. CASE u # t  BY <2>2, <1>0 DEF Nested
  <2>3. QED  BY <2>1, <2>2
<1>7. Chained'
  <2> SUFFICES ASSUME NEW u \in Threads, NEW i \in 1..Len(frames'[u]), frames'[u][i].loop # NoLoop
               PROVE  Innermost(u, i - 1, frames[u][i].prev)'
    BY <1>3 DEF Chained
  <2>1. CASE i \in 1..Len(frames[u])
    <3>1. frames'[u][i] = frames[u][i]  BY <2>1
    <3>2. Innermost(u, i - 1, frames[u][i].prev)  BY <2>1, <1>0 DEF Chained
    <3>4. \A l : l = frames[u][i].prev => Innermost(u, i - 1, l)'  BY <3>2, <1>5
    <3>5. QED  BY <3>1, <3>4
  <2>2. CASE u = t /\ i = n + 1
    <3>1. frames'[u][i] = g  BY <2>2
    <3>3. Innermost(t, n, current[t])  BY <1>0 DEF Restored
    <3>5. \A l : l = current[t] => Innermost(u, i - 1, l)'  BY <3>3, <2>2, <1>5
    <3>6. QED  BY <3>1, <3>5
  <2>3. QED  BY <2>1, <2>2
<1>8. ASSUME NEW u \in Threads  PROVE Innermost(u, Len(frames[u]), current[u])'
  <2>1. Innermost(u, Len(frames[u]), current[u])  BY <1>0 DEF Restored
  <2>2. CASE u # t
    <3>1. current'[u] = current[u] /\ Len(frames'[u]) = Len(frames[u])
      BY <2>2, <1>0 DEF TypeOK
    <3>2. \A m \in Nat : \A l : (m = Len(frames[u]) /\ l = current[u]) => Innermost(u, m, l)'
      BY <2>1, <1>5
    <3>3. QED  BY <3>1, <3>2, <1>1, SMTT(30) DEF Innermost
  <2>3. CASE u = t /\ g.loop = NoLoop
    <3>1. current'[t] = current[t]  BY <2>3, <1>4
    <3>2. \A m \in Nat : \A l : (m = n /\ l = current[t]) => Innermost(t, m, l)'
      BY <2>1, <2>3, <1>5
    <3>3. \A l : l = current[t] => Innermost(t, n + 1, l)'
      <4> TAKE l
      <4> HAVE l = current[t]
      <4>1. Innermost(t, n, l)'  BY <3>2
      <4>2. CASE l = NoLoop /\ \A i \in 1..n : frames'[t][i].loop = NoLoop
        <5>1. \A i \in 1..(n + 1) : frames'[t][i].loop = NoLoop  BY <4>2, <1>2, <2>3
        <5>2. QED  BY <4>2, <5>1 DEF Innermost
      <4>3. CASE \E i \in 1..n : /\ l = frames'[t][i].loop /\ l # NoLoop
                                 /\ \A j \in (i + 1)..n : frames'[t][j].loop = NoLoop
        <5>1. PICK i \in 1..n : /\ l = frames'[t][i].loop /\ l # NoLoop
                                /\ \A j \in (i + 1)..n : frames'[t][j].loop = NoLoop
          BY <4>3
        <5>2. \A j \in (i + 1)..(n + 1) : frames'[t][j].loop = NoLoop
          <6>2. frames'[t][n + 1].loop = NoLoop  BY <1>2, <2>3
          <6>3. QED  BY <5>1, <6>2
        <5>4. QED  BY <5>1, <5>2 DEF Innermost
      <4>4. QED  BY <4>1, <4>2, <4>3 DEF Innermost
    <3>4. QED  BY <2>3, <3>1, <3>3, <1>2
  <2>4. CASE u = t /\ g.loop # NoLoop
    <3>1. current'[t] = g.loop  BY <2>4, <1>0 DEF TypeOK
    <3>4. QED  BY <2>4, <3>1, <1>2 DEF Innermost
  <2>5. QED  BY <2>2, <2>3, <2>4
<1>9. ASSUME NEW l \in Loops  PROVE refs'[l] = Cardinality(RunsOf(l)')
  <2>1. refs[l] = Cardinality(RunsOf(l)) /\ refs[l] \in Nat  BY <1>0 DEF Restored, TypeOK
  <2>2. n + 1 \in 1..MaxNest  BY <1>4
  <2>3. CASE g.loop # l
    <3>1. refs'[l] = refs[l]  BY <2>3, <1>0 DEF TypeOK
    <3>2. RunsOf(l)' = RunsOf(l)
      BY <2>3 DEF RunsOf
    <3>3. QED  BY <3>1, <3>2, <2>1
  <2>4. CASE g.loop = l
    <3>1. refs'[l] = refs[l] + 1  BY <2>4, <1>0, <1>4 DEF TypeOK
    <3>2. RunsOf(l)' = RunsOf(l) \cup {<<t, n + 1>>}
      BY <2>2, <2>4, <1>2 DEF RunsOf
    <3>3. <<t, n + 1>> \notin RunsOf(l)  BY DEF RunsOf
    <3>4. Cardinality(RunsOf(l) \cup {<<t, n + 1>>}) = Cardinality(RunsOf(l)) + 1
      BY <3>3, RunsFinite, FS_AddElement
    <3>5. QED  BY <3>1, <3>2, <3>4, <2>1
  <2>5. QED  BY <2>3, <2>4
<1>10. QED  BY <1>6, <1>7, <1>8, <1>9 DEF Restored
(* The innermost frame is popped, and what it has saved becomes current.   *)
LEMMA PopKept ==
  ASSUME LoopsInv, NEW t \in Threads, frames[t] # <<>>,
         frames' = [frames EXCEPT ![t] = Front(@)],
         \/ Top(t).loop = NoLoop /\ UNCHANGED <<current, refs>>
         \/ /\ Top(t).loop # NoLoop
            /\ current' = [current EXCEPT ![t] = Top(t).prev]
            /\ refs' = IF current[t] = NoLoop THEN refs ELSE [refs EXCEPT ![current[t]] = @ - 1]
  PROVE  /\ Nested' /\ Chained' /\ Restored'
         /\ refs' \in [Loops -> Nat]
<1> SUFFICES ASSUME NEW n, n = Len(frames[t]) - 1
             PROVE  Nested' /\ Chained' /\ Restored' /\ refs' \in [Loops -> Nat]
  OBVIOUS
<1>0. TypeOK /\ Nested /\ Chained /\ Restored  BY DEF LoopsInv
<1>2. /\ frames' \in [Threads -> Seq(Frames)]
      /\ Len(frames'[t]) = n
      /\ \A i \in 1..n : frames'[t][i] = frames[t][i]
      /\ \A u \in Threads \ {t} : frames'[u] = frames[u]
  BY <1>0, PopShape
<1>3. \A u \in Threads : DOMAIN frames'[u] = 1..Len(frames'[u])  BY <1>2
<1>4. /\ n \in Nat /\ Len(frames[t]) = n + 1 /\ NoLoop \notin Loops /\ MaxNest \in Nat
      /\ Top(t) = frames[t][n + 1] /\ Top(t) \in Frames /\ n + 1 \in 1..MaxNest
  BY <1>0, TopTyped, MainLoopAssumption DEF Nested
<1>5. ASSUME NEW u \in Threads, NEW m \in Nat, NEW l, m <= Len(frames'[u]), Innermost(u, m, l)
      PROVE  Innermost(u, m, l)'
  <2>1. \A i \in 1..m : i \in 1..Len(frames'[u])  BY <1>5
  <2>2. \A i \in 1..m : frames'[u][i].loop = frames[u][i].loop  BY <2>1, <1>2
  <2>3. QED  BY <2>2, <1>5, InnermostSame
<1>6. Nested'
  <2> SUFFICES ASSUME NEW u \in Threads  PROVE Len(frames'[u]) <= MaxNest
    BY DEF Nested
  <2>1. CASE u = t  BY <2>1, <1>2, <1>4
  <2>2. CASE u # t  BY <2>2, <1>0 DEF Nested
  <2>3. QED  BY <2>1, <2>2
<1>7. Chained'
  <2> SUFFICES ASSUME NEW u \in Threads, NEW i \in 1..Len(frames'[u]), frames'[u][i].loop # NoLoop
               PROVE  Innermost(u, i - 1, frames[u][i].prev)'
    BY <1>3 DEF Chained
  <2>1. frames'[u][i] = frames[u][i] /\ i \in 1..Len(frames[u])  BY <1>2
  <2>2. Innermost(u, i - 1, frames[u][i].prev)  BY <2>1, <1>0 DEF Chained
  <2>4. \A l : l = frames[u][i].prev => Innermost(u, i - 1, l)'  BY <2>2, <1>5
  <2>5. QED  BY <2>1, <2>4
<1>8. Top(t).loop # NoLoop => current[t] = Top(t).loop
  <2> SUFFICES ASSUME Top(t).loop # NoLoop  PROVE current[t] = Top(t).loop
    OBVIOUS
  <2>1. Innermost(t, n + 1, current[t])  BY <1>0 DEF Restored
  <2>3. PICK i \in 1..(n + 1) : /\ current[t] = frames[t][i].loop
                                /\ \A j \in (i + 1)..(n + 1) : frames[t][j].loop = NoLoop
    BY <2>1 DEF Innermost
  <2>5. QED  BY <2>3, <1>4
<1>9. ASSUME NEW u \in Threads  PROVE Innermost(u, Len(frames[u]), current[u])'
  <2>1. Innermost(u, Len(frames[u]), current[u])  BY <1>0 DEF Restored
  <2>2. CASE u # t
    <3>1. current'[u] = current[u] /\ Len(frames'[u]) = Len(frames[u])
      BY <2>2, <1>0 DEF TypeOK
    <3>2. \A m \in Nat : \A l : (m = Len(frames[u]) /\ l = current[u]) => Innermost(u, m, l)'
      BY <2>1, <3>1, <1>5
    <3>3. QED  BY <3>1, <3>2
  <2>3. CASE u = t /\ Top(t).loop = NoLoop
    <3>1. current'[t] = current[t]  BY <2>3
    <3>2. Innermost(t, n, current[t])
      <4>1. CASE current[t] = NoLoop /\ \A i \in 1..(n + 1) : frames[t][i].loop = NoLoop
        BY <4>1 DEF Innermost
      <4>2. CASE \E i \in 1..(n + 1) : /\ current[t] = frames[t][i].loop /\ current[t] # NoLoop
                                       /\ \A j \in (i + 1)..(n + 1) : frames[t][j].loop = NoLoop
        <5>1. PICK i \in 1..(n + 1) : /\ current[t] = frames[t][i].loop /\ current[t] # NoLoop
                                      /\ \A j \in (i + 1)..(n + 1) : frames[t][j].loop = NoLoop
          BY <4>2
        <5>2. i \in 1..n  BY <5>1, <2>3, <1>4
        <5>4. QED  BY <5>1, <5>2 DEF Innermost
      <4>3. QED  BY <4>2, <2>1, <2>3 DEF Innermost
    <3>3. \A l : l = current[t] => Innermost(t, n, l)'  BY <3>2, <1>2, <1>5
    <3>4. \A m : \A l : (m = Len(frames'[u]) /\ l = current'[u]) => Innermost(u, m, l)'
      BY <2>3, <3>1, <3>3, <1>2
    <3>6. QED  BY <3>4
  <2>4. CASE u = t /\ Top(t).loop # NoLoop
    <3>1. current'[t] = Top(t).prev  BY <2>4, <1>0 DEF TypeOK
    <3>3. Innermost(t, n, Top(t).prev)  BY <2>4, <1>4, <1>0 DEF Chained
    <3>4. \A l : l = Top(t).prev => Innermost(t, n, l)'  BY <3>3, <1>2, <1>5
    <3>5. \A m : \A l : (m = Len(frames'[u]) /\ l = current'[u]) => Innermost(u, m, l)'
      BY <2>4, <3>1, <3>4, <1>2
    <3>6. QED  BY <3>5
  <2>5. QED  BY <2>2, <2>3, <2>4
<1>10. ASSUME NEW l \in Loops  PROVE refs'[l] = Cardinality(RunsOf(l)') /\ refs'[l] \in Nat
  <2>1. refs[l] = Cardinality(RunsOf(l)) /\ refs[l] \in Nat  BY <1>0 DEF Restored, TypeOK
  <2>3. CASE Top(t).loop # l
    <3>1. refs'[l] = refs[l]  BY <2>3, <1>8, <1>0 DEF TypeOK
    <3>2. RunsOf(l)' = RunsOf(l)
      <4>1. ASSUME NEW u \in Threads, NEW i \in 1..MaxNest
            PROVE  <<u, i>> \in RunsOf(l)' <=> <<u, i>> \in RunsOf(l)
        <5>1. CASE u # t  BY <5>1 DEF RunsOf
        <5>2. CASE u = t
          <6>1. DOMAIN frames'[t] = 1..n /\ DOMAIN frames[t] = 1..(n + 1)  BY <1>2
          <6>2. i \in 1..n => frames'[t][i] = frames[t][i]  BY <1>2
          <6>4. QED  BY <2>3, <1>4, <6>1, <6>2 DEF RunsOf
        <5>3. QED  BY <5>1, <5>2
      <4>2. RunsOf(l)' \subseteq Threads \X (1..MaxNest) /\ RunsOf(l) \subseteq Threads \X (1..MaxNest)
        BY DEF RunsOf
      <4>3. \A p \in Threads \X (1..MaxNest) : p \in RunsOf(l)' <=> p \in RunsOf(l)
        <5> TAKE p \in Threads \X (1..MaxNest)
        <5>2. QED  BY <4>1
      <4>4. QED  BY <4>2, <4>3
    <3>3. QED  BY <3>1, <3>2, <2>1
  <2>4. CASE Top(t).loop = l
    <3>1. refs'[l] = refs[l] - 1  BY <2>4, <1>8, <1>0, <1>4 DEF TypeOK
    <3>2. RunsOf(l)' = RunsOf(l) \ {<<t, n + 1>>}
      <4>1. ASSUME NEW u \in Threads, NEW i \in 1..MaxNest
            PROVE  <<u, i>> \in RunsOf(l)' <=> <<u, i>> \in RunsOf(l) /\ ~(u = t /\ i = n + 1)
        <5>1. CASE u # t  BY <5>1 DEF RunsOf
        <5>2. CASE u = t
          <6>1. DOMAIN frames'[t] = 1..n /\ DOMAIN frames[t] = 1..(n + 1)  BY <1>2
          <6>2. i \in 1..n => frames'[t][i] = frames[t][i]  BY <1>2
          <6>4. QED  BY <6>1, <6>2 DEF RunsOf
        <5>3. QED  BY <5>1, <5>2
      <4>2. RunsOf(l)' \subseteq Threads \X (1..MaxNest) /\ RunsOf(l) \subseteq Threads \X (1..MaxNest)
        BY DEF RunsOf
      <4>3. QED  BY <4>1, <4>2
    <3>3. <<t, n + 1>> \in RunsOf(l)  BY <2>4, <1>4 DEF RunsOf
    <3>4. Cardinality(RunsOf(l) \ {<<t, n + 1>>}) = Cardinality(RunsOf(l)) - 1
      BY <3>3, RunsFinite, FS_RemoveElement
    <3>5. Cardinality(RunsOf(l)') \in Nat  BY RunsFinite, FS_CardinalityType
    <3>6. QED  BY <3>1, <3>2, <3>4, <3>5, <2>1
  <2>5. QED  BY <2>3, <2>4
<1>11. refs' \in [Loops -> Nat]
  <2>1. \E f : refs' = [l \in Loops |-> f[l]]
    BY <1>0 DEF TypeOK
  <2>2. QED  BY <2>1, <1>10
<1>12. QED  BY <1>6, <1>7, <1>9, <1>10, <1>11 DEF Restored
-----------------------------------------------------------------------------
LEMMA InitInv == Init => LoopsInv
<1> SUFFICES ASSUME Init  PROVE LoopsInv
  OBVIOUS
<1>1. TypeOK
  <2>1. 0 \in 0..PipeSize /\ 0 \in 0..MaxSignals  BY MainLoopAssumption
  <2>2. frames \in [Threads -> Seq(Frames)]  BY DEF Init
  <2>3. QED  BY <2>1, <2>2 DEF Init, TypeOK, Fates
<1>2. \A t \in Threads : Len(frames[t]) = 0 /\ frames[t] = <<>>  BY DEF Init
<1>3. Nested /\ Chained  BY <1>2, MainLoopAssumption DEF Nested, Chained
<1>4. \A t \in Threads : Innermost(t, Len(frames[t]), current[t])  BY DEF Init, Innermost
<1>5. ASSUME NEW l \in Loops  PROVE refs[l] = Cardinality(RunsOf(l))
  <2>1. RunsOf(l) = {}  BY <1>2 DEF RunsOf
  <2>2. QED  BY <2>1, FS_EmptySet DEF Init
<1>6. QED  BY <1>1, <1>3, <1>4, <1>5 DEF LoopsInv, Restored

(* The innermost frame goes on with its loop and the value that it saved.  *)
LEMMA BecomeKept ==
  ASSUME LoopsInv, NEW t \in Threads, frames[t] # <<>>, NEW g \in Frames, Become(t, g),
         g.loop = Top(t).loop, g.prev = Top(t).prev, UNCHANGED <<current, refs>>
  PROVE  frames' \in [Threads -> Seq(Frames)] /\ Nested' /\ Chained' /\ Restored'
<1>1. TypeOK  BY DEF LoopsInv
<1>2. Top(t) = frames[t][Len(frames[t])]  BY <1>1, TopTyped
<1>3. /\ frames' \in [Threads -> Seq(Frames)]
      /\ \A u \in Threads :
           /\ Len(frames'[u]) = Len(frames[u])
           /\ \A i \in 1..Len(frames[u]) :
                frames'[u][i] = IF u = t /\ i = Len(frames[t]) THEN g ELSE frames[u][i]
  BY <1>1, BecomeShape
<1>4. \A u \in Threads : \A i \in 1..Len(frames[u]) : /\ frames'[u][i].loop = frames[u][i].loop
                                                       /\ frames'[u][i].prev = frames[u][i].prev
  BY <1>2, <1>3
<1>5. QED  BY <1>3, <1>4, SameKept

LEMMA StutterKept ==
  ASSUME LoopsInv, UNCHANGED <<frames, current, refs>>
  PROVE  frames' \in [Threads -> Seq(Frames)] /\ Nested' /\ Chained' /\ Restored'
BY SameKept DEF LoopsInv, TypeOK

(* Each step keeps the invariant.                                          *)
LEMMA NextInv == LoopsInv /\ [Next]_vars => LoopsInv'
<1> SUFFICES ASSUME LoopsInv, [Next]_vars  PROVE LoopsInv'
  OBVIOUS
<1>0. TypeOK  BY DEF LoopsInv
<1>1. CASE Handle
  <2>1. UNCHANGED <<frames, current, refs>>  BY <1>1 DEF Handle
  <2>2. frames' \in [Threads -> Seq(Frames)] /\ Nested' /\ Chained' /\ Restored'  BY <2>1, StutterKept
  <2>3. TypeOK'  BY <1>0, <1>1 DEF TypeOK, Handle
  <2>4. QED  BY <2>2, <2>3 DEF LoopsInv
<1>2. ASSUME NEW t \in Threads, NEW l \in Loops, NEW r \in BOOLEAN, Create(t, l, r)  PROVE LoopsInv'
  <2>1. UNCHANGED <<frames, current, refs>>  BY <1>2 DEF Create
  <2>2. frames' \in [Threads -> Seq(Frames)] /\ Nested' /\ Chained' /\ Restored'  BY <2>1, StutterKept
  <2>3. TypeOK'  BY <1>0, <1>2 DEF TypeOK, Create
  <2>4. QED  BY <2>2, <2>3 DEF LoopsInv
<1>3. ASSUME NEW t \in Threads, NEW l \in Loops, Dealloc(t, l) \/ Quit(t, l)  PROVE LoopsInv'
  <2>1. UNCHANGED <<frames, current, refs>>  BY <1>3 DEF Dealloc, Quit
  <2>2. frames' \in [Threads -> Seq(Frames)] /\ Nested' /\ Chained' /\ Restored'  BY <2>1, StutterKept
  <2>3. TypeOK'  BY <1>0, <1>3 DEF TypeOK, Dealloc, Quit, sigVars
  <2>4. QED  BY <2>2, <2>3 DEF LoopsInv
<1>4. ASSUME NEW t \in Threads, NEW l \in Loops, Run(t, l)  PROVE LoopsInv'
  <2> DEFINE g == [loop |-> l, ctx |-> Ctx[l], prev |-> current[t], todo |-> {}, woken |-> FALSE,
                   phase |-> IF Ownable(t, Ctx[l]) THEN "poll" ELSE "wait"]
  <2>1. g \in Frames /\ g.loop = l /\ g.prev = current[t]
    BY <1>0, MainLoopAssumption DEF TypeOK, Frames, Phases
  <2>2. /\ frames' = [frames EXCEPT ![t] = Append(@, g)] /\ Len(frames[t]) < MaxNest
        /\ current' = [current EXCEPT ![t] = l] /\ refs' = [refs EXCEPT ![l] = @ + 1]
    BY <1>4 DEF Run
  <2>3. owner' \in [Contexts -> Threads \cup {NoThread}]
    BY <1>0, <1>4 DEF TypeOK, Run
  <2> HIDE DEF g
  <2>4. Nested' /\ Chained' /\ Restored'  BY <2>1, <2>2, PushKept
  <2>5. frames' \in [Threads -> Seq(Frames)]  BY <1>0, <2>1, <2>2, PushShape
  <2>6. TypeOK'  BY <1>0, <1>4, <2>3, <2>5 DEF TypeOK, Run, sigVars
  <2>7. QED  BY <2>4, <2>6 DEF LoopsInv
<1>5. ASSUME NEW t \in Threads, NEW c \in Contexts, Iterate(t, c)  PROVE LoopsInv'
  <2> DEFINE g == [loop |-> NoLoop, ctx |-> c, prev |-> NoLoop, todo |-> {}, woken |-> FALSE,
                   phase |-> "poll"]
  <2>1. g \in Frames /\ g.loop = NoLoop
    BY DEF Frames, Phases
  <2>2. /\ frames' = [frames EXCEPT ![t] = Append(@, g)] /\ Len(frames[t]) < MaxNest
        /\ UNCHANGED <<current, refs>>
    BY <1>5 DEF Iterate
  <2> HIDE DEF g
  <2>4. Nested' /\ Chained' /\ Restored'  BY <2>1, <2>2, PushKept
  <2>5. frames' \in [Threads -> Seq(Frames)]  BY <1>0, <2>1, <2>2, PushShape
  <2>6. TypeOK'  BY <1>0, <1>5, <2>5 DEF TypeOK, Iterate, sigVars, loopVars
  <2>7. QED  BY <2>4, <2>6 DEF LoopsInv
<1>6. ASSUME NEW t \in Threads, Acquire(t)  PROVE LoopsInv'
  <2> DEFINE g == [Top(t) EXCEPT !.phase = "poll"]
  <2>1. frames[t] # <<>> /\ Become(t, g) /\ UNCHANGED <<current, refs>>  BY <1>6 DEF Acquire, In
  <2>2. Top(t) \in Frames  BY <1>0, <2>1, TopTyped
  <2>3. g \in Frames /\ g.loop = Top(t).loop /\ g.prev = Top(t).prev /\ Top(t).ctx \in Contexts
    BY <2>2 DEF Frames, Phases
  <2> HIDE DEF g
  <2>4. frames' \in [Threads -> Seq(Frames)] /\ Nested' /\ Chained' /\ Restored'
    BY <2>1, <2>3, BecomeKept
  <2>5. TypeOK'  BY <1>0, <1>6, <2>4 DEF TypeOK, Acquire, sigVars, loopVars
  <2>6. QED  BY <2>4, <2>5 DEF LoopsInv
<1>7. ASSUME NEW t \in Threads, NEW woken \in BOOLEAN, GoesOn(t), StartCheck(t, woken),
             UNCHANGED <<refs, current>>
      PROVE  frames' \in [Threads -> Seq(Frames)] /\ Nested' /\ Chained' /\ Restored'
  <2> DEFINE g == [Top(t) EXCEPT !.phase = "check", !.woken = woken, !.todo = Sources(Top(t).ctx)]
  <2>1. frames[t] # <<>> /\ Become(t, g)  BY <1>7 DEF GoesOn, In, StartCheck
  <2>2. Top(t) \in Frames  BY <1>0, <2>1, TopTyped
  <2>3. Sources(Top(t).ctx) \in SUBSET Loops  BY <1>0 DEF Sources, TypeOK
  <2>4. g \in Frames /\ g.loop = Top(t).loop /\ g.prev = Top(t).prev
    BY <2>2, <2>3 DEF Frames, Phases
  <2> HIDE DEF g
  <2>5. QED  BY <1>7, <2>1, <2>4, BecomeKept
<1>8. ASSUME NEW t \in Threads, PollPipe(t) \/ PollOther(t)  PROVE LoopsInv'
  <2>1. Readable(t) \in BOOLEAN  BY DEF Readable
  <2>2. frames' \in [Threads -> Seq(Frames)] /\ Nested' /\ Chained' /\ Restored'
    BY <1>7, <1>8, <2>1 DEF PollPipe, PollOther
  <2>3. TypeOK'  BY <1>0, <1>8, <2>2 DEF TypeOK, PollPipe, PollOther, sigVars, loopVars
  <2>4. QED  BY <2>2, <2>3 DEF LoopsInv
<1>9. ASSUME NEW t \in Threads, NEW l \in Loops, Check(t, l)  PROVE LoopsInv'
  <2> DEFINE g == [Top(t) EXCEPT !.todo = @ \ {l}]
  <2>1. frames[t] # <<>> /\ Become(t, g) /\ UNCHANGED <<current, refs>>  BY <1>9 DEF Check, In
  <2>2. Top(t) \in Frames  BY <1>0, <2>1, TopTyped
  <2>3. g \in Frames /\ g.loop = Top(t).loop /\ g.prev = Top(t).prev
    BY <2>2 DEF Frames
  <2> HIDE DEF g
  <2>4. frames' \in [Threads -> Seq(Frames)] /\ Nested' /\ Chained' /\ Restored'
    BY <2>1, <2>3, BecomeKept
  <2>5. /\ tripped' \in BOOLEAN /\ running' \in [Loops -> BOOLEAN] /\ err' \in [Threads -> Fates]
    BY <1>0, <1>9 DEF TypeOK, Check, CheckSignals, Fates
  <2>6. pipe' \in 0..PipeSize
    BY <1>0, <1>9, MainLoopAssumption DEF TypeOK, Check
  <2>7. TypeOK'  BY <1>0, <1>9, <2>4, <2>5, <2>6 DEF TypeOK, Check
  <2>8. QED  BY <2>4, <2>7 DEF LoopsInv
<1>10. ASSUME NEW t \in Threads, Dispatch(t)  PROVE LoopsInv'
  <2> DEFINE g == [Top(t) EXCEPT !.phase = "callback", !.woken = FALSE]
  <2>1. frames[t] # <<>> /\ Become(t, g) /\ UNCHANGED <<current, refs>>  BY <1>10 DEF Dispatch, In
  <2>2. Top(t) \in Frames  BY <1>0, <2>1, TopTyped
  <2>3. g \in Frames /\ g.loop = Top(t).loop /\ g.prev = Top(t).prev
    BY <2>2 DEF Frames, Phases
  <2> HIDE DEF g
  <2>4. frames' \in [Threads -> Seq(Frames)] /\ Nested' /\ Chained' /\ Restored'
    BY <2>1, <2>3, BecomeKept
  <2>5. TypeOK'  BY <1>0, <1>10, <2>4 DEF TypeOK, Dispatch, sigVars, loopVars
  <2>6. QED  BY <2>4, <2>5 DEF LoopsInv
<1>11. ASSUME NEW t \in Threads, frames[t] # <<>>, GiveBack(t)
       PROVE  owner' \in [Contexts -> Threads \cup {NoThread}]
  <2>2. QED  BY <1>0, <1>11 DEF TypeOK, GiveBack
<1>12. ASSUME NEW t \in Threads, EndIteration(t)  PROVE LoopsInv'
  <2>1. frames[t] # <<>> /\ UNCHANGED <<current, refs>> /\ err' \in [Threads -> Fates]
    BY <1>0, <1>12 DEF EndIteration, In, TypeOK, Lost, Fates
  <2>2. CASE Top(t).loop # NoLoop
    <3> DEFINE g == [Top(t) EXCEPT !.phase = "poll"]
    <3>1. Become(t, g) /\ UNCHANGED owner  BY <1>12, <2>2 DEF EndIteration
    <3>2. Top(t) \in Frames  BY <1>0, <2>1, TopTyped
    <3>3. g \in Frames /\ g.loop = Top(t).loop /\ g.prev = Top(t).prev
      BY <3>2 DEF Frames, Phases
    <3> HIDE DEF g
    <3>4. frames' \in [Threads -> Seq(Frames)] /\ Nested' /\ Chained' /\ Restored'
      BY <2>1, <3>1, <3>3, BecomeKept
    <3>5. TypeOK'  BY <1>0, <1>12, <2>1, <3>1, <3>4 DEF TypeOK, EndIteration, sigVars, loopVars
    <3>6. QED  BY <3>4, <3>5 DEF LoopsInv
  <2>3. CASE Top(t).loop = NoLoop
    <3>1. frames' = [frames EXCEPT ![t] = Front(@)] /\ GiveBack(t)  BY <1>12, <2>3 DEF EndIteration
    <3>2. Nested' /\ Chained' /\ Restored'  BY <2>1, <2>3, <3>1, PopKept
    <3>3. frames' \in [Threads -> Seq(Frames)]  BY <1>0, <2>1, <3>1, PopShape
    <3>4. owner' \in [Contexts -> Threads \cup {NoThread}]  BY <2>1, <3>1, <1>11
    <3>5. TypeOK'  BY <1>0, <1>12, <2>1, <3>3, <3>4 DEF TypeOK, EndIteration, sigVars, loopVars
    <3>6. QED  BY <3>2, <3>5 DEF LoopsInv
  <2>4. QED  BY <2>2, <2>3
<1>13. ASSUME NEW t \in Threads, Return(t)  PROVE LoopsInv'
  <2>1. /\ frames[t] # <<>> /\ frames' = [frames EXCEPT ![t] = Front(@)] /\ GiveBack(t)
        /\ Top(t).loop # NoLoop /\ current' = [current EXCEPT ![t] = Top(t).prev]
        /\ refs' = IF current[t] = NoLoop THEN refs ELSE [refs EXCEPT ![current[t]] = @ - 1]
    BY <1>13 DEF Return, In
  <2>2. Nested' /\ Chained' /\ Restored' /\ refs' \in [Loops -> Nat]  BY <2>1, PopKept
  <2>3. frames' \in [Threads -> Seq(Frames)]  BY <1>0, <2>1, PopShape
  <2>4. owner' \in [Contexts -> Threads \cup {NoThread}]  BY <2>1, <1>11
  <2>5. Top(t).prev \in Loops \cup {NoLoop}  BY <1>0, <2>1, TopTyped DEF Frames
  <2>6. current' \in [Threads -> Loops \cup {NoLoop}] /\ err' \in [Threads -> Fates]
    BY <1>0, <1>13, <2>5 DEF TypeOK, Return, Raise, Fates
  <2>7. TypeOK'  BY <1>0, <1>13, <2>2, <2>3, <2>4, <2>6 DEF TypeOK, Return, sigVars, loopVars
  <2>8. QED  BY <2>2, <2>7 DEF LoopsInv
<1>14. ASSUME NEW t \in Threads, Signal(t)  PROVE LoopsInv'
  <2>1. UNCHANGED <<current, refs>> /\ (UNCHANGED frames \/ (GoesOn(t) /\ StartCheck(t, FALSE)))
    BY <1>14 DEF Signal
  <2>2. frames' \in [Threads -> Seq(Frames)] /\ Nested' /\ Chained' /\ Restored'
    BY <2>1, <1>7, StutterKept
  <2>3. pipe' \in 0..PipeSize /\ sent' \in 0..MaxSignals
    BY <1>0, <1>14, MainLoopAssumption DEF TypeOK, Signal
  <2>4. TypeOK'  BY <1>0, <1>14, <2>2, <2>3 DEF TypeOK, Signal, loopVars
  <2>5. QED  BY <2>2, <2>4 DEF LoopsInv
<1>15. CASE UNCHANGED vars
  <2>1. UNCHANGED <<frames, current, refs>>  BY <1>15 DEF vars
  <2>2. Nested' /\ Chained' /\ Restored'  BY <2>1, StutterKept
  <2>3. TypeOK'  BY <1>0, <1>15 DEF TypeOK, vars, loopVars, sigVars
  <2>4. QED  BY <2>2, <2>3 DEF LoopsInv
<1>16. QED
  BY <1>1, <1>2, <1>3, <1>4, <1>5, <1>6, <1>8, <1>9, <1>10, <1>12, <1>13, <1>14, <1>15 DEF Next, Step

(* After any nesting of runs and iterations in any threads, whatever loops
   they run, quit or run again, each thread's pyg_current_main_loop is the
   loop of its innermost run, and each loop has one reference per run.     *)
THEOREM CurrentRestored == Spec => []Restored
<1>1. Init => LoopsInv  BY InitInv
<1>2. LoopsInv /\ [Next]_vars => LoopsInv'  BY NextInv
<1>3. LoopsInv => Restored  BY DEF LoopsInv
<1>4. QED  BY <1>1, <1>2, <1>3, PTL DEF Spec

THEOREM MainLoopTypes == Spec => []TypeOK
<1>1. Init => LoopsInv  BY InitInv
<1>2. LoopsInv /\ [Next]_vars => LoopsInv'  BY NextInv
<1>3. LoopsInv => TypeOK  BY DEF LoopsInv
<1>4. QED  BY <1>1, <1>2, <1>3, PTL DEF Spec

-----------------------------------------------------------------------------
(* IO channels                                                             *)

Buffers == [active : BOOLEAN, max : Int, total : Nat, size : Int, got : SUBSET Int]
Lists == [active : BOOLEAN, first : BOOLEAN, got : SUBSET Int]

ChannelTyped ==
  /\ position \in 0..Length /\ hooks \in BOOLEAN
  /\ reading \in [Readers -> Buffers] /\ lines \in [Readers -> Lists]

(* A call that is not in progress has nothing.                             *)
Resting ==
  \A r \in Readers : /\ ~reading[r].active => reading[r].got = {}
                     /\ ~lines[r].active => lines[r].got = {}

(* The bytes up to p are in results res, in calls in progress, which have R
   and L, or in d.                                                         *)
Cover(res, R, L, d, p) ==
  UNION (res \cup {R[r] : r \in Readers} \cup {L[r] : r \in Readers} \cup {d}) = 1..p

(* Nothing is in two places; unlike in OnceOnly, two calls in progress, or a
   call and a result, that have the same bytes would be two places.        *)
Apart(res, R, L, d) ==
  /\ \A s \in res : s \cap d = {} /\ \A q \in res : s = q \/ s \cap q = {}
  /\ \A r \in Readers :
       /\ R[r] \cap d = {} /\ L[r] \cap d = {}
       /\ \A s \in res : R[r] \cap s = {} /\ L[r] \cap s = {}
       /\ \A q \in Readers :
            /\ R[r] \cap L[q] = {}
            /\ q # r => R[r] \cap R[q] = {} /\ L[r] \cap L[q] = {}

Partition(res, R, L, d, p) == Cover(res, R, L, d, p) /\ Apart(res, R, L, d)
Got(calls) == [r \in Readers |-> calls[r].got]
Places == Partition(Genuine(results), Got(reading), Got(lines), dropped, position)

(* Without hooks, one call at a time is in progress.                       *)
Solo ==
  ~hooks => \A r, q \in Readers :
    /\ reading[r].active /\ reading[q].active => r = q
    /\ lines[r].active /\ lines[q].active => r = q
    /\ ~(reading[r].active /\ lines[q].active)

(* ... and has what comes right before the position.                       *)
Interval(S) == \E i, j \in Int : S = i..j
UpTo(p, S) == S = {} \/ \E a \in 0..p : S = (a + 1)..p
Pieces ==
  ~hooks => /\ \A r \in Readers : UpTo(position, reading[r].got) /\ UpTo(position, lines[r].got)
            /\ \A p \in Genuine(results) : Interval(p)

(* Without hooks nobody closes a channel that another thread reads.        *)
Idle == ~hooks /\ channel = "unreadable" => \A r \in Readers : reading[r].got = {}

ChannelInv ==
  ChannelTyped /\ Resting /\ Places /\ Solo /\ Pieces /\ Idle /\ NoJunk /\ InBuffer

-----------------------------------------------------------------------------
(* What the places of bytes are after a step.                              *)

LEMMA Swapped ==
  ASSUME NEW res, NEW R, NEW L, NEW d, NEW p, Partition(res, R, L, d, p)
  PROVE  Partition(res, L, R, d, p)
<1>1. Cover(res, L, R, d, p)
  BY DEF Partition, Cover
<1>2. Apart(res, L, R, d)
  BY DEF Partition, Apart
<1> QED
  BY <1>1, <1>2 DEF Partition

(* A call gets bytes that follow the position.                             *)
LEMMA Given ==
  ASSUME NEW res, NEW R \in [Readers -> SUBSET Int], NEW L, NEW d, NEW p \in Nat, NEW q \in Nat,
         p <= q, Partition(res, R, L, d, p), NEW r \in Readers,
         NEW M, M = [R EXCEPT ![r] = @ \cup ((p + 1)..q)]
  PROVE  Partition(res, M, L, d, q)
<1> DEFINE new == (p + 1)..q
<1>4. /\ \A s \in res : s \subseteq 1..p
      /\ \A t \in Readers : R[t] \subseteq 1..p /\ L[t] \subseteq 1..p
      /\ d \subseteq 1..p
  BY DEF Partition, Cover
<1> HIDE DEF new
<1>5. Apart(res, M, L, d)
  <2>1. ASSUME NEW t \in Readers, NEW S, S \subseteq 1..p, R[t] \cap S = {} PROVE M[t] \cap S = {}
    BY <2>1
  <2>2. ASSUME NEW t \in Readers
        PROVE  /\ M[t] \cap d = {} /\ \A s \in res : M[t] \cap s = {}
               /\ \A u \in Readers : M[t] \cap L[u] = {}
    <3>1. /\ R[t] \cap d = {} /\ \A s \in res : R[t] \cap s = {}
          /\ \A u \in Readers : R[t] \cap L[u] = {}
      BY DEF Partition, Apart
    <3>2. M[t] \cap d = {}
      BY <1>4, <3>1
    <3>3. \A s \in res : M[t] \cap s = {}
      BY <1>4, <3>1
    <3>4. \A u \in Readers : M[t] \cap L[u] = {}
      BY <1>4, <3>1
    <3> QED
      BY <3>2, <3>3, <3>4
  <2>3. ASSUME NEW t \in Readers, NEW u \in Readers, t # u PROVE M[t] \cap M[u] = {}
    <3>1. R[t] \cap R[u] = {} /\ R[u] \cap R[t] = {}
      BY <2>3 DEF Partition, Apart
    <3>2. M[t] \cap R[u] = {} /\ M[u] \cap R[t] = {}
      BY <1>4, <3>1
    <3> QED
      BY <2>3, <3>2
  <2> QED
    BY <2>2, <2>3 DEF Partition, Apart
<1>6. Cover(res, M, L, d, q)
  <2> DEFINE old == res \cup {R[t] : t \in Readers} \cup {L[t] : t \in Readers} \cup {d}
             all == res \cup {M[t] : t \in Readers} \cup {L[t] : t \in Readers} \cup {d}
  <2>1. UNION old = 1..p
    BY DEF Partition, Cover
  <2> DEFINE before == UNION old
             after == UNION all
  <2> QED
    BY <2>1 DEF Cover
<1> QED
  BY <1>5, <1>6 DEF Partition

(* A call returns S of what it has, and drops the rest.                    *)
Ends(r, S, res, new, R, M, d, e) ==
  /\ S \subseteq R[r] /\ M = [R EXCEPT ![r] = {}]
  /\ res \cup ({S} \ {{}}) \subseteq new /\ new \subseteq res \cup {S}
  /\ e = d \cup (R[r] \ S)

LEMMA Finished ==
  ASSUME NEW res, NEW R \in [Readers -> SUBSET Int], NEW L, NEW d, NEW p, NEW r \in Readers,
         Partition(res, R, L, d, p), NEW S, NEW new, NEW e, NEW M, Ends(r, S, res, new, R, M, d, e)
  PROVE  Partition(new, M, L, e, p)
<1>1. /\ S \subseteq R[r] /\ M = [R EXCEPT ![r] = {}] /\ e = d \cup (R[r] \ S)
      /\ \A T \in new : T \in res \/ T = S
      /\ \A T \in res : T \in new
      /\ S = {} \/ S \in new
  BY DEF Ends
<1>4. \A t \in Readers : M[t] = IF t = r THEN {} ELSE R[t]
  BY <1>1
<1>5. Apart(res, R, L, d)
  BY DEF Partition
<1>2. Apart(new, M, L, e)
  <2>1. ASSUME NEW T \in new PROVE T \cap e = {} /\ \A q \in new : T = q \/ T \cap q = {}
    <3>1. CASE T \in res
      <4>1. /\ T \cap d = {} /\ R[r] \cap T = {}
            /\ \A q \in res : T = q \/ T \cap q = {}
        BY <1>5, <3>1 DEF Apart
      <4>2. T \cap e = {} /\ T \cap S = {}
        BY <1>1, <4>1
      <4> QED
        BY <1>1, <4>1, <4>2
    <3>2. CASE T = S
      BY <1>1, <1>5, <3>2 DEF Apart
    <3> QED
      BY <1>1, <2>1, <3>1, <3>2
  <2>2. ASSUME NEW t \in Readers
        PROVE  /\ M[t] \cap e = {} /\ L[t] \cap e = {}
               /\ \A T \in new : M[t] \cap T = {} /\ L[t] \cap T = {}
    <3>1. L[t] \cap R[r] = {} /\ (t # r => R[t] \cap R[r] = {})
      BY <1>5 DEF Apart
    <3>2. M[t] \cap R[r] = {} /\ M[t] \subseteq R[t]
      BY <1>4, <3>1
    <3>3. R[t] \cap d = {} /\ L[t] \cap d = {} /\ \A T \in res : R[t] \cap T = {} /\ L[t] \cap T = {}
      BY <1>5 DEF Apart
    <3>4. M[t] \cap e = {} /\ L[t] \cap e = {}
      BY <1>1, <3>1, <3>2, <3>3
    <3>5. M[t] \cap S = {} /\ L[t] \cap S = {}
      BY <1>1, <3>1, <3>2
    <3>6. \A T \in res : M[t] \cap T = {} /\ L[t] \cap T = {}
      BY <3>2, <3>3
    <3> QED
      BY <1>1, <3>4, <3>5, <3>6
  <2>3. ASSUME NEW t \in Readers, NEW q \in Readers
        PROVE  M[t] \cap L[q] = {} /\ (q # t => M[t] \cap M[q] = {} /\ L[t] \cap L[q] = {})
    BY <1>4, <1>5 DEF Apart
  <2> QED
    BY <2>1, <2>2, <2>3 DEF Apart
<1>3. Cover(new, M, L, e, p)
  <2> DEFINE old == res \cup {R[t] : t \in Readers} \cup {L[t] : t \in Readers} \cup {d}
             all == new \cup {M[t] : t \in Readers} \cup {L[t] : t \in Readers} \cup {e}
  <2>1. UNION all \subseteq UNION old
    <3>1. R[r] \in old /\ d \in old /\ \A t \in Readers : R[t] \in old /\ L[t] \in old
      OBVIOUS
    <3>2. res \subseteq old
      OBVIOUS
    <3>3. e \subseteq UNION old /\ S \subseteq UNION old
      BY <1>1, <3>1
    <3>4. \A t \in Readers : M[t] \subseteq UNION old /\ L[t] \subseteq UNION old
      BY <1>4, <3>1
    <3>5. \A T \in new : T \subseteq UNION old
      BY <1>1, <3>2, <3>3
    <3> QED
      BY <3>3, <3>4, <3>5
  <2>2. UNION old \subseteq UNION all
    <3>1. R[r] \subseteq S \cup e /\ d \subseteq e
      BY <1>1
    <3>2. \A t \in Readers : R[t] \subseteq UNION all
      BY <1>1, <3>1
    <3> QED
      BY <1>1, <3>1, <3>2
  <2> QED
    BY <2>1, <2>2 DEF Partition, Cover
<1> QED
  BY <1>2, <1>3 DEF Partition

(* A line is read between calls.                                           *)
LEMMA ReadAtOnce ==
  ASSUME NEW res, NEW R \in [Readers -> SUBSET Int], NEW L, NEW d, NEW p \in Nat, NEW q \in Nat,
         p <= q, Partition(res, R, L, d, p), NEW r \in Readers, R[r] = {},
         NEW new, new = res \cup ({(p + 1)..q} \ {{}})
  PROVE  Partition(new, R, L, d, q)
<1> DEFINE M == [R EXCEPT ![r] = @ \cup ((p + 1)..q)]
<1>1. Partition(res, M, L, d, q)
  BY Given
<1>2. M \in [Readers -> SUBSET Int]
  OBVIOUS
<1>3. M[r] = (p + 1)..q
  OBVIOUS
<1>4. [M EXCEPT ![r] = {}] = R
  OBVIOUS
<1> HIDE DEF M
<1>5. Ends(r, M[r], res, new, M, R, d, d)
  BY <1>3, <1>4 DEF Ends
<1> QED
  BY <1>1, <1>2, <1>3, <1>4, <1>5, Finished

-----------------------------------------------------------------------------
(* The sizes of buffers and lines.                                         *)

LEMMA Sizes ==
  ASSUME NEW max \in Int, NEW total \in Nat
  PROVE  BufferSize(max, total) \in Int /\ BufferSize(max, total) <= Chunk
<1>1. 2^Width \in Nat /\ 2^Width > 0 /\ Chunk \in Nat
  BY IOChannelAssumption
<1> HIDE DEF BufferSize
<1> QED
  BY <1>1 DEF BufferSize

LEMMA LineEndFollows ==
  ASSUME ChannelTyped
  PROVE  LineEnd \in position..Length
<1> position \in 0..Length /\ Length \in Nat /\ LineEnds \subseteq 1..Length
  BY IOChannelAssumption DEF ChannelTyped
<1>3. CASE channel # "open"
  BY <1>3 DEF LineEnd
<1>1. CASE channel = "open" /\ \E e \in LineEnds : e > position
  <2> DEFINE T == {e \in LineEnds : e > position}
  <2>1. T \subseteq 1..Length /\ T # {}
    BY <1>1
  <2>2. T \subseteq Nat
    BY <2>1
  <2>3. \E x \in T : \A y \in T : x =< y
    <3>1. PICK x \in T : \A y \in T : ~(<<y, x>> \in OpToRel(<, Nat))
      BY <2>1, <2>2, WFMin, NatLessThanWellFounded
    <3>2. ASSUME NEW y \in T PROVE x =< y
      <4>1. ~(y < x)
        BY <2>2, <3>1 DEF OpToRel
      <4> QED
        BY <4>1
    <3> QED
      BY <3>2
  <2>4. Min(T) \in T
    BY <2>3 DEF Min
  <2>5. Min(T) \in 1..Length /\ Min(T) > position
    BY <2>4
  <2>6. LineEnd = Min(T)
    BY <1>1 DEF LineEnd
  <2> QED
    BY <2>5, <2>6
<1>2. CASE channel = "open" /\ ~(\E e \in LineEnds : e > position)
  BY <1>2 DEF LineEnd
<1> QED
  BY <1>1, <1>2, <1>3

(* The buffer is as large as the next chunk needs.                         *)
LEMMA SizedFits ==
  ASSUME NEW b \in Buffers
  PROVE  /\ Sized(b) \in Buffers /\ Sized(b).active = TRUE /\ Sized(b).got = b.got
         /\ Sized(b).total = b.total /\ Sized(b).max = b.max
         /\ b.total + BufferSize(b.max, b.total) <= Sized(b).size
<1>1. BufferSize(b.max, b.total) \in Int
  BY Sizes DEF Buffers
<1>2. b.total \in Nat /\ b.size \in Int
  BY DEF Buffers
<1> DEFINE need == BufferSize(b.max, b.total) + b.total
<1>3. Sized(b) = [b EXCEPT !.active = TRUE, !.size = IF need > @ THEN need ELSE @]
  BY DEF Sized
<1>4. need \in Int /\ need = b.total + BufferSize(b.max, b.total)
  BY <1>1, <1>2
<1> HIDE DEF need
<1>5. /\ Sized(b) = [active |-> TRUE, max |-> b.max, total |-> b.total, got |-> b.got,
                    size |-> IF need > b.size THEN need ELSE b.size]
      /\ b.max \in Int /\ b.got \in SUBSET Int
  BY <1>3 DEF Buffers
<1> QED
  BY <1>4, <1>5 DEF Buffers

-----------------------------------------------------------------------------
(* The steps.                                                              *)

LEMMA GenuineAdds ==
  ASSUME NEW res, NEW S, Junk \notin S
  PROVE  /\ Genuine(res \cup {S}) = Genuine(res) \cup {S}
         /\ Genuine(res \cup ({S} \ {{}})) = Genuine(res) \cup ({S} \ {{}})
<1>1. S \ {Junk} = S
  OBVIOUS
<1> QED
  BY <1>1 DEF Genuine

(* What calls have is of the channel.                                      *)
LEMMA NothingElse ==
  ASSUME ChannelInv, NEW r \in Readers
  PROVE  reading[r].got \subseteq 1..position /\ lines[r].got \subseteq 1..position
         /\ Junk \notin reading[r].got /\ Junk \notin lines[r].got
<1>1. reading[r].got \subseteq 1..position /\ lines[r].got \subseteq 1..position
  BY DEF ChannelInv, Places, Partition, Cover, Got
<1> QED
  BY <1>1 DEF Junk

LEMMA GotByOne ==
  ASSUME NEW S, NEW f \in [Readers -> S], NEW r \in Readers, NEW b,
         NEW g, g = [f EXCEPT ![r] = b]
  PROVE  Got(g) = [Got(f) EXCEPT ![r] = b.got]
BY DEF Got

LEMMA GotTyped ==
  ASSUME ChannelTyped
  PROVE  /\ Got(reading) \in [Readers -> SUBSET Int] /\ Got(lines) \in [Readers -> SUBSET Int]
         /\ \A r \in Readers : Got(reading)[r] = reading[r].got /\ Got(lines)[r] = lines[r].got
BY DEF Got, ChannelTyped, Buffers, Lists

(* A thread that runs excludes those in read() unless there are hooks.     *)
LEMMA ReadStep ==
  ASSUME ChannelInv, NEW r \in Readers, MayRun(r), NEW b \in Buffers,
         reading' = [reading EXCEPT ![r] = b], lines' = lines, hooks' = hooks,
         position' \in 0..Length, Places',
         IF b.active THEN b.total = Cardinality(b.got) /\ b.total + BufferSize(b.max, b.total) <= b.size
                     ELSE b.got = {},
         ~hooks => /\ UpTo(position', b.got)
                   /\ \A p \in Genuine(results') : Interval(p)
                   /\ channel = "unreadable" => b.got = {},
         channel' = channel, NoJunk'
  PROVE  ChannelInv'
<1>1. reading'[r] = b /\ \A q \in Readers : q # r => reading'[q] = reading[q]
  BY DEF ChannelInv, ChannelTyped
<1>2. ChannelTyped'
  BY DEF ChannelInv, ChannelTyped
<1>3. Resting'
  BY DEF ChannelInv, Resting
<1>4. ~hooks => /\ \A q \in Readers : q # r => ~reading[q].active
                /\ \A q \in Readers : ~lines[q].active
  BY DEF MayRun
<1>5. Solo'
  BY <1>4 DEF Solo
<1>6. Pieces'
  <2>1. ~hooks => /\ \A q \in Readers : q # r => reading[q].got = {}
                  /\ \A q \in Readers : lines[q].got = {}
    BY <1>4 DEF ChannelInv, Resting
  <2> QED
    BY <1>1, <2>1 DEF Pieces, UpTo
<1>7. InBuffer'
  BY DEF ChannelInv, InBuffer
<1>8. Idle'
  BY <1>1 DEF ChannelInv, Idle
<1> QED
  BY <1>2, <1>3, <1>5, <1>6, <1>7, <1>8 DEF ChannelInv

LEMMA LinesStep ==
  ASSUME ChannelInv, NEW r \in Readers, NEW l \in Lists,
         ~hooks => \A q \in Readers : ~reading[q].active /\ (q # r => ~lines[q].active),
         lines' = [lines EXCEPT ![r] = l], reading' = reading, hooks' = hooks,
         position' \in 0..Length, Places', l.active \/ l.got = {},
         ~hooks => /\ UpTo(position', l.got)
                   /\ \A p \in Genuine(results') : Interval(p),
         channel' \in {channel, "crashed"}, NoJunk'
  PROVE  ChannelInv'
<1>1. lines'[r] = l /\ \A q \in Readers : q # r => lines'[q] = lines[q]
  BY DEF ChannelInv, ChannelTyped
<1>2. ChannelTyped'
  BY DEF ChannelInv, ChannelTyped
<1>3. Resting'
  BY DEF ChannelInv, Resting
<1>4. Solo'
  BY DEF Solo
<1>5. Pieces'
  <2>1. ~hooks => \A q \in Readers : reading[q].got = {} /\ (q # r => lines[q].got = {})
    BY DEF ChannelInv, Resting
  <2> QED
    BY <1>1, <2>1 DEF Pieces, UpTo
<1>6. InBuffer'
  BY DEF ChannelInv, InBuffer
<1>7. Idle'
  BY DEF ChannelInv, Idle
<1> QED
  BY <1>2, <1>3, <1>4, <1>5, <1>6, <1>7 DEF ChannelInv

LEMMA QuietKeeps ==
  ASSUME ChannelInv, UNCHANGED <<position, reading, results, dropped, lines>>, hooks' \in {hooks, TRUE},
         channel' \in {"none", "open"} => channel \in {"none", "open"},
         ~hooks /\ channel' = "unreadable" =>
           channel = "unreadable" \/ \A r \in Readers : ~reading[r].active
  PROVE  ChannelInv'
<1>1. ChannelTyped' /\ Resting'
  BY DEF ChannelInv, ChannelTyped, Resting
<1>2. Places'
  BY DEF ChannelInv, Places
<1>3. Solo'
  BY DEF ChannelInv, Solo
<1>4. Pieces'
  BY DEF ChannelInv, Pieces
<1>5. InBuffer'
  BY DEF ChannelInv, InBuffer
<1>6. NoJunk'
  BY DEF ChannelInv, NoJunk
<1>7. Idle'
  BY DEF ChannelInv, Idle, Resting
<1> QED
  BY <1>1, <1>2, <1>3, <1>4, <1>5, <1>6, <1>7 DEF ChannelInv

LEMMA ReadKeeps ==
  ASSUME ChannelInv, NEW r \in Readers, NEW max \in MaxCounts, Read(r, max)
  PROVE  ChannelInv'
<1> DEFINE a == [NotReading EXCEPT !.max = max]
           b == Sized(a)
<1>1. /\ reading' = [reading EXCEPT ![r] = b] /\ MayRun(r) /\ ~reading[r].active
      /\ UNCHANGED <<channel, position, results, dropped, hooks, lines>>
  BY DEF Read, Ready
<1>2. a \in Buffers /\ a.got = {} /\ a.total = 0
  <2>1. max \in Int
    BY IOChannelAssumption
  <2>2. NotReading \in Buffers /\ NotReading.got = {} /\ NotReading.total = 0
    BY DEF NotReading, Buffers
  <2> QED
    BY <2>1, <2>2 DEF Buffers
<1> HIDE DEF a
<1>3. /\ b \in Buffers /\ b.active = TRUE /\ b.got = {} /\ b.total = 0
      /\ b.total + BufferSize(b.max, b.total) <= b.size
  BY <1>2, SizedFits
<1> HIDE DEF b
<1>4. Cardinality(b.got) = 0
  BY <1>3, FS_EmptySet
<1>5. Places'
  <2>1. Got(reading') = [Got(reading) EXCEPT ![r] = b.got]
    BY <1>1, GotByOne DEF ChannelInv, ChannelTyped
  <2>2. Got(reading)[r] = {} /\ Got(reading) \in [Readers -> SUBSET Int]
    BY <1>1, GotTyped DEF ChannelInv, Resting
  <2>3. Got(reading') = Got(reading)
    BY <1>3, <2>1, <2>2
  <2> QED
    BY <1>1, <2>3 DEF ChannelInv, Places
<1>6. position' \in 0..Length
  BY <1>1 DEF ChannelInv, ChannelTyped
<1>7. NoJunk'
  BY <1>1 DEF ChannelInv, NoJunk
<1> QED
  BY <1>1, <1>3, <1>4, <1>5, <1>6, <1>7, ReadStep DEF ChannelInv, Pieces, UpTo

(* A call ends, and drops what it does not return.                         *)
LEMMA ReadEnds ==
  ASSUME ChannelInv, NEW r \in Readers, MayRun(r), NEW S \in SUBSET reading[r].got,
         reading' = [reading EXCEPT ![r] = NotReading], dropped' = dropped \cup (reading[r].got \ S),
         Genuine(results) \cup ({S} \ {{}}) \subseteq Genuine(results'),
         Genuine(results') \subseteq Genuine(results) \cup {S},
         ~hooks => Interval(S), NoJunk',
         UNCHANGED <<channel, position, hooks, lines>>
  PROVE  ChannelInv'
<1>2. NotReading \in Buffers /\ ~NotReading.active /\ NotReading.got = {}
  BY DEF NotReading, Buffers
<1>3. Places'
  <2>1. Got(reading') = [Got(reading) EXCEPT ![r] = NotReading.got]
    BY GotByOne DEF ChannelInv, ChannelTyped
  <2>2. Got(reading)[r] = reading[r].got /\ Got(reading) \in [Readers -> SUBSET Int]
    BY GotTyped DEF ChannelInv
  <2>3. Ends(r, S, Genuine(results), Genuine(results'), Got(reading), Got(reading'), dropped, dropped')
    BY <1>2, <2>1, <2>2 DEF Ends
  <2>4. Partition(Genuine(results'), Got(reading'), Got(lines), dropped', position)
    BY <2>2, <2>3, Finished DEF ChannelInv, Places
  <2> QED
    BY <2>4 DEF Places
<1>4. position' \in 0..Length
  BY DEF ChannelInv, ChannelTyped
<1>5. ~hooks => \A p \in Genuine(results') : Interval(p)
  BY DEF ChannelInv, Pieces
<1>6. UpTo(position', NotReading.got)
  BY <1>2 DEF UpTo
<1> QED
  BY <1>2, <1>3, <1>4, <1>5, <1>6, ReadStep

LEMMA NothingIsPiece == Interval({})
<1>1. {} = 1..0 /\ 1 \in Int /\ 0 \in Int
  OBVIOUS
<1> QED
  BY <1>1 DEF Interval

LEMMA ReadFailsKeeps ==
  ASSUME ChannelInv, NEW r \in Readers, ReadFails(r)
  PROVE  ChannelInv'
<1>1. /\ reading' = [reading EXCEPT ![r] = NotReading] /\ MayRun(r)
      /\ dropped' = dropped \cup (reading[r].got \ {})
      /\ UNCHANGED <<channel, position, results, hooks, lines>>
  BY DEF ReadFails
<1>2. NoJunk'
  BY <1>1 DEF ChannelInv, NoJunk
<1> QED
  BY <1>1, <1>2, NothingIsPiece, ReadEnds

LEMMA ReadRefusedKeeps ==
  ASSUME ChannelInv, NEW r \in Readers, NEW n, ReadRefused(r, n)
  PROVE  ChannelInv'
<1> DEFINE got == reading[r].got
           string == Resized(got, (reading[r].total + n) % 2^Width)
           S == string \ {Junk}
<1>1. /\ reading' = [reading EXCEPT ![r] = NotReading] /\ MayRun(r)
      /\ dropped' = dropped \cup (got \ string) /\ results' = results \cup {string}
      /\ channel = "unreadable" /\ UNCHANGED <<channel, position, hooks, lines>>
  BY DEF ReadRefused
<1>2. Junk \notin got /\ string \subseteq got \cup {Junk}
  BY NothingElse DEF Resized, First
<1> HIDE DEF string
<1>3. S \in SUBSET got /\ got \ string = got \ S
  BY <1>2
<1>4. Genuine(results') = Genuine(results) \cup {S}
  BY <1>1 DEF Genuine
<1>5. ~hooks => Interval(S)
  BY <1>1, <1>3, NothingIsPiece DEF ChannelInv, Idle
<1>6. NoJunk'
  BY <1>1 DEF NoJunk
<1> HIDE DEF S
<1> QED
  BY <1>1, <1>3, <1>4, <1>5, <1>6, ReadEnds

(* What a call that runs alone has, with what follows the position.        *)
LEMMA Follows ==
  ASSUME NEW p \in Nat, NEW q \in Nat, p <= q, NEW S \in SUBSET Int, UpTo(p, S),
         NEW T \in SUBSET Int, T = S \cup ((p + 1)..q)
  PROVE  UpTo(q, T) /\ Interval(T) /\ Interval(S)
<1>1. CASE S = {}
  <2>2. S = 1..0 /\ 1 \in Int /\ 0 \in Int
    BY <1>1
  <2> QED
    BY <2>2 DEF UpTo, Interval
<1>2. CASE S # {}
  <2>1. PICK a \in 0..p : S = (a + 1)..p
    BY <1>2 DEF UpTo
  <2>2. T = (a + 1)..q /\ a \in 0..q
    BY <2>1
  <2> QED
    BY <2>1, <2>2 DEF UpTo, Interval
<1> QED
  BY <1>1, <1>2

LEMMA ReadCharsKeeps ==
  ASSUME ChannelInv, NEW r \in Readers, NEW n \in 0..Chunk, NEW status, ReadChars(r, n, status)
  PROVE  ChannelInv'
<1> DEFINE b == reading[r]
           bytes == (position + 1)..(position + n)
           more == Filled(b, bytes)
           goes == Continues(b, n, status)
<1>1. /\ MayRun(r) /\ b.active = TRUE /\ position + n <= Length /\ position' = position + n
      /\ reading' = [reading EXCEPT ![r] = IF goes THEN Sized(more) ELSE NotReading]
      /\ results' = IF goes THEN results ELSE results \cup {more.got}
      /\ channel = "open" /\ UNCHANGED <<channel, dropped, hooks, lines>>
  BY DEF ReadChars
<1> HIDE DEF goes
<1>2. b \in Buffers /\ position \in Nat /\ n \in Nat
  BY DEF ChannelInv, ChannelTyped
<1>3. b.total = Cardinality(b.got)
  BY <1>1 DEF ChannelInv, InBuffer
<1>4. b.got \subseteq 1..position
  BY NothingElse
<1>5. /\ more = [b EXCEPT !.total = b.total + n, !.got = b.got \cup bytes]
      /\ Cardinality(b.got \cup bytes) = b.total + n
  <2>1. IsFiniteSet(1..position) /\ IsFiniteSet(bytes) /\ Cardinality(bytes) = n
    BY <1>2, FS_Interval
  <2>2. IsFiniteSet(b.got)
    BY <1>4, <2>1, FS_Subset
  <2>3. b.got \cap bytes = {}
    BY <1>2, <1>4
  <2>4. Cardinality(b.got \cup bytes) = Cardinality(b.got) + n
    <3> HIDE DEF b, bytes
    <3>1. Cardinality(b.got \cup bytes)
            = Cardinality(b.got) + Cardinality(bytes) - Cardinality(b.got \cap bytes)
      BY <2>1, <2>2, FS_Union
    <3>2. Cardinality(b.got \cap bytes) = 0
      BY <2>3, FS_EmptySet
    <3> QED
      BY <2>1, <3>1, <3>2
  <2> QED
    BY <1>3, <2>1, <2>4 DEF Filled
<1>6. more \in Buffers /\ more.got = b.got \cup bytes /\ more.total = b.total + n
  <2>1. b.total + n \in Nat /\ b.got \cup bytes \in SUBSET Int
    BY <1>2 DEF Buffers
  <2> HIDE DEF b, bytes, more
  <2>2. more = [active |-> b.active, max |-> b.max, total |-> b.total + n, size |-> b.size,
                got |-> b.got \cup bytes]
    BY <1>2, <1>5 DEF Buffers
  <2> QED
    BY <1>2, <2>1, <2>2 DEF Buffers
<1> HIDE DEF more
<1> DEFINE R == Got(reading)
<1>7. R[r] = b.got /\ R \in [Readers -> SUBSET Int]
  BY GotTyped DEF ChannelInv
<1> DEFINE M == [R EXCEPT ![r] = @ \cup bytes]
<1>8. Partition(Genuine(results), M, Got(lines), dropped, position')
  <2>1. Partition(Genuine(results), R, Got(lines), dropped, position)
    BY DEF ChannelInv, Places
  <2>2. position' \in Nat /\ position <= position' /\ M = [R EXCEPT ![r] = @ \cup ((position + 1)..position')]
    BY <1>1, <1>2
  <2> HIDE DEF R, M
  <2> QED
    BY <1>2, <1>7, <2>1, <2>2, Given
<1>9. position' \in 0..Length
  BY <1>1, <1>2
<1>10. ~hooks => /\ UpTo(position', more.got)
                 /\ Interval(more.got)
  <2>1. position' \in Nat /\ position <= position'
    BY <1>1, <1>2
  <2>2. ~hooks => UpTo(position, b.got)
    BY DEF ChannelInv, Pieces
  <2>3. more.got = b.got \cup ((position + 1)..position')
    BY <1>1, <1>6
  <2> HIDE DEF b, bytes, R, M
  <2> SUFFICES ASSUME ~hooks PROVE UpTo(position', more.got) /\ Interval(more.got)
    OBVIOUS
  <2>4. UpTo(position, b.got) /\ b.got \in SUBSET Int /\ more.got \in SUBSET Int
    BY <1>6, <2>2 DEF Buffers
  <2> QED
    BY <1>2, <2>1, <2>3, <2>4, Follows
<1>11. CASE goes
  <2> DEFINE c == Sized(more)
  <2>1. /\ c \in Buffers /\ c.active = TRUE /\ c.got = more.got /\ c.total = more.total
        /\ c.total + BufferSize(c.max, c.total) <= c.size
    BY <1>6, SizedFits
  <2>2. reading' = [reading EXCEPT ![r] = c] /\ results' = results
    BY <1>1, <1>11
  <2> HIDE DEF c
  <2>3. Places'
    <3>1. Got(reading') = [R EXCEPT ![r] = c.got]
      BY <2>2, GotByOne DEF ChannelInv, ChannelTyped
    <3>2. Got(reading') = M
      BY <1>6, <1>7, <2>1, <3>1
    <3> QED
      BY <1>1, <1>8, <2>2, <3>2 DEF Places
  <2>4. c.total = Cardinality(c.got)
    BY <1>5, <2>1
  <2>5. ~hooks => /\ UpTo(position', c.got)
                  /\ \A p \in Genuine(results') : Interval(p)
    BY <1>10, <2>1, <2>2 DEF ChannelInv, Pieces
  <2>6. NoJunk'
    BY <1>1, <2>2 DEF ChannelInv, NoJunk
  <2> HIDE DEF b, bytes, M, R
  <2> QED
    BY <1>1, <1>9, <2>1, <2>2, <2>3, <2>4, <2>5, <2>6, ReadStep
<1>12. CASE ~goes
  <2>1. NotReading \in Buffers /\ NotReading.active = FALSE /\ NotReading.got = {}
    BY DEF NotReading, Buffers
  <2>2. reading' = [reading EXCEPT ![r] = NotReading] /\ results' = results \cup {more.got}
    BY <1>1, <1>12
  <2>6. Junk \notin more.got
    BY <1>2, <1>4, <1>6 DEF Junk
  <2>7. Genuine(results') = Genuine(results) \cup {more.got}
    BY <2>2, <2>6, GenuineAdds
  <2>8. NoJunk'
    BY <1>1, <2>2, <2>6 DEF ChannelInv, NoJunk
  <2>3. Places'
    <3>1. Got(reading') = [R EXCEPT ![r] = NotReading.got]
      BY <2>2, GotByOne DEF ChannelInv, ChannelTyped
    <3>2. M \in [Readers -> SUBSET Int] /\ M[r] = more.got
      BY <1>6, <1>7
    <3>3. [M EXCEPT ![r] = {}] = [R EXCEPT ![r] = {}]
      BY <1>7
    <3> HIDE DEF M, R
    <3>4. Got(reading') = [M EXCEPT ![r] = {}]
      BY <2>1, <3>1, <3>3
    <3>5. Ends(r, M[r], Genuine(results), Genuine(results'), M, Got(reading'), dropped, dropped)
      BY <2>7, <3>2, <3>4 DEF Ends
    <3>6. Partition(Genuine(results'), Got(reading'), Got(lines), dropped, position')
      BY <1>8, <3>2, <3>5, Finished
    <3> QED
      BY <1>1, <3>6 DEF Places
  <2>4. ~hooks => \A p \in Genuine(results') : Interval(p)
    BY <1>10, <2>7 DEF ChannelInv, Pieces
  <2>5. UpTo(position', NotReading.got)
    BY <2>1 DEF UpTo
  <2> HIDE DEF b, bytes, M, R
  <2> QED
    BY <1>1, <1>9, <2>1, <2>2, <2>3, <2>4, <2>5, <2>8, ReadStep
<1> QED
  BY <1>11, <1>12

(* A thread that reads lines excludes all others, with hooks or without.   *)
LEMMA LinesAlone ==
  ASSUME ChannelInv, NEW r \in Readers, lines[r].active
  PROVE  ~hooks => \A q \in Readers : ~reading[q].active /\ (q # r => ~lines[q].active)
BY DEF ChannelInv, Solo

LEMMA LineReadKeeps ==
  ASSUME ChannelInv, NEW r \in Readers, LineRead(r)
  PROVE  ChannelInv'
<1>1. /\ MayRun(r) /\ ~reading[r].active /\ position' = LineEnd
      /\ results' = results \cup ({(position + 1)..position'} \ {{}})
      /\ UNCHANGED <<channel, reading, dropped, hooks, lines>>
  BY DEF LineRead, Ready, Line
<1>2. position \in 0..Length /\ position' \in position..Length /\ Length \in Nat
  BY <1>1, LineEndFollows, IOChannelAssumption DEF ChannelInv, ChannelTyped
<1>10. Junk \notin (position + 1)..position'
  BY <1>2 DEF Junk
<1>11. Genuine(results') = Genuine(results) \cup ({(position + 1)..position'} \ {{}})
  BY <1>1, <1>10, GenuineAdds
<1>12. NoJunk'
  BY <1>1, <1>10 DEF ChannelInv, NoJunk
<1>3. Places'
  <2>1. Got(reading)[r] = {} /\ Got(reading) \in [Readers -> SUBSET Int]
    BY <1>1, GotTyped DEF ChannelInv, Resting
  <2>2. position \in Nat /\ position' \in Nat /\ position <= position'
    BY <1>2
  <2>3. Partition(Genuine(results'), Got(reading), Got(lines), dropped, position')
    BY <1>11, <2>1, <2>2, ReadAtOnce DEF ChannelInv, Places
  <2> QED
    BY <1>1, <2>3 DEF Places
<1>4. lines' = [lines EXCEPT ![r] = lines[r]] /\ lines[r] \in Lists /\ ~lines[r].active
  BY <1>1 DEF ChannelInv, ChannelTyped, MayRun
<1>5. lines[r].got = {} /\ UpTo(position', lines[r].got)
  BY <1>4 DEF ChannelInv, Resting, UpTo
<1>6. ~hooks => \A q \in Readers : ~reading[q].active /\ (q # r => ~lines[q].active)
  BY <1>1 DEF MayRun
<1>7. Interval((position + 1)..position')
  <2>1. position + 1 \in Int /\ position' \in Int
    BY <1>2
  <2> QED
    BY <2>1 DEF Interval
<1>8. ~hooks => \A p \in Genuine(results') : Interval(p)
  BY <1>7, <1>11 DEF ChannelInv, Pieces
<1>9. position' \in 0..Length
  BY <1>2
<1> QED
  BY <1>1, <1>3, <1>4, <1>5, <1>6, <1>8, <1>9, <1>12, LinesStep

LEMMA ReadLinesKeeps ==
  ASSUME ChannelInv, NEW r \in Readers, ReadLines(r)
  PROVE  ChannelInv'
<1> DEFINE l == [lines[r] EXCEPT !.active = TRUE]
<1>1. /\ MayRun(r) /\ ~reading[r].active /\ lines' = [lines EXCEPT ![r] = l]
      /\ UNCHANGED <<channel, position, reading, results, dropped, hooks>>
  BY DEF ReadLines, Ready
<1>2. lines[r] \in Lists /\ ~lines[r].active
  BY <1>1 DEF ChannelInv, ChannelTyped, MayRun
<1>3. l \in Lists /\ l.got = lines[r].got /\ lines[r].got = {} /\ l.active
  BY <1>2 DEF Lists, ChannelInv, Resting
<1> HIDE DEF l
<1>4. Places'
  <2>1. Got(lines') = [Got(lines) EXCEPT ![r] = l.got]
    BY <1>1, GotByOne DEF ChannelInv, ChannelTyped
  <2>2. Got(lines)[r] = lines[r].got /\ Got(lines) \in [Readers -> SUBSET Int]
    BY GotTyped DEF ChannelInv
  <2>3. Got(lines') = Got(lines)
    BY <1>3, <2>1, <2>2
  <2> QED
    BY <1>1, <2>3 DEF ChannelInv, Places
<1>5. ~hooks => \A q \in Readers : ~reading[q].active /\ (q # r => ~lines[q].active)
  BY <1>1 DEF MayRun
<1>6. position' \in 0..Length /\ UpTo(position', l.got)
  BY <1>1, <1>3 DEF ChannelInv, ChannelTyped, UpTo
<1>7. NoJunk'
  BY <1>1 DEF ChannelInv, NoJunk
<1> QED
  BY <1>1, <1>3, <1>4, <1>5, <1>6, <1>7, LinesStep DEF ChannelInv, Pieces

LEMMA AppendLineKeeps ==
  ASSUME ChannelInv, NEW r \in Readers, AppendLine(r)
  PROVE  ChannelInv'
<1> DEFINE l == [active |-> TRUE, first |-> FALSE,
                 got |-> lines[r].got \cup ((position + 1)..LineEnd)]
<1>1. /\ lines[r].active /\ position' = LineEnd /\ lines' = [lines EXCEPT ![r] = l]
      /\ UNCHANGED <<channel, reading, results, dropped, hooks>>
  BY DEF AppendLine, Line
<1>2. position \in 0..Length /\ position' \in position..Length /\ Length \in Nat
  BY <1>1, LineEndFollows, IOChannelAssumption DEF ChannelInv, ChannelTyped
<1>3. position \in Nat /\ position' \in Nat /\ position <= position' /\ position' \in 0..Length
  BY <1>2
<1>4. /\ l.active /\ l.got = lines[r].got \cup ((position + 1)..position')
      /\ l \in Lists /\ lines[r].got \in SUBSET Int /\ l.got \in SUBSET Int
  <2>1. lines[r].got \in SUBSET Int
    BY DEF ChannelInv, ChannelTyped, Lists
  <2> QED
    BY <1>1, <2>1 DEF Lists
<1> HIDE DEF l
<1>5. Places'
  <2>1. Got(lines') = [Got(lines) EXCEPT ![r] = l.got]
    BY <1>1, GotByOne DEF ChannelInv, ChannelTyped
  <2>2. Got(lines)[r] = lines[r].got /\ Got(lines) \in [Readers -> SUBSET Int]
    BY GotTyped DEF ChannelInv
  <2>3. Got(lines') = [Got(lines) EXCEPT ![r] = @ \cup ((position + 1)..position')]
    BY <1>4, <2>1, <2>2
  <2>4. Partition(Genuine(results), Got(lines), Got(reading), dropped, position)
    BY Swapped DEF ChannelInv, Places
  <2>5. Partition(Genuine(results), Got(lines'), Got(reading), dropped, position')
    BY <1>3, <2>2, <2>3, <2>4, Given
  <2>6. Partition(Genuine(results), Got(reading), Got(lines'), dropped, position')
    BY <2>5, Swapped
  <2> QED
    BY <1>1, <2>6 DEF Places
<1>6. ~hooks => UpTo(position', l.got)
  <2> SUFFICES ASSUME ~hooks PROVE UpTo(position', l.got)
    OBVIOUS
  <2>1. UpTo(position, lines[r].got)
    BY DEF ChannelInv, Pieces
  <2> QED
    BY <1>3, <1>4, <2>1, Follows
<1>7. ~hooks => \A p \in Genuine(results') : Interval(p)
  BY <1>1 DEF ChannelInv, Pieces
<1>8. NoJunk'
  BY <1>1 DEF ChannelInv, NoJunk
<1> QED
  BY <1>1, <1>3, <1>4, <1>5, <1>6, <1>7, <1>8, LinesAlone, LinesStep

LEMMA LinesReturnKeeps ==
  ASSUME ChannelInv, NEW r \in Readers, LinesReturn(r)
  PROVE  ChannelInv'
<1>1. /\ lines[r].active /\ lines' = [lines EXCEPT ![r] = NoLines]
      /\ results' = results \cup ({lines[r].got} \ {{}})
      /\ UNCHANGED <<channel, position, reading, dropped, hooks>>
  BY DEF LinesReturn
<1>7. Junk \notin lines[r].got
  BY NothingElse
<1>8. Genuine(results') = Genuine(results) \cup ({lines[r].got} \ {{}})
  BY <1>1, <1>7, GenuineAdds
<1>9. NoJunk'
  BY <1>1, <1>7 DEF ChannelInv, NoJunk
<1>2. NoLines \in Lists /\ ~NoLines.active /\ NoLines.got = {}
  BY DEF NoLines, Lists
<1>3. Places'
  <2>1. Got(lines') = [Got(lines) EXCEPT ![r] = NoLines.got]
    BY <1>1, GotByOne DEF ChannelInv, ChannelTyped
  <2>2. Got(lines)[r] = lines[r].got /\ Got(lines) \in [Readers -> SUBSET Int]
    BY GotTyped DEF ChannelInv
  <2>3. Partition(Genuine(results), Got(lines), Got(reading), dropped, position)
    BY Swapped DEF ChannelInv, Places
  <2>4. Ends(r, lines[r].got, Genuine(results), Genuine(results'), Got(lines), Got(lines'), dropped, dropped)
    BY <1>2, <1>8, <2>1, <2>2 DEF Ends
  <2>5. Partition(Genuine(results'), Got(lines'), Got(reading), dropped, position)
    BY <2>2, <2>3, <2>4, Finished
  <2>6. Partition(Genuine(results'), Got(reading), Got(lines'), dropped, position)
    BY <2>5, Swapped
  <2> QED
    BY <1>1, <2>6 DEF Places
<1>4. ~hooks => Interval(lines[r].got)
  <2> SUFFICES ASSUME ~hooks PROVE Interval(lines[r].got)
    OBVIOUS
  <2>1. UpTo(position, lines[r].got) /\ lines[r].got \in SUBSET Int
    BY DEF ChannelInv, Pieces, ChannelTyped, Lists
  <2>2. position \in Nat
    BY DEF ChannelInv, ChannelTyped
  <2> QED
    BY <2>1, <2>2, Follows
<1>5. ~hooks => \A p \in Genuine(results') : Interval(p)
  BY <1>4, <1>8 DEF ChannelInv, Pieces
<1>6. position' \in 0..Length /\ UpTo(position', NoLines.got)
  BY <1>1, <1>2 DEF ChannelInv, ChannelTyped, UpTo
<1> QED
  BY <1>1, <1>2, <1>3, <1>5, <1>6, <1>9, LinesAlone, LinesStep

LEMMA LinesFailKeeps ==
  ASSUME ChannelInv, NEW r \in Readers, LinesFail(r)
  PROVE  ChannelInv'
<1>1. /\ lines[r].active /\ lines' = [lines EXCEPT ![r] = NoLines]
      /\ dropped' = dropped \cup lines[r].got
      /\ channel' \in {channel, "crashed"} /\ UNCHANGED <<position, reading, results, hooks>>
  BY DEF LinesFail
<1>2. NoLines \in Lists /\ ~NoLines.active /\ NoLines.got = {}
  BY DEF NoLines, Lists
<1>3. Places'
  <2>1. Got(lines') = [Got(lines) EXCEPT ![r] = NoLines.got]
    BY <1>1, GotByOne DEF ChannelInv, ChannelTyped
  <2>2. Got(lines)[r] = lines[r].got /\ Got(lines) \in [Readers -> SUBSET Int]
    BY GotTyped DEF ChannelInv
  <2>3. Partition(Genuine(results), Got(lines), Got(reading), dropped, position)
    BY Swapped DEF ChannelInv, Places
  <2>4. Ends(r, {}, Genuine(results), Genuine(results), Got(lines), Got(lines'), dropped, dropped')
    BY <1>1, <1>2, <2>1, <2>2 DEF Ends
  <2>5. Partition(Genuine(results), Got(lines'), Got(reading), dropped', position)
    BY <2>2, <2>3, <2>4, Finished
  <2>6. Partition(Genuine(results), Got(reading), Got(lines'), dropped', position)
    BY <2>5, Swapped
  <2> QED
    BY <1>1, <2>6 DEF Places
<1>4. position' \in 0..Length /\ UpTo(position', NoLines.got)
  BY <1>1, <1>2 DEF ChannelInv, ChannelTyped, UpTo
<1>5. ~hooks => \A p \in Genuine(results') : Interval(p)
  BY <1>1 DEF ChannelInv, Pieces
<1>6. NoJunk'
  BY <1>1 DEF ChannelInv, NoJunk
<1> QED
  BY <1>1, <1>2, <1>3, <1>4, <1>5, <1>6, LinesAlone, LinesStep

LEMMA ChannelStarts == ChannelInit => ChannelInv
<1> SUFFICES ASSUME ChannelInit PROVE ChannelInv
  OBVIOUS
<1>1. /\ channel = "none" /\ position = 0 /\ results = {} /\ dropped = {} /\ hooks = FALSE
      /\ reading = [r \in Readers |-> NotReading] /\ lines = [r \in Readers |-> NoLines]
  BY DEF ChannelInit
<1>2. /\ NotReading \in Buffers /\ NotReading.active = FALSE /\ NotReading.got = {}
      /\ NoLines \in Lists /\ NoLines.active = FALSE /\ NoLines.got = {}
  BY DEF NotReading, NoLines, Buffers, Lists
<1>3. ChannelTyped /\ Resting /\ Solo /\ InBuffer
  <2>1. \A r \in Readers : reading[r] = NotReading /\ lines[r] = NoLines
    BY <1>1
  <2>2. ChannelTyped
    <3>1. Length \in Nat
      BY IOChannelAssumption
    <3>2. reading \in [Readers -> Buffers] /\ lines \in [Readers -> Lists]
      BY <1>1, <1>2
    <3>3. position \in 0..Length
      BY <1>1, <3>1
    <3>4. hooks \in BOOLEAN
      BY <1>1
    <3> QED
      BY <3>2, <3>3, <3>4 DEF ChannelTyped
  <2>3. Resting /\ Solo /\ InBuffer
    BY <1>2, <2>1 DEF Resting, Solo, InBuffer
  <2> QED
    BY <2>2, <2>3
<1>4. \A r \in Readers : Got(reading)[r] = {} /\ Got(lines)[r] = {}
  BY <1>1, <1>2 DEF Got
<1>8. Genuine(results) = {}
  BY <1>1 DEF Genuine
<1>5. Cover(Genuine(results), Got(reading), Got(lines), dropped, position)
  BY <1>1, <1>4, <1>8 DEF Cover
<1>6. Apart(Genuine(results), Got(reading), Got(lines), dropped)
  BY <1>1, <1>4, <1>8 DEF Apart
<1>7. Pieces /\ Idle /\ NoJunk
  BY <1>1, <1>2, <1>8 DEF Pieces, UpTo, Idle, NoJunk
<1> QED
  BY <1>3, <1>5, <1>6, <1>7 DEF ChannelInv, Places, Partition

LEMMA ChannelKeeps == ChannelInv /\ [ChannelNext]_channelVars => ChannelInv'
<1> SUFFICES ASSUME ChannelInv, [ChannelNext]_channelVars PROVE ChannelInv'
  OBVIOUS
<1>1. ASSUME \/ SetThreadBlockFuncs \/ UNCHANGED channelVars
             \/ \E r \in Readers, b \in BOOLEAN : NewChannel(r, b) \/ WriteLines(r, b) \/ Shutdown(r)
      PROVE  ChannelInv'
  <2>1. UNCHANGED <<position, reading, results, dropped, lines>> /\ hooks' \in {hooks, TRUE}
    BY <1>1 DEF SetThreadBlockFuncs, channelVars, NewChannel, WriteLines, Shutdown
  <2>2. channel' \in {"none", "open"} => channel \in {"none", "open"}
    BY <1>1 DEF SetThreadBlockFuncs, channelVars, NewChannel, WriteLines, Shutdown
  <2>3. ~hooks /\ channel' = "unreadable" =>
          channel = "unreadable" \/ \A r \in Readers : ~reading[r].active
    BY <1>1 DEF SetThreadBlockFuncs, channelVars, NewChannel, WriteLines, Shutdown, Ready, MayRun
  <2> QED
    BY <2>1, <2>2, <2>3, QuietKeeps
<1>2. ASSUME NEW r \in Readers, ReadLine(r) \/ NextLine(r) PROVE ChannelInv'
  BY <1>2, LineReadKeeps DEF ReadLine, NextLine
<1> QED
  BY <1>1, <1>2, ReadKeeps, ReadFailsKeeps, ReadRefusedKeeps, ReadCharsKeeps, ReadLinesKeeps, AppendLineKeeps,
     LinesReturnKeeps, LinesFailKeeps
  DEF ChannelNext

LEMMA ChannelInductive == ChannelSpec => []ChannelInv
<1> QED
  BY ChannelStarts, ChannelKeeps, PTL DEF ChannelSpec

(* GLib never writes past the end of the string that read() gives it,
   whatever count Python asks for (negative ones are huge unsigned ones),
   however short the chunks are, and however many threads read at a time.  *)
THEOREM ChunksFit == ChannelSpec => []InBuffer
<1>1. ChannelInv => InBuffer
  BY DEF ChannelInv
<1> QED
  BY <1>1, ChannelInductive, PTL

(* Each byte of the channel is returned by one call, in order within what
   the call returns unless another thread reads meanwhile, or is lost to a
   call that fails or is refused; for any number of threads that read, read
   lines and close the channel under each other.  Strings have other bytes
   only after GLib has begun to refuse.                                    *)
THEOREM BytesConserved == ChannelSpec => []Conserved
<1>1. ChannelInv => OnceOnly
  <2> SUFFICES ASSUME ChannelInv PROVE OnceOnly
    OBVIOUS
  <2>1. \A r \in Readers : Got(reading)[r] = reading[r].got /\ Got(lines)[r] = lines[r].got
    BY GotTyped DEF ChannelInv
  <2> DEFINE parts == Genuine(results) \cup {reading[r].got : r \in Readers}
                      \cup {lines[r].got : r \in Readers} \cup {dropped}
  <2>2. UNION parts = 1..position
    <3>1. /\ {reading[r].got : r \in Readers} = {Got(reading)[r] : r \in Readers}
          /\ {lines[r].got : r \in Readers} = {Got(lines)[r] : r \in Readers}
      BY <2>1
    <3> QED
      BY <3>1 DEF ChannelInv, Places, Partition, Cover
  <2>3. \A p, q \in parts : p = q \/ p \cap q = {}
    BY <2>1 DEF ChannelInv, Places, Partition, Apart
  <2> QED
    BY <2>2, <2>3 DEF OnceOnly
<1>2. ChannelInv => Contiguous
  <2> SUFFICES ASSUME ChannelInv, ~hooks, NEW p \in Genuine(results) \ {{}} PROVE p = Min(p)..Max(p)
    BY DEF Contiguous
  <2>1. PICK i \in Int, j \in Int : p = i..j
    BY DEF ChannelInv, Pieces, Interval
  <2>4. Min(p) = i
    BY <2>1 DEF Min
  <2>5. Max(p) = j
    BY <2>1 DEF Max
  <2> QED
    BY <2>1, <2>4, <2>5
<1>3. ChannelInv => Conserved
  BY <1>1, <1>2 DEF Conserved, ChannelInv
<1> QED
  BY <1>3, ChannelInductive, PTL

-----------------------------------------------------------------------------
(* Option groups                                                           *)

One(b) == IF b THEN 1 ELSE 0

Wrapper == [live : BOOLEAN, refs : Nat, other : BOOLEAN, inContext : BOOLEAN,
            group : BOOLEAN, callback : BOOLEAN, strings : BOOLEAN]
Context == [live : BOOLEAN, mainGroup : Groups \cup {Null}, gmain : Groups \cup {Null},
            parsing : BOOLEAN]
Owner == {"none", "wrapper", "library", "lost", "freed"} \cup OptionContexts

(* The contexts of ctx whose main_group is g                               *)
Mains(ctx, g) == {c \in OptionContexts : ctx[c].mainGroup = g}
NMains(ctx, g) == Cardinality(Mains(ctx, g))

(* What is true of one group, from its wrapper, its owner, whether Python has
   it, and the number of contexts whose main_group it is: each of these, and
   the context that it is in, has a reference; a context that owns it, or
   has lost it, took it into its care; what is not owned by a context has
   never been in one; and the GOptionGroup and callback are there until it is
   freed.                                                                  *)
GroupOK(r, o, h, n) ==
  /\ r \in Wrapper /\ o \in Owner
  /\ r.live <=> r.refs > 0
  /\ r.refs >= One(h) + n + One(r.inContext /\ (o # "freed" \/ r.other))
  /\ o = "none" => ~r.live
  /\ o = "wrapper" => r.live /\ ~r.inContext /\ ~r.other
  /\ o = "library" => r.other /\ ~r.inContext
  /\ o \in OptionContexts \cup {"lost"} => r.inContext
  /\ ~r.other /\ o \in OptionContexts \cup {"wrapper", "lost"} => r.group /\ r.callback
  /\ ~r.other /\ o = "freed" => ~r.group /\ ~r.callback
  /\ r.live /\ ~r.inContext => o \in {"wrapper", "library"}

(* What is true of the contexts: a main group is in a context, and only what
   is live has one or owns groups.                                         *)
ContextsOK ==
  /\ context \in [OptionContexts -> Context]
  /\ \A c \in OptionContexts : LET m == context[c].mainGroup IN
       m # Null => context[c].live /\ wrapper[m].inContext
  /\ \A g \in Groups : freedBy[g] \in OptionContexts => context[freedBy[g]].live

OptionsTyped ==
  /\ wrapper \in [Groups -> Wrapper] /\ freedBy \in [Groups -> Owner]
  /\ held \subseteq Groups

OptionsInv ==
  /\ OptionsTyped
  /\ \A g \in Groups : GroupOK(wrapper[g], freedBy[g], g \in held, NMains(context, g))
  /\ ContextsOK

LEMMA MainsNat == \A ctx, g : IsFiniteSet(Mains(ctx, g)) /\ NMains(ctx, g) \in Nat
<1> TAKE ctx, g
<1>1. Mains(ctx, g) \in SUBSET OptionContexts
  BY DEF Mains
<1> QED
  BY <1>1, OptionGroupsAssumption, FS_Subset, FS_CardinalityType DEF NMains

(* The count of a group changes only with the main_group of a context that
   has, or had, this group.                                                *)
LEMMA MainsChange ==
  ASSUME NEW ctx, NEW new, NEW c \in OptionContexts, NEW g,
         \A d \in OptionContexts \ {c} : new[d].mainGroup = ctx[d].mainGroup
  PROVE  NMains(new, g) = NMains(ctx, g) + One(new[c].mainGroup = g) - One(ctx[c].mainGroup = g)
<1>1. /\ IsFiniteSet(Mains(ctx, g)) /\ NMains(ctx, g) \in Nat
      /\ IsFiniteSet(Mains(new, g)) /\ NMains(new, g) \in Nat
  BY MainsNat
<1>2. CASE (new[c].mainGroup = g) = (ctx[c].mainGroup = g)
  <2>1. Mains(new, g) = Mains(ctx, g)
    BY <1>2 DEF Mains
  <2> QED
    BY <1>1, <1>2, <2>1 DEF NMains, One
<1>3. CASE new[c].mainGroup = g /\ ctx[c].mainGroup # g
  <2>1. Mains(new, g) = Mains(ctx, g) \cup {c} /\ c \notin Mains(ctx, g)
    BY <1>3 DEF Mains
  <2> QED
    BY <1>1, <1>3, <2>1, FS_AddElement DEF NMains, One
<1>4. CASE new[c].mainGroup # g /\ ctx[c].mainGroup = g
  <2>1. Mains(new, g) = Mains(ctx, g) \ {c} /\ c \in Mains(ctx, g)
    BY <1>4 DEF Mains
  <2> QED
    BY <1>1, <1>4, <2>1, FS_RemoveElement DEF NMains, One
<1> QED
  BY <1>2, <1>3, <1>4

LEMMA MainsSame ==
  ASSUME NEW ctx, NEW new, NEW g,
         \A d \in OptionContexts : new[d].mainGroup = ctx[d].mainGroup
  PROVE  NMains(new, g) = NMains(ctx, g)
<1>1. Mains(new, g) = Mains(ctx, g)
  BY DEF Mains
<1> QED
  BY <1>1 DEF NMains

LEMMA OptionsStart == OptionsInit => OptionsInv
<1> SUFFICES ASSUME OptionsInit PROVE OptionsInv
  OBVIOUS
<1>1. Unmade \in Wrapper /\ NoContext \in Context
  BY DEF Unmade, Wrapper, NoContext, Context
<1>2. OptionsTyped
  BY <1>1 DEF OptionsInit, OptionsTyped, Owner
<1>3. ASSUME NEW g \in Groups
      PROVE  GroupOK(wrapper[g], freedBy[g], g \in held, NMains(context, g))
  <2>1. Mains(context, g) = {}
    BY OptionGroupsAssumption DEF OptionsInit, Mains, NoContext
  <2>2. NMains(context, g) = 0
    BY <2>1, FS_EmptySet DEF NMains
  <2>3. wrapper[g] = Unmade /\ freedBy[g] = "none" /\ ~(g \in held)
    BY DEF OptionsInit
  <2> QED
    BY <1>1, <2>2, <2>3, OptionGroupsAssumption DEF GroupOK, Unmade, One, Owner
<1>4. ContextsOK
  BY <1>1, OptionGroupsAssumption DEF OptionsInit, ContextsOK, NoContext
<1> QED
  BY <1>2, <1>3, <1>4 DEF OptionsInv, NMains

(* Steps that change one group, and of contexts only whether they parse    *)
GroupChange(g, r, o, h) ==
  /\ context' \in [OptionContexts -> Context]
  /\ \A c \in OptionContexts : /\ context'[c].mainGroup = context[c].mainGroup
                               /\ context'[c].live = context[c].live
  /\ wrapper' = [wrapper EXCEPT ![g] = r] /\ freedBy' = [freedBy EXCEPT ![g] = o]
  /\ held' = IF h THEN held \cup {g} ELSE held \ {g}
  /\ o \in OptionContexts => context[o].live
  /\ wrapper[g].inContext => r.inContext
  /\ GroupOK(r, o, h, NMains(context, g))

LEMMA OneStep ==
  ASSUME OptionsInv, NEW g \in Groups, NEW r \in Wrapper, NEW o \in Owner, NEW h \in BOOLEAN,
         GroupChange(g, r, o, h)
  PROVE  OptionsInv'
<1> USE DEF GroupChange
<1>1. OptionsTyped'
  BY DEF OptionsInv, OptionsTyped
<1>2. ASSUME NEW x \in Groups
      PROVE  GroupOK(wrapper'[x], freedBy'[x], x \in held', NMains(context', x))
  <2>1. NMains(context', x) = NMains(context, x)
    BY MainsSame
  <2>2. CASE x = g
    <3>1. wrapper'[x] = r /\ freedBy'[x] = o /\ (x \in held') = h
      BY <2>2 DEF OptionsInv, OptionsTyped
    <3> QED
      BY <2>1, <2>2, <3>1
  <2>3. CASE x # g
    <3>1. wrapper'[x] = wrapper[x] /\ freedBy'[x] = freedBy[x] /\ (x \in held' <=> x \in held)
      BY <2>3 DEF OptionsInv, OptionsTyped
    <3>2. GroupOK(wrapper[x], freedBy[x], x \in held, NMains(context, x))
      BY DEF OptionsInv
    <3>3. (x \in held') = (x \in held)
      BY <3>1
    <3> QED
      BY <2>1, <3>1, <3>2, <3>3
  <2> QED
    BY <2>2, <2>3
<1>3. ContextsOK'
  <2>1. \A x \in Groups : wrapper[x].inContext => wrapper'[x].inContext
    BY DEF OptionsInv, OptionsTyped
  <2>2. \A x \in Groups : freedBy'[x] \in OptionContexts => context[freedBy'[x]].live
    BY DEF OptionsInv, OptionsTyped, ContextsOK
  <2> QED
    BY <2>1, <2>2 DEF OptionsInv, ContextsOK, Context
<1> QED
  BY <1>1, <1>2, <1>3 DEF OptionsInv

LEMMA GroupStep ==
  ASSUME OptionsInv, NEW g \in Groups, NEW r \in Wrapper, NEW o \in Owner, NEW h \in BOOLEAN, context' = context,
         wrapper' = [wrapper EXCEPT ![g] = r], freedBy' = [freedBy EXCEPT ![g] = o],
         held' = IF h THEN held \cup {g} ELSE held \ {g},
         o \in OptionContexts => o = freedBy[g],
         wrapper[g].inContext => r.inContext,
         GroupOK(r, o, h, NMains(context, g))
  PROVE  OptionsInv'
<1>2. o \in OptionContexts => context[o].live
  BY DEF OptionsInv, ContextsOK
<1>3. context' \in [OptionContexts -> Context]
  BY DEF OptionsInv, ContextsOK
<1>4. GroupChange(g, r, o, h)
  BY <1>2, <1>3 DEF GroupChange
<1> QED
  BY <1>4, OneStep

(* Steps that change only whether contexts parse, or make one              *)
LEMMA ContextStep ==
  ASSUME OptionsInv, UNCHANGED groupVars, context' \in [OptionContexts -> Context],
         \A c \in OptionContexts : /\ context'[c].mainGroup = context[c].mainGroup
                                   /\ context[c].live => context'[c].live
  PROVE  OptionsInv'
<1>1. OptionsTyped'
  BY DEF OptionsInv, OptionsTyped, groupVars
<1>2. ASSUME NEW x \in Groups
      PROVE  GroupOK(wrapper'[x], freedBy'[x], x \in held', NMains(context', x))
  <2>1. NMains(context', x) = NMains(context, x)
    BY MainsSame
  <2> QED
    BY <2>1 DEF OptionsInv, groupVars
<1>3. ContextsOK'
  BY DEF OptionsInv, ContextsOK, groupVars
<1> QED
  BY <1>1, <1>2, <1>3 DEF OptionsInv

LEMMA NewKeeps ==
  ASSUME OptionsInv, NEW g \in Groups, NewGroup(g) \/ WrapGroup(g)
  PROVE  OptionsInv'
<1> DEFINE r == wrapper'[g]
<1>1. /\ GroupOK(wrapper[g], "none", g \in held, NMains(context, g))
      /\ freedBy[g] = "none"
  BY DEF OptionsInv, NewGroup, WrapGroup
<1>2. /\ ~wrapper[g].inContext /\ NMains(context, g) = 0
  BY <1>1, MainsNat DEF GroupOK, Wrapper, One
<1>3. /\ wrapper' = [wrapper EXCEPT ![g] = r] /\ r \in Wrapper
      /\ r.live /\ r.refs = 1 /\ r.group /\ ~r.inContext
      /\ \/ freedBy' = [freedBy EXCEPT ![g] = "wrapper"] /\ ~r.other /\ r.callback
         \/ freedBy' = [freedBy EXCEPT ![g] = "library"] /\ r.other
      /\ held' = held \cup {g} /\ context' = context
  <2>1. CASE NewGroup(g)
    <3>1. r = [live |-> TRUE, refs |-> 1, other |-> FALSE, inContext |-> FALSE, group |-> TRUE,
               callback |-> TRUE, strings |-> FALSE]
      BY <2>1 DEF OptionsInv, OptionsTyped, NewGroup, Unmade
    <3>2. /\ wrapper' = [wrapper EXCEPT ![g] = r] /\ freedBy' = [freedBy EXCEPT ![g] = "wrapper"]
          /\ held' = held \cup {g} /\ context' = context
      BY <2>1 DEF OptionsInv, OptionsTyped, NewGroup
    <3> QED
      BY <3>1, <3>2 DEF Wrapper
  <2>2. CASE WrapGroup(g)
    <3>1. r = [live |-> TRUE, refs |-> 1, other |-> TRUE, inContext |-> FALSE, group |-> TRUE,
               callback |-> FALSE, strings |-> FALSE]
      BY <2>2 DEF OptionsInv, OptionsTyped, WrapGroup, Unmade
    <3>2. /\ wrapper' = [wrapper EXCEPT ![g] = r] /\ freedBy' = [freedBy EXCEPT ![g] = "library"]
          /\ held' = held \cup {g} /\ context' = context
      BY <2>2 DEF OptionsInv, OptionsTyped, WrapGroup
    <3> QED
      BY <3>1, <3>2 DEF Wrapper
  <2> QED
    BY <2>1, <2>2
<1> HIDE DEF r
<1>4. ASSUME NEW o \in {"wrapper", "library"}, freedBy' = [freedBy EXCEPT ![g] = o],
             o = "wrapper" => ~r.other /\ r.callback, o = "library" => r.other
      PROVE  OptionsInv'
  <2>1. o \notin OptionContexts /\ o \in Owner
    BY OptionGroupsAssumption DEF Owner
  <2>2. GroupOK(r, o, TRUE, NMains(context, g))
    BY <1>2, <1>3, <1>4, <2>1 DEF GroupOK, One
  <2> QED
    BY <1>2, <1>3, <1>4, <2>1, <2>2, GroupStep
<1> QED
  BY <1>3, <1>4

LEMMA EntriesKeep ==
  ASSUME OptionsInv, NEW g \in Groups, AddEntries(g)
  PROVE  OptionsInv'
<1> DEFINE r == [wrapper[g] EXCEPT !.strings = TRUE]
<1>1. GroupOK(wrapper[g], freedBy[g], TRUE, NMains(context, g)) /\ g \in held
  <2>1. g \in held /\ (g \in held) = TRUE
    BY DEF AddEntries, Usable
  <2> QED
    BY <2>1 DEF OptionsInv
<1>2. wrapper[g] \in Wrapper /\ r \in Wrapper /\ freedBy[g] \in Owner
  BY DEF OptionsInv, OptionsTyped, Wrapper
<1>3. GroupOK(r, freedBy[g], TRUE, NMains(context, g))
  BY <1>1, <1>2 DEF GroupOK, Wrapper
<1>4. /\ wrapper' = [wrapper EXCEPT ![g] = r] /\ freedBy' = [freedBy EXCEPT ![g] = freedBy[g]]
      /\ held' = held \cup {g} /\ context' = context
  BY <1>1 DEF OptionsInv, OptionsTyped, AddEntries
<1>5. r.inContext = wrapper[g].inContext
  BY <1>2 DEF Wrapper
<1> HIDE DEF r
<1> QED
  BY <1>2, <1>3, <1>4, <1>5, GroupStep

LEMMA DropKeeps ==
  ASSUME OptionsInv, NEW g \in Groups, DropGroup(g)
  PROVE  OptionsInv'
<1> DEFINE r == [wrapper[g] EXCEPT !.refs = @ - 1]
           o == IF Frees(r) THEN "freed" ELSE freedBy[g]
<1>1. GroupOK(wrapper[g], freedBy[g], TRUE, NMains(context, g)) /\ wrapper[g].live
  <2>1. (g \in held) = TRUE /\ wrapper[g].live
    BY DEF DropGroup, Usable
  <2> QED
    BY <2>1 DEF OptionsInv
<1>2. /\ wrapper[g] \in Wrapper /\ freedBy[g] \in Owner
      /\ r = [wrapper[g] EXCEPT !.refs = wrapper[g].refs - 1]
  BY DEF OptionsInv, OptionsTyped
<1>3. r \in Wrapper /\ r.live /\ r.inContext = wrapper[g].inContext /\ r.refs = wrapper[g].refs - 1
      /\ r.other = wrapper[g].other /\ r.group = wrapper[g].group /\ r.callback = wrapper[g].callback
  <2>1. wrapper[g].refs \in Nat /\ wrapper[g].refs > 0
    BY <1>1, <1>2 DEF Wrapper, GroupOK
  <2>2. wrapper[g].refs - 1 \in Nat
    BY <2>1
  <2> QED
    BY <1>1, <1>2, <2>2 DEF Wrapper
<1>4. /\ wrapper' = [wrapper EXCEPT ![g] = Settled(r)] /\ freedBy' = [freedBy EXCEPT ![g] = o]
      /\ held' = held \ {g} /\ context' = context
  BY DEF DropGroup
<1> HIDE DEF r
<1>5. NMains(context, g) \in Nat
  BY MainsNat
<1>6. o \in Owner /\ (o \in OptionContexts => o = freedBy[g])
  BY <1>2, OptionGroupsAssumption DEF Owner
<1>7. CASE r.refs # 0
  <2>1. Settled(r) = r /\ o = freedBy[g]
    BY <1>7 DEF Settled, Frees
  <2>2. GroupOK(r, o, FALSE, NMains(context, g))
    BY <1>1, <1>2, <1>3, <1>5, <1>7, <2>1 DEF GroupOK, Wrapper, One
  <2> HIDE DEF o
  <2> QED
    BY <1>2, <1>3, <1>4, <1>6, <2>1, <2>2, GroupStep
<1>8. CASE r.refs = 0
  <2>1. /\ NMains(context, g) = 0
        /\ ~(r.inContext /\ (freedBy[g] # "freed" \/ r.other))
    BY <1>1, <1>3, <1>5, <1>8 DEF GroupOK, Wrapper, One
  <2>2. CASE Frees(r)
    <3>1. Settled(r) = [r EXCEPT !.group = FALSE, !.callback = FALSE, !.strings = FALSE, !.live = FALSE]
      BY <1>3, <1>8, <2>2 DEF Settled, Frees, Destroyed, Wrapper
    <3>2. o = "freed" /\ ~r.inContext /\ ~r.other
      BY <2>2 DEF Frees
    <3>3. Settled(r) \in Wrapper /\ ~Settled(r).live /\ Settled(r).refs = 0 /\ ~Settled(r).inContext
          /\ ~Settled(r).group /\ ~Settled(r).callback /\ ~Settled(r).other
      BY <1>3, <1>8, <3>1, <3>2 DEF Wrapper
    <3>4. GroupOK(Settled(r), o, FALSE, NMains(context, g))
      BY <1>6, <2>1, <3>2, <3>3, OptionGroupsAssumption DEF GroupOK, One
    <3> HIDE DEF o
    <3> QED
      BY <1>3, <1>4, <1>6, <3>2, <3>3, <3>4, GroupStep
  <2>3. CASE ~Frees(r)
    <3>1. Settled(r) = [r EXCEPT !.live = FALSE] /\ o = freedBy[g]
      BY <1>3, <1>8, <2>3 DEF Settled
    <3>2. /\ Settled(r) \in Wrapper /\ ~Settled(r).live /\ Settled(r).refs = 0
          /\ Settled(r).inContext = r.inContext /\ Settled(r).group = r.group
          /\ Settled(r).callback = r.callback /\ Settled(r).other = r.other
      BY <1>3, <1>8, <3>1 DEF Wrapper
    <3>3. o # "wrapper"
      BY <1>1, <1>3, <1>8, <2>3, <3>1 DEF Frees, GroupOK
    <3>4. GroupOK(Settled(r), o, FALSE, NMains(context, g))
      BY <1>1, <1>3, <1>6, <2>1, <3>1, <3>2, <3>3 DEF GroupOK, One
    <3> HIDE DEF o
    <3> QED
      BY <1>3, <1>4, <1>6, <3>2, <3>4, GroupStep
  <2> QED
    BY <2>2, <2>3
<1> QED
  BY <1>7, <1>8

LEMMA ParseKeeps ==
  ASSUME OptionsInv, NEW c \in OptionContexts, NewContext(c) \/ Parse(c) \/ ParseReturns(c)
  PROVE  OptionsInv'
<1>1. UNCHANGED groupVars
  BY DEF NewContext, Parse, ParseReturns
<1>2. context \in [OptionContexts -> Context]
  BY DEF OptionsInv, ContextsOK
<1>3. CASE NewContext(c)
  <2> DEFINE new == [NoContext EXCEPT !.live = TRUE]
  <2>1. new \in Context /\ new.mainGroup = Null /\ new.live
    <3>1. NoContext \in Context /\ NoContext.mainGroup = Null
      BY DEF NoContext, Context
    <3> QED
      BY <3>1 DEF Context
  <2>3. context' = [context EXCEPT ![c] = new]
    BY <1>3 DEF NewContext
  <2> HIDE DEF new
  <2>2. context[c].mainGroup = Null
    BY <1>3 DEF OptionsInv, ContextsOK, NewContext
  <2> QED
    BY <1>1, <1>2, <2>1, <2>2, <2>3, ContextStep
<1>4. CASE Parse(c) \/ ParseReturns(c)
  <2>1. PICK b \in BOOLEAN : context' = [context EXCEPT ![c].parsing = b]
    BY <1>4 DEF Parse, ParseReturns
  <2>2. /\ context' \in [OptionContexts -> Context]
        /\ \A d \in OptionContexts : context'[d].mainGroup = context[d].mainGroup /\ context'[d].live = context[d].live
    BY <1>2, <2>1 DEF Context
  <2> QED
    BY <1>1, <2>2, ContextStep
<1> QED
  BY <1>3, <1>4

(* Python gets a reference to the wrapper of a group that has others.      *)
LEMMA OneMoreOK ==
  ASSUME NEW r \in Wrapper, NEW o, NEW n \in Nat, GroupOK(r, o, FALSE, n), r.live
  PROVE  LET more == [r EXCEPT !.refs = @ + 1]
         IN  /\ more \in Wrapper /\ more.inContext = r.inContext
             /\ GroupOK(more, o, TRUE, n)
<1> DEFINE more == [r EXCEPT !.refs = r.refs + 1]
<1>1. r.refs \in Nat /\ r.refs + 1 \in Nat /\ r.refs + 1 > 0
  BY DEF Wrapper
<1>2. more \in Wrapper /\ more.refs = r.refs + 1
  BY <1>1 DEF Wrapper
<1>3. /\ more.live = r.live /\ more.other = r.other /\ more.inContext = r.inContext
      /\ more.group = r.group /\ more.callback = r.callback
  BY DEF Wrapper
<1> HIDE DEF more
<1>4. GroupOK(more, o, TRUE, n)
  BY <1>1, <1>2, <1>3 DEF GroupOK, One
<1> QED
  BY <1>2, <1>3, <1>4 DEF more

LEMMA GetKeeps ==
  ASSUME OptionsInv, NEW c \in OptionContexts, GetMainGroup(c)
  PROVE  OptionsInv'
<1> DEFINE g == context[c].mainGroup
           r == [wrapper[g] EXCEPT !.refs = @ + 1]
<1>1. g \in Groups /\ ~(g \in held)
  BY DEF OptionsInv, ContextsOK, Context, GetMainGroup
<1>2. /\ wrapper[g] \in Wrapper /\ freedBy[g] \in Owner /\ NMains(context, g) \in Nat
      /\ GroupOK(wrapper[g], freedBy[g], FALSE, NMains(context, g))
  <2>1. (g \in held) = FALSE
    BY <1>1
  <2> QED
    BY <1>1, <2>1, MainsNat DEF OptionsInv, OptionsTyped
<1>3. wrapper[g].live
  <2>1. c \in Mains(context, g)
    BY DEF Mains
  <2>2. NMains(context, g) # 0
    BY <2>1, MainsNat, FS_EmptySet DEF NMains
  <2> HIDE DEF g
  <2> QED
    BY <1>2, <2>2 DEF GroupOK, One, Wrapper
<1>4. /\ wrapper' = [wrapper EXCEPT ![g] = r] /\ freedBy' = [freedBy EXCEPT ![g] = freedBy[g]]
      /\ held' = held \cup {g} /\ context' = context
  BY <1>1 DEF OptionsInv, OptionsTyped, GetMainGroup
<1>5. r \in Wrapper /\ r.inContext = wrapper[g].inContext
      /\ GroupOK(r, freedBy[g], TRUE, NMains(context, g))
  BY <1>2, <1>3, OneMoreOK
<1> HIDE DEF r, g
<1> QED
  BY <1>1, <1>2, <1>4, <1>5, GroupStep

LEMMA CallbackKeeps ==
  ASSUME OptionsInv, NEW c \in OptionContexts, NEW g \in Groups, NEW raises, NEW keeps \in BOOLEAN,
         Callback(c, g, raises, keeps)
  PROVE  OptionsInv'
<1> DEFINE r == [wrapper[g] EXCEPT !.refs = @ + 1]
<1>1. /\ wrapper[g] \in Wrapper /\ freedBy[g] \in Owner /\ NMains(context, g) \in Nat
      /\ GroupOK(wrapper[g], freedBy[g], g \in held, NMains(context, g))
      /\ context \in [OptionContexts -> Context]
  BY MainsNat DEF OptionsInv, OptionsTyped, ContextsOK
<1>2. freedBy[g] = c /\ freedBy[g] # "freed" /\ context[c].live
  BY OptionGroupsAssumption DEF Callback, OptionsInv, ContextsOK
<1>3. wrapper[g].live
  <2>1. wrapper[g].inContext
    BY <1>1, <1>2 DEF GroupOK
  <2> QED
    BY <1>1, <1>2, <2>1 DEF GroupOK, One, Wrapper
<1>4. /\ context' \in [OptionContexts -> Context]
      /\ \A d \in OptionContexts : context'[d].mainGroup = context[d].mainGroup /\ context'[d].live = context[d].live
  <2>1. PICK b \in BOOLEAN : context' = [context EXCEPT ![c].parsing = b]
    BY DEF Callback
  <2> QED
    BY <1>1, <2>1 DEF Context
<1>5. /\ freedBy' = [freedBy EXCEPT ![g] = freedBy[g]]
  BY DEF OptionsInv, OptionsTyped, Callback
<1>6. CASE keeps /\ ~(g \in held)
  <2>1. wrapper' = [wrapper EXCEPT ![g] = r] /\ held' = held \cup {g}
    BY <1>6 DEF Callback
  <2>2. r \in Wrapper /\ r.inContext = wrapper[g].inContext
        /\ GroupOK(r, freedBy[g], TRUE, NMains(context, g))
    <3>1. (g \in held) = FALSE
      BY <1>6
    <3> QED
      BY <1>1, <1>3, <3>1, OneMoreOK
  <2> HIDE DEF r
  <2> QED
    BY <1>1, <1>2, <1>4, <1>5, <2>1, <2>2, OneStep DEF GroupChange
<1>7. CASE ~(keeps /\ ~(g \in held))
  <2>1. /\ wrapper' = [wrapper EXCEPT ![g] = wrapper[g]]
        /\ held' = held
    BY <1>7 DEF OptionsInv, OptionsTyped, Callback, Wrapper
  <2>2. ASSUME NEW h \in BOOLEAN, h = (g \in held) PROVE OptionsInv'
    <3>1. held' = IF h THEN held \cup {g} ELSE held \ {g}
      BY <2>1, <2>2
    <3>2. GroupOK(wrapper[g], freedBy[g], h, NMains(context, g))
      BY <1>1, <2>2
    <3> QED
      BY <1>1, <1>2, <1>4, <1>5, <2>1, <3>1, <3>2, OneStep DEF GroupChange
  <2>3. CASE g \in held
    <3>1. TRUE = (g \in held)
      BY <2>3
    <3> QED
      BY <2>2, <3>1
  <2>4. CASE ~(g \in held)
    <3>1. FALSE = (g \in held)
      BY <2>4
    <3> QED
      BY <2>2, <3>1
  <2> QED
    BY <2>3, <2>4
<1> QED
  BY <1>6, <1>7

(* A group that goes to a context gets a reference for it, and another one,
   which is main_group's or too many.                                      *)
LEMMA TransferredOK ==
  ASSUME NEW r \in Wrapper, NEW o, NEW c \in OptionContexts \cup {"lost"}, NEW n \in Nat, NEW m \in Nat,
         m <= n + 1, GroupOK(r, o, TRUE, n), r.live, ~r.inContext
  PROVE  /\ Taken(r) \in Wrapper /\ Taken(r).inContext
         /\ GroupOK(Taken(r), c, TRUE, m)
<1> DEFINE one == [r EXCEPT !.inContext = TRUE, !.refs = r.refs + 1]
           new == [one EXCEPT !.refs = one.refs + 1]
<1>1. r.refs \in Nat /\ r.refs + 1 \in Nat /\ r.refs + 2 \in Nat
  BY DEF Wrapper
<1>2. /\ one \in Wrapper /\ one.refs = r.refs + 1 /\ one.inContext /\ one.live = r.live
      /\ one.other = r.other /\ one.group = r.group /\ one.callback = r.callback
  BY <1>1 DEF Wrapper
<1> HIDE DEF one
<1>3. /\ new \in Wrapper /\ new.refs = r.refs + 2 /\ new.inContext /\ new.live = r.live
      /\ new.other = r.other /\ new.group = r.group /\ new.callback = r.callback
  <2>1. one.refs + 1 = r.refs + 2
    BY <1>1, <1>2
  <2>2. new = [one EXCEPT !.refs = r.refs + 2]
    BY <2>1
  <2> QED
    BY <1>1, <1>2, <2>2 DEF Wrapper
<1> HIDE DEF new
<1>4. /\ c \in Owner /\ c # "freed" /\ c # "none" /\ c # "wrapper" /\ c # "library"
      /\ o \in {"wrapper", "library"}
  BY OptionGroupsAssumption DEF Owner, GroupOK
<1>5. /\ r.refs >= 1 + n
      /\ ~r.other => r.group /\ r.callback
  BY <1>1, <1>4 DEF GroupOK, One
<1>6. new.refs >= 1 + m + 1 /\ new.refs > 0
  BY <1>1, <1>3, <1>5
<1>7. GroupOK(new, c, TRUE, m)
  BY <1>3, <1>4, <1>5, <1>6 DEF GroupOK, One
<1>8. new = Taken(r)
  BY DEF new, one, Taken, Transferred
<1> QED
  BY <1>3, <1>7, <1>8

LEMMA AddKeeps ==
  ASSUME OptionsInv, NEW c \in OptionContexts, NEW g \in Groups, AddGroup(c, g)
  PROVE  OptionsInv'
<1> DEFINE r == Taken(wrapper[g])
<1>1. /\ wrapper[g] \in Wrapper /\ NMains(context, g) \in Nat
      /\ GroupOK(wrapper[g], freedBy[g], TRUE, NMains(context, g))
      /\ wrapper[g].live /\ ~wrapper[g].inContext /\ context[c].live /\ context \in [OptionContexts -> Context]
  <2>1. (g \in held) = TRUE
    BY DEF AddGroup, Takes, Usable
  <2>2. GroupOK(wrapper[g], freedBy[g], TRUE, NMains(context, g))
    BY <2>1 DEF OptionsInv
  <2>3. wrapper[g] \in Wrapper /\ NMains(context, g) \in Nat
    BY MainsNat DEF OptionsInv, OptionsTyped
  <2>4. wrapper[g].live /\ ~wrapper[g].inContext /\ context[c].live /\ context \in [OptionContexts -> Context]
    BY DEF OptionsInv, ContextsOK, AddGroup, Takes, Usable
  <2> QED
    BY <2>1, <2>2, <2>3, <2>4
<1>2. r \in Wrapper /\ r.inContext /\ GroupOK(r, c, TRUE, NMains(context, g))
  <2>1. NMains(context, g) <= NMains(context, g) + 1 /\ c \in OptionContexts \cup {"lost"}
    BY <1>1
  <2> QED
    BY <1>1, <2>1, TransferredOK
<1>3. /\ wrapper' = [wrapper EXCEPT ![g] = r] /\ freedBy' = [freedBy EXCEPT ![g] = c]
      /\ held' = held \cup {g} /\ context' = context
  <2>1. wrapper' = [wrapper EXCEPT ![g] = r]
    BY DEF AddGroup
  <2>2. held' = held \cup {g} /\ context' = context /\ freedBy' = [freedBy EXCEPT ![g] = c]
    BY DEF AddGroup, Takes, Usable
  <2> QED
    BY <2>1, <2>2
<1>4. c \in Owner
  BY DEF Owner
<1> HIDE DEF r
<1> QED
  BY <1>1, <1>2, <1>3, <1>4, OneStep DEF GroupChange

LEMMA SetKeeps ==
  ASSUME OptionsInv, NEW c \in OptionContexts, NEW g \in Groups, SetMainGroup(c, g)
  PROVE  OptionsInv'
<1> DEFINE h == context[c].mainGroup
           r == Taken(wrapper[g])
           o == IF context[c].gmain = Null THEN c ELSE "lost"
           gmain == IF context[c].gmain = Null THEN g ELSE context[c].gmain
           new == [context[c] EXCEPT !.mainGroup = g, !.gmain = gmain]
<1>1. /\ wrapper[g] \in Wrapper /\ NMains(context, g) \in Nat
      /\ GroupOK(wrapper[g], freedBy[g], TRUE, NMains(context, g))
  <2>1. (g \in held) = TRUE
    BY DEF SetMainGroup, Takes, Usable
  <2>2. GroupOK(wrapper[g], freedBy[g], TRUE, NMains(context, g))
    BY <2>1 DEF OptionsInv
  <2> QED
    BY <2>2, MainsNat DEF OptionsInv, OptionsTyped
<1>2. /\ wrapper[g].live /\ ~wrapper[g].inContext /\ context[c].live
      /\ context \in [OptionContexts -> Context] /\ context[c] \in Context
  BY DEF OptionsInv, ContextsOK, SetMainGroup, Takes, Usable
<1>3. h # g /\ h \in Groups \cup {Null}
  BY <1>2, OptionGroupsAssumption DEF OptionsInv, ContextsOK, Context
<1>4. /\ wrapper' = [wrapper EXCEPT ![g] = r]
      /\ freedBy' = [freedBy EXCEPT ![g] = o] /\ held' = held
  BY DEF SetMainGroup
<1>5. new \in Context /\ new.mainGroup = g /\ new.live
  BY <1>2 DEF Context
<1>6. context' = [context EXCEPT ![c] = new]
  <2>1. context' = [context EXCEPT ![c].mainGroup = g,
                                ![c].gmain = IF @ = Null THEN g ELSE @]
    BY DEF SetMainGroup
  <2> QED
    BY <1>2, <2>1
<1>8. o \in OptionContexts \cup {"lost"} /\ o \in Owner /\ (o \in OptionContexts => o = c)
  BY OptionGroupsAssumption DEF Owner
<1> HIDE DEF r, o, new, gmain
<1>9. \A x \in Groups : NMains(context', x) = NMains(context, x) + One(g = x) - One(h = x)
  <2> TAKE x \in Groups
  <2>1. context'[c].mainGroup = g
    BY <1>2, <1>5, <1>6
  <2>2. \A d \in OptionContexts \ {c} : context'[d].mainGroup = context[d].mainGroup
    BY <1>2, <1>6
  <2>3. NMains(context', x) = NMains(context, x) + One(context'[c].mainGroup = x) - One(context[c].mainGroup = x)
    BY <2>2, MainsChange DEF One
  <2>4. (context'[c].mainGroup = x) = (g = x)
    BY <2>1
  <2> QED
    BY <2>3, <2>4
<1>11. r \in Wrapper /\ r.inContext /\ GroupOK(r, o, TRUE, NMains(context', g))
  <2>1. NMains(context', g) = NMains(context, g) + 1
    BY <1>1, <1>3, <1>9 DEF One
  <2>2. NMains(context', g) <= NMains(context, g) + 1 /\ NMains(context', g) \in Nat
    BY <1>1, <2>1
  <2> QED
    <3>1. GroupOK(r, o, TRUE, NMains(context', g)) /\ r \in Wrapper /\ r.inContext
      BY <1>1, <1>2, <1>8, <2>2, TransferredOK DEF r
    <3> QED
      BY <3>1
<1>12. OptionsTyped'
  BY <1>4, <1>8, <1>11 DEF OptionsInv, OptionsTyped
<1>13. ASSUME NEW x \in Groups
       PROVE  GroupOK(wrapper'[x], freedBy'[x], x \in held', NMains(context', x))
  <2>1. CASE x = g
    <3>1. wrapper'[x] = r /\ freedBy'[x] = o /\ (x \in held') = TRUE
      BY <1>4, <2>1 DEF OptionsInv, OptionsTyped, SetMainGroup, Takes, Usable
    <3> QED
      BY <1>11, <2>1, <3>1
  <2>2. CASE x # g
    <3>1. /\ wrapper'[x] = wrapper[x] /\ freedBy'[x] = freedBy[x] /\ (x \in held') = (x \in held)
      BY <1>4, <2>2 DEF OptionsInv, OptionsTyped
    <3>2. /\ GroupOK(wrapper[x], freedBy[x], x \in held, NMains(context, x))
          /\ NMains(context, x) \in Nat /\ wrapper[x] \in Wrapper
      BY MainsNat DEF OptionsInv, OptionsTyped
    <3>3. CASE x = h
      <4>1. NMains(context', x) = NMains(context, x) - 1
        BY <1>3, <1>9, <2>2, <3>2, <3>3, OptionGroupsAssumption DEF OptionsInv, OptionsTyped, One
      <4>2. GroupOK(wrapper[x], freedBy[x], x \in held, NMains(context, x) - 1)
        BY <3>2 DEF GroupOK, Wrapper, One
      <4> QED
        BY <3>1, <4>1, <4>2
    <3>4. CASE x # h
      <4>1. NMains(context', x) = NMains(context, x)
        BY <1>9, <2>2, <3>2, <3>4 DEF OptionsInv, OptionsTyped, One
      <4> QED
        BY <3>1, <3>2, <4>1
    <3> QED
      BY <3>3, <3>4
  <2> QED
    BY <2>1, <2>2
<1>14. ContextsOK'
  <2>1. context' \in [OptionContexts -> Context]
    BY <1>2, <1>5, <1>6
  <2>2. \A x \in Groups : wrapper[x].inContext => wrapper'[x].inContext
    BY <1>4, <1>11 DEF OptionsInv, OptionsTyped
  <2>3. \A d \in OptionContexts : context[d].live => context'[d].live
    BY <1>2, <1>5, <1>6
  <2>4. ASSUME NEW d \in OptionContexts, context'[d].mainGroup # Null
        PROVE  context'[d].live /\ wrapper'[context'[d].mainGroup].inContext
    <3>1. CASE d = c
      BY <1>2, <1>4, <1>5, <1>6, <1>11, <3>1 DEF OptionsInv, OptionsTyped
    <3>2. CASE d # c
      <4>1. context'[d] = context[d]
        BY <1>2, <1>6, <3>2
      <4>2. context[d].live /\ wrapper[context[d].mainGroup].inContext /\ context[d].mainGroup \in Groups
        BY <2>4, <4>1 DEF OptionsInv, ContextsOK, Context
      <4> QED
        BY <2>2, <4>1, <4>2
    <3> QED
      BY <3>1, <3>2
  <2>5. \A x \in Groups : freedBy'[x] \in OptionContexts => context'[freedBy'[x]].live
    BY <1>2, <1>4, <1>8, <2>3 DEF OptionsInv, OptionsTyped, ContextsOK
  <2> QED
    BY <2>1, <2>4, <2>5 DEF ContextsOK
<1> QED
  BY <1>12, <1>13, <1>14 DEF OptionsInv

(* A context that goes away frees its groups, and releases its main group. *)
LEMMA DropContextKeeps ==
  ASSUME OptionsInv, NEW c \in OptionContexts, DropContext(c)
  PROVE  OptionsInv'
<1> DEFINE h == context[c].mainGroup
           unmain(g) == IF context[c].mainGroup = g THEN [wrapper[g] EXCEPT !.refs = @ - 1]
                        ELSE wrapper[g]
           freed(g) == IF freedBy[g] = c /\ ~wrapper[g].other THEN Destroyed(unmain(g)) ELSE unmain(g)
           o(g) == IF freedBy[g] = c THEN "freed" ELSE freedBy[g]
<1>1. /\ wrapper' = [g \in Groups |-> Settled(freed(g))]
      /\ freedBy' = [g \in Groups |-> o(g)]
      /\ context' = [context EXCEPT ![c] = NoContext]
      /\ held' = held
  BY DEF DropContext
<1>2. /\ context \in [OptionContexts -> Context] /\ context' \in [OptionContexts -> Context]
      /\ context'[c].mainGroup = Null
      /\ \A d \in OptionContexts \ {c} : context'[d] = context[d]
  BY <1>1 DEF OptionsInv, ContextsOK, NoContext, Context
<1>3. ASSUME NEW g \in Groups
      PROVE  /\ GroupOK(Settled(freed(g)), o(g), g \in held, NMains(context', g))
             /\ wrapper[g].inContext => Settled(freed(g)).inContext
             /\ o(g) \in Owner /\ o(g) # c
  <2> DEFINE r == wrapper[g]
             u == unmain(g)
             f == freed(g)
  <2>1. /\ r \in Wrapper /\ freedBy[g] \in Owner /\ NMains(context, g) \in Nat
        /\ GroupOK(r, freedBy[g], g \in held, NMains(context, g))
        /\ NMains(context', g) \in Nat
    BY MainsNat DEF OptionsInv, OptionsTyped
  <2>2. NMains(context', g) = NMains(context, g) - One(h = g)
    <3>1. NMains(context', g) = NMains(context, g) + One(context'[c].mainGroup = g) - One(h = g)
      BY <1>2, MainsChange
    <3>2. context'[c].mainGroup # g
      BY <1>2, OptionGroupsAssumption
    <3> QED
      BY <2>1, <3>1, <3>2 DEF One
  <2>3. h = g => r.inContext
    BY OptionGroupsAssumption DEF OptionsInv, ContextsOK
  <2>4. freedBy[g] = c => r.inContext /\ r.live
    BY <2>1, OptionGroupsAssumption DEF GroupOK, One, Wrapper
  <2>5. r.refs >= One(g \in held) + NMains(context, g) + One(r.inContext /\ (freedBy[g] # "freed" \/ r.other))
    BY <2>1 DEF GroupOK
  <2>6. r.refs - One(h = g) \in Nat
    BY <2>1, <2>2, <2>5 DEF One, Wrapper
  <2>7. /\ u \in Wrapper /\ u.refs = r.refs - One(h = g) /\ u.live = r.live
        /\ u.inContext = r.inContext /\ u.other = r.other /\ u.group = r.group /\ u.callback = r.callback
    <3>1. CASE h = g
      <4>1. u = [r EXCEPT !.refs = r.refs - 1] /\ r.refs - 1 \in Nat /\ One(h = g) = 1
        BY <2>6, <3>1 DEF One
      <4> QED
        BY <2>1, <4>1 DEF Wrapper
    <3>2. CASE h # g
      <4>1. u = r /\ One(h = g) = 0
        BY <3>2 DEF One
      <4>2. r.refs \in Nat
        BY <2>1 DEF Wrapper
      <4>3. r.refs = r.refs - One(h = g)
        BY <4>1, <4>2
      <4> QED
        BY <2>1, <4>1, <4>3
    <3> QED
      BY <3>1, <3>2
  <2> DEFINE frees == freedBy[g] = c /\ ~r.other
  <2>8. /\ f \in Wrapper /\ f.live = r.live /\ f.inContext = r.inContext /\ f.other = r.other
        /\ f.refs = IF frees THEN u.refs - 1 ELSE u.refs
        /\ f.group = IF frees THEN FALSE ELSE r.group
        /\ f.callback = IF frees THEN FALSE ELSE r.callback
    <3>1. CASE frees
      <4>1. f = Destroyed(u) /\ u.inContext
        BY <2>4, <2>7, <3>1
      <4>2. u.refs - 1 \in Nat
        BY <2>1, <2>2, <2>4, <2>5, <2>7, <3>1, OptionGroupsAssumption DEF One, Wrapper
      <4> HIDE DEF u, f
      <4>3. f = [u EXCEPT !.group = FALSE, !.callback = FALSE, !.strings = FALSE, !.refs = u.refs - 1]
        BY <4>1 DEF Destroyed
      <4> QED
        BY <2>7, <3>1, <4>2, <4>3 DEF Wrapper
    <3>2. CASE ~frees
      <4>1. f = u
        BY <3>2
      <4> HIDE DEF u, f, frees
      <4> QED
        BY <2>7, <3>2, <4>1
    <3> QED
      BY <3>1, <3>2
  <2>9. /\ o(g) \in Owner /\ o(g) # c
        /\ freedBy[g] = c => o(g) = "freed"
        /\ freedBy[g] # c => o(g) = freedBy[g]
    BY <2>1, OptionGroupsAssumption DEF Owner
  <2> HIDE DEF u, f, o, r, h
  <2>10. f.refs >= One(g \in held) + NMains(context', g) + One(f.inContext /\ (o(g) # "freed" \/ f.other))
    BY <2>1, <2>2, <2>4, <2>5, <2>7, <2>8, <2>9, OptionGroupsAssumption DEF One, Wrapper
  <2>11. /\ r.refs \in Nat /\ f.refs \in Nat /\ f.refs <= r.refs
         /\ r.live <=> r.refs > 0
    BY <2>1, <2>4, <2>7, <2>8 DEF GroupOK, One, Wrapper
  <2>12. f.live /\ f.refs = 0 => f.inContext
    BY <2>3, <2>4, <2>7, <2>8, <2>11 DEF One, h
  <2> DEFINE s == Settled(f)
  <2>13. /\ s \in Wrapper /\ s.live = (f.live /\ f.refs # 0) /\ s.refs = f.refs /\ s.inContext = f.inContext
         /\ s.other = f.other /\ s.group = f.group /\ s.callback = f.callback
    <3>1. CASE f.live /\ f.refs = 0
      <4>1. s = [f EXCEPT !.live = FALSE]
        BY <2>12, <3>1 DEF Settled, Frees
      <4> QED
        BY <2>8, <3>1, <4>1 DEF Wrapper
    <3>2. CASE ~(f.live /\ f.refs = 0)
      <4>1. s = f
        BY <3>2 DEF Settled
      <4>2. f.live = (f.live /\ f.refs # 0)
        BY <2>8, <3>2 DEF Wrapper
      <4> QED
        BY <2>8, <4>1, <4>2
    <3> QED
      BY <3>1, <3>2
  <2> HIDE DEF s
  <2>14. s.live <=> s.refs > 0
    <3>1. f.live => (f.refs # 0 => f.refs > 0)
      BY <2>11
    <3>2. f.refs > 0 => r.refs > 0 /\ f.refs # 0
      BY <2>11
    <3>3. f.live = r.live
      BY <2>8
    <3>4. s.refs = f.refs /\ s.live = (f.live /\ f.refs # 0)
      BY <2>13
    <3>5. f.refs > 0 => f.live
      BY <2>11, <3>2, <3>3
    <3>6. f.live /\ f.refs # 0 <=> f.refs > 0
      BY <3>1, <3>2, <3>5
    <3> QED
      BY <3>4, <3>6, Zenon
  <2>15. CASE freedBy[g] = c
    <3>1. o(g) = "freed" /\ o(g) \notin OptionContexts \cup {"lost", "none", "wrapper", "library"} /\ s.inContext
      BY <2>4, <2>8, <2>9, <2>13, <2>15, OptionGroupsAssumption
    <3>2. ~s.other => ~s.group /\ ~s.callback
      BY <2>8, <2>13, <2>15
    <3>3. GroupOK(s, o(g), g \in held, NMains(context', g))
      BY <2>1, <2>9, <2>10, <2>13, <2>14, <3>1, <3>2 DEF GroupOK
    <3> QED
      BY <2>8, <2>9, <2>13, <3>3 DEF s, f, r
  <2>16. CASE freedBy[g] # c
    <3>1. o(g) = freedBy[g] /\ s.group = r.group /\ s.callback = r.callback /\ s.other = r.other
          /\ s.inContext = r.inContext /\ (s.live => r.live)
      BY <2>8, <2>9, <2>13, <2>16
    <3>2. o(g) = "wrapper" => s.live
      BY <2>1, <2>8, <2>12, <2>13, <3>1 DEF GroupOK
    <3>3. GroupOK(s, o(g), g \in held, NMains(context', g))
      BY <2>1, <2>9, <2>10, <2>13, <2>14, <3>1, <3>2 DEF GroupOK
    <3> QED
      BY <2>8, <2>9, <2>13, <3>3 DEF s, f, r
  <2> QED
    BY <2>15, <2>16
<1> HIDE DEF freed, o, unmain
<1>4. OptionsTyped'
  BY <1>1, <1>3 DEF OptionsInv, OptionsTyped, GroupOK
<1>5. ASSUME NEW x \in Groups
      PROVE  GroupOK(wrapper'[x], freedBy'[x], x \in held', NMains(context', x))
  BY <1>1, <1>3
<1>6. ContextsOK'
  <2>1. ASSUME NEW d \in OptionContexts, context'[d].mainGroup # Null
        PROVE  context'[d].live /\ wrapper'[context'[d].mainGroup].inContext
    <3>1. context'[d] = context[d]
      BY <1>2, <2>1
    <3>2. context[d].live /\ wrapper[context[d].mainGroup].inContext /\ context[d].mainGroup \in Groups
      BY <2>1, <3>1 DEF OptionsInv, ContextsOK, Context
    <3> QED
      BY <1>1, <1>3, <3>1, <3>2
  <2>2. ASSUME NEW g \in Groups, freedBy'[g] \in OptionContexts
        PROVE  context'[freedBy'[g]].live
    <3>1. freedBy'[g] = freedBy[g] /\ freedBy[g] # c
      BY <1>1, <1>3, <2>2, OptionGroupsAssumption DEF o
    <3> QED
      BY <1>2, <2>2, <3>1 DEF OptionsInv, ContextsOK
  <2> QED
    BY <1>2, <2>1, <2>2 DEF ContextsOK
<1> QED
  BY <1>4, <1>5, <1>6 DEF OptionsInv

LEMMA OptionsKeep == OptionsInv /\ [OptionsNext]_optionVars => OptionsInv'
<1> SUFFICES ASSUME OptionsInv, [OptionsNext]_optionVars PROVE OptionsInv'
  OBVIOUS
<1>1. CASE UNCHANGED optionVars
  <2>1. UNCHANGED <<wrapper, freedBy, held, context>>
    BY <1>1 DEF optionVars, groupVars
  <2> QED
    BY <2>1 DEF OptionsInv, OptionsTyped, ContextsOK
<1>2. CASE OptionsNext
  BY <1>2, NewKeeps, EntriesKeep, DropKeeps, ParseKeeps, GetKeeps, DropContextKeeps, AddKeeps, SetKeeps,
     CallbackKeeps
  DEF OptionsNext
<1> QED
  BY <1>1, <1>2

LEMMA OptionsInductive == OptionsSpec => []OptionsInv
BY OptionsStart, OptionsKeep, PTL DEF OptionsSpec

(* What a context may call is there, for any number of groups and contexts,
   whatever Python keeps or drops, and whether the context parses or not.  *)
THEOREM CallbacksLive == OptionsSpec => []GroupCallable
<1>1. OptionsInv => GroupCallable
  <2> SUFFICES ASSUME OptionsInv, NEW g \in Groups, freedBy[g] \in OptionContexts \cup {"wrapper"}, ~wrapper[g].other
               PROVE  /\ wrapper[g].live /\ wrapper[g].callback /\ wrapper[g].group
                      /\ freedBy[g] \in OptionContexts => context[freedBy[g]].live
    BY DEF GroupCallable
  <2>1. GroupOK(wrapper[g], freedBy[g], g \in held, NMains(context, g)) /\ NMains(context, g) \in Nat
       
    BY MainsNat DEF OptionsInv, OptionsTyped
  <2>2. wrapper[g].live
    BY <2>1, OptionGroupsAssumption DEF GroupOK, One, Wrapper
  <2> QED
    BY <2>1, <2>2 DEF GroupOK, OptionsInv, ContextsOK
<1> QED
  BY <1>1, OptionsInductive, PTL

(* The GOptionGroup is freed once, by its wrapper or by one context, and the
   wrapper is there, with a reference for each of those who need it, as long
   as anyone does, for any number of groups and contexts.                  *)
THEOREM GroupsKept == OptionsSpec => []GroupKept
<1>1. ASSUME OptionsInv PROVE FreedOnce
  <2> SUFFICES ASSUME NEW g \in Groups
               PROVE  LET r == wrapper[g]
                      IN  /\ ~r.other /\ freedBy[g] = "freed" => ~r.group /\ ~r.callback
                          /\ ~r.live /\ ~r.other /\ freedBy[g] # "none" => freedBy[g] = "freed"
    BY DEF FreedOnce
  <2>1. GroupOK(wrapper[g], freedBy[g], g \in held, NMains(context, g)) /\ NMains(context, g) \in Nat
       
    BY <1>1, MainsNat DEF OptionsInv, OptionsTyped
  <2>2. freedBy[g] \in OptionContexts \cup {"lost"} => wrapper[g].live
    BY <2>1, OptionGroupsAssumption DEF GroupOK, One, Wrapper
  <2> QED
    BY <2>1, <2>2 DEF GroupOK, Owner
<1>2. ASSUME OptionsInv PROVE ReferencesSuffice
  <2> SUFFICES ASSUME NEW g \in Groups
               PROVE  (wrapper[g].live <=> wrapper[g].refs > 0) /\ wrapper[g].refs >= Needs(g)
    BY DEF ReferencesSuffice
  <2>1. /\ GroupOK(wrapper[g], freedBy[g], g \in held, NMains(context, g))
        /\ NMains(context, g) \in Nat /\ wrapper[g].refs \in Nat
    BY <1>2, MainsNat DEF OptionsInv, OptionsTyped, Wrapper
  <2>2. Needs(g) = One(g \in held) + NMains(context, g) + One(freedBy[g] \in OptionContexts)
    BY DEF Needs, NMains, Mains, One
  <2>3. freedBy[g] \in OptionContexts => freedBy[g] # "freed" /\ wrapper[g].inContext
    BY <2>1, OptionGroupsAssumption DEF GroupOK
  <2> QED
    BY <2>1, <2>2, <2>3 DEF GroupOK, One
<1>3. OptionsInv => GroupKept
  BY <1>1, <1>2 DEF GroupKept
<1> QED
  BY <1>3, OptionsInductive, PTL
=============================================================================
