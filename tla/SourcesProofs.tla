--------------------------- MODULE SourcesProofs ---------------------------
(***************************************************************************)
(* Proofs of the safety properties of Sources, for any threads and data.   *)
(***************************************************************************)
EXTENDS Sources, Integers, SequenceTheorems, TLAPS

(* What Balanced rests on: only a live object has a GSource; the object of
   an attached source has a reference for it, also if attach() was called
   again; and nothing has happened to a source that is not made.  While
   destroy() is to forget the GSource there is no reference.               *)
IInv ==
  /\ attaches \in Int
  /\ source \in BOOLEAN /\ context \in BOOLEAN /\ misused \in BOOLEAN
  /\ source => object = "live" /\ gsource # "none"
  /\ kind = "source" /\ context /\ source /\ ending = {} => attaches > 0
  /\ ending # {} => destroyed /\ context
  /\ gsource = "none" => ~context /\ attaches = 0
  /\ Balanced

(* Settle keeps the invariant if the references it starts from are right:
   an object that is freed had none.                                       *)
LEMMA SettleKeeps ==
  ASSUME NEW src \in BOOLEAN, NEW own, NEW d,
         UNCHANGED kind, attaches' \in Int, context' \in BOOLEAN, misused' \in BOOLEAN,
         src => object = "live", ending' # {} => destroyed' /\ context',
         kind = "source" /\ context' /\ src /\ ending' = {} => attaches' > 0,
         ~misused' =>
           attaches' = IF kind = "source" /\ context' /\ src /\ ending' = {} THEN 1 ELSE 0,
         Settle(src, own, d)
  PROVE  IInv'
<1> DEFINE kept == object = "live" /\ (held' \/ attaches' > 0 \/ ending' # {} \/ Bound(calls'))
<1>1. /\ object' = IF object = "live" /\ ~kept THEN "freed" ELSE object
      /\ source' = (src /\ kept)
      /\ gsource' \in {"live", "finalized"}
  BY DEF Settle
<1>2. source' => object' = "live" /\ src
  BY <1>1
<1>3. src /\ ~source' => ~(attaches' > 0) /\ ending' = {}
  <2> SUFFICES ASSUME src, ~source' PROVE ~(attaches' > 0) /\ ending' = {}
    OBVIOUS
  <2>1. object = "live"
    OBVIOUS
  <2>2. ~(attaches' > 0) /\ ~(ending' # {})
    BY <1>1, <2>1
  <2> QED
    BY <2>2
<1>4. kind' = "source" /\ context' /\ source' /\ ending' = {} => attaches' > 0
  BY <1>2
<1>5. gsource' # "none"
  BY <1>1
<1>6. Balanced'
  BY <1>2, <1>3 DEF Balanced
<1> QED
  BY <1>1, <1>2, <1>4, <1>5, <1>6 DEF IInv

LEMMA InitKeeps == Init => IInv
<1> SUFFICES ASSUME Init PROVE IInv
  OBVIOUS
<1>1. source = FALSE /\ context = FALSE /\ misused = FALSE /\ attaches = 0 /\ ending = {}
  BY DEF Init
<1>2. ~source /\ ~context
  BY <1>1, Zenon
<1>3. Balanced
  BY <1>1, <1>2 DEF Balanced
<1>4. attaches \in Int
  BY <1>1
<1> QED
  BY <1>1, <1>2, <1>3, <1>4, Zenon DEF IInv

LEMMA NextKeeps == IInv /\ [Next]_vars => IInv'
<1> SUFFICES ASSUME IInv, [Next]_vars PROVE IInv'
  OBVIOUS
<1>1. ASSUME NEW t \in Threads, Create(t) PROVE IInv'
  BY <1>1 DEF IInv, Balanced, Create, fixed
<1>2. ASSUME NEW t \in Threads, NEW d \in Datas, Install(t, d) PROVE IInv'
  BY <1>2 DEF IInv, Balanced, Install, fixed
<1>3. ASSUME NEW t \in Threads, attaches >= 0, Attach(t) PROVE IInv'
  <2>1. /\ attaches' \in Int /\ kind' = kind /\ source /\ source' = source /\ object' = object
        /\ UNCHANGED <<ending, destroyed>>
        /\ gsource' = gsource /\ context'
        /\ misused' = (misused \/ context)
        /\ attaches' = IF kind = "source" THEN attaches + 1 ELSE attaches
    BY <1>3 DEF IInv, Attach, fixed
  <2>2. gsource # "none"
    BY <1>3 DEF IInv, Attach, Has
  <2>3. Balanced'
    BY <2>1 DEF IInv, Balanced
  <2> QED
    BY <1>3, <2>1, <2>2, <2>3 DEF IInv
<1>4. ASSUME NEW t \in Threads, Destroy(t) PROVE IInv'
  <2>1. /\ kind' = kind /\ source /\ context' = context
        /\ misused' = (misused \/ ending # {}) /\ destroyed'
        /\ ending' = IF Finalizing THEN ending \cup {t} ELSE ending
        /\ attaches' = IF kind = "source" /\ context THEN attaches - 1 ELSE attaches
        /\ Settle(Finalizing, owns, IF Attached THEN NoData ELSE data)
    BY <1>4 DEF Destroy, fixed
  <2>2. attaches' \in Int /\ misused' \in BOOLEAN /\ (~misused' => attaches' = 0)
    BY <2>1 DEF IInv, Balanced
  <2>3. /\ Finalizing \in BOOLEAN /\ (Finalizing => ending' # {})
        /\ ending' # {} => context
    BY <2>1 DEF Finalizing, Attached, IInv
  <2>4. object = "live"
    BY <2>1 DEF IInv
  <2>5. ~misused' =>
          attaches' = IF kind = "source" /\ context' /\ Finalizing /\ ending' = {} THEN 1 ELSE 0
    BY <2>2, <2>3
  <2> QED
    BY <2>1, <2>2, <2>3, <2>4, <2>5, SettleKeeps DEF IInv
<1>15. ASSUME NEW t \in Threads, Forget(t) PROVE IInv'
  <2>1. /\ UNCHANGED <<kind, attaches, context, misused, destroyed>> /\ Settle(FALSE, owns, data)
        /\ ending # {} /\ destroyed /\ context
    BY <1>15 DEF Forget, fixed, IInv
  <2>2. ~misused' => attaches' = 0
    BY <2>1 DEF IInv, Balanced
  <2> QED
    BY <2>1, <2>2, SettleKeeps DEF IInv
<1>5. ASSUME NEW d, UNCHANGED <<fixed, ending, attaches, context>>, misused' \in BOOLEAN,
             misused => misused', destroyed => destroyed', Settle(source, owns, d)
      PROVE  IInv'
  <2>1. kind' = kind /\ attaches' = attaches /\ context' = context
    BY <1>5 DEF fixed
  <2>2. ~misused' =>
          attaches' = IF kind = "source" /\ context' /\ source /\ ending' = {} THEN 1 ELSE 0
    BY <1>5, <2>1 DEF IInv, Balanced
  <2> QED
    BY <1>5, <2>1, <2>2, SettleKeeps DEF IInv
<1>6. ASSUME NEW t \in Threads, SourceRemove(t) PROVE IInv'
  BY <1>5, <1>6 DEF IInv, SourceRemove
<1>7. ASSUME NEW t \in Threads, NEW d \in Datas, SetCallback(t, d) PROVE IInv'
  BY <1>5, <1>7 DEF IInv, SetCallback
<1>8. ASSUME NEW t \in Threads, LetGo(t) PROVE IInv'
  BY <1>5, <1>8 DEF IInv, LetGo
<1>9. ASSUME NEW t \in Threads, NEW result \in Results, Return(t, result) PROVE IInv'
  BY <1>5, <1>9 DEF IInv, Return
<1>10. ASSUME DispatchNothing PROVE IInv'
  BY <1>5, <1>10 DEF IInv, DispatchNothing
<1>11. ASSUME UNCHANGED <<fixed, ending, object, attaches, source, gsource, context, destroyed, misused>>
       PROVE  IInv'
  BY <1>11 DEF IInv, Balanced, fixed
<1>12. ASSUME NEW t \in Threads,
              \/ SetCanRecurse(t) \/ Keep(t) \/ Enter(t)
              \/ \E what \in {"prepare", "check", "dispatch"} : Begin(t, what)
       PROVE  IInv'
  BY <1>11, <1>12 DEF SetCanRecurse, Keep, Enter, Begin
<1>13. CASE UNCHANGED vars
  BY <1>11, <1>13 DEF vars
<1>14. CASE Next
  BY <1>1, <1>2, <1>3, <1>4, <1>6, <1>7, <1>8, <1>9, <1>10, <1>12, <1>14, <1>15
  DEF Next, Step, Add, AddWatch, AddChild, AddChannelWatch
<1> QED
  BY <1>13, <1>14

(* The object of a glib.Source that attach() was called on once has exactly
   one reference for it until destroy(), and none afterwards, for any number
   of threads, nested dispatches and callback data, whoever destroyed the
   GSource and wherever destroy() is called, unless it is called again by
   the callback data that another destroy() drops.                         *)
THEOREM AttachBalance == Spec => []Balanced
<1>1. Init => IInv
  BY InitKeeps
<1>2. IInv /\ [Next]_vars => IInv'
  BY NextKeeps
<1>3. IInv => Balanced
  BY DEF IInv
<1> QED
  BY <1>1, <1>2, <1>3, PTL DEF Spec

-----------------------------------------------------------------------------
(* What the calls of the context rest on.                                  *)
Typed ==
  /\ calls \in [Threads -> Seq(Call)]
  /\ data \in Datas \cup {NoData} /\ datas \in [Datas -> {"unused", "owned", "released"}]
  /\ remote \in BOOLEAN /\ destroyed \in BOOLEAN /\ over \in BOOLEAN

(* One thread has calls, and all but the innermost are in Python code.     *)
StackOK ==
  /\ \A t \in Threads : \A i \in 1..(Len(calls[t]) - 1) : calls[t][i].running
  /\ \A t, u \in Threads : calls[t] # <<>> /\ calls[u] # <<>> => t = u

(* Only calls that are in Python code see the end of a source.             *)
OverOK ==
  /\ over => destroyed /\ (~remote => \A t \in Threads : calls[t] # <<>> => InCall(t))
  /\ ending # {} => over

(* The data of the GSource and of the calls is owned.                      *)
Owned(cs) ==
  \A t \in Threads : \A i \in DOMAIN cs[t] : cs[t][i].data # NoData => datas[cs[t][i].data] = "owned"
DataOK == (data # NoData => datas[data] = "owned") /\ Owned(calls)

(* An attached glib.Source has its GSource; its object lives while it is
   called.                                                                 *)
ObjectOK ==
  kind = "source" => /\ Attached => source
                     /\ ~remote /\ Busy(calls) => object = "live"

CInv == Typed /\ StackOK /\ OverOK /\ DataOK /\ ObjectOK

LEMMA Fronts ==
  ASSUME NEW S, NEW s \in Seq(S), s # <<>>
  PROVE  /\ Len(s) \in Nat \ {0} /\ Last(s) = s[Len(s)] /\ Last(s) \in S
         /\ Front(s) \in Seq(S) /\ Len(Front(s)) = Len(s) - 1
         /\ \A i \in 1..(Len(s) - 1) : Front(s)[i] = s[i]
<1>1. Len(s) \in Nat /\ s \in [1..Len(s) -> S] /\ (Len(s) = 0 <=> s = <<>>)
  OBVIOUS
<1>3. Last(s) = s[Len(s)] /\ Last(s) \in S
  BY DEF Last
<1>6. /\ Len(Front(s)) = Len(s) - 1
      /\ \A i \in 1..(Len(s) - 1) : Front(s)[i] = s[i]
  BY <1>1 DEF Front
<1> QED
  BY <1>3, <1>6 DEF Front

LEMMA Tops ==
  ASSUME NEW S, NEW s \in Seq(S), NEW e \in S, s # <<>>
  PROVE  LET n == Append(Front(s), e)
         IN  /\ n \in Seq(S) /\ n # <<>> /\ Len(n) = Len(s) /\ Last(n) = e /\ n[Len(s)] = e
             /\ \A i \in 1..(Len(s) - 1) : n[i] = s[i]
<1> DEFINE f == Front(s)
           n == Append(f, e)
<1>1. /\ Len(s) \in Nat \ {0} /\ f \in Seq(S) /\ Len(f) = Len(s) - 1
      /\ \A i \in 1..(Len(s) - 1) : f[i] = s[i]
  BY Fronts
<1> HIDE DEF f
<1>2. n \in Seq(S) /\ n # <<>> /\ Len(n) = Len(f) + 1 /\ n[Len(n)] = e
      /\ \A i \in 1..Len(f) : n[i] = f[i]
  BY <1>1
<1>3. Len(n) = Len(s)
  BY <1>1
<1>4. \A i \in 1..(Len(s) - 1) : n[i] = s[i]
  BY <1>1
<1>5. Last(n) = e
  BY DEF Last
<1> QED
  BY <1>2, <1>3, <1>4, <1>5 DEF f

LEMMA Pushes ==
  ASSUME NEW S, NEW s \in Seq(S), NEW e \in S
  PROVE  LET n == Append(s, e)
         IN  /\ n \in Seq(S) /\ n # <<>> /\ Len(n) = Len(s) + 1 /\ Last(n) = e /\ n[Len(n)] = e
             /\ \A i \in 1..Len(s) : n[i] = s[i]
BY DEF Last

(* Settle releases no data that the GSource or a call uses.                *)
LEMMA SettleData ==
  ASSUME Typed, calls' \in [Threads -> Seq(Call)], NEW src, NEW own, NEW d \in Datas \cup {NoData},
         Owned(calls'), Settle(src, own, d)
  PROVE  /\ data' \in Datas \cup {NoData} /\ datas' \in [Datas -> {"unused", "owned", "released"}]
         /\ DataOK'
<1> DEFINE kept == object = "live" /\ (held' \/ attaches' > 0 \/ ending' # {} \/ Bound(calls'))
           refd == (own /\ (kept \/ ~src)) \/ (context' /\ ~destroyed') \/ Busy(calls')
           left == IF refd THEN d ELSE NoData
           used == {left} \cup Lent(calls')
<1>1. /\ data' = left
      /\ datas' = [e \in Datas |->
           CASE e \in Dropped(used) -> "released" [] e = left -> "owned" [] OTHER -> datas[e]]
  BY DEF Settle
<1>2. left \in Datas \cup {NoData} /\ NoData \notin Datas
  BY SourcesAssumption
<1> HIDE DEF left
<1>3. ASSUME NEW e \in Datas
      PROVE  /\ datas'[e] \in {"unused", "owned", "released"}
             /\ e = left => datas'[e] = "owned"
             /\ e \in Lent(calls') => datas'[e] \in {"owned", datas[e]}
  <2>1. datas'[e] = CASE e \in Dropped(used) -> "released" [] e = left -> "owned" [] OTHER -> datas[e]
    BY <1>1
  <2>2. e = left \/ e \in Lent(calls') => e \notin Dropped(used)
    BY DEF Dropped
  <2>3. datas[e] \in {"unused", "owned", "released"}
    BY DEF Typed
  <2> HIDE DEF used
  <2>4. CASE e \in Dropped(used)
    BY <2>1, <2>2, <2>4
  <2>5. CASE e \notin Dropped(used) /\ e = left
    BY <2>1, <2>5
  <2>6. CASE e \notin Dropped(used) /\ e # left
    BY <2>1, <2>3, <2>6
  <2> QED
    BY <2>4, <2>5, <2>6
<1>4. datas' \in [Datas -> {"unused", "owned", "released"}]
  BY <1>1, <1>3
<1>5. data' # NoData => datas'[data'] = "owned"
  BY <1>1, <1>2
<1>6. ASSUME NEW t \in Threads, NEW i \in DOMAIN calls'[t], calls'[t][i].data # NoData
      PROVE  datas'[calls'[t][i].data] = "owned"
  <2> DEFINE e == calls'[t][i].data
  <2>1. calls'[t] \in Seq(Call)
    OBVIOUS
  <2>2. calls'[t][i] \in Call
    BY <2>1
  <2>3. e \in Datas
    BY <1>6, <2>2 DEF Call
  <2>4. e \in Lent(calls')
    BY DEF Lent
  <2>5. datas[e] = "owned"
    BY <1>6 DEF Owned
  <2> QED
    BY <1>3, <2>3, <2>4, <2>5
<1> QED
  BY <1>1, <1>2, <1>4, <1>5, <1>6 DEF DataOK, Owned

(* Settle frees no object that the context calls or may call.              *)
LEMMA SettleObject ==
  ASSUME NEW src \in BOOLEAN, NEW own, NEW d, UNCHANGED <<kind, remote>>,
         kind = "source" /\ Attached' => src /\ object = "live" /\ attaches' > 0,
         kind = "source" /\ ~remote /\ Busy(calls') => object = "live" /\ Bound(calls'),
         Settle(src, own, d)
  PROVE  ObjectOK'
<1>1. LET kept == object = "live" /\ (held' \/ attaches' > 0 \/ ending' # {} \/ Bound(calls'))
      IN  /\ object' = IF object = "live" /\ ~kept THEN "freed" ELSE object
          /\ source' = (src /\ kept)
  BY DEF Settle
<1>2. kind = "source" /\ Attached' => source'
  BY <1>1
<1>3. kind = "source" /\ ~remote /\ Busy(calls') => object' = "live"
  BY <1>1
<1> QED
  BY <1>2, <1>3 DEF ObjectOK

(* Python code that changes a source in the thread that calls it is in the
   innermost call.                                                         *)
LEMMA InnermostRuns ==
  ASSUME StackOK, NEW t \in Threads, InPython(t), ~remote,
         NEW u \in Threads, calls[u] # <<>>
  PROVE  u = t /\ InCall(u)
BY DEF StackOK, InPython, Busy

LEMMA RunningIsBound ==
  ASSUME Typed, NEW u \in Threads, InCall(u), kind = "source"
  PROVE  Bound(calls)
<1>1. Len(calls[u]) \in DOMAIN calls[u] /\ calls[u][Len(calls[u])].running
  <2>1. calls[u] \in Seq(Call) /\ calls[u] # <<>>
    BY DEF Typed, InCall
  <2>2. Len(calls[u]) \in Nat \ {0} /\ Last(calls[u]) = calls[u][Len(calls[u])]
    BY <2>1, Fronts
  <2> QED
    BY <2>2 DEF InCall
<1> QED
  BY <1>1 DEF Bound

(* Python code changes the source, or destroy() forgets it, and nothing
   returns.                                                                *)
LEMMA ChangeKeeps ==
  ASSUME IInv, CInv, NEW t \in Threads, InPython(t) \/ over, UNCHANGED <<fixed, calls>>,
         destroyed' \in BOOLEAN, over' \in BOOLEAN, over' => destroyed', ending' # {} => over',
         NEW src \in BOOLEAN, NEW own, NEW d \in Datas \cup {NoData},
         kind = "source" /\ Attached' => src /\ source /\ attaches' > 0,
         Settle(src, own, d)
  PROVE  CInv'
<1> USE DEF CInv
<1>1. kind' = kind /\ remote' = remote /\ calls' = calls
  BY DEF fixed
<1>2. DataOK' /\ Typed'
  <2>1. Owned(calls') /\ calls' \in [Threads -> Seq(Call)]
    BY DEF DataOK, Typed
  <2>2. /\ data' \in Datas \cup {NoData} /\ datas' \in [Datas -> {"unused", "owned", "released"}]
        /\ DataOK'
    BY <2>1, SettleData
  <2> QED
    BY <1>1, <2>2 DEF Typed
<1>6. ASSUME ~remote, NEW u \in Threads, calls[u] # <<>> PROVE InCall(u)
  BY <1>6, InnermostRuns DEF OverOK
<1>3. ObjectOK'
  <2>1. kind = "source" /\ Attached' => src /\ object = "live" /\ attaches' > 0
    BY DEF IInv
  <2>2. ASSUME kind = "source", ~remote, Busy(calls') PROVE object = "live" /\ Bound(calls')
    <3>1. PICK u \in Threads : calls[u] # <<>>
      BY <2>2 DEF Busy
    <3>2. InCall(u)
      BY <1>6, <2>2, <3>1
    <3>3. object = "live"
      BY <2>2 DEF ObjectOK
    <3>4. Bound(calls)
      BY <2>2, <3>2, RunningIsBound
    <3> QED
      BY <3>3, <3>4
  <2> QED
    BY <1>1, <2>1, <2>2, SettleObject
<1>4. StackOK'
  BY DEF StackOK
<1>5. OverOK'
  BY <1>1, <1>6 DEF OverOK, InCall
<1> QED
  BY <1>2, <1>3, <1>4, <1>5

(* GLib chooses a call: the source is not over.                            *)
LEMMA BeginKeeps ==
  ASSUME IInv, CInv, NEW t \in Threads, NEW what \in {"prepare", "check", "dispatch"}, Begin(t, what)
  PROVE  CInv'
<1> USE DEF CInv
<1> DEFINE c == [what |-> what, data |-> IF what = "dispatch" THEN data ELSE NoData,
                 running |-> FALSE]
           n == Append(calls[t], c)
<1>1. /\ UNCHANGED <<kind, remote, ending, object, source, context, destroyed, data, datas, over>>
      /\ calls' = [calls EXCEPT ![t] = n] /\ Attached
      /\ \A u \in Threads \ {t} : calls[u] = <<>>
      /\ calls[t] # <<>> => InCall(t)
  BY DEF Begin, fixed
<1>2. c \in Call /\ calls[t] \in Seq(Call) /\ c.running = FALSE /\ c.data \in {data, NoData}
  BY DEF Typed, Call
<1> HIDE DEF c
<1>3. /\ n \in Seq(Call) /\ n # <<>> /\ Len(n) = Len(calls[t]) + 1 /\ n[Len(n)] = c
      /\ \A i \in 1..Len(calls[t]) : n[i] = calls[t][i]
  BY <1>2
<1>4. /\ Len(calls[t]) \in Nat /\ DOMAIN calls[t] = 1..Len(calls[t])
      /\ DOMAIN n = 1..(Len(calls[t]) + 1)
  OBVIOUS
<1> HIDE DEF n
<1>5. calls'[t] = n /\ (\A u \in Threads \ {t} : calls'[u] = <<>>)
      /\ calls' \in [Threads -> Seq(Call)]
  BY <1>1, <1>3 DEF Typed
<1>6. Typed'
  BY <1>1, <1>5 DEF Typed
<1>7. \A i \in 1..Len(calls[t]) : calls[t][i].running
  <2> SUFFICES ASSUME NEW i \in 1..Len(calls[t]) PROVE calls[t][i].running
    OBVIOUS
  <2>1. CASE i = Len(calls[t])
    <3> QED
      BY <1>1, <2>1 DEF InCall, Last
  <2>2. CASE i # Len(calls[t])
    BY <2>2 DEF StackOK
  <2> QED
    BY <2>1, <2>2
<1>8. StackOK'
  <2>1. \A i \in 1..(Len(n) - 1) : n[i].running
    BY <1>3, <1>7
  <2>2. ASSUME NEW u \in Threads, u # t, NEW i \in 1..(Len(calls'[u]) - 1) PROVE FALSE
    BY <1>5, <2>2
  <2> QED
    BY <1>5, <2>1 DEF StackOK
<1>9. OverOK'
  BY <1>1 DEF OverOK, Attached
<1>10. DataOK'
  <2>1. ASSUME NEW i \in DOMAIN n, n[i].data # NoData PROVE datas[n[i].data] = "owned"
    <3>1. CASE i = Len(n)
      BY <1>2, <1>3, <2>1, <3>1 DEF DataOK
    <3>2. CASE i # Len(n)
      <4>1. i \in DOMAIN calls[t] /\ n[i] = calls[t][i]
        BY <1>3, <1>4, <3>2
      <4> QED
        BY <2>1, <4>1 DEF DataOK, Owned
    <3> QED
      BY <3>1, <3>2
  <2> QED
    BY <1>1, <2>1 DEF DataOK, Owned
<1>11. ObjectOK'
  BY <1>1 DEF ObjectOK, IInv
<1> QED
  BY <1>6, <1>8, <1>9, <1>10, <1>11

(* A call reaches Python code.                                             *)
LEMMA EnterKeeps ==
  ASSUME CInv, NEW t \in Threads, Enter(t)
  PROVE  CInv'
<1> USE DEF CInv
<1> DEFINE s == calls[t]
           c == [Last(s) EXCEPT !.running = TRUE]
           n == Append(Front(s), c)
<1>1. /\ UNCHANGED <<kind, remote, ending, object, source, context, destroyed, data, datas, over>>
      /\ calls' = [calls EXCEPT ![t] = n] /\ s # <<>>
  BY DEF Enter, fixed
<1>2. s \in Seq(Call)
  BY DEF Typed
<1>3. Last(s) = s[Len(s)] /\ Last(s) \in Call /\ Len(s) \in Nat \ {0}
  BY <1>1, <1>2, Fronts
<1>4. c \in Call /\ c.running = TRUE /\ c.data = s[Len(s)].data
  BY <1>3 DEF Call
<1> HIDE DEF c
<1>5. /\ n \in Seq(Call) /\ n # <<>> /\ Len(n) = Len(s) /\ Last(n) = c /\ n[Len(s)] = c
      /\ \A i \in 1..(Len(s) - 1) : n[i] = s[i]
  BY <1>1, <1>2, <1>4, Tops
<1> HIDE DEF n
<1>7. calls'[t] = n /\ (\A u \in Threads \ {t} : calls'[u] = calls[u])
      /\ calls' \in [Threads -> Seq(Call)]
  BY <1>1, <1>5 DEF Typed
<1>8. Typed'
  BY <1>1, <1>7 DEF Typed
<1>9. StackOK'
  <2>1. \A i \in 1..(Len(n) - 1) : n[i].running
    BY <1>5 DEF StackOK
  <2>2. \A u \in Threads : calls'[u] # <<>> => u = t
    BY <1>1 DEF StackOK
  <2>3. \A u \in Threads : \A i \in 1..(Len(calls'[u]) - 1) : calls'[u][i].running
    BY <1>7, <2>1 DEF StackOK
  <2> QED
    BY <2>2, <2>3 DEF StackOK
<1>10. OverOK'
  BY <1>1, <1>4, <1>5 DEF OverOK, InCall
<1>11. DataOK'
  <2>1. ASSUME NEW i \in DOMAIN n PROVE i \in DOMAIN s /\ n[i].data = s[i].data
    BY <1>4, <1>5
  <2>2. Owned(calls')
    BY <1>7, <2>1 DEF DataOK, Owned
  <2> QED
    BY <1>1, <2>2 DEF DataOK, Owned
<1>12. ObjectOK'
  BY <1>1 DEF ObjectOK, Attached, Busy
<1> QED
  BY <1>8, <1>9, <1>10, <1>11, <1>12

(* The innermost call returns; those that remain are in Python code.       *)
LEMMA ReturnKeeps ==
  ASSUME IInv, CInv, NEW t \in Threads, NEW result \in Results, Return(t, result)
  PROVE  CInv'
<1> USE DEF CInv
<1> DEFINE s == calls[t]
           n == Front(s)
           ends == Last(s).what = "dispatch" /\ ~More(result)
<1>1. /\ UNCHANGED <<fixed, ending, attaches, context>> /\ s # <<>>
      /\ calls' = [calls EXCEPT ![t] = n]
      /\ over' = (over \/ ends) /\ destroyed' = (destroyed \/ ends)
      /\ Settle(source, owns, IF ends /\ Attached THEN NoData ELSE data)
  BY DEF Return, InCall
<1> HIDE DEF ends
<1>2. kind' = kind /\ remote' = remote /\ s \in Seq(Call)
  BY <1>1 DEF Typed, fixed
<1>3. /\ Len(s) \in Nat \ {0} /\ n \in Seq(Call) /\ Len(n) = Len(s) - 1
      /\ \A i \in 1..(Len(s) - 1) : n[i] = s[i]
  BY <1>1, <1>2, Fronts
<1>4. DOMAIN s = 1..Len(s) /\ DOMAIN n = 1..Len(n)
  OBVIOUS
<1> HIDE DEF n
<1>5. calls'[t] = n /\ (\A u \in Threads \ {t} : calls'[u] = <<>>)
      /\ calls' \in [Threads -> Seq(Call)]
  BY <1>1, <1>3 DEF Typed, StackOK
<1>6. \A i \in 1..Len(n) : n[i].running
  BY <1>3 DEF StackOK
<1>7. DataOK' /\ Typed'
  <2>1. Owned(calls')
    <3>1. \A i \in DOMAIN n : i \in DOMAIN s /\ n[i] = s[i]
      BY <1>3, <1>4
    <3>2. ASSUME NEW i \in DOMAIN n, n[i].data # NoData PROVE datas[n[i].data] = "owned"
      BY <3>1, <3>2 DEF DataOK, Owned
    <3> QED
      BY <1>5, <3>2 DEF Owned
  <2>2. (IF ends /\ Attached THEN NoData ELSE data) \in Datas \cup {NoData}
    BY DEF Typed
  <2>3. /\ data' \in Datas \cup {NoData} /\ datas' \in [Datas -> {"unused", "owned", "released"}]
        /\ DataOK'
    BY <1>1, <1>5, <2>1, <2>2, SettleData
  <2>4. over' \in BOOLEAN /\ destroyed' \in BOOLEAN
    BY <1>1
  <2> QED
    BY <1>2, <1>5, <2>3, <2>4 DEF Typed
<1>8. ASSUME n # <<>> PROVE Len(n) \in 1..Len(n) /\ Last(n).running
  <2>1. Len(n) \in Nat \ {0} /\ Last(n) = n[Len(n)]
    BY <1>3, <1>8, Fronts
  <2> QED
    BY <1>6, <2>1
<1>9. ObjectOK'
  <2>1. kind = "source" /\ Attached' => source /\ object = "live" /\ attaches' > 0
    <3>1. Attached' => Attached /\ context
      BY <1>1 DEF Attached
    <3> QED
      BY <1>1, <3>1 DEF IInv, ObjectOK, Attached
  <2>2. ASSUME kind = "source", ~remote, Busy(calls') PROVE object = "live" /\ Bound(calls')
    <3>1. n # <<>>
      BY <1>5, <2>2 DEF Busy
    <3>2. Len(n) \in DOMAIN n /\ n[Len(n)].running
      BY <1>6, <3>1
    <3>3. Bound(calls')
      BY <1>5, <2>2, <3>2 DEF Bound
    <3> QED
      BY <1>1, <2>2, <3>3 DEF ObjectOK, Busy
  <2>3. source \in BOOLEAN
    BY DEF IInv
  <2> QED
    BY <1>1, <1>2, <2>1, <2>2, <2>3, SettleObject
<1>10. StackOK'
  <2>1. \A i \in 1..(Len(n) - 1) : n[i].running
    BY <1>6
  <2>2. ASSUME NEW u \in Threads, u # t, NEW i \in 1..(Len(calls'[u]) - 1) PROVE FALSE
    BY <1>5, <2>2
  <2> QED
    BY <1>5, <2>1 DEF StackOK
<1>11. OverOK'
  <2>1. \A u \in Threads : calls'[u] # <<>> => InCall(u)'
    BY <1>5, <1>8 DEF InCall
  <2> QED
    BY <1>1, <2>1 DEF OverOK
<1> QED
  BY <1>7, <1>9, <1>10, <1>11

LEMMA CInitKeeps == Init => CInv
<1> SUFFICES ASSUME Init PROVE CInv
  OBVIOUS
<1>1. /\ calls = [t \in Threads |-> <<>>] /\ over = FALSE /\ data = NoData /\ context = FALSE
      /\ remote \in BOOLEAN /\ destroyed = FALSE /\ datas = [d \in Datas |-> "unused"] /\ ending = {}
  BY DEF Init
<1>2. \A t \in Threads : calls[t] = <<>> /\ DOMAIN calls[t] = {}
  BY <1>1
<1>3. Typed
  <2>1. calls \in [Threads -> Seq(Call)]
    BY <1>1
  <2> QED
    BY <1>1, <2>1 DEF Typed
<1>4. StackOK
  <2> QED
    BY <1>2 DEF StackOK
<1>5. DataOK /\ OverOK
  BY <1>1 DEF DataOK, Owned, OverOK
<1>6. ObjectOK
  BY <1>1 DEF ObjectOK, Attached, Busy
<1> QED
  BY <1>3, <1>4, <1>5, <1>6 DEF CInv

(* Nothing of the calls changes.                                           *)
LEMMA QuietKeeps ==
  ASSUME CInv, UNCHANGED <<fixed, ending, calls, over, data, datas, destroyed>>, ObjectOK'
  PROVE  CInv'
<1>1. UNCHANGED <<kind, remote>>
  BY DEF fixed
<1>2. Typed' /\ StackOK'
  BY <1>1 DEF CInv, Typed, StackOK
<1>3. OverOK' /\ DataOK'
  BY <1>1 DEF CInv, OverOK, DataOK, Owned, InCall
<1> QED
  BY <1>2, <1>3 DEF CInv

LEMMA CNextKeeps == IInv /\ CInv /\ [Next]_vars => CInv'
<1> SUFFICES ASSUME IInv, CInv, [Next]_vars PROVE CInv'
  OBVIOUS
<1>1. ASSUME NEW t \in Threads, Create(t) PROVE CInv'
  <2>1. /\ UNCHANGED <<fixed, ending, calls, over, data, datas, destroyed>> /\ UNCHANGED <<context, remote>>
        /\ ~context /\ object' = "live"
    BY <1>1 DEF IInv, Create, fixed
  <2>2. ObjectOK'
    BY <2>1 DEF ObjectOK, Attached
  <2> QED
    BY <2>1, <2>2, QuietKeeps
<1>2. ASSUME NEW t \in Threads, NEW d \in Datas, kind # "source", Install(t, d) PROVE CInv'
  <2>1. /\ kind' = kind /\ UNCHANGED <<remote, ending, calls, over, destroyed>>
        /\ data' = d /\ datas' = [datas EXCEPT ![d] = "owned"]
    BY <1>2 DEF Install, fixed
  <2>2. Typed'
    BY <2>1 DEF CInv, Typed
  <2>3. DataOK'
    BY <2>1 DEF CInv, DataOK, Owned, Typed
  <2>4. StackOK' /\ OverOK'
    BY <2>1 DEF CInv, StackOK, OverOK, InCall
  <2>5. ObjectOK'
    BY <1>2, <2>1 DEF ObjectOK
  <2> QED
    BY <2>2, <2>3, <2>4, <2>5 DEF CInv
<1>3. ASSUME NEW t \in Threads, Attach(t) PROVE CInv'
  <2>1. /\ UNCHANGED <<fixed, ending, calls, over, data, datas, destroyed>>
        /\ source /\ source' = source /\ object = "live" /\ object' = object
    BY <1>3 DEF Attach, Has
  <2>2. ObjectOK'
    BY <2>1 DEF ObjectOK
  <2> QED
    BY <2>1, <2>2, QuietKeeps
<1>4. ASSUME UNCHANGED <<fixed, ending, calls, over, data, datas, destroyed>>,
             UNCHANGED <<object, source, context>>
      PROVE  CInv'
  <2>1. UNCHANGED <<kind, remote>>
    BY <1>4 DEF fixed
  <2>2. ObjectOK'
    BY <1>4, <2>1 DEF CInv, ObjectOK, Attached
  <2> QED
    BY <1>4, <2>2, QuietKeeps
<1>5. ASSUME NEW t \in Threads, SetCanRecurse(t) \/ Keep(t) PROVE CInv'
  BY <1>4, <1>5 DEF SetCanRecurse, Keep
<1>6. ASSUME NEW t \in Threads, Destroy(t) PROVE CInv'
  <2>1. /\ InPython(t) /\ UNCHANGED <<fixed, calls>> /\ destroyed' = TRUE /\ over' = TRUE
        /\ Settle(Finalizing, owns, IF Attached THEN NoData ELSE data) /\ Finalizing \in BOOLEAN
    BY <1>6 DEF Destroy, Has, Finalizing
  <2>2. (IF Attached THEN NoData ELSE data) \in Datas \cup {NoData}
    BY DEF CInv, Typed
  <2>3. ~Attached'
    BY <2>1 DEF Attached
  <2> QED
    BY <2>1, <2>2, <2>3, ChangeKeeps
<1>15. ASSUME NEW t \in Threads, Forget(t) PROVE CInv'
  <2>1. /\ UNCHANGED <<fixed, calls, over, destroyed>> /\ ending # {} /\ Settle(FALSE, owns, data)
    BY <1>15 DEF Forget
  <2>2. data \in Datas \cup {NoData} /\ over' \in BOOLEAN /\ destroyed' \in BOOLEAN
        /\ over /\ destroyed /\ over' /\ destroyed'
    BY <2>1 DEF CInv, Typed, OverOK
  <2>3. ~Attached'
    BY <2>2 DEF Attached
  <2> QED
    BY <2>1, <2>2, <2>3, ChangeKeeps
<1>7. ASSUME UNCHANGED <<attaches, context>>, destroyed => destroyed'
      PROVE  kind = "source" /\ Attached' => source /\ attaches' > 0
  BY <1>7 DEF CInv, ObjectOK, IInv, Attached
<1>8. ASSUME NEW t \in Threads, SourceRemove(t) PROVE CInv'
  <2>1. /\ InPython(t) /\ UNCHANGED <<fixed, calls>> /\ destroyed' = TRUE /\ over' = TRUE
        /\ UNCHANGED <<attaches, context>> /\ Settle(source, owns, NoData)
    BY <1>8 DEF SourceRemove
  <2>2. source \in BOOLEAN
    BY DEF IInv
  <2> QED
    BY <1>7, <2>1, <2>2, ChangeKeeps
<1>9. ASSUME NEW t \in Threads, NEW d \in Datas \cup {NoData}, InPython(t),
             UNCHANGED <<fixed, ending, attaches, context, destroyed, calls, over>>,
             Settle(source, owns, d)
      PROVE  CInv'
  <2>1. destroyed' \in BOOLEAN /\ over' \in BOOLEAN /\ (over' => destroyed') /\ (ending' # {} => over')
    BY <1>9 DEF CInv, Typed, OverOK
  <2>2. source \in BOOLEAN
    BY DEF IInv
  <2> QED
    BY <1>7, <1>9, <2>1, <2>2, ChangeKeeps
<1>10. ASSUME NEW t \in Threads, NEW d \in Datas, SetCallback(t, d) PROVE CInv'
  BY <1>9, <1>10 DEF SetCallback, Has
<1>11. ASSUME NEW t \in Threads, LetGo(t) PROVE CInv'
  <2>1. data \in Datas \cup {NoData}
    BY DEF CInv, Typed
  <2> QED
    BY <1>9, <1>11, <2>1 DEF LetGo
<1>12. ASSUME DispatchNothing PROVE CInv'
  <2>1. /\ UNCHANGED <<kind, remote, ending, calls, over>> /\ destroyed' = TRUE /\ kind = "idle"
        /\ Settle(source, owns, NoData) /\ (\A t \in Threads : calls[t] = <<>>)
    BY <1>12 DEF DispatchNothing, Busy, fixed
  <2>2. calls' \in [Threads -> Seq(Call)] /\ Owned(calls')
    BY <2>1 DEF CInv, Typed, DataOK
  <2>3. /\ data' \in Datas \cup {NoData} /\ datas' \in [Datas -> {"unused", "owned", "released"}]
        /\ DataOK'
    BY <2>1, <2>2, SettleData DEF CInv
  <2>4. Typed' /\ StackOK'
    BY <2>1, <2>3 DEF CInv, Typed, StackOK
  <2>5. OverOK' /\ ObjectOK'
    BY <2>1 DEF CInv, OverOK, ObjectOK
  <2> QED
    BY <2>3, <2>4, <2>5 DEF CInv
<1>13. CASE UNCHANGED vars
  BY <1>4, <1>13 DEF vars
<1>14. CASE Next
  BY <1>1, <1>2, <1>3, <1>5, <1>6, <1>8, <1>10, <1>11, <1>12, <1>14, <1>15, BeginKeeps, EnterKeeps,
     ReturnKeeps
  DEF Next, Step, Add, AddWatch, AddChild, AddChannelWatch
<1> QED
  BY <1>13, <1>14

LEMMA Inductive == Spec => [](IInv /\ CInv)
<1>1. Init => IInv /\ CInv
  BY InitKeeps, CInitKeeps
<1>2. IInv /\ CInv /\ [Next]_vars => IInv' /\ CInv'
  BY NextKeeps, CNextKeeps
<1> QED
  BY <1>1, <1>2, PTL DEF Spec

(* The data that g_main_dispatch gave to a callback keeps its references as
   long as the call lasts, however often the callback, or another thread,
   replaces it or destroys the source; and the object whose prepare(),
   check() or dispatch() is called is not freed, unless other threads change
   the source meanwhile.                                                   *)
THEOREM CalledWithLiveData == Spec => []CallsLive
<1>1. IInv /\ CInv => CallsLive
  <2> SUFFICES ASSUME CInv, NEW t \in Threads, NEW i \in DOMAIN calls[t]
               PROVE  /\ calls[t][i].data # NoData => datas[calls[t][i].data] = "owned"
                      /\ kind = "source" /\ ~remote => object = "live"
    BY DEF CallsLive
  <2> QED
    BY DEF CInv, DataOK, Owned, ObjectOK, Busy
<1> QED
  BY <1>1, Inductive, PTL

(* After its callback returned FALSE, or after destroy() or source_remove(),
   the context calls a source no more, in any number of nested dispatches: a
   call that GLib chose before the end is made only if another thread
   changed the source between the choice and the call.                     *)
THEOREM NoCallAfterEnd == Spec => NotCalledAgain
<1>1. CInv => (\A t \in Threads : Enter(t) /\ over => remote)
  BY DEF CInv, OverOK, Enter
<1>2. CInv => [\A t \in Threads : Enter(t) /\ over => remote]_vars
  BY <1>1
<1> QED
  BY <1>2, Inductive, PTL DEF NotCalledAgain
=============================================================================
