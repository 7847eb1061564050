-------------------------- MODULE GioNotifyProofs ---------------------------
(***************************************************************************)
(* Proofs of the safety properties of GioNotify, for any notifies, Python  *)
(* objects and arguments, and every wrapper of GioWrappers.                *)
(***************************************************************************)
EXTENDS GioNotify, Integers, FiniteSetTheorems, TLAPS

Fields == Master \cup Slave

Typed ==
  /\ phase \in [Notifies -> Phases] /\ op \in [Notifies -> Wrappers]
  /\ slot \in [Notifies -> Slots] /\ referenced \in [Notifies -> SUBSET Fields]
  /\ buffer \in [Notifies -> BOOLEAN] /\ sized \in [Notifies -> BOOLEAN]
  /\ refs \in [Objects -> Int]

(* A notify references what it holds, as soon as its wrapper has returned; a
   wrapper that waits has its arguments.                                   *)
Holds(n) ==
  /\ phase[n] \in {"busy", "calling", "attached"} =>
       \A f \in Fields : slot[n][f] # Null => f \in referenced[n]
  /\ phase[n] = "sync" => n \in inside

(* A result has its notify, whose buffer is the one that was read into.    *)
Attached(n) ==
  /\ n \in kept => n \in results
  /\ n \in results => phase[n] \in {"calling", "attached"} /\ op[n].buffer # "none"
  /\ phase[n] = "attached" => n \in results
  /\ phase[n] \in {"busy", "calling", "attached"} /\ op[n].buffer # "none" /\ sized[n] => buffer[n]

Notified(n) ==
  /\ referenced[n] # {} \/ buffer[n] => phase[n] \in {"busy", "calling", "attached"}
  /\ phase[n] \in {"sync", "busy", "calling"} =>
       /\ \/ slot[n]["callback"] \in Callable \/ op[n].checks[1] = "chained"
          \/ ~op[n].async /\ slot[n]["callback"] = Null
       /\ slot[n]["progress"] \in Callable \cup {Null}
  /\ Holds(n) /\ Attached(n)

IInv == Typed /\ Exact /\ \A n \in Notifies : Notified(n)

-----------------------------------------------------------------------------
(* What the proofs need to know of the wrappers.                           *)
WrapperOK(w) ==
  /\ w.async \in BOOLEAN /\ w.unlocked \in BOOLEAN /\ w.slave \in BOOLEAN
  /\ ~w.async => w.buffer = "none" /\ w.unlocked
  /\ \/ w.checks[1] = "chained"
     \/ \E i \in DOMAIN w.checks : w.checks[i] = "callback"
     \/ ~w.async /\ \E i \in DOMAIN w.checks : w.checks[i] = "optional"
  /\ w.slave => \E i \in DOMAIN w.checks : w.checks[i] = "progress"

Forms ==
  {Plain, Flagged, drive_eject, drive_poll_for_media, file_copy, file_copy_async,
   file_replace_contents_async, file_input_stream_query_info_async, input_stream_read_async,
   mount_remount, mount_unmount, output_stream_write_async, volume_mount}

LEMMA WrappersAreForms == Wrappers \subseteq Forms
BY DEF Wrappers, Forms, Unconverted, buffered_input_stream_fill_async,
  data_input_stream_read_line_async, data_input_stream_read_until_async, drive_eject_with_operation,
  drive_start, drive_stop, file_read_async, file_load_contents_async, file_enumerate_children_async,
  file_mount_mountable, file_unmount_mountable, file_unmount_mountable_with_operation,
  file_mount_enclosing_volume, file_append_to_async, file_create_async,
  file_create_readwrite_async, file_open_readwrite_async, file_replace_readwrite_async,
  file_replace_async, file_query_info_async, file_eject_mountable,
  file_eject_mountable_with_operation, file_find_enclosing_mount_async,
  file_query_filesystem_info_async, file_set_attributes_async, file_set_display_name_async,
  file_poll_mountable, file_start_mountable, file_stop_mountable, file_enumerator_next_files_async,
  file_enumerator_close_async, loadable_icon_load_async, input_stream_close_async,
  input_stream_skip_async, io_stream_close_async, mount_guess_content_type, mount_eject,
  mount_unmount_with_operation, mount_eject_with_operation, output_stream_close_async,
  output_stream_flush_async, output_stream_splice_async, resolver_lookup_by_name_async,
  resolver_lookup_by_address_async, resolver_lookup_service_async,
  socket_address_enumerator_next_async, socket_client_connect_async,
  socket_client_connect_to_host_async, socket_client_connect_to_service_async,
  socket_listener_accept_async, socket_listener_accept_socket_async, volume_eject,
  volume_eject_with_operation, mount_unmount, file_move, file_copy,
  file_io_stream_query_info_async, file_output_stream_query_info_async,
  file_input_stream_query_info_async

LEMMA WrapperFacts == \A w \in Wrappers : WrapperOK(w)
<1>1. WrapperOK(Plain)
  BY DEF WrapperOK, Plain
<1>2. WrapperOK(Flagged)
  BY DEF WrapperOK, Plain, Flagged
<1>3. WrapperOK(drive_eject)
  BY DEF WrapperOK, Plain, Flagged, drive_eject
<1>4. WrapperOK(drive_poll_for_media)
  BY DEF WrapperOK, Plain, drive_poll_for_media
<1>5. WrapperOK(file_copy)
  BY DEF WrapperOK, Plain, Flagged, file_copy
<1>6. WrapperOK(file_copy_async)
  BY DEF WrapperOK, Plain, file_copy_async
<1>7. WrapperOK(file_replace_contents_async)
  BY DEF WrapperOK, Plain, Flagged, file_replace_contents_async
<1>8. WrapperOK(file_input_stream_query_info_async)
  BY DEF WrapperOK, Plain, file_input_stream_query_info_async
<1>9. WrapperOK(input_stream_read_async)
  BY DEF WrapperOK, Plain, input_stream_read_async
<1>10. WrapperOK(mount_remount)
  BY DEF WrapperOK, Plain, Flagged, mount_remount
<1>11. WrapperOK(mount_unmount)
  BY DEF WrapperOK, Plain, Flagged, mount_unmount
<1>12. WrapperOK(output_stream_write_async)
  BY DEF WrapperOK, Plain, output_stream_write_async
<1>13. WrapperOK(volume_mount)
  BY DEF WrapperOK, Plain, Flagged, volume_mount
<1>14. \A w \in Forms : WrapperOK(w)
  BY <1>1, <1>2, <1>3, <1>4, <1>5, <1>6, <1>7, <1>8, <1>9, <1>10, <1>11, <1>12, <1>13 DEF Forms
<1> QED
  BY <1>14, WrappersAreForms

-----------------------------------------------------------------------------
(* Counting references.                                                    *)
Pairs(rf, sl, o) == {p \in Notifies \X Fields : p[2] \in rf[p[1]] /\ sl[p[1]][p[2]] = o}
Others(rf, sl, o, n) == {p \in Pairs(rf, sl, o) : p[1] # n}

LEMMA FieldsFinite == IsFiniteSet(Fields)
<1>1. IsFiniteSet({"callback"} \cup {"data"})
  BY FS_Singleton, FS_AddElement
<1>2. IsFiniteSet(({"callback"} \cup {"data"}) \cup {"progress"})
  BY <1>1, FS_AddElement
<1>3. IsFiniteSet((({"callback"} \cup {"data"}) \cup {"progress"}) \cup {"pdata"})
  BY <1>2, FS_AddElement
<1>4. Fields = (({"callback"} \cup {"data"}) \cup {"progress"}) \cup {"pdata"}
  BY DEF Fields, Master, Slave
<1> QED
  BY <1>3, <1>4

(* The uses of o are those of n and those of the others.                   *)
LEMMA CountSplit ==
  ASSUME NEW rf, NEW sl, NEW o, NEW n \in Notifies, rf[n] \subseteq Fields
  PROVE  /\ Cardinality(Others(rf, sl, o, n)) \in Nat /\ Uses(sl[n], rf[n], o) \in Nat
         /\ Cardinality(Pairs(rf, sl, o))
              = Cardinality(Others(rf, sl, o, n)) + Uses(sl[n], rf[n], o)
<1> DEFINE all == Pairs(rf, sl, o)
           rest == Others(rf, sl, o, n)
           mine == {p \in all : p[1] = n}
           used == {f \in rf[n] : sl[n][f] = o}
<1>1. IsFiniteSet(all)
  <2>1. IsFiniteSet(Notifies \X Fields)
    BY FieldsFinite, FS_Product, GioNotifyAssumption
  <2> QED
    BY <2>1, FS_Subset DEF Pairs
<1>2. IsFiniteSet(rest) /\ IsFiniteSet(mine)
  BY <1>1, FS_Subset DEF Others
<1>3. all = rest \cup mine /\ rest \cap mine = {}
  BY DEF Others
<1>4. IsFiniteSet(used)
  BY FieldsFinite, FS_Subset
<1>5. ExistsBijection(used, mine)
  <2> DEFINE g == [f \in used |-> <<n, f>>]
  <2>1. g \in [used -> mine]
    BY DEF Pairs
  <2>3. \A p \in mine : \E f \in used : g[f] = p
    <3> SUFFICES ASSUME NEW p \in mine PROVE p[2] \in used /\ p = <<n, p[2]>>
      OBVIOUS
    <3> QED
      BY DEF Pairs
  <2> QED
    BY <2>1, <2>3 DEF ExistsBijection, Bijection, Injection, Surjection, IsInjective
<1>6. Cardinality(mine) = Cardinality(used)
  BY <1>4, <1>5, FS_Bijection
<1> HIDE DEF all, rest, mine, used
<1>7. /\ Cardinality(rest) \in Nat /\ Cardinality(mine) \in Nat
      /\ Cardinality(all) = Cardinality(rest) + Cardinality(mine)
  <2>1. Cardinality(rest \cup mine)
          = Cardinality(rest) + Cardinality(mine) - Cardinality(rest \cap mine)
    BY <1>2, FS_Union
  <2>2. Cardinality(rest \cap mine) = 0
    BY <1>3, FS_EmptySet
  <2>3. Cardinality(rest) \in Nat /\ Cardinality(mine) \in Nat
    BY <1>2, FS_CardinalityType
  <2> QED
    BY <1>3, <2>1, <2>2, <2>3
<1>8. Uses(sl[n], rf[n], o) = Cardinality(used)
  BY DEF Uses, used
<1> QED
  BY <1>6, <1>7, <1>8 DEF all, rest

LEMMA NoUses ==
  ASSUME NEW s, NEW o
  PROVE  Uses(s, {}, o) = 0
BY FS_EmptySet DEF Uses

LEMMA SameOthers ==
  ASSUME NEW rf, NEW sl, NEW rg, NEW sm, NEW o, NEW n,
         \A m \in Notifies : m # n => rg[m] = rf[m] /\ sm[m] = sl[m]
  PROVE  Others(rg, sm, o, n) = Others(rf, sl, o, n)
BY DEF Others, Pairs

(* The count stays exact if it changes as the uses of one notify do.       *)
LEMMA Recounted ==
  ASSUME Typed, Exact, Typed', NEW n \in Notifies,
         \A m \in Notifies : m # n => referenced'[m] = referenced[m] /\ slot'[m] = slot[m],
         \A o \in Objects :
           refs'[o] = (refs[o] - Uses(slot[n], referenced[n], o)) + Uses(slot'[n], referenced'[n], o)
  PROVE  Exact'
<1> SUFFICES ASSUME NEW o \in Objects
             PROVE  refs'[o] = Cardinality(Pairs(referenced', slot', o))
  BY DEF Exact, Pairs, Fields
<1> DEFINE before == Uses(slot[n], referenced[n], o)
           after  == Uses(slot'[n], referenced'[n], o)
           rest   == Cardinality(Others(referenced, slot, o, n))
<1>1. rest \in Nat /\ before \in Nat /\ Cardinality(Pairs(referenced, slot, o)) = rest + before
  BY CountSplit DEF Typed
<1>2. after \in Nat
      /\ Cardinality(Pairs(referenced', slot', o))
           = Cardinality(Others(referenced', slot', o, n)) + after
  <2> DEFINE rg == referenced'
             sm == slot'
  <2>1. rg[n] \subseteq Fields
    BY DEF Typed
  <2> HIDE DEF rg, sm
  <2>2. /\ Uses(sm[n], rg[n], o) \in Nat
        /\ Cardinality(Pairs(rg, sm, o)) = Cardinality(Others(rg, sm, o, n)) + Uses(sm[n], rg[n], o)
    BY <2>1, CountSplit
  <2> QED
    BY <2>2 DEF rg, sm
<1>3. Others(referenced', slot', o, n) = Others(referenced, slot, o, n)
  BY SameOthers
<1>4. refs[o] = rest + before
  BY <1>1 DEF Exact, Pairs, Fields
<1>5. refs'[o] = (refs[o] - before) + after
  OBVIOUS
<1> HIDE DEF before, after, rest
<1>6. refs'[o] = rest + after
  BY <1>1, <1>4, <1>5
<1> QED
  BY <1>2, <1>3, <1>6 DEF rest

-----------------------------------------------------------------------------
(* The steps.                                                              *)

(* A step of one notify leaves the others alone.                           *)
Untouched(m) ==
  /\ phase'[m] = phase[m] /\ op'[m] = op[m] /\ slot'[m] = slot[m]
  /\ referenced'[m] = referenced[m] /\ buffer'[m] = buffer[m] /\ sized'[m] = sized[m]
  /\ (m \in inside' <=> m \in inside) /\ (m \in results' <=> m \in results)
  /\ (m \in kept' <=> m \in kept)

LEMMA OneNotify ==
  ASSUME IInv, NEW n \in Notifies, Typed', Exact', Notified(n)',
         \A m \in Notifies : m # n => Untouched(m)
  PROVE  IInv'
<1> SUFFICES ASSUME NEW m \in Notifies PROVE Notified(m)'
  BY DEF IInv
<1>1. CASE m = n
  BY <1>1
<1>2. CASE m # n
  <2>1. Notified(m) /\ Untouched(m)
    BY <1>2 DEF IInv
  <2> QED
    BY <2>1 DEF Notified, Holds, Attached, Untouched
<1> QED
  BY <1>2

(* ... and one that leaves the structure alone only moves it.              *)
LEMMA Moved ==
  ASSUME IInv, NEW n \in Notifies, NEW x \in Phases, UNCHANGED heldVars,
         phase' = [phase EXCEPT ![n] = x], Notified(n)',
         \A m \in Notifies : m # n => /\ (m \in inside' <=> m \in inside)
                                     /\ (m \in results' <=> m \in results)
                                     /\ (m \in kept' <=> m \in kept)
  PROVE  IInv'
<1>1. UNCHANGED <<op, slot, sized, referenced, buffer, refs>>
  BY DEF heldVars
<1>2. Typed' /\ Exact'
  BY <1>1 DEF IInv, Typed, Exact
<1>3. \A m \in Notifies : m # n => Untouched(m)
  BY <1>1 DEF Untouched
<1> QED
  BY <1>2, <1>3, OneNotify

LEMMA BeginKeeps ==
  ASSUME IInv, NEW n \in Notifies, NEW w \in Wrappers, NEW a \in Arguments, NEW bad \in Failures,
         NEW some \in BOOLEAN, Begin(n, w, a, bad, some)
  PROVE  IInv'
<1> DEFINE s == UsingOptional(w, a)
           F == Reference(w)
<1>1. /\ phase[n] = "none" /\ n \notin inside /\ n \notin results
      /\ Passed(w, a, bad) /\ ~Refused(w, a, bad)
      /\ slot' = [slot EXCEPT ![n] = s] /\ referenced' = [referenced EXCEPT ![n] = F]
      /\ refs' = [o \in Objects |-> refs[o] + Uses(s, F, o)]
      /\ phase' = [phase EXCEPT ![n] = IF w.async THEN "busy" ELSE "sync"]
      /\ op' = [op EXCEPT ![n] = w] /\ sized' = [sized EXCEPT ![n] = some]
      /\ buffer' = [buffer EXCEPT ![n] = some /\ w.buffer # "none"]
      /\ inside' = IF w.unlocked THEN inside \cup {n} ELSE inside
      /\ UNCHANGED <<results, kept>>
  BY DEF Begin
<1>2. WrapperOK(w)
  BY WrapperFacts
<1>3. a \in Slots
  BY GioNotifyAssumption
<1>4. s \in Slots /\ F \in SUBSET Fields
  <2>1. s \in Slots
    BY <1>3 DEF UsingOptional, Slots
  <2> QED
    BY <2>1 DEF Reference, Fields
<1>5. \A f \in Fields : s[f] # Null => s[f] = a[f]
  BY <1>3 DEF UsingOptional, Slots, Fields
<1>6. w.async => \A f \in Fields : s[f] # Null => f \in F
  <2> SUFFICES ASSUME w.async, NEW f \in Fields, s[f] # Null PROVE f \in F
    OBVIOUS
  <2>1. a[f] # Null
    BY <1>5
  <2>2. w.slave \/ f \notin Slave
    BY <1>1, <2>1 DEF Passed
  <2> QED
    BY <2>2 DEF Reference, Fields
<1>7. s["callback"] = a["callback"] /\ s["progress"] = a["progress"]
  BY <1>3 DEF UsingOptional, Slots, Master, Slave
<1>8. \/ s["callback"] \in Callable \/ w.checks[1] = "chained"
      \/ ~w.async /\ s["callback"] = Null
  <2>1. \A i \in DOMAIN w.checks : ~Fails(a, bad, w.checks[i])
    BY <1>1 DEF Refused
  <2>2. ASSUME NEW i \in DOMAIN w.checks, w.checks[i] = "callback" PROVE a["callback"] \in Callable
    BY <2>1, <2>2 DEF Fails
  <2>3. ASSUME NEW i \in DOMAIN w.checks, w.checks[i] = "optional"
        PROVE  a["callback"] \in Callable \/ a["callback"] = Null
    BY <2>1, <2>3 DEF Fails
  <2> QED
    BY <1>2, <1>7, <2>2, <2>3 DEF WrapperOK
<1>9. s["progress"] \in Callable \cup {Null}
  <2>1. CASE w.slave
    <3>1. PICK i \in DOMAIN w.checks : w.checks[i] = "progress"
      BY <1>2, <2>1 DEF WrapperOK
    <3>2. ~Fails(a, bad, "progress")
      BY <1>1, <3>1 DEF Refused
    <3> QED
      BY <1>7, <3>2 DEF Fails
  <2>2. CASE ~w.slave
    BY <1>1, <1>7, <2>2 DEF Passed, Slave
  <2> QED
    BY <2>1, <2>2
<1> HIDE DEF s, F
<1>10. Typed'
  <2>1. \A o \in Objects : refs'[o] \in Int
    <3> SUFFICES ASSUME NEW o \in Objects PROVE refs[o] + Uses(s, F, o) \in Int
      BY <1>1
    <3>1. Uses(s, F, o) \in Nat
      <4> DEFINE rf == [m \in Notifies |-> F]
                 sl == [m \in Notifies |-> s]
      <4>1. rf[n] = F /\ sl[n] = s /\ rf[n] \subseteq Fields
        BY <1>4
      <4> HIDE DEF rf, sl
      <4>2. Uses(sl[n], rf[n], o) \in Nat
        BY <4>1, CountSplit
      <4> QED
        BY <4>1, <4>2
    <3> QED
      BY <3>1 DEF IInv, Typed
  <2>2. refs' \in [Objects -> Int]
    BY <1>1, <2>1
  <2>3. phase' \in [Notifies -> Phases] /\ op' \in [Notifies -> Wrappers]
    BY <1>1 DEF IInv, Typed, Phases
  <2>4. slot' \in [Notifies -> Slots] /\ referenced' \in [Notifies -> SUBSET Fields]
    BY <1>1, <1>4 DEF IInv, Typed
  <2>5. buffer' \in [Notifies -> BOOLEAN] /\ sized' \in [Notifies -> BOOLEAN]
    BY <1>1 DEF IInv, Typed
  <2> QED
    BY <2>2, <2>3, <2>4, <2>5 DEF Typed
<1>11. referenced'[n] = F /\ slot'[n] = s /\ phase'[n] = (IF w.async THEN "busy" ELSE "sync")
       /\ op'[n] = w /\ sized'[n] = some /\ buffer'[n] = (some /\ w.buffer # "none")
  BY <1>1 DEF IInv, Typed
<1>12. Exact'
  <2>1. referenced[n] = {}
    BY <1>1 DEF IInv, Notified
  <2>2. ASSUME NEW o \in Objects
        PROVE  refs'[o] = (refs[o] - Uses(slot[n], referenced[n], o))
                            + Uses(slot'[n], referenced'[n], o)
    <3>1. refs'[o] = refs[o] + Uses(s, F, o) /\ refs[o] \in Int /\ refs'[o] \in Int
      BY <1>1, <1>10 DEF IInv, Typed
    <3>2. Uses(slot[n], referenced[n], o) = 0
      BY <2>1, NoUses
    <3> QED
      BY <1>11, <3>1, <3>2
  <2>3. \A m \in Notifies : m # n => referenced'[m] = referenced[m] /\ slot'[m] = slot[m]
    BY <1>1
  <2> QED
    BY <1>10, <2>2, <2>3, Recounted DEF IInv
<1>13. Notified(n)'
  <2>1. Attached(n) /\ n \notin kept
    BY <1>1 DEF IInv, Notified, Attached
  <2>2. Attached(n)'
    BY <1>1, <1>11, <2>1 DEF Attached
  <2>3. Holds(n)'
    BY <1>1, <1>2, <1>6, <1>11 DEF Holds, WrapperOK
  <2>4. referenced'[n] # {} \/ buffer'[n] => phase'[n] = "busy"
    BY <1>2, <1>11 DEF WrapperOK, Reference, F
  <2> QED
    BY <1>8, <1>9, <1>11, <2>2, <2>3, <2>4 DEF Notified
<1>14. \A m \in Notifies : m # n => Untouched(m)
  BY <1>1 DEF Untouched
<1> QED
  BY <1>10, <1>12, <1>13, <1>14, OneNotify

LEMMA FreeKeeps ==
  ASSUME IInv, NEW n \in Notifies, Free(n), phase' = [phase EXCEPT ![n] = "none"],
         n \notin results', n \notin kept',
         \A m \in Notifies : m # n => /\ (m \in inside' <=> m \in inside)
                                     /\ (m \in results' <=> m \in results)
                                     /\ (m \in kept' <=> m \in kept)
  PROVE  IInv'
<1>1. /\ op' = [op EXCEPT ![n] = Plain] /\ sized' = [sized EXCEPT ![n] = FALSE]
      /\ slot' = [slot EXCEPT ![n] = [f \in DOMAIN slot[n] |-> Null]]
      /\ referenced' = [referenced EXCEPT ![n] = {}] /\ buffer' = [buffer EXCEPT ![n] = FALSE]
      /\ refs' = [o \in Objects |-> refs[o] - Uses(slot[n], referenced[n], o)]
  BY DEF Free, Clear
<1>2. /\ phase \in [Notifies -> Phases] /\ op \in [Notifies -> Wrappers]
      /\ slot \in [Notifies -> Slots] /\ referenced \in [Notifies -> SUBSET Fields]
      /\ buffer \in [Notifies -> BOOLEAN] /\ sized \in [Notifies -> BOOLEAN]
      /\ refs \in [Objects -> Int]
  BY DEF IInv, Typed
<1>3. \A o \in Objects : Uses(slot[n], referenced[n], o) \in Nat
  BY <1>2, CountSplit
<1>4. Typed'
  <2>1. Plain \in Wrappers
    BY DEF Wrappers, file_read_async
  <2>2. [f \in DOMAIN slot[n] |-> Null] \in Slots
    BY <1>2 DEF Slots
  <2>3. refs' \in [Objects -> Int]
    BY <1>1, <1>2, <1>3
  <2>4. phase' \in [Notifies -> Phases] /\ op' \in [Notifies -> Wrappers]
    BY <1>1, <1>2, <2>1 DEF Phases
  <2>5. slot' \in [Notifies -> Slots] /\ referenced' \in [Notifies -> SUBSET Fields]
    BY <1>1, <1>2, <2>2
  <2>6. buffer' \in [Notifies -> BOOLEAN] /\ sized' \in [Notifies -> BOOLEAN]
    BY <1>1, <1>2
  <2> QED
    BY <2>3, <2>4, <2>5, <2>6 DEF Typed
<1>5. phase'[n] = "none" /\ referenced'[n] = {} /\ buffer'[n] = FALSE
  BY <1>1, <1>2
<1>6. Exact'
  <2>1. ASSUME NEW o \in Objects
        PROVE  refs'[o] = (refs[o] - Uses(slot[n], referenced[n], o))
                            + Uses(slot'[n], referenced'[n], o)
    <3>1. refs'[o] = refs[o] - Uses(slot[n], referenced[n], o) /\ refs'[o] \in Int
      BY <1>1, <1>4 DEF Typed
    <3>2. Uses(slot'[n], referenced'[n], o) = 0
      BY <1>5, NoUses
    <3> QED
      BY <3>1, <3>2
  <2>2. \A m \in Notifies : m # n => referenced'[m] = referenced[m] /\ slot'[m] = slot[m]
    BY <1>1
  <2> QED
    BY <1>4, <2>1, <2>2, Recounted DEF IInv
<1>7. Notified(n)'
  BY <1>5 DEF Notified, Holds, Attached
<1>8. \A m \in Notifies : m # n => Untouched(m)
  BY <1>1 DEF Untouched
<1> QED
  BY <1>4, <1>6, <1>7, <1>8, OneNotify

LEMMA InitKeeps == Init => IInv
<1> SUFFICES ASSUME Init PROVE IInv
  OBVIOUS
<1>1. /\ phase = [n \in Notifies |-> "none"] /\ op = [n \in Notifies |-> Plain]
      /\ slot = [n \in Notifies |-> [f \in Master \cup Slave |-> Null]]
      /\ referenced = [n \in Notifies |-> {}] /\ buffer = [n \in Notifies |-> FALSE]
      /\ sized = [n \in Notifies |-> FALSE] /\ results = {} /\ kept = {}
      /\ refs = [o \in Objects |-> 0]
  BY DEF Init
<1>2. Typed
  <2>1. Plain \in Wrappers
    BY DEF Wrappers, file_read_async
  <2>2. slot \in [Notifies -> Slots]
    BY <1>1 DEF Slots
  <2>3. phase \in [Notifies -> Phases] /\ op \in [Notifies -> Wrappers]
    BY <1>1, <2>1 DEF Phases
  <2>4. referenced \in [Notifies -> SUBSET Fields] /\ refs \in [Objects -> Int]
    BY <1>1
  <2>5. buffer \in [Notifies -> BOOLEAN] /\ sized \in [Notifies -> BOOLEAN]
    BY <1>1
  <2> QED
    BY <2>2, <2>3, <2>4, <2>5 DEF Typed
<1>3. Exact
  <2> SUFFICES ASSUME NEW o \in Objects PROVE refs[o] = Cardinality(Pairs(referenced, slot, o))
    BY DEF Exact, Pairs, Fields
  <2>1. Pairs(referenced, slot, o) = {}
    BY <1>1 DEF Pairs
  <2> QED
    BY <1>1, <2>1, FS_EmptySet
<1>4. ASSUME NEW n \in Notifies PROVE Notified(n)
  <2> QED
    BY <1>1 DEF Notified, Holds, Attached
<1> QED
  BY <1>2, <1>3, <1>4 DEF IInv

LEMMA NextKeeps == IInv /\ [Next]_vars => IInv'
<1> SUFFICES ASSUME IInv, [Next]_vars PROVE IInv'
  OBVIOUS
<1>1. ASSUME NEW n \in Notifies
      PROVE  Notified(n) /\ phase[n] \in Phases /\ phase = [phase EXCEPT ![n] = phase[n]]
  BY DEF IInv, Typed
<1>2. ASSUME NEW n \in Notifies, UNCHANGED heldVars
      PROVE  /\ UNCHANGED <<op, slot, sized, referenced, buffer, refs>>
             /\ \A x \in Phases : [phase EXCEPT ![n] = x][n] = x
  BY <1>2 DEF heldVars, IInv, Typed
<1>3. ASSUME NEW n \in Notifies, NEW w \in Wrappers, NEW a \in Arguments, NEW bad \in Failures,
             Refuse(n, w, a, bad)
      PROVE  IInv'
  <2>1. PICK x \in {"lost", "none"} : phase' = [phase EXCEPT ![n] = x]
    BY <1>3 DEF Refuse
  <2>2. /\ UNCHANGED <<inside, results, kept>> /\ UNCHANGED heldVars
        /\ phase[n] = "none" /\ n \notin results
    BY <1>3 DEF Refuse
  <2>3. x \in Phases /\ phase'[n] = x
    BY <1>2, <2>1, <2>2 DEF Phases
  <2>4. Notified(n)'
    BY <1>1, <1>2, <2>2, <2>3 DEF Notified, Holds, Attached
  <2> QED
    BY <2>1, <2>2, <2>3, <2>4, Moved
<1>4. ASSUME NEW n \in Notifies, Return(n) PROVE IInv'
  <2>1. /\ inside' = inside \ {n} /\ phase[n] # "sync" /\ phase' = phase
        /\ UNCHANGED <<results, kept>> /\ UNCHANGED heldVars
    BY <1>4 DEF Return
  <2>2. Notified(n)'
    BY <1>1, <1>2, <2>1 DEF Notified, Holds, Attached
  <2> QED
    BY <1>1, <2>1, <2>2, Moved
<1>5. ASSUME NEW n \in Notifies, ReturnSync(n) PROVE IInv'
  <2>1. /\ phase[n] = "sync" /\ Free(n) /\ phase' = [phase EXCEPT ![n] = "none"]
        /\ inside' = inside \ {n} /\ UNCHANGED <<results, kept>>
    BY <1>5 DEF ReturnSync
  <2>2. n \notin results' /\ n \notin kept'
    BY <1>1, <2>1 DEF Notified, Attached
  <2> QED
    BY <2>1, <2>2, FreeKeeps
<1>6. ASSUME NEW n \in Notifies, Complete(n) PROVE IInv'
  <2>1. /\ phase[n] = "busy" /\ phase' = [phase EXCEPT ![n] = "calling"]
        /\ results' = IF op[n].buffer = "allocated" THEN results \cup {n} ELSE results
        /\ UNCHANGED <<inside, kept>> /\ UNCHANGED heldVars
    BY <1>6 DEF Complete
  <2>2. "calling" \in Phases /\ phase'[n] = "calling"
    BY <1>2, <2>1 DEF Phases
  <2>3. Notified(n)'
    BY <1>1, <1>2, <2>1, <2>2 DEF Notified, Holds, Attached
  <2> QED
    BY <2>1, <2>2, <2>3, Moved
<1>7. ASSUME NEW n \in Notifies, CallbackReturns(n) PROVE IInv'
  <2>1. phase[n] = "calling" /\ UNCHANGED <<inside, results, kept>>
    BY <1>7 DEF CallbackReturns
  <2>2. CASE n \in results
    <3>1. phase' = [phase EXCEPT ![n] = "attached"] /\ UNCHANGED heldVars
      BY <1>7, <2>2 DEF CallbackReturns
    <3>2. "attached" \in Phases /\ phase'[n] = "attached"
      BY <1>2, <3>1 DEF Phases
    <3>3. Notified(n)'
      BY <1>1, <1>2, <2>1, <2>2, <3>1 DEF Notified, Holds, Attached
    <3> QED
      BY <2>1, <3>1, <3>2, <3>3, Moved
  <2>3. CASE n \notin results
    <3>1. phase' = [phase EXCEPT ![n] = "none"] /\ Free(n)
      BY <1>7, <2>3 DEF CallbackReturns
    <3>2. n \notin results' /\ n \notin kept'
      BY <1>1, <2>1, <2>3 DEF Notified, Attached
    <3> QED
      BY <2>1, <3>1, <3>2, FreeKeeps
  <2> QED
    BY <2>2, <2>3
<1>8. ASSUME NEW n \in Notifies, Keep(n) \/ Drop(n) PROVE IInv'
  <2>1. /\ UNCHANGED <<phase, inside, results>> /\ UNCHANGED heldVars
        /\ n \in results \/ n \notin kept'
        /\ \A m \in Notifies : m # n => (m \in kept' <=> m \in kept)
    BY <1>8 DEF Keep, Drop
  <2>2. Notified(n)'
    BY <1>1, <1>2, <2>1 DEF Notified, Holds, Attached
  <2> QED
    BY <1>1, <2>1, <2>2, Moved
<1>9. ASSUME NEW n \in Notifies, ResultDies(n) PROVE IInv'
  <2>1. /\ n \in results /\ n \notin kept /\ phase[n] # "calling" /\ results' = results \ {n}
        /\ UNCHANGED <<inside, kept>>
    BY <1>9 DEF ResultDies
  <2>2. phase[n] = "attached"
    BY <1>1, <2>1 DEF Notified, Attached
  <2>3. phase' = [phase EXCEPT ![n] = "none"] /\ Free(n)
    BY <1>9, <2>2 DEF ResultDies
  <2> QED
    BY <2>1, <2>3, FreeKeeps
<1>10. ASSUME UNCHANGED <<phase, inside, heldVars, results, kept>> PROVE IInv'
  <2>1. UNCHANGED <<phase, inside, op, slot, sized, referenced, buffer, refs, results, kept>>
    BY <1>10 DEF heldVars
  <2>2. Typed' /\ Exact'
    BY <2>1 DEF IInv, Typed, Exact
  <2>3. \A n \in Notifies : Notified(n)'
    BY <1>1, <2>1 DEF Notified, Holds, Attached
  <2> QED
    BY <2>2, <2>3 DEF IInv
<1>11. ASSUME NEW o \in Objects, Own(o) \/ Forget(o) PROVE IInv'
  BY <1>10, <1>11 DEF Own, Forget
<1>12. CASE UNCHANGED vars
  BY <1>10, <1>12 DEF vars
<1>13. CASE Next
  BY <1>3, <1>4, <1>5, <1>6, <1>7, <1>8, <1>9, <1>11, <1>13, BeginKeeps DEF Next
<1> QED
  BY <1>12, <1>13

LEMMA Inductive == Spec => []IInv
<1> QED
  BY InitKeeps, NextKeeps, PTL DEF Spec

(* The references that notifies took on any Python object are at any time
   the ones that their callbacks, data and slaves still hold: none is dropped
   twice, and none is left with a notify that was freed or that a failing
   wrapper lost.                                                           *)
THEOREM NotifiesOwnExactly == Spec => []ExactlyOwned
<1>1. IInv => ExactlyOwned
  BY DEF IInv, Notified, ExactlyOwned, NothingLost
<1> QED
  BY <1>1, Inductive, PTL

(* Until its callback has returned, an operation that any of the wrappers
   starts finds a callback that is alive and, the three query_info_async()
   of the file streams aside, callable, its data, its progress callback and
   the buffer that GIO reads or writes, with any number of operations at a
   time, and whatever Python code drops meanwhile.                         *)
THEOREM GIOFindsWhatItUses == Spec => []UsableByGIO
<1>1. IInv => CallbackAlive
  <2> SUFFICES ASSUME IInv, NEW n \in Notifies, phase[n] \in {"sync", "busy", "calling"},
                      NEW f \in Fields, slot[n][f] # Null
               PROVE  Alive(slot[n][f])
    BY DEF CallbackAlive, Fields
  <2>1. Holds(n)
    BY DEF IInv, Notified
  <2>2. slot[n] \in Slots
    BY DEF IInv, Typed
  <2>3. CASE phase[n] = "sync"
    <3>1. n \in inside /\ f \in DOMAIN slot[n]
      BY <2>1, <2>2, <2>3 DEF Holds, Slots, Fields
    <3> QED
      BY <3>1 DEF Alive
  <2>4. CASE phase[n] # "sync"
    <3> DEFINE o == slot[n][f]
    <3>1. f \in referenced[n] /\ o \in Objects
      BY <2>1, <2>2, <2>4 DEF Holds, Slots, Fields
    <3>2. <<n, f>> \in Pairs(referenced, slot, o)
      BY <3>1 DEF Pairs
    <3>3. IsFiniteSet(Pairs(referenced, slot, o))
      <4>1. IsFiniteSet(Notifies \X Fields)
        BY FieldsFinite, FS_Product, GioNotifyAssumption
      <4> QED
        BY <4>1, FS_Subset DEF Pairs
    <3>4. Cardinality(Pairs(referenced, slot, o)) \in Nat \ {0}
      BY <3>2, <3>3, FS_EmptySet, FS_CardinalityType
    <3>5. refs[o] = Cardinality(Pairs(referenced, slot, o))
      BY <3>1 DEF IInv, Exact, Pairs, Fields
    <3> QED
      BY <3>4, <3>5 DEF Alive
  <2> QED
    BY <2>3, <2>4
<1>2. IInv => OnlyCallables
  BY DEF IInv, Notified, OnlyCallables
<1>3. IInv => BufferLives
  BY DEF IInv, Notified, Attached, BufferLives, CanReadFinish
<1>4. IInv => UsableByGIO
  BY <1>1, <1>2, <1>3 DEF UsableByGIO
<1> QED
  BY <1>4, Inductive, PTL
=============================================================================
