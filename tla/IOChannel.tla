----------------------------- MODULE IOChannel ------------------------------
(***************************************************************************)
(* glib.IOChannel: reads, line reads and the state of the channel.  Bytes  *)
(* are their positions in what the channel will give before it ends.       *)
(* read() asks for one chunk after another, into a buffer that it resizes, *)
(* and lets other threads run while GLib reads, when hooks for that were   *)
(* registered: pyglib_unblock_threads() does nothing without them.         *)
(***************************************************************************)
EXTENDS Integers, FiniteSets, FiniteSetsExt

CONSTANTS
  Readers,       \* Python threads
  Length,        \* bytes that the channel gives
  LineEnds,      \* positions after each line terminator
  Chunk,         \* CHUNK_SIZE
  MaxCounts,     \* arguments of read()
  Width          \* bits of gsize

ASSUME IOChannelAssumption ==
  /\ Length \in Nat /\ Chunk \in Nat \ {0} /\ Width \in Nat
  /\ LineEnds \subseteq 1..Length /\ MaxCounts \subseteq Int /\ Length < 2^Width

VARIABLES
  channel,   \* "none", "open", "unreadable" or, with the process, "crashed"
  position,  \* of the next byte
  reading,   \* of each thread: its read() in progress
  results,   \* sets of bytes that calls returned
  dropped,   \* bytes that were read and not returned
  hooks,     \* pyglib_set_thread_block_funcs was called
  lines      \* the list of a readlines() in progress, by thread

channelVars == <<channel, position, reading, results, dropped, hooks, lines>>

Junk == 0   \* in a string: bytes that nobody read

NotReading == [active |-> FALSE, max |-> 0, total |-> 0, size |-> 0, got |-> {}]
NoLines == [active |-> FALSE, first |-> TRUE, got |-> {}]

ChannelInit ==
  /\ channel = "none" /\ position = 0 /\ results = {} /\ dropped = {} /\ hooks = FALSE
  /\ reading = [r \in Readers |-> NotReading] /\ lines = [r \in Readers |-> NoLines]

-----------------------------------------------------------------------------
(* max_count is an int, compared with a gsize: -1 is a case of its own, and
   other negative counts are huge.                                         *)
Wanted(max, total) == max = -1 \/ total < max % 2^Width

BufferSize(max, total) ==
  IF max = -1 \/ (max % 2^Width) - total > Chunk THEN Chunk ELSE (max % 2^Width) - total

(* Mutant: the string keeps the size of the first chunk.                   *)
Sized_Once(b) ==
  [b EXCEPT !.active = TRUE, !.size = IF @ = 0 THEN BufferSize(b.max, b.total) ELSE @]

(* The string has room for the next chunk.                                 *)
Sized(b) ==
  LET need == BufferSize(b.max, b.total) + b.total
  IN  [b EXCEPT !.active = TRUE, !.size = IF need > @ THEN need ELSE @]

(* The GIL: a thread that GLib blocks keeps it, unless there are hooks.    *)
MayRun(r) ==
  /\ channel # "crashed" /\ ~lines[r].active
  /\ \A q \in Readers \ {r} : reading[q].active => hooks
  /\ \A q \in Readers \ {r} : ~lines[q].active

Ready(r) == MayRun(r) /\ ~reading[r].active

(* __init__ from a descriptor or a file.  If that fails, the object has no
   channel, and calls are refused like those of one opened for writing only. *)
NewChannel(r, readable) ==
  /\ channel = "none" /\ Ready(r)
  /\ channel' = IF readable THEN "open" ELSE "unreadable"
  /\ UNCHANGED <<position, reading, results, dropped, hooks, lines>>

(* pyglib_set_thread_block_funcs, by a module such as gtk.gdk              *)
SetThreadBlockFuncs ==
  /\ \E r \in Readers : Ready(r)
  /\ hooks' = TRUE /\ UNCHANGED <<channel, position, reading, results, dropped, lines>>

(* read(max): up to the first call of g_io_channel_read_chars              *)
Read(r, max) ==
  /\ Ready(r) /\ channel # "none" /\ max # 0
  /\ reading' = [reading EXCEPT ![r] = Sized([NotReading EXCEPT !.max = max])]
  /\ UNCHANGED <<channel, position, results, dropped, hooks, lines>>

Continues(b, n, status) == status = "normal" /\ Wanted(b.max, b.total + n)

(* Mutant: each chunk is read to the start of the string.                  *)
Filled_AtStart(b, bytes) == [b EXCEPT !.total = @ + Cardinality(bytes), !.got = bytes]

Filled(b, bytes) == [b EXCEPT !.total = @ + Cardinality(bytes), !.got = @ \cup bytes]

(* GLib has read n bytes, and read() asks for more or returns what it has. *)
ReadChars(r, n, status) ==
  LET b == reading[r]
      bytes == (position + 1)..(position + n)
      more == Filled(b, bytes)
  IN  /\ MayRun(r) /\ channel = "open" /\ b.active
      /\ n <= BufferSize(b.max, b.total) /\ position + n <= Length
      /\ (status = "normal") = (n > 0) /\ (status = "eof" => position = Length)
      /\ position' = position + n
      /\ reading' = [reading EXCEPT ![r] = IF Continues(b, n, status) THEN Sized(more) ELSE NotReading]
      /\ results' = IF Continues(b, n, status) THEN results ELSE results \cup {more.got}
      /\ UNCHANGED <<channel, dropped, hooks, lines>>

(* GLib sets a GError, or there is no memory for the string: what was read is
   lost.                                                                   *)
ReadFails(r) ==
  /\ MayRun(r) /\ reading[r].active
  /\ dropped' = dropped \cup reading[r].got
  /\ reading' = [reading EXCEPT ![r] = NotReading]
  /\ UNCHANGED <<channel, position, results, hooks, lines>>

(* The string is cut to a size, or has what the memory had in it.          *)
First(S, size) == {x \in S : Cardinality({y \in S : y < x}) < size}
Resized(S, size) == IF size > Cardinality(S) THEN S \cup {Junk} ELSE First(S, size)

(* GLib refuses an unreadable channel without a GError, and does not set
   single_read: read() returns a string of any size.                       *)
ReadRefused(r, n) ==
  LET b == reading[r]
      string == Resized(b.got, (b.total + n) % 2^Width)
  IN  /\ MayRun(r) /\ channel = "unreadable" /\ b.active
      /\ results' = results \cup {string}
      /\ dropped' = dropped \cup (b.got \ string)
      /\ reading' = [reading EXCEPT ![r] = NotReading]
      /\ UNCHANGED <<channel, position, hooks, lines>>

-----------------------------------------------------------------------------
(* Where the line ends; an unreadable channel gives none.                  *)
LineEnd ==
  IF channel # "open" THEN position
  ELSE IF \E e \in LineEnds : e > position THEN Min({e \in LineEnds : e > position}) ELSE Length
Line == (position + 1)..LineEnd

(* GLib reads a line, the empty one at the end or if it refuses.           *)
LineRead(r) ==
  /\ Ready(r) /\ channel # "none"
  /\ position' = LineEnd /\ results' = results \cup ({Line} \ {{}})
  /\ UNCHANGED <<channel, reading, dropped, hooks, lines>>

ReadLine(r) == LineRead(r)

(* next() raises StopIteration at the end, but not if GLib refuses: an
   iteration over a closed channel gives empty lines for ever.             *)
NextLine(r) == (channel = "open" => position < Length) /\ LineRead(r)

ReadLines(r) ==
  /\ Ready(r) /\ channel # "none" /\ lines' = [lines EXCEPT ![r].active = TRUE]
  /\ UNCHANGED <<channel, position, reading, results, dropped, hooks>>

(* Each line is appended to the list, the empty one at the end as well.    *)
AppendLine(r) ==
  /\ channel = "open" /\ lines[r].active /\ position < Length
  /\ position' = LineEnd
  /\ lines' = [lines EXCEPT ![r] = [active |-> TRUE, first |-> FALSE, got |-> @.got \cup Line]]
  /\ UNCHANGED <<channel, reading, results, dropped, hooks>>

(* readlines() ends with the file, or early when GLib has to wait or refuses. *)
LinesReturn(r) ==
  /\ channel # "crashed" /\ lines[r].active
  /\ results' = results \cup ({lines[r].got} \ {{}})
  /\ lines' = [lines EXCEPT ![r] = NoLines]
  /\ UNCHANGED <<channel, position, reading, dropped, hooks>>

(* ... or with a GError.  It then drops the last line, and uses a null
   pointer if there is none.                                               *)
LinesFail(r) ==
  /\ channel = "open" /\ lines[r].active
  /\ dropped' = dropped \cup lines[r].got
  /\ channel' = IF lines[r].first THEN "crashed" ELSE channel
  /\ lines' = [lines EXCEPT ![r] = NoLines]
  /\ UNCHANGED <<position, reading, results, hooks>>

(* writelines(): PyIter_Next returns NULL at the end without an exception,
   and the test of its type uses the null pointer.  Only a line that cannot
   be written, or that is no string, ends the call.                        *)
WriteLines(r, ends) ==
  /\ Ready(r) /\ channel # "none"
  /\ channel' = IF ends THEN "crashed" ELSE channel
  /\ UNCHANGED <<position, reading, results, dropped, hooks, lines>>

(* close(): GLib flushes, closes and refuses the other calls from then on. *)
Shutdown(r) ==
  /\ Ready(r) /\ channel # "none"
  /\ channel' = "unreadable"
  /\ UNCHANGED <<position, reading, results, dropped, hooks, lines>>

ChannelNext ==
  \/ SetThreadBlockFuncs
  \/ \E r \in Readers :
        \/ \E readable \in BOOLEAN : NewChannel(r, readable)
        \/ \E n \in 0..(2^Width - 1) : ReadRefused(r, n)
        \/ ReadFails(r) \/ ReadLine(r) \/ NextLine(r) \/ Shutdown(r)
        \/ ReadLines(r) \/ AppendLine(r) \/ LinesReturn(r) \/ LinesFail(r)
        \/ \E max \in MaxCounts : Read(r, max)
        \/ \E n \in 0..Chunk, status \in {"normal", "eof", "again"} : ReadChars(r, n, status)
        \/ \E ends \in BOOLEAN : WriteLines(r, ends)

ChannelSpec == ChannelInit /\ [][ChannelNext]_channelVars

-----------------------------------------------------------------------------
(* A chunk is written inside the string: before each call of GLib there is
   room for what it may read, for any count, negative ones included, and
   any mix of short reads.                                                 *)
InBuffer ==
  \A r \in Readers : LET b == reading[r] IN
    b.active => b.total = Cardinality(b.got) /\ b.total + BufferSize(b.max, b.total) <= b.size

(* What the results have of the channel.                                   *)
Genuine(strings) == {p \ {Junk} : p \in strings}

(* Bytes are neither lost nor given twice, whatever threads and calls share
   the channel, also when one closes it under another: each that GLib has
   given was returned by one call, is in a call in progress, or was dropped
   by a call that failed or was refused.                                   *)
OnceOnly ==
  LET parts == Genuine(results) \cup {reading[r].got : r \in Readers}
               \cup {lines[r].got : r \in Readers} \cup {dropped}
  IN  /\ UNION parts = 1..position
      /\ \A p, q \in parts : p = q \/ p \cap q = {}

(* What a call returns is one piece of the channel, as long as no other
   thread reads meanwhile: without the hooks of another module a read()
   excludes them, with hooks its chunks may be apart.                      *)
Contiguous ==
  \A p \in Genuine(results) \ {{}} : hooks \/ p = Min(p)..Max(p)

(* A string has only what was read while the channel is readable: read()
   trusts a count that GLib does not set when it refuses.                  *)
NoJunk == channel \in {"none", "open"} => \A p \in results : Junk \notin p

(* Calls return what the channel gave: all of it, once and in pieces, and
   until the channel is closed nothing else.                               *)
Conserved == OnceOnly /\ Contiguous /\ NoJunk
=============================================================================
