# A TLA+ verification project for PyGObject 2.21.3

PyGObject lets Python code use GObject, GLib and GIO. Its hard part is
ownership and concurrency: two reference-counting
systems that must agree about one object, callbacks that arrive in any thread
and need Python's global interpreter lock (GIL), Unix signals that must get
through an event loop, and structures that a C library keeps after the call
that made them has returned. This project models those protocols in TLA+,
checks them with TLC on small instances, and proves their safety invariants
with TLAPS for every instance.

All paths below are relative to the root of the repository.

## 1. Inventory

| Part | Code | State it keeps | Operations | What is hard | What makes it correct |
|---|---|---|---|---|---|
| Wrappers and toggle references | `gobject/pygobject.c` | `ref_count`, qdata, toggle reference, `ob_refcnt`, `inst_dict`, flags | create, wrap, get/set attribute, drop, collect, native ref/unref, toggle notification, clear | native threads change counts without the GIL; notifications come late; Python code runs inside dealloc and the making of a wrapper | one wrapper per object, no reference lost or left over, attributes live as long as the object |
| Weak references | `gobject/pygobject.c:1884-2221` | `obj`, `callback`, floating reference | `weak_ref()`, call, `unref()`, notify, dealloc | disposal in a thread without the GIL | no use after free, the callback called once, no leak |
| Closures and emission | `gobject/pygtype.c`, `gobject/pygobject.c` | list of watched closures, references, handlers, block counts | connect, disconnect, block, by_func, emit, invalidate, traverse, clear | invalidation during emission, without the GIL, during the walk of the list | a running callback is alive, everything released, the collector sees owned references |
| GIL brackets | `glib/pyglib.c`, `glib/pyglib.h`, `gobject/gobjectmodule.c` | `threads_enabled` and its copy, thread states | ensure/release, begin/end allow, `threads_init` | a flag tested at both ends of a bracket | the GIL is left as it was found |
| Main loops | `glib/pygmainloop.c`, `glib/pygmaincontext.c` | current loop per thread, pipe, `is_running` | create, run, quit, iteration, signal check | nesting, threads, one pipe for all loops | signals seen, loops end, the current loop restored |
| GIO asynchronous calls | `gio/*.override` | `PyGIONotify`, its slave and buffer | 67 wrappers, completion, `read_finish` | partial failure, completion before return, release by any thread | callbacks and buffers alive, each reference released once |
| Types | `gobject/gobjectmodule.c`, `gobject/pygtype.c`, `gobject/pygobject.c` | GTypes and their classes, `__gtype__` along the bases | class statements, `type_register()`, registration by modules, lookup | failure halfway, any order, names in use | GTypes descend as classes do; a registered class is complete |
| Construction | `gobject/gobjectmodule.c:1006-1053,2248-2330` | wrapper under construction, per thread | constructor from Python, `g_object_new` from C | nested construction | each object gets its own wrapper and one `__init__` |
| Event sources | `glib/pygsource.c`, `glib/glibmodule.c`, `glib/pygiochannel.c` | GSource and wrapper references, callback data | attach, set_callback, destroy, dispatch, finalize, watches | destroy from inside dispatch and from its own finalizers, release by any thread | released exactly once |
| Option groups | `glib/pygoptiongroup.c`, `glib/pygoptioncontext.c` | `other_owner`, `is_in_context`, `main_group` | new, add_entries, transfer, parse, free | transfer of ownership, callbacks during a parse | the group is freed once and calls back what exists |
| IO channels | `glib/pygiochannel.c` | the channel, the buffer of a read | read, readline(s), next, writelines, close | chunked reads that let other threads in; a channel that is closed or not readable | each byte once, no overrun |
| Values and boxed | `gobject/pygtype.c`, `gobject/pygboxed.c`, `gobject/ffi-marshaller.c`, `gobject/pygobject.c` | GValues of a call; who owns a boxed value | convert arguments and results, emit, class handlers, accumulators | a later argument fails; values borrowed by handlers; widths | converted faithfully or refused; freed once |
| Properties | `gobject/pygobject.c`, `gobject/gobjectmodule.c`, `gobject/propertyhelper.py` | none beyond the object | get, set, declare | conversion both ways | a limit means what a value does |
| Enums, flags | `gobject/pygenum.c`, `gobject/pygflags.c` | classes of types | convert, compare, combine | signedness | conversion inverts |
| Spawn, errors | `glib/pygspawn.c`, `glib/pyglib.c` | none | spawn, translate errors | - | - |
| Code generator | `codegen/*.py` | a parse tree | read definitions, print C | - | every definition is written once, parents first |

The parts interact in few ways. Python code calls wrappers, which call GLib
with the GIL kept, or released inside `pyg_begin_allow_threads` and
`pyg_end_allow_threads`. GLib calls back, with `pyg_gil_state_ensure` and
`pyg_gil_state_release` around what Python does. Parts share the GObject's
qdata (wrapper, instance data with the closures, notifies attached to results)
and the two copies of `threads_enabled`. `PROJECT.json` lists the components
and, under `hazards`, what can go wrong in each at the line where it would.

## 2. Modules

| Module | Models | Kind |
|---|---|---|
| `GObjectLifetime` | what the wrapper protocol promises | abstract specification |
| `PyGObject` | one GObject and its wrappers | implementation |
| `PyGObjectInv`, `PyGObjectProofs` | its inductive invariant, refinement mapping and proofs | |
| `MCPyGObject` | instances for TLC (symmetry) | |
| `WeakRef` | one weak reference to one GObject | |
| `Closures`, `MCClosures` | closures connected to one GObject | |
| `ClosuresProofs` | its inductive invariant and proofs | |
| `GilState`, `MCGilState` | GIL brackets over threads of Python and of libraries | |
| `GilStateInv`, `GilStateProofs` | its inductive invariant and proofs | |
| `MainLoop`, `MCMainLoop` | loops, contexts, the wakeup pipe and signals | |
| `Sources`, `MCSources` | one GSource made by Python code, and its object | |
| `SourcesProofs` | its inductive invariants and proofs | |
| `Registration` | GTypes and the classes for them | |
| `Construction`, `MCTypes` | construction of GObjects of those classes | composition |
| `OptionGroups` | groups and contexts of command line options | |
| `IOChannel` | one channel read by several threads | |
| `MCSeparate` | instances of `WeakRef`, `OptionGroups` and `IOChannel` for TLC | |
| `Values`, `MCValues` | the GValues of a call, and boxed values | |
| `GioWrappers` | a table: what each of the 67 GIO wrappers checks and asks for | |
| `GioNotify`, `MCGioNotify` | the notify structures those wrappers make | |
| `GioNotifyProofs` | its inductive invariant and proofs | |
| `TypesProofs` | of `Registration` and `Construction`: inductive invariants and proofs | |
| `GlibProofs` | the same of `MainLoop`, `OptionGroups` and `IOChannel` | |
| `GObjectProofs` | the same of `WeakRef` and `Values` | |

`Construction` extends `Registration`: one next-state relation interleaves the
registration of classes with the construction of their objects. Otherwise a
module models one instance of its protocol, with the threads on it. The
protocols meet where one is the other's environment: `WeakRef` and
`Closures` take from `PyGObject` that a GObject may be finalized in a thread
without the GIL, and all of them take from `GilState` that Python code runs in
one thread at a time, which `GilState` shows for programs that call
`threads_init()` outside of brackets. A variable `gil` in the other modules
says only that one thread keeps the GIL across several steps.

`map` in `PROJECT.json` gives the lines that each definition stands for. GLib,
GIO and the interpreter are not part of the repository: what the code relies
on there (reference counting and toggle notification, closure invalidation,
context ownership, completion of an operation, signal handlers that run in the
main thread) is modelled from how the code uses it, and marked external.

### PyGObject

A step is a section under the GIL, or one atomic operation of GObject without
it. `SetAttr`, `GetDict` and `Construct` start the switch to a toggle
reference, whose `g_object_unref` is a step of its own (`SwitchUnref`), since
other threads change `ref_count` in between. `NativeRef` and `NativeUnref`
change the count at once and leave a notification that its thread delivers when
it gets the GIL (`ToggleNotify`). `pygobject_clear` is `ClearUnregister`, then
`ClearRemoveToggle` with the GIL or `ClearUnref` and `ClearEnd` without.
`CollectCycle` is the cycle collector on a wrapper that refers to itself.

Two functions run Python code in their middle. `pygobject_dealloc` calls
`PyObject_ClearWeakRefs` while the wrapper, whose `ob_refcnt` is 0, is still
registered: `StartClear` may leave its thread in `callbacks`, from which any
operation can be made until `CallbacksEnd`. `pygobject_new_full` looks for a
wrapper (`WrapStart`), finds the class and allocates, and then registers
(`WrapRegister`). `Resurrects` and `Overlaps` say whether Python code asks for a
wrapper of the same GObject in between; then it gets the dying one, or the
GObject gets a second one, as two runs show. Everything else is about programs
that do neither (`Orderly`): other steps of all threads still come in between.

### WeakRef

`self->obj` and `self->callback` are read and written by the notification
before it has the GIL, and by `unref()` and the call under the GIL, where the
test of `self->obj` and its use are two steps. `Unlocked` allows the last
reference to be dropped without the GIL; `Uninitialised` gives the values of
`have_floating_ref` when the constructor sets none; `Callbacks` says whether
there may be a callback.

### Closures

`data->closures` is the list of watched closures that the cycle collector
walks. Invalidation is three steps (`read`, `write`, `drop`), since
`pygobject_unwatch_closure` changes the list without the GIL.
`pygobject_data_free` walks a copy of the head while each invalidation takes
the GIL. `natives` are threads that emit without it, and `dict` says whether the
wrapper has instance state, which brings a toggle reference; both are chosen
initially. A wrapper without instance state can be cleared (`Clear`) and be
replaced (`Wrap`) while native code owns the GObject; its closures stay, and
`outlived` has those that reference the wrapper that is gone.

### GilState

Each thread has a stack of calls that keep the GIL, calls that release it and
callbacks. A frame remembers what its beginning found (`marked`) and did
(`took`); the end tests the flag again, as the code does. `noted` is gobject's
copy of the flag.

### MainLoop

Each thread has a stack of runs and iterations, with a phase each: waiting for
the context, polling, checking the signal sources in turn, and dispatching a
callback, from which more can be nested. A signal trips the interpreter and
writes a byte to the pipe once a MainLoop exists; a source that finds the pipe
readable reads one byte from its blocking end. `err` is the exception of a
thread: a signal handler sets it, `Raise` is `run()` raising it, and `Lost` what a
failing callback does to it, since its own exception is printed in its place.

### Sources

`kind` says what made the source, and so whether an object and its methods are
involved. The object's references are `held`, `attaches` and bound methods in
progress (`Bound`); the GSource's are the object's (`owns`), the context's
(`Attached`) and those of calls. `Settle` is what every step ends with: an
object without references is freed, a GSource without references finalized,
and data that neither the GSource nor a call uses released. `Destroy` is two
steps if it drops callback data, which may run Python code before `Forget` has
`self->source` reset; `ending` has the threads in between. A `destroy()` made then
drops the reference of `attach()` again (`misused`), and the model stops where
the object's count is short. Watches of
`glib.IOChannel` are a kind of their own (`AddChannelWatch`, `ChannelMore`). `Begin` is GLib's
choice to call, without the GIL, and `Enter` the call, with it. `remote` says
whether Python code changes the source in a thread other than the one that
iterates the context; `over` and `misused` only record what has happened.

### GioWrappers and GioNotify

The 67 wrappers differ in what they check, in which order, and in what they ask
of their notify. `GioWrappers` says so in one record for each. `GioNotify`
interprets the records: `Refuse` and `Begin` are a whole wrapper up to its
return or to where it releases the GIL, `Complete` and `CallbackReturns` are
`async_result_callback_marshal`, and `Free` is `pygio_notify_free` with its
slave. A result that Python keeps (`Keep`) keeps an attached notify, and with
it the buffer of a read.

### Registration and Construction

A GType is its name with the chain of its parents (`supers`), its class, its
flag for the new constructor and what registration has added to it. A class
statement starts `type_register()`, which is five steps (`check`, `signals`,
`properties`, `interfaces`, done), each of which may fail and leave what the
earlier ones made; what a class declares is told apart by whether it is there
and can be created. `TypeOf` is the attribute lookup of `__gtype__` along the
bases, where an interface may come first. `RegisterClass` and `LookupClass` are
the two ways in which GTypes of libraries get classes.

In `Construction` each thread has a stack of calls of `g_object_newv`, with the
types whose `instance_init` is still to run. `tls` is the thread-specific
wrapper. `InitIgnored`, `InitKnown` and `InitNew` are the ways through
`pygobject__g_instance_init`; `early` records wrappers that were waiting while
native code made another object.

### OptionGroups

`wrapper` is the `PyGOptionGroup` of each group, `freedBy` who frees its
`GOptionGroup`. `Transferred`, `Destroyed` and `Settled` are the functions that
`add_group`, `set_main_group`, the contexts' freeing and deallocation share.
`Callback` is `arg_func` in the middle of a `parse()`. `Needs` counts who needs a
wrapper: Python, the context that has its group, and those whose main group it
is.

### IOChannel

A byte is its position. `Sized` and `Filled` are the two halves of the loop of
`read()`, between which the GIL is released if some module has registered hooks
(`hooks`); without hooks GLib is called with it. `Width` is the width of `gsize`,
in which the counts are computed. A channel that was closed, that was opened for
writing only, or whose `__init__` failed is `unreadable`: GLib refuses reads of it
with an error status but without a `GError`, which the code takes for success.
`ReadRefused` is `read()` then, with the `single_read` that nobody has set: its
string may be longer than what was read (`Junk`) or shorter. `crashed` is the
end of a process that has used a null pointer.

### Values

`Functions` lists the functions that turn Python objects into GValues, by when
they initialise the values, when they use them and what they unset on a failure
(`Cleans`); one action, `ConvertNext`, interprets that. `From` is
`pyg_value_from_pyobject` with the range test of each kind: `HasInt` is what
`_PyLong_AsLong` and `PyLong_AsLongLong` take, floats included, and `FromText` the
characters and strings that any object gives. `FromAny` is a GValue in a GValue.
`AsPyObject` and `NumberAsPy` are `pyg_value_as_pyobject`. A boxed value is a cell
with what frees it; `ToPython`, `ToHandler`, `ToMethod`, `Accumulate` are the four
ways it gets to Python, with a copy, without, with one made afterwards, and
without and freed. `Parsed` and `Declare` are the limits of properties in `__gproperties__`.
The widths of integers are given by the values of their sign bits, `CharSign`,
`IntSign` and `LongSign`.

## 3. Runs

| Run | Instance | Shows |
|---|---|---|
| `pygobject` | 3 threads, 2 wrappers, an initially unowned type with a sink function, `MaxRef` of 9, an `Orderly` program | reference counts are exact, wrappers in use are live and unique, attributes survive with the object, everything is reclaimed, and the protocol implements `GObjectLifetime` |
| `pygobject_weakref` | 2 threads, `Resurrects` | violation: `HeldIsLive` |
| `pygobject_overlap` | 2 threads, `Overlaps` | violation: `OneWrapper` |
| `weakref_unlocked` | disposal without the GIL | violation: `StaysAlive` |
| `closures` | 2 threads, 2 closures, of which at least one has a callback that references the wrapper, nested emission and one block; with and without a thread that emits natively, and with and without instance state | callbacks are alive while they run; without native emissions the collector knows all of them and everything is released |
| `gil` | Python's main thread, a second one and a library's thread, nesting of 3, `threads_init()` outside of brackets | brackets restore the GIL, one thread in Python, no starvation |
| `loop` | 2 threads, 2 loops on a context and another context, nesting of 2, 2 signals, a pipe of one byte | the current loop is restored; with one loop and no nested one, signals are handled, their exceptions are raised by the `run()` of the loop they end unless a callback fails first, and `quit()` ends the loop |
| `sources` | one source of any kind, 2 threads, 3 callback data, 2 calls of `attach()`, dispatches nested to 3 | what the context calls is alive, a finished source is not called, objects and data are released |
| `gio_notify` | 2 operations of any of the wrappers, a callable and another object, one failing check | callbacks and buffers are alive when GIO uses them, references are exact and released |
| `types` | `gobject.GObject` and 2 classes, a type and an interface of a library, one class name with 2 tries, 3 declarations; one thread that constructs 2 objects | GTypes descend as classes do, a class that was registered is complete, an object gets its wrapper and one `__init__` |
| `separate` | weak references: 3 threads, with and without a callback, disposal under the GIL; option groups: 2 groups, of Python's or another library's, 2 contexts; channels: 2 threads, 5 bytes in 3 lines, chunks of 2, `gsize` of 4 bits, counts -1, -2 and 3, failing reads, and a channel that is unreadable or becomes so | no use after free of a weak reference, one notification, unless `unref()` came first, no leak; contexts call back only what exists, a group is freed by one owner, and whoever needs its wrapper has a reference; chunks fit, each byte is returned once, calls return what is contiguous, and nothing else as long as the channel is readable |
| `values` | 2 wrappers, 4 boxed values, chars of 1, ints of 2 and longs of 4 bits (sign bits 1, 2 and 8); ints, longs and floats around the limits of each width; one argument of each kind, or two of which the second may fail | who frees boxed values, whatever fails; numbers survive conversion there and back |

`separate` checks three components in one run (`MCSeparate`): since they share no
variable, one of them moves in each behaviour, and the others stay as they
start. A property of one says nothing of the others, so that no interleaving of
them matters to it.

### Why the bounds are enough

The protocols are about one object and the pairwise order of steps of threads.
Two wrappers of a GObject are those that can overlap (an old one being cleared,
a new one made meanwhile); a third thread stands for whoever holds the GObject
while two others race. `MaxRef` bounds only the creation of another wrapper. Two
closures give a list whose element is unlinked while another is added, two
emissions the disconnection of a running handler. Which of the two closures has
the callback that references the wrapper makes no difference, so one is chosen
(`MCSpec`). Nesting of 3 in `GilState`
has a callback in a call in a callback, with each kind of call at each level.
Two notifies share the objects they reference in every combination of slots.
`MaxSignals` and `PipeSize` let a byte be taken by the wrong reader, and the
pipe be full. One source suffices, since sources share only the context, and
the second call of `attach()` is the one that takes a reference too many; three
data are the one in use by a dispatch, the one that replaces it and a third.
Two classes are one below the other, or beside it under the same name, which
has a second try and then none; two objects are one constructed inside the
other's construction. The thread-specific wrapper is per thread, so that one
thread tells all. Two contexts can claim one group, and one context two groups
as its main one. Five bytes are three chunks, of which one is short, and a count
may end within or at the end of one. The widths of `values` only have to differ,
with numbers inside and outside of each of them; an argument that is no number
is refused by every kind of number alike, so that one such object stands for all.
Two arguments are one that succeeds before one that fails. Four cells are two
values of a call, a copy for each wrapper. Cells and wrappers are symmetric: the
lists of arguments treat them alike, and both properties are invariants.

### Fairness

Only what the code or its environment must do is fair. Steps that begin
something (a call, a new wrapper, a signal, a quit) never are.
`PyGObject`: a thread that is inside an operation goes on, notifications
included, and the cycle collector runs again and again. `WeakRef`: a
notification or a method in progress goes on. `Closures`: callbacks return and
invalidations go on. `GilState`: the interpreter switches threads, strongly
fair as its lock promises, and a call that keeps the GIL returns; a call that
releases it need not. `MainLoop`: a loop that is polled and can run does, and
callbacks return. `Sources`: a call that has begun is made and returns, and so
does a `destroy()`.
`GioNotify`: GIO completes every operation, callbacks return,
and Python drops the results it keeps.
The modules `Construction`, `OptionGroups`, `IOChannel` and `Values` have no
liveness properties and assume no fairness.

## 4. Proofs

Every safety invariant that a run checks is also a theorem, for every value of
the constants, or for those that satisfy a condition stated here. Each proof goes the same way: an invariant, stronger than the
properties, which holds initially, which every step keeps (one lemma for each
action, or for each kind of thing that the invariant is about) and which implies
the properties. `GlibProofs` and `GObjectProofs` hold the proofs of components
that share nothing: they extend the modules of all of them, whose specifications
therefore have names of their own (`ChannelSpec`, `OptionsSpec`, `ValuesSpec`).

`PyGObjectProofs` proves, for any threads, wrappers and kind of type, that
`IInv` of `PyGObjectInv` is inductive, and from it `TypeOK`, `RefsBacked`,
`InUseLive`, `OneWrapper`, `ToggleBalanced`, `StateKept` and the refinement of
`GObjectLifetime`. None of the properties is inductive alone. That a late
notification finds its wrapper live (a part of `InUseLive`) needs the exact value
of `ob_refcnt` (`RcOK`: Python frames, the self reference, GObject's reference
while `ref_count` exceeds 1, plus notifications on their way), which needs to know
who may owe a notification (`NoteOK`), where each clearing thread is (`CurOK`,
`ClearerOK`, `EndingOK`) and that references are backed (`RefsBacked`).
The exact count, `NoSurplus`, is proved under the assumption that the type's
sink adds nothing (`NeverAdds`): for initially unowned types without a sink
function the code does add one (section 6). All of these theorems assume
`Orderly`, that no Python code asks for a wrapper of the GObject in the middle of
`pygobject_dealloc` or `pygobject_new_full`; without it they are false, as
`pygobject_weakref` and `pygobject_overlap` show. The steps of all threads that
come in between are part of them: `MakingOK` says that one thread at a time makes
a wrapper, while none is registered, and `CurOK` that a dying one has no references
and stays registered during its callbacks.

`GilStateProofs` proves `NoFatal`, `MutualExclusion`, `Restored`, `Agree` and
`Counted` for any number of threads of both kinds and any nesting, assuming
`Disciplined`: `threads_init()` is called outside of brackets. The invariant
(`GilStateInv`) relates each frame to the frame below it: a bracket is marked
exactly if threads are enabled, and a callback took the GIL exactly if the
frame below does not have it. Without the assumption `NoFatal` is false: TLC
finds the violation at once with `Disciplined = FALSE` (section 6).

`SourcesProofs` proves `Balanced`, `CallsLive` and `NotCalledAgain` of
`Sources`, for any threads, data and nesting. What Python code does while `destroy()` drops
callback data is part of the theorems; a second `destroy()` there is one of the
uses that `Balanced` excepts (`misused`). `Balanced` says that the object of
a `glib.Source` has exactly one reference for its GSource from `attach()` to
`destroy()`. It is not inductive alone: that `destroy()` finds a reference to
drop needs that an object with a GSource is live and that an attached one has a
reference even when `attach()` was called again, and that a freed object had
none is what `SettleKeeps` shows of the step that all operations end with. The
other two rest on a second invariant (`CInv`): that a call's data is owned needs
that all calls are of one thread (`StackOK`), that the GSource's own data is
owned (`DataOK`) and that a call which sees its source end is in Python code
(`OverOK`); that its object is live is inductive only together with what
attaching gives (`ObjectOK`).

The first part of `GlibProofs` proves `Restored` and `TypeOK` of `MainLoop`, for
any threads, loops and contexts and any depth of nesting. That the current loop
is the innermost that runs cannot be kept by a step alone: what a run puts back
when it ends is what it saved when it began. `Chained` says of the stack of each
thread that the value each run saved is the loop of the run it is nested in,
whatever iterations lie between them (`Innermost`), so that ending the top run
restores that of the next.

`GObjectProofs` proves of `WeakRef` `Counted`, `Announced`, `StaysAlive`,
`EndKnown` and `UnrefIsFinal`, for any threads and callbacks. The count of
references is exact if `have_floating_ref` starts as `FALSE`
(`Uninitialised = {FALSE}`); section 6 tells what happens otherwise, and that a
weak reference is announced once does not depend on it. The others are proved of
disposal under the GIL (`~Unlocked`); without it `StaysAlive` is false, as
`weakref_unlocked` shows. Two invariants are needed: one of every behaviour
(`IInv`: the GObject and the weak reference point at each other or neither does,
and who may be in a method) and one of those under the GIL (`LInv`), where a
thread between the two steps of a method excludes the notification.

`ClosuresProofs` proves `CallbacksKept` of `Closures`, for any threads, closures and nesting of emissions. A closure that
is called is valid, and a valid one has its references, which only its own
invalidation drops (`Kept`); an emission keeps the GObject, so that only the
finalizer acts once it goes (`Stages`). Without native threads no two threads
change the list at once (`Alone`), so that it has every valid closure once and
no others but those whose notifier has yet to run (`Listed`). `RemovedFirst` and
`LengthOfUnequal` are the lemmas about lists behind it. With native threads
the collector may miss a closure, and one that is lost from the list may keep
its references after the GObject has gone (section 6): `CallbacksKept` promises
only `CallbackAlive` then.

`GlibProofs` proves `InBuffer` and `Conserved` of `IOChannel`, for any length,
lines, chunk size, counts and number of threads, if the length is a number that
a `gsize` can hold (`IOChannelAssumption`). Reads of a channel that became
unreadable are part of both: what they return besides bytes of the channel is
`Junk`, which `OnceOnly` and `Contiguous` leave out and `NoJunk` denies of
readable channels. `InBuffer` is the invariant of
the loop of `read()`: the string holds what has been read and what may be read
next. `Conserved` follows from a partition of the bytes up to the position among
results, calls in progress and failures (`Places`); that pieces are contiguous
without hooks needs that then one call is in progress (`Solo`), whose bytes end
at the position (`Pieces`).

`GioNotifyProofs` proves `ExactlyOwned` and `UsableByGIO` of `GioNotify`, for any
notifies, objects and arguments and for each of the 67 wrappers:
`WrappersAreForms` shows that they have one of 13 forms, and `WrapperFacts` what
such a form checks. `Notified` says of a notify in each phase what it references and
which of its callbacks were checked; that what GIO calls is alive follows from
that and from the count of references being exact (`Exact`).

`GlibProofs` proves `GroupCallable` and `GroupKept` of `OptionGroups`, for any
groups and any finite set of contexts. `GroupKept` says that one owner frees a
group and that whoever needs its wrapper (`Needs`) has a reference to it, not that
there are no others: `add_group` counts one too many (section 6). The invariant is
one predicate per group (`GroupOK`) and one on the contexts (`ContextsOK`). That a
context finds its wrapper alive follows from a lower bound on the wrapper's
references, of which one belongs to the context as long as the group is in it;
and the bound needs the number of contexts whose `main_group` the wrapper is (`MainsChange` says how
a step changes this) and that a main group is always in a context.

`TypesProofs` proves `Hierarchy` and `Complete` of `Registration`, and `OwnObject`
and `InitOnce` of `Construction`, in which registration goes on (`IInv` is
`RegInv /\ ConInv`), for any classes, GTypes and interfaces, any declarations and
any objects and threads. `Hierarchy` relates two orders, the bases of classes and
the parents of GTypes. It rests on `BelowOK`: the GType of a class is below what
the lookup of `__gtype__` finds from its first base on, a lookup that changes as
bases are registered or given other classes, so that most of the proof is about
the lookup (`FoundIn`, `FindsBase`, `LookupKept`, `StatementStep`). `Complete`
needs what a registration has done by each of its phases (`Halfway`), and that no
other registration undoes it. `OwnObject` needs a description of every
construction on the stack of a thread (`FrameOK`): its wrapper has its object or
waits for it in the thread-specific variable, and at most one does (`Unique`,
`WaitingOK`). An object that was made for a wrapper in `early` has to be excepted
altogether, because of a case that takes three objects, one more than `types` has
(section 6).

The second part of `GObjectProofs` proves `BoxedOwned` and `Faithful` of `Values`,
for any arguments, limits and numbers, any boxed values and any widths of int and
long of which the first is not the greater. That a boxed value is freed once
follows from who owns it: a value of the call (`ValuesOK`), exactly one wrapper
(`OwnersOK`), or nobody that may free it; and a wrapper that only borrows is
told from one that owns by who made it (`WrappersOK`). Which of the values are
converted when an argument fails (`FullTo`, in `CallOK`) decides what a function
may unset. For `Faithful` the sign bits are parameters rather than the numbers of
bits, since the provers know remainders but not powers: `Remainder` and `Widths`
say what cutting off does, `Stores` and `StoresInt` what each kind's conversion makes of a number, `GivesBack`
that Python can give back what it got, `DeclaresSame` that the limit of a property
is what a value of it would be, and `NumbersOK` carries that through the steps of
a call.

The assumptions on constants are those named in the modules: sets that are
counted (threads, wrappers, contexts) are finite (`ConstantsAssumption`,
`MainLoopAssumption`, `OptionGroupsAssumption`), a null value is none of the
values it stands beside, names of different kinds of types differ
(`RegistrationAssumption`), bounds and widths are natural numbers
(`GilAssumption`, `SourcesAssumption`, `ClosuresAssumption`,
`IOChannelAssumption`) and what Python passes as an int is a long of C
(`ValuesAssumption`).

Model-checked only are the nine liveness properties (`Reclaimed`, `Freed` of
`WeakRef` and of `Sources`, `Released` of `Closures` and of `GioNotify`, `Served`,
`SignalSeen`, `InterruptEnds`, `QuitEndsAlone`): they rest on fairness, and so on
`ENABLED`, which the provers do not handle. Everything else that the passing runs
check, action properties and the refinement included, is proved.

## 5. The findings with a run

* `pygobject_weakref` (`gobject/pygobject.c:1012`): a dying wrapper is still
  registered while the callbacks of its weak references run. Python code that
  asks for the wrapper of the GObject then, a callback or another thread, gets a
  reference to memory that is freed when the callbacks return.
* `pygobject_overlap` (`gobject/pygobject.c:946`): between the test for a wrapper
  and the registration of a new one Python code may run (the creation of a class,
  with its metaclass, or a collection). A GObject gets two wrappers.
* `weakref_unlocked` (`gobject/pygobject.c:2120`): the notification of a weak
  reference works on `self` before it has the GIL, so that another thread can
  free it.

## 6. Divergences seen without a run

Threads, signals and the collector:

* `pygobject_unwatch_closure` runs in the thread that drops the last use of a
  closure and changes the list of closures without the GIL
  (`gobject/pygobject.c:968-974`): a closure that is being connected can be lost
  from it, and the collector then does not enumerate its references, which the
  comment at `gobject/pygobject.c:981-983` promises; nor does
  `pygobject_data_free` find it, so that a closure that is watched but not
  connected keeps its references when the GObject has gone. `CallbacksKept`
  states both for programs without such threads (`natives`).
* The collector's `tp_clear` of a wrapper without instance state invalidates no
  closure (`gobject/pygobject.c:1082`), though the comment at
  `gobject/pygobject.c:984-986` says that it does of every wrapper: handlers of a
  GObject that native code keeps stay connected, and their methods have a
  wrapper without GObject (`outlived`).
* `threads_init()` inside a bracket lets the bracket end what it did not begin:
  `glib/pyglib.c:107` and `:118`, `glib/pyglib.h:60` and `:64` test the flag
  separately. `Disciplined` excludes this.
* All loops share one pipe with a blocking end (`glib/pygmainloop.c:162`), so
  that a loop may wait in a read for a byte that another has taken;
  `docs/reference/pyglib-mainloop.xml:177` says that `quit()` stops the loop.
  `QuitEndsAlone` is about one loop.
* A callback that fails prints its exception in place of the one that a signal
  handler has set in the same iteration, which `run()` then does not raise
  (`glib/pyglib.c:565`). `InterruptEnds` is about the others (`"printed"`).
* A thread other than the main one that iterates the context takes the byte
  from the pipe, and its `PyErr_CheckSignals()` does nothing: the main thread
  sleeps on (`glib/pygmainloop.c:161`).
* `run()` after `quit()` runs again (`glib/pygmainloop.c:325`), which
  `docs/reference/pyglib-mainloop.xml:178-180` denies.
* `handler_block_by_func` and its relatives stop at the first closure
  (`gobject/pygobject.c:1970`), though `docs/reference/pygobject.xml:826` speaks
  of all handlers.
* The constructor of a weak reference without a callback does not set
  `have_floating_ref` (`gobject/pygobject.c:2196`).
* For an initially unowned type without a sink function, wrapping an object
  that no longer floats adds a reference that nobody drops
  (`gobject/pygobject.c:149-153`).

Event sources:

* `self->source` is reset after `g_source_destroy` has dropped callback data
  (`glib/pygsource.c:125-126`), so that a `destroy()` made by Python code that runs
  then, or by a thread that gets the GIL, is not refused and drops the reference
  of `attach()` again (`misused`).
* `destroy()` of a source sets `self->source` to NULL without an unref
  (`glib/pygsource.c:128`): the GSource is never finalized, and what
  `set_callback()` gave it after its end, or without `attach()`, is never
  released (`Released` excepts it).
* A source that is dropped without `destroy()` is finalized in
  `pyg_source_dealloc`, which calls the `finalize` method of an object without
  references (`glib/pygsource.c:518`), and leaves the exception set if there is
  no such method.
* A thread that destroys a `glib.Source` while another iterates its context can
  free it between GLib's choice to call it and the call, since the call holds
  no reference to the object (`glib/pygsource.c:410`). `CallsLive` excepts
  programs that do so (`remote`).
* `child_watch_dnotify` and `pyg_iowatch_data_free` drop Python references without
  the GIL (`glib/glibmodule.c:354`, `glib/pygiochannel.c:384`), though they run
  after every dispatch that ends a watch.
* A polled `PollFD` is not kept alive by its source (`glib/pygsource.c:213`).

GIO:

* `query_info_async()` of the three file streams has no `goto error` after the
  parse (`gio/gfileinputstream.override:40`): a callback that cannot be called
  is accepted, and the operation starts although an exception is set. The
  part `OnlyCallables` of `UsableByGIO` excepts these.
* `gio.Drive.eject` (`gio/gdrive.override:76`) and `gio.Volume.mount`
  (`gio/gvolume.override:61`) return without freeing their notify.
* Seven `gio.File` wrappers parse `flags` into the converted variable, and check
  one that is always NULL (`Unconverted` in `GioWrappers`).

Types and construction:

* `type_register()` of a class whose registration has failed halfway returns
  success (`AlreadyRegistered`, state `retried`). So does that of a class with an
  interface before its GObject base, which is never registered and cannot be
  constructed.
* A class registered before its base is skipped by the base's GType: `Hierarchy`
  speaks of ancestors, not parents.
* Native code that makes an object of a Python class in the `instance_init` of a
  type in C takes the wrapper under construction, whose own object gets none
  until the constructor returns (`early`). If a property of that other object is
  set by Python code that constructs a third one, the thread-specific variable is
  cleared: the first object is then initialised as if it came from native code,
  with a new wrapper, and its constructor gives it to its own as well
  (`gobject/gobjectmodule.c:2258`). `OwnObject` excepts objects made for a wrapper
  to which this has happened.
* `pyg_type_register` frees the new type's name and then prints it in the error
  message; a failure before the interfaces leaks `parent_interfaces`.

Options:

* `add_group` takes a reference besides the one of
  `pyglib_option_group_transfer_group` (`glib/pygoptioncontext.c:267`), which nobody
  drops; the comment at `glib/pyglib.c:453-456` says that the wrapper "would never
  be freed" with two. `GroupKept` does not deny such references.
* `set_main_group` forgets the main group that it replaces, and so the reference
  to its wrapper (`glib/pygoptioncontext.c:222`).
* `arg_func` takes any exception but a `GError` for success, also a `GError`
  whose attributes have wrong types.

IO channels:

* GLib refuses to read from a channel that is closed or was opened for writing,
  but sets no `GError`. `read()` then adds a `single_read` that nobody has set, and
  returns a string of that length (`glib/pygiochannel.c:215-224`): bytes that the
  channel never gave (`Junk`), or an error if the length is not possible.
  `readline()` returns an empty string, `readlines()` a list of one, and an
  iteration over such a channel never ends. `NoJunk` is about channels that are
  not closed.
* `writelines()` uses the NULL that ends the iteration and, with hooks, unblocks
  threads twice (`glib/pygiochannel.c:290`): every call that gets to the end of
  its lines crashes. `readlines()` uses a null pointer when the first line
  fails, and leaks what it has read when another one does.

Values:

* Ints, enums and flags are cut off to their width without an error, and so is a
  uint given as a long (`Narrow` in `Faithful`). A float given for an int, a long or
  an int64 loses its fraction silently (`gobject/pygtype.c:762`), one given for a
  uint64 is refused. Limits and defaults of unsigned
  properties lose the bits that do not fit.
* A uchar takes an int as a number, but a long as the first character of its
  text (`gobject/pygtype.c:744-757`).
* `emit()` and `chain()` unset values that the failing conversion has unset
  (`gobject/pygobject.c:1738`); `pyg_object_new` and its relatives do not unset
  a value of a GValue's type that could not be converted.
* Boxed values are lent to handlers, and to accumulators, whose wrapper for the
  value so far dangles once it is replaced; only `do_` methods get a copy of
  what they keep.
* The libffi marshaller passes a null address for enums, flags and ParamSpecs, and
  does not keep an enum, flags or object that a handler in C returns.
* An enum made by `pyg_enum_from_gtype` for a number without a name has a
  reference too many; flags have not. Flags with a top bit are a negative int,
  which is not found among their values. `pyg_flags_new` needs as many names as
  there are different numbers; `pyg_enum_new` does not.
* `pyg_object_set_property` drops a NULL reference when the value cannot be
  converted. `get_properties` puts a NULL for a property that it cannot get into
  its tuple, and leaks it.
* An emission hook whose arguments cannot be converted is removed, and leaks them.
* `__members__` of a ParamSpec lists `cset_firth`.

## 7. Not modelled, and the plan

Not modelled, for good: documentation, build files, examples, the text that the
code generator prints, spawn and the GIO functions that return at once (single
calls without state of their own), the getters and comparisons of every class,
and the Python code of `gobject.property`, which keeps no state but the object's.

Left out of modelled parts: the cycle collector on sources; PollFDs and
priorities; pointers, objects and ParamSpecs as values;
booleans and floating-point values, the fractions of floats, and objects that are
no numbers but have an `__int__`; custom type hooks,
inherited slots and documentation strings of classes; comparisons in the search
for a callable, which may run Python code; flags, encodings and seeking of
channels; reference counts changed by two threads in one processor step, which
is how a destroy notification without the GIL goes wrong.

Next, in this order:

1. The composition of `Construction` with `PyGObject`, whose `Construct` it
   refines.
2. The synchronous GIO wrappers as a table like `GioWrappers`.
3. The code generator's ordering of definitions as checked operators.
