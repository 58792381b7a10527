# TLA+ models of the TWIN library

TWIN (the Willows library) lets programs written for Windows 3.1 and Win32 run on
Unix. Programs are linked with it or run in its CPU emulator. It keeps windows,
drawing objects, tasks and modules behind handles, schedules the programs as
cooperative tasks, and moves messages between their windows. This directory holds
TLA+ models of the parts of it that keep state other parts rely on, the runs that
model-check them and the proofs of what matters most about them.

## The system

Paths are below `src/`.

| Part | State it keeps | Operations | Uses, and is used by |
|---|---|---|---|
| Handle-object engine, `windows/ObjEngine.c` | blocks of tags, a free list through them, a head with reference count and flags per object | `HM_GETHND` ... `HM_SETFLAGS`, behind the macros of `include/ObjEngine.h` | everything that has a handle |
| Tasks and scheduler, `windows/KrnTask.c` | the task list, the current task, the flags `TASK_READY` and `TASK_DELETE_PENDING`, one C stack per task | `CreateTask`, `Yield`, `DirectedYield`, `DeleteTask` | message queues (what makes a task ready), threads of `osdll/` |
| Messages between tasks, `windows/Messages.c` | a stack of `ITSMINFO` records that live on the senders' C stacks; `bInSendMessage` | `SendMessage`, `ReplyMessage`, `TWIN_ReceiveMessage`, `GetMessage` | the scheduler, window procedures (call-backs) |
| Message queues, `windows/Kernel.c` | a block of nodes per task and one for input, each with a queue and a free list | `QueueAddMsg`, `QueueGetMsg`, `TWIN_FlushWindowMessages` | `PostMessage`, the driver, `GetMessage`, `DestroyWindow` |
| Input events, `windows/Events.c` | none of its own | `TWIN_ForwardButtonEvent` asks windows where a mouse message goes | called inside a search of the system queue; calls window procedures |
| Timers, `windows/SysMisc.c` | 48 slots with their countdown, a high-water mark, an offset | `SetTimer`, `KillTimer`, `TWIN_GetTimerMsg`, `TWIN_GetTimeout` | driver wait, `GetMessage`, the queue flag `QFTIMER` |
| Event wait, `graphics/x11drv/XEvents.c` | the time of the last event that had one | `DriverWaitEvent`: reads an event, sleeps, tells the timers how much time has passed | called by `GetMessage` and by every yield; calls `TWIN_GetTimeout` |
| Atoms, `windows/KrnAtoms.c` | tables of names with reference counts | `AddAtom`, `DeleteAtom`, `LockAtom`, `FindAtom` | classes, DDE, properties |
| Windows, `windows/WindowCreate.c`, `WindowPos.c`, `Classes.c` | the tree of windows, their order and groups, classes, properties, the active window, focus and capture | `CreateWindowEx`, `DestroyWindow`, `SetParent`, `SetWindowPos`, `SetFocus`, ... | object engine, queues, window procedures |
| Modules, `windows/Module.c`, `LoadLibrary.c`, `LoadModule.c`, `LoadDLL.c`, `win32/LoadPE.c` | a list and an index of modules, reference counts, what each module's imports are bound to | `LoadLibrary`, `LoadModule`, `FreeLibrary` | object engine, atoms, message boxes, initialisation code of libraries, tasks of programs |
| Hooks, clipboard, caret, `windows/Hook.c`, `Clipboard.c`, `Caret.c` | lists and single global records | install, call, remove; open, set, get | message loop, timers |
| Heaps, `memory/heap.c`, `if1632/LocalMem.c` | sub-heaps with blocks and free lists, lock counts | `HeapAlloc`, `HeapReAlloc`, `HeapFree`, lock | all |
| GDI, `graphics/`, `windows/*DC.c` | device contexts, selected objects | drawing | object engine, X11 driver |
| Controls, dialogs, menus, `controls/`, `windows/Dialog.c`, ... | private state of window classes | window procedures | messages |
| Binary interface, emulator, DOS, debugger, DLLs, tools, programs | | | not part of the library's own core |

`PROJECT.json` lists the same parts with what is modelled of each.

### What is hard in it

There is no pre-emption, and yet nearly everything interleaves. A call that looks
atomic (`SendMessage`, `GetMessage`, a search of a queue) may run window procedures
and other tasks before it returns, and these may send, yield, destroy windows, take
messages or end. State read before such a call is used after it: a node of a queue
(`Kernel.c:511-525`), the top of the stack of sends (`Messages.c:604-617`), a task
about to be freed (`KrnTask.c:403-427`). Reference counts defer what `FREE...` asks
for to the last `RELEASE...`, which another caller makes with another macro. Tables
and queues have small fixed sizes. `PROJECT.json` lists these hazards one by one.

What makes each part correct, in a sentence:

- *Objects*: no slot is lost or given out twice; a pointer that is held stays good;
  what was freed goes when the last pointer does.
- *Scheduler*: a task with something to do runs again; a task that was freed does not.
- *Sends*: each is handled at most once, gets its own answer, and returns.
- *Queues*: nodes are neither lost nor doubled, messages for a window keep their
  order, and only messages of windows that went are dropped.
- *Timers*: a timer that ran out is reported, and to its own task; the driver never
  sleeps past the next one.
- *Atoms*: a name has one atom as long as somebody uses it.
- *Windows*: the lists of siblings stay whole whatever window procedures do in the
  middle of a call; every window is told once of its end and outlives neither its
  parent nor its owner.
- *Modules*: the table leads only to modules that exist, each file is in it once, and nothing that
  somebody uses is unloaded.
- *Heap*: no block is lost, none is given away twice, what is used is committed.

## The modules

| Module | Models | Kind |
|---|---|---|
| `ObjStore` | what the handle-object engine promises | abstract specification |
| `ObjEngine` | `windows/ObjEngine.c`, one action per `HM_` function | detailed; implements `ObjStore` |
| `ObjEngineProofs` | | theorems about `ObjEngine` |
| `Tasks` | `windows/KrnTask.c` and the sends of `windows/Messages.c` | detailed, with fairness |
| `TasksProofs` | | theorems about `Tasks` |
| `MsgFifo` | what message queues promise | abstract specification |
| `MsgQueue` | the queues of `windows/Kernel.c` and who posts, takes and flushes | detailed; implements `MsgFifo` |
| `MsgQueueProofs` | | theorems about `MsgQueue` |
| `Timers` | `windows/SysMisc.c`, the loop of `TWIN_DriverMessage` and `DriverWaitEvent` of the X11 driver | detailed, with fairness |
| `TimersProofs` | | theorems about `Timers` |
| `ZOrder` | what the tree of windows promises about order | abstract specification |
| `Windows` | `windows/WindowCreate.c` and the lists, the activation and the focus of `windows/WindowPos.c`, with every message they send but `WM_ACTIVATEAPP` | detailed; implements `ZOrder` |
| `WindowsProofs` | | theorems about `Windows` |
| `AtomStore` | what an atom table promises | abstract specification |
| `AtomTable` | the functions of `windows/KrnAtoms.c` as operators on a table | operators |
| `Atoms` | a table and its clients | detailed; implements `AtomStore` |
| `AtomsProofs` | | theorems about `Atoms` |
| `HeapPool` | what a heap promises to a program | abstract specification |
| `Heap` | `memory/heap.c` | detailed; implements `HeapPool` |
| `HeapProofs` | | theorems about `Heap` |
| `Loader` | the table of modules and the loader, with loads that wait for others | detailed |
| `LoaderProofs` | | theorems about `Loader` |
| `MC...` | | constants for TLC |

### ObjEngine

`allocated`, `FreeHead`, `FreeTail`, `FreePoolSize` and `info` (the field
`lpObjInfo`, which is a link in a free tag and a pointer to the object in a used one)
are the engine's own; `wObjSignature`, `wRefCount` and `wFlags` are the object's head.
`held` and `owned` are not in the code. They record what its callers have yet to do:
release what they got, free what they created. `UnlockHnd` and `Free` are guarded by
them, because that is the contract of the macros; the other actions take handles of
all sorts. `Free` of a held object only marks it, and `UnlockHnd` performs the free.
`UnlockHnd` takes any signature, since the engine does not look at it before the count goes
down, and `MDI.c` does release menus as GDI objects. `stranded` has the objects whose last release was such a
one after their owner had given them up: the free it was to perform is refused, and `ObjStore` says the same of
the user who names what it drops wrong.
A full table (`TableOverflow`) deletes the task that asked, by `GetHandleErr(1)` and `FatalAppExit`, and ends
the process only if no other task is left. The next request passes the test for a full table and writes
beyond the array of blocks (`TableOverrun`), where the model stops.

### Tasks

A task's C stack is the sequence `frames[t]`: where it waits inside
`InternalDirectedYield`, `SendMessage`, `TWIN_ReceiveMessage`, `GetMessage` or
`DeleteTask`. Only the innermost frame of the current task can move. The address of
an `ITSMINFO` is the place of its frame, so that a later send reuses it like a real
stack does. What a program may do is a matter of three constants, its habits:
whether a window procedure that handles a sent message may yield, reply early, or
call `FatalAppExit`. `ScheduleTask` is the search as the code makes it, with the
tasks it frees on its way. Queues are counters here, also those of tasks that are about to end. Where
`lpSendMessageStack` leads to the frame of a `SendMessage` that has returned, what the next yield reads
is not specified, and the model ends (`halted = "stack lost"`).

A reply gives control to the sender at once (`DirectedYield`), so replies, handlers
and ends of tasks interleave freely in the runs.

### MsgQueue

A queue is its nodes with their links, exactly as `AllocQueue` lays them out. A
`GetMessage` or `PeekMessage` is a record in `scans` that walks the task's queue and
then the system's, node by node; the walk is atomic but for `TWIN_ForwardButtonEvent`,
where it is in state `"Forward"` until `ForwardReturns`: meanwhile programs post,
destroy and disable windows, and, where `NestedGets` is true, take messages. `Below` has the child windows of each
window, which a search for its messages takes as well (`IsChild`). `Settle` is the rest of the
loop, with the search for the node before. A search that would follow a null pointer
sets `crashed`.

### Timers

`SyncTimers`, `nMaxTimer` and `nOffset` are the table, the mark of its last slot in use
and the rotating start of the search. `QFTIMER` has the tasks whose queue has that flag.
`request` is what each task asks of `TWIN_DriverMessage`, and `driver` is the position in
`DriverWaitEvent` with its local variables: `timer` (what `TWIN_GetTimeout` answered),
`timing` (`timestart` is not 0), and, in `select`, the time left to sleep. Who calls the
driver (the loop itself or `ScheduleTask` below a yield) is `driver.call`, because the code
that follows the call differs. `got` is the message that the last step returned, and
nothing else reads it.

Only `Tick` makes time pass, in units of which `Second` are a second. The program's
clock is the time of the last X event that has one, so the model keeps only
differences: `lag` since that event, `since` in each event that is queued. They saturate
at the longest timer, since an elapsed time beyond it has no other effect.

Messages of queues are the counter `input`; an X event posts one, or nothing. All the
rest of the loop (which queue, which window, painting) is in `MsgQueue` or is left out.
Tasks end and are freed by the next search of the scheduler; their timers stay, as in
the code. The scheduler's list is not ordered here; which ready task it finds is a free
choice.

### Windows

`win` has the links of each window (`WININFO`): parent, owner, next sibling, first and
last child, group. `obj` is what the object engine promises about its handle: live, marked
by `FREEHND` while somebody holds a pointer, gone.

Nearly every call sends messages on its way, and a window procedure may make
calls of its own. So a call is not one action. `stack` is the C stack: a frame for each
library function under way, whose `at` says after which of its messages it waits and
whose `next` is the one local variable that survives the message (the next sibling, the window
that had the focus), and a frame `Proc` for each window procedure. A step does what the
code does between two messages and pushes a `Proc` frame for the next one, if its window
handles that message (`Handled`). What is not handled goes to `DefWindowProc`, which answers it without a change
to what is modelled, but for `WM_ACTIVATE`: it gives the focus to the window (`SendActivate`), and that may
activate and tell others. `ProcReturn`
pops it. A procedure makes at most one call, and `MaxNest` bounds how deep procedures
call.

The list operations (`RemoveFromList`, `InsertAsLastSibling`, `Reparented`, `ChangeZOrder`)
are functions from one `win` to the next, with the loops of the code as walks
of bounded length. Where the code would follow a null pointer or run around a ring for
ever, the operation is not `Can...` and the step is `Crash`.

Programs are `Polite`. A program that destroys a window again while it is
being destroyed, or destroys the family of a window that is just being created or
activated, breaks the lists at once; TWIN does nothing to prevent it, and neither did the system it
imitates. `Polite` says what is excluded:

- no call destroys a window that was told of its end, that goes with another one (`Doomed`: the family of a
  window that is being freed, was freed while somebody holds it, or whose owned windows are being destroyed),
  whose family a call is at work on or has noted as a place in the order (`Places`), or to whose family
  another, top-level window belongs whose procedure is running;
- none gives the focus, children or another place to a window that is being destroyed, or that
  `CreateWindowEx` has not put into the tree yet (`Entering`);
- `SetParent` moves only windows that are not active, not owned and not owners, and not into their own
  descendants; `SetWindowPos` names a sibling.

Overlapped windows have no owner, popups a top-level owner, child windows a parent. What a window procedure does
between these rules is free, and the theorems need no other. Without these rules the code follows links to windows that
went (see Findings).

### Atoms

`AtomTable` translates `FindAtomEx`, `AddAtomEx`, `DeleteAtomEx`, `LockAtomEx` and
`GetAtomNameEx`. A string is its size and its hash, and stands for all that differ from
it in case only. `AtomData` says which string begins at an offset, so that texts that run
into each other would show (`StringsApart`). `Atoms` is one such table and its clients;
`held` is not in the code: it counts what clients were given and have not given back, and a client
deletes only what it holds.

### Heap

Addresses are counted in words of the model. `heap.sub` has the sub-heaps with what of
them is committed, `heap.arena` the header of each block (with the back pointer a free
block leaves in front of the next), `heap.freeList` the lists by size class, `heap.top` the end
of the address space used so far. Each of `HeapAlloc`, `HeapFree` and the three ways
of `HeapReAlloc` is one action, also for blocks whose growing has failed; their parts (`CreateFreeBlock`, `MakeInUseBlockFree`,
`ShrinkBlock`, `FindFreeBlock`, commit and decommit) are operators with the code's names.
`granted` is what the program holds, and `failed` has the blocks that a `HeapReAlloc` enlarged but
could not commit, with the size they had; a block is in it until it ends in committed memory again. A call that
writes an arena or copies a block that is not committed ends the process (`faulted`).

### Loader

`lpModuleTable`, `bModIndex` and `lpModuleHead` are the index by number, the last number given out
(a byte, here below `MaxIndex`) and the list, newest first. `info` has the `MODULEINFO`s by handle; a
`Blank` one is a free handle. `TWIN_LoadFile` is a C function that waits in the middle: for the
`TWIN_LoadFile` of each import, for the user at a message box, for initialisation code (or for a program
it started to yield). Each call under way is a frame in `stack`, and its `at` says where it
waits; a step is what the code does from one wait to the next. `Return` is what the caller does with
the answer: a 16-bit file notes the handle and goes on, a PE file needs the instance at once, a
program counts it in `holds` (which is not in the code: it says what programs have yet to free).
`Kind` says what is behind the name of a file, and decides on the way through the loader.

While a box is shown or code of a library runs, that code and other tasks may load and free as well.
The module of a load that waits can then be found, counted and
freed by others before the load goes on, which holds a pointer to it (`Loading`, `Released`).
`nested` is a history: it says that this has happened, and three properties hold only until it has.
`halted` stands for a step that follows what is no pointer (the handle of an import that is
gone, or the error number that a file cut short leaves in place of a handle), or for a second
`FreeModuleInstance` of one module, which frees its name again: that ends the process or goes unnoticed, a free choice.

## The runs

| Run | Instance | Shows |
|---|---|---|
| `obj_engine` | 2 blocks of 2 tags, objects of 2 kinds, released under any signature, references up to 2 | table, counts and flags are right, and implement `ObjStore` |
| `tasks_replies` | 3 tasks, 3 sends, handlers that send, yield and exit | right replies; the chain of sends is exact |
| `tasks_habits` | 2 tasks, 5 sends, handlers that yield and reply early | types; no message is handled twice, though sends are lost and their addresses used again |
| `tasks_liveness` | 3 tasks, 2 sends, handlers that do neither | sends return, nobody starves |
| `tasks_exit` | 2 tasks, handlers that yield and exit | `DeleteTask` returns to a freed task (violation) |
| `msg_queue` | 2 tasks with 2 nodes each, 3 for input, 3 messages, a window and its child | lists, order, drops; implements `MsgFifo` |
| `timers` | 2 tasks, 1 window, 2 slots, timers of 2 units, 1 event | the mark covers the table; what expired stays announced, also while tasks end |
| `timers_live` | 1 task, 1 window, 2 slots, timers of 3 units, 2 to the second, 2 events, fairness | the driver sleeps until the next timer; every timer is reported |
| `windows` | 3 windows, procedures that create and destroy once, all five calls | links and groups whole; told once; nothing remains, focus included; parents there; implements `ZOrder` |
| `atoms` | 3 strings, 1 integer, 4 entries | texts apart, counts right, held atoms good; implements `AtomStore` |
| `loader` | 2 tasks, 8 files of all kinds with a cycle of imports, 5 handles, index of 4, 4 calls, also inside waits | the table is live; nothing is listed or loaded twice; numbers find modules; what is used stays loaded |
| `heap` | 160 words, blocks of 3, 20 and 30 words | blocks and lists right; what is committed, and when it is not; implements `HeapPool` |

### Bounds, and why they are enough

- `BlockSize`, `MaxTags`: two blocks of two tags have an empty, a one-element and a
  longer free list, a new block in front of an empty pool, and a full table. The
  proofs cover all other sizes.
- `MaxRefs` 2: a count that reaches zero late, from two holders. Two calls that would
  exceed it are not made.
- `MaxSends` 3: a send inside the handler of another, two senders to one task, and tasks
  that send to each other in a circle. Two are too few: with early replies the third send is
  what makes the first one fall out of the chain (see Findings). `tasks_liveness` has
  two, since liveness does not allow for symmetry. `tasks_habits` has five, of two tasks: with four a send that was
  lost can come back as the top of the stack and an address be used again while a handler for it runs, and the fifth is
  handled in that state. `MaxDepth` follows from it: a send adds two
  frames. The tasks other than the native one are symmetric.
- `MaxPosts`, `MaxInput` 1 or 0: the scheduler only asks whether there are messages.
- `MaxMsgs` 3 and queues of 2 and 3 nodes: a queue that is full, a node in the middle
  of three, and a free list reused. `Closing` has one window, and `Inputs` one mouse
  and one key message for it: the other window's messages are the bystanders. The window that closes is a child of
  the other one, so that a search for its parent's messages meets its own.
- `windows`: three windows are an owner with two popups, a parent with two children (a group), or a
  chain of three generations; `MaxNest` 1 lets a procedure at any point of a call
  create or destroy another window. Liveness is not checked: three windows already make 1.4 million states. The proofs
  cover more windows, deeper calls, and the calls and messages that the run leaves out.
- `atoms`: strings of 2, 3 and 5 bytes, two with one hash, so that free entries are too
  small, exact and too large; an atom has at most two holders.
- `heap`: `HeapHeader` 9, `Page` 8, `Granule` 16 and sub-heaps of 48 words: a sub-heap holds two large blocks or several
  small ones, two of its pages may be decommitted, and three sub-heaps fit into `Space`. Two size
  classes and the rest make three lists. Of the sizes requested one is small, one (20) leaves a new sub-heap
  too short (see Findings), and one takes most of a sub-heap.
- `loader`: two files that import each other are the least cycle, and a third one is imported by
  it; with four calls a module is loaded twice, freed, and loaded again, inside the wait of another load or not.
  The cycle takes three numbers, so that the index of four wraps with the next load or two. Handles, and
  tasks, are symmetric.
- `Timers`: two slots are the least for which order, rotation and the mark matter. The
  first event of two only sets the driver's clock; the second one takes time off the
  timers and so makes the waits of two of them differ (`timers_live`). One event is
  enough where tasks interleave (`timers`); the proofs cover the rest. `Second = 2` makes one and a
  half seconds an integer. `Requests` has `GetMessage`, and `PeekMessage` for a window
  with `PM_NOYIELD`, the two calls that differ most in what follows a search without
  result.

### Fairness

The library is one thread of control in a process: `WF_vars(Step)` says that it goes
on. It is used with `SF_vars(AppYield)`: a program that runs for ever yields now and
then, which a system without pre-emption demands of it. Nothing is assumed of
the driver, and nothing of the order in which tasks are chosen: that is the
scheduler's own work, and `RunsAgain` is about it. `SendsReturn` needs the
discipline of `tasks_liveness`. With handlers that yield, a send may be left waiting:
its receiver finds another send on top when the handler returns, and does not
reply (`Messages.c:613-622`); that is what the code does, and nothing in it
claims otherwise.

In `Timers`, `WF_vars(Library)` is the same single thread; `WF_vars(TimePasses)` is the
clock, which `select` follows; `SF_vars(GetsMessage)` says that the program takes
messages for all its windows and removes them, again and again, though it may yield,
peek, set and kill timers in between. X events are finitely many in a behaviour
(`MaxEvents`). This matters: each event that posts nothing moves the driver's clock
without taking time off the timers (`XEvents.c:180-182`), and a stream of them would
hold timers up for ever.

`RunsAgain` of `Tasks` takes the wait of the driver as one that ends when there is input;
`Timers` has the case in which it does not (see Findings).

## What is proved

`ObjEngineProofs` proves, for every block size, table size, set of signatures and set
of handle words that satisfy the assumptions of `ObjEngine`, whatever signatures objects are
released under:

- `TypeCorrect`, `PoolCorrect`, `NoDangling`: the three invariants that `obj_engine`
  checks;
- `FreedIsGone`, `MarkIsExact`: an object its owner freed goes with its last reference, unless that one was released
  under a signature the object does not have, and is marked exactly if its owner gave it up;
- `Implementation`: `Spec => Store!Spec`.

The argument is one inductive invariant, `IInv`. The invariants are not inductive one
by one: that taking the head of the free list keeps the list (`FreeChain`) needs that
a busy tag has an object and a free one a link, that `allocated` moves by whole blocks
below `MaxTags`, and that all tags beyond are free; that a free is postponed exactly
as long as needed (`NoZombie`) needs the count to equal the number of holders and the
mark to be exact. Lemmas state once what growing, taking from and returning to the
pool do to a chain of free tags; the step for each action then picks the chain before
and exhibits the one after. A release under a wrong signature leaves an object that nobody holds or owns, still
busy and marked; that is what `stranded` says of it, and all else holds of it as of any other.

`TimersProofs` proves, for any number of tasks, windows, slots and events and timers of
any length:

- `TypeCorrect`, `MarkCorrect`, `ExpiredCorrect`, `SleepCorrect`: `TypeOK` and the three safety
  invariants of `timers` and `timers_live`.

Its invariant is `TableOK` (what is needed of the types) with `DriverOK`, `MarkCovers`
and `ExpiredAnnounced`. `DriverOK` is the strengthening: as long as `DriverWaitEvent` is
between its first call of `TWIN_GetTimeout` and its return, its local `timer` is what
`TWIN_GetTimeout(0)` would still answer. That holds since nothing sets or counts down
timers meanwhile without ending the call, and `SleepsUntilNext` follows from it.
`ExpiredAnnounced` is not required before the first call of `TWIN_GetTimeout`
(`driver.at = "start"`): that is where a search that cleared the flag leaves the system.
`TypeOK` comes from `TypesInv`: the input of a task and the events not yet read are never more than the
events that arrived, which bounds both; a task that ended runs only inside its own `DeleteTask`, so
nothing of it is left when that is over; and the offset wraps at the mark, below the table's size.
The proofs need smallest and largest elements of sets of numbers (`Min`, `Max`), whose
existence takes an induction. Each module that needs them has its own `MinNat` and `MaxNat`, which get it from the
library's theorems that `<` is well-founded on numbers and strict inclusion on finite sets: their
statements have no operator parameter.

`AtomsProofs` proves, for any strings, sizes, hashes and numbers of entries and holders, under the
assumptions of `AtomTable` and `Atoms`:

- `TypeCorrect`, `StringsKeptApart`, `HoldersCounted`, `HeldAtomsStay`: the four
  invariants of `atoms`;
- `TableImplementsStore`: `Spec => Store!Spec`.

Its invariant is these with four more facts. `HeldCalled`: who holds an atom holds an entry of that
name. `OneAtom`: no two entries in use have one name, which needs that an addition looks for the
name before it takes a free entry. `IntegersStay`: the entry of an integer atom never becomes
free, so that no string is ever put where no room is. `Shape` says that a table has its
four fields and no others. Lemmas say what each of `Another`, `Refill` and `Extend` does to
the invariant, and what `FindAtomEx` finds before and after; the steps of the
refinement use them again.

`TasksProofs` proves, for any number of tasks, sends and messages, and for window procedures
that yield, send, start tasks and exit as they like but answer by returning (`~HandlersReply`):

- `ChainExact`: `SendsNest`, the chain of sends is exact;
- `RepliesRight`, `HandledAtMostOnce`: `RightReply` and `HandledOnce`.
- `TypeCorrect`: `TypeOK`, the task list's integrity included.

The argument is about the stacks. None of the three is inductive: that `SendReturn` takes
the top of the chain away, and nothing else, holds because an answered sender runs at once,
before anybody can send (`CompletedOK`); that its answer is its own holds because
a window procedure under way handles a send in progress that no other one handles
(`HandlesOK`), and that is so because `TWIN_ReceiveMessage` takes only what is on top and was
not taken (`InfosOK`); and an answered sender gets to its `SendMessage` without running
another window procedure first because whatever is above it on its stack handles a newer
send. Frames that a `DeleteTask` has on top never run again and are left out (`Alive`). The
steps fall into six kinds (nothing, a switch, a send, a message taken, an answer,
a return), each with one lemma; the lemmas of the actions only say which kind they are. The
premise cannot be dropped: with early replies three sends break the chain (see Findings). What the
scheduler finds matters only in that it is a task of the list. `ListInv` is about the list itself, which
`FreeTask` rebuilds without those it frees (`RestIs`): it stays without repetition because a task is
started only if it is in no list and not about to end, and the current task, as anyone with a call
under way, is in the list or was told to end (`Known`), so the scheduler and a reply switch to nobody
else. It needs `IInv` for one thing: who is answered has a `SendMessage` on its stack. With early replies four sends
lead `lpSendMessageStack` to a frame that is no more (see Findings); that no message is handled twice until then is checked by
`tasks_habits` only.

`LoaderProofs` proves, for any files, imports, kinds, tasks and handles, any size of the index, and calls
inside waits or not:

- `TableAlwaysLive`, `ListedOncePerFile`: the table leads only to modules that exist, and no file is in it twice.

The invariant `IInv` adds what the loads in progress are like: each has a module of its own (`FramesApart`)
and that exists (`FramesLive`), though it may have been taken out of the table. That nothing listed goes
needs both: a load gives back an object only if it is on top of its stack, nobody else's and not
listed. A module keeps its name and its number as long as it is listed (`Like`), so three lemmas
about the table are enough (`TableStays`, `TableGrows`, `TableShrinks`), the last of which also covers a
module that is removed twice. `Returned` says once what all the ways in which a load
returns have in common.

As long as nothing is loaded or freed while a load waits (`nested`), more is proved:

- `IndexFindsModules`: `IndexFinds`;
- `LoadsNotTwice`: `LoadedOnceAtATime`, for files that import each other in any way;
- `HeldModulesStay`: what programs hold is listed and counted, the part of `UsersCounted` that is about
  programs.

`AloneInv` is the invariant for these, with `IInv`. Until then a load waits only for loads of its own imports
on its own stack (`BelowImport`), each frame's module is listed under the name of its file
(`FramesListed`), and numbers given out are below the last one until it wraps (`NumbersFind`). The other
part of `UsersCounted` is not true of all constants: a module of a cycle that lacks an import goes while another one is
bound to it. The run's files have no such cycle, and it stays with TLC.

`MsgQueueProofs` proves, for any number of tasks, windows, nodes and messages:

- `QueuesStayWhole`: `WellLinked`, whatever window procedures do inside a search;

and, if they do not take messages there (`~NestedGets`):

- `SearchesKeepTheirPlace`, `TakenInOrder`: `ScanAnchored` and `InOrder`;
- `QueuesAreFifo`: `Spec => ImplementsFifo`.

The queue and the free list are read off the links as sequences of nodes (`Used` and `Spare`).
`ChainIs` says once that what `Chain` reads is the only sequence the links lead through; after it each list operation
is a matter of sequences: `UnlinkLists` and `InsertLists` say that it cuts a node out of one and
puts it into the other, at which places. `LinkInv` needs nothing else and is inductive by itself.
The rest is not. That a search finds the node before its own (`ScanAnchored`) needs that nobody took its message out, which
holds because only the task's own queue is flushed, and a search asks about mouse messages in the
system's only (`OwnQueues`, `Asking`). That what it takes is the oldest of its kind needs that
numbers rise along a queue for each kind and window (`InTurn`), and that the search has met all that
comes before its spot and passed over it for a reason that still holds (`AtSpot`, `Passes`).
`HeldInv` and `ScanInv` are these; `HeldOnce` says that a message is in one place only. The steps fall into
four kinds (`StepKinds`: a message is sent, a window is destroyed, a search settles what
becomes of a message, or queues stay as they are), and the refinement maps each to one step of
`MsgFifo` or a stutter. The premise cannot be dropped: a window procedure that takes the message it is asked about leaves
the search at a node of the free list (see Findings).

`HeapProofs` proves, for any sizes of the header, pages, granules, default sub-heap, address space and requests,
and any free lists, under `SizeAssumption` (granules are whole pages, and the header of a heap and a free
block fit into one) and `SpaceAssumption` (the address space has a beginning):

- `AlwaysValid`, `NothingLost`, `HeldIsInUse`: `HeapValid`, `ListsComplete` and `InUseIsHeld`;
- `HeldIsCommitted`: `Committed`, arenas and what the program holds are committed, whatever was decommitted
  behind them: a block whose growing failed up to the size it had, any other up to the size it got; and a call touches
  other memory only after such a failure or when a new sub-heap is too short for the size asked for;
- `HeapIsAPool`: `Spec => ImplementsPool`.

The invariant `HeapInv` says that the heap is `Whole` and that what is in use is what the program holds
(`Covered`). `Whole` is stated without any walk: sub-heaps lie apart (`SubsApart`); every block ends
where another begins or its sub-heap ends, every block but the first of a sub-heap begins where
another ends, and no two overlap (`Filled`); a block knows of a free one before it exactly if
there is one, and no free one is followed by another (`Flagged`); and the free lists hold exactly the
free blocks (`Listed`). Allocating, freeing, shrinking and growing all do one thing to this: in a stretch
from the beginning of some block to the end of some block they replace the blocks by others that fill
the same stretch. `RebuiltFilled`, `RebuiltFlagged` and `RebuiltWhole` prove once that this keeps a heap whole;
what remains for each operation is which stretch (`OwnRegion`) and which blocks (`MadeFree`, `OpenedWhole`,
`ShrunkWhole`, `TakeWhole`). Between two calls inside an operation the heap is not always whole: a block that is
being freed is in no list yet, and one that was enlarged has swallowed a free one. Such a heap is described by
the stretch it leaves open, which the next call fills. `Kept` and `Follows` say which blocks an
operation leaves as large and as committed as they were: decommitting begins behind the header of
the free block that it is called for, so it takes no page of a block in use (`DecommitKept`, `ReleaseKept`). That a
new sub-heap has enough committed for the block cut from it is arithmetic on its rounding
(`GrownNumbers`, `GrownReady`). `Covered` tells blocks that could not be committed after
growing in place (`failed`) from others, which are committed to their ends: both keep what they held.

Where the size asked for, with the two headers, comes to a granule or up to three words less and the sub-heap is
larger, the header of the free block left in a new sub-heap lies partly beyond what was committed (`ShortCommit`): writing it
is a fault. So is resizing a block to what its failed growing made it reach, or copying it. `Committed` says that there is no
other, and `Standing`, the invariant, carries it through: each operation leaves what it does not touch as committed as it was, and
a block only leaves `failed` when its end is committed.

`WindowsProofs` proves, for any number of windows, any depth of nested calls, any messages handled and any
calls made from window procedures, if programs are polite and no `WM_NCCREATE` is refused (`Decent`):

- `Keeps`: the inductive invariant `WindowsInv`;
- `LinksAreLists`, `GroupsAreRings`: `WellLinked` and `GroupRings`;
- `NoneIsOrphaned`: `NoOrphans`;
- `LinksImplementOrder`: `Spec => ImplementsZOrder`.

`WindowsInv` says that nothing has crashed, that a window is marked only as long as somebody holds it, and that the tree
and the stack of calls are `Sound`: `Tree` and `Fits`.

`Tree` is about the links: the siblings of each window from `hWndChild` on are a sequence without repetition that holds
exactly the windows of the tree whose parent it is (`Lists`), groups are rings (`Groups`), a parent is the
root, in the tree or being freed, and parents and owners form a forest (`NoCycle`). That what `Children` reads
off the links is this sequence is shown once, and cutting a window out and putting one in are matters
of sequences after it (`CutChain`), for all five list routines.

`Fits` is about the stack, because nothing about the tree is inductive alone: a step of `FreeWindow` keeps
the lists only if the child it noted before the last message is still the first of those left, and a
`SetWindowPos` puts a window after one that was a sibling when it was called. `Good` says for each frame
what it relies on: the window it is about is in the tree, not in it yet, or being freed, depending on `fn` and `at`, and
what it noted in `next` is one of which windows. `Apart` is about two calls that are under way at once: what an inner
one destroys has in its family nothing that an outer one is at work on. `Sits` is about a call and the one right
below it. Politeness is what makes a new call `Apart` from those below it (`MayDestroyIs`, `MayUseIs`). Each
action has a lemma that says what it does to the tree and that the calls under way still fit; they rest on a
few facts on families (`FamilyIn`), which change only for the windows that an action moves.

No child window is the active one, nor becomes it (`TopInv`). That is needed because `DefWindowProc` gives the focus to the
window that was activated: a call of `SetFocus` that no program asked for starts in the middle of others, and it must not
raise a window that these are at work on in their parent's list.
`StepOrders` maps each step of `Windows` to one of `ZOrder` or a stutter: `WindowsInv` gives the
children before and after as sequences. Both hypotheses are needed: a refused `WM_NCCREATE` frees a window that
its parent's list still has, and impolite programs make the library follow null (see Findings).

Model-checked only, each for its reason:

- `ToldOnce` and `NothingRemains` of `Windows`, the focus included: true of the run, whose window procedures create and destroy, and
  not of all constants. A procedure that changes the order of children while `SendDestroyMessages` is at them
  makes it miss some or tell some twice; one that moves the window that `DestroyWindow` has noted as next
  makes the walk over the owned windows miss those it jumps over, and a popup left behind so may be active, be freed
  later without its owner, and get the focus from `DefWindowProc` while it is.
- `UsersCounted` of `Loader`: not true of all constants (above).
- Liveness and fairness, which are out of the prover's reach, and what a recursive function computes in general:
  where walks (`Chain`, `Flushed`, `Along`) are concerned, the proofs reason about a least place at which two solutions of the
  recursion differ, for which `MinNat` is enough.

## Findings

A comment of the code says what the code then does not do:

- `tasks_exit`: `DeleteTask` can return to a task that was already freed
  (`KrnTask.c:410-425`).

What follows came up while modelling. No run is about it; where it limits a property, the property's
comment or a premise says so. Of one item a comment of the code says otherwise, which is quoted there.

- *Tasks*. With early replies (`ReplyMessage` in a handler) and three sends one send can be lost from
  the stack: its sender goes on at once, a newer send is on top, and the first sender's
  `lpSendMessageStack = smse.lpPrev` drops it (`Messages.c:709`). The sender of the
  lost message spins for ever. With four sends the lost one can come back as the top of the stack, and
  after it the frame of a `SendMessage` that has returned; the model goes no further then. `SendsNest` holds without early replies only. With them,
  `bInSendMessage` may stay set with no send in progress, as it is saved on two stacks.
- *Tasks*. A handler that yields may find another send on top when it returns; it then does not reply, and its
  sender waits on (`Messages.c:613-622`).
- *ObjEngine*. Menus of `MDI.c` are locked with GDI macros; one destroyed while locked is
  never freed. With more than 8192 objects handles alias (`OM_MASK`). `AllocateMoreObjects` tests for a full table with
  `== 256` (`ObjEngine.c:216`), which the request after the one that failed passes.
- *MsgQueue*. A window procedure that takes messages while it is asked about the mouse can
  make the search for the previous node run off the list (`NestedGets`).
  `PostMessage(0, ...)` goes to the system queue, where any task may take it; the comment at `Messages.c:1032`
  says "hWnd == 0 my queue".
- *Timers*. `select` waits for whole seconds, but the time asked for counts as elapsed: a
  timer of 1500 ms goes off after 1000 ms. The scheduler's poll may read the event for
  which the task is about to wait; the task then sleeps until another event comes.
- *Windows*. A refused `WM_NCCREATE` frees the window but leaves it in its parent's list; a
  refused `WM_CREATE` makes `CreateWindowEx` return 0 for a window that stays. `SetParent` leaves the owner and the activation as they
  are. `SetWindowPos` does not check that `hWndInsertAfter` is a sibling; a handler of
  `WM_WINDOWPOSCHANGING` that destroys that window leaves it a handle that is no more. The
  focus or a place in the order given to a window that is still being created, and so in no list, makes the library follow null.
  Children reordered by a `WM_DESTROY` handler are missed by `SendDestroyMessages` or told twice; owned windows
  reordered during `DestroyWindow` stay behind, with an owner that went. Several tests for a
  window use the handle after it was looked up and always succeed.
- *Atoms*. A string whose hash is at most 255 and an integer atom of that number are taken for
  each other. An entry is never used again for a string of exactly its size (`>` where
  `>=` would do). The lock of an integer atom is never taken back.
- *Loader*. A program that is loaded a second time is found as a module (`LoadLibrary.c:279`): its instance is
  returned and nothing is started. `LoadNewInstance` (`LoadDLL.c:1695-1760`), which is to run it again, is never
  reached. A PE module is counted twice by its first load and so never unloaded. A 16-bit module that
  lacks an import leaves the others loaded, and in a cycle of imports one of them bound to a module that went. The
  handle of a file that ends too early is a negative number. After 256 loads with modules freed out of
  order, numbers are given out twice. If programs load while loads wait, a native library that is found
  again has its count set to 1, and a load that fails can clear another module's place in the index.
- *Heap*. `VirtualFree` is called with size 0 and releases nothing, so address space is used up. The
  block taken from a new sub-heap may leave a free block whose header is not
  committed (`heap.c:509`). A `HeapReAlloc` that fails leaves the block enlarged; the next one to that size succeeds
  without committing anything (`heap.c:1028`), and one that has to move the block copies what is not committed (`heap.c:1019`).

## Not modelled

- *ObjEngine*: `HM_DUMPTABLE`, `OE_DELETE` passed to `HM_SETFLAGS` (`ObjEngine.c:460-463`; no code passes it), callers that break the macros' contract (double frees), the
  memory behind an object, more than 8192 tags.
- *Tasks*: `ExitTask`, the loader's part in starting a task, instance data, broadcast and
  hooks. A message's number, by which `TWIN_ReceiveMessage` tells two sends at one
  address apart, is the same for all messages. `FreeTask` destroys the windows of the task that ended
  (`EnumTaskWindows`, `KrnTask.c:322`), which may send messages to windows of others in the middle of the scheduler's search; the
  model has no windows there, and frees a task in one step.
- *MsgQueue*: paint and timer messages, hooks, `SetMessageQueue`, records of converted messages. A search for
  `HWND_BROADCAST` (`Kernel.c:537`) is not reached: `TWIN_DriverMessage` replaces a handle that is no window by 0
  (`Messages.c:355-356`). `MessageBeep` in the branch that drops a message (`Kernel.c:564-567`) may load the sound library;
  that the queue stays as it is meanwhile is taken for granted. Where the
  pointer is, is a free choice. No run has `NestedGets`; `QueuesStayWhole` is proved with it, too.
- *Timers*: that `SetSystemTimer`'s timers are reported with another message number, a
  timeout of 0 (20 is taken), waits above `INT_MAX`, filters on message
  numbers, painting, `PostMessage` between tasks, calls of `GetMessage` made by window procedures
  inside the driver (`TWIN_InDriverWait`), signals that interrupt `select`, `CallMsgFilter` hooks.
  What X events do to windows is reduced to whether they post a message.
- *Windows*: impolite programs, sizes and painting, topmost windows, the icon and its title, menus, scroll bars, the frame
  window, DCs, cursor and palette, enabling, capture, classes (their use counts and
  `LockClass`), properties, windows of several tasks, `WM_ACTIVATEAPP` (`WindowPos.c:4200-4211`, `4236-4255`: sent when the
  active task changes, which with one task is once), dialogs (`GetDialogFocus`), `WFDEAD`,
  `ChangeZOrderMaximize`. Windows are created visible.
- *Atoms*: global atoms (`osdll/DrvIPC.c` keeps them in properties of the X server), the wrap of
  16-bit atoms.
- *Loader*: file formats, segments, relocation beyond the handles it follows, resources, `GetProcAddress`,
  the aliases of `TWIN.INI`, descriptors loaded at start-up (`TWIN_LoadMDT`), names inside files that
  differ from those of the files, `LoadNewInstance` (unreachable), the tasks of programs after their first
  yield, the `FreeTask` of a load that fails (`LoadDLL.c:1048`; for a library that is the current task, which
  `FreeTask` leaves alone, and a program's new task is not in the model), `FindPreviousInstance`, the return codes of initialisation code (ignored).
- *Heap*: heaps with sub-heaps of other than the default size, contents, flags and
  serialisation, `HeapDestroy` (which releases nothing), `HeapSize`, `HeapWalk`, `HeapCompact`, a `HeapCreate`
  whose memory cannot be committed; `virtual.c` only as the heap uses it: pages that were decommitted stay reserved (with other
  users of `VirtualAlloc` they may be taken, `virtual.c:512-523`), and a commit fails where `VirtualAlloc` finds no range for it
  (an `mmap` that fails ends the task, `virtual.c:412-415`). Local and global
  memory.
- Graphics, controls, the emulator, DOS, file formats, DLLs and tools: large, but sequential
  and without a protocol between parts. Most of the repository's lines are of this kind.

## Plan

Done: `ObjStore`/`ObjEngine` with proofs, `Tasks` with proofs, `MsgFifo`/`MsgQueue` with proofs, `Timers` with
proofs, `ZOrder`/`Windows` with proofs, `AtomStore`/`Atoms` with proofs, `HeapPool`/`Heap` with proofs, `Loader` with proofs.

Next, in this order:

1. Composition of `Tasks` with the queues of `MsgFifo` in place of its counters, with
   `FreeTask` and messages posted to a task that ends (`KrnTask.c:341`).
2. `Hooks`: the chains of `Hook.c` and their removal during a call.
3. `Classes` and window properties over `AtomTable`; their use counts with modules that are freed.
4. Windows of several tasks: `DestroyWindow` across tasks, over `Tasks`.

Theorems next: under which programs windows are told once and owned windows go first; liveness stays with TLC.
