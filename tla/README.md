# A verification project for self-propelled instrumentation (SPI)

SPI (`src/src`) is a C++ library, the *agent*, that is loaded into a process
and instruments its call sites while the process runs. Instrumentation spreads
by itself: the code that runs at an instrumented call (the *payload*)
instruments the function about to be called, and it crosses into other
processes through pipes, sockets, fork and exec. Beside it the repository has
SecSTAR (`user_agent/*/SecSTAR/html`), a page that plays back what an agent
recorded, with a decoder for the zip files that hold the figures. This directory
holds TLA+ modules that model both, the TLC configurations that check them, and
TLAPS proofs about them. All line numbers are those of the sources; the file
`PROJECT.json` maps each definition to the lines it stands for.

## The system

| Component | Sources (`src/src/...`) | State it keeps | Operations | Talks to |
|---|---|---|---|---|
| propel lock | `common/utils.cc` `Lock` `Unlock`, `agent/payload.h` `SP_LOCK` | one word, `g_propel_lock` | lock, unlock | all public interfaces of the agent |
| payload wrappers | `agent/payload.cc`, `agent/context.cc` | flag `inTramp`, a stack of handles per thread | `wrapper_entry`, `wrapper_exit`, `PushPointCallHandle`, `PopPointCallHandle` | called by patch areas; call user payloads, the IPC and thread managers |
| propagation | `agent/propeller.cc`, `agent/payload.cc` `Propel`, `agent/thread_mgr.cc` | `propagated()`, `user_commands_`, `IN_INSTRUMENTATION` | `go`, `Propel`, `SpThreadMgr::BeforeEntry`, the exit toggle | instrumenter, parser |
| instrumentation workers | `agent/inst_workers/*`, `agent/patchapi/instrumenter.cc`, `agent/snippet.cc` | `instrumented()`, `blob_`, `blob_size_`, `spring_blk_`, `is_spring_`, `inst_map_` | `run`, `save`, `install` of four workers, `OnTrap` | allocator; the code threads execute |
| patch area memory | `agent/patchapi/addr_space-x86_64.cc`, `object-x86_64.cc` | `mem_maps_`, `free_intervals_`, `small_freebufs_` | `UpdateMemoryMappings`, `UpdateFreeIntervals`, `GetClosestInterval`, `AllocateBuffer` | the kernel's mappings |
| code generation | `agent/snippet*.cc` | the bytes of a patch area | emission and relocation of instructions | workers |
| IPC manager and workers | `agent/ipc/**` | channels by descriptor, start flags by pid in shared memory | `BeforeEntry`, `BeforeExit`, `CreateChannel`, `CloseChannel`, `Inject`, `SetStartTracing` | wrappers; the injector; agents of other processes |
| injector | `injector/*` | a frame record in shared memory | attach, `addLibrary`, port to pids with 5 tries | ptrace; the agent it loads |
| parser and caches | `agent/parser.cc` | positive and negative caches of functions and callees | `Parse`, `FindFunction`, `callee`, `ParseDlExit` | Dyninst |
| agent start and events | `agent/agent.cc`, `agent/event.cc` | configuration, one event | `Go`, `SyncEvent`, `AsyncEvent`, `FuncEvent`, `CallEvent` | everything, once |
| trace viewer | `user_agent/mist_tool/SecSTAR/html/SecSTAR.js` | `cur_viz`, two `VizPkg`, the canvas and jQuery's queue on it, buttons, slider | `load`, `play`, `stop`, `first` ... `last`, `dedup`, `show_static`, `faster`, `slower` | zip reading, jQuery, the user |
| zip reading and inflate | `.../html/lib/{inflate,zip,zip-fs}.js` | bit buffer, window, mode of the decoder; chunks under way | `inflate_blocks`, `inflate_codes`, `inflate_fast`, `append`, `launchWorkerProcess` | a worker, the reader and the writer of the page |
| deflate, mime types | `.../html/lib/{deflate,mime-types}.js` | | never called by the viewer | |
| Dyninst glue, utilities, 32-bit variants, samples, tests | `agent/patchapi/{maker,point,cfg,object}*`, `common/*`, `user_agent`, `sample_programs`, `test` | | | |

How they interact. A thread runs into an instrumented call, jumps to the patch
area, which saves registers and calls `wrapper_entry`. Behind the guard
`inTramp` the wrapper asks for the callee (under the propel lock), tells the
IPC and thread managers, runs the payload, and pushes a handle on the thread's
shadow stack. A payload that calls `Propel` takes the lock, has
`SpPropeller::go` find the call blocks of the callee, and the instrumenter tries
the workers on each. A worker gets a buffer, builds the patch area in it, and
overwrites code which other threads may be executing. After the call
`wrapper_exit` pops the handle and runs the exit payload. When the call is a
`write` the IPC manager, before it goes on, looks up who else has the pipe open,
attaches to that process, loads the agent there and sets its start flag; the
agent at the other end looks at the flag when its `read` returns.

The viewer is a page: one thread of callbacks. Its texts and figures come from
zip files, entry by entry, each decoded in a worker to which the page sends one
chunk after another.

What is hard. Nothing stops the other threads: the guard, the lock, the shadow
stack and the code itself are shared while they change. Instrumented code runs
on top of the agent's own code (signal handlers, library functions the agent
calls). Workers fail half way and hand over to the next. Memory is chosen from
a reading of `/proc/self/maps` that grows old. Flags in shared memory outlive
processes, and pids and descriptors are used again. The page's clicks, timers
and answers come in any order or never; the decoder can run out of input, window
or output between any two bits. The repository's tests run single-threaded
programs to their end; none meets these orders of events, and the viewer has no
tests.

What makes each component correct:

- *lock*: mutual exclusion, never left taken, somebody waiting gets in;
- *wrappers*: the guard's assertion holds, entry and exit of a call act as a
  pair, nested code is invisible, no thread waits for itself, the guard is
  lowered again;
- *propagation*: no block is given to the instrumenter twice, a function runs
  only after its calls were looked at, nothing is instrumented once exit
  handlers destroy the agent's globals;
- *workers*: no thread is ever sent to code that is not complete, executable
  and its own; what has been written for an instrumented block stays; every
  call site is served;
- *memory*: buffers are disjoint, inside what was mapped, near their object,
  and mapping them destroys nothing;
- *IPC and injector*: the start flag is set before the byte that carries the
  request is read, and belongs to the process meant; a descriptor's channel is
  that of its present file; nobody is left stopped;
- *viewer*: an animation that has been started ends, and at the last frame; what
  is on the canvas is what cursor and package say; a cached figure is its
  package's own;
- *decoder*: the bytes come out once and in order however the input is cut up,
  nothing is lost silently, the page gets an answer;
- *parser caches* (not modelled): what is answered from a cache is what a new
  look-up would answer, also after dlopen.

## Modules

| Module | Models | Extends / uses | Checked by | Proofs |
|---|---|---|---|---|
| `Mutex` | what a lock promises | | `SpinLock` (as its `ImplementsMutex`) | |
| `SpinLock` | `Lock`, `Unlock`, one memory access per step | `INSTANCE Mutex` | `SpinLock` | `SpinLockProofs` |
| `Tramp`, `MCTramp` | wrappers, guard, shadow stack | lock as in `Mutex` | `Tramp`, `TrampGuardRace` | `TrampProofs` |
| `Propagate`, `MCPropagate` | `go`, `Propel`, thread manager, exit | lock as in `Mutex`, guard by its effect | `Propagate`, `PropagateExitRace` | `PropagateProofs` |
| `Workers`, `MCWorkers` | one block through the four workers, with threads that execute it | runs under the lock | `Workers`, `WorkersUnfilled` | `WorkersProofs` |
| `BufAlloc`, `MCBufAlloc` | intervals, pools, buffers | | `BufAlloc`, `BufAllocExact` | `BufAllocProofs` |
| `Ipc`, `MCIpc` | IPC manager, pipe worker and injector in several processes | the wrappers by their order | `Ipc` | `IpcProofs` |
| `Viewer`, `MCViewer` | the page and its animation queue | | `Viewer` | `ViewerProofs` |
| `Decoding` | what a streaming decoder promises | | `Inflate` (as its `DecodesInOrder`) | |
| `Inflate`, `MCInflate` | the decoder, `append()`, the chunks of the page | `INSTANCE Decoding` | `Inflate` | `InflateProofs` |

Definitions whose comment begins with "Slip:" are not part of a model: each is
a wrong version of the definition after it, of the kind a programmer might
write, and shows that a property notices it.

### SpinLock and Mutex
`mutex` is the word; `pc` says where a thread is: `out`, about to exchange,
spinning on the plain read (`while (lock->mutex);`), inside, or between the
barrier and the store of `Unlock`. `Mutex` is the abstract lock (`holder`,
`waiting`; ask, acquire, release). `Lock == INSTANCE Mutex` maps the word and
the places to it; `ImplementsMutex` says each step of the code is one of the
abstract lock or none. The other modules take the lock in one step on the
strength of this.

### Tramp
A thread is a sequence of activations (`ctl`): calls through a patch area, code
nested on an interrupted activation, and wrappers. A wrapper is split where the
code reads or writes something shared: the test of `inTramp` (123), the
constructor's second test (95) and its store (98), the lock in `Callee`,
`ReturnValue` and in what payloads call, the push, the pops of the draining
loop, and the destructor. `MakeCall`, `ReturnToPatch`, `Interrupt`, `Resume` and
`Unwind` are the program's; `Interrupt` may come between any two steps. A
payload is any sequence of locked calls and nested code. `traced`, and the depth
in a handle, are there for the properties; the code has neither. `saved[p]` is
`saved_context_loc_`, one word per call site, which each pass through the patch
area writes twice, before `wrapper_entry` and before `wrapper_exit`: a `Context`
says whose registers it leads to, those of which activation, and from which side
of the call. `ContextOfOwnCall` asks that a payload reads those of its own call
although calls below it, through the same site as well, have written the word
meanwhile; code on top of the wrapper itself may.

`MCTramp` adds one bit, whether user code ever left a call without returning:
the pairing of handles is claimed only if it has not. With `longjmp` or an
exception, the handle stays and the next outer `wrapper_exit` drains it as if it
were a tail call (the code logs "this point is not tailcall", payload.cc:199).

### Propagate
Functions, their call blocks and the possible callees are constants. A call
block runs no payload, the user's, or the toggle of exit. In a wrapped call
`SpThreadMgr::BeforeEntry` comes first when the agent asked for it
(`Multithread`), and takes the lock for every callee, not for `pthread_create`
only; then the payload propels. Locking with the look-up, each command of the
instrumenter, and the unlock are steps, so that other threads run between them.
The early exits are ways of their own: `MgrSkip` (callee or routine not known, or
not `pthread_create`) and `PropelSkip` (no function, or one propagated already)
lead to the labels of SP_UNLOCK, `MgrExit` and `PropelExit`. The callee of a direct
call is cached; that of an indirect one is looked up again by `Propel`, and may
be another or none (`Found`). `Init` is the state `SpAgent::Go` leaves: calls of main and exit
instrumented, any of them possibly not. The guard of `Tramp` shows as a choice:
a call made while another thread is in a wrapper may be skipped or not. A frame of
a thread is the function, whether its calls were looked at before it began
(`ahead`), and the argument it was called with. `tried` and `ahead` are history
for `FrontierAhead`.

### Workers
`job` is the place in the worker at work; each call that can fail is a step:
getting a buffer (`GetBlob`), building (`BuildBlob`), `mprotect` and writing.
`head` and `call` are what the first bytes of the block and the call insn do
now; a thread (`pos`) enters a block, may stand inside the bytes replaced, meets
the call, a trap, or a spring block. `is_spring_` has no initial value in the
code, so `Init` leaves it open. What may go wrong in an execution is its `mode`.
What `save` copies into `orig_code_` is left out: nothing reads it, since
`undo` has no caller.

### BufAlloc
Addresses are small numbers, pages of four. Holes, trimming to `Distance`,
pieces of at most `MaxInterval`, the choice of the lowest suitable interval,
rounding, `MAP_FIXED`, the refusal of low pages, and the cutting of buffers,
with its `size_t` arithmetic modulo `Wrap`, are as in the code. An object that
dlopen brings has no entry in `mem_maps_` and is taken to start at 0
(`Addr`), as the code's look-up does.

### Ipc
A process has files (`file`), an agent (`agent`), and a place in the call it is in
(`call`). The agent is not there, or `Loading`: the library is in the maps and its
constructor has not returned, which takes long, since `Go` parses the program
before it builds the IPC manager; then it is `Inert` (`Decline`, in the programs of
`IsIllegalProgram`) or has a pipe worker with write channels, and `readers`, the
descriptors with a read channel. The segment of start flags is `tracing`, the set
of pids whose byte is 1; it outlives processes, and the constructor of the pipe
worker clears its own byte (`Construct`). Around a traced `write` the steps are
those of `BeforeEntry`: look up or make the channel (`WriteEntry`); the look for
"libagent" in the maps of the other process, before anything is attached, which
ends `Inject` with true and no mark on the channel (`InjectLook`); `SpInjector`'s
constructor (`Attach`, `Halt`, `AttachFails`, which ends the writer's program, as
`exit(0)` does); the look for "libmyagent" or a `dlopen` that finds the library
loaded (`InjectFinds`), or the load (`InjectLoads`) and, when the constructor in the
other process has returned, the end of it (`InjectLoaded`), or a failure
(`InjectRefused`); the flag (`TellRemote`), and the system call. Which of the two
texts the maps show depends on how the agent was linked and named (`Names`). The
processes fork, exec, popen, close and die between any two of these steps, and a
pid may belong to somebody else by then.
`past` is history: the program's number, whether it was asked to trace or told
to be quiet, and descriptors whose file went by a `pclose()`, which the agent does
not see.
Descriptors and pids are handed out as the kernel does, lowest free descriptor
first; `RemotePid` takes the first process in pid order, as `std::set` does.

### Viewer
One action per callback: the arrival or loss of a text or figure (`Load`), each
button (`Click`), each timer (`TimerFires`). jQuery's queue is external: `fx` has
the functions queued, with "inprogress" in front while one is under way, the
timer `stop()` knows, and the number of timers it has forgotten (`loose`), which
fire all the same. `Script` is what `play()` queues. `refresh_canvas` with no such
frame paints nothing, and throws before it dequeues. The text of a frame is its
package and number. `crossed` and `behind` are history: the checkbox used during
a load, and a play that was queued behind a function that never ended.

### Inflate and Decoding
A stream is a sequence of fields: the opening of a block, a length, a literal, a
length and distance, the end of the block, an error. Each has the bits it takes
and the bits the look-up needs, so that every count of input, bits, window and
output is the code's; which code stands for what is given with the stream. What
may follow what is the grammar of the format, as the modes of `InfBlocks` and
`InfCodes` read it: `Dues` says which kind of field is due at each place, and
`StreamAssumption` that every field of a stream is one that is due there, or an
error; what the file has behind an error, which nobody reads, counts as one more
field in error. `z` is the decoder; a step of it (`Decode`) is a turn of one of its loops, with
the loading of the bits a field needs, `MakeRoom` (wrap, flush, wrap), `Fast` as long as the bytes
of window and input it asks for are there, and the giving back of bytes at its end
(`Wash`). `Turn` and `Check` are `append()`, `Feed` the callbacks of
`launchWorkerProcess`. `Decoding` says what a user relies on: pieces of the text
in order, and an end reported only after the last. `DecodesInOrder` says that
each step of `Inflate` is one of `Decoding` or none; it is checked by the run and
proved.

## Runs

| Run | Expected | Question | Bounds | Distinct states |
|---|---|---|---|---|
| `SpinLock` | pass | lock correct and live, and a `Mutex` | 4 threads | under 1000 |
| `Tramp` | pass | guard, pairing and nesting in one thread | 1 thread, 2 calls and 1 tail call, 3 activations, 2 handles | 267 thousand |
| `TrampGuardRace` | violation | the guard with two threads | 2 threads, 2 activations | |
| `Propagate` | pass | two threads propagate | 2 threads, 6 functions, 6 blocks, depth 3 | 261 thousand |
| `PropagateExitRace` | violation | exit while another thread propels | as above, 7 blocks, depth 4 | |
| `Workers` | pass | order and fall-through of the workers | 2 blocks, 1 spring block, 1 thread, 4 modes; a second try for one block | 322 thousand |
| `WorkersUnfilled` | violation | a worker after one that failed | mprotect may fail | |
| `BufAlloc` | pass | buffers and intervals | all 64 layouts of 10 pages, 3 objects, 4 buffers, 1 late mapping | 79 thousand |
| `BufAllocExact` | violation | a request for exactly what is left | one size that fits | |
| `Ipc` | pass | flags, channels, injection | 3 pids, 2 descriptors, 1 pipe of 1 request, 2 programs started after the first, the agent loaded by hand before them | 727 thousand |
| `Viewer` | pass | the animation and the canvas | 3 and 2 frames, 2 loads of a figure, 2 forgotten timers, 2 speeds | 179 thousand |
| `Inflate` | pass | decoding in pieces | 161 streams, 6 chunk sizes, window 8, buffer 3, bytes of 4 bits | 113 thousand |

Why the bounds suffice. *SpinLock*: three threads already show every relation
of one inside, one waiting and one arriving; four adds margin, and the proofs
lift it. *Tramp*: three activations are a call, code on top of its wrapper, and
a wrapper on top of that, which is where the guard acts; the proofs lift the
bound for the guard properties. Two calls and a tail call let handles of
different points meet. *Propagate*: two functions share a block, one block is
indirect, exit has a handler that makes calls: each case of `go` occurs; two
threads are enough for one to hold the lock and one to wait or to run the
blocks. *Workers*: `direct` goes through all four workers, `tiny` starts at the
third and competes for the spring block; one job at a time runs because of the
lock, so two blocks are the interaction there is. The modes leave out one
combination, everything failing at once, which adds only products of
independent failures. *BufAlloc*: holes from nothing to more than `Distance`,
more than one piece, a pool used up and replaced, the heap, and two objects
competing all occur among the layouts. In the passing run no request is exactly
what a pool has left (sizes are odd, and an odd size takes an even number of
bytes off pools that are multiples of 4); `BufAllocExact` is that case. *Ipc*:
three processes are two writers and a reader, or a writer, a reader and one more
holder of the pipe; a pid is used again as soon as its process dies, and so are
the pipe and the descriptors; one request fills the pipe. The first program may
load the agent by hand, later ones get it from `LD_PRELOAD` or by injection
(`LastByHand`). The run has an agent linked with libagent.so; with each of the other
values of `Names` the properties hold as well, and with
"libagent" in it every action still occurs, since the other process may have no
agent yet. The view `MCView` makes one state of those that differ in `readers`
alone, which nothing looks into. *Viewer*: with three
frames a play has a first, a middle and a last one, with two the range of the
slider differs after a switch. *Inflate*: the streams put every pair, and every
triple of kinds of block in a row, with copies longer than what is left of
window and buffer; the chunk sizes put the end of a chunk on every byte of some
stream, and the largest lets the fast path run. What the code compares of input,
window and buffer matters only where one of them ends, which small ones do all
the time.

Fairness. *SpinLock*: weak fairness of each thread's own steps in `Lock` and
`Unlock` (a thread the kernel runs); only "somebody gets in" follows, for
the lock is not fair. *Tramp*: while an activation is guarded its thread goes on
and payloads end (strong fairness of the wrapper's progress at each depth, since
handlers may come in between); the program itself owes nothing. *Propagate*:
weak fairness of the holder of the lock, which waits for nobody. *Workers*: weak
fairness of the worker, which holds the lock and waits for nobody. *Viewer*:
weak fairness of the timers, which the browser fires; nobody has to click and no
load has to succeed. *Inflate*: weak fairness of the step there is (a single
chain of callbacks; a read or a write may fail, but is answered). *Ipc* claims no
liveness: a writer and a reader that inject each other wait for ever. Deadlock is
not checked in the runs where the system may stop: a fault ends the process
(`Workers`, `TrampGuardRace`), requests have a bound (`BufAlloc`), processes die
and writers wait for each other (`Ipc`), a page may be left alone (`Viewer`), and
a stream ends (`Inflate`).

Refinement. Two runs check an implementation: `SpinLock` of `Mutex`
(`ImplementsMutex`, also proved) and `Inflate` of `Decoding` (`DecodesInOrder`).
Type invariants are not in the runs: those of `SpinLock`, `Tramp`, `Propagate`,
`Workers`, `BufAlloc`, `Ipc` and `Viewer` are theorems.

### What the violation runs show
- `TrampGuardRace`: `inTramp` is one flag for all threads. Two first calls that
  overlap make `TrampGuard` assert. By the same cause a thread's
  `wrapper_entry` can be skipped and its `wrapper_exit` not, which then pops an
  empty stack and calls through NULL (`NoEmptyPop` under the constants of
  `TrampGuardRace`), and the registers a payload reads may be those of another
  thread at the same site (`ContextOfOwnCall`, under the same constants).
- `PropagateExitRace`: `IN_INSTRUMENTATION` is tested before the lock is waited
  for and not again. The run ends with the flag switched off by the payload in
  exit, destructors running, and a thread that read the flag before inside `go`.
- `WorkersUnfilled`: `blob_size_` says "built" of a buffer that has been
  replaced; the next worker jumps to memory nobody has filled.
- `BufAllocExact`: `buf_size -= size + 1` after the test `buf_size >= size`.

Met while modelling, and visible as the hypotheses of passing properties rather
than in runs of their own: when `mprotect` on the call block fails, the block
and spring workers log it and report success (`BlockSite` and `SpringSite` do
the same: such a block counts as instrumented and runs as it was); the insn worker writes its jump before the blob is
executable, which matters for memory from `posix_memalign` that is near
(`NoWildJump` asks for a mode without `near`); a free spring block may look used
because `is_spring_` is not initialised; an object that dlopen brings is given
memory near address 0 or none (`WithinReach` is about the other objects);
`MAP_FIXED` replaces what the program mapped since the maps were read
(`OnlyLateMapsClobbered` bounds it by what was mapped late).

In *Ipc*: `AttachFails` ends the program the agent is in, not only the attempt
(injector.cc calls `exit(0)`); two processes that write to each other attach to
each other and both wait (`HeldByAttacher` leaves that open); the first look is
for "libagent" (pipe_worker_impl.cc:127), which an agent linked with that library
shows and the agent's own name need not, the second for "libmyagent", whatever the
agent that would be loaded is called (injector.cc:218); either look finds an agent
whose constructor has not run, and the flag that is set for it then is cleared by
the constructor, which is why `AnnouncedIsTraced` is about readers whose agent was
complete; a channel inherited over `fork` may have the
child's own pid as its remote; the exit wrapper of `popen` clears the flag of
whoever it finds, and with the child gone writes `start_tracing_[-1]`, a byte
before the segment; a child still inside `fork` that has been told to trace
clears the flag itself, which is why `AnnouncedIsTraced` is about programs past
it; and a pid of 32768 or more is outside the segment (the pids of the model are
inside). `CloseChannel` leaves the read channel of a descriptor that has a write
channel too, as that of a `popen(.., "r")` has once it is read: the exit wrapper of
`popen` makes the one, `read` the other. The read channel then answers for the
next file with that descriptor (`CloseReader`); only payloads look into it.

In *Viewer*: the last function of a play does not dequeue, so a second `play()`
waits behind it for ever unless another click dequeues first (`Stranded`); the
slider keeps the range of the package before, and leads to frames that do not
exist (`Astray`); `load_data()` stores a figure with `cur_viz`, the package shown
when the answer comes (`crossed`); `stop()` leaves a timer behind when it fires a
delay on its way. `FrameIsCurrent`, `ChainAlive` and `FigureOfPackage` say that
these are the only ways to go wrong.

In *Inflate*: at the end of a block one byte is given back, with the comment "can
always return one" (inflate.js:1051); when it came with the chunk before, it
cannot: `next_in_index` becomes -1 and a byte is read that is not there (pc
"astray"). The model stops there, where the code goes on with a zero, so all four
properties, and the theorems about three of them, hold up to that point; `append()` returns -1 in the place
of a chunk's output when the space left equals the chunk's length (line 2116;
`AtEdge` keeps its order, in which Z_DATA_ERROR is thrown first), which shows in the text as `Garbage`; a code looked up with more bits than are
left in the stream is not decoded (`Reachable`); an exception in the worker
reaches nobody, so the page waits for ever on a broken stream (`Answered` is
about sound ones).

## Proofs

`SpinLockProofs`, for any set of threads. The inductive invariant is
`IInv == TypeOK /\ MutualExclusion /\ WordTellsInside`. Mutual exclusion alone is
not inductive: that an exchange which returns 0 lets nobody join somebody inside
needs the word to be 1 then. From `IInv`, `StepRefines` shows each action to be a
step of `Mutex` or a stutter, and `SpinLockImplementsMutex` follows.

`TrampProofs`. `TypeCorrect` holds for any number of threads and all bounds. The
other theorems assume `OneThread`, that there is one thread, and hold for any
depth of nesting, with unwinding: the guard never asserts, no thread waits for
the lock it holds, the wrappers of a call are skipped or run together, nested
code is invisible. The invariant is
`GuardInv == TypeOK /\ FlagTells /\ QuietAbove /\ TracedApart /\ OwnerHolds /\ NoGuardFault`:
the flag is up exactly while some activation is guarded (`FlagTells`);
everything on top of a guarded activation is quiet, that is nested code, calls
that were skipped, and wrappers that have not gone past the test (`QuietAbove`);
calls that were traced lie below, skipped ones above (`TracedApart`); the holder
of the lock is the guarded activation that is at a locked place (`OwnerHolds`).
None of the stated properties is inductive by itself: that the test turns a
nested wrapper back depends on the flag being up for the whole time the lower
activation is guarded, and that depends on nested code not lowering it. The
hypothesis is needed: with two threads the run `TrampGuardRace` refutes the first
theorem.

The second part of `TrampProofs`, about the shadow stack of a program with one
thread, rests on that. An activation is *owed* a handle from the push of its entry wrapper to the
pop that finds it. `PopInv` says that each activation that is owed one has it in
the stack, and that whatever lies above it was pushed by activations further in
(`Lodged`); so a pop never finds the stack empty (`NoEmptyPopOneThread`), and what
it takes off before its own belongs to nobody who still waits for it. This holds
also when calls are left by `longjmp` or an exception: the handles left behind are
then owed to nobody. The converse, that each handle of a call is owed to the
activation that pushed it (`Accounted`), is lost by unwinding; it is what
`PairedOneThread` and `MirrorsOneThread` need, so these are theorems of `MCSpec`
and its bit for calls left without returning. `ContextOfOwnCallOneThread` rests on
`OwnContext`: the word of a wrapper's site leads to registers saved by that
activation or by one further in. A wrapper begins with its own saved, and while
it is not on top only activations above it write.

`PropagateProofs`, for any program (functions, blocks, callees), set of threads
and depth of calls. `Shape` has the types and that `pthread_create` knows its
argument. `NoBlockTwice` rests on `CommandsNew`: what the instrumenter is asked
for is asked for by the holder of the lock (`LockHeld`), who is inside `go`, and
names blocks without a payload. `FrontierAhead` rests on `Done` (a function is done with when each
block worth it was tried) for everything below a call that propagated, and on
`InHand`: while `go` is between its commands, the holder of the lock has the
rest of the function's blocks in hand.

`WorkersProofs`, for any points, spring blocks, threads, tries and sets of things
that may fail. `Shape` has the types, `InWork` (the block in the job is not
instrumented, its buffer is there when it is used) and `Traps` (a trap in the
code belongs to a block in `inst_map_` that has its buffer): `TrapIsKnown` and
`FrozenOnceInstrumented` follow. `Hops` adds that a spring block a call site hops
to is taken and not the one in hand. `NoWildJump` is about executions without a failing `mprotect` and
with the heap far away (`Tame`), where `SoundCode` (everything in the program
leads to finished, executable patch areas of its own, and so do the threads under
way) and `SoundJob` (the job has a finished area before it writes) are
inductive together. With `mprotect` failing, `WorkersUnfilled` refutes it.

`BufAllocProofs`, for any layouts, objects, sizes and bounds, with page size,
`MinAddr`, `MaxInterval`, `Distance` and `Wrap` unknown but for `SizeAssumption`
(`MaxInterval` and `Distance` are multiples of a page, as 16MB and 1.5GB are, and
an interval is smaller than `Wrap`). `FreeIntervalsOK` says of the list that
`UpdateFreeIntervals` builds: whole pages, free in the layout, no two overlapping.
`GroundInv` adds that an area is mapped inside a used interval that no other area
is in, that it ends below an object known from the maps and starts within
`Distance` of it (`AreasOK`), and that pages replaced or new are no more than the
program has mapped since (`Charted`). It is inductive by itself, so `TypeCorrect`
and `OnlyLateMapsAreClobbered` have no hypothesis. `BufferInv` is about what is cut
off the areas: buffers in areas of their object, apart from each other and from
what is left of every pool. A step keeps it unless a buffer uses its pool up, when
the size of the rest wraps around; `BufAllocExact` shows what happens then. So
`InAreaWithoutExactFit`, `ApartWithoutExactFit` and `ReachWithoutExactFit` are
about behaviours without such a step (`NoExactFit`); nothing in the code rules the
step out.

`IpcProofs`, for any sets of pids, descriptors and pipes, any capacity and any
number of programs. `Shape`: types; the dead have no files, agent, call or
tracer; a call has the file and the channel it works on. From the way each step
changes a process (`Fate`: untouched, reborn, ended, its agent complete, out of its
fork, asked, hushed) follow `Flags` (`AskedToTrace`: only a complete agent is asked
about, and completing clears the byte) and `Announced` (a request that names a
program, once written or about to be, finds it complete and past its fork, with its
byte set or hushed).
`HeldByAttacher` rests on `Stays`: a writer attached stays where it is until it
detaches or dies. `ChannelOfOpenFile` rests on `Fits`: channels and files of a
process go together, descriptor by descriptor.

`ViewerProofs`, for packages of any size, any number of loads and of forgotten
timers. The queue during a play is a `Line`: delays and frames in turn up to the
function that enables the buttons; taking one out leaves a line one shorter
(`LineGoesOn`), whichever timer did it. `Queueing` adds to it that the functions
left suffice to bring the cursor to the last frame (`Reaches`), which gives
`PlayReachesLast`, and that a timer is to fire or the play is stranded, which is
`ChainAlive`. `FrameIsCurrent` is inductive with the types; `FigureOfPackage`
needs that, before the checkbox is used during a load, each load under way is for
the package shown (`OwnLoads`).

`InflateProofs`, for every set of streams of the format and all sizes of byte,
chunk, window and buffer. The invariant `IInv` has three parts. `Place` says where
the decoder stands in the stream: its mode, and what it keeps for that mode
(`left`, `dist`, `last`), agree with what the fields read so far make due. `Amounts`
says where it stands in the input: the first bit of the bit buffer is the first of
the next field, whose beginning is `At`, and the counts of the chunk add up to what
was given. `Quick` is about the fast path: while it is at work, window and input
suffice for the whole turn, and the bytes it may give back are those this call
loaded. None is inductive alone: how many bits a step takes is decided by the field
that is due, and that a byte given back belongs to the chunk depends on both. At the
end of a block, where one byte is given back that may not be there (pc `astray`), the
bits still agree. `At`, `Dues` and `Out` are recursive functions; that they have the
types and the equations one expects is shown once (`RecursionExists`, `AtFacts`,
`DuesFacts`), by well-founded induction on sets of indices, and a run of stored
bytes the same way (`ByteRun`). `NoBitLost` is `InputKept` for all streams.

`ImplementsDecoding` is the refinement `DecodesInOrder`. Beside `IInv` it needs the
invariant `Delivered` (`OnlyDecoded`): there is a text such that what was handed out,
the output buffer and the bytes of the window between `read` and `write` are,
in this order, that text (`Sent`); the text is what the fields read so far stand for
but for a literal or the rest of a copy not yet written (`Owes`); and, which a copy
relies on, the last `End` bytes of it are in the window, also those already handed out
(`Shows`). That a write spares the bytes not yet copied out and keeps `Shows` is one
lemma (`WroteSent`) for the byte of `Lit` and of `Copy`, the run of `Stored` and
the literals and copies of the fast path; that `inflate_flush` keeps all of it, around
the end of the window, another (`FlushSent`). The copy of the fast path writes many
bytes at once, the first of which may be read again by the same copy, and may begin
before the start of the window: `FastCopyBehind` shows that whichever way
it goes, each byte written is the one `dist` behind it, and `RepeatsBack` that this
is what the format asks of an overlapping copy. At the end (`DryTells`) nothing
is owed, nothing is due and the window is empty, hence all was handed out.

`NothingLostSilently` is `NoSilentLoss`. The invariant `Accounted` follows the bytes
handed out: they are the text the writer has, then the buffers of the present
`append()`, then the output of the decoder, unless a `Garbage` in the text marks a
loss (`Sated`). And it follows what could still be decoded: no field was looked up
for which the file has too few bits (`Passed`), and whenever `inflate()` returns with
room left in the output, the window is empty, nothing is owed, and the next field
takes more bits than were given (`Idle`). That is the part a step could break in
any mode: `Fine` says it of a step, and `FieldFine` reduces most modes to whether
they stopped for want of input or went on. `EndAccounts` puts both together
at the end of the file: what was read is what can be reached.

Its assumptions are about the format and the constants of the code: what is kept of
RFC 1951 by `Fits` (a look-up takes at least one bit, as a tree of codes of no bits
is refused when it is built, or is one of distances in a block without lengths; a code with its extra bits is at most 20 bits long and a
distance is looked up with at most 15; the two
lengths of a stored block are byte-aligned and longer than what the look-up before
them may have loaded, a distance lies within the window and the text so far), and
in `SizeAssumption` that the ten bytes the fast path asks for hold a length, a
distance and the extra bits of both: 20, 15 and 13 bits take 3, 2 and 2 bytes.

Assumptions used are the named `ASSUME`s of the modules (distinctness of
`NoThread`, `NoPid` and the like, disjoint points, natural bounds).

Model-checked only: all liveness (`SomebodyEnters`, `GuardIsReleased`,
`LockIsReleased`, `EveryPointInstrumented`, `PlayEnds`, `Answered`), which is out
of the prover's reach. Every safety property of a run that is expected to pass is
proved, for every value of the constants; those of `Inflate` up to the point where
the decoder goes astray, like the run. With several threads `NoEmptyPop` and
`ContextOfOwnCall` do not hold, as said above.

## Not modelled, and why

- Emission and relocation of x86 instructions: arithmetic on encodings, better
  tested against a decoder. Whether a patch area fits its buffer depends on it.
- `ModifyPC` and `ReplaceReturnWithTrap`, the traps at return points, `undo`
  (no caller).
- The initial calls of `go()` by events, which run without the lock.
- The TCP and UDP workers: their injection is a command on another host, and the
  request travels as out-of-band data; the injector's frame record, the code it
  runs in the target by ptrace, and its five tries for a port.
- The parser's caches; the choice of events.
- In the decoder the building of code tables (`huft_build`) and the zlib header
  modes, which `inflateReset` skips; in `zip.js` the reading of the directory.
- `deflate.js` (the viewer never compresses) and `mime-types.js` (a table).
- The page's zoom buttons, which change nothing another callback reads.
- Dyninst, jQuery, the C++ library, the 32-bit variants, the tools, samples and
  tests. The viewer's directory is in the repository three times
  (`mist_tool`, `fpva`, `sc2012_demo`) with the same contents; the lines mapped are
  those of `mist_tool`.

## What could follow

1. The injector's frame record, written before the test for an injected agent,
   and the TCP worker, whose read channels `CloseChannel` leaves behind.
2. `ParserCache`: look-ups with negative caching across dlopen, against the
   definition of a fresh look-up; `ParseDlExit`, which takes the first new
   library only.
3. `Propagate` extended by the initial phase (`SyncEvent`, `CallEvent`) and
   `ModifyPC`.
