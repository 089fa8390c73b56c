# A TLA+ model of GPUTrigger

GPUTrigger is a shared library that is loaded into a CUDA application. It
subscribes to the driver's Compute Sanitizer callbacks, instruments every module
the application loads, and, while a kernel runs, drains the memory access records
that the instrumented kernel writes into a *patch buffer* and hands them to an
analysis library (redshow). This directory holds TLA+ models of its core, the TLC
configurations that check them, and TLAPS proofs.

All paths below are relative to the repository root.

## 1. The system

### Components, their state and their operations

| component | code | state | operations |
|---|---|---|---|
| Subscriber callback | `src/gputrigger.c` 1086-1366 | thread-local: thread id, current context, stop flag, `kernel_sampling`, grid, ids | driver API ENTER and EXIT, resource, launch (BEGIN, AFTER_SYSCALL_SETUP, END), memcpy, memset, synchronize, memory callbacks |
| Launch protocol | `src/gputrigger.c` 339-1052 | host buffers (per thread), reset and device buffers (meant per context, kept per thread), the device's patch buffer | `sanitizer_buffer_init`, `sanitizer_kernel_launch_callback`, `sanitizer_kernel_launch_sync`, `buffer_analyze`, the preprocessor (`sanitizer_kernel_launch`, `sanitizer_kernel_analyze`) |
| Buffer channel | `src/sanitizer-buffer-channel.c`, `src/sanitizer-buffer.c`, `src/gpu-channel-item-allocator.c`, `src/lib/prof-lean/{bichannel,bistack,stacks}.c` | per thread and record type: four stacks of items, a balance, flush and finish flags | produce, push, consume, alloc, free |
| Channel set | `src/sanitizer-buffer-channel-set.c` | one lock-free stack of channels per record type | insert, consume (no callers) |
| Context map | `src/sanitizer-context-map.c`, `spinlock.h`, `splay-macros.h` | a splay tree under a spin lock; per entry a spin lock, its owner's id, streams, buffers | find-or-insert, context lock and unlock, getters and updates, stream lock (no callers) |
| Context set-up | `src/gputrigger.c` 339-560, 862-935 | buffers, streams, handles and analysis function of a context's map entry; the buffers each thread keeps | `sanitizer_buffer_init`, stream getters, `sanitizer_kernel_launch`, `sanitizer_module_load` |
| Stream map | `src/sanitizer-stream-map.c` | a splay tree of locks per context | lock, unlock (reached only from the unused stream locks) |
| Module loading | `src/gputrigger.c` 239-337, `src/cubin-{id-map,hash-map,symbols}.c` | maps of cubins by id and by hash, a per-thread cache, symbol vectors | load, unload, lookup, insert, delete, relocate |
| Driver API wrappers | `src/cuda-api.c` | a thread-local "internal" flag | streams, events, module and kernel launches of the profiler itself |
| Control knobs, whitelist | `src/control-knob.c`, `src/gputrigger.c` 168-237 | knob values, list of kernel names | parse the environment |
| Allocator | `src/mem.c` | a counter | mmap, never freed |
| Instrumented kernel | another repository | the patch buffer on the device | append a record, wait for the host, count threads down |

### How they interact

The driver calls the subscriber callback on the application's threads, in this
order for a launch: driver API ENTER, LAUNCH_BEGIN, (AFTER_SYSCALL_SETUP),
LAUNCH_END, driver API EXIT. ENTER locks the call's context in the context map and
EXIT unlocks it, so that everything in between relies on being alone in its
context. LAUNCH_BEGIN resets the patch buffer on the device and points the kernel
at it. LAUNCH_END polls that buffer: when it is full, or all traced threads are
done, the records are copied into an item of the thread's buffer channel, the
kernel is told to go on by lowering its `full` flag, and the item is pushed on the
channel. At the end the channel is consumed: each item goes to the analysis and
back to the producer's side. The channel is thus filled and emptied by one thread,
the device runs concurrently with it, and threads meet in the context map, in the
patch buffer of a context they share, in the maps of cubins, in the counters of
thread and operation ids, and on the stack of channels. The profiler calls the driver
itself inside callbacks; these calls come back to the same callback, which has to
ignore them.

### What is hard

* the host works on *copies* of a buffer the device keeps changing, and writes one
  field of it back;
* the count at which polling stops is computed, from the grid, the frequency and a
  random offset, on both sides;
* items circulate among four stacks over many launches, with a counter next to them
  that is meant to bound the pool, and a retry when it is exhausted;
* the context lock is a spin lock, an owner id read without it, and an unlock of two
  stores; lookups leave pointers that outlive the map's lock; a stream is created
  lazily after an unlocked test;
* thread-local state (`kernel_sampling`, cached buffers, saved context) outlives the
  call that set it.

`PROJECT.json` lists the hazards with their lines, the properties that cover each,
and, where none does, why.

### What makes each component correct

* channel: a FIFO queue that loses and duplicates nothing; the pool's bound holds;
  the retry succeeds; the counter counts what it is meant to;
* context lock: at most one thread in driver calls on a context; no lock without an
  owner; entries are stable; one stream per context; progress;
* launch: the analysis gets every record of a traced kernel, once and in order, by
  the time the launch returns; launches on a context do not overlap; every launch
  returns; which kernels are traced depends on their names and each writes to its
  own context's buffer;
* context set-up: once per context, and a thread sees all of it or nothing;
* the callback: the profiler's own driver calls leave the lock, the saved context and
  the operation of a launch alone; ids are unique; operations are reported in order;
* maps of cubins: a lookup returns what was inserted, also through the cache; the
  registered addresses are those of the functions that the image defines;
* channel set: a channel inserted is visited by every later walk.

## 2. The modules

| module | what it is |
|---|---|
| `AnalysisQueue` | abstract: the queue between a thread and the analysis |
| `BufferChannel` | the channel, one step per call; implements `AnalysisQueue` |
| `BufferChannelProofs` | its proofs |
| `ContextCalls` | abstract: calls on a context exclude one another |
| `ContextLock` | context map, context lock, lazy stream; implements `ContextCalls` |
| `ContextLockProofs` | its proofs |
| `Widths` | C integers of a parameterised width |
| `BlockSampling` | the arithmetic of block sampling, host and device side, in those widths |
| `KernelTrace` | the launch protocol between host threads and the device; takes driver calls from `ContextCalls` and the channel as the queue of `AnalysisQueue` |
| `KernelTraceProofs` | the proofs of `BlockSampling` and `KernelTrace` |
| `ContextBuffers` | what is set up once per context: buffers, streams, analysis module; takes driver calls from `ContextCalls` |
| `ContextBuffersProofs` | its proofs |
| `Configuration` | what the environment makes of the profiler: sampling frequency, whitelist, bound driver functions |
| `Callbacks` | the life of the process and of its threads in the subscriber callback, with the profiler's own driver calls; extends `Configuration` |
| `CallbacksProofs` | the proofs of `Configuration` and `Callbacks` |
| `CubinSymbols` | the vector of function offsets of an ELF image |
| `CubinMaps` | both module loaders over the maps of cubins and the per-thread cache; extends `CubinSymbols` |
| `CubinMapsProofs` | the proofs of `CubinSymbols` and `CubinMaps` |
| `KeyMap` | abstract: a map whose entries are never replaced |
| `SplayTree` | the top-down splay tree of all the maps, pointer by pointer; implements `KeyMap` |
| `SplayTreeProofs` | its proofs |
| `LifoStack` | abstract: a stack on which push, pop and steal act at once |
| `ConcurrentStack` | the lock-free stack and the channel set on it; implements `LifoStack` |
| `ConcurrentStackProofs` | its proofs |
| `MC*` | instances for TLC |

Definitions whose comment begins with *Mutant* are deliberate mistakes; no
specification uses them. They stand before the definition they distort and show
that each property notices a plausible bug (`PROJECT.json`, "mutants").

### BufferChannel

`fwdProduced`, `fwdToConsume`, `bwdProduced`, `bwdToConsume` are the two bistacks
of the channel, as sequences with the top first. `item` is the local variable
`sanitizer_buffer` of `buffer_analyze` or `b` of `sanitizer_buffer_channel_consume`;
`attempt` says which call of produce is running. `hasBuffer` is the set of items
whose `gpu_patch_buffer` is not null, `balance` the atomic counter. `content` is
which drained trace a buffer holds; traces are numbered. `delivered` records the
calls of `redshow_analyze`. Actions follow the calls: `AllocReuse`, `AllocSteal`,
`AllocFresh` are `channel_item_alloc_helper`; `AccountReuse`, `AccountNewBuffer`,
`AccountExhausted` are `sanitizer_buffer_produce` with what `buffer_analyze` makes
of its result; `StealForward`, `ReverseForward`, `PopAndAnalyze`, `FreeItem`,
`RestoreBalance`, `ConsumeReturn` are the consume. The single-owner stacks make
each stack operation one step. A thread has one channel per record type; they are
independent, so one is modelled.

### ContextLock

Each thread step does at most one access to shared memory that another thread could
interfere with: a compare-and-swap of a spin lock (`MapLock`, `Acquire`), a store of
`lock_thread` (`Own`, `Disown`), a release (`MapUnlock`, `Unlock`), an unlocked read
(`AlreadyOwner` / `NotOwner`, `NothingToRelease`, `HasStream` / `NoStream`). The
atomics of the code are sequentially consistent, but for the spin lock's acquire and
release, which order what they protect. The splay tree is the function `entryOf`:
its shape is not observable under the map's lock. `MaxDepth` bounds how deep driver
API callbacks nest on a thread: the code has one saved context per thread, and
whether calls nest is up to the driver. With depth one the calls exclude each other;
with depth two only the weaker properties hold, because the inner EXIT clears the
saved context.

### KernelTrace and BlockSampling

`device[c]` is the patch buffer on context `c`; `snapshot[t]` is the thread's host
copy of its header; `trace[t]` is the item being filled. `Poll` is the struct copy,
`CopyRecords` the copy of the records (with the stale `head_index`), and
`ContinueKernel` the write of `full` followed by the push. Between them the device
takes steps: `Push`, `Resume`, `ThreadExit`, `KernelEnd`. The device's code is
external; what is assumed of it is that records are appended in turn, that the
record that fills the buffer raises `full`, that nobody appends or exits until the
host lowers it and the head is back at zero, and that each traced thread decrements
`num_threads` once. Records are numbered per launch, `analysed` records what reached
the analysis since the launch began. `ResetBuffer` keeps the code's per-thread cache
of the buffers (`BufferOf`), and `LaunchBegin` the sticky `kernel_sampling`.
`PoolExhausted` lets the analysis get the queue's traces at any drain, which covers
every pool size.

`Preprocessor` is `enable_gpupunk_preprocessor`. The code sets it to 1
(`src/gputrigger.c` 1480) and keeps both branches. With 1, the first poll of a
sampled launch uses a null host buffer (finding `trace_null`), so nothing behind it
is modelled; the other runs take the branch for 0, which the tool used before and
whose control flow is complete in the code.

`IntValues` is the number of values an int has: `LeftThreads` multiplies and subtracts
as the code does, in ints that are then widened. The grid itself, a product of three
dimensions that the code converts to an int too, is assumed to fit one (`MaxGrid`).
`Countable` names the launches whose
thread count an int holds; only of these is `LaunchReturns` claimed, since for a
larger one the host waits for a count the device never shows (with 8 values TLC finds
it).

### ContextBuffers

`entry`, `stream`, `handleOf` and `analysis` are the fields of a context's map entry,
`cached` the `__thread` buffer pointers of a thread. The steps are the single
accesses of a field: `ReadField` one of the six getters of `sanitizer_buffer_init`,
`Publish` one of its six updates (`progress` counts either), `StreamGet`, `HandleKnown`, `HandleGet` those of
`sanitizer_priority_stream_get` and `sanitizer_kernel_stream_get`, `SetupSampled`,
`ModuleLoad` and `Merge` the three parts of `sanitizer_kernel_launch`. Buffers and
streams are known by their context and a number, so that a second set-up shows.
`sanitizer_kernel_launch_sync` is followed up to the stream it synchronises on, as
if the host buffers it uses on the way existed (finding `trace_null` says they may
not).

### Configuration and Callbacks

`Configure` is what the callbacks read of `control_knob_init` and
`kernel_whitelist_init`; `Exits` the failures of `sanitizer_callbacks_subscribe`. A
whitelist file is the sequence of pieces that `fgets` reads into its 1024 characters
(`src/gputrigger.c` 191-194): a longer line makes several entries, and the later pieces
of a longer comment are entries too. `BoundFunctions` is `cuda_bind`, which stops at the
first missing function while its caller goes on.

In `Callbacks` a driver API call of the application goes from "app" through "lock" to
"api", and through "exit" back, with memory operations, module loads and launches in
between. The places that end in "Call" and "In" are where the profiler itself calls the
driver: `InnerEnter`, `InnerLaunch` and `InnerReturn` are the same callback once more, on
the same thread, in which `Ignored` decides what happens. A driver call of the profiler
stands for all that its wrapper makes. `TakeId` and the report of the id are separate
steps, as other threads may come between. `Crash` is the call of a driver function that
was not bound, or a division by the sampling frequency; `DriverFailed` the exit of
`HPCRUN_CUDA_API_CALL`, `ThreadEnd`, `ProcessEnd`, `ProcessFlush` the ends, and
`ReturnUnseen` a call whose EXIT arrives after the unsubscription. `launched` is a
history of the kernels each thread launched.

Two locks are waited for. That of a context is one step, since `ContextLock` has its
steps. That of the context map is held over the driver call that creates a stream, so
`mapLock` is a variable: `GetStream` takes it at a module's load (`LoadStream`), at a
launch's begin (`PriorityStream`) and before the analysis kernel (`KernelStream`), and
`InnerReturn` releases it with the stream stored. Every other use of the map (ENTER,
EXIT, the look-ups of a launch and of its end, the update after the analysis module is
loaded) takes and releases the lock in one step that waits until it is free. The
polling between `LaunchEnd` and `ReportEnd` is in `KernelTrace`, and so is the null host
buffer on which the build faults there; `Callbacks` passes over both.

When the process ends, the code unsubscribes, subscribes again (`src/gputrigger.c`
1058-1060) and disables for the new subscriber the domains but that of the driver API,
whose line is commented out (1076-1078). `ProcessEnd` takes this as the end of all
callbacks, which assumes that the driver enables no domain for a fresh subscriber.

### CubinSymbols and CubinMaps

`FunctionOffsets` is `computeCubinFunctionOffsets`: the section vector, which leaves
out the null section, the first symbol table, and an offset for each function
symbol. `SectionOffset` keeps the range check as it is, with `PastEnd` for the
element past the vector. `CubinMaps` has one step per locked operation of a map:
`sanitizer_load_callback` goes through `HashLookup`, `HashInsert`, `HashAgain`,
`InsertAndRead`, `Register`, `Patch`; `cuda_load_callback` shares the first three and
goes on with `WriteCubin`, `Lookup` and `InsertNew`. "nullHash" and "nullVector" are
the reads through null pointers that the code does not test for. The second one
occurs (an image without symbols, or not for CUDA) and ends the process.

### SplayTree and KeyMap

A tree is made of nodes with a `left` and a `right` pointer, which `child` holds as
two functions. The two halves of the macro mirror each other, so a step that goes to a
side is written once, for the side `d`; `edge` is `rtree_min` on the left and
`ltree_max` on the right, `top` the macro's `root`. `GENERAL_SPLAY_TREE` is a step for
each turn of its loop, in two halves where the turn has two: `Rotate` (key and child
are on one side of the root), then `Link` (the root is put aside); `Assemble` is what
follows the loop. The code never initialises `dummy_node`; each of its pointers is
written before it is read, and the model starts them as null.

`Begin` enters one of the map operations, which differ between the maps in the type of
the entry only; `Lookup`, `Skip`, `InsertFirst`, `InsertRoot`, `DeleteRoot`,
`SplayLeft` and `Join` are what they do with the splayed root. `Join` follows a second
splay, of the left subtree at the key of the node above it. No deleted node is used
again in the code. The model gives it the fields of a fresh one, so that a few nodes
are enough for any number of deletes. The count of a map only reads it.

`Below` is the set of nodes of a tree: those in every set that holds its root and is
closed under the pointers. It is a definition without recursion, the same for TLC and
for the proofs.

### ConcurrentStack and LifoStack

One step per atomic operation on the head or on the `next` of an element that others
can reach: `PushBegin` reads the head, `FindTail` walks down the chain, `Link` stores
the successor, `PushDone` and `PushRetry` are the two results of the exchange, and
so on for `cstack_pop` (`Pop*`), `cstack_steal` (`Steal`) and `cstack_forall`
(`WalkBegin`, `Visit`, `WalkEnd`). `NewElement` is
`sanitizer_buffer_channel_set_insert`. The header says that a walk must not be
concurrent with pops; `emptied` picks one of the two uses. `Removers` are the threads
that pop: with one the stack is right, with two TLC finds the ABA of `cstack_pop`,
which has no caller.

## 3. What the runs check

| run | instance | shows |
|---|---|---|
| `channel` | pool of 3, 6 drains, any number of launches, fairness | types, `PoolBound`, `NoNullCopy`, `BalanceCountsItems`, `SinglePlace`, refinement of the queue, `DrainsAnalysed` |
| `lock` | 2 threads, 2 contexts and null, depth 1, fairness | types, `ApiExclusive`, `OwnerIsInside`, `OneStream`, refinement of the exclusive calls, `SomeThreadEnters`, no deadlock |
| `lock_nested` | 2 threads, depth 2, symmetry | `LockInv`, `NoOrphanLock`, `EntriesStay` |
| `trace` | 2 threads, 1 context, whitelist of 1 of 2 kernels, 1 in 2 blocks of 2 threads, ints of 16 values, buffer of 2, up to 4 blocks and 3 records, fairness | types, `TraceIntact`, `CompleteAtEnd`, `QuietBetweenLaunches`, `LaunchReturns` |
| `stack` | 3 threads, 1 of which removes, 3 elements, fairness | `OnePlace`, `WalkSeesStack`, refinement of the stack, `PushLockFree` |
| `tree` | 5 keys, 5 nodes, 2 values, symmetry | `SearchTree`, refinement of the map, no deadlock |
| `modules` | 2 threads, 3 modules of 2 cubins, 4 images each, 2 cache slots, symmetry | `HashFound`, `FunctionsRegistered`, `PatchedModulesKnown`, `LookupRight` |
| `calls` | 2 threads, 2 contexts, 2 kernels, 5 environments, 2 operations, 3 thread ids, fairness | `CallKeepsContext`, `LaunchEndsAsBegun`, `FreshIds`, `SamplingFollowsList`, `OpsInContextOrder`, `CallsReturn` |
| `buffers` | 2 threads, 2 contexts, 4 launches, symmetry | `SetUpOnce`, `CachedComplete`, `HandlesMatch`, no deadlock |
| `trace_null`, `trace_contexts`, `trace_filter` | smallest instances | findings |

### Bounds

* `MaxDrains = 6` with a pool of 3: the pool is exhausted (at the third drain of a
  launch), the retry runs, items are recycled by both ways, and the balance
  drifts twice. The heap has two items per drain, the most a drain can allocate.
* Two threads meet every race of the context lock, as its steps involve the owner
  and one other; two contexts and the null context give crossings and insertions,
  one entry each. The safety properties are proved for any number.
* A buffer of two records is the smallest that is filled by one record while another
  is in it; three records fill it once and leave a rest. Up to four blocks at one in
  two cover a grid that is a multiple of the frequency, one that is not, one below
  it, and offsets on both sides of the rest; an int of 16 values holds the threads
  of the first three grids and not those of the last.
* Three threads and three elements on the stack: a chain of two against a push, two
  pushes against a pop or a walk.
* Five keys reach every rotation, paths of either shape and nodes put aside on both
  sides of one splay; there is a node for each, and every sequence of operations on
  them is checked. Nodes and values are interchangeable, keys are not.
* Two of three modules share a cubin, and the two cubin ids share a slot of the
  cache. Images have a symbol table before or after their code, one with no entry
  size, and one for another machine; the symbols are a function in the first and in
  the last section, an object, an undefined and an absolute one.
* Two operations of the application: two launches, of which the second in a context
  has an analysis kernel, or a launch that overlaps a memory operation, besides any
  number of module loads. Three ids: one thread calls the driver again after its flush. The five
  environments have no patch file, a whitelist that cannot be read, one that lists a
  kernel (with frequency 0), one of a comment only (with a driver that lacks
  `cuStreamCreate`), and a driver without the runtime library.
* Four launches in two contexts: in each one a first and a later launch, from either
  thread.
* `MaxGrid`, `MaxRecords`, `MaxDrains`, `MaxLaunches`, `MaxOps`, `MaxThreadIds` bound
  the environment only: they end the calls an application makes, and no call is cut
  off inside.

### Deadlock and fairness

Deadlock is checked in `lock`, `tree` and `buffers`. It is not where the system may
stop: in `channel`, as the bound on drains is reached; in `lock_nested`, where two
nested calls on two contexts in opposite order do wait for each other (listed as a
hazard); in `trace` and the finding runs, where a thread without a host buffer faults
and a launch that an int cannot count never returns; in `stack`, when the heap is
used up; in `modules`, when all modules are loaded or a null pointer was read; in
`calls`, when the process has ended.

Fairness: the code runs on preemptive threads, so that a thread with a step to take
takes it: weak fairness of `Work` and `KernelDone` in the channel (kernels end), of
each thread's `Step` in the lock and in `Callbacks`, of `HostStep` and of each
kernel's `DeviceStep` in the trace, and of a thread inside an operation in the stack.
`SF_vars(ApiExit(t))` in the lock and in `Callbacks` says that a driver call returns
after finitely many launches and loads. No strong fairness is assumed of the spin locks,
which are not fair. Of the context lock only the progress of *some* thread is claimed
(`SomeThreadEnters`), as of a push (`PushLockFree`), and `CallsReturn` is about calls
that have that lock. Their waits for the map's lock end although they are fair only
weakly: it is held across steps at most twice in a context, once for each stream, and
then stays free for every step that waits. What the model leaves aside there is
starvation in the short sections, where the spin lock could pass over one thread for
ever.

`CallsReturn` is claimed for drivers that have every function (`Bound`): a call then
comes back to the application unless the process ends before, and no callback may fault
on the way.

### What the runs showed besides

* The balance of the channel is not restored after the pool was exhausted: the retry
  takes a second item, and the counter stays one too high, so that later launches
  have one buffer less (`BalanceCountsItems` counts these). With a pool of one the
  retry fails as well and the trace is copied through a null pointer; `NoNullCopy`
  is checked and proved for larger pools, and the default is 500.
* A module whose image gives no symbol vector ends the process
  (`src/gputrigger.c` 280).

## 4. What is proved

All theorems hold for every value of the constants under the modules' `ASSUME`s,
which TLC evaluates in the runs too. These are distinct null values, positive sizes,
a finite set of elements, and two that say what the code reads: a whitelist file is a
sequence of pieces, each a comment or not (`IsFile`), and an image has a first section that is no symbol
table and symbols that name a section of it or a reserved number (`WellFormed`). The
launch's grid fits an int (`MaxGrid`).
Where a theorem needs more, its `ASSUME` says so, and the table repeats it.

| theorem | property | needs |
|---|---|---|
| `BufferChannelProofs`: `TypeCorrect`, `PoolNeverOverrun`, `BalanceExplained`, `OneStackEach` | `TypeOK`, `PoolBound`, `BalanceCountsItems`, `SinglePlace` | |
| `RetrySucceeds` | `NoNullCopy` | `PoolSize > 1` |
| `Implementation` | `ImplementsQueue` | |
| `ContextLockProofs`: `TypeCorrect`, `MutualExclusion`, `LocksAreOwned`, `EntriesAreStable` | `TypeOK`, `LockInv`, `NoOrphanLock`, `EntriesStay` | |
| `CallsExclude`, `OwnersAreInside`, `StreamsAreUnique`, `Implementation` | `ApiExclusive`, `OwnerIsInside`, `OneStream`, `ImplementsCalls` | `MaxDepth = 1` |
| `KernelTraceProofs`: `SamplingCounts` | the count of block sampling | |
| `Types`, `Quiet` | `TypeOK`, `QuietBetweenLaunches` | |
| `TracesIntact`, `LaunchesComplete` | `TraceIntact`, `CompleteAtEnd` | `MaxThreads < IntValues`, `[]BuffersUnshared` |
| `OwnContexts` | `TraceIntact`, `CompleteAtEnd` | `MaxThreads < IntValues`, `[]StayInContexts` |
| `SingleContext` | `TraceIntact`, `CompleteAtEnd` | `MaxThreads < IntValues`, one context |
| `EndSeen` | `EndIsSeen`, the step that ends the polling | `MaxThreads < IntValues`, `[]BuffersUnshared` |
| `ContextBuffersProofs`: `SetUp`, `Complete`, `Handles` | `SetUpOnce`, `CachedComplete`, `HandlesMatch` | |
| `CallbacksProofs`: `ContextsKept`, `LaunchesPaired`, `IdsFresh`, `OpsOrdered`, `SamplingRight` | `CallKeepsContext`, `LaunchEndsAsBegun`, `FreshIds`, `OpsInContextOrder`, `SamplingFollowsList` | |
| `CubinMapsProofs`: `HashesFound`, `PatchedKnown`, `FunctionsKnown`, `LookupsRight` | `HashFound`, `PatchedModulesKnown`, `FunctionsRegistered`, `LookupRight` | |
| `ConcurrentStackProofs`: `ElementsKept`, `WalksComplete`, `Implementation` | `OnePlace`, `WalkSeesStack`, `ImplementsLifo` | one thread that removes |
| `SplayTreeProofs`: `TypeCorrect`, `TreeStaysOrdered`, `Implementation` | `TypeOK`, `SearchTree`, `ImplementsMap` | |
| `LoopShrinks` | `LinkShrinks`, the step of the loop | |

Every proof goes through an inductive invariant, `IInv` in the module it is about,
whose parts are named for what they say. TLC was run on each before it was proved.

### The channel

    IInv == TypeOK /\ RetryInv /\ PlacesInv /\ BuffersInv /\ BalanceInv
              /\ CountInv /\ TraceInv /\ (PoolSize > 1 => RecycleInv)

`PoolBound` alone is not inductive: a new buffer is allowed by the *balance*, so the
proof needs that the balance never understates the buffers that are out
(`BalanceInv`), which needs that an item is in one place (`PlacesInv`), that only
items with a buffer circulate and that a fresh item is taken only when none is free
(`BuffersInv`). `RetrySucceeds` adds where a retry stands (`RetryInv`) and that by
then a buffer exists to be recycled (`RecycleInv`). `BalanceExplained` is about the
number itself, an equation between the counter and three cardinalities. For the
refinement, `TraceInv` says that the pending items, read in the order in which
the consume will pop them, hold the traces after those delivered, in turn: a
reversal of a stolen stack is then a stutter of the queue.

### The context lock

    IInv == TypeOK /\ PurposeInv /\ MapInv /\ LockInv

`LockInv` counts a claim from the compare-and-swap to the releasing store, so that it
is inductive given `MapInv`: the map's lock makes find-or-insert atomic, hence equal
contexts have equal entries and different ones different entries. For
`MaxDepth = 1`, `InsideInv`, `OwnerInv` and `StreamInv` are added, and each step of
`ContextLock` is a step of `ContextCalls` or a stutter. With deeper nesting the inner
EXIT clears the saved context, and these do not hold.

### The launch

    LaunchInv == TypeOK /\ CallsInv /\ KernelInv /\ FullInv /\ ChannelInv
    IInv == LaunchInv /\ CountInv /\ SnapshotInv /\ TraceIntact

`SamplingCounts` is the arithmetic: for every grid, frequency and offset, the number
of blocks the device traces is what the host computes with a division and a
remainder. `CountInv` makes it a statement about the running kernel: the count on
the device is, modulo the width of an unsigned, what the host started it with less
the threads that have exited. `SnapshotInv` is why the host may work on a stale copy:
a raised flag still is when the host acts on it, and a count at its end stays there.
Both need two conditions. `MaxThreads < IntValues` keeps the two ends of the count apart in the
modular arithmetic; it is sharp, for with 16 threads and 16 values TLC finds a launch
that is done before it began, and a 32-bit int meets it for launches of
fewer than 2^32 threads. `BuffersUnshared` says that no two launches in progress
reset and drain one patch buffer. The code does not guarantee it, since the buffers are cached per
thread: that is the finding `trace_contexts`. It holds when every thread stays in the
context it first launches on (`OwnContexts`), whether or not threads share contexts:
two launches are on two contexts, which the context lock sees to, and hence on two
buffers. The finding thus takes a thread that changes contexts. `SingleContext` is the
case of one context; `Quiet` and `Types` need neither condition.

`EndSeen` is what liveness rests on here: a poll after the last sampled thread has
exited ends the loop. It is the converse of the conclusion that `SnapshotInv` draws,
and it needs that the launch's threads are fewer than half of an int's values, for a
larger product turns negative and is widened to a count that the device never shows.

### The context set-up

    IInv == TypeOK /\ CallsInv /\ EntryInv /\ ReadInv /\ CachedInv /\ StreamInv /\ LoadInv

`CallsInv` is what `ContextCalls` gives. `EntryInv` says which of the six updates are
still out when the one thread in a call on the context stands at the *i*-th: all
are done when it leaves, so that the next one, which tests the first field only,
sees all of them or none. The getters are six steps too: `ReadInv` says what a thread
has read when it stands at the *i*-th, and that the entry does not change meanwhile is
`CallsInv` again.

### The callback

    IInv == TypeOK /\ InternalInv /\ IdInv /\ CallKeepsContext /\ LaunchEndsAsBegun /\ OpInv
              /\ SamplingFollowsList

`InternalInv` ties the flag to the places where the profiler calls the driver itself;
it is what makes the nested callbacks harmless. `IdInv` orders ids below the counter
and keeps them apart, `OpInv` an operation's id between the last one reported on its
context and the counter. `SamplingRight` says which launches are analysed, with the
flag as it is: a thread samples until the first kernel that the file does not admit, and
never again after it (finding `trace_filter` is what a comment says instead). It needs
the loop of `kernel_whitelist_init` for files of any number of pieces: the list is a
recursive function over them, and the lemma `WhitelistIs` shows by induction what it
holds.

### Module loading

    IInv == TypeOK /\ MapsInv /\ LoaderInv /\ RegisteredInv /\ HashFound /\ PatchedModulesKnown

`MapsInv` gives each entry of a map, and of a thread's cache, its only possible value,
so that a race of two loaders of one cubin ends the same way. `FunctionsRegistered`
then is a fact about `FunctionOffsets`: for a well-formed image the range check that
lets the number of sections through is never met with that number, and the symbol
table that the code picks is the same with the null section and without.

### The stack

`StackInvHolds` says that there are sequences (the stack, the chain each thread has in
hand, the rest of each walk) that the links join and that, with the free elements,
partition the elements; that a pop between its reads has a head that is still
on the stack, with the successor it read; and that a walk has passed what it found
but for the rest. The path along the links is a recursive function, whose defining
equation is shown to have a solution, so that `PathFrom` can be computed from a
sequence the links join. The hypothesis is that one thread, its owner, removes from a
stack, as on every channel; on the shared stack of channels nobody does. It is
needed: with two such threads TLC finds the ABA of `cstack_pop`.

### The tree

    IInv == TypeOK /\ FieldsInv /\ JoinInv /\ SplayInv /\ FinishInv /\ SearchTree

Between operations there is one search tree. During a splay there are three, and the
invariant says so (`SplayInv`): the one still to be searched, and one on each side
made of the nodes put aside, whose nodes lie on that side of the key and of everything
still to be searched, and whose last one, at the edge, is nearest to them (`PutAside`).
The pointer that the edge still has into the searched tree is the one the macro has yet
to overwrite; `Cut` is the pointers without it. A delete splays the left subtree
while the node above it waits with its right subtree (`Kept`, `JoinInv`). After the
splay, the nodes on the side of the root that the key is on, if any, are all beyond the
key (`FinishInv`), which is why an insert may split the tree there, and why the second
splay of a delete leaves a root without right child.

Since `Below` is the least closed set, facts about trees are proved without induction:
a set is shown to be closed, hence to contain the tree. The lemma `Hang` says what
trees become when one is hung below a node of another that it shares no node
with; each of `Rotate`, `Link` and `Assemble` is one or two uses of it. `Implementation`
maps the tree to the function from keys to values and shows every step of a splay to be
a stutter. `LoopShrinks` says that each turn of the loop leaves strictly less to
search, so that with finitely many nodes it ends.

### What is model-checked only

* Liveness: `DrainsAnalysed`, `SomeThreadEnters`, `LaunchReturns`, `PushLockFree`,
  `CallsReturn`. It rests on fairness and `ENABLED`, outside the prover's reach.
* The hypotheses of `TracesIntact` in applications: whether a thread changes contexts is
  up to the program that is profiled.

What liveness needs besides fairness is proved where it is a fact about steps:
`RetrySucceeds` for the channel, `EndSeen` for the launch, `LoopShrinks` for the tree.
The last two are not in a run; TLC was run on them before they were proved.

## 5. Findings

The three runs that end in a violation check sentences of the code's comments that
the code does not keep: host buffers that are never allocated, buffers "per context"
that are per thread, and a filter by name that is sticky. `PROJECT.json` quotes the
lines.

## 6. Plan

Done: the models, and the proofs of every safety invariant, action property and
refinement that the passing runs check. What could follow:

1. `KernelTrace`: its queue as an instance of `AnalysisQueue`, so that the launch and
   the channel's refinement meet in one theorem. The queue of the one holds records and
   is emptied in a step, that of the other holds numbers and is emptied one by one;
   the two have to be brought to one granularity first.
2. `ContextLock` at any depth: what nested calls still guarantee beyond `LockInv`, and
   under which order of contexts they cannot wait for each other.
3. The hazards of `PROJECT.json` without a property: their notes say what each waits
   for, mostly code that is not there yet or conduct of the driver that is not in it.

Not modelled, and why:

* the preprocessor behind its first use of a host buffer (`src/gputrigger.c`
  742-860): no execution gets there (`trace_null`);
* the stream locks of the context map with the locks of the stream map, the flush
  and finish of a channel, the consume of the channel set, `cubin_id_map_delete` and
  the like: they have no callers. The map operations among them are those of `SplayTree`;
* the destruction of contexts and modules, which the callback leaves as empty cases;
* `src/mem.c` but for its fresh object, `redshow_dummy`, `stdatomic.h`,
  `crypto-hash.c`, `elf-helper.c`: stand-ins and imported utilities without state of
  the profiler;
* the knobs for the analysis mode, the record size and the buffer counts, and the patch
  they select: they are parameters of the models (`Capacity`, `PoolSize`) or change
  none of the control modelled;
* queries of the device, the search for the library's path, and output.
