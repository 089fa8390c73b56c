---------------------------- MODULE ContextBuffers ----------------------------
(***************************************************************************)
(* What the profiler sets up once in each context and once for each thread *)
(* (gputrigger.c, sanitizer-context-map.c): the patch buffers and those of *)
(* the preprocessor with their reset copies, the two streams of the        *)
(* profiler with their handles, and the analysis function.                 *)
(*                                                                         *)
(* A read of an entry of the map, an update of one and an allocation are a *)
(* step each.  Calls on a context exclude one another (ContextCalls, which *)
(* ContextLock implements).  LAUNCH_END is followed up to the stream it    *)
(* asks for; how it drains the buffers is KernelTrace.                     *)
(***************************************************************************)
EXTENDS Naturals, Sequences

CONSTANTS
  Threads, Contexts,
  Null,
  MaxLaunches  \* bound on the launches of the application

Kinds == {"priority", "kernel"}

\* What has been set up is known by its context and a number.
Buffers == Contexts \X Nat
Streams == Contexts \X Kinds \X Nat

ASSUME ConstantsAssumption ==
  /\ Null \notin Contexts \union Buffers \union Streams
  /\ MaxLaunches \in Nat

VARIABLES
  pc,        \* where each thread is
  calling,   \* the context each thread is in a driver API call on
  task,      \* "load" or "launch": the callback each thread is in
  back,      \* where each thread goes on when it has a stream
  cached,    \* the buffers each thread keeps, as the context they are of
  progress,  \* getters or updates of the entry that sanitizer_buffer_init has made
  handle,    \* the stream handles each thread has in the launch
  function,  \* analysis_function as sanitizer_kernel_launch read it
  entry,     \* the buffers of each context's map entry
  stream,    \* the streams of each entry
  handleOf,  \* the stream handles of each entry
  analysis,  \* the analysis function of each entry
  allocated, \* how often device buffers were allocated in each context
  created,   \* how often streams were created in each context
  loads,     \* how often the analysis module was loaded in each context
  launches,  \* launches begun
  unmerged   \* sampled launches in each context without an analysis kernel

threadVars == <<back, cached, progress, handle, function>>
entryVars == <<entry, stream, handleOf, analysis>>
counts == <<allocated, created, loads, launches, unmerged>>
vars == <<pc, calling, task, threadVars, entryVars, counts>>

Calls == INSTANCE ContextCalls WITH Keys <- Contexts

Fields == {"device", "reset", "readDevice", "writeDevice", "readReset", "writeReset"}

Init ==
  /\ pc = [t \in Threads |-> "app"]
  /\ Calls!Init
  /\ task = [t \in Threads |-> "load"]
  /\ back = [t \in Threads |-> "api"]
  /\ cached = [t \in Threads |-> [f \in Fields |-> Null]]
  /\ progress = [t \in Threads |-> 0]
  /\ handle = [t \in Threads |-> [k \in Kinds |-> Null]]
  /\ function = [t \in Threads |-> Null]
  /\ entry = [c \in Contexts |-> [f \in Fields |-> Null]]
  /\ stream = [c \in Contexts |-> [k \in Kinds |-> Null]]
  /\ handleOf = [c \in Contexts |-> [k \in Kinds |-> Null]]
  /\ analysis = [c \in Contexts |-> Null]
  /\ allocated = [c \in Contexts |-> 0]
  /\ created = [c \in Contexts |-> [k \in Kinds |-> 0]]
  /\ loads = [c \in Contexts |-> 0]
  /\ launches = 0
  /\ unmerged = [c \in Contexts |-> 0]

Goto(t, from, to) == pc[t] = from /\ pc' = [pc EXCEPT ![t] = to]

\* The context of the call, which the callbacks pass on.
Current(t) == CHOOSE c \in Contexts : c \in calling[t]

------------------------------------------------------------------------------
(* Callbacks.                                                              *)

ApiEnter(t) ==
  /\ Goto(t, "app", "api")
  /\ \E c \in Contexts : Calls!Enter(t, c)
  /\ UNCHANGED <<task, threadVars, entryVars, counts>>

ApiExit(t) ==
  /\ Goto(t, "api", "app")
  /\ Calls!Exit(t)
  /\ handle' = [handle EXCEPT ![t] = [k \in Kinds |-> Null]]
  /\ function' = [function EXCEPT ![t] = Null]
  /\ UNCHANGED <<task, back, cached, progress, entryVars, counts>>

\* MODULE_LOADED, whose last call is sanitizer_buffer_init.
ModuleLoaded(t) ==
  /\ Goto(t, "api", "buffers")
  /\ task' = [task EXCEPT ![t] = "load"]
  /\ UNCHANGED <<calling, threadVars, entryVars, counts>>

\* LAUNCH_BEGIN first asks for the priority stream.
LaunchBegin(t) ==
  /\ Goto(t, "api", "priority")
  /\ launches < MaxLaunches
  /\ launches' = launches + 1
  /\ task' = [task EXCEPT ![t] = "launch"]
  /\ back' = [back EXCEPT ![t] = "buffers"]
  /\ UNCHANGED <<calling, cached, progress, handle, function, entryVars, allocated, created,
                 loads, unmerged>>

------------------------------------------------------------------------------
(* sanitizer_priority_stream_get and sanitizer_kernel_stream_get.          *)

HandleKnown(t, k) ==
  /\ Goto(t, k, back[t])
  /\ handleOf[Current(t)][k] # Null
  /\ handle' = [handle EXCEPT ![t][k] = handleOf[Current(t)][k]]
  /\ UNCHANGED <<calling, task, back, cached, progress, function, entryVars, counts>>

\* A new stream.  Mutant of StreamOf: one is created each time.
StreamCreated(c, k) ==
  /\ stream' = [stream EXCEPT ![c][k] = <<c, k, created[c][k] + 1>>]
  /\ created' = [created EXCEPT ![c][k] = @ + 1]

\* sanitizer_context_map_entry_priority_stream_get and _kernel_stream_get.
StreamOf(c, k) ==
  IF stream[c][k] = Null THEN StreamCreated(c, k) ELSE UNCHANGED <<stream, created>>

\* Where a thread is while it asks for the handle of a new stream.
Handling == [priority |-> "handlePriority", kernel |-> "handleKernel"]

StreamGet(t, k) ==
  /\ Goto(t, k, Handling[k])
  /\ handleOf[Current(t)][k] = Null
  /\ StreamOf(Current(t), k)
  /\ UNCHANGED <<calling, task, threadVars, entry, handleOf, analysis, allocated, loads, launches,
                 unmerged>>

\* sanitizer_context_map_priority_stream_handle_update and its like; a handle
\* is known by its stream.
HandleUpdate(c, k) ==
  handleOf' = [handleOf EXCEPT ![c][k] = IF @ = Null THEN stream[c][k] ELSE @]

HandleGet(t, k) ==
  /\ Goto(t, Handling[k], back[t])
  /\ handle' = [handle EXCEPT ![t][k] = stream[Current(t)][k]]
  /\ HandleUpdate(Current(t), k)
  /\ UNCHANGED <<calling, task, back, cached, progress, function, entry, stream, analysis, counts>>

------------------------------------------------------------------------------
(* sanitizer_buffer_init.                                                  *)

AfterBuffers(t) == IF task[t] = "load" THEN "api" ELSE "setup"

BuffersCached(t) ==
  /\ Goto(t, "buffers", AfterBuffers(t))
  /\ cached[t].device # Null
  /\ UNCHANGED <<calling, task, threadVars, entryVars, counts>>

BuffersAsked(t) ==
  /\ Goto(t, "buffers", "priority")
  /\ cached[t].device = Null
  /\ back' = [back EXCEPT ![t] = "fields"]
  /\ UNCHANGED <<calling, task, cached, progress, handle, function, entryVars, counts>>

\* The getters of the entry in their order.
Getters == <<"device", "readDevice", "writeDevice", "reset", "readReset", "writeReset">>

\* A getter reads its field without a lock; after the last one the first field is
\* tested.
ReadField(t) ==
  /\ Goto(t, "fields",
          IF progress[t] + 1 < Len(Getters) THEN "fields"
          ELSE IF cached[t].device = Null THEN "allocate" ELSE AfterBuffers(t))
  /\ LET field == Getters[progress[t] + 1]
     IN  cached' = [cached EXCEPT ![t][field] = entry[Current(t)][field]]
  /\ progress' = [progress EXCEPT ![t] = (@ + 1) % Len(Getters)]
  /\ UNCHANGED <<calling, task, back, handle, function, entryVars, counts>>

\* The buffers are allocated on the device, and their reset copies on the heap,
\* between the updates of the map; what they are of is known by a number.
Allocate(t) ==
  /\ Goto(t, "allocate", "publish")
  /\ LET c == Current(t)
     IN  /\ cached' = [cached EXCEPT ![t] = [f \in Fields |-> <<c, allocated[c] + 1>>]]
         /\ allocated' = [allocated EXCEPT ![c] = @ + 1]
  /\ UNCHANGED <<calling, task, back, progress, handle, function, entryVars, created, loads, launches,
                 unmerged>>

\* Mutant: the patch buffer is not put into the map.
UpdatesButDevice ==
  <<"reset", "readDevice", "writeDevice", "readReset", "writeReset">>

\* Mutant: the reset copy is not put into the map.
UpdatesButReset ==
  <<"device", "readDevice", "writeDevice", "readReset", "writeReset">>

\* The updates in their order.
Updates == <<"device", "reset", "readDevice", "writeDevice", "readReset", "writeReset">>

\* sanitizer_context_map_buffer_device_update and its like.
Publish(t) ==
  /\ Goto(t, "publish", IF progress[t] + 1 = Len(Updates) THEN AfterBuffers(t) ELSE "publish")
  /\ LET field == Updates[progress[t] + 1]
     IN  entry' = [entry EXCEPT ![Current(t)][field] = cached[t][field]]
  /\ progress' = [progress EXCEPT ![t] = (@ + 1) % Len(Updates)]
  /\ UNCHANGED <<calling, task, back, cached, handle, function, stream, handleOf, analysis, counts>>

------------------------------------------------------------------------------
(* AFTER_SYSCALL_SETUP, sanitizer_kernel_launch, and LAUNCH_END.            *)

\* A kernel that is not sampled has neither.
SetupFiltered(t) ==
  /\ Goto(t, "setup", "api")
  /\ UNCHANGED <<calling, task, threadVars, entryVars, counts>>

\* The function is read, and the stream for it created.
SetupSampled(t) ==
  /\ Goto(t, "setup", IF analysis[Current(t)] = Null THEN "module" ELSE "merge")
  /\ function' = [function EXCEPT ![t] = analysis[Current(t)]]
  /\ StreamOf(Current(t), "kernel")
  /\ UNCHANGED <<calling, task, back, cached, progress, handle, entry, handleOf, analysis, allocated,
                 loads, launches, unmerged>>

\* sanitizer_module_load: the function goes into the map, but not to the caller.
ModuleLoad(t) ==
  /\ Goto(t, "module", "merge")
  /\ analysis' = [analysis EXCEPT ![Current(t)] = Current(t)]
  /\ loads' = [loads EXCEPT ![Current(t)] = @ + 1]
  /\ UNCHANGED <<calling, task, threadVars, entry, stream, handleOf, allocated, created, launches,
                 unmerged>>

\* The analysis kernel is launched if the function was known.
Merge(t) ==
  /\ Goto(t, "merge", "kernel")
  /\ unmerged' = [unmerged EXCEPT ![Current(t)] = IF function[t] = Null THEN @ + 1 ELSE @]
  /\ back' = [back EXCEPT ![t] = "api"]
  /\ UNCHANGED <<calling, task, cached, progress, handle, function, entryVars, allocated,
                 created, loads, launches>>

------------------------------------------------------------------------------

Step(t) ==
  \/ \E k \in Kinds : HandleKnown(t, k) \/ StreamGet(t, k) \/ HandleGet(t, k)
  \/ BuffersCached(t) \/ BuffersAsked(t) \/ ReadField(t) \/ Allocate(t) \/ Publish(t)
  \/ SetupFiltered(t) \/ SetupSampled(t) \/ ModuleLoad(t) \/ Merge(t)

Next ==
  \E t \in Threads :
    \/ ApiEnter(t) \/ ApiExit(t) \/ ModuleLoaded(t) \/ LaunchBegin(t)
    \/ Step(t)

Spec == Init /\ [][Next]_vars

------------------------------------------------------------------------------
(* Properties.                                                             *)

\* Whichever threads load modules and launch kernels in a context, in whatever
\* order, its device buffers, each of its streams and the analysis module are
\* set up once; only the launch that loads the module goes without an analysis
\* kernel.
SetUpOnce ==
  \A c \in Contexts :
    /\ allocated[c] <= 1
    /\ \A k \in Kinds : created[c][k] <= 1
    /\ loads[c] <= 1
    /\ unmerged[c] <= loads[c]

\* Past sanitizer_buffer_init a thread has all six buffers, of one allocation
\* of one context, though a thread that finds them in the map tests the first
\* of them only.
CachedComplete ==
  \A t \in Threads :
    pc[t] \in {"setup", "module", "merge", "kernel", "handleKernel"} =>
      \E c \in Contexts : \A f \in Fields : cached[t][f] = <<c, 1>>

\* The handle that a callback uses of a stream is the handle of the stream that
\* the map has for its context, though both are looked up without the lock.
HandlesMatch ==
  \A t \in Threads, k \in Kinds :
    handle[t][k] # Null => handle[t][k] = stream[Current(t)][k]

------------------------------------------------------------------------------
(* The inductive invariant behind the safety properties.                   *)

Locations == {"app", "api", "priority", "kernel", "handlePriority", "handleKernel",
              "buffers", "fields", "allocate", "publish", "setup", "module", "merge"}

TypeOK ==
  /\ pc \in [Threads -> Locations]
  /\ calling \in [Threads -> SUBSET Contexts]
  /\ task \in [Threads -> {"load", "launch"}]
  /\ back \in [Threads -> {"api", "buffers", "fields"}]
  /\ cached \in [Threads -> [Fields -> Buffers \union {Null}]]
  /\ progress \in [Threads -> 0..5]
  /\ handle \in [Threads -> [Kinds -> Streams \union {Null}]]
  /\ function \in [Threads -> Contexts \union {Null}]
  /\ entry \in [Contexts -> [Fields -> Buffers \union {Null}]]
  /\ stream \in [Contexts -> [Kinds -> Streams \union {Null}]]
  /\ handleOf \in [Contexts -> [Kinds -> Streams \union {Null}]]
  /\ analysis \in [Contexts -> Contexts \union {Null}]
  /\ allocated \in [Contexts -> Nat]
  /\ created \in [Contexts -> [Kinds -> Nat]]
  /\ loads \in [Contexts -> Nat]
  /\ launches \in Nat
  /\ unmerged \in [Contexts -> Nat]

\* A thread is in a call on one context unless it runs the application, and
\* alone in it.
CallsInv ==
  /\ \A t \in Threads : pc[t] # "app" => \E c \in Contexts : calling[t] = {c}
  /\ \A t \in Threads : pc[t] = "app" => calling[t] = {}
  /\ \A t, u \in Threads : t # u => calling[t] \intersect calling[u] = {}

\* Updates[i] of the context is still to come from a thread that allocated.
ToPublish(c, i) ==
  \E t \in Threads : calling[t] = {c} /\ pc[t] = "publish" /\ progress[t] < i

\* The entry of a context has the first buffers allocated in it, those apart
\* that a thread is about to put there; nobody allocates others.
EntryInv ==
  /\ \A c \in Contexts : allocated[c] <= 1
  /\ \A c \in Contexts, i \in 1..6 :
       entry[c][Updates[i]] = IF allocated[c] = 0 \/ ToPublish(c, i) THEN Null ELSE <<c, 1>>
  /\ \A t \in Threads : \A c \in calling[t] :
       /\ pc[t] = "allocate" => allocated[c] = 0
       /\ pc[t] = "publish" =>
            allocated[c] = 1 /\ \A f \in Fields : cached[t][f] = <<c, 1>>

\* A thread that asks for the fields of the entry starts without any buffers at
\* the first getter, and has read what the context had when it started.
ReadAt(t) ==
  /\ pc[t] \notin {"fields", "publish"} => progress[t] = 0
  /\ pc[t] \in {"kernel", "handleKernel"} => back[t] = "api"
  /\ pc[t] \in {"priority", "handlePriority"} /\ back[t] = "fields" =>
       \A f \in Fields : cached[t][f] = Null
  /\ pc[t] = "fields" =>
       \A c \in calling[t], i \in 1..6 :
         cached[t][Getters[i]] = IF allocated[c] = 0 \/ progress[t] < i THEN Null ELSE <<c, 1>>

ReadInv == \A t \in Threads : ReadAt(t)

\* A thread that does not read the fields has all buffers or none.
CachedInv ==
  \A t \in Threads :
    pc[t] # "fields" =>
      \/ \E c \in Contexts : \A f \in Fields : cached[t][f] = <<c, 1>>
      \/ /\ \A f \in Fields : cached[t][f] = Null
         /\ pc[t] \notin {"setup", "module", "merge", "kernel", "handleKernel"}

\* The entry has the first stream of each kind created in the context, and no
\* other handle than of that stream.
StreamInv ==
  /\ \A c \in Contexts, k \in Kinds :
       /\ created[c][k] <= 1
       /\ stream[c][k] = IF created[c][k] = 0 THEN Null ELSE <<c, k, 1>>
       /\ handleOf[c][k] \in {Null, stream[c][k]}
  /\ \A t \in Threads, k \in Kinds :
       /\ pc[t] = "app" => handle[t][k] = Null
       /\ \A c \in calling[t] : handle[t][k] \in {Null, stream[c][k]}

\* The analysis function is missing until the module is loaded, and from a
\* launch only while it loads the module, the first of its context.
LoadInv ==
  /\ \A c \in Contexts :
       /\ loads[c] <= 1
       /\ unmerged[c] <= loads[c]
       /\ analysis[c] = IF loads[c] = 0 THEN Null ELSE c
  /\ \A t \in Threads : \A c \in calling[t] :
       /\ pc[t] = "module" => loads[c] = 0 /\ function[t] = Null
       /\ pc[t] = "merge" /\ function[t] = Null => loads[c] = 1 /\ unmerged[c] = 0

IInv == TypeOK /\ CallsInv /\ EntryInv /\ ReadInv /\ CachedInv /\ StreamInv /\ LoadInv

==============================================================================
