------------------------------ MODULE Callbacks ------------------------------
(***************************************************************************)
(* The life of the profiler in a process (gputrigger.c): it configures     *)
(* itself and subscribes; sanitizer_subscribe_callback identifies each     *)
(* thread, serialises the driver API calls of a context, numbers the       *)
(* operations it reports to redshow, and ignores the callbacks of driver   *)
(* calls that the profiler makes itself (cuda-api.c); threads and the      *)
(* process flush when they end, and the latter unsubscribes.               *)
(*                                                                         *)
(* A spin lock is one step here (ContextLock has its steps): the lock of a *)
(* context is the id of its owner.  The lock of the context map is held    *)
(* over the driver call that creates a stream and so is a variable; every  *)
(* other use of the map takes and releases it within a step, which waits   *)
(* until it is free.  A persistent id is taken where a host operation id   *)
(* is; one number stands for both.                                         *)
(***************************************************************************)
EXTENDS Configuration, FiniteSets

CONSTANTS
  Threads,
  Contexts,
  Kernels,
  Environments,  \* see Configuration
  NoId, NoContext,
  MaxThreadIds,  \* bounds the ids handed out to threads
  MaxOps         \* bounds the host operations of the application

ASSUME ConstantsAssumption ==
  /\ NoId \notin Nat
  /\ NoContext \notin Contexts
  /\ MaxThreadIds \in Nat /\ MaxOps \in Nat
  /\ \A e \in Environments : e.whitelist # Unset => IsFile(e.whitelist)

VARIABLES
  process,        \* "started", "exited", "subscribed", "unsubscribed", "finished",
                  \* "crashed"
  env, config,    \* the environment, and what was made of it
  pc,             \* where each thread is
  call,           \* the context of the driver API call each thread is in
  stop,           \* sanitizer_stop_flag
  id,             \* sanitizer_thread_id_local
  threadContext,  \* sanitizer_thread_context
  internal,       \* cuda_internal
  sampling,       \* kernel_sampling
  op,             \* the host operation id that each thread's callbacks work on
  nextThread,     \* sanitizer_thread_id
  nextOp,         \* sanitizer_host_op_id
  owner,          \* lock_thread of each context
  mapLock,        \* the thread that has sanitizer_context_map_lock
  made,           \* what each entry of the map has: priority and kernel stream,
                  \* analysis function
  launched,       \* history: the kernels that each thread launched
  begun,          \* redshow: the operation of each thread's last launch
  lastOp,         \* redshow: the last operation reported on each context
  flushed         \* redshow: thread ids flushed

settings == <<env, config>>
identity == <<stop, id, nextThread>>
locks == <<owner, threadContext>>
entries == <<mapLock, made>>
selection == <<sampling, launched>>
redshow == <<begun, lastOp, flushed>>
vars == <<process, settings, pc, call, identity, internal, selection, op, nextOp, locks,
          entries, redshow>>

Init ==
  /\ process = "started"
  /\ env \in Environments
  /\ config = Configure(env)
  /\ pc = [t \in Threads |-> "app"]
  /\ call = [t \in Threads |-> NoContext]
  /\ stop = [t \in Threads |-> FALSE]
  /\ id = [t \in Threads |-> 0]
  /\ threadContext = [t \in Threads |-> NoContext]
  /\ internal = [t \in Threads |-> FALSE]
  /\ sampling = [t \in Threads |-> TRUE]
  /\ op = [t \in Threads |-> NoId]
  /\ nextThread = 0
  /\ nextOp = 0
  /\ owner = [c \in Contexts |-> NoId]
  /\ mapLock = NoId
  /\ made = [c \in Contexts |-> {}]
  /\ launched = [t \in Threads |-> {}]
  /\ begun = [t \in Threads |-> NoId]
  /\ lastOp = [c \in Contexts |-> NoId]
  /\ flushed = {}

Goto(t, from, to) == pc[t] = from /\ pc' = [pc EXCEPT ![t] = to]

Subscribed == process = "subscribed"

\* The names in the whitelist file, and the kernels that it admits: all if it has
\* no names.
Listed ==
  IF env.whitelist = Unset THEN {}
  ELSE {env.whitelist[i].text : i \in {j \in DOMAIN env.whitelist : ~env.whitelist[j].comment}}

Admitted == IF Listed = {} THEN Kernels ELSE Listed

\* monitor_init_process, on the main thread before there are others.
Subscribe ==
  /\ process = "started"
  /\ process' = IF Exits(env) THEN "exited" ELSE "subscribed"
  /\ UNCHANGED <<settings, pc, call, identity, internal, selection, op, nextOp, locks, entries,
                 redshow>>

------------------------------------------------------------------------------
(* What the subscriber callback does, for the driver calls of the          *)
(* application and for those of the profiler alike.                        *)

\* Mutant: the profiler's own calls are taken for the application's.
IgnoredNever(t) == FALSE

Ignored(t) == internal[t]

MapFree(t) == Ignored(t) \/ mapLock = NoId

\* A thread without an id takes the next one.
Identify(t) ==
  IF Ignored(t) \/ stop[t]
    THEN UNCHANGED identity
    ELSE /\ nextThread < MaxThreadIds
         /\ stop' = [stop EXCEPT ![t] = TRUE]
         /\ id' = [id EXCEPT ![t] = nextThread]
         /\ nextThread' = nextThread + 1

\* Mutant: ENTER goes on while another thread is in a call on the context.
MayEnterAny(t, c) == MapFree(t)

\* sanitizer_context_map_context_lock spins for the map's lock and then for
\* the lock of the context, unless the thread has it.
MayEnter(t, c) == MapFree(t) /\ (Ignored(t) \/ owner[c] \in {NoId, id[t]})

Entered(t, c) ==
  IF Ignored(t)
    THEN UNCHANGED locks
    ELSE /\ owner' = [owner EXCEPT ![c] = id[t]]
         /\ threadContext' = [threadContext EXCEPT ![t] = c]

\* The context saved at ENTER is unlocked, if the thread owns it.
Exited(t) ==
  IF Ignored(t) \/ threadContext[t] = NoContext
    THEN UNCHANGED locks
    ELSE /\ owner' = [owner EXCEPT ![threadContext[t]] = IF @ = id[t] THEN NoId ELSE @]
         /\ threadContext' = [threadContext EXCEPT ![t] = NoContext]

TakeId(t) ==
  IF Ignored(t)
    THEN UNCHANGED <<op, nextOp>>
    ELSE /\ op' = [op EXCEPT ![t] = nextOp]
         /\ nextOp' = nextOp + 1

\* Every wrapper of cuda-api.c sets cuda_internal before the driver calls it
\* makes and resets it after them.
SetInternal(t, inside) == internal' = [internal EXCEPT ![t] = inside]

\* The driver function that a thread is about to call.
DriverCall ==
  [loadCall |-> "cuStreamCreateWithPriority", priorityCall |-> "cuStreamCreateWithPriority",
   kernelCall |-> "cuStreamCreate", moduleCall |-> "cuModuleGetFunction", launchCall |-> "cuLaunchKernel"]

\* The thread does not fault: by a call of a null pointer, or by a division by
\* the sampling frequency.
Runs(t) ==
  /\ pc[t] \in DOMAIN DriverCall => DriverCall[pc[t]] \in BoundFunctions(env.missing)
  /\ pc[t] = "reset" /\ sampling[t] => config.frequency # 0

------------------------------------------------------------------------------
(* Driver API calls of the application.                                    *)

\* DRIVER_API, ENTER.
ApiEnter(t, c) ==
  /\ Subscribed
  /\ Goto(t, "app", "lock")
  /\ call' = [call EXCEPT ![t] = c]
  /\ Identify(t)
  /\ UNCHANGED <<process, settings, internal, selection, op, nextOp, locks, entries, redshow>>

Lock(t) ==
  /\ Goto(t, "lock", "api")
  /\ MayEnter(t, call[t])
  /\ Entered(t, call[t])
  /\ UNCHANGED <<process, settings, call, identity, internal, selection, op, nextOp, entries,
                 redshow>>

\* DRIVER_API, EXIT.
ApiExit(t) ==
  /\ Subscribed
  /\ Goto(t, "api", "exit")
  /\ UNCHANGED <<process, settings, call, identity, internal, selection, op, nextOp, locks, entries,
                 redshow>>

\* sanitizer_context_map_context_unlock looks the context up before it unlocks.
Unlock(t) ==
  /\ Goto(t, "exit", "app")
  /\ MapFree(t)
  /\ Exited(t)
  /\ call' = [call EXCEPT ![t] = NoContext]
  /\ UNCHANGED <<process, settings, identity, internal, selection, op, nextOp, entries, redshow>>

\* Memory is allocated, freed, copied or set.
MemoryOperation(t) ==
  /\ Subscribed
  /\ Goto(t, "api", "report")
  /\ nextOp < MaxOps
  /\ TakeId(t)
  /\ UNCHANGED <<process, settings, call, identity, internal, selection, locks, entries, redshow>>

\* redshow_memory_register and its like.
Report(t) ==
  /\ Goto(t, "report", "api")
  /\ lastOp' = [lastOp EXCEPT ![call[t]] = op[t]]
  /\ op' = [op EXCEPT ![t] = NoId]
  /\ UNCHANGED <<process, settings, call, identity, internal, selection, nextOp, locks, entries,
                 begun, flushed>>

\* A stream is looked up, and created with the map's lock if there is none yet.
GetStream(t, from, stream, create, done) ==
  /\ Goto(t, from, IF stream \in made[call[t]] THEN done ELSE create)
  /\ mapLock = NoId
  /\ IF stream \in made[call[t]]
       THEN UNCHANGED <<internal, mapLock>>
       ELSE SetInternal(t, TRUE) /\ mapLock' = id[t]
  /\ UNCHANGED <<process, settings, call, identity, selection, op, nextOp, locks, made, redshow>>

\* MODULE_LOADED: most of it is CubinMaps; it ends with sanitizer_buffer_init,
\* which has sanitizer_priority_stream_get create the stream.
LoadModule(t) ==
  /\ Subscribed
  /\ Goto(t, "api", "load")
  /\ UNCHANGED <<process, settings, call, identity, internal, selection, op, nextOp, locks, entries,
                 redshow>>

LoadStream(t) == GetStream(t, "load", "priority", "loadCall", "api")

------------------------------------------------------------------------------
(* Kernel launches.                                                        *)

\* LAUNCH_BEGIN takes its id and looks the kernel up; kernel_sampling is not
\* set again when a kernel is not filtered.
LaunchBegin(t) ==
  /\ Subscribed
  /\ Goto(t, "api", "begin")
  /\ nextOp < MaxOps
  /\ TakeId(t)
  /\ \E k \in Kernels :
       /\ sampling' = [sampling EXCEPT ![t] = @ /\ ~Filtered(config.whitelist, k)]
       /\ launched' = [launched EXCEPT ![t] = @ \union {k}]
  /\ UNCHANGED <<process, settings, call, identity, internal, locks, entries, redshow>>

\* redshow_kernel_launch_begin.
ReportBegin(t) ==
  /\ Goto(t, "begin", "priority")
  /\ begun' = [begun EXCEPT ![t] = op[t]]
  /\ lastOp' = [lastOp EXCEPT ![call[t]] = op[t]]
  /\ UNCHANGED <<process, settings, call, identity, internal, selection, op, nextOp, locks, entries,
                 flushed>>

\* sanitizer_priority_stream_get.
PriorityStream(t) == GetStream(t, "priority", "priority", "priorityCall", "reset")

\* sanitizer_kernel_launch_callback, with the look-ups of sanitizer_buffer_init.
LaunchReset(t) ==
  /\ Runs(t)
  /\ Goto(t, "reset", "setup")
  /\ mapLock = NoId
  /\ UNCHANGED <<process, settings, call, identity, internal, selection, op, nextOp, locks, entries,
                 redshow>>

\* AFTER_SYSCALL_SETUP launches the analysis kernel, if this one is sampled.
SyscallSetup(t) ==
  /\ Subscribed
  /\ Goto(t, "setup", IF config.preprocessor /\ sampling[t] THEN "kernel" ELSE "running")
  /\ UNCHANGED <<process, settings, call, identity, internal, selection, op, nextOp, locks, entries,
                 redshow>>

\* sanitizer_kernel_launch first looks its stream up.
KernelStream(t) == GetStream(t, "kernel", "kernel", "kernelCall", "analysis")

\* What comes next: the launch, or the loading of the function at the first one.
AnalysisCall(t) ==
  Goto(t, "analysis", IF "function" \in made[call[t]] THEN "launchCall" ELSE "moduleCall")

\* Mutant: the wrappers do not set cuda_internal.
AnalysisKernelOpen(t) ==
  /\ AnalysisCall(t)
  /\ UNCHANGED <<process, settings, call, identity, internal, selection, op, nextOp, locks, entries,
                 redshow>>

AnalysisKernel(t) ==
  /\ AnalysisCall(t)
  /\ SetInternal(t, TRUE)
  /\ UNCHANGED <<process, settings, call, identity, selection, op, nextOp, locks, entries, redshow>>

\* sanitizer_module_load stores the function; its caller still has none to launch.
ModuleUpdate(t) ==
  /\ Goto(t, "module", "running")
  /\ mapLock = NoId
  /\ made' = [made EXCEPT ![call[t]] = @ \union {"function"}]
  /\ UNCHANGED <<process, settings, call, identity, internal, selection, op, nextOp, locks, mapLock,
                 redshow>>

\* LAUNCH_END, up to the end of a sampled kernel's trace: KernelTrace has that
\* part, and the null pointer which ends a process there in the build as it is.
LaunchEnd(t) ==
  /\ Subscribed
  /\ Goto(t, "running", "end")
  /\ sampling[t] => mapLock = NoId
  /\ UNCHANGED <<process, settings, call, identity, internal, selection, op, nextOp, locks, entries,
                 redshow>>

\* redshow_kernel_launch_end.
ReportEnd(t) ==
  /\ Goto(t, "end", "api")
  /\ lastOp' = [lastOp EXCEPT ![call[t]] = op[t]]
  /\ op' = [op EXCEPT ![t] = NoId]
  /\ begun' = [begun EXCEPT ![t] = NoId]
  /\ UNCHANGED <<process, settings, call, identity, internal, selection, nextOp, locks, entries,
                 flushed>>

------------------------------------------------------------------------------
(* Driver calls of the profiler: their callbacks arrive on the same thread. *)

Crash(t) ==
  /\ ~Runs(t)
  /\ process' = "crashed"
  /\ UNCHANGED <<settings, pc, call, identity, internal, selection, op, nextOp, locks, entries,
                 redshow>>

Inner(at) ==
  at \in {"loadCall", "loadIn", "priorityCall", "priorityIn", "kernelCall", "kernelIn",
          "moduleCall", "moduleIn", "launchCall", "launchIn", "launchOut"}

InnerEnter(t) ==
  /\ Runs(t)
  /\ \/ Goto(t, "loadCall", "loadIn")
     \/ Goto(t, "priorityCall", "priorityIn")
     \/ Goto(t, "kernelCall", "kernelIn")
     \/ Goto(t, "moduleCall", "moduleIn")
     \/ Goto(t, "launchCall", "launchIn")
  /\ MayEnter(t, call[t])
  /\ Identify(t)
  /\ Entered(t, call[t])
  /\ UNCHANGED <<process, settings, call, internal, selection, op, nextOp, entries, redshow>>

InnerLaunch(t) ==
  /\ Goto(t, "launchIn", "launchOut")
  /\ TakeId(t)
  /\ UNCHANGED <<process, settings, call, identity, internal, selection, locks, entries, redshow>>

\* The call returns and cuda_internal is reset.
InnerExit(t) ==
  /\ MapFree(t)
  /\ SetInternal(t, FALSE)
  /\ Exited(t)
  /\ UNCHANGED <<process, settings, call, identity, selection, op, nextOp, redshow>>

\* The stream is stored, and the map's lock released.
StreamMade(t, stream) ==
  /\ made' = [made EXCEPT ![call[t]] = @ \union {stream}]
  /\ mapLock' = NoId
  /\ InnerExit(t)

InnerReturn(t) ==
  \/ Goto(t, "loadIn", "api") /\ StreamMade(t, "priority")
  \/ Goto(t, "priorityIn", "reset") /\ StreamMade(t, "priority")
  \/ Goto(t, "kernelIn", "analysis") /\ StreamMade(t, "kernel")
  \/ Goto(t, "moduleIn", "module") /\ InnerExit(t) /\ UNCHANGED entries
  \/ Goto(t, "launchOut", "running") /\ InnerExit(t) /\ UNCHANGED entries

------------------------------------------------------------------------------
(* The ends of threads and of the process.                                 *)

\* Mutant: sanitizer_stop_flag stays set.
FlushThreadOnly(t) ==
  /\ flushed' = IF stop[t] THEN flushed \union {id[t]} ELSE flushed
  /\ UNCHANGED stop

\* sanitizer_device_flush.
FlushThread(t) ==
  /\ flushed' = IF stop[t] THEN flushed \union {id[t]} ELSE flushed
  /\ stop' = [stop EXCEPT ![t] = FALSE]

\* monitor_fini_thread; a destructor of the thread may still call the driver.
ThreadEnd(t) ==
  /\ process \notin {"exited", "crashed"}
  /\ pc[t] = "app"
  /\ stop[t]
  /\ FlushThread(t)
  /\ UNCHANGED <<process, settings, pc, call, id, nextThread, internal, selection, op, nextOp, locks,
                 entries, begun, lastOp>>

\* The driver reports an error to the profiler: HPCRUN_CUDA_API_CALL exits.
DriverFailed(t) ==
  \E at \in {"loadIn", "priorityIn", "kernelIn", "moduleIn", "launchOut"} : Goto(t, at, "ending")

\* monitor_fini_process on some thread, while others still run.  Unsubscribing is
\* taken for the end of all callbacks: the code then subscribes again, and disables
\* for the new subscriber every domain but that of the driver API, which is off
\* for it if no domain is on for a fresh subscriber.
ProcessEnd(t) ==
  /\ Subscribed
  /\ Goto(t, "app", "ending") \/ DriverFailed(t)
  /\ process' = "unsubscribed"
  /\ FlushThread(t)
  /\ UNCHANGED <<settings, call, id, nextThread, internal, selection, op, nextOp, locks, entries,
                 begun, lastOp>>

\* redshow_flush, then the wait for a counter that is zero.
ProcessFlush(t) ==
  /\ Goto(t, "ending", "ended")
  /\ process' = "finished"
  /\ flushed' = flushed \union (0..(nextThread - 1))
  /\ UNCHANGED <<settings, call, identity, internal, selection, op, nextOp, locks, entries, begun,
                 lastOp>>

\* Without a subscriber the rest of a call has no callbacks: the lock stays.
ReturnUnseen(t) ==
  /\ process \in {"unsubscribed", "finished"}
  /\ pc[t] \in {"api", "setup", "running"}
  /\ pc' = [pc EXCEPT ![t] = "app"]
  /\ call' = [call EXCEPT ![t] = NoContext]
  /\ op' = [op EXCEPT ![t] = NoId]
  /\ begun' = [begun EXCEPT ![t] = NoId]
  /\ UNCHANGED <<process, settings, identity, internal, selection, nextOp, locks, entries, lastOp,
                 flushed>>

------------------------------------------------------------------------------

\* What a thread does until its call returns.
Step(t) ==
  /\ process # "crashed"
  /\ \/ Lock(t) \/ Unlock(t) \/ Report(t) \/ LoadStream(t)
     \/ ReportBegin(t) \/ PriorityStream(t) \/ LaunchReset(t)
     \/ SyscallSetup(t) \/ KernelStream(t) \/ AnalysisKernel(t) \/ ModuleUpdate(t)
     \/ LaunchEnd(t) \/ ReportEnd(t)
     \/ InnerEnter(t) \/ InnerLaunch(t) \/ InnerReturn(t) \/ Crash(t)
     \/ ProcessFlush(t) \/ ReturnUnseen(t)

Next ==
  \/ Subscribe
  \/ \E t \in Threads :
       \/ \E c \in Contexts : ApiEnter(t, c)
       \/ ApiExit(t) \/ MemoryOperation(t) \/ LoadModule(t) \/ LaunchBegin(t)
       \/ Step(t)
       \/ ThreadEnd(t) \/ ProcessEnd(t)

Spec == Init /\ [][Next]_vars

\* The scheduler runs every thread, and a driver call returns after finitely
\* many operations.
FairSpec == Spec /\ \A t \in Threads : WF_vars(Step(t)) /\ SF_vars(ApiExit(t))

------------------------------------------------------------------------------
(* Properties.                                                             *)

\* A thread is in a call, with its ENTER past the lock and its EXIT not past it.
InCall(t) == pc[t] \notin {"app", "lock", "ending", "ended"}

\* In the call and until the process ends, the thread owns the lock of the
\* context of the call and remembers it, whatever driver calls the profiler
\* makes on the way: its EXIT unlocks what its ENTER locked.
CallKeepsContext ==
  \A t \in Threads :
    InCall(t) => /\ threadContext[t] = call[t]
                 /\ owner[call[t]] = id[t]

\* A thread is between the reports of LAUNCH_BEGIN and LAUNCH_END.
Launching(t) ==
  \/ pc[t] \in {"priority", "reset", "setup", "kernel", "analysis", "module", "running", "end"}
  \/ Inner(pc[t]) /\ pc[t] \notin {"loadCall", "loadIn"}

\* LAUNCH_END reports the operation that LAUNCH_BEGIN reported: the analysis
\* kernel launched in between does not take the statics of the callback.
LaunchEndsAsBegun ==
  \A t \in Threads :
    Launching(t) => op[t] = begun[t]

\* redshow gets the operations on a context in the order of their ids, though
\* an id is taken before it is reported and the counter is shared by all
\* contexts.
OpsInContextOrder ==
  [][\A c \in Contexts :
       lastOp[c] # NoId => lastOp'[c] >= lastOp[c]]_vars

\* A thread in a callback has an id of its own, which was not flushed yet as
\* long as the process runs: also when it calls the driver after its flush.
FreshIds ==
  \A t \in Threads :
    (InCall(t) \/ pc[t] = "lock") =>
      /\ stop[t]
      /\ process \in {"finished", "crashed"} \/ id[t] \notin flushed
      /\ \A u \in Threads \ {t} : InCall(u) \/ pc[u] = "lock" => id[u] # id[t]

\* A thread has its kernels analysed up to the first one it launches that the
\* whitelist file does not admit, and none from there on, that one included: its
\* flag is never set again.  A file of comments only admits all kernels.
SamplingFollowsList ==
  \A t \in Threads :
    sampling[t] <=> launched[t] \subseteq Admitted

\* The driver has all that the profiler calls.
Bound == \A i \in DOMAIN DriverFunctions : DriverFunctions[i] \notin env.missing

\* With such a driver a call that got its lock returns, or the process ends first:
\* no callback faults, none waits for a lock that its own thread holds, nor for
\* good for another, though the map's lock is held over driver calls.
CallsReturn ==
  \A t \in Threads :
    Bound /\ InCall(t) ~> pc[t] = "app" \/ process = "finished"

------------------------------------------------------------------------------
(* The inductive invariant behind the safety properties.                   *)

Locations ==
  {"app", "lock", "api", "exit", "report", "load", "loadCall", "loadIn",
   "begin", "priority", "priorityCall", "priorityIn", "reset", "setup",
   "kernel", "kernelCall", "kernelIn", "analysis", "moduleCall", "moduleIn", "module",
   "launchCall", "launchIn", "launchOut", "running", "end", "ending", "ended"}

TypeOK ==
  /\ process \in {"started", "exited", "subscribed", "unsubscribed", "finished", "crashed"}
  /\ env \in Environments /\ config = Configure(env)
  /\ pc \in [Threads -> Locations]
  /\ call \in [Threads -> Contexts \union {NoContext}]
  /\ stop \in [Threads -> BOOLEAN]
  /\ id \in [Threads -> Nat]
  /\ threadContext \in [Threads -> Contexts \union {NoContext}]
  /\ internal \in [Threads -> BOOLEAN]
  /\ sampling \in [Threads -> BOOLEAN]
  /\ op \in [Threads -> Nat \union {NoId}]
  /\ nextThread \in Nat /\ nextOp \in Nat
  /\ owner \in [Contexts -> Nat \union {NoId}]
  /\ mapLock \in Nat \union {NoId}
  /\ made \in [Contexts -> SUBSET {"priority", "kernel", "function"}]
  /\ launched \in [Threads -> SUBSET Kernels]
  /\ begun \in [Threads -> Nat \union {NoId}]
  /\ lastOp \in [Contexts -> Nat \union {NoId}]
  /\ flushed \subseteq Nat

\* The thread is between ENTER and EXIT, or waits for the lock in ENTER.
Called(t) == InCall(t) \/ pc[t] = "lock"

\* A thread makes a driver call of the profiler exactly while cuda_internal is
\* set, unless the process ends in the call.
InternalInv ==
  \A t \in Threads : pc[t] \notin {"ending", "ended"} => (internal[t] <=> Inner(pc[t]))

\* Ids that are in use are different, handed out, and not flushed yet.
IdInv ==
  /\ \A t \in Threads :
       /\ Called(t) => stop[t] /\ call[t] \in Contexts
       /\ stop[t] => /\ id[t] < nextThread
                     /\ process \in {"finished", "crashed"} \/ id[t] \notin flushed
  /\ \A t, u \in Threads : stop[t] /\ stop[u] /\ t # u => id[t] # id[u]
  /\ \A i \in flushed : i < nextThread

\* The thread works on an operation that it has not reported to the end.
Operating(t) == pc[t] \in {"report", "begin"} \/ Launching(t)

\* The operation of a thread is later than any other reported on its context.
OpInv ==
  /\ \A c \in Contexts : lastOp[c] # NoId => lastOp[c] < nextOp
  /\ \A t \in Threads :
       Operating(t) =>
         /\ op[t] \in Nat /\ op[t] < nextOp
         /\ lastOp[call[t]] # NoId => lastOp[call[t]] <= op[t]

IInv ==
  /\ TypeOK /\ InternalInv /\ IdInv
  /\ CallKeepsContext /\ LaunchEndsAsBegun /\ OpInv /\ SamplingFollowsList

==============================================================================
