------------------------------ MODULE KernelTrace ------------------------------
(***************************************************************************)
(* The launch of a kernel, from the LAUNCH_BEGIN to the LAUNCH_END         *)
(* callback of gputrigger.c: the filter by name, the patch buffer the      *)
(* device writes records to, the host's polling of that buffer while the   *)
(* kernel runs, and the analysis of what it drained.                       *)
(*                                                                         *)
(* The host sees the device through copies: a struct copy of the patch     *)
(* buffer is one step, the copy of its records another, the write of its   *)
(* full flag a third, and the device goes on between them.  Calls on a     *)
(* context exclude one another (ContextCalls, which ContextLock            *)
(* implements), and the channel of a thread is a queue (AnalysisQueue,     *)
(* which BufferChannel implements).  The instrumented kernel is external:  *)
(* its steps are those the comments and the polling loop rely on.          *)
(***************************************************************************)
EXTENDS BlockSampling, SequencesExt

CONSTANTS
  Threads, Contexts,
  NoContext,     \* a null device buffer
  Kernels,       \* names of the kernels the application launches
  Whitelist,     \* the names to trace, Kernels when no whitelist is given
  Preprocessor,  \* enable_gpupunk_preprocessor is not 0
  Frequency,     \* env_block_sampling_frequency
  BlockDim,      \* threads of a block
  Capacity,      \* sanitizer_gpu_patch_record_num
  MaxGrid,       \* bound on the blocks of a launch
  MaxRecords     \* bound on the records of a launch

ASSUME ConstantsAssumption ==
  /\ NoContext \notin Contexts
  /\ Kernels # {} /\ Whitelist \subseteq Kernels
  /\ Preprocessor \in BOOLEAN
  /\ {Frequency, BlockDim, Capacity, MaxGrid} \subseteq Nat \ {0}
  /\ MaxGrid < IntValues \div 2  \* an int holds grid_dim; its products may overflow
  /\ MaxRecords \in Nat

VARIABLES
  pc,          \* where each host thread is
  calling,     \* the context each thread is in a driver API call on
  created,     \* contexts created
  hostBuffer,  \* threads whose sanitizer_gpu_patch_buffer_host is not null
  buffer,      \* context whose device and reset buffers each thread uses
  sampling,    \* kernel_sampling of each thread
  launch,      \* kernel and grid of each thread's launch
  snapshot,    \* what each thread's host buffer holds
  trace,       \* the records in each thread's sanitizer_buffer_t in hand
  queue,       \* traces in each thread's channel
  analysed,    \* records of the launch given to redshow_analyze
  resetOffset, \* block_sampling_offset of each context's reset buffer
  device,      \* the device patch buffer of each context
  kernel       \* the kernel on each context's stream

channelVars == <<trace, queue, analysed>>
deviceVars == <<resetOffset, device, kernel>>
threadVars == <<calling, created, hostBuffer, buffer, sampling, launch, snapshot>>
vars == <<pc, threadVars, channelVars, deviceVars>>

Locations == {"app", "api", "reset", "start", "end", "poll", "check",
              "continue", "consume", "streamSync", "fault"}

Calls == INSTANCE ContextCalls WITH Keys <- Contexts

Init ==
  /\ pc = [t \in Threads |-> "app"]
  /\ Calls!Init
  /\ created = {}
  /\ hostBuffer = {}
  /\ buffer = [t \in Threads |-> NoContext]
  /\ sampling = [t \in Threads |-> TRUE]
  /\ launch = [t \in Threads |-> [name |-> CHOOSE k \in Kernels : TRUE, grid |-> 1]]
  /\ snapshot = [t \in Threads |-> [full |-> FALSE, head |-> 0, threads |-> 0]]
  /\ trace = [t \in Threads |-> <<>>]
  /\ queue = [t \in Threads |-> <<>>]
  /\ analysed = [t \in Threads |-> <<>>]
  /\ resetOffset = [c \in Contexts |-> 0]
  /\ device = [c \in Contexts |-> [full |-> FALSE, records |-> <<>>, threads |-> 0,
                                   frequency |-> 0, offset |-> 0]]
  /\ kernel = [c \in Contexts |-> [running |-> FALSE, buffer |-> c, live |-> 0, pushed |-> 0]]

Goto(t, from, to) == pc[t] = from /\ pc' = [pc EXCEPT ![t] = to]

\* The context of the call the thread is in.
Current(t) == CHOOSE c \in Contexts : c \in calling[t]

------------------------------------------------------------------------------
(* Driver API calls.                                                       *)

\* CONTEXT_CREATION_FINISHED: the creating thread gets a host buffer.
CreateContext(t) ==
  /\ pc[t] = "app"
  /\ \E c \in Contexts \ created : created' = created \union {c}
  /\ hostBuffer' = hostBuffer \union {t}
  /\ UNCHANGED <<pc, calling, buffer, sampling, launch, snapshot, channelVars, deviceVars>>

ApiEnter(t) ==
  /\ Goto(t, "app", "api")
  /\ \E c \in created : Calls!Enter(t, c)
  /\ UNCHANGED <<created, hostBuffer, buffer, sampling, launch, snapshot, channelVars, deviceVars>>

ApiExit(t) ==
  /\ Goto(t, "api", "app")
  /\ Calls!Exit(t)
  /\ UNCHANGED <<created, hostBuffer, buffer, sampling, launch, snapshot, channelVars, deviceVars>>

------------------------------------------------------------------------------
(* LAUNCH_BEGIN.                                                           *)

LaunchBegin(t) ==
  /\ Goto(t, "api", "reset")
  /\ \E k \in Kernels, g \in 1..MaxGrid :
       /\ launch' = [launch EXCEPT ![t] = [name |-> k, grid |-> g]]
       /\ sampling' = [sampling EXCEPT ![t] = @ /\ k \in Whitelist]
  /\ analysed' = [analysed EXCEPT ![t] = <<>>]
  /\ UNCHANGED <<calling, created, hostBuffer, buffer, snapshot, trace, queue, deviceVars>>

\* sanitizer_buffer_init looks the buffers of the context up, or allocates them,
\* once per thread.
BufferOf(t) == IF buffer[t] = NoContext THEN Current(t) ELSE buffer[t]

\* sanitizer_kernel_launch_callback resets the device buffer and waits for the
\* copy.
ResetBuffer(t) ==
  /\ Goto(t, "reset", "start")
  /\ buffer' = [buffer EXCEPT ![t] = BufferOf(t)]
  /\ LET g == launch[t].grid
     IN  \E offset \in IF sampling[t] THEN Offsets(g, Frequency) ELSE {0} :
           /\ resetOffset' = [resetOffset EXCEPT ![BufferOf(t)] = offset]
           /\ device' = [device EXCEPT ![BufferOf(t)] =
                [full |-> FALSE, records |-> <<>>, threads |-> UInt(g * BlockDim),
                 frequency |-> IF sampling[t] THEN Frequency ELSE 0, offset |-> offset]]
  /\ UNCHANGED <<calling, created, hostBuffer, sampling, launch, snapshot, channelVars, kernel>>

\* The driver puts the kernel on its stream.
KernelStart(t) ==
  /\ Goto(t, "start", "end")
  /\ LET b == buffer[t]
         traced == TracedBlocks(launch[t].grid, device[b].frequency, device[b].offset)
     IN  kernel' = [kernel EXCEPT ![Current(t)] =
           [running |-> TRUE, buffer |-> b, live |-> Cardinality(traced) * BlockDim, pushed |-> 0]]
  /\ UNCHANGED <<threadVars, channelVars, resetOffset, device>>

------------------------------------------------------------------------------
(* The instrumented kernel.  Its threads append numbered records; the one  *)
(* that fills the buffer raises full, and nothing moves until the host     *)
(* lowers it and the head is back at the start.                            *)

Blocked(b) == Len(device[b].records) = Capacity

Push(c) ==
  /\ kernel[c].live > 0
  /\ kernel[c].pushed < MaxRecords
  /\ LET b == kernel[c].buffer
         n == kernel[c].pushed + 1
     IN  /\ ~Blocked(b)
         /\ device' = [device EXCEPT ![b].records = Append(@, n),
                                     ![b].full = Len(device[b].records) + 1 = Capacity]
         /\ kernel' = [kernel EXCEPT ![c].pushed = n]
  /\ UNCHANGED <<pc, threadVars, channelVars, resetOffset>>

Resume(c) ==
  /\ kernel[c].live > 0
  /\ LET b == kernel[c].buffer
     IN  /\ Blocked(b) /\ ~device[b].full
         /\ device' = [device EXCEPT ![b].records = <<>>]
  /\ UNCHANGED <<pc, threadVars, channelVars, resetOffset, kernel>>

ThreadExit(c) ==
  /\ kernel[c].live > 0
  /\ ~Blocked(kernel[c].buffer)
  /\ device' = [device EXCEPT ![kernel[c].buffer].threads = UInt(@ - 1)]
  /\ kernel' = [kernel EXCEPT ![c].live = @ - 1]
  /\ UNCHANGED <<pc, threadVars, channelVars, resetOffset>>

KernelEnd(c) ==
  /\ kernel[c].running
  /\ kernel[c].live = 0
  /\ kernel' = [kernel EXCEPT ![c].running = FALSE]
  /\ UNCHANGED <<pc, threadVars, channelVars, resetOffset, device>>

------------------------------------------------------------------------------
(* LAUNCH_END: sanitizer_kernel_launch_sync for a sampled kernel.          *)

SyncSampled(t) ==
  /\ Goto(t, "end", IF t \in hostBuffer THEN "poll" ELSE "fault")
  /\ sampling[t]
  /\ UNCHANGED <<threadVars, channelVars, deviceVars>>

SkipFiltered(t) ==
  /\ Goto(t, "end", "streamSync")
  /\ ~sampling[t]
  /\ UNCHANGED <<threadVars, channelVars, deviceVars>>

\* The host copies of the preprocessor's buffers are allocated only when the
\* thread has no host buffer, which it has here: they are null.
Poll(t) ==
  /\ Goto(t, "poll", IF Preprocessor THEN "fault" ELSE "check")
  /\ LET d == device[buffer[t]]
     IN  snapshot' = [snapshot EXCEPT ![t] =
           [full |-> d.full, head |-> Len(d.records), threads |-> d.threads]]
  /\ UNCHANGED <<calling, created, hostBuffer, buffer, sampling, launch, channelVars, deviceVars>>

AllExited(t) ==
  snapshot[t].threads =
    LeftThreads(launch[t].grid, BlockDim, Frequency, resetOffset[buffer[t]])

\* Mutant: the host drains whatever records the copy shows.
ReadyWhenWritten(t) == AllExited(t) \/ snapshot[t].head > 0

Ready(t) == AllExited(t) \/ snapshot[t].full

KeepPolling(t) ==
  /\ Goto(t, "check", "poll")
  /\ ~Ready(t)
  /\ UNCHANGED <<threadVars, channelVars, deviceVars>>

\* buffer_analyze finds the pool exhausted and empties the channel first.
PoolExhausted(t) ==
  /\ pc[t] = "check"
  /\ Ready(t)
  /\ queue[t] # <<>>
  /\ analysed' = [analysed EXCEPT ![t] = @ \o FlattenSeq(queue[t])]
  /\ queue' = [queue EXCEPT ![t] = <<>>]
  /\ UNCHANGED <<pc, threadVars, trace, deviceVars>>

CopyRecords(t) ==
  /\ Goto(t, "check", "continue")
  /\ Ready(t)
  /\ trace' = [trace EXCEPT ![t] =
       LET records == device[buffer[t]].records
       IN  SubSeq(records, 1, IF snapshot[t].head < Len(records)
                                THEN snapshot[t].head ELSE Len(records))]
  /\ UNCHANGED <<threadVars, queue, analysed, deviceVars>>

\* Tell the kernel to continue, only by its full flag, and push the trace.
ContinueKernel(t) ==
  /\ Goto(t, "continue", IF AllExited(t) THEN "consume" ELSE "poll")
  /\ snapshot' = [snapshot EXCEPT ![t].full = FALSE]
  /\ device' = [device EXCEPT ![buffer[t]].full = FALSE]
  /\ queue' = [queue EXCEPT ![t] = Append(@, trace[t])]
  /\ trace' = [trace EXCEPT ![t] = <<>>]
  /\ UNCHANGED <<calling, created, hostBuffer, buffer, sampling, launch, analysed, resetOffset, kernel>>

Consume(t) ==
  /\ Goto(t, "consume", "streamSync")
  /\ analysed' = [analysed EXCEPT ![t] = @ \o FlattenSeq(queue[t])]
  /\ queue' = [queue EXCEPT ![t] = <<>>]
  /\ UNCHANGED <<threadVars, trace, deviceVars>>

\* Mutant: the launch returns without waiting for its stream.
StreamSyncNot(t) ==
  /\ Goto(t, "streamSync", "api")
  /\ UNCHANGED <<threadVars, channelVars, deviceVars>>

\* sanitizerStreamSynchronize of the launch's stream, sampled or not.
StreamSync(t) ==
  /\ Goto(t, "streamSync", "api")
  /\ ~kernel[Current(t)].running
  /\ UNCHANGED <<threadVars, channelVars, deviceVars>>

------------------------------------------------------------------------------

HostStep(t) ==
  \/ ResetBuffer(t) \/ KernelStart(t) \/ SyncSampled(t) \/ SkipFiltered(t)
  \/ Poll(t) \/ KeepPolling(t) \/ PoolExhausted(t) \/ CopyRecords(t)
  \/ ContinueKernel(t) \/ Consume(t) \/ StreamSync(t)

DeviceStep(c) == Push(c) \/ Resume(c) \/ ThreadExit(c) \/ KernelEnd(c)

Next ==
  \/ \E t \in Threads :
       CreateContext(t) \/ ApiEnter(t) \/ LaunchBegin(t) \/ ApiExit(t) \/ HostStep(t)
  \/ \E c \in Contexts : DeviceStep(c)

Spec == Init /\ [][Next]_vars

\* A thread in a callback runs on, and a kernel that is not waiting for the
\* host makes progress.
FairSpec ==
  /\ Spec
  /\ \A t \in Threads : WF_vars(HostStep(t))
  /\ \A c \in Contexts : WF_vars(DeviceStep(c))

------------------------------------------------------------------------------

Records == Seq(1..MaxRecords)
Counters == 0..(IntValues - 1)
MaxThreads == MaxGrid * BlockDim

DeviceBuffers ==
  [full : BOOLEAN, records : Records, threads : Counters,
   frequency : {0, Frequency}, offset : 0..(Frequency - 1)]

KernelStates ==
  [running : BOOLEAN, buffer : Contexts, live : 0..MaxThreads,
   pushed : 0..MaxRecords]

\* A thread is in a call on one context, the snapshot and the counters stay
\* within the launch's grid and the buffer's capacity.
TypeOK ==
  /\ pc \in [Threads -> Locations]
  /\ calling \in [Threads -> SUBSET created]
  /\ \A t \in Threads : Cardinality(calling[t]) = IF pc[t] = "app" THEN 0 ELSE 1
  /\ created \subseteq Contexts
  /\ hostBuffer \subseteq Threads
  /\ buffer \in [Threads -> created \union {NoContext}]
  /\ sampling \in [Threads -> BOOLEAN]
  /\ launch \in [Threads -> [name : Kernels, grid : 1..MaxGrid]]
  /\ snapshot \in [Threads -> [full : BOOLEAN, head : 0..Capacity, threads : Counters]]
  /\ trace \in [Threads -> Records] /\ analysed \in [Threads -> Records]
  /\ queue \in [Threads -> Seq(Records)]
  /\ resetOffset \in [Contexts -> 0..(Frequency - 1)]
  /\ device \in [Contexts -> DeviceBuffers]
  /\ \A c \in Contexts : Len(device[c].records) <= Capacity
  /\ kernel \in [Contexts -> KernelStates]

\* The thread is between the start of a traced kernel and the return of its
\* launch.
Tracing(t) ==
  pc[t] \in {"end", "poll", "check", "continue", "consume", "streamSync"} /\ sampling[t]

\* Records in the device buffer that no copy has taken yet.
Undrained(t) ==
  LET d == device[buffer[t]]
  IN  IF pc[t] \in {"continue", "consume", "streamSync"}
           \/ (Len(d.records) = Capacity /\ ~d.full)
        THEN <<>>
        ELSE d.records

\* The records of the launch the profiler has or will take.
Collected(t) == analysed[t] \o FlattenSeq(queue[t]) \o trace[t] \o Undrained(t)

\* The records the kernel on a context's stream has written.
Written(c) == [n \in 1..kernel[c].pushed |-> n]

\* At any moment of a traced launch the records analysed, queued, in hand and
\* still on the device are those the kernel wrote, each once and in order:
\* although the host decides on a copy that the device has outrun, and tells
\* the kernel to continue by writing one field of a structure that the kernel
\* is updating.
TraceIntact ==
  \A t \in Threads : Tracing(t) => Collected(t) = Written(Current(t))

\* When the sampled threads of a launch have been waited for none is left, for
\* every grid, offset and frequency: num_left_threads is what the device ends
\* at, and the analysis has every record.
CompleteAtEnd ==
  \A t \in Threads :
    pc[t] = "streamSync" /\ sampling[t] =>
      /\ kernel[Current(t)].live = 0
      /\ analysed[t] = Written(Current(t))

\* A kernel runs, sampled or not, only while the thread that launched it is in
\* the launch: no record or exit of one launch reaches the buffer that the
\* next one has reset (gputrigger.c, "NOTICE: Need to synchronize this stream").
QuietBetweenLaunches ==
  \A c \in Contexts :
    kernel[c].running =>
      \E t \in Threads : c \in calling[t] /\ pc[t] \in Locations \ {"app", "api", "reset", "start"}

\* A thread with a host buffer launches so few threads that an int counts them.
Countable(t) ==
  /\ pc[t] \in {"end", "poll", "streamSync"}
  /\ t \in hostBuffer
  /\ launch[t].grid * BlockDim < IntValues \div 2

\* The step of the host that sees the end: a poll after the last sampled thread
\* has exited ends the loop, since num_left_threads, computed in ints and widened,
\* is what the device has counted down to.
EndIsSeen ==
  [][\A t \in Threads :
       Poll(t) /\ kernel[Current(t)].live = 0 /\ launch[t].grid * BlockDim < IntValues \div 2
         => AllExited(t)']_vars

\* Every such launch returns to the application.
LaunchReturns == \A t \in Threads : Countable(t) ~> pc[t] = "api"

------------------------------------------------------------------------------
(* The inductive invariant behind the safety properties.                   *)

\* The kernel of the thread's launch was put on its stream.
Launched == {"end", "poll", "check", "continue", "consume", "streamSync", "fault"}

\* A thread in a callback is in a call on a context that is its own for as long
\* as the call lasts.
CallsInv ==
  /\ \A t \in Threads : pc[t] # "app" => \E c \in Contexts : calling[t] = {c}
  /\ \A t \in Threads : pc[t] = "app" => calling[t] = {}
  /\ \A t, u \in Threads : t # u => calling[t] \intersect calling[u] = {}

\* A kernel with threads left runs, in the launch that started it, and fills
\* the buffer that this launch has reset.
KernelInv ==
  /\ \A t \in Threads : pc[t] \in Launched \union {"start"} => buffer[t] \in Contexts
  /\ \A t \in Threads : pc[t] \in Launched => kernel[Current(t)].buffer = buffer[t]
  /\ \A c \in Contexts : kernel[c].live > 0 => kernel[c].running
  /\ QuietBetweenLaunches

\* Only a full buffer has its flag up.
FullInv == \A c \in Contexts : device[c].full => Len(device[c].records) = Capacity

\* Where the host has traces: none in hand but to push it, none in the channel
\* once the launch was consumed, nothing analysed before the kernel starts.
ChannelInv ==
  \A t \in Threads :
    /\ pc[t] \in {"poll", "check", "continue", "consume"} => sampling[t]
    /\ pc[t] # "continue" => trace[t] = <<>>
    /\ pc[t] \in {"app", "api", "reset", "start", "end", "streamSync"} => queue[t] = <<>>
    /\ pc[t] \in {"reset", "start", "end"} => analysed[t] = <<>>

\* Threads of the launch that report to the device buffer, by the host's count.
SampledThreads(t) ==
  SamplingBlocks(launch[t].grid, Frequency, resetOffset[buffer[t]]) * BlockDim

\* Between two launches' resets of a device buffer: num_threads has the threads
\* that are not sampled and those that have not exited, and the last of these
\* left the buffer with room.
CountAt(t) ==
  /\ pc[t] = "start" /\ sampling[t] =>
       device[buffer[t]] =
         [full |-> FALSE, records |-> <<>>,
          threads |-> UInt(launch[t].grid * BlockDim),
          frequency |-> Frequency, offset |-> resetOffset[buffer[t]]]
  /\ Tracing(t) =>
       LET d == device[buffer[t]]
           k == kernel[Current(t)]
       IN  /\ d.threads = UInt(launch[t].grid * BlockDim - SampledThreads(t) + k.live)
           /\ k.live = 0 => Len(d.records) < Capacity

CountInv == \A t \in Threads : CountAt(t)

\* What the host may conclude from its copy, though the device goes on: a
\* raised flag still is, with a full buffer behind it; a count at its end
\* stays there, and with it the number of records.
SnapshotAt(t) ==
  LET d == device[buffer[t]]
      k == kernel[Current(t)]
  IN  /\ pc[t] \in {"check", "continue"} /\ snapshot[t].full =>
           d.full /\ snapshot[t].head = Len(d.records)
      /\ pc[t] \in {"check", "continue"} /\ AllExited(t) =>
           k.live = 0 /\ snapshot[t].head = Len(d.records)
      /\ pc[t] = "continue" => Ready(t)
      /\ pc[t] = "consume" \/ (pc[t] = "streamSync" /\ sampling[t]) => k.live = 0

SnapshotInv == \A t \in Threads : SnapshotAt(t)

LaunchInv == TypeOK /\ CallsInv /\ KernelInv /\ FullInv /\ ChannelInv

IInv == LaunchInv /\ CountInv /\ SnapshotInv /\ TraceIntact

\* No two launches in progress use one patch buffer.  It is so when every
\* thread keeps to one context, since calls on a context exclude one another.
BuffersUnshared ==
  \A t, u \in Threads :
    t # u /\ {pc[t], pc[u]} \intersect {"app", "api"} = {} => BufferOf(t) # BufferOf(u)

------------------------------------------------------------------------------
(* What the comments say and the code does not do.                         *)

\* "Init a buffer on host": the loop of sanitizer_kernel_launch_sync has the
\* host buffers it copies to.
HostBuffersReady == \A t \in Threads : pc[t] # "fault"

\* "Reset and device buffers are per-context": a kernel writes to the patch
\* buffer of its own context.
BuffersPerContext ==
  \A c \in Contexts : kernel[c].running => kernel[c].buffer = c

\* "if it is true, this kernel will be executed" and "Use function list to
\* filter functions": whether a kernel is sampled depends on its own name.
FilterIsByName ==
  \A t \in Threads : Tracing(t) \/ pc[t] \in {"app", "api", "reset", "start"}
                       \/ launch[t].name \notin Whitelist

==============================================================================
