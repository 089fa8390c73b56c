---------------------------- MODULE BufferChannel ----------------------------
(***************************************************************************)
(* The channel through which one application thread hands the records of a *)
(* running kernel to the analysis library (sanitizer-buffer-channel.c,     *)
(* sanitizer-buffer.c, gpu-channel-item-allocator.c, bichannel.c and       *)
(* buffer_analyze of gputrigger.c).                                        *)
(*                                                                         *)
(* A channel has two directions, each a bistack: a "produced" stack and a  *)
(* "toConsume" stack.  Filled items go forward, spent ones come back.  A   *)
(* stack is a sequence whose head is its top.  The channel lives in        *)
(* thread-local storage and only its own thread produces and consumes, so  *)
(* the steps below are those of one thread; each one is a single call on   *)
(* the channel.  The flush flag of a channel is set by nobody in the       *)
(* program, so consume never takes its second round.                       *)
(***************************************************************************)
EXTENDS Integers, FiniteSets, SequencesExt

CONSTANTS
  Items,      \* the sanitizer_buffer_t objects the heap can provide
  NoItem,     \* a null sanitizer_buffer_t pointer
  PoolSize,   \* sanitizer_buffer_pool_size, a positive control knob value
  MaxDrains   \* bound on the traces drained in a behaviour

ASSUME ConstantsAssumption ==
  /\ NoItem \notin Items
  /\ PoolSize \in Nat \ {0}
  /\ MaxDrains \in Nat

VARIABLES
  pc,             \* where the thread is
  item,           \* the sanitizer_buffer_t in hand
  attempt,        \* which call of channel_produce buffer_analyze is in, or 0
  fwdProduced, fwdToConsume,   \* bistack of the forward direction
  bwdProduced, bwdToConsume,   \* bistack of the backward direction
  heap,           \* items allocated so far (they are never returned)
  hasBuffer,      \* items whose gpu_patch_buffer is not NULL
  content,        \* the trace each item's buffer holds, 0 for none
  balance,        \* the channel's balance counter
  drains,         \* traces drained so far
  delivered       \* traces given to redshow_analyze

forwardVars == <<fwdProduced, fwdToConsume>>
backwardVars == <<bwdProduced, bwdToConsume>>
poolVars == <<heap, hasBuffer, balance>>
traceVars == <<content, drains, delivered>>
vars == <<pc, item, attempt, forwardVars, backwardVars, poolVars, traceVars>>

Locations == {"app", "poll", "alloc", "account", "copy", "push", "steal",
              "reverse", "pop", "free", "restore", "fault"}

Init ==
  /\ pc = "app"
  /\ item = NoItem
  /\ attempt = 0
  /\ fwdProduced = <<>> /\ fwdToConsume = <<>>
  /\ bwdProduced = <<>> /\ bwdToConsume = <<>>
  /\ heap = {}
  /\ hasBuffer = {}
  /\ content = [i \in Items |-> 0]
  /\ balance = 0
  /\ drains = 0
  /\ delivered = <<>>

------------------------------------------------------------------------------
(* The launch callback: it polls the device, drains it when it must, and   *)
(* empties the channel before it returns.                                  *)

Launch ==
  /\ pc = "app"
  /\ pc' = "poll"
  /\ UNCHANGED <<item, attempt, forwardVars, backwardVars, poolVars, traceVars>>

Drain ==
  /\ pc = "poll"
  /\ drains < MaxDrains
  /\ drains' = drains + 1
  /\ attempt' = 1
  /\ pc' = "alloc"
  /\ UNCHANGED <<item, forwardVars, backwardVars, poolVars, content, delivered>>

\* Mutant: the callback returns without emptying the channel.
KernelDoneUnconsumed ==
  /\ pc = "poll"
  /\ pc' = "app"
  /\ UNCHANGED <<item, attempt, forwardVars, backwardVars, poolVars, traceVars>>

KernelDone ==
  /\ pc = "poll"
  /\ pc' = "steal"
  /\ UNCHANGED <<item, attempt, forwardVars, backwardVars, poolVars, traceVars>>

------------------------------------------------------------------------------
(* sanitizer_buffer_channel_produce: take an item, the most recently freed *)
(* one the consumer side holds, else steal what was freed since, else a    *)
(* new one; then account for it and see that it has a patch buffer.        *)

Obtain(i) ==
  /\ item' = i
  /\ pc' = "account"
  /\ UNCHANGED <<attempt, forwardVars, hasBuffer, balance, traceVars>>

\* Mutant: the reused item stays in the stack it was taken from.
AllocReuseInPlace ==
  /\ pc = "alloc"
  /\ bwdToConsume # <<>>
  /\ Obtain(Head(bwdToConsume))
  /\ UNCHANGED <<backwardVars, heap>>

AllocReuse ==
  /\ pc = "alloc"
  /\ bwdToConsume # <<>>
  /\ Obtain(Head(bwdToConsume))
  /\ bwdToConsume' = Tail(bwdToConsume)
  /\ UNCHANGED <<bwdProduced, heap>>

AllocSteal ==
  /\ pc = "alloc"
  /\ bwdToConsume = <<>>
  /\ bwdProduced # <<>>
  /\ Obtain(Head(bwdProduced))
  /\ bwdToConsume' = Tail(bwdProduced)
  /\ bwdProduced' = <<>>
  /\ UNCHANGED heap

\* The items malloc returns differ in nothing but their address, so that one
\* of those left stands for any of them.
FreshItem == CHOOSE i \in Items : i \notin heap

AllocFresh ==
  /\ pc = "alloc"
  /\ bwdToConsume = <<>>
  /\ bwdProduced = <<>>
  /\ heap # Items
  /\ Obtain(FreshItem)
  /\ heap' = heap \union {FreshItem}
  /\ UNCHANGED backwardVars

\* Mutant: the pool is compared with the balance before the increment.
PoolFullBefore == balance >= PoolSize

\* The pool is exhausted when the incremented balance reaches its size.
PoolFull == balance + 1 >= PoolSize

AccountReuse ==
  /\ pc = "account"
  /\ item \in hasBuffer
  /\ balance' = balance + 1
  /\ pc' = "copy"
  /\ UNCHANGED <<item, attempt, forwardVars, backwardVars, heap, hasBuffer, traceVars>>

AccountNewBuffer ==
  /\ pc = "account"
  /\ item \notin hasBuffer
  /\ ~PoolFull
  /\ balance' = balance + 1
  /\ hasBuffer' = hasBuffer \union {item}
  /\ pc' = "copy"
  /\ UNCHANGED <<item, attempt, forwardVars, backwardVars, heap, traceVars>>

\* No buffer for this item.  The first time buffer_analyze forgets the item,
\* consumes the channel and asks again; the second time it copies the trace
\* through the null pointer it got.
AccountExhausted ==
  /\ pc = "account"
  /\ item \notin hasBuffer
  /\ PoolFull
  /\ balance' = balance + 1
  /\ IF attempt = 1
       THEN pc' = "steal" /\ attempt' = 2
       ELSE pc' = "fault" /\ UNCHANGED attempt
  /\ item' = NoItem
  /\ UNCHANGED <<forwardVars, backwardVars, heap, hasBuffer, traceVars>>

------------------------------------------------------------------------------
(* The rest of buffer_analyze: fill the buffer, push the item forward.     *)

CopyTrace ==
  /\ pc = "copy"
  /\ content' = [content EXCEPT ![item] = drains]
  /\ pc' = "push"
  /\ UNCHANGED <<item, attempt, forwardVars, backwardVars, poolVars, drains, delivered>>

PushForward ==
  /\ pc = "push"
  /\ fwdProduced' = Cons(item, fwdProduced)
  /\ item' = NoItem
  /\ attempt' = 0
  /\ pc' = "poll"
  /\ UNCHANGED <<fwdToConsume, backwardVars, poolVars, traceVars>>

------------------------------------------------------------------------------
(* sanitizer_buffer_channel_consume: steal, reverse into FIFO order, then  *)
(* analyse and free every item.                                            *)

StealForward ==
  /\ pc = "steal"
  /\ IF fwdProduced # <<>>
       THEN fwdToConsume' = fwdProduced /\ fwdProduced' = <<>>
       ELSE UNCHANGED forwardVars
  /\ pc' = "reverse"
  /\ UNCHANGED <<item, attempt, backwardVars, poolVars, traceVars>>

\* Mutant: the stolen items stay in the order of the stack.
ReverseForwardNot ==
  /\ pc = "reverse"
  /\ pc' = "pop"
  /\ UNCHANGED <<item, attempt, forwardVars, backwardVars, poolVars, traceVars>>

ReverseForward ==
  /\ pc = "reverse"
  /\ fwdToConsume' = Reverse(fwdToConsume)
  /\ pc' = "pop"
  /\ UNCHANGED <<item, attempt, fwdProduced, backwardVars, poolVars, traceVars>>

PopAndAnalyze ==
  /\ pc = "pop"
  /\ fwdToConsume # <<>>
  /\ item' = Head(fwdToConsume)
  /\ fwdToConsume' = Tail(fwdToConsume)
  /\ delivered' = Append(delivered, content[Head(fwdToConsume)])
  /\ pc' = "free"
  /\ UNCHANGED <<attempt, fwdProduced, backwardVars, poolVars, content, drains>>

\* Mutant: the freed item does not get back to the producer.
FreeItemDropped ==
  /\ pc = "free"
  /\ item' = NoItem
  /\ pc' = "restore"
  /\ UNCHANGED <<attempt, forwardVars, backwardVars, poolVars, traceVars>>

\* Mutant: the thread goes on using an item it has freed.
FreeItemKept ==
  /\ pc = "free"
  /\ bwdProduced' = Cons(item, bwdProduced)
  /\ pc' = "restore"
  /\ UNCHANGED <<item, attempt, forwardVars, bwdToConsume, poolVars, traceVars>>

FreeItem ==
  /\ pc = "free"
  /\ bwdProduced' = Cons(item, bwdProduced)
  /\ item' = NoItem
  /\ pc' = "restore"
  /\ UNCHANGED <<attempt, forwardVars, bwdToConsume, poolVars, traceVars>>

\* Mutant: freeing an item leaves the balance as it is.
RestoreBalanceNot ==
  /\ pc = "restore"
  /\ pc' = "pop"
  /\ UNCHANGED <<item, attempt, forwardVars, backwardVars, poolVars, traceVars>>

RestoreBalance ==
  /\ pc = "restore"
  /\ balance' = balance - 1
  /\ pc' = "pop"
  /\ UNCHANGED <<item, attempt, forwardVars, backwardVars, heap, hasBuffer, traceVars>>

\* Back to where consume was called: the retry of buffer_analyze, or the end
\* of the launch callback.
ConsumeReturn ==
  /\ pc = "pop"
  /\ fwdToConsume = <<>>
  /\ pc' = IF attempt = 2 THEN "alloc" ELSE "app"
  /\ UNCHANGED <<item, attempt, forwardVars, backwardVars, poolVars, traceVars>>

------------------------------------------------------------------------------

Alloc == AllocReuse \/ AllocSteal \/ AllocFresh
Account == AccountReuse \/ AccountNewBuffer \/ AccountExhausted
Consume == StealForward \/ ReverseForward \/ PopAndAnalyze \/ FreeItem
             \/ RestoreBalance \/ ConsumeReturn

\* Everything the profiler does once the device gave it something to do.
Work == Alloc \/ Account \/ CopyTrace \/ PushForward \/ Consume

Next == Launch \/ Drain \/ KernelDone \/ Work

Spec == Init /\ [][Next]_vars

\* The thread runs the profiler's code to its end and every kernel ends; the
\* application need not launch another one.
FairSpec == Spec /\ WF_vars(Work) /\ WF_vars(KernelDone)

------------------------------------------------------------------------------

\* Where the thread has an item in hand.
Holding == {"account", "copy", "push", "free"}

\* Items in the stacks are allocated; the thread has one in hand exactly where
\* buffer_analyze and consume have.
TypeOK ==
  /\ pc \in Locations
  /\ IF pc \in Holding THEN item \in heap ELSE item = NoItem
  /\ attempt \in 0..2
  /\ fwdProduced \in Seq(heap) /\ fwdToConsume \in Seq(heap)
  /\ bwdProduced \in Seq(heap) /\ bwdToConsume \in Seq(heap)
  /\ heap \subseteq Items
  /\ hasBuffer \subseteq heap
  /\ content \in [Items -> Nat]
  /\ balance \in Int
  /\ drains \in Nat
  /\ delivered \in Seq(Nat)

\* Items in the forward direction, oldest first, wherever consume is.
Pending ==
  (IF pc = "reverse" THEN Reverse(fwdToConsume) ELSE fwdToConsume)
    \o Reverse(fwdProduced)

Free == ToSet(bwdProduced) \union ToSet(bwdToConsume)
Queued == ToSet(fwdProduced) \union ToSet(fwdToConsume)

\* The patch buffers alive at any time stay below the pool size, although the
\* balance is read after the increment, is wrong after a retry, and is not
\* consulted at all when an item with a buffer is reused
\* (sanitizer_buffer_produce).
PoolBound == Cardinality(hasBuffer) < PoolSize

\* buffer_analyze never copies a trace through a null gpu_patch_buffer: when
\* the pool is exhausted, emptying the channel makes the second produce
\* succeed (gputrigger.c, "Get it again").
NoNullCopy == pc # "fault"

\* Items dropped by the exhausted path of buffer_analyze: allocated, and
\* neither in a stack nor in hand.
Lost == heap \ (Free \union Queued \union {item})

\* The balance is the number of items on their way to the analysis, plus one
\* for each item lost, plus or minus the one being accounted for: nothing
\* else ever makes the counter drift.
BalanceCountsItems ==
  balance = Cardinality(Queued) + Cardinality(Lost)
              + (IF pc \in {"copy", "push", "free", "restore"} THEN 1 ELSE 0)

\* An item is in one place only, so that no buffer is filled again before its
\* trace is analysed and none is freed twice.
SinglePlace ==
  /\ Len(fwdProduced) + Len(fwdToConsume) = Cardinality(Queued)
  /\ Len(bwdProduced) + Len(bwdToConsume) = Cardinality(Free)
  /\ Queued \intersect Free = {}
  /\ item \notin Queued \union Free

------------------------------------------------------------------------------
(* The inductive invariant behind the properties of the channel.           *)

Filling == {"alloc", "account", "copy", "push"}

\* Each item is in one stack, at one position, or in hand.
PlacesInv ==
  /\ IsInjective(fwdProduced) /\ IsInjective(fwdToConsume)
  /\ IsInjective(bwdProduced) /\ IsInjective(bwdToConsume)
  /\ ToSet(fwdProduced) \intersect ToSet(fwdToConsume) = {}
  /\ ToSet(bwdProduced) \intersect ToSet(bwdToConsume) = {}
  /\ Queued \intersect Free = {}
  /\ item \notin Queued \union Free

\* Items with a buffer are never lost, only they are passed around, and a
\* fresh item is obtained only when none is free.
BuffersInv ==
  /\ Queued \union Free \subseteq hasBuffer
  /\ hasBuffer \subseteq Queued \union Free \union {item}
  /\ pc \in {"copy", "push", "free"} => item \in hasBuffer
  /\ pc = "account" /\ item \notin hasBuffer => Free = {}

\* Buffers outside the backward direction.
Out == hasBuffer \ Free

\* The balance never understates the buffers that are out, so a new buffer is
\* allocated only when fewer than PoolSize - 1 exist.
BalanceInv ==
  /\ IsFiniteSet(hasBuffer)
  /\ Cardinality(hasBuffer) < PoolSize
  /\ pc # "account" => Cardinality(Out) <= balance
  /\ pc = "account" => Cardinality(Out \ {item}) <= balance
  /\ pc = "restore" => Cardinality(Out) + 1 <= balance

\* Where the attempt stands, and what consume has emptied by then.
RetryInv ==
  /\ pc \in Filling => attempt \in {1, 2}
  /\ pc \in {"app", "poll"} => attempt = 0
  /\ attempt = 1 => pc \in Filling
  /\ pc \notin {"reverse", "pop", "free", "restore"} => fwdToConsume = <<>>
  /\ pc \in {"reverse", "pop", "free", "restore"} => fwdProduced = <<>>
  /\ attempt = 2 /\ pc # "steal" => fwdProduced = <<>>

\* With room for a buffer at all, an exhausted pool has one to recycle.
RecycleInv ==
  /\ pc # "fault"
  /\ hasBuffer = {} => balance = 0
  /\ attempt = 2 => hasBuffer # {}
  /\ attempt = 2 /\ pc = "account" => item \in hasBuffer

\* Only finitely many items were allocated, and the balance counts those that
\* left the backward direction.
CountInv ==
  /\ IsFiniteSet(heap)
  /\ BalanceCountsItems

\* Traces are numbered in the order in which they were drained: those pending
\* come right after those delivered, and one more is on its way into a buffer
\* while buffer_analyze runs.
TraceInv ==
  /\ drains = Len(delivered) + Len(Pending) + (IF attempt = 0 THEN 0 ELSE 1)
  /\ \A k \in 1..Len(Pending) : content[Pending[k]] = Len(delivered) + k
  /\ pc = "push" => content[item] = drains

IInv ==
  /\ TypeOK
  /\ RetryInv
  /\ PlacesInv
  /\ BuffersInv
  /\ BalanceInv
  /\ CountInv
  /\ TraceInv
  /\ PoolSize > 1 => RecycleInv

------------------------------------------------------------------------------

\* The channel implements the queue it promises: nothing is lost, duplicated,
\* reordered or overwritten, and the callback returns with nothing pending.
Queue == INSTANCE AnalysisQueue WITH
           launched <- pc # "app",
           queue <- [k \in 1..Len(Pending) |-> content[Pending[k]]]
ImplementsQueue == Queue!Spec

\* Every drained trace is eventually analysed, the retry included.
DrainsAnalysed ==
  \A n \in 1..MaxDrains : drains = n ~> n \in ToSet(delivered)

==============================================================================
