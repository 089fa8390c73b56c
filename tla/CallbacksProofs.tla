---------------------------- MODULE CallbacksProofs ----------------------------
(***************************************************************************)
(* The subscriber callback for every set of threads, contexts, kernels and *)
(* environments.                                                           *)
(***************************************************************************)
EXTENDS Callbacks, NaturalsInduction, WellFoundedInduction, TLAPS

\* A set of numbers that is not empty has a least one.
LEMMA LeastNumber ==
  ASSUME NEW S, S \subseteq Nat, S # {}
  PROVE  \E m \in S : \A n \in S : m <= n
<1>1. IsWellFoundedOn(OpToRel(<, Nat), Nat)
  BY NatLessThanWellFounded
<1>2. PICK m \in S : \A n \in S : ~ (<<n, m>> \in OpToRel(<, Nat))
  BY <1>1, WFMin
<1>3. \A n \in S : ~ (n < m)
  BY <1>2 DEF OpToRel
<1>4. QED
  BY <1>3

\* The steps that change nothing but where the thread is, and at most an entry.
LEMMA QuietStep ==
  ASSUME TypeOK, NEW t \in Threads,
         \/ ApiExit(t) \/ LoadModule(t) \/ LaunchReset(t) \/ SyscallSetup(t) \/ ModuleUpdate(t)
         \/ LaunchEnd(t)
  PROVE  /\ UNCHANGED <<process, settings, call, identity, internal, selection, op, nextOp, locks,
                        mapLock, redshow>>
         /\ made' \in [Contexts -> SUBSET {"priority", "kernel", "function"}]
         /\ pc' \in [Threads -> Locations]
         /\ \A u \in Threads : u # t => pc'[u] = pc[u]
         /\ \/ pc[t] = "api" /\ pc'[t] \in {"exit", "load"}
            \/ /\ pc[t] \in {"reset", "setup", "module", "running"}
               /\ pc'[t] \in {"setup", "kernel", "running", "end"}
<1> USE DEF TypeOK, Locations, Goto, settings, identity, locks, entries, selection, redshow
<1>1. CASE ApiExit(t)
  BY <1>1 DEF ApiExit
<1>2. CASE LoadModule(t)
  BY <1>2 DEF LoadModule
<1>3. CASE LaunchReset(t)
  BY <1>3 DEF LaunchReset
<1>4. CASE SyscallSetup(t)
  BY <1>4 DEF SyscallSetup
<1>5. CASE ModuleUpdate(t)
  BY <1>5 DEF ModuleUpdate
<1>6. CASE LaunchEnd(t)
  BY <1>6 DEF LaunchEnd
<1>7. QED
  BY <1>1, <1>2, <1>3, <1>4, <1>5, <1>6

\* The steps before a driver call of the profiler, or past the one that is not
\* needed.
LEMMA CallStep ==
  ASSUME TypeOK, NEW t \in Threads,
         LoadStream(t) \/ PriorityStream(t) \/ KernelStream(t) \/ AnalysisKernel(t)
  PROVE  /\ UNCHANGED <<process, settings, call, identity, selection, op, nextOp, locks, made,
                        redshow>>
         /\ mapLock' \in {mapLock, id[t]}
         /\ pc' \in [Threads -> Locations]
         /\ \A u \in Threads : u # t => pc'[u] = pc[u]
         /\ \/ SetInternal(t, TRUE) /\ Inner(pc'[t])
            \/ UNCHANGED internal /\ ~Inner(pc'[t])
         /\ \/ pc[t] = "load" /\ pc'[t] \in {"loadCall", "api"}
            \/ /\ pc[t] \in {"priority", "kernel", "analysis"}
               /\ pc'[t] \in {"priorityCall", "reset", "kernelCall", "analysis", "moduleCall",
                              "launchCall"}
<1> USE DEF TypeOK, Locations, Goto, Inner, settings, identity, locks, entries, selection, redshow
<1>1. CASE LoadStream(t)
  BY <1>1 DEF LoadStream, GetStream
<1>2. CASE PriorityStream(t)
  BY <1>2 DEF PriorityStream, GetStream
<1>3. CASE KernelStream(t)
  BY <1>3 DEF KernelStream, GetStream
<1>4. CASE AnalysisKernel(t)
  BY <1>4 DEF AnalysisKernel, AnalysisCall
<1>5. QED
  BY <1>1, <1>2, <1>3, <1>4

\* The steps into a driver call of the profiler.
LEMMA EnterStep ==
  ASSUME TypeOK, NEW t \in Threads, InnerEnter(t)
  PROVE  /\ UNCHANGED <<process, settings, call, internal, selection, op, nextOp, entries, redshow>>
         /\ Identify(t) /\ Entered(t, call[t])
         /\ Inner(pc[t])
         /\ pc' \in [Threads -> Locations]
         /\ \A u \in Threads : u # t => pc'[u] = pc[u]
         /\ \/ pc[t] = "loadCall" /\ pc'[t] = "loadIn"
            \/ /\ pc[t] \in {"priorityCall", "kernelCall", "moduleCall", "launchCall"}
               /\ pc'[t] \in {"priorityIn", "kernelIn", "moduleIn", "launchIn"}
<1> USE DEF InnerEnter, TypeOK, Locations, Goto, Inner
<1>1. CASE pc[t] = "loadCall"
  BY <1>1
<1>2. CASE pc[t] # "loadCall"
  BY <1>2
<1>3. QED
  BY <1>1, <1>2

\* The steps out of a driver call of the profiler.
LEMMA ReturnStep ==
  ASSUME TypeOK, NEW t \in Threads, InnerReturn(t)
  PROVE  /\ UNCHANGED <<process, settings, call, identity, selection, op, nextOp, redshow>>
         /\ SetInternal(t, FALSE) /\ Exited(t)
         /\ mapLock' \in {mapLock, NoId}
         /\ made' \in [Contexts -> SUBSET {"priority", "kernel", "function"}]
         /\ Inner(pc[t])
         /\ pc' \in [Threads -> Locations]
         /\ \A u \in Threads : u # t => pc'[u] = pc[u]
         /\ \/ pc[t] = "loadIn" /\ pc'[t] = "api"
            \/ /\ pc[t] \in {"priorityIn", "kernelIn", "moduleIn", "launchOut"}
               /\ pc'[t] \in {"reset", "analysis", "module", "running"}
<1> USE DEF InnerExit, TypeOK, Locations, Goto, Inner, entries
<1>1. CASE Goto(t, "loadIn", "api") /\ StreamMade(t, "priority")
  BY <1>1 DEF StreamMade
<1>2. CASE Goto(t, "priorityIn", "reset") /\ StreamMade(t, "priority")
  BY <1>2 DEF StreamMade
<1>3. CASE Goto(t, "kernelIn", "analysis") /\ StreamMade(t, "kernel")
  BY <1>3 DEF StreamMade
<1>4. CASE Goto(t, "moduleIn", "module") /\ InnerExit(t) /\ UNCHANGED entries
  BY <1>4
<1>5. CASE Goto(t, "launchOut", "running") /\ InnerExit(t) /\ UNCHANGED entries
  BY <1>5
<1>6. QED
  BY <1>1, <1>2, <1>3, <1>4, <1>5 DEF InnerReturn

\* A process starts well typed.
LEMMA TypeOKInit == Init => TypeOK
<1> SUFFICES ASSUME Init PROVE TypeOK
  OBVIOUS
<1>1. /\ stop \in [Threads -> BOOLEAN] /\ internal \in [Threads -> BOOLEAN]
      /\ sampling \in [Threads -> BOOLEAN]
  BY Zenon DEF Init
<1>2. pc \in [Threads -> Locations]
  BY DEF Init, Locations
<1>3. QED
  BY <1>1, <1>2 DEF Init, TypeOK

\* Every step keeps a process well typed.
LEMMA TypeOKNext == TypeOK /\ [Next]_vars => TypeOK'
<1> SUFFICES ASSUME TypeOK, [Next]_vars PROVE TypeOK'
  OBVIOUS
<1> USE DEF TypeOK, Locations, Goto, settings, identity, locks, entries, selection, redshow
<1>1. CASE Subscribe
  BY <1>1 DEF Subscribe
<1>2. ASSUME NEW t \in Threads, Identify(t)
      PROVE  /\ stop' \in [Threads -> BOOLEAN] /\ id' \in [Threads -> Nat]
             /\ nextThread' \in Nat
  <2>1. stop' \in [Threads -> BOOLEAN]
    BY <1>2, Zenon DEF Identify
  <2>2. QED
    BY <1>2, <2>1 DEF Identify
<1>3. ASSUME NEW t \in Threads, TakeId(t)
      PROVE  op' \in [Threads -> Nat \union {NoId}] /\ nextOp' \in Nat
  BY <1>3 DEF TakeId
<1>4. ASSUME NEW t \in Threads, NEW c \in Contexts \union {NoContext}, Entered(t, c)
      PROVE  /\ owner' \in [Contexts -> Nat \union {NoId}]
             /\ threadContext' \in [Threads -> Contexts \union {NoContext}]
  BY <1>4 DEF Entered
<1>5. ASSUME NEW t \in Threads, Exited(t)
      PROVE  /\ owner' \in [Contexts -> Nat \union {NoId}]
             /\ threadContext' \in [Threads -> Contexts \union {NoContext}]
  <2>1. CASE Ignored(t) \/ threadContext[t] = NoContext
    BY <1>5, <2>1 DEF Exited
  <2>2. CASE ~(Ignored(t) \/ threadContext[t] = NoContext)
    <3>1. /\ owner' = [owner EXCEPT ![threadContext[t]] = IF @ = id[t] THEN NoId ELSE @]
          /\ threadContext' = [threadContext EXCEPT ![t] = NoContext]
      BY <1>5, <2>2 DEF Exited
    <3>2. threadContext[t] \in Contexts
      BY <2>2
    <3>3. QED
      BY <3>1, <3>2
  <2>3. QED
    BY <2>1, <2>2
<1>6. ASSUME NEW t \in Threads, FlushThread(t)
      PROVE  flushed' \subseteq Nat /\ stop' \in [Threads -> BOOLEAN]
  <2>1. stop' \in [Threads -> BOOLEAN]
    BY <1>6, Zenon DEF FlushThread
  <2>2. id[t] \in Nat
    OBVIOUS
  <2>3. flushed' \subseteq Nat
    BY <1>6, <2>2 DEF FlushThread
  <2>4. QED
    BY <2>1, <2>3
<1>7. ASSUME NEW t \in Threads, NEW c \in Contexts, ApiEnter(t, c) PROVE TypeOK'
  BY <1>2, <1>7 DEF ApiEnter
<1>8. ASSUME NEW t \in Threads,
             \/ ApiExit(t) \/ LoadModule(t) \/ LaunchReset(t) \/ SyscallSetup(t)
             \/ ModuleUpdate(t) \/ LaunchEnd(t)
      PROVE  TypeOK'
  <2>1. /\ UNCHANGED <<process, settings, call, identity, internal, selection, op, nextOp, locks,
                       mapLock, redshow>>
        /\ made' \in [Contexts -> SUBSET {"priority", "kernel", "function"}]
        /\ pc' \in [Threads -> Locations]
    BY ONLY TypeOK, <1>8, QuietStep
  <2>2. QED
    BY <2>1
<1>9. ASSUME NEW t \in Threads, MemoryOperation(t) PROVE TypeOK'
  BY <1>3, <1>9 DEF MemoryOperation
<1>10. ASSUME NEW t \in Threads, LaunchBegin(t) PROVE TypeOK'
  <2>1. sampling' \in [Threads -> BOOLEAN]
    BY <1>10, Zenon DEF LaunchBegin
  <2>2. launched' \in [Threads -> SUBSET Kernels]
    BY <1>10 DEF LaunchBegin
  <2>3. QED
    BY <1>3, <1>10, <2>1, <2>2 DEF LaunchBegin
<1>11. ASSUME NEW t \in Threads, Lock(t) PROVE TypeOK'
  BY <1>4, <1>11 DEF Lock
<1>12. ASSUME NEW t \in Threads, Report(t) PROVE TypeOK'
  BY <1>12 DEF Report
<1>13. ASSUME NEW t \in Threads, ReportBegin(t) PROVE TypeOK'
  BY <1>13 DEF ReportBegin
<1>14. ASSUME NEW t \in Threads, NEW i, SetInternal(t, i), i \in BOOLEAN
       PROVE internal' \in [Threads -> BOOLEAN]
  BY <1>14, Zenon DEF SetInternal
<1>15. ASSUME NEW t \in Threads,
              LoadStream(t) \/ PriorityStream(t) \/ KernelStream(t) \/ AnalysisKernel(t)
       PROVE  TypeOK'
  <2>1. internal' \in [Threads -> BOOLEAN]
    BY <1>14, <1>15, CallStep
  <2>2. /\ UNCHANGED <<process, settings, call, identity, selection, op, nextOp, locks, made,
                       redshow>>
        /\ mapLock' \in {mapLock, id[t]}
        /\ pc' \in [Threads -> Locations]
    BY ONLY TypeOK, <1>15, CallStep
  <2>3. QED
    BY <2>1, <2>2
<1>16. ASSUME NEW t \in Threads, Unlock(t) PROVE TypeOK'
  BY <1>5, <1>16 DEF Unlock
<1>17. ASSUME NEW t \in Threads, ReportEnd(t) PROVE TypeOK'
  BY <1>17 DEF ReportEnd
<1>18. ASSUME NEW t \in Threads, InnerEnter(t) PROVE TypeOK'
  BY <1>2, <1>4, <1>18, EnterStep
<1>19. ASSUME NEW t \in Threads, InnerLaunch(t) PROVE TypeOK'
  BY <1>3, <1>19 DEF InnerLaunch
<1>20. ASSUME NEW t \in Threads, InnerReturn(t) PROVE TypeOK'
  <2>1. internal' \in [Threads -> BOOLEAN]
    BY <1>14, <1>20, ReturnStep
  <2>2. QED
    BY <1>5, <1>20, <2>1, ReturnStep
<1>21. ASSUME NEW t \in Threads, Crash(t) PROVE TypeOK'
  BY <1>21 DEF Crash
<1>22. ASSUME NEW t \in Threads, ProcessFlush(t) PROVE TypeOK'
  BY <1>22 DEF ProcessFlush
<1>23. ASSUME NEW t \in Threads, ReturnUnseen(t) PROVE TypeOK'
  BY <1>23 DEF ReturnUnseen
<1>24. ASSUME NEW t \in Threads, ThreadEnd(t) PROVE TypeOK'
  BY <1>6, <1>24 DEF ThreadEnd
<1>25. ASSUME NEW t \in Threads, ProcessEnd(t) PROVE TypeOK'
  BY <1>6, <1>25 DEF ProcessEnd, DriverFailed
<1>26. CASE UNCHANGED vars
  BY <1>26 DEF vars
<1>27. QED
  BY <1>1, <1>7, <1>8, <1>9, <1>10, <1>11, <1>12, <1>13, <1>15, <1>16, <1>17, <1>18, <1>19,
     <1>20, <1>21, <1>22, <1>23, <1>24, <1>25, <1>26 DEF Next, Step

\* The callbacks do not touch cuda_internal but where the profiler starts and
\* ends a driver call.
LEMMA InternalNext == TypeOK /\ InternalInv /\ [Next]_vars => InternalInv'
<1> SUFFICES ASSUME TypeOK, InternalInv, [Next]_vars PROVE InternalInv'
  OBVIOUS
<1> USE DEF Goto, settings, identity, locks, entries, selection, redshow
<1>1. ASSUME NEW t \in Threads, UNCHANGED internal,
             \A u \in Threads : u # t => pc'[u] = pc[u],
             \/ pc'[t] \in {"ending", "ended"}
             \/ (Inner(pc[t]) <=> Inner(pc'[t])) /\ pc[t] \notin {"ending", "ended"}
      PROVE  InternalInv'
  BY <1>1 DEF InternalInv
<1>2. ASSUME NEW t \in Threads,
             (\E c \in Contexts : ApiEnter(t, c)) \/ MemoryOperation(t) \/ LaunchBegin(t)
      PROVE  InternalInv'
  <2>1. CASE \E c \in Contexts : ApiEnter(t, c)
    BY <1>1, <1>2, <2>1 DEF ApiEnter, TypeOK, Inner
  <2>2. CASE MemoryOperation(t)
    BY <1>1, <2>2 DEF MemoryOperation, TypeOK, Inner
  <2>3. CASE LaunchBegin(t)
    BY <1>1, <2>3 DEF LaunchBegin, TypeOK, Inner
  <2>4. QED
    BY <1>2, <2>1, <2>2, <2>3
<1>3. ASSUME NEW t \in Threads,
             Lock(t) \/ Unlock(t) \/ Report(t) \/ ReportBegin(t) \/ ReportEnd(t)
      PROVE  InternalInv'
  <2>1. CASE Lock(t)
    BY <1>1, <2>1 DEF Lock, TypeOK, Inner
  <2>2. CASE Unlock(t)
    BY <1>1, <2>2 DEF Unlock, TypeOK, Inner
  <2>3. CASE Report(t)
    BY <1>1, <2>3 DEF Report, TypeOK, Inner
  <2>4. CASE ReportBegin(t)
    BY <1>1, <2>4 DEF ReportBegin, TypeOK, Inner
  <2>5. CASE ReportEnd(t)
    BY <1>1, <2>5 DEF ReportEnd, TypeOK, Inner
  <2>6. QED
    BY <1>3, <2>1, <2>2, <2>3, <2>4, <2>5
<1>4. ASSUME NEW t \in Threads, NEW i \in BOOLEAN, SetInternal(t, i),
             \A u \in Threads : u # t => pc'[u] = pc[u],
             pc'[t] \in {"ending", "ended"} \/ (i <=> Inner(pc'[t]))
      PROVE  InternalInv'
  <2>1. (internal'[t] <=> i) /\ \A u \in Threads : u # t => internal'[u] = internal[u]
    BY <1>4, Zenon DEF SetInternal, TypeOK
  <2>2. QED
    BY <1>4, <2>1 DEF InternalInv
<1>5. ASSUME NEW t \in Threads,
             LoadStream(t) \/ PriorityStream(t) \/ KernelStream(t) \/ AnalysisKernel(t)
      PROVE  InternalInv'
  <2>1. \A u \in Threads : u # t => pc'[u] = pc[u]
    BY <1>5, CallStep
  <2>2. CASE SetInternal(t, TRUE) /\ Inner(pc'[t])
    BY <1>4, <2>1, <2>2
  <2>3. CASE UNCHANGED internal /\ ~Inner(pc'[t])
    <3>1. ~Inner(pc[t]) /\ pc[t] \notin {"ending", "ended"}
      BY <1>5, CallStep DEF Inner
    <3>2. QED
      BY <1>1, <2>1, <2>3, <3>1
  <2>4. QED
    BY <1>5, <2>2, <2>3, CallStep
<1>6. ASSUME NEW t \in Threads,
             \/ ApiExit(t) \/ LoadModule(t) \/ LaunchReset(t) \/ SyscallSetup(t)
             \/ ModuleUpdate(t) \/ LaunchEnd(t)
      PROVE  InternalInv'
  <2>1. UNCHANGED internal /\ \A u \in Threads : u # t => pc'[u] = pc[u]
    BY <1>6, QuietStep
  <2>2. ~Inner(pc[t]) /\ ~Inner(pc'[t]) /\ pc[t] \notin {"ending", "ended"}
    BY <1>6, QuietStep DEF Inner
  <2>3. QED
    BY <1>1, <2>1, <2>2
<1>7. ASSUME NEW t \in Threads, InnerEnter(t) \/ InnerLaunch(t) PROVE InternalInv'
  <2>1. CASE InnerEnter(t)
    <3>1. UNCHANGED internal /\ \A u \in Threads : u # t => pc'[u] = pc[u]
      BY <2>1, EnterStep
    <3>2. Inner(pc[t]) /\ Inner(pc'[t]) /\ pc[t] \notin {"ending", "ended"}
      BY <2>1, EnterStep DEF Inner
    <3>3. QED
      BY <1>1, <3>1, <3>2
  <2>2. CASE InnerLaunch(t)
    BY <1>1, <2>2 DEF InnerLaunch, TypeOK, Inner
  <2>3. QED
    BY <1>7, <2>1, <2>2
<1>8. ASSUME NEW t \in Threads, InnerReturn(t) PROVE InternalInv'
  <2>1. SetInternal(t, FALSE) /\ \A u \in Threads : u # t => pc'[u] = pc[u]
    BY <1>8, ReturnStep
  <2>2. ~Inner(pc'[t])
    BY <1>8, ReturnStep DEF Inner
  <2>3. QED
    BY <1>4, <2>1, <2>2
<1>9. ASSUME NEW t \in Threads,
             Crash(t) \/ ProcessFlush(t) \/ ReturnUnseen(t) \/ ThreadEnd(t) \/ ProcessEnd(t)
      PROVE  InternalInv'
  <2>1. CASE Crash(t) \/ ThreadEnd(t)
    BY <2>1 DEF Crash, ThreadEnd, InternalInv
  <2>2. CASE ProcessFlush(t)
    BY <1>1, <2>2 DEF ProcessFlush, TypeOK
  <2>3. CASE ReturnUnseen(t)
    BY <1>1, <2>3 DEF ReturnUnseen, TypeOK, Inner
  <2>4. CASE ProcessEnd(t)
    BY <1>1, <2>4 DEF ProcessEnd, DriverFailed, TypeOK
  <2>5. QED
    BY <1>9, <2>1, <2>2, <2>3, <2>4
<1>10. CASE Subscribe \/ UNCHANGED vars
  BY <1>10 DEF Subscribe, vars, InternalInv
<1>11. QED
  BY <1>2, <1>3, <1>5, <1>6, <1>7, <1>8, <1>9, <1>10 DEF Next, Step

\* Ids are handed out once, and kept for as long as a thread is in a callback.
LEMMA IdNext == TypeOK /\ InternalInv /\ IdInv /\ [Next]_vars => IdInv'
<1> SUFFICES ASSUME TypeOK, InternalInv, IdInv, [Next]_vars PROVE IdInv'
  OBVIOUS
<1> USE DEF Goto, settings, identity, locks, entries, selection, redshow
<1>1. ASSUME UNCHANGED <<identity, flushed>>,
             process \in {"finished", "crashed"} => process' \in {"finished", "crashed"},
             \A u \in Threads : Called(u)' => Called(u) /\ call'[u] = call[u]
      PROVE  IdInv'
  BY <1>1 DEF IdInv
<1>2. ASSUME NEW t \in Threads, NEW c \in Contexts, ApiEnter(t, c) PROVE IdInv'
  <2>1. ~Ignored(t)
    BY <1>2 DEF ApiEnter, InternalInv, Inner, Ignored
  <2>2. /\ UNCHANGED <<process, flushed>> /\ call'[t] = c
        /\ \A u \in Threads : u # t => pc'[u] = pc[u] /\ call'[u] = call[u]
    BY <1>2 DEF ApiEnter, TypeOK
  <2>3. ASSUME NEW u \in Threads, u # t PROVE Called(u)' <=> Called(u)
    BY <2>2, <2>3 DEF Called, InCall
  <2>4. CASE stop[t]
    <3>1. UNCHANGED <<stop, id, nextThread>>
      BY <1>2, <2>4 DEF ApiEnter, Identify
    <3>2. QED
      BY <2>2, <2>3, <2>4, <3>1 DEF IdInv
  <2>5. CASE ~stop[t]
    <3>1. /\ stop' = [stop EXCEPT ![t] = TRUE] /\ id' = [id EXCEPT ![t] = nextThread]
          /\ nextThread' = nextThread + 1
      BY <1>2, <2>1, <2>5 DEF ApiEnter, Identify
    <3>2. stop'[t] /\ id'[t] = nextThread /\ nextThread \in Nat /\ id \in [Threads -> Nat]
      BY <3>1 DEF TypeOK
    <3>3. ASSUME NEW u \in Threads, u # t PROVE (stop'[u] <=> stop[u]) /\ id'[u] = id[u]
      BY <3>1, <3>3 DEF TypeOK
    <3>4. \A i \in flushed : i < nextThread' /\ i # nextThread
      BY <3>1, <3>2 DEF IdInv, TypeOK
    <3>5. ASSUME NEW u \in Threads
          PROVE  /\ Called(u)' => stop'[u] /\ call'[u] \in Contexts
                 /\ stop'[u] => /\ id'[u] < nextThread'
                                /\ process' \in {"finished", "crashed"} \/ id'[u] \notin flushed'
      <4>1. CASE u = t
        BY <2>2, <3>1, <3>2, <3>4, <4>1
      <4>2. CASE u # t
        BY <2>2, <2>3, <3>1, <3>2, <3>3, <4>2 DEF IdInv
      <4>3. QED
        BY <4>1, <4>2
    <3>6. ASSUME NEW u \in Threads, NEW v \in Threads, stop'[u], stop'[v], u # v
          PROVE  id'[u] # id'[v]
      <4>1. \A w \in Threads : stop[w] => id[w] # nextThread
        BY <3>2 DEF IdInv
      <4>2. QED
        BY <3>2, <3>3, <3>6, <4>1 DEF IdInv
    <3>7. QED
      BY <2>2, <3>4, <3>5, <3>6 DEF IdInv
  <2>6. QED
    BY <2>4, <2>5
<1>3. ASSUME NEW t \in Threads,
             \/ MemoryOperation(t) \/ LaunchBegin(t) \/ Lock(t) \/ Unlock(t) \/ Report(t)
             \/ ReportBegin(t) \/ ReportEnd(t)
      PROVE  IdInv'
  <2>1. CASE MemoryOperation(t)
    BY <1>1, <2>1 DEF MemoryOperation, TypeOK, Called, InCall
  <2>2. CASE LaunchBegin(t)
    BY <1>1, <2>2 DEF LaunchBegin, TypeOK, Called, InCall
  <2>3. CASE Lock(t)
    BY <1>1, <2>3 DEF Lock, TypeOK, Called, InCall
  <2>4. CASE Unlock(t)
    BY <1>1, <2>4 DEF Unlock, TypeOK, Called, InCall
  <2>5. CASE Report(t)
    BY <1>1, <2>5 DEF Report, TypeOK, Called, InCall
  <2>6. CASE ReportBegin(t)
    BY <1>1, <2>6 DEF ReportBegin, TypeOK, Called, InCall
  <2>7. CASE ReportEnd(t)
    BY <1>1, <2>7 DEF ReportEnd, TypeOK, Called, InCall
  <2>8. QED
    BY <1>3, <2>1, <2>2, <2>3, <2>4, <2>5, <2>6, <2>7
<1>4. ASSUME NEW t \in Threads,
             \/ ApiExit(t) \/ LoadModule(t) \/ LaunchReset(t) \/ SyscallSetup(t)
             \/ ModuleUpdate(t) \/ LaunchEnd(t)
             \/ LoadStream(t) \/ PriorityStream(t) \/ KernelStream(t) \/ AnalysisKernel(t)
      PROVE  IdInv'
  <2>1. /\ UNCHANGED <<process, call, identity, flushed>>
        /\ \A u \in Threads : u # t => pc'[u] = pc[u]
    BY <1>4, QuietStep, CallStep
  <2>2. InCall(t)
    BY <1>4, QuietStep, CallStep DEF InCall
  <2>3. QED
    BY <1>1, <2>1, <2>2 DEF Called, InCall
<1>5. ASSUME NEW t \in Threads,
             InnerEnter(t) \/ InnerLaunch(t) \/ InnerReturn(t) \/ Crash(t) \/ ReturnUnseen(t)
      PROVE  IdInv'
  <2>1. CASE InnerEnter(t)
    <3>1. Ignored(t) /\ Identify(t) /\ InCall(t)
      BY <2>1, EnterStep DEF InternalInv, Inner, Ignored, InCall
    <3>2. UNCHANGED identity
      BY <3>1 DEF Identify
    <3>3. UNCHANGED <<process, call, flushed>> /\ \A u \in Threads : u # t => pc'[u] = pc[u]
      BY <2>1, EnterStep
    <3>4. QED
      BY <1>1, <3>1, <3>2, <3>3 DEF Called, InCall
  <2>2. CASE InnerLaunch(t)
    BY <1>1, <2>2 DEF InnerLaunch, TypeOK, Called, InCall
  <2>3. CASE InnerReturn(t)
    <3>1. /\ UNCHANGED <<process, call, identity, flushed>>
          /\ \A u \in Threads : u # t => pc'[u] = pc[u]
      BY <2>3, ReturnStep
    <3>2. InCall(t)
      BY <2>3, ReturnStep DEF InCall
    <3>3. QED
      BY <1>1, <3>1, <3>2 DEF Called, InCall
  <2>4. CASE Crash(t)
    BY <1>1, <2>4 DEF Crash, TypeOK, Called, InCall
  <2>5. CASE ReturnUnseen(t)
    BY <1>1, <2>5 DEF ReturnUnseen, TypeOK, Called, InCall
  <2>6. QED
    BY <1>5, <2>1, <2>2, <2>3, <2>4, <2>5
<1>6. ASSUME NEW t \in Threads, FlushThread(t), UNCHANGED <<id, nextThread, call>>,
             process \notin {"finished", "crashed"} \/ process' = process,
             \A u \in Threads : u # t => pc'[u] = pc[u],
             ~Called(t)'
      PROVE  IdInv'
  <2>1. ~stop'[t] /\ \A u \in Threads : u # t => (stop'[u] <=> stop[u])
    BY <1>6 DEF FlushThread, TypeOK
  <2>2. \A i \in flushed' : i \in flushed \/ (stop[t] /\ i = id[t])
    BY <1>6 DEF FlushThread
  <2>3. \A i \in flushed' : i < nextThread
    BY <2>2 DEF IdInv
  <2>4. ASSUME NEW u \in Threads
        PROVE  /\ Called(u)' => stop'[u] /\ call'[u] \in Contexts
               /\ stop'[u] => /\ id'[u] < nextThread'
                              /\ process' \in {"finished", "crashed"} \/ id'[u] \notin flushed'
    <3>1. CASE u = t
      BY <1>6, <2>1, <3>1
    <3>2. CASE u # t
      <4>1. Called(u)' <=> Called(u)
        BY <1>6, <3>2 DEF Called, InCall
      <4>2. QED
        BY <1>6, <2>1, <2>2, <3>2, <4>1 DEF IdInv
    <3>3. QED
      BY <3>1, <3>2
  <2>5. QED
    BY <1>6, <2>1, <2>3, <2>4 DEF IdInv
<1>7. ASSUME NEW t \in Threads, ThreadEnd(t) PROVE IdInv'
  BY <1>6, <1>7 DEF ThreadEnd, Called, InCall
<1>8. ASSUME NEW t \in Threads, ProcessEnd(t) PROVE IdInv'
  <2>1. process \notin {"finished", "crashed"} /\ pc' = [pc EXCEPT ![t] = "ending"]
    BY <1>8 DEF ProcessEnd, DriverFailed, Subscribed
  <2>2. ~Called(t)' /\ \A u \in Threads : u # t => pc'[u] = pc[u]
    BY <2>1 DEF TypeOK, Called, InCall
  <2>3. QED
    BY <1>6, <1>8, <2>1, <2>2 DEF ProcessEnd
<1>9. ASSUME NEW t \in Threads, ProcessFlush(t) PROVE IdInv'
  <2>1. /\ UNCHANGED <<identity, call>> /\ process' = "finished"
        /\ flushed' = flushed \union (0..(nextThread - 1))
    BY <1>9 DEF ProcessFlush
  <2>2. \A u \in Threads : Called(u)' => Called(u)
    BY <1>9 DEF ProcessFlush, TypeOK, Called, InCall
  <2>3. \A i \in flushed' : i < nextThread'
    BY <2>1 DEF IdInv, TypeOK
  <2>4. QED
    BY <2>1, <2>2, <2>3 DEF IdInv
<1>10. CASE Subscribe
  BY <1>1, <1>10 DEF Subscribe, Called, InCall
<1>11. CASE UNCHANGED vars
  BY <1>1, <1>11 DEF vars, Called, InCall
<1>12. QED
  BY <1>2, <1>3, <1>4, <1>5, <1>7, <1>8, <1>9, <1>10, <1>11 DEF Next, Step

\* A thread that is past ENTER keeps the lock of its context until EXIT.
LEMMA OwnNext ==
  TypeOK /\ InternalInv /\ IdInv /\ CallKeepsContext /\ [Next]_vars => CallKeepsContext'
<1> SUFFICES ASSUME TypeOK, InternalInv, IdInv, CallKeepsContext, [Next]_vars
             PROVE  CallKeepsContext'
  OBVIOUS
<1> USE DEF Goto, settings, identity, locks, entries, selection, redshow
<1>1. ASSUME UNCHANGED locks,
             \A u \in Threads : InCall(u)' => InCall(u) /\ call'[u] = call[u] /\ id'[u] = id[u]
      PROVE  CallKeepsContext'
  BY <1>1 DEF CallKeepsContext
<1>2. ASSUME NEW t \in Threads, NEW c \in Contexts, ApiEnter(t, c) PROVE CallKeepsContext'
  <2>1. pc'[t] = "lock" /\ \A u \in Threads : u # t => pc'[u] = pc[u] /\ call'[u] = call[u]
    BY <1>2 DEF ApiEnter, TypeOK
  <2>2. \A u \in Threads : u # t => id'[u] = id[u]
    BY <1>2 DEF ApiEnter, Identify, TypeOK
  <2>3. UNCHANGED locks
    BY <1>2 DEF ApiEnter
  <2>4. QED
    BY <1>1, <2>1, <2>2, <2>3 DEF InCall
<1>3. ASSUME NEW t \in Threads, Lock(t) PROVE CallKeepsContext'
  <2>1. PICK c \in Contexts : c = call[t]
    BY <1>3 DEF Lock, IdInv, Called
  <2>2. ~Ignored(t) /\ stop[t]
    BY <1>3 DEF Lock, InternalInv, Inner, Ignored, IdInv, Called
  <2>3. /\ owner[c] \in {NoId, id[t]}
        /\ owner' = [owner EXCEPT ![c] = id[t]]
        /\ threadContext' = [threadContext EXCEPT ![t] = c]
        /\ UNCHANGED <<id, call>>
    BY <1>3, <2>1, <2>2 DEF Lock, MayEnter, Entered
  <2>4. owner'[c] = id[t] /\ threadContext'[t] = c
    BY <2>3 DEF TypeOK
  <2>5. ASSUME NEW u \in Threads, u # t, InCall(u)'
        PROVE  threadContext'[u] = call'[u] /\ owner'[call'[u]] = id'[u]
    <3>1. InCall(u)
      BY <1>3, <2>5 DEF Lock, InCall, TypeOK
    <3>2. /\ threadContext[u] = call[u] /\ owner[call[u]] = id[u]
          /\ stop[u] /\ call[u] \in Contexts
      BY <3>1 DEF CallKeepsContext, IdInv, Called
    <3>3. id[u] # id[t] /\ id[u] # NoId
      BY <2>2, <2>5, <3>2, ConstantsAssumption DEF IdInv, TypeOK
    <3>4. call[u] # c
      BY <2>3, <3>2, <3>3
    <3>5. QED
      BY <2>3, <2>5, <3>2, <3>4 DEF TypeOK
  <2>6. QED
    BY <2>1, <2>3, <2>4, <2>5 DEF CallKeepsContext
<1>4. ASSUME NEW t \in Threads, Unlock(t) PROVE CallKeepsContext'
  <2>1. ~Ignored(t) /\ stop[t] /\ InCall(t)
    BY <1>4 DEF Unlock, InternalInv, Inner, Ignored, IdInv, Called, InCall
  <2>2. PICK c \in Contexts : c = call[t] /\ threadContext[t] = c /\ owner[c] = id[t]
    BY <2>1 DEF IdInv, Called, CallKeepsContext
  <2>3. /\ owner' = [owner EXCEPT ![c] = NoId]
        /\ threadContext' = [threadContext EXCEPT ![t] = NoContext]
        /\ pc'[t] = "app"
        /\ \A u \in Threads : u # t => pc'[u] = pc[u] /\ call'[u] = call[u]
        /\ UNCHANGED id
    BY <1>4, <2>1, <2>2, ConstantsAssumption DEF Unlock, Exited, TypeOK
  <2>4. ASSUME NEW u \in Threads, u # t, InCall(u)'
        PROVE  threadContext'[u] = call'[u] /\ owner'[call'[u]] = id'[u]
    <3>1. /\ threadContext[u] = call[u] /\ owner[call[u]] = id[u]
          /\ stop[u] /\ call[u] \in Contexts
      BY <2>3, <2>4 DEF CallKeepsContext, IdInv, Called, InCall
    <3>2. id[u] # id[t]
      BY <2>1, <2>4, <3>1 DEF IdInv
    <3>3. call[u] # c
      BY <2>2, <3>1, <3>2
    <3>4. QED
      BY <2>3, <2>4, <3>1, <3>3 DEF TypeOK
  <2>5. QED
    BY <2>3, <2>4 DEF CallKeepsContext, InCall
<1>5. ASSUME NEW t \in Threads, InnerEnter(t) \/ InnerReturn(t) PROVE CallKeepsContext'
  <2>1. Ignored(t) /\ InCall(t)
    BY <1>5, EnterStep, ReturnStep DEF InternalInv, Inner, Ignored, InCall
  <2>2. UNCHANGED <<locks, call, id>>
    BY <1>5, <2>1, EnterStep, ReturnStep DEF Entered, Exited, Identify
  <2>3. \A u \in Threads : u # t => pc'[u] = pc[u]
    BY <1>5, EnterStep, ReturnStep
  <2>4. QED
    BY <1>1, <2>1, <2>2, <2>3 DEF InCall
<1>6. ASSUME NEW t \in Threads,
             \/ ApiExit(t) \/ LoadModule(t) \/ LaunchReset(t) \/ SyscallSetup(t)
             \/ ModuleUpdate(t) \/ LaunchEnd(t)
             \/ LoadStream(t) \/ PriorityStream(t) \/ KernelStream(t) \/ AnalysisKernel(t)
      PROVE  CallKeepsContext'
  <2>1. UNCHANGED <<locks, call, id>> /\ \A u \in Threads : u # t => pc'[u] = pc[u]
    BY <1>6, QuietStep, CallStep
  <2>2. InCall(t)
    BY <1>6, QuietStep, CallStep DEF InCall
  <2>3. QED
    BY <1>1, <2>1, <2>2 DEF InCall
<1>7. ASSUME NEW t \in Threads,
             \/ MemoryOperation(t) \/ LaunchBegin(t) \/ Report(t) \/ ReportBegin(t) \/ ReportEnd(t)
             \/ InnerLaunch(t) \/ Crash(t) \/ ReturnUnseen(t)
      PROVE  CallKeepsContext'
  <2>1. UNCHANGED <<locks, id>>
    BY <1>7 DEF MemoryOperation, LaunchBegin, Report, ReportBegin, ReportEnd, InnerLaunch, Crash,
                ReturnUnseen
  <2>2. \A u \in Threads : InCall(u)' => InCall(u) /\ call'[u] = call[u]
    BY <1>7 DEF MemoryOperation, LaunchBegin, Report, ReportBegin, ReportEnd, InnerLaunch, Crash,
                ReturnUnseen, InCall, TypeOK
  <2>3. QED
    BY <1>1, <2>1, <2>2
<1>8. ASSUME NEW t \in Threads, ProcessFlush(t) \/ ThreadEnd(t) \/ ProcessEnd(t)
      PROVE  CallKeepsContext'
  <2>1. UNCHANGED <<locks, call, id>>
    BY <1>8 DEF ProcessFlush, ThreadEnd, ProcessEnd
  <2>2. \A u \in Threads : InCall(u)' => InCall(u)
    BY <1>8 DEF ProcessFlush, ThreadEnd, ProcessEnd, DriverFailed, InCall, TypeOK
  <2>3. QED
    BY <1>1, <2>1, <2>2
<1>9. CASE Subscribe \/ UNCHANGED vars
  BY <1>1, <1>9 DEF Subscribe, vars, InCall
<1>10. QED
  BY <1>2, <1>3, <1>4, <1>5, <1>6, <1>7, <1>8, <1>9 DEF Next, Step

\* Threads in calls are in calls on different contexts.
LEMMA OwnContext ==
  ASSUME TypeOK, IdInv, CallKeepsContext, NEW t \in Threads, NEW u \in Threads,
         InCall(t), InCall(u), call[t] = call[u]
  PROVE  t = u
  BY DEF CallKeepsContext, IdInv, Called

\* Between the callbacks of a launch nothing takes another operation id.
LEMMA BegunNext ==
  TypeOK /\ InternalInv /\ LaunchEndsAsBegun /\ [Next]_vars => LaunchEndsAsBegun'
<1> SUFFICES ASSUME TypeOK, InternalInv, LaunchEndsAsBegun, [Next]_vars PROVE LaunchEndsAsBegun'
  OBVIOUS
<1> USE DEF Goto, settings, identity, locks, entries, selection, redshow
<1>1. ASSUME NEW t \in Threads,
             \A u \in Threads : u # t => /\ pc'[u] = pc[u] /\ op'[u] = op[u] /\ begun'[u] = begun[u],
             Launching(t)' => op'[t] = begun'[t]
      PROVE  LaunchEndsAsBegun'
  BY <1>1 DEF LaunchEndsAsBegun, Launching, Inner
<1>2. ASSUME UNCHANGED <<op, begun>>, \A u \in Threads : Launching(u)' => Launching(u)
      PROVE  LaunchEndsAsBegun'
  BY <1>2 DEF LaunchEndsAsBegun
<1>3. ASSUME NEW t \in Threads, (\E c \in Contexts : ApiEnter(t, c)) \/ Lock(t) \/ Unlock(t)
      PROVE  LaunchEndsAsBegun'
  BY <1>2, <1>3 DEF ApiEnter, Lock, Unlock, TypeOK, Launching, Inner
<1>4. ASSUME NEW t \in Threads, MemoryOperation(t) \/ LaunchBegin(t) PROVE LaunchEndsAsBegun'
  <2>1. UNCHANGED begun /\ TakeId(t) /\ ~Launching(t)'
    BY <1>4 DEF MemoryOperation, LaunchBegin, TypeOK, Launching, Inner
  <2>2. \A u \in Threads : u # t => pc'[u] = pc[u]
    BY <1>4 DEF MemoryOperation, LaunchBegin, TypeOK
  <2>3. QED
    BY <1>1, <2>1, <2>2 DEF TakeId, TypeOK
<1>5. ASSUME NEW t \in Threads, Report(t) \/ ReportEnd(t) PROVE LaunchEndsAsBegun'
  BY <1>1, <1>5 DEF Report, ReportEnd, TypeOK, Launching, Inner
<1>6. ASSUME NEW t \in Threads, ReportBegin(t) PROVE LaunchEndsAsBegun'
  BY <1>1, <1>6 DEF ReportBegin, TypeOK
<1>7. ASSUME NEW t \in Threads,
             \/ ApiExit(t) \/ LoadModule(t) \/ LaunchReset(t) \/ SyscallSetup(t)
             \/ ModuleUpdate(t) \/ LaunchEnd(t)
             \/ LoadStream(t) \/ PriorityStream(t) \/ KernelStream(t) \/ AnalysisKernel(t)
             \/ InnerEnter(t) \/ InnerReturn(t)
      PROVE  LaunchEndsAsBegun'
  <2>1. UNCHANGED <<op, begun>> /\ \A u \in Threads : u # t => pc'[u] = pc[u]
    BY <1>7, QuietStep, CallStep, EnterStep, ReturnStep
  <2>2. Launching(t)' => Launching(t)
    BY <1>7, QuietStep, CallStep, EnterStep, ReturnStep DEF Launching, Inner
  <2>3. QED
    BY <1>2, <2>1, <2>2 DEF Launching
<1>8. ASSUME NEW t \in Threads, InnerLaunch(t) PROVE LaunchEndsAsBegun'
  <2>1. Ignored(t)
    BY <1>8 DEF InnerLaunch, InternalInv, Inner, Ignored
  <2>2. UNCHANGED op
    BY <1>8, <2>1 DEF InnerLaunch, TakeId
  <2>3. QED
    BY <1>2, <1>8, <2>2 DEF InnerLaunch, TypeOK, Launching, Inner
<1>9. ASSUME NEW t \in Threads, Crash(t) \/ ProcessFlush(t) \/ ThreadEnd(t) \/ ProcessEnd(t)
      PROVE  LaunchEndsAsBegun'
  BY <1>2, <1>9 DEF Crash, ProcessFlush, ThreadEnd, ProcessEnd, DriverFailed, TypeOK, Launching, Inner
<1>10. ASSUME NEW t \in Threads, ReturnUnseen(t) PROVE LaunchEndsAsBegun'
  BY <1>1, <1>10 DEF ReturnUnseen, TypeOK, Launching, Inner
<1>11. CASE Subscribe \/ UNCHANGED vars
  BY <1>2, <1>11 DEF Subscribe, vars, Launching
<1>12. QED
  BY <1>3, <1>4, <1>5, <1>6, <1>7, <1>8, <1>9, <1>10, <1>11 DEF Next, Step

\* What is reported on a context is the operation of the thread in the call.
LEMMA ReportStep ==
  ASSUME TypeOK, [Next]_vars
  PROVE  \/ UNCHANGED lastOp
         \/ \E t \in Threads :
              /\ pc[t] \in {"report", "begin", "end"}
              /\ lastOp' = [lastOp EXCEPT ![call[t]] = op[t]]
              /\ UNCHANGED <<call, nextOp>>
              /\ \A u \in Threads \ {t} : pc'[u] = pc[u] /\ op'[u] = op[u]
              /\ pc[t] = "begin" => op'[t] = op[t]
              /\ pc[t] # "begin" => pc'[t] = "api"
<1> USE DEF Goto, redshow
<1>1. ASSUME NEW t \in Threads,
             \/ \E c \in Contexts : ApiEnter(t, c)
             \/ MemoryOperation(t) \/ LaunchBegin(t) \/ Lock(t) \/ Unlock(t) \/ InnerLaunch(t)
      PROVE  UNCHANGED lastOp
  BY <1>1 DEF ApiEnter, MemoryOperation, LaunchBegin, Lock, Unlock, InnerLaunch
<1>2. ASSUME NEW t \in Threads,
             \/ ApiExit(t) \/ LoadModule(t) \/ LaunchReset(t) \/ SyscallSetup(t)
             \/ ModuleUpdate(t) \/ LaunchEnd(t)
             \/ LoadStream(t) \/ PriorityStream(t) \/ KernelStream(t) \/ AnalysisKernel(t)
             \/ InnerEnter(t) \/ InnerReturn(t)
      PROVE  UNCHANGED lastOp
  BY <1>2, QuietStep, CallStep, EnterStep, ReturnStep
<1>3. ASSUME NEW t \in Threads, Crash(t) \/ ProcessFlush(t) \/ ReturnUnseen(t) \/ ThreadEnd(t)
                                \/ ProcessEnd(t)
      PROVE  UNCHANGED lastOp
  BY <1>3 DEF Crash, ProcessFlush, ReturnUnseen, ThreadEnd, ProcessEnd
<1>4. ASSUME NEW t \in Threads, Report(t) \/ ReportBegin(t) \/ ReportEnd(t)
      PROVE  /\ pc[t] \in {"report", "begin", "end"}
             /\ lastOp' = [lastOp EXCEPT ![call[t]] = op[t]]
             /\ UNCHANGED <<call, nextOp>>
             /\ \A u \in Threads \ {t} : pc'[u] = pc[u] /\ op'[u] = op[u]
             /\ pc[t] = "begin" => op'[t] = op[t]
             /\ pc[t] # "begin" => pc'[t] = "api"
  <2>1. CASE Report(t)
    BY <2>1 DEF Report, TypeOK
  <2>2. CASE ReportBegin(t)
    BY <2>2 DEF ReportBegin, TypeOK
  <2>3. CASE ReportEnd(t)
    BY <2>3 DEF ReportEnd, TypeOK
  <2>4. QED
    BY <1>4, <2>1, <2>2, <2>3
<1>5. CASE Subscribe \/ UNCHANGED vars
  BY <1>5 DEF Subscribe, vars
<1>6. QED
  BY <1>1, <1>2, <1>3, <1>4, <1>5 DEF Next, Step

\* The operations that are being worked on stay the last ones of their contexts.
LEMMA OpNext ==
  TypeOK /\ InternalInv /\ IdInv /\ CallKeepsContext /\ OpInv /\ [Next]_vars => OpInv'
<1> SUFFICES ASSUME TypeOK, InternalInv, IdInv, CallKeepsContext, OpInv, [Next]_vars PROVE OpInv'
  OBVIOUS
<1> USE DEF Goto, settings, identity, locks, entries, selection, redshow
<1>1. ASSUME UNCHANGED <<lastOp, nextOp>>,
             \A u \in Threads : Operating(u)' =>
                                  Operating(u) /\ call'[u] = call[u] /\ op'[u] = op[u]
      PROVE  OpInv'
  BY <1>1 DEF OpInv
<1>2. ASSUME NEW t \in Threads, (\E c \in Contexts : ApiEnter(t, c)) \/ Lock(t) \/ Unlock(t)
      PROVE  OpInv'
  <2>1. UNCHANGED <<lastOp, nextOp, op>>
    BY <1>2 DEF ApiEnter, Lock, Unlock
  <2>2. \A u \in Threads : Operating(u)' => Operating(u) /\ call'[u] = call[u]
    BY <1>2 DEF ApiEnter, Lock, Unlock, TypeOK, Operating, Launching, Inner
  <2>3. QED
    BY <1>1, <2>1, <2>2
<1>3. ASSUME NEW t \in Threads, MemoryOperation(t) \/ LaunchBegin(t) PROVE OpInv'
  <2>1. /\ UNCHANGED <<lastOp, call, internal>> /\ TakeId(t) /\ pc[t] = "api"
        /\ \A u \in Threads : u # t => pc'[u] = pc[u]
    BY <1>3 DEF MemoryOperation, LaunchBegin, TypeOK
  <2>2. ~Ignored(t) /\ call[t] \in Contexts
    BY <2>1 DEF InternalInv, Ignored, Inner, IdInv, Called, InCall
  <2>3. op' = [op EXCEPT ![t] = nextOp] /\ nextOp' = nextOp + 1
    BY <2>1, <2>2 DEF TakeId
  <2>4. op'[t] = nextOp /\ nextOp \in Nat /\ \A u \in Threads : u # t => op'[u] = op[u]
    BY <2>3 DEF TypeOK
  <2>5. \A c \in Contexts : lastOp'[c] # NoId => lastOp'[c] < nextOp /\ lastOp'[c] \in Nat
    BY <2>1 DEF OpInv, TypeOK
  <2>6. ASSUME NEW u \in Threads, Operating(u)'
        PROVE  /\ op'[u] \in Nat /\ op'[u] < nextOp'
               /\ lastOp'[call'[u]] # NoId => lastOp'[call'[u]] <= op'[u]
    <3>1. CASE u = t
      BY <2>1, <2>2, <2>3, <2>4, <2>5, <3>1
    <3>2. CASE u # t
      <4>1. Operating(u)
        BY <2>1, <2>6, <3>2 DEF Operating, Launching, Inner
      <4>2. QED
        BY <2>1, <2>3, <2>4, <3>2, <4>1 DEF OpInv
    <3>3. QED
      BY <3>1, <3>2
  <2>7. QED
    BY <2>3, <2>4, <2>5, <2>6 DEF OpInv
<1>4. ASSUME NEW t \in Threads, pc[t] \in {"report", "begin", "end"},
             lastOp' = [lastOp EXCEPT ![call[t]] = op[t]], UNCHANGED <<call, nextOp>>,
             \A u \in Threads \ {t} : pc'[u] = pc[u] /\ op'[u] = op[u],
             pc[t] = "begin" => op'[t] = op[t],
             pc[t] # "begin" => pc'[t] = "api"
      PROVE  OpInv'
  <2>1. op[t] \in Nat /\ op[t] < nextOp /\ call[t] \in Contexts /\ InCall(t)
    BY <1>4 DEF OpInv, Operating, Launching, IdInv, Called, InCall
  <2>2. lastOp'[call[t]] = op[t] /\ \A c \in Contexts : c # call[t] => lastOp'[c] = lastOp[c]
    BY <1>4, <2>1 DEF TypeOK
  <2>3. \A c \in Contexts : lastOp'[c] # NoId => lastOp'[c] < nextOp'
    BY <1>4, <2>1, <2>2 DEF OpInv
  <2>4. ASSUME NEW u \in Threads, Operating(u)'
        PROVE  /\ op'[u] \in Nat /\ op'[u] < nextOp'
               /\ lastOp'[call'[u]] # NoId => lastOp'[call'[u]] <= op'[u]
    <3>1. CASE u = t
      <4>1. op'[t] = op[t]
        BY <1>4, <2>4, <3>1 DEF Operating, Launching, Inner
      <4>2. QED
        BY <1>4, <2>1, <2>2, <3>1, <4>1
    <3>2. CASE u # t
      <4>1. Operating(u) /\ InCall(u) /\ call[u] \in Contexts /\ op'[u] = op[u]
        BY <1>4, <2>4, <3>2 DEF Operating, Launching, Inner, InCall, IdInv, Called
      <4>2. call[u] # call[t]
        BY <2>1, <3>2, <4>1, OwnContext
      <4>3. QED
        BY <1>4, <2>2, <4>1, <4>2 DEF OpInv
    <3>3. QED
      BY <3>1, <3>2
  <2>5. QED
    BY <2>3, <2>4 DEF OpInv
<1>5. ASSUME NEW t \in Threads,
             \/ ApiExit(t) \/ LoadModule(t) \/ LaunchReset(t) \/ SyscallSetup(t)
             \/ ModuleUpdate(t) \/ LaunchEnd(t)
             \/ LoadStream(t) \/ PriorityStream(t) \/ KernelStream(t) \/ AnalysisKernel(t)
             \/ InnerEnter(t) \/ InnerReturn(t)
      PROVE  OpInv'
  <2>1. /\ UNCHANGED <<lastOp, nextOp, call, op>>
        /\ \A u \in Threads : u # t => pc'[u] = pc[u]
    BY <1>5, QuietStep, CallStep, EnterStep, ReturnStep
  <2>2. Operating(t)' => Operating(t)
    BY <1>5, QuietStep, CallStep, EnterStep, ReturnStep DEF Operating, Launching, Inner
  <2>3. QED
    BY <1>1, <2>1, <2>2 DEF Operating, Launching
<1>6. ASSUME NEW t \in Threads, InnerLaunch(t) PROVE OpInv'
  <2>1. Ignored(t)
    BY <1>6 DEF InnerLaunch, InternalInv, Inner, Ignored
  <2>2. UNCHANGED <<op, nextOp>>
    BY <1>6, <2>1 DEF InnerLaunch, TakeId
  <2>3. QED
    BY <1>1, <1>6, <2>2 DEF InnerLaunch, TypeOK, Operating, Launching, Inner
<1>7. ASSUME NEW t \in Threads, Crash(t) \/ ProcessFlush(t) \/ ThreadEnd(t) \/ ProcessEnd(t)
      PROVE  OpInv'
  BY <1>1, <1>7 DEF Crash, ProcessFlush, ThreadEnd, ProcessEnd, DriverFailed, TypeOK, Operating, Launching, Inner
<1>8. ASSUME NEW t \in Threads, ReturnUnseen(t) PROVE OpInv'
  BY <1>1, <1>8 DEF ReturnUnseen, TypeOK, Operating, Launching, Inner
<1>9. CASE Subscribe \/ UNCHANGED vars
  BY <1>1, <1>9 DEF Subscribe, vars, Operating, Launching, Inner
<1>10. ASSUME NEW t \in Threads, Report(t) \/ ReportBegin(t) \/ ReportEnd(t) PROVE OpInv'
  <2>1. CASE Report(t)
    BY <1>4, <2>1 DEF Report, TypeOK
  <2>2. CASE ReportBegin(t)
    BY <1>4, <2>2 DEF ReportBegin, TypeOK
  <2>3. CASE ReportEnd(t)
    BY <1>4, <2>3 DEF ReportEnd, TypeOK
  <2>4. QED
    BY <1>10, <2>1, <2>2, <2>3
<1>11. QED
  BY <1>2, <1>3, <1>5, <1>6, <1>7, <1>8, <1>9, <1>10 DEF Next, Step

------------------------------------------------------------------------------
(* The whitelist, a recursive function over the pieces of its file.        *)

\* The texts of the pieces up to n that are no comments.
TextsUpTo(file, n) == {file[i].text : i \in {j \in 1..n : ~file[j].comment}}

\* What kernel_whitelist_init has listed after each of the first n pieces, if
\* such a function exists.
IsListing(f, file, n) ==
  f = [k \in 0..n |-> IF k = 0 THEN <<>>
                      ELSE IF file[k].comment THEN f[k - 1]
                      ELSE Append(f[k - 1], file[k].text)]

\* It exists.
LEMMA ListingExists ==
  ASSUME NEW file, NEW m \in Nat
  PROVE  \E f : IsListing(f, file, m)
<1> DEFINE Good(k) == \E f : IsListing(f, file, k)
           Bad == {k \in Nat : ~Good(k)}
<1>1. SUFFICES ASSUME Bad # {} PROVE FALSE
  OBVIOUS
<1>2. PICK k \in Bad : \A n \in Bad : k <= n
  BY <1>1, LeastNumber
<1>3. CASE k = 0
  <2> DEFINE f == [n \in 0..0 |-> <<>>]
  <2>1. \A n \in 0..0 : n = 0
    OBVIOUS
  <2>2. IsListing(f, file, 0)
    BY <2>1 DEF IsListing
  <2>3. QED
    BY <1>2, <1>3, <2>2
<1>4. CASE k # 0
  <2>1. k - 1 \in Nat /\ k \in Nat /\ ~ (k <= k - 1)
    BY <1>2, <1>4
  <2>2. Good(k - 1)
    <3>1. k - 1 \notin Bad
      BY <1>2, <2>1
    <3> HIDE DEF Good
    <3>2. QED
      BY <2>1, <3>1
  <2>3. PICK j \in Nat : j = k - 1
    BY <2>1
  <2>4. PICK f : IsListing(f, file, j)
    BY <2>2, <2>3
  <2> DEFINE Value(n) == IF n = 0 THEN <<>>
                         ELSE IF file[n].comment THEN f[n - 1]
                         ELSE Append(f[n - 1], file[n].text)
             g == [n \in 0..k |-> Value(n)]
  <2>5. \A n \in 0..j : g[n] = f[n]
    <3>1. ASSUME NEW n \in 0..j PROVE g[n] = f[n]
      <4>1. f[n] = Value(n)
        BY <2>4 DEF IsListing
      <4>2. n \in 0..k
        BY <2>1, <2>3
      <4> HIDE DEF Value
      <4>3. QED
        BY <4>1, <4>2
    <3>2. QED
      BY <3>1
  <2>6. ASSUME NEW n \in 0..k
        PROVE  Value(n) = IF n = 0 THEN <<>>
                          ELSE IF file[n].comment THEN g[n - 1]
                          ELSE Append(g[n - 1], file[n].text)
    <3>1. n # 0 => n - 1 \in 0..j
      BY <2>1, <2>3
    <3>2. n # 0 => g[n - 1] = f[n - 1]
      BY <2>5, <3>1
    <3> HIDE DEF g
    <3>3. QED
      BY <3>2
  <2>7. IsListing(g, file, k)
    <3> HIDE DEF Value
    <3>1. QED
      BY <2>6 DEF IsListing
  <2>8. QED
    BY <1>2, <2>7
<1>5. QED
  BY <1>3, <1>4

\* The whitelist has the texts of the pieces that are no comments.
LEMMA WhitelistIs ==
  ASSUME NEW file, IsFile(file)
  PROVE  LET list == WhitelistOf(file)
         IN  /\ list # <<>> <=> TextsUpTo(file, Len(file)) # {}
             /\ \A x : InWhitelist(list, x) <=> x \in TextsUpTo(file, Len(file))
<1> DEFINE All == {file[i].text : i \in 1..Len(file)}
           Lists(list, n) ==
             /\ list \in Seq(All)
             /\ {list[i] : i \in DOMAIN list} = TextsUpTo(file, n)
<1>1. PICK m \in Nat : m = Len(file)
  BY DEF IsFile
<1>2. /\ DOMAIN file = 1..m
      /\ \A i \in 1..m : file[i].comment \in BOOLEAN /\ file[i].text \in All
  BY <1>1 DEF IsFile
<1>3. PICK f : IsListing(f, file, m) /\ WhitelistOf(file) = f[m]
  <2> DEFINE f == CHOOSE f : IsListing(f, file, m)
  <2>1. IsListing(f, file, m)
    BY ListingExists
  <2>2. WhitelistOf(file) = f[m]
    BY <1>1 DEF WhitelistOf, IsListing
  <2>3. QED
    BY <2>1, <2>2
<1>4. ASSUME NEW n \in 0..m
      PROVE  /\ n = 0 => f[n] = <<>>
             /\ n # 0 /\ file[n].comment => f[n] = f[n - 1]
             /\ n # 0 /\ ~file[n].comment => f[n] = Append(f[n - 1], file[n].text)
  BY <1>3 DEF IsListing
<1> DEFINE Bad == {n \in 0..m : ~Lists(f[n], n)}
<1>5. ASSUME Bad # {} PROVE FALSE
  <2>1. PICK n \in Bad : \A k \in Bad : n <= k
    <3>1. Bad \subseteq Nat
      BY <1>1
    <3>2. QED
      BY <1>5, <3>1, LeastNumber
  <2>2. n \in 0..m /\ n \in Nat
    BY <2>1
  <2>3. ASSUME n = 0 PROVE Lists(f[n], n)
    <3>1. f[n] = <<>> /\ 1..n = {}
      BY <1>4, <2>2, <2>3
    <3>2. <<>> \in Seq(All) /\ {<<>>[i] : i \in DOMAIN <<>>} = {}
      OBVIOUS
    <3>3. TextsUpTo(file, n) = {}
      BY <3>1 DEF TextsUpTo
    <3>4. QED
      BY <3>1, <3>2, <3>3
  <2>4. ASSUME n # 0 PROVE Lists(f[n], n)
    <3>1. n - 1 \in 0..m /\ ~ (n <= n - 1) /\ n \in 1..m
      BY <2>2, <2>4
    <3>2. Lists(f[n - 1], n - 1)
      <4>1. n - 1 \notin Bad
        BY <2>1, <3>1
      <4> HIDE DEF Lists
      <4>2. QED
        BY <3>1, <4>1
    <3>3. PICK p : p = f[n - 1]
      OBVIOUS
    <3>4. p \in Seq(All) /\ {p[i] : i \in DOMAIN p} = TextsUpTo(file, n - 1)
      BY <3>2, <3>3
    <3>5. 1..n = (1..(n - 1)) \union {n}
      BY <2>2, <3>1
    <3>6. CASE file[n].comment
      <4>1. f[n] = p
        BY <1>4, <2>2, <2>4, <3>3, <3>6
      <4>2. TextsUpTo(file, n) = TextsUpTo(file, n - 1)
        BY <3>5, <3>6 DEF TextsUpTo
      <4>3. QED
        BY <3>4, <4>1, <4>2
    <3>7. CASE ~file[n].comment
      <4>1. PICK x : x = file[n].text
        OBVIOUS
      <4>2. f[n] = Append(p, x) /\ x \in All
        BY <1>2, <1>4, <2>2, <2>4, <3>1, <3>3, <3>7, <4>1
      <4>3. TextsUpTo(file, n) = TextsUpTo(file, n - 1) \union {x}
        BY <3>5, <3>7, <4>1 DEF TextsUpTo
      <4>4. PICK q \in Seq(All) : q = Append(p, x)
        <5>1. p \in Seq(All) /\ x \in All
          BY <3>4, <4>2
        <5> HIDE DEF All
        <5>2. Append(p, x) \in Seq(All)
          BY <5>1
        <5>3. QED
          BY <5>2
      <4>5. {q[i] : i \in DOMAIN q} = {p[i] : i \in DOMAIN p} \union {x}
        <5>1. /\ DOMAIN p = 1..Len(p) /\ DOMAIN q = 1..(Len(p) + 1) /\ Len(p) \in Nat
              /\ \A i \in 1..Len(p) : q[i] = p[i]
              /\ q[Len(p) + 1] = x
          BY <3>4, <4>2, <4>4
        <5>2. 1..(Len(p) + 1) = (1..Len(p)) \union {Len(p) + 1}
          BY <5>1
        <5>3. ASSUME NEW y PROVE (\E i \in DOMAIN q : y = q[i])
                                 <=> (\E i \in DOMAIN p : y = p[i]) \/ y = x
          BY <5>1, <5>2
        <5>4. QED
          BY <5>3
      <4>6. QED
        BY <3>4, <4>2, <4>3, <4>4, <4>5
    <3>8. QED
      BY <1>2, <3>1, <3>6, <3>7
  <2>5. QED
    BY <2>1, <2>3, <2>4
<1>6. Lists(f[m], m)
  <2>1. m \in 0..m
    BY <1>1
  <2> HIDE DEF Lists
  <2>2. QED
    BY <1>5, <2>1
<1>7. PICK list : list = WhitelistOf(file)
  OBVIOUS
<1>8. list \in Seq(All) /\ {list[i] : i \in DOMAIN list} = TextsUpTo(file, Len(file))
  BY <1>1, <1>3, <1>6, <1>7
<1>9. list # <<>> <=> DOMAIN list # {}
  BY <1>8
<1>10. QED
  BY <1>7, <1>8, <1>9 DEF InWhitelist

\* The list of the callbacks filters exactly the kernels that the file does not
\* admit.
LEMMA FilteredIs ==
  ASSUME TypeOK, NEW k \in Kernels
  PROVE  Filtered(config.whitelist, k) <=> k \notin Admitted
<1>1. env \in Environments /\ config = Configure(env)
  BY DEF TypeOK
<1>2. CASE env.whitelist = Unset
  <2>1. config.whitelist = <<>> /\ Listed = {}
    BY <1>1, <1>2 DEF Configure, Listed
  <2>2. QED
    BY <2>1 DEF Admitted, Filtered
<1>3. CASE env.whitelist # Unset
  <2>1. PICK file : file = env.whitelist
    OBVIOUS
  <2>2. IsFile(file) /\ config.whitelist = WhitelistOf(file)
    BY <1>1, <1>3, <2>1, ConstantsAssumption DEF Configure
  <2>3. Listed = TextsUpTo(file, Len(file))
    BY <1>3, <2>1, <2>2 DEF Listed, TextsUpTo, IsFile
  <2>4. /\ WhitelistOf(file) # <<>> <=> Listed # {}
        /\ \A x : InWhitelist(WhitelistOf(file), x) <=> x \in Listed
    BY <2>2, <2>3, WhitelistIs
  <2>5. QED
    BY <2>2, <2>4 DEF Admitted, Filtered
<1>4. QED
  BY <1>2, <1>3

\* Only LAUNCH_BEGIN decides what a thread has analysed.
LEMMA SelectionStep ==
  ASSUME TypeOK, [Next]_vars
  PROVE  UNCHANGED env /\ (UNCHANGED selection \/ \E t \in Threads : LaunchBegin(t))
<1> USE DEF settings
<1>1. ASSUME NEW t \in Threads,
             \/ \E c \in Contexts : ApiEnter(t, c)
             \/ MemoryOperation(t) \/ Lock(t) \/ Unlock(t) \/ InnerLaunch(t)
             \/ Report(t) \/ ReportBegin(t) \/ ReportEnd(t)
      PROVE  UNCHANGED <<env, selection>>
  BY <1>1 DEF ApiEnter, MemoryOperation, Lock, Unlock, InnerLaunch, Report, ReportBegin, ReportEnd
<1>2. ASSUME NEW t \in Threads,
             \/ ApiExit(t) \/ LoadModule(t) \/ LaunchReset(t) \/ SyscallSetup(t)
             \/ ModuleUpdate(t) \/ LaunchEnd(t)
             \/ LoadStream(t) \/ PriorityStream(t) \/ KernelStream(t) \/ AnalysisKernel(t)
             \/ InnerEnter(t) \/ InnerReturn(t)
      PROVE  UNCHANGED <<env, selection>>
  BY <1>2, QuietStep, CallStep, EnterStep, ReturnStep
<1>3. ASSUME NEW t \in Threads,
             Crash(t) \/ ProcessFlush(t) \/ ReturnUnseen(t) \/ ThreadEnd(t) \/ ProcessEnd(t)
      PROVE  UNCHANGED <<env, selection>>
  BY <1>3 DEF Crash, ProcessFlush, ReturnUnseen, ThreadEnd, ProcessEnd
<1>4. ASSUME NEW t \in Threads, LaunchBegin(t) PROVE UNCHANGED env
  BY <1>4 DEF LaunchBegin
<1>5. CASE Subscribe \/ UNCHANGED vars
  BY <1>5 DEF Subscribe, vars
<1>6. QED
  BY <1>1, <1>2, <1>3, <1>4, <1>5 DEF Next, Step

\* A thread samples as long as it launches what the file admits.
LEMMA SamplingNext == TypeOK /\ SamplingFollowsList /\ [Next]_vars => SamplingFollowsList'
<1> SUFFICES ASSUME TypeOK, SamplingFollowsList, [Next]_vars PROVE SamplingFollowsList'
  OBVIOUS
<1>1. UNCHANGED env /\ UNCHANGED Admitted
  BY SelectionStep DEF Admitted, Listed
<1>2. CASE UNCHANGED selection
  BY <1>1, <1>2 DEF SamplingFollowsList, selection
<1>3. ASSUME NEW t \in Threads, LaunchBegin(t) PROVE SamplingFollowsList'
  <2>1. PICK k \in Kernels :
          /\ sampling' = [sampling EXCEPT ![t] = @ /\ ~Filtered(config.whitelist, k)]
          /\ launched' = [launched EXCEPT ![t] = @ \union {k}]
    BY <1>3, Zenon DEF LaunchBegin
  <2>2. /\ sampling'[t] <=> sampling[t] /\ ~Filtered(config.whitelist, k)
        /\ \A u \in Threads : u # t => (sampling'[u] <=> sampling[u])
    BY <2>1, Zenon DEF TypeOK
  <2>3. /\ launched'[t] = launched[t] \union {k}
        /\ \A u \in Threads : u # t => launched'[u] = launched[u]
    BY <2>1 DEF TypeOK
  <2>4. sampling'[t] <=> sampling[t] /\ k \in Admitted
    BY <2>2, FilteredIs
  <2>5. sampling[t] <=> launched[t] \subseteq Admitted
    BY DEF SamplingFollowsList
  <2>6. launched'[t] \subseteq Admitted <=> launched[t] \subseteq Admitted /\ k \in Admitted
    BY <2>3
  <2>7. ASSUME NEW u \in Threads PROVE sampling'[u] <=> launched'[u] \subseteq Admitted'
    <3>1. CASE u = t
      BY <1>1, <2>4, <2>5, <2>6, <3>1
    <3>2. CASE u # t
      BY <1>1, <2>2, <2>3, <3>2 DEF SamplingFollowsList
    <3>3. QED
      BY <3>1, <3>2
  <2>8. QED
    BY <2>7 DEF SamplingFollowsList
<1>4. QED
  BY <1>2, <1>3, SelectionStep

------------------------------------------------------------------------------
(* The inductive invariant and the theorems.                               *)

\* The inductive invariant holds at first.
LEMMA IInvInit == Init => IInv
<1> SUFFICES ASSUME Init PROVE IInv
  OBVIOUS
<1>1. TypeOK
  BY TypeOKInit
<1>2. \A t \in Threads : pc[t] = "app" /\ ~internal[t] /\ ~stop[t]
  BY Zenon DEF Init
<1>3. InternalInv
  BY <1>2 DEF InternalInv, Inner
<1>4. IdInv
  BY <1>2 DEF Init, IdInv, Called, InCall
<1>5. CallKeepsContext /\ LaunchEndsAsBegun
  BY <1>2 DEF CallKeepsContext, LaunchEndsAsBegun, InCall, Launching, Inner
<1>6. OpInv
  BY <1>2 DEF Init, OpInv, Operating, Launching, Inner
<1>7. SamplingFollowsList
  <2>1. \A t \in Threads : sampling[t]
    BY Zenon DEF Init
  <2>2. \A t \in Threads : launched[t] = {}
    BY DEF Init
  <2>3. QED
    BY <2>1, <2>2 DEF SamplingFollowsList
<1>8. QED
  BY <1>1, <1>3, <1>4, <1>5, <1>6, <1>7 DEF IInv

\* Every reachable state satisfies the inductive invariant.
THEOREM Invariance == Spec => []IInv
<1>1. IInv /\ [Next]_vars => IInv'
  BY TypeOKNext, InternalNext, IdNext, OwnNext, BegunNext, OpNext, SamplingNext DEF IInv
<1>2. QED
  BY <1>1, IInvInit, PTL DEF Spec

\* The context that ENTER locks is the one that EXIT unlocks, whatever driver
\* calls the profiler makes in between.
THEOREM ContextsKept == Spec => []CallKeepsContext
<1>1. IInv => CallKeepsContext
  BY DEF IInv
<1>2. QED
  BY <1>1, Invariance, PTL

\* LAUNCH_END reports the operation of its LAUNCH_BEGIN.
THEOREM LaunchesPaired == Spec => []LaunchEndsAsBegun
<1>1. IInv => LaunchEndsAsBegun
  BY DEF IInv
<1>2. QED
  BY <1>1, Invariance, PTL

\* Threads in callbacks have ids of their own that were not flushed.
THEOREM IdsFresh == Spec => []FreshIds
<1>1. IInv => FreshIds
  BY DEF IInv, IdInv, FreshIds, Called
<1>2. QED
  BY <1>1, Invariance, PTL

\* redshow gets the operations of a context in the order of their ids.
THEOREM OpsOrdered == Spec => OpsInContextOrder
<1> DEFINE Ordered == \A c \in Contexts : lastOp[c] # NoId => lastOp'[c] >= lastOp[c]
<1>1. IInv /\ [Next]_vars => Ordered
  <2> SUFFICES ASSUME IInv, [Next]_vars, NEW c \in Contexts, lastOp[c] # NoId
               PROVE  lastOp'[c] >= lastOp[c]
    OBVIOUS
  <2>1. TypeOK /\ OpInv
    BY DEF IInv
  <2>2. lastOp[c] \in Nat
    BY <2>1 DEF TypeOK
  <2>3. CASE UNCHANGED lastOp
    BY <2>2, <2>3
  <2>4. ASSUME NEW t \in Threads, pc[t] \in {"report", "begin", "end"},
               lastOp' = [lastOp EXCEPT ![call[t]] = op[t]]
        PROVE  lastOp'[c] >= lastOp[c]
    <3>1. /\ op[t] \in Nat
          /\ lastOp[call[t]] # NoId => lastOp[call[t]] <= op[t]
      BY <2>1, <2>4 DEF OpInv, Operating, Launching
    <3>2. QED
      BY <2>1, <2>2, <2>4, <3>1 DEF TypeOK
  <2>5. QED
    BY <2>1, <2>3, <2>4, ReportStep
<1>2. QED
  BY <1>1, Invariance, PTL DEF Spec, OpsInContextOrder

\* A thread has its kernels analysed up to the first one it launches that the
\* whitelist file does not admit, and none from there on, for every file that
\* fgets cuts into pieces (kernel_whitelist_init, kernel_whitelist_search and
\* the flag that LAUNCH_BEGIN never sets again).
THEOREM SamplingRight == Spec => []SamplingFollowsList
<1>1. IInv => SamplingFollowsList
  BY DEF IInv
<1>2. QED
  BY <1>1, Invariance, PTL

==============================================================================
