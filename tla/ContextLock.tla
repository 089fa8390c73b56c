----------------------------- MODULE ContextLock -----------------------------
(***************************************************************************)
(* The map of contexts and the per-context lock (sanitizer-context-map.c), *)
(* as the subscriber callback of gputrigger.c uses them: the ENTER         *)
(* callback of a driver API call locks the call's context, the EXIT        *)
(* callback unlocks it, and a kernel launched in between creates the       *)
(* profiler's priority stream on first use.                                *)
(*                                                                         *)
(* Each step of a thread reads or writes shared memory once: a             *)
(* compare-and-swap of a spin lock, a load or a store.  A thread is known  *)
(* by its sanitizer_thread_id_local, which is unique.  The splay tree is a *)
(* function from contexts to entries: only its keys matter here.           *)
(***************************************************************************)
EXTENDS Integers, FiniteSets

CONSTANTS
  Threads,
  Contexts,     \* contexts the application creates
  NullContext,  \* the null context: calls made before one is current
  Entries,      \* map entries the heap can provide
  NoThread,     \* -1, the lock_thread of an entry nobody holds
  NoEntry,
  MaxDepth      \* how deep driver API callbacks of one thread nest

Keys == Contexts \union {NullContext}

ASSUME ConstantsAssumption ==
  /\ NullContext \notin Contexts
  /\ NoThread \notin Threads
  /\ NoEntry \notin Entries
  /\ MaxDepth \in Nat \ {0}

VARIABLES
  pc,             \* where each thread is
  purpose,        \* what each thread does once it has the map's answer
  context,        \* the context argument of each thread's current call
  entry,          \* the entry each thread found
  threadContext,  \* sanitizer_thread_context of each thread
  depth,          \* driver API calls each thread is in
  mapLock,        \* sanitizer_context_map_lock is taken
  entryOf,        \* the map
  lock,           \* the spin lock of each entry is taken
  lockThread,     \* lock_thread of each entry
  streams         \* priority streams created for each entry

threadVars == <<purpose, context, entry, threadContext, depth>>
entryVars == <<lock, lockThread>>
vars == <<pc, threadVars, mapLock, entryOf, entryVars, streams>>

Locations == {"app", "api", "mapLock", "find", "insert", "create", "mapUnlock",
              "checkOwner", "spin", "own", "checkRelease", "unlock", "leave",
              "checkStream"}

Init ==
  /\ pc = [t \in Threads |-> "app"]
  /\ purpose = [t \in Threads |-> "checkOwner"]
  /\ context = [t \in Threads |-> NullContext]
  /\ entry = [t \in Threads |-> NoEntry]
  /\ threadContext = [t \in Threads |-> NullContext]
  /\ depth = [t \in Threads |-> 0]
  /\ mapLock = FALSE
  /\ entryOf = [c \in Keys |-> NoEntry]
  /\ lock = [e \in Entries |-> FALSE]
  /\ lockThread = [e \in Entries |-> NoThread]
  /\ streams = [e \in Entries |-> 0]

Goto(t, from, to) == pc[t] = from /\ pc' = [pc EXCEPT ![t] = to]

------------------------------------------------------------------------------
(* The callbacks, each of which starts by looking its context up.          *)

Lookup(t, c, next) ==
  /\ pc' = [pc EXCEPT ![t] = "mapLock"]
  /\ purpose' = [purpose EXCEPT ![t] = next]
  /\ context' = [context EXCEPT ![t] = c]
  /\ UNCHANGED <<entry, threadContext, mapLock, entryOf, entryVars, streams>>

\* DRIVER_API, ENTER: of a call of the application, or of one that another
\* driver call makes.
ApiEnter(t, c) ==
  /\ pc[t] \in {"app", "api"}
  /\ depth[t] < MaxDepth
  /\ depth' = [depth EXCEPT ![t] = @ + 1]
  /\ Lookup(t, c, "checkOwner")

\* LAUNCH_BEGIN: the context of the launch is the one of the API call.
LaunchBegin(t) ==
  /\ pc[t] = "api"
  /\ threadContext[t] # NullContext
  /\ Lookup(t, threadContext[t], "checkStream")
  /\ UNCHANGED depth

\* DRIVER_API, EXIT: the context saved at ENTER, not the callback's own.
ApiExit(t) ==
  /\ pc[t] = "api"
  /\ Lookup(t, threadContext[t], "checkRelease")
  /\ UNCHANGED depth

------------------------------------------------------------------------------
(* sanitizer_context_map_init: find or insert under the map's lock.        *)

\* Mutant: the map's lock is taken without looking whether it is free.
MapLockUnchecked(t) ==
  /\ Goto(t, "mapLock", IF purpose[t] = "create" THEN "create" ELSE "find")
  /\ mapLock' = TRUE
  /\ UNCHANGED <<threadVars, entryOf, entryVars, streams>>

MapLock(t) ==
  /\ Goto(t, "mapLock", IF purpose[t] = "create" THEN "create" ELSE "find")
  /\ ~mapLock
  /\ mapLock' = TRUE
  /\ UNCHANGED <<threadVars, entryOf, entryVars, streams>>

Find(t) ==
  /\ Goto(t, "find", "mapUnlock")
  /\ entryOf[context[t]] # NoEntry
  /\ entry' = [entry EXCEPT ![t] = entryOf[context[t]]]
  /\ UNCHANGED <<purpose, context, threadContext, depth, mapLock, entryOf, entryVars, streams>>

FindNothing(t) ==
  /\ Goto(t, "find", "insert")
  /\ entryOf[context[t]] = NoEntry
  /\ UNCHANGED <<threadVars, mapLock, entryOf, entryVars, streams>>

\* A new entry is unlocked and has no stream.
Insert(t) ==
  /\ Goto(t, "insert", "mapUnlock")
  /\ \E e \in Entries :
       /\ \A c \in Keys : entryOf[c] # e
       /\ entryOf' = [entryOf EXCEPT ![context[t]] = e]
       /\ entry' = [entry EXCEPT ![t] = e]
       /\ lock' = [lock EXCEPT ![e] = FALSE]
       /\ lockThread' = [lockThread EXCEPT ![e] = NoThread]
       /\ streams' = [streams EXCEPT ![e] = 0]
  /\ UNCHANGED <<purpose, context, threadContext, depth, mapLock>>

MapUnlock(t) ==
  /\ Goto(t, "mapUnlock", IF purpose[t] = "create" THEN "api" ELSE purpose[t])
  /\ mapLock' = FALSE
  /\ UNCHANGED <<threadVars, entryOf, entryVars, streams>>

------------------------------------------------------------------------------
(* sanitizer_context_map_context_lock, then what ENTER does next.          *)

\* Mutant: ENTER saves the map entry for the context.
EnteredEntry(t) == threadContext' = [threadContext EXCEPT ![t] = entry[t]]

\* Mutant: ENTER does not save the context.
EnteredNowhere(t) == UNCHANGED threadContext

Entered(t) == threadContext' = [threadContext EXCEPT ![t] = context[t]]

\* The lock is the thread's already.
AlreadyOwner(t) ==
  /\ Goto(t, "checkOwner", "api")
  /\ lockThread[entry[t]] = t
  /\ Entered(t)
  /\ UNCHANGED <<purpose, context, entry, depth, mapLock, entryOf, entryVars, streams>>

\* Mutant: a thread that does not own the entry goes on without the lock.
NotOwnerGoesOn(t) ==
  /\ Goto(t, "checkOwner", "api")
  /\ lockThread[entry[t]] # t
  /\ Entered(t)
  /\ UNCHANGED <<purpose, context, entry, depth, mapLock, entryOf, entryVars, streams>>

\* Mutant: a thread waits for lock_thread to name it and takes no spin lock.
NotOwnerWaits(t) ==
  /\ Goto(t, "checkOwner", "checkOwner")
  /\ lockThread[entry[t]] # t
  /\ UNCHANGED <<threadVars, mapLock, entryOf, entryVars, streams>>

NotOwner(t) ==
  /\ Goto(t, "checkOwner", "spin")
  /\ lockThread[entry[t]] # t
  /\ UNCHANGED <<threadVars, mapLock, entryOf, entryVars, streams>>

\* Mutant: the spin lock is taken without looking whether it is free.
AcquireUnchecked(t) ==
  /\ Goto(t, "spin", "own")
  /\ lock' = [lock EXCEPT ![entry[t]] = TRUE]
  /\ UNCHANGED <<threadVars, mapLock, entryOf, lockThread, streams>>

Acquire(t) ==
  /\ Goto(t, "spin", "own")
  /\ ~lock[entry[t]]
  /\ lock' = [lock EXCEPT ![entry[t]] = TRUE]
  /\ UNCHANGED <<threadVars, mapLock, entryOf, lockThread, streams>>

Own(t) ==
  /\ Goto(t, "own", "api")
  /\ lockThread' = [lockThread EXCEPT ![entry[t]] = t]
  /\ Entered(t)
  /\ UNCHANGED <<purpose, context, entry, depth, mapLock, entryOf, lock, streams>>

------------------------------------------------------------------------------
(* sanitizer_context_map_context_unlock, then what EXIT does next.         *)

\* Mutant: the lock is released with lock_thread still naming the thread.
DisownNot(t) ==
  /\ Goto(t, "checkRelease", "unlock")
  /\ lockThread[entry[t]] = t
  /\ UNCHANGED <<threadVars, mapLock, entryOf, entryVars, streams>>

\* Mutant: lock_thread is reset and the spin lock is not released.
DisownOnly(t) ==
  /\ Goto(t, "checkRelease", "leave")
  /\ lockThread[entry[t]] = t
  /\ lockThread' = [lockThread EXCEPT ![entry[t]] = NoThread]
  /\ UNCHANGED <<threadVars, mapLock, entryOf, lock, streams>>

Disown(t) ==
  /\ Goto(t, "checkRelease", "unlock")
  /\ lockThread[entry[t]] = t
  /\ lockThread' = [lockThread EXCEPT ![entry[t]] = NoThread]
  /\ UNCHANGED <<threadVars, mapLock, entryOf, lock, streams>>

\* Mutant: EXIT may leave a context that the thread owns.
NothingToReleaseEver(t) ==
  /\ Goto(t, "checkRelease", "leave")
  /\ UNCHANGED <<threadVars, mapLock, entryOf, entryVars, streams>>

\* Nothing is unlocked when the thread does not own the entry.
NothingToRelease(t) ==
  /\ Goto(t, "checkRelease", "leave")
  /\ lockThread[entry[t]] # t
  /\ UNCHANGED <<threadVars, mapLock, entryOf, entryVars, streams>>

Unlock(t) ==
  /\ Goto(t, "unlock", "leave")
  /\ lock' = [lock EXCEPT ![entry[t]] = FALSE]
  /\ UNCHANGED <<threadVars, mapLock, entryOf, lockThread, streams>>

Leave(t) ==
  /\ Goto(t, "leave", IF depth[t] > 1 THEN "api" ELSE "app")
  /\ depth' = [depth EXCEPT ![t] = @ - 1]
  /\ threadContext' = [threadContext EXCEPT ![t] = NullContext]
  /\ UNCHANGED <<purpose, context, entry, mapLock, entryOf, entryVars, streams>>

------------------------------------------------------------------------------
(* sanitizer_priority_stream_get: the stream is looked at without the      *)
(* map's lock and created with it.                                         *)

HasStream(t) ==
  /\ Goto(t, "checkStream", "api")
  /\ streams[entry[t]] # 0
  /\ UNCHANGED <<threadVars, mapLock, entryOf, entryVars, streams>>

NoStream(t) ==
  /\ Goto(t, "checkStream", "mapLock")
  /\ streams[entry[t]] = 0
  /\ purpose' = [purpose EXCEPT ![t] = "create"]
  /\ UNCHANGED <<context, entry, threadContext, depth, mapLock, entryOf, entryVars, streams>>

CreateStream(t) ==
  /\ Goto(t, "create", "mapUnlock")
  /\ streams' = [streams EXCEPT ![entry[t]] = @ + 1]
  /\ UNCHANGED <<threadVars, mapLock, entryOf, entryVars>>

------------------------------------------------------------------------------

\* What a thread does inside a callback, and the return of an API call.
Step(t) ==
  \/ MapLock(t) \/ Find(t) \/ FindNothing(t) \/ Insert(t) \/ MapUnlock(t)
  \/ AlreadyOwner(t) \/ NotOwner(t) \/ Acquire(t) \/ Own(t)
  \/ Disown(t) \/ NothingToRelease(t) \/ Unlock(t) \/ Leave(t)
  \/ HasStream(t) \/ NoStream(t) \/ CreateStream(t)

Next ==
  \E t \in Threads :
    \/ \E c \in Keys : ApiEnter(t, c)
    \/ LaunchBegin(t)
    \/ ApiExit(t)
    \/ Step(t)

Spec == Init /\ [][Next]_vars

\* The scheduler runs every thread and every driver call returns after
\* finitely many launches; the spin locks are not fair, so that no strong
\* fairness is assumed of them.
FairSpec ==
  Spec /\ \A t \in Threads : WF_vars(Step(t)) /\ SF_vars(ApiExit(t))

------------------------------------------------------------------------------

\* What each variable of the threads, the map and its entries may hold.
TypeOK ==
  /\ pc \in [Threads -> Locations]
  /\ purpose \in [Threads -> {"checkOwner", "checkRelease", "checkStream", "create"}]
  /\ context \in [Threads -> Keys]
  /\ entry \in [Threads -> Entries \union {NoEntry}]
  /\ threadContext \in [Threads -> Keys]
  /\ depth \in [Threads -> Int]
  /\ mapLock \in BOOLEAN
  /\ entryOf \in [Keys -> Entries \union {NoEntry}]
  /\ lock \in [Entries -> BOOLEAN]
  /\ lockThread \in [Entries -> Threads \union {NoThread}]
  /\ streams \in [Entries -> Nat]

\* A thread has a claim on an entry's lock from the compare-and-swap that
\* takes it to the store that releases it.
Claims(t, e) ==
  \/ pc[t] \in {"own", "unlock"} /\ entry[t] = e
  \/ lockThread[e] = t

\* However calls nest, an entry's lock has at most one claimant, it is taken
\* as long as there is one, and lock_thread names nobody while the claimant
\* is between the spin lock and the store of its id: the order of the two
\* stores in sanitizer_context_map_context_unlock.
LockInv ==
  \A e \in Entries, t \in Threads :
    Claims(t, e) =>
      /\ lock[e]
      /\ \A u \in Threads : Claims(u, e) => u = t
      /\ pc[t] \in {"own", "unlock"} /\ entry[t] = e => lockThread[e] # t

\* Conversely a lock is never taken without an owner to release it.
NoOrphanLock == \A e \in Entries : lock[e] => \E t \in Threads : Claims(t, e)

\* An entry is never replaced: the pointers threads keep after they released
\* the map's lock stay those of the map.
EntriesStay ==
  [][\A c \in Keys : entryOf[c] # NoEntry => entryOf'[c] = entryOf[c]]_vars

\* The thread is in a driver API call, past ENTER and before EXIT.
Inside(t) == pc[t] = "api" \/ purpose[t] \in {"checkStream", "create"}

\* Two threads are never in driver API calls on one context at a time.
ApiExclusive ==
  \A t, u \in Threads :
    Inside(t) /\ Inside(u) /\ t # u => threadContext[t] # threadContext[u]

\* The lock implements the exclusive calls it is for: the entry's spin lock,
\* the owner id and the two unlocked reads in between amount to one step in
\* which a thread enters a context that no other thread is in.  For calls
\* that do not nest.
Calls == INSTANCE ContextCalls WITH
           calling <- [t \in Threads |-> IF Inside(t) THEN {threadContext[t]} ELSE {}]
ImplementsCalls == Calls!Spec

\* The owner of an entry is a thread in a call on the entry's context: no
\* context stays locked behind a call that returned.
OwnerIsInside ==
  \A e \in Entries, t \in Threads :
    lockThread[e] = t => depth[t] > 0 /\ entryOf[context[t]] = e

\* One priority stream is created per context, although the stream is tested
\* outside the map's lock (gputrigger.c: "thread-safe", "at the first time").
OneStream == \A e \in Entries : streams[e] <= 1

\* While some thread waits for a context some thread gets into its call.
Waiting(t) == pc[t] \notin {"app", "api"} /\ purpose[t] = "checkOwner"
SomeThreadEnters ==
  (\E t \in Threads : Waiting(t)) ~> (\E t \in Threads : pc[t] = "api")

------------------------------------------------------------------------------
(* The inductive invariant behind the safety properties.                   *)

\* The thread holds the map's lock.
InMap(t) == pc[t] \in {"find", "insert", "create", "mapUnlock"}

\* The thread relies on the entry it found.
Found(t) ==
  \/ pc[t] \in {"create", "mapUnlock", "checkOwner", "spin", "own",
                "checkRelease", "unlock", "checkStream"}
  \/ pc[t] = "mapLock" /\ purpose[t] = "create"

PurposeInv ==
  \A t \in Threads :
    /\ pc[t] \in {"checkOwner", "spin", "own"} => purpose[t] = "checkOwner"
    /\ pc[t] \in {"checkRelease", "unlock", "leave"} => purpose[t] = "checkRelease"
    /\ pc[t] = "checkStream" => purpose[t] = "checkStream"
    /\ pc[t] = "create" => purpose[t] = "create"
    /\ pc[t] \in {"find", "insert"} => purpose[t] # "create"

\* The map's lock serialises its holders, so that what a thread did not find
\* is still missing when it inserts it, and one key has one entry.
MapInv ==
  /\ \A t \in Threads : InMap(t) => mapLock
  /\ \A t, u \in Threads : InMap(t) /\ InMap(u) => t = u
  /\ \A t \in Threads : pc[t] = "insert" => entryOf[context[t]] = NoEntry
  /\ \A t \in Threads : Found(t) => entry[t] \in Entries /\ entry[t] = entryOf[context[t]]
  /\ \A c, d \in Keys : entryOf[c] = entryOf[d] /\ entryOf[c] # NoEntry => c = d
  /\ \A e \in Entries : lockThread[e] # NoThread => \E c \in Keys : entryOf[c] = e

\* Without nested calls: a thread inside a call owns the call's context.
InsideInv ==
  \A t \in Threads :
    /\ depth[t] = IF pc[t] = "app" THEN 0 ELSE 1
    /\ Inside(t) =>
         /\ context[t] = threadContext[t]
         /\ entryOf[context[t]] # NoEntry
         /\ lockThread[entryOf[context[t]]] = t

\* A thread about to create a stream is the first to do so.
StreamInv ==
  /\ OneStream
  /\ \A t \in Threads :
       purpose[t] = "create" /\ pc[t] \in {"mapLock", "create"} => streams[entry[t]] = 0

\* Without nested calls: an owner has not left its call, whose context is still
\* the argument of its lookups.
OwnerInv ==
  \A e \in Entries, t \in Threads :
    lockThread[e] = t =>
      pc[t] \notin {"app", "unlock", "leave"} /\ entryOf[context[t]] = e

IInv == TypeOK /\ PurposeInv /\ MapInv /\ LockInv

==============================================================================
