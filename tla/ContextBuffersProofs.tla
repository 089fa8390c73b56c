------------------------- MODULE ContextBuffersProofs -------------------------
(***************************************************************************)
(* What is set up once in a context, for every set of threads and contexts *)
(* and every number of launches.                                           *)
(***************************************************************************)
EXTENDS ContextBuffers, TLAPS

\* The updates name each field once.
LEMMA UpdatesOfFields ==
  /\ Len(Updates) = 6
  /\ \A i \in 1..6 : Updates[i] \in Fields
  /\ \A i, j \in 1..6 : Updates[i] = Updates[j] => i = j
  /\ \A f \in Fields : \E i \in 1..6 : f = Updates[i]
<1>1. Len(Updates) = 6
  BY DEF Updates
<1>2. /\ Updates[1] = "device" /\ Updates[2] = "reset" /\ Updates[3] = "readDevice"
      /\ Updates[4] = "writeDevice" /\ Updates[5] = "readReset" /\ Updates[6] = "writeReset"
  BY DEF Updates
<1>3. \A i \in 1..6 : i \in {1, 2, 3, 4, 5, 6}
  OBVIOUS
<1>4. \A i \in 1..6 : Updates[i] \in Fields
  BY <1>2, <1>3 DEF Fields
<1>5. \A i, j \in 1..6 : Updates[i] = Updates[j] => i = j
  BY <1>2, <1>3
<1>6. \A f \in Fields : \E i \in 1..6 : f = Updates[i]
  <2>1. 1 \in 1..6 /\ 2 \in 1..6 /\ 3 \in 1..6 /\ 4 \in 1..6 /\ 5 \in 1..6 /\ 6 \in 1..6
    OBVIOUS
  <2>2. QED
    BY <1>2, <2>1 DEF Fields
<1>7. QED
  BY <1>1, <1>4, <1>5, <1>6

\* The getters read each field once, the patch buffer first.
LEMMA GettersOfFields ==
  /\ Len(Getters) = 6 /\ Getters[1] = "device"
  /\ \A i \in 1..6 : Getters[i] \in Fields
  /\ \A i, j \in 1..6 : Getters[i] = Getters[j] => i = j
  /\ \A f \in Fields : \E i \in 1..6 : f = Getters[i]
<1>1. Len(Getters) = 6
  BY DEF Getters
<1>2. /\ Getters[1] = "device" /\ Getters[2] = "readDevice" /\ Getters[3] = "writeDevice"
      /\ Getters[4] = "reset" /\ Getters[5] = "readReset" /\ Getters[6] = "writeReset"
  BY DEF Getters
<1>3. \A i \in 1..6 : i \in {1, 2, 3, 4, 5, 6}
  OBVIOUS
<1>4. \A i \in 1..6 : Getters[i] \in Fields
  BY <1>2, <1>3 DEF Fields
<1>5. \A i, j \in 1..6 : Getters[i] = Getters[j] => i = j
  BY <1>2, <1>3
<1>6. \A f \in Fields : \E i \in 1..6 : f = Getters[i]
  <2>1. 1 \in 1..6 /\ 2 \in 1..6 /\ 3 \in 1..6 /\ 4 \in 1..6 /\ 5 \in 1..6 /\ 6 \in 1..6
    OBVIOUS
  <2>2. QED
    BY <1>2, <2>1 DEF Fields
<1>7. QED
  BY <1>1, <1>2, <1>4, <1>5, <1>6

\* A thread past ENTER is in a call on one context, the one its callbacks use.
LEMMA CurrentContext ==
  ASSUME CallsInv, NEW t \in Threads, pc[t] # "app"
  PROVE  Current(t) \in Contexts /\ calling[t] = {Current(t)}
<1>1. PICK c \in Contexts : calling[t] = {c}
  BY DEF CallsInv
<1>2. Current(t) = c
  BY <1>1 DEF Current
<1>3. QED
  BY <1>1, <1>2

\* The threads and the entries start well typed.
LEMMA TypeOKInit == Init => TypeOK
  BY DEF Init, TypeOK, Locations, Calls!Init

\* Every step keeps the threads and the entries well typed.
LEMMA TypeOKNext == TypeOK /\ CallsInv /\ [Next]_vars => TypeOK'
<1> SUFFICES ASSUME TypeOK, CallsInv, [Next]_vars PROVE TypeOK'
  OBVIOUS
<1> USE DEF TypeOK, Locations, Goto, vars, threadVars, entryVars, counts
<1> DEFINE Cur(t) == Current(t) \in Contexts
<1>0. \A t \in Threads : pc[t] # "app" => Cur(t)
  BY CurrentContext
<1> HIDE DEF Cur
<1>1. ASSUME NEW t \in Threads, ApiEnter(t) PROVE TypeOK'
  BY <1>1 DEF ApiEnter, Calls!Enter
<1>2. ASSUME NEW t \in Threads, ApiExit(t) PROVE TypeOK'
  BY <1>2 DEF ApiExit, Calls!Exit
<1>3. ASSUME NEW t \in Threads, ModuleLoaded(t) PROVE TypeOK'
  BY <1>3 DEF ModuleLoaded
<1>4. ASSUME NEW t \in Threads, LaunchBegin(t) PROVE TypeOK'
  BY <1>4 DEF LaunchBegin
<1>5. ASSUME NEW t \in Threads, NEW k \in Kinds, HandleKnown(t, k) PROVE TypeOK'
  <2>1. handle' \in [Threads -> [Kinds -> Streams \union {Null}]]
    BY <1>0, <1>5 DEF HandleKnown, Kinds, Cur
  <2>2. QED
    BY <1>5, <2>1 DEF HandleKnown
<1>6. ASSUME NEW t \in Threads, NEW c \in Contexts, NEW k \in Kinds, StreamOf(c, k)
      PROVE  /\ stream' \in [Contexts -> [Kinds -> Streams \union {Null}]]
             /\ created' \in [Contexts -> [Kinds -> Nat]]
  <2>1. <<c, k, created[c][k] + 1>> \in Streams
    BY DEF Streams
  <2>2. CASE StreamCreated(c, k)
    BY <2>1, <2>2 DEF StreamCreated
  <2>3. CASE UNCHANGED <<stream, created>>
    BY <2>3
  <2>4. QED
    BY <1>6, <2>2, <2>3 DEF StreamOf
<1>7. ASSUME NEW t \in Threads, NEW k \in Kinds, StreamGet(t, k) PROVE TypeOK'
  <2>1. Current(t) \in Contexts
    BY <1>0, <1>7 DEF StreamGet, Kinds, Cur
  <2>2. /\ stream' \in [Contexts -> [Kinds -> Streams \union {Null}]]
        /\ created' \in [Contexts -> [Kinds -> Nat]]
    BY <1>6, <1>7, <2>1 DEF StreamGet
  <2>3. Handling[k] \in Locations
    BY DEF Handling, Kinds
  <2>4. QED
    BY <1>7, <2>2, <2>3 DEF StreamGet
<1>8. ASSUME NEW t \in Threads, NEW k \in Kinds, HandleGet(t, k) PROVE TypeOK'
  <2>1. Current(t) \in Contexts
    BY <1>0, <1>8 DEF HandleGet, Handling, Kinds, Cur
  <2>2. handleOf' \in [Contexts -> [Kinds -> Streams \union {Null}]]
    BY <1>8, <2>1 DEF HandleGet, HandleUpdate
  <2>3. handle' \in [Threads -> [Kinds -> Streams \union {Null}]]
    BY <1>8, <2>1 DEF HandleGet
  <2>4. QED
    BY <1>8, <2>2, <2>3 DEF HandleGet
<1>9. ASSUME NEW t \in Threads, BuffersCached(t) \/ BuffersAsked(t) PROVE TypeOK'
  BY <1>9 DEF BuffersCached, BuffersAsked, AfterBuffers
<1>10. ASSUME NEW t \in Threads, ReadField(t) PROVE TypeOK'
  <2>1. Current(t) \in Contexts
    BY <1>0, <1>10 DEF ReadField, Cur
  <2>2. progress[t] \in 0..5
    OBVIOUS
  <2>3. Getters[progress[t] + 1] \in Fields
    BY <2>2, GettersOfFields
  <2>4. cached' \in [Threads -> [Fields -> Buffers \union {Null}]]
    BY <1>10, <2>1, <2>3 DEF ReadField
  <2>5. (progress[t] + 1) % 6 \in 0..5
    BY <2>2, SMT
  <2>6. QED
    BY <1>10, <2>4, <2>5, GettersOfFields DEF ReadField, AfterBuffers
<1>11. ASSUME NEW t \in Threads, Allocate(t) PROVE TypeOK'
  <2>1. Current(t) \in Contexts
    BY <1>0, <1>11 DEF Allocate, Cur
  <2>2. <<Current(t), allocated[Current(t)] + 1>> \in Buffers
    BY <2>1 DEF Buffers
  <2>3. cached' \in [Threads -> [Fields -> Buffers \union {Null}]]
    BY <1>11, <2>2 DEF Allocate
  <2>4. allocated' \in [Contexts -> Nat]
    BY <1>11, <2>1 DEF Allocate
  <2>5. QED
    BY <1>11, <2>3, <2>4 DEF Allocate
<1>12. ASSUME NEW t \in Threads, Publish(t) PROVE TypeOK'
  <2>1. Current(t) \in Contexts
    BY <1>0, <1>12 DEF Publish, Cur
  <2>2. progress[t] \in 0..5
    OBVIOUS
  <2>3. progress[t] + 1 \in 1..6 /\ Updates[progress[t] + 1] \in Fields
    BY <2>2, UpdatesOfFields
  <2>4. entry' \in [Contexts -> [Fields -> Buffers \union {Null}]]
    BY <1>12, <2>1, <2>3 DEF Publish
  <2>5. (progress[t] + 1) % 6 \in 0..5
    BY <2>2, SMT
  <2>6. QED
    BY <1>12, <2>4, <2>5, UpdatesOfFields DEF Publish, AfterBuffers
<1>13. ASSUME NEW t \in Threads, SetupFiltered(t) PROVE TypeOK'
  BY <1>13 DEF SetupFiltered
<1>14. ASSUME NEW t \in Threads, SetupSampled(t) PROVE TypeOK'
  <2>1. Current(t) \in Contexts
    BY <1>0, <1>14 DEF SetupSampled, Cur
  <2>2. /\ stream' \in [Contexts -> [Kinds -> Streams \union {Null}]]
        /\ created' \in [Contexts -> [Kinds -> Nat]]
    BY <1>6, <1>14, <2>1 DEF SetupSampled, Kinds
  <2>3. QED
    BY <1>14, <2>1, <2>2 DEF SetupSampled
<1>15. ASSUME NEW t \in Threads, ModuleLoad(t) PROVE TypeOK'
  <2>1. Current(t) \in Contexts
    BY <1>0, <1>15 DEF ModuleLoad, Cur
  <2>2. QED
    BY <1>15, <2>1 DEF ModuleLoad
<1>16. ASSUME NEW t \in Threads, Merge(t) PROVE TypeOK'
  <2>1. Current(t) \in Contexts
    BY <1>0, <1>16 DEF Merge, Cur
  <2>2. QED
    BY <1>16, <2>1 DEF Merge
<1>17. CASE UNCHANGED vars
  BY <1>17
<1>18. QED
  <2> HIDE DEF TypeOK
  <2>1. QED
  BY <1>1, <1>2, <1>3, <1>4, <1>5, <1>7, <1>8, <1>9, <1>10, <1>11, <1>12, <1>13, <1>14,
     <1>15, <1>16, <1>17 DEF Next, Step

\* Calls keep excluding one another.
LEMMA CallsNext == TypeOK /\ CallsInv /\ [Next]_vars => CallsInv'
<1> SUFFICES ASSUME TypeOK, CallsInv, [Next]_vars PROVE CallsInv'
  OBVIOUS
<1> USE DEF TypeOK, CallsInv, Goto
<1>1. ASSUME NEW t \in Threads, ApiEnter(t) PROVE CallsInv'
  <2>1. PICK c \in Contexts : Calls!Enter(t, c)
    BY <1>1 DEF ApiEnter
  <2>2. /\ calling' = [calling EXCEPT ![t] = {c}] /\ pc' = [pc EXCEPT ![t] = "api"]
        /\ \A u \in Threads : c \notin calling[u]
    BY <1>1, <2>1 DEF ApiEnter, Calls!Enter
  <2>3. \A u, v \in Threads : u # v => calling'[u] \intersect calling'[v] = {}
    BY <2>2
  <2>4. QED
    BY <2>2, <2>3
<1>2. ASSUME NEW t \in Threads, ApiExit(t) PROVE CallsInv'
  BY <1>2 DEF ApiExit, Calls!Exit
<1>3. ASSUME NEW t \in Threads, pc[t] # "app",
             NEW to, to # "app", pc' = [pc EXCEPT ![t] = to], UNCHANGED calling
      PROVE  CallsInv'
  BY <1>3
<1>4. ASSUME NEW t \in Threads, ModuleLoaded(t) \/ LaunchBegin(t) \/ Step(t) PROVE CallsInv'
  <2> DEFINE Moves == /\ pc[t] # "app" /\ UNCHANGED calling
                      /\ \E to : to # "app" /\ pc' = [pc EXCEPT ![t] = to]
  <2>1. Moves
    <3>1. CASE ModuleLoaded(t) \/ LaunchBegin(t)
      BY <3>1 DEF ModuleLoaded, LaunchBegin
    <3>2. ASSUME NEW k \in Kinds, HandleKnown(t, k) \/ StreamGet(t, k) \/ HandleGet(t, k)
          PROVE  Moves
      <4>1. Handling["priority"] # "app" /\ Handling["kernel"] # "app"
        BY DEF Handling
      <4>2. back[t] # "app"
        OBVIOUS
      <4>3. k = "priority" \/ k = "kernel"
        BY DEF Kinds
      <4>4. CASE HandleKnown(t, k)
        BY <4>2, <4>3, <4>4 DEF HandleKnown
      <4>5. CASE StreamGet(t, k)
        BY <4>1, <4>3, <4>5 DEF StreamGet
      <4>6. CASE HandleGet(t, k)
        BY <4>1, <4>2, <4>3, <4>6 DEF HandleGet
      <4>7. QED
        BY <3>2, <4>4, <4>5, <4>6
    <3>3. CASE BuffersCached(t) \/ BuffersAsked(t) \/ ReadField(t) \/ Allocate(t) \/ Publish(t)
      BY <3>3 DEF BuffersCached, BuffersAsked, ReadField, Allocate, Publish, AfterBuffers
    <3>4. CASE SetupFiltered(t) \/ SetupSampled(t) \/ ModuleLoad(t) \/ Merge(t)
      BY <3>4 DEF SetupFiltered, SetupSampled, ModuleLoad, Merge
    <3>5. QED
      BY <1>4, <3>1, <3>2, <3>3, <3>4 DEF Step
  <2>2. QED
    BY <1>3, <2>1
<1>5. CASE UNCHANGED vars
  BY <1>5 DEF vars
<1>6. QED
  <2> HIDE DEF CallsInv, TypeOK
  <2>1. QED
    BY <1>1, <1>2, <1>4, <1>5 DEF Next

\* Two threads are not in calls on one context.
LEMMA AloneInContext ==
  ASSUME CallsInv, NEW t \in Threads, NEW u \in Threads, NEW c, c \in calling[t], c \in calling[u]
  PROVE  u = t
  BY DEF CallsInv

\* While a thread that does not publish is in a context, what the context has
\* was published.
LEMMA NothingToPublish ==
  ASSUME CallsInv, NEW t \in Threads, NEW c, c \in calling[t], pc[t] # "publish", NEW i
  PROVE  ~ToPublish(c, i)
  BY AloneInContext DEF ToPublish

\* The fields of an entry are all there or all missing for a thread that is in
\* the context and does not publish.
LEMMA WholeEntry ==
  ASSUME TypeOK, CallsInv, EntryInv, NEW t \in Threads, NEW c \in Contexts, c \in calling[t],
         pc[t] # "publish"
  PROVE  IF allocated[c] = 0 THEN \A f \in Fields : entry[c][f] = Null
         ELSE \A f \in Fields : entry[c][f] = <<c, 1>>
<1>1. \A i \in 1..6 : entry[c][Updates[i]] = IF allocated[c] = 0 THEN Null ELSE <<c, 1>>
  BY NothingToPublish DEF EntryInv
<1>2. QED
  BY <1>1, UpdatesOfFields

\* Null is none of the buffers or streams.
LEMMA NullIsNothing ==
  /\ \A c \in Contexts : Null # c /\ Null # <<c, 1>>
  /\ \A c \in Contexts, k \in Kinds : Null # <<c, k, 1>>
  BY ConstantsAssumption DEF Buffers, Streams

\* Every step keeps the entries complete, apart from what is being published.
LEMMA EntryNext == TypeOK /\ CallsInv /\ EntryInv /\ ReadInv /\ [Next]_vars => EntryInv'
<1> SUFFICES ASSUME TypeOK, CallsInv, EntryInv, ReadInv, [Next]_vars PROVE EntryInv'
  OBVIOUS
<1> DEFINE Frame(t) == \A u \in Threads : u # t =>
             /\ pc'[u] = pc[u] /\ calling'[u] = calling[u]
             /\ progress'[u] = progress[u] /\ cached'[u] = cached[u]
<1> USE DEF Goto
<1>1. ASSUME NEW t \in Threads, Frame(t), UNCHANGED <<entry, allocated>>,
             pc[t] \notin {"allocate", "publish"}, pc'[t] \notin {"allocate", "publish"}
      PROVE  EntryInv'
  <2>1. ASSUME NEW c \in Contexts, NEW i \in 1..6 PROVE ToPublish(c, i)' <=> ToPublish(c, i)
    BY <1>1 DEF ToPublish
  <2>2. ASSUME NEW u \in Threads, pc'[u] \in {"allocate", "publish"}
        PROVE  u # t /\ pc'[u] = pc[u] /\ calling'[u] = calling[u] /\ cached'[u] = cached[u]
    BY <1>1, <2>2
  <2>3. QED
    BY <1>1, <2>1, <2>2 DEF EntryInv
<1>2. ASSUME NEW t \in Threads, ApiEnter(t) \/ ApiExit(t) \/ ModuleLoaded(t) \/ LaunchBegin(t)
      PROVE  EntryInv'
  <2>1. CASE ApiEnter(t)
    BY <1>1, <2>1 DEF ApiEnter, Calls!Enter, TypeOK, threadVars, entryVars, counts
  <2>2. CASE ApiExit(t)
    BY <1>1, <2>2 DEF ApiExit, Calls!Exit, TypeOK, threadVars, entryVars, counts
  <2>3. CASE ModuleLoaded(t)
    BY <1>1, <2>3 DEF ModuleLoaded, TypeOK, threadVars, entryVars, counts
  <2>4. CASE LaunchBegin(t)
    BY <1>1, <2>4 DEF LaunchBegin, TypeOK, threadVars, entryVars, counts
  <2>5. QED
    BY <1>2, <2>1, <2>2, <2>3, <2>4
<1>3. ASSUME NEW t \in Threads, NEW k \in Kinds,
             HandleKnown(t, k) \/ StreamGet(t, k) \/ HandleGet(t, k)
      PROVE  EntryInv'
  <2>1. k \in {"priority", "kernel"} /\ back[t] \in {"api", "buffers", "fields"}
    BY DEF Kinds, TypeOK
  <2>2. Handling["priority"] = "handlePriority" /\ Handling["kernel"] = "handleKernel"
    BY DEF Handling
  <2>3. CASE HandleKnown(t, k)
    BY <1>1, <2>1, <2>3 DEF HandleKnown, TypeOK, entryVars, counts
  <2>4. CASE StreamGet(t, k)
    BY <1>1, <2>1, <2>2, <2>4 DEF StreamGet, TypeOK, threadVars
  <2>5. CASE HandleGet(t, k)
    BY <1>1, <2>1, <2>2, <2>5 DEF HandleGet, TypeOK, counts
  <2>6. QED
    BY <1>3, <2>3, <2>4, <2>5
<1>4. ASSUME NEW t \in Threads, BuffersCached(t) \/ BuffersAsked(t) PROVE EntryInv'
  <2>1. CASE BuffersCached(t)
    BY <1>1, <2>1 DEF BuffersCached, AfterBuffers, TypeOK, threadVars, entryVars, counts
  <2>2. CASE BuffersAsked(t)
    BY <1>1, <2>2 DEF BuffersAsked, TypeOK, entryVars, counts
  <2>3. QED
    BY <1>4, <2>1, <2>2
<1>5. ASSUME NEW t \in Threads,
             SetupFiltered(t) \/ SetupSampled(t) \/ ModuleLoad(t) \/ Merge(t)
      PROVE  EntryInv'
  <2>1. CASE SetupFiltered(t)
    BY <1>1, <2>1 DEF SetupFiltered, TypeOK, threadVars, entryVars, counts
  <2>2. CASE SetupSampled(t)
    BY <1>1, <2>2 DEF SetupSampled, TypeOK
  <2>3. CASE ModuleLoad(t)
    BY <1>1, <2>3 DEF ModuleLoad, TypeOK, threadVars
  <2>4. CASE Merge(t)
    BY <1>1, <2>4 DEF Merge, TypeOK, entryVars
  <2>5. QED
    BY <1>5, <2>1, <2>2, <2>3, <2>4
<1>6. ASSUME NEW t \in Threads, ReadField(t) PROVE EntryInv'
  <2>1. PICK c \in Contexts : c = Current(t) /\ calling[t] = {c} /\ pc[t] = "fields"
    BY <1>6, CurrentContext DEF ReadField
  <2>2. Frame(t) /\ UNCHANGED <<entry, allocated, calling>> /\ pc'[t] # "publish"
    BY <1>6 DEF ReadField, AfterBuffers, TypeOK, entryVars, counts
  <2>3. pc'[t] = "allocate" => allocated[c] = 0
    <3>1. SUFFICES ASSUME pc'[t] = "allocate" PROVE allocated[c] = 0
      OBVIOUS
    <3>2. cached[t].device = Null /\ ~(progress[t] + 1 < 6)
      BY <1>6, <2>1, <3>1, GettersOfFields DEF ReadField, AfterBuffers, TypeOK
    <3>3. progress[t] \in 0..5
      BY DEF TypeOK
    <3>4. cached[t].device = IF allocated[c] = 0 \/ progress[t] < 1 THEN Null ELSE <<c, 1>>
      BY <2>1, GettersOfFields DEF ReadInv, ReadAt
    <3>5. QED
      BY <3>2, <3>3, <3>4, NullIsNothing
  <2>4. ASSUME NEW d \in Contexts, NEW i \in 1..6 PROVE ToPublish(d, i)' <=> ToPublish(d, i)
    BY <2>1, <2>2 DEF ToPublish
  <2>5. ASSUME NEW u \in Threads, u # t, NEW d \in calling'[u]
        PROVE  /\ pc'[u] = "allocate" => allocated'[d] = 0
               /\ pc'[u] = "publish" =>
                    allocated'[d] = 1 /\ \A f \in Fields : cached'[u][f] = <<d, 1>>
    BY <2>2, <2>5 DEF EntryInv
  <2>6. QED
    <3> HIDE DEF Frame
    <3>1. QED
      BY <2>1, <2>2, <2>3, <2>4, <2>5 DEF EntryInv
<1>7. ASSUME NEW t \in Threads, Allocate(t) PROVE EntryInv'
  <2>1. PICK c \in Contexts : c = Current(t) /\ calling[t] = {c} /\ pc[t] = "allocate"
    BY <1>7, CurrentContext DEF Allocate
  <2>2. allocated[c] = 0
    BY <2>1 DEF EntryInv
  <2>3. progress[t] = 0
    BY <2>1 DEF ReadInv, ReadAt
  <2>4. /\ Frame(t) /\ UNCHANGED <<entry, calling>> /\ pc'[t] = "publish" /\ progress'[t] = 0
        /\ allocated'[c] = 1 /\ \A d \in Contexts : d # c => allocated'[d] = allocated[d]
        /\ \A f \in Fields : cached'[t][f] = <<c, 1>>
    BY <1>7, <2>1, <2>2, <2>3 DEF Allocate, TypeOK, entryVars
  <2>5. ASSUME NEW d \in Contexts, d # c, NEW i \in 1..6
        PROVE  ToPublish(d, i)' <=> ToPublish(d, i)
    <3>1. {c} # {d}
      BY <2>5
    <3>2. QED
      BY <2>1, <2>4, <3>1 DEF ToPublish
  <2>6. ASSUME NEW i \in 1..6 PROVE ToPublish(c, i)'
    BY <2>1, <2>4 DEF ToPublish
  <2>7. ASSUME NEW i \in 1..6 PROVE entry[c][Updates[i]] = Null
    BY <2>1, <2>2 DEF EntryInv
  <2>8. ASSUME NEW u \in Threads, NEW d \in calling'[u], pc'[u] \in {"allocate", "publish"}
        PROVE  /\ pc'[u] = "allocate" => allocated'[d] = 0
               /\ pc'[u] = "publish" =>
                    allocated'[d] = 1 /\ \A f \in Fields : cached'[u][f] = <<d, 1>>
    <3>1. CASE u = t
      BY <2>1, <2>4, <3>1
    <3>2. CASE u # t
      <4>1. d \in Contexts /\ d # c
        BY <2>1, <2>4, <2>8, <3>2, AloneInContext DEF TypeOK
      <4>2. QED
        BY <2>4, <2>8, <3>2, <4>1 DEF EntryInv
    <3>3. QED
      BY <3>1, <3>2
  <2>9. QED
    <3> HIDE DEF Frame
    <3>1. \A d \in Contexts : allocated'[d] <= 1
      BY <2>4 DEF EntryInv
    <3>2. ASSUME NEW d \in Contexts, NEW i \in 1..6
          PROVE  entry'[d][Updates[i]] =
                   IF allocated'[d] = 0 \/ ToPublish(d, i)' THEN Null ELSE <<d, 1>>
      <4>1. CASE d = c
        BY <2>4, <2>6, <2>7, <4>1
      <4>2. CASE d # c
        BY <2>4, <2>5, <4>2 DEF EntryInv
      <4>3. QED
        BY <4>1, <4>2
    <3>3. QED
      BY <2>8, <3>1, <3>2 DEF EntryInv
<1>8. ASSUME NEW t \in Threads, Publish(t) PROVE EntryInv'
  <2> DEFINE p == progress[t]
  <2>1. PICK c \in Contexts : c = Current(t) /\ calling[t] = {c} /\ pc[t] = "publish"
    BY <1>8, CurrentContext DEF Publish
  <2>2. p \in 0..5 /\ p + 1 \in 1..6 /\ Updates[p + 1] \in Fields
    <3>1. p \in 0..5
      BY DEF TypeOK
    <3>2. QED
      BY <3>1, UpdatesOfFields
  <2>3. allocated[c] = 1 /\ \A f \in Fields : cached[t][f] = <<c, 1>>
    BY <2>1 DEF EntryInv
  <2>4. /\ Frame(t) /\ UNCHANGED <<allocated, calling, cached>>
        /\ pc'[t] = IF p + 1 = 6 THEN AfterBuffers(t) ELSE "publish"
        /\ AfterBuffers(t) \in {"api", "setup"}
        /\ progress'[t] = (p + 1) % 6
        /\ \A f \in Fields : entry'[c][f] = IF f = Updates[p + 1] THEN <<c, 1>> ELSE entry[c][f]
        /\ \A d \in Contexts : d # c => entry'[d] = entry[d]
    BY <1>8, <2>1, <2>2, <2>3, UpdatesOfFields DEF Publish, AfterBuffers, TypeOK, counts
  <2>5. ASSUME NEW d \in Contexts, d # c, NEW i \in 1..6
        PROVE  ToPublish(d, i)' <=> ToPublish(d, i)
    BY <2>1, <2>4, <2>5 DEF ToPublish
  <2>6. ASSUME NEW i \in 1..6 PROVE ToPublish(c, i) <=> p < i
    BY <2>1, AloneInContext DEF ToPublish
  <2>7. ASSUME NEW i \in 1..6 PROVE ToPublish(c, i)' <=> p + 1 < i
    <3>1. ASSUME NEW u \in Threads, calling'[u] = {c} PROVE u = t
      <4>1. c \in calling[u] /\ c \in calling[t]
        BY <2>1, <2>4, <3>1
      <4>2. QED
        BY <4>1, AloneInContext
    <3>2. CASE p + 1 = 6
      <4>1. pc'[t] # "publish" /\ ~(p + 1 < i)
        BY <2>4, <3>2
      <4>2. QED
        BY <3>1, <4>1 DEF ToPublish
    <3>3. CASE p + 1 # 6
      <4>1. (p + 1) % 6 = p + 1
        BY <2>2, <3>3, SMT
      <4>2. QED
        BY <2>1, <2>4, <3>1, <3>3, <4>1 DEF ToPublish
    <3>4. QED
      BY <3>2, <3>3
  <2>8. ASSUME NEW i \in 1..6
        PROVE  entry'[c][Updates[i]] = IF ToPublish(c, i)' THEN Null ELSE <<c, 1>>
    <3>1. Updates[i] \in Fields /\ (Updates[i] = Updates[p + 1] <=> i = p + 1)
      BY <2>2, UpdatesOfFields
    <3>2. entry[c][Updates[i]] = IF p < i THEN Null ELSE <<c, 1>>
      BY <2>1, <2>3, <2>6 DEF EntryInv
    <3>3. QED
      BY <2>2, <2>4, <2>7, <3>1, <3>2
  <2>9. QED
    <3> HIDE DEF p
    <3>1. ASSUME NEW d \in Contexts, NEW i \in 1..6
          PROVE  entry'[d][Updates[i]] =
                   IF allocated'[d] = 0 \/ ToPublish(d, i)' THEN Null ELSE <<d, 1>>
      <4>1. CASE d = c
        BY <2>3, <2>4, <2>8, <4>1
      <4>2. CASE d # c
        BY <2>4, <2>5, <4>2 DEF EntryInv
      <4>3. QED
        BY <4>1, <4>2
    <3>2. ASSUME NEW u \in Threads, NEW d \in calling'[u]
          PROVE  /\ pc'[u] = "allocate" => allocated'[d] = 0
                 /\ pc'[u] = "publish" =>
                      allocated'[d] = 1 /\ \A f \in Fields : cached'[u][f] = <<d, 1>>
      BY <2>1, <2>3, <2>4 DEF EntryInv
    <3>3. QED
      BY <2>4, <3>1, <3>2 DEF EntryInv
<1>9. CASE UNCHANGED vars
  BY <1>9 DEF vars, threadVars, entryVars, counts, EntryInv, ToPublish
<1>10. QED
  <2> HIDE DEF Frame
  <2>1. QED
    BY <1>2, <1>3, <1>4, <1>5, <1>6, <1>7, <1>8, <1>9 DEF Next, Step

\* Every step keeps what a thread has read of an entry the beginning of a whole.
LEMMA ReadNext ==
  TypeOK /\ CallsInv /\ EntryInv /\ ReadInv /\ CachedInv /\ [Next]_vars => ReadInv'
<1> SUFFICES ASSUME TypeOK, CallsInv, EntryInv, ReadInv, CachedInv, [Next]_vars PROVE ReadInv'
  OBVIOUS
<1> DEFINE Frame(t) == \A u \in Threads : u # t =>
             /\ pc'[u] = pc[u] /\ calling'[u] = calling[u] /\ back'[u] = back[u]
             /\ progress'[u] = progress[u] /\ cached'[u] = cached[u]
<1> USE DEF Goto
<1>1. ASSUME NEW t \in Threads, Frame(t), UNCHANGED allocated, ReadAt(t)' PROVE ReadInv'
  BY <1>1 DEF ReadInv, ReadAt
<1>2. ASSUME NEW t \in Threads, Frame(t), UNCHANGED <<allocated, progress>>,
             pc[t] \notin {"fields", "publish"}, pc'[t] \notin {"fields", "publish"},
             pc'[t] \in {"kernel", "handleKernel"} => back'[t] = "api",
             pc'[t] \in {"priority", "handlePriority"} => back'[t] # "fields"
      PROVE  ReadInv'
  BY <1>1, <1>2 DEF ReadInv, ReadAt
<1>3. ASSUME NEW t \in Threads, ApiEnter(t) \/ ApiExit(t) \/ ModuleLoaded(t) \/ LaunchBegin(t)
      PROVE  ReadInv'
  <2>1. CASE ApiEnter(t)
    BY <1>2, <2>1 DEF ApiEnter, Calls!Enter, TypeOK, threadVars, entryVars, counts
  <2>2. CASE ApiExit(t)
    BY <1>2, <2>2 DEF ApiExit, Calls!Exit, TypeOK, entryVars, counts
  <2>3. CASE ModuleLoaded(t)
    BY <1>2, <2>3 DEF ModuleLoaded, TypeOK, threadVars, entryVars, counts
  <2>4. CASE LaunchBegin(t)
    BY <1>2, <2>4 DEF LaunchBegin, TypeOK, entryVars
  <2>5. QED
    BY <1>3, <2>1, <2>2, <2>3, <2>4
<1>4. ASSUME NEW t \in Threads, NEW k \in Kinds,
             HandleKnown(t, k) \/ StreamGet(t, k) \/ HandleGet(t, k)
      PROVE  ReadInv'
  <2>1. k \in {"priority", "kernel"} /\ back[t] \in {"api", "buffers", "fields"}
    BY DEF Kinds, TypeOK
  <2>2. Handling["priority"] = "handlePriority" /\ Handling["kernel"] = "handleKernel"
    BY DEF Handling
  <2>3. /\ Frame(t) /\ UNCHANGED <<allocated, progress, cached, calling, back>>
        /\ \/ pc[t] = k /\ pc'[t] \in {back[t], Handling[k]}
           \/ pc[t] = Handling[k] /\ pc'[t] = back[t]
    BY <1>4 DEF HandleKnown, StreamGet, HandleGet, TypeOK, threadVars, entryVars, counts
  <2>4. progress[t] = 0
    BY <2>1, <2>2, <2>3 DEF ReadInv, ReadAt
  <2>5. ASSUME pc'[t] = "fields" PROVE \A f \in Fields : cached[t][f] = Null
    BY <2>1, <2>2, <2>3, <2>5 DEF ReadInv, ReadAt
  <2>6. CASE pc'[t] = "fields"
    BY <1>1, <2>3, <2>4, <2>5, <2>6, GettersOfFields DEF ReadAt
  <2>7. CASE pc'[t] # "fields"
    <3>1. pc'[t] \in {"api", "buffers", "handlePriority", "handleKernel"}
      BY <2>1, <2>2, <2>3, <2>7
    <3>2. pc'[t] = "handlePriority" => pc[t] = "priority"
      BY <2>1, <2>2, <2>3
    <3>3. pc'[t] = "handleKernel" => pc[t] = "kernel"
      BY <2>1, <2>2, <2>3
    <3>4. ReadAt(t)'
      BY <2>3, <2>4, <3>1, <3>2, <3>3 DEF ReadInv, ReadAt
    <3>5. QED
      BY <1>1, <2>3, <3>4
  <2>8. QED
    BY <2>6, <2>7
<1>5. ASSUME NEW t \in Threads, BuffersCached(t) PROVE ReadInv'
  BY <1>2, <1>5 DEF BuffersCached, AfterBuffers, TypeOK, threadVars, entryVars, counts
<1>6. ASSUME NEW t \in Threads, BuffersAsked(t) PROVE ReadInv'
  <2>1. \A f \in Fields : cached[t][f] = Null
    BY <1>6, NullIsNothing DEF BuffersAsked, CachedInv, Fields
  <2>2. /\ Frame(t) /\ UNCHANGED <<allocated, progress, cached, calling>>
        /\ pc[t] = "buffers" /\ pc'[t] = "priority"
    BY <1>6 DEF BuffersAsked, TypeOK, counts
  <2>3. ReadAt(t)'
    BY <2>1, <2>2 DEF ReadInv, ReadAt
  <2>4. QED
    BY <1>1, <2>2, <2>3
<1>7. ASSUME NEW t \in Threads, ReadField(t) PROVE ReadInv'
  <2> DEFINE p == progress[t]
  <2>1. PICK c \in Contexts : c = Current(t) /\ calling[t] = {c} /\ pc[t] = "fields"
    BY <1>7, CurrentContext DEF ReadField
  <2>2. p \in 0..5 /\ p + 1 \in 1..6 /\ Getters[p + 1] \in Fields
    <3>1. p \in 0..5
      BY DEF TypeOK
    <3>2. QED
      BY <3>1, GettersOfFields
  <2>3. /\ Frame(t) /\ UNCHANGED <<allocated, calling>> /\ progress'[t] = (p + 1) % 6
        /\ \A f \in Fields :
             cached'[t][f] = IF f = Getters[p + 1] THEN entry[c][f] ELSE cached[t][f]
        /\ pc'[t] = IF p + 1 < 6 THEN "fields"
                    ELSE IF cached[t].device = Null THEN "allocate" ELSE AfterBuffers(t)
        /\ AfterBuffers(t) \in {"api", "setup"}
    BY <1>7, <2>1, <2>2, GettersOfFields DEF ReadField, AfterBuffers, TypeOK, counts
  <2>4. CASE p + 1 < 6
    <3>1. pc'[t] = "fields" /\ progress'[t] = p + 1
      <4>1. (p + 1) % 6 = p + 1
        BY <2>2, <2>4, SMT
      <4>2. QED
        BY <2>3, <2>4, <4>1
    <3>2. ASSUME NEW i \in 1..6
          PROVE  cached'[t][Getters[i]] = IF allocated[c] = 0 \/ p + 1 < i THEN Null ELSE <<c, 1>>
      <4>1. Getters[i] \in Fields /\ (Getters[i] = Getters[p + 1] <=> i = p + 1)
        BY <2>2, GettersOfFields
      <4>2. entry[c][Getters[i]] = IF allocated[c] = 0 THEN Null ELSE <<c, 1>>
        BY <2>1, <4>1, WholeEntry
      <4>3. cached[t][Getters[i]] = IF allocated[c] = 0 \/ p < i THEN Null ELSE <<c, 1>>
        BY <2>1 DEF ReadInv, ReadAt
      <4>4. QED
        BY <2>2, <2>3, <4>1, <4>2, <4>3
    <3>3. ReadAt(t)'
      BY <2>1, <2>3, <3>1, <3>2 DEF ReadAt
    <3>4. QED
      BY <1>1, <2>3, <3>3
  <2>5. CASE p = 5
    <3>1. progress'[t] = 0 /\ pc'[t] \in {"allocate", "api", "setup"}
      BY <2>3, <2>5
    <3>2. ReadAt(t)'
      BY <3>1 DEF ReadAt
    <3>3. QED
      BY <1>1, <2>3, <3>2
  <2>6. QED
    BY <2>2, <2>4, <2>5
<1>8. ASSUME NEW t \in Threads, Allocate(t) PROVE ReadInv'
  <2>1. PICK c \in Contexts : c = Current(t) /\ calling[t] = {c} /\ pc[t] = "allocate"
    BY <1>8, CurrentContext DEF Allocate
  <2>2. /\ Frame(t) /\ UNCHANGED <<calling, progress>> /\ pc'[t] = "publish"
        /\ \A d \in Contexts : d # c => allocated'[d] = allocated[d]
    BY <1>8, <2>1 DEF Allocate, TypeOK
  <2>3. ASSUME NEW u \in Threads, u # t PROVE ReadAt(u)'
    <3>1. \A d \in calling[u] : d \in Contexts /\ d # c
      BY <2>1, <2>3, AloneInContext DEF TypeOK
    <3>2. QED
      BY <2>2, <2>3, <3>1 DEF ReadInv, ReadAt
  <2>4. ReadAt(t)'
    BY <2>2 DEF ReadAt
  <2>5. QED
    BY <2>3, <2>4 DEF ReadInv
<1>9. ASSUME NEW t \in Threads, Publish(t) PROVE ReadInv'
  <2>1. progress[t] \in 0..5
    BY DEF TypeOK
  <2>2. /\ Frame(t) /\ UNCHANGED allocated /\ progress'[t] = (progress[t] + 1) % 6
        /\ pc'[t] = IF progress[t] + 1 = 6 THEN AfterBuffers(t) ELSE "publish"
        /\ AfterBuffers(t) \in {"api", "setup"}
    BY <1>9, UpdatesOfFields DEF Publish, AfterBuffers, TypeOK, counts
  <2>3. ReadAt(t)'
    BY <2>1, <2>2 DEF ReadAt
  <2>4. QED
    BY <1>1, <2>2, <2>3
<1>10. ASSUME NEW t \in Threads,
              SetupFiltered(t) \/ SetupSampled(t) \/ ModuleLoad(t) \/ Merge(t)
       PROVE  ReadInv'
  <2>1. CASE SetupFiltered(t)
    BY <1>2, <2>1 DEF SetupFiltered, TypeOK, threadVars, entryVars, counts
  <2>2. CASE SetupSampled(t)
    BY <1>2, <2>2 DEF SetupSampled, TypeOK
  <2>3. CASE ModuleLoad(t)
    BY <1>2, <2>3 DEF ModuleLoad, TypeOK, threadVars
  <2>4. CASE Merge(t)
    BY <1>2, <2>4 DEF Merge, TypeOK, entryVars
  <2>5. QED
    BY <1>10, <2>1, <2>2, <2>3, <2>4
<1>11. CASE UNCHANGED vars
  BY <1>11 DEF vars, threadVars, counts, ReadInv, ReadAt
<1>12. QED
  BY <1>3, <1>4, <1>5, <1>6, <1>7, <1>8, <1>9, <1>10, <1>11 DEF Next, Step

\* Every step keeps the buffers of a thread complete.
LEMMA CachedNext ==
  TypeOK /\ CallsInv /\ EntryInv /\ ReadInv /\ CachedInv /\ [Next]_vars => CachedInv'
<1> SUFFICES ASSUME TypeOK, CallsInv, EntryInv, ReadInv, CachedInv, [Next]_vars PROVE CachedInv'
  OBVIOUS
<1> DEFINE Past == {"setup", "module", "merge", "kernel", "handleKernel"}
           Complete(b) == \E c \in Contexts : \A f \in Fields : b[f] = <<c, 1>>
           Missing(b) == \A f \in Fields : b[f] = Null
<1> USE DEF Goto
<1>1. ASSUME NEW t \in Threads, UNCHANGED cached, \A u \in Threads : u # t => pc'[u] = pc[u],
             pc[t] # "fields", pc'[t] \in Past => pc[t] \in Past
      PROVE  CachedInv'
  BY <1>1 DEF CachedInv
<1>2. ASSUME NEW t \in Threads, \A u \in Threads : u # t => pc'[u] = pc[u] /\ cached'[u] = cached[u],
             pc'[t] = "fields" \/ Complete(cached'[t]) \/ (Missing(cached'[t]) /\ pc'[t] \notin Past)
      PROVE  CachedInv'
  BY <1>2 DEF CachedInv
<1>3. ASSUME NEW t \in Threads, ApiEnter(t) \/ ApiExit(t) \/ ModuleLoaded(t) \/ LaunchBegin(t)
      PROVE  CachedInv'
  <2>1. CASE ApiEnter(t)
    BY <1>1, <2>1 DEF ApiEnter, TypeOK, threadVars
  <2>2. CASE ApiExit(t)
    BY <1>1, <2>2 DEF ApiExit, TypeOK
  <2>3. CASE ModuleLoaded(t)
    BY <1>1, <2>3 DEF ModuleLoaded, TypeOK, threadVars
  <2>4. CASE LaunchBegin(t)
    BY <1>1, <2>4 DEF LaunchBegin, TypeOK
  <2>5. QED
    BY <1>3, <2>1, <2>2, <2>3, <2>4
<1>4. ASSUME NEW t \in Threads, NEW k \in Kinds,
             HandleKnown(t, k) \/ StreamGet(t, k) \/ HandleGet(t, k)
      PROVE  CachedInv'
  <2>1. k \in {"priority", "kernel"} /\ back[t] \in {"api", "buffers", "fields"}
    BY DEF Kinds, TypeOK
  <2>2. Handling["priority"] = "handlePriority" /\ Handling["kernel"] = "handleKernel"
    BY DEF Handling
  <2>3. CASE HandleKnown(t, k)
    BY <1>1, <2>1, <2>3 DEF HandleKnown, TypeOK
  <2>4. CASE StreamGet(t, k)
    BY <1>1, <2>1, <2>2, <2>4 DEF StreamGet, TypeOK, threadVars
  <2>5. CASE HandleGet(t, k)
    BY <1>1, <2>1, <2>2, <2>5 DEF HandleGet, TypeOK
  <2>6. QED
    BY <1>4, <2>3, <2>4, <2>5
<1>5. ASSUME NEW t \in Threads, BuffersCached(t) PROVE CachedInv'
  <2>1. Complete(cached[t])
    BY <1>5 DEF BuffersCached, CachedInv, Fields
  <2>2. \A u \in Threads : u # t => pc'[u] = pc[u] /\ cached'[u] = cached[u]
    BY <1>5 DEF BuffersCached, TypeOK, threadVars
  <2>3. cached'[t] = cached[t]
    BY <1>5 DEF BuffersCached, threadVars
  <2>4. QED
    BY <1>2, <2>1, <2>2, <2>3
<1>6. ASSUME NEW t \in Threads, BuffersAsked(t) PROVE CachedInv'
  BY <1>1, <1>6 DEF BuffersAsked, TypeOK
<1>7. ASSUME NEW t \in Threads, ReadField(t) PROVE CachedInv'
  <2> DEFINE p == progress[t]
             Got == cached'[t]
  <2>1. PICK c \in Contexts : c = Current(t) /\ calling[t] = {c} /\ pc[t] = "fields"
    BY <1>7, CurrentContext DEF ReadField
  <2>2. p \in 0..5 /\ p + 1 \in 1..6 /\ Getters[p + 1] \in Fields
    <3>1. p \in 0..5
      BY DEF TypeOK
    <3>2. QED
      BY <3>1, GettersOfFields
  <2>3. /\ \A u \in Threads : u # t => pc'[u] = pc[u] /\ cached'[u] = cached[u]
        /\ \A f \in Fields : Got[f] = IF f = Getters[p + 1] THEN entry[c][f] ELSE cached[t][f]
        /\ pc'[t] = IF p + 1 < 6 THEN "fields"
                    ELSE IF cached[t].device = Null THEN "allocate" ELSE AfterBuffers(t)
    BY <1>7, <2>1, <2>2, GettersOfFields DEF ReadField, TypeOK
  <2>4. ASSUME NEW i \in 1..6
        PROVE  cached[t][Getters[i]] = IF allocated[c] = 0 \/ p < i THEN Null ELSE <<c, 1>>
    BY <2>1 DEF ReadInv, ReadAt
  <2>5. CASE p + 1 < 6
    BY <1>2, <2>3, <2>5
  <2>6. CASE p = 5
    <3> HIDE DEF p
    <3>1. ASSUME NEW i \in 1..6
          PROVE  Got[Getters[i]] = IF allocated[c] = 0 THEN Null ELSE <<c, 1>>
      <4>1. Getters[i] \in Fields /\ (Getters[i] = Getters[6] <=> i = 6)
        BY GettersOfFields
      <4>2. entry[c][Getters[i]] = IF allocated[c] = 0 THEN Null ELSE <<c, 1>>
        BY <2>1, <4>1, WholeEntry
      <4>3. QED
        BY <2>3, <2>4, <2>6, <4>1, <4>2
    <3>2. \A f \in Fields : Got[f] = IF allocated[c] = 0 THEN Null ELSE <<c, 1>>
      BY <3>1, GettersOfFields
    <3>3. CASE allocated[c] = 0
      <4>1. cached[t].device = Null
        BY <2>4, <3>3, GettersOfFields
      <4>2. pc'[t] \notin Past
        BY <2>3, <2>6, <4>1
      <4>3. QED
        BY <1>2, <2>3, <3>2, <3>3, <4>2
    <3>4. CASE allocated[c] # 0
      BY <1>2, <2>3, <3>2, <3>4
    <3>5. QED
      BY <3>3, <3>4
  <2>7. QED
    BY <2>2, <2>5, <2>6
<1>8. ASSUME NEW t \in Threads, Allocate(t) PROVE CachedInv'
  <2>1. PICK c \in Contexts : c = Current(t) /\ calling[t] = {c} /\ pc[t] = "allocate"
    BY <1>8, CurrentContext DEF Allocate
  <2>2. allocated[c] = 0
    BY <2>1 DEF EntryInv
  <2>3. /\ \A u \in Threads : u # t => pc'[u] = pc[u] /\ cached'[u] = cached[u]
        /\ \A f \in Fields : cached'[t][f] = <<c, 1>>
    BY <1>8, <2>1, <2>2 DEF Allocate, TypeOK
  <2>4. QED
    BY <1>2, <2>3
<1>9. ASSUME NEW t \in Threads, Publish(t) PROVE CachedInv'
  <2>1. PICK c \in Contexts : c = Current(t) /\ calling[t] = {c} /\ pc[t] = "publish"
    BY <1>9, CurrentContext DEF Publish
  <2>2. Complete(cached[t])
    BY <2>1 DEF EntryInv
  <2>3. /\ \A u \in Threads : u # t => pc'[u] = pc[u] /\ cached'[u] = cached[u]
        /\ cached'[t] = cached[t]
    BY <1>9 DEF Publish, TypeOK
  <2>4. QED
    BY <1>2, <2>2, <2>3
<1>10. ASSUME NEW t \in Threads,
              SetupFiltered(t) \/ SetupSampled(t) \/ ModuleLoad(t) \/ Merge(t)
       PROVE  CachedInv'
  <2>1. CASE SetupFiltered(t)
    BY <1>1, <2>1 DEF SetupFiltered, TypeOK, threadVars
  <2>2. CASE SetupSampled(t)
    BY <1>1, <2>2 DEF SetupSampled, TypeOK
  <2>3. CASE ModuleLoad(t)
    BY <1>1, <2>3 DEF ModuleLoad, TypeOK, threadVars
  <2>4. CASE Merge(t)
    BY <1>1, <2>4 DEF Merge, TypeOK
  <2>5. QED
    BY <1>10, <2>1, <2>2, <2>3, <2>4
<1>11. CASE UNCHANGED vars
  BY <1>11 DEF vars, threadVars, CachedInv
<1>12. QED
  BY <1>3, <1>4, <1>5, <1>6, <1>7, <1>8, <1>9, <1>10, <1>11 DEF Next, Step

\* The stream of a context is created when it is first asked for.
LEMMA StreamOfStep ==
  ASSUME TypeOK, CallsInv, StreamInv, NEW c \in Contexts, NEW k \in Kinds, StreamOf(c, k),
         UNCHANGED <<handleOf, handle, calling>>,
         \A u \in Threads : pc'[u] = "app" => pc[u] = "app"
  PROVE  StreamInv'
<1>1. CASE StreamCreated(c, k) /\ stream[c][k] = Null
  <2>1. created[c][k] = 0 /\ handleOf[c][k] = Null
    <3>1. created[c][k] = 0
      BY <1>1, NullIsNothing DEF StreamInv
    <3>2. QED
      BY <1>1, <3>1 DEF StreamInv
  <2>2. /\ created'[c][k] = 1 /\ stream'[c][k] = <<c, k, 1>>
        /\ \A d \in Contexts, j \in Kinds :
             d # c \/ j # k => created'[d][j] = created[d][j] /\ stream'[d][j] = stream[d][j]
    BY <1>1, <2>1 DEF StreamCreated, TypeOK
  <2>3. ASSUME NEW d \in Contexts, NEW j \in Kinds
        PROVE  /\ created'[d][j] <= 1
               /\ stream'[d][j] = IF created'[d][j] = 0 THEN Null ELSE <<d, j, 1>>
               /\ handleOf'[d][j] \in {Null, stream'[d][j]}
    <3>1. CASE d = c /\ j = k
      BY <2>1, <2>2, <3>1
    <3>2. CASE d # c \/ j # k
      BY <2>2, <3>2 DEF StreamInv
    <3>3. QED
      BY <3>1, <3>2
  <2>4. ASSUME NEW u \in Threads, NEW j \in Kinds, NEW d \in calling'[u]
        PROVE  handle'[u][j] \in {Null, stream'[d][j]}
    <3>1. d \in Contexts /\ handle[u][j] \in {Null, stream[d][j]}
      BY <2>4 DEF StreamInv, TypeOK
    <3>2. QED
      BY <1>1, <2>2, <3>1
  <2>5. QED
    BY <2>3, <2>4 DEF StreamInv
<1>2. CASE UNCHANGED <<stream, created>>
  BY <1>2 DEF StreamInv
<1>3. QED
  BY <1>1, <1>2 DEF StreamOf

\* Every step keeps one stream and one handle of a kind in each context.
LEMMA StreamNext == TypeOK /\ CallsInv /\ StreamInv /\ [Next]_vars => StreamInv'
<1> SUFFICES ASSUME TypeOK, CallsInv, StreamInv, [Next]_vars PROVE StreamInv'
  OBVIOUS
<1> DEFINE Same == UNCHANGED <<stream, created, handleOf>>
           Frame(t) == \A u \in Threads : u # t =>
             pc'[u] = pc[u] /\ calling'[u] = calling[u] /\ handle'[u] = handle[u]
<1> USE DEF Goto
<1>1. ASSUME NEW t \in Threads, Same, Frame(t), \A k \in Kinds : handle'[t][k] = Null
      PROVE  StreamInv'
  BY <1>1 DEF StreamInv
<1>2. ASSUME Same, UNCHANGED <<handle, calling>>,
             \A u \in Threads : pc'[u] = "app" => pc[u] = "app"
      PROVE  StreamInv'
  BY <1>2 DEF StreamInv
<1>3. ASSUME NEW t \in Threads, ApiEnter(t) PROVE StreamInv'
  <2>1. \A k \in Kinds : handle[t][k] = Null
    BY <1>3 DEF ApiEnter, StreamInv
  <2>2. UNCHANGED <<stream, created, handleOf, handle>>
    BY <1>3 DEF ApiEnter, threadVars, entryVars, counts
  <2>3. Frame(t)
    BY <1>3, <2>2 DEF ApiEnter, Calls!Enter, TypeOK
  <2>4. QED
    BY <1>1, <2>1, <2>2, <2>3
<1>4. ASSUME NEW t \in Threads, ApiExit(t) PROVE StreamInv'
  <2>1. /\ Same /\ Frame(t) /\ \A k \in Kinds : handle'[t][k] = Null
    BY <1>4 DEF ApiExit, Calls!Exit, TypeOK, entryVars, counts
  <2>2. QED
    BY <1>1, <2>1
<1>5. ASSUME NEW t \in Threads, ModuleLoaded(t) \/ LaunchBegin(t) PROVE StreamInv'
  <2>1. CASE ModuleLoaded(t)
    BY <1>2, <2>1 DEF ModuleLoaded, TypeOK, threadVars, entryVars, counts
  <2>2. CASE LaunchBegin(t)
    BY <1>2, <2>2 DEF LaunchBegin, TypeOK, entryVars
  <2>3. QED
    BY <1>5, <2>1, <2>2
<1>6. ASSUME NEW t \in Threads, NEW k \in Kinds, HandleKnown(t, k) PROVE StreamInv'
  <2>1. PICK c \in Contexts : c = Current(t) /\ calling[t] = {c} /\ pc[t] = k
    BY <1>6, CurrentContext DEF HandleKnown, Kinds
  <2>2. /\ Same /\ UNCHANGED calling
        /\ \A u \in Threads : u # t => handle'[u] = handle[u]
        /\ \A j \in Kinds : handle'[t][j] = IF j = k THEN handleOf[c][k] ELSE handle[t][j]
    BY <1>6, <2>1 DEF HandleKnown, TypeOK, entryVars, counts
  <2>3. \A u \in Threads : pc'[u] # "app" \/ pc[u] = "app"
    BY <1>6 DEF HandleKnown, TypeOK
  <2>4. pc'[t] # "app"
    BY <1>6 DEF HandleKnown, TypeOK
  <2>5. ASSUME NEW u \in Threads, NEW j \in Kinds
        PROVE  /\ pc'[u] = "app" => handle'[u][j] = Null
               /\ \A d \in calling'[u] : handle'[u][j] \in {Null, stream'[d][j]}
    <3>1. CASE u = t /\ j = k
      BY <2>1, <2>2, <2>4, <3>1 DEF StreamInv
    <3>2. CASE u # t \/ j # k
      BY <2>2, <2>3, <3>2 DEF StreamInv
    <3>3. QED
      BY <3>1, <3>2
  <2>6. QED
    BY <2>2, <2>5 DEF StreamInv
<1>7. ASSUME NEW t \in Threads, NEW k \in Kinds, StreamGet(t, k) PROVE StreamInv'
  <2>1. Handling["priority"] = "handlePriority" /\ Handling["kernel"] = "handleKernel"
    BY DEF Handling
  <2>2. Current(t) \in Contexts
    BY <1>7, CurrentContext DEF StreamGet, Kinds
  <2>3. \A u \in Threads : pc'[u] = "app" => pc[u] = "app"
    BY <1>7, <2>1 DEF StreamGet, TypeOK, Kinds
  <2>4. QED
    BY <1>7, <2>2, <2>3, StreamOfStep DEF StreamGet, threadVars
<1>8. ASSUME NEW t \in Threads, NEW k \in Kinds, HandleGet(t, k) PROVE StreamInv'
  <2>1. Handling["priority"] = "handlePriority" /\ Handling["kernel"] = "handleKernel"
    BY DEF Handling
  <2>2. PICK c \in Contexts : c = Current(t) /\ calling[t] = {c}
    BY <1>8, <2>1, CurrentContext DEF HandleGet, Kinds
  <2>3. /\ UNCHANGED <<stream, created, calling>>
        /\ \A u \in Threads : u # t => handle'[u] = handle[u]
        /\ \A j \in Kinds : handle'[t][j] = IF j = k THEN stream[c][k] ELSE handle[t][j]
    BY <1>8, <2>2 DEF HandleGet, TypeOK, counts
  <2>4. \A u \in Threads : pc'[u] # "app" \/ pc[u] = "app"
    BY <1>8 DEF HandleGet, TypeOK
  <2>5. pc'[t] # "app"
    BY <1>8 DEF HandleGet, TypeOK
  <2>6. ASSUME NEW d \in Contexts, NEW j \in Kinds
        PROVE  handleOf'[d][j] \in {Null, stream[d][j]}
    BY <1>8, <2>2 DEF HandleGet, HandleUpdate, StreamInv, TypeOK
  <2>7. ASSUME NEW u \in Threads, NEW j \in Kinds
        PROVE  /\ pc'[u] = "app" => handle'[u][j] = Null
               /\ \A d \in calling'[u] : handle'[u][j] \in {Null, stream'[d][j]}
    <3>1. CASE u = t /\ j = k
      BY <2>2, <2>3, <2>5, <3>1
    <3>2. CASE u # t \/ j # k
      BY <2>3, <2>4, <3>2 DEF StreamInv
    <3>3. QED
      BY <3>1, <3>2
  <2>8. QED
    BY <2>3, <2>6, <2>7 DEF StreamInv
<1>9. ASSUME NEW t \in Threads,
             BuffersCached(t) \/ BuffersAsked(t) \/ ReadField(t) \/ Allocate(t) \/ Publish(t)
      PROVE  StreamInv'
  <2>1. CASE BuffersCached(t)
    BY <1>2, <2>1 DEF BuffersCached, AfterBuffers, TypeOK, threadVars, entryVars, counts
  <2>2. CASE BuffersAsked(t)
    BY <1>2, <2>2 DEF BuffersAsked, TypeOK, entryVars, counts
  <2>3. CASE ReadField(t)
    BY <1>2, <2>3 DEF ReadField, AfterBuffers, TypeOK, entryVars, counts
  <2>4. CASE Allocate(t)
    BY <1>2, <2>4 DEF Allocate, TypeOK, entryVars
  <2>5. CASE Publish(t)
    BY <1>2, <2>5 DEF Publish, AfterBuffers, TypeOK, counts
  <2>6. QED
    BY <1>9, <2>1, <2>2, <2>3, <2>4, <2>5
<1>10. ASSUME NEW t \in Threads,
              SetupFiltered(t) \/ SetupSampled(t) \/ ModuleLoad(t) \/ Merge(t)
       PROVE  StreamInv'
  <2>1. CASE SetupFiltered(t)
    BY <1>2, <2>1 DEF SetupFiltered, TypeOK, threadVars, entryVars, counts
  <2>2. CASE SetupSampled(t)
    <3>1. Current(t) \in Contexts
      BY <2>2, CurrentContext DEF SetupSampled
    <3>2. \A u \in Threads : pc'[u] = "app" => pc[u] = "app"
      BY <2>2 DEF SetupSampled, TypeOK
    <3>3. QED
      BY <2>2, <3>1, <3>2, StreamOfStep DEF SetupSampled, Kinds
  <2>3. CASE ModuleLoad(t)
    BY <1>2, <2>3 DEF ModuleLoad, TypeOK, threadVars
  <2>4. CASE Merge(t)
    BY <1>2, <2>4 DEF Merge, TypeOK, entryVars
  <2>5. QED
    BY <1>10, <2>1, <2>2, <2>3, <2>4
<1>11. CASE UNCHANGED vars
  BY <1>11 DEF vars, threadVars, entryVars, counts, StreamInv
<1>12. QED
  BY <1>3, <1>4, <1>5, <1>6, <1>7, <1>8, <1>9, <1>10, <1>11 DEF Next, Step

\* Every step keeps the analysis module loaded at most once in each context.
LEMMA LoadNext == TypeOK /\ CallsInv /\ LoadInv /\ [Next]_vars => LoadInv'
<1> SUFFICES ASSUME TypeOK, CallsInv, LoadInv, [Next]_vars PROVE LoadInv'
  OBVIOUS
<1> DEFINE Frame(t) == \A u \in Threads : u # t =>
             pc'[u] = pc[u] /\ calling'[u] = calling[u] /\ function'[u] = function[u]
<1> USE DEF Goto
<1>1. ASSUME NEW t \in Threads, Frame(t), UNCHANGED <<analysis, loads, unmerged>>,
             pc'[t] \notin {"module", "merge"}
      PROVE  LoadInv'
  BY <1>1 DEF LoadInv
<1>2. ASSUME NEW t \in Threads, ApiEnter(t) \/ ApiExit(t) \/ ModuleLoaded(t) \/ LaunchBegin(t)
      PROVE  LoadInv'
  <2>1. CASE ApiEnter(t)
    BY <1>1, <2>1 DEF ApiEnter, Calls!Enter, TypeOK, threadVars, entryVars, counts
  <2>2. CASE ApiExit(t)
    BY <1>1, <2>2 DEF ApiExit, Calls!Exit, TypeOK, entryVars, counts
  <2>3. CASE ModuleLoaded(t)
    BY <1>1, <2>3 DEF ModuleLoaded, TypeOK, threadVars, entryVars, counts
  <2>4. CASE LaunchBegin(t)
    BY <1>1, <2>4 DEF LaunchBegin, TypeOK, entryVars
  <2>5. QED
    BY <1>2, <2>1, <2>2, <2>3, <2>4
<1>3. ASSUME NEW t \in Threads, NEW k \in Kinds,
             HandleKnown(t, k) \/ StreamGet(t, k) \/ HandleGet(t, k)
      PROVE  LoadInv'
  <2>1. k \in {"priority", "kernel"} /\ back[t] \in {"api", "buffers", "fields"}
    BY DEF Kinds, TypeOK
  <2>2. Handling["priority"] = "handlePriority" /\ Handling["kernel"] = "handleKernel"
    BY DEF Handling
  <2>3. CASE HandleKnown(t, k)
    BY <1>1, <2>1, <2>3 DEF HandleKnown, TypeOK, entryVars, counts
  <2>4. CASE StreamGet(t, k)
    BY <1>1, <2>1, <2>2, <2>4 DEF StreamGet, TypeOK, threadVars
  <2>5. CASE HandleGet(t, k)
    BY <1>1, <2>1, <2>2, <2>5 DEF HandleGet, TypeOK, counts
  <2>6. QED
    BY <1>3, <2>3, <2>4, <2>5
<1>4. ASSUME NEW t \in Threads,
             BuffersCached(t) \/ BuffersAsked(t) \/ ReadField(t) \/ Allocate(t) \/ Publish(t)
      PROVE  LoadInv'
  <2>1. CASE BuffersCached(t)
    BY <1>1, <2>1 DEF BuffersCached, AfterBuffers, TypeOK, threadVars, entryVars, counts
  <2>2. CASE BuffersAsked(t)
    BY <1>1, <2>2 DEF BuffersAsked, TypeOK, entryVars, counts
  <2>3. CASE ReadField(t)
    BY <1>1, <2>3 DEF ReadField, AfterBuffers, TypeOK, entryVars, counts
  <2>4. CASE Allocate(t)
    BY <1>1, <2>4 DEF Allocate, TypeOK, entryVars
  <2>5. CASE Publish(t)
    BY <1>1, <2>5 DEF Publish, AfterBuffers, TypeOK, counts
  <2>6. QED
    BY <1>4, <2>1, <2>2, <2>3, <2>4, <2>5
<1>5. ASSUME NEW t \in Threads, SetupFiltered(t) PROVE LoadInv'
  BY <1>1, <1>5 DEF SetupFiltered, TypeOK, threadVars, entryVars, counts
<1>6. ASSUME NEW t \in Threads, SetupSampled(t) PROVE LoadInv'
  <2>1. PICK c \in Contexts : c = Current(t) /\ calling[t] = {c}
    BY <1>6, CurrentContext DEF SetupSampled
  <2>2. /\ Frame(t) /\ UNCHANGED <<calling, analysis, loads, unmerged>>
        /\ function'[t] = analysis[c]
        /\ pc'[t] = IF analysis[c] = Null THEN "module" ELSE "merge"
    BY <1>6, <2>1 DEF SetupSampled, TypeOK
  <2>3. analysis[c] = Null => loads[c] = 0
    BY NullIsNothing DEF LoadInv
  <2>4. QED
    BY <2>1, <2>2, <2>3 DEF LoadInv
<1>7. ASSUME NEW t \in Threads, ModuleLoad(t) PROVE LoadInv'
  <2>1. PICK c \in Contexts : c = Current(t) /\ calling[t] = {c} /\ pc[t] = "module"
    BY <1>7, CurrentContext DEF ModuleLoad
  <2>2. loads[c] = 0 /\ unmerged[c] = 0
    BY <2>1 DEF LoadInv, TypeOK
  <2>3. /\ Frame(t) /\ UNCHANGED <<calling, unmerged>> /\ pc'[t] = "merge"
        /\ loads'[c] = 1 /\ analysis'[c] = c
        /\ \A d \in Contexts : d # c => loads'[d] = loads[d] /\ analysis'[d] = analysis[d]
    BY <1>7, <2>1, <2>2 DEF ModuleLoad, TypeOK, threadVars
  <2>4. ASSUME NEW u \in Threads, u # t, NEW d \in calling[u] PROVE d \in Contexts /\ d # c
    BY <2>1, <2>4, AloneInContext DEF TypeOK
  <2>5. QED
    BY <2>1, <2>2, <2>3, <2>4 DEF LoadInv
<1>8. ASSUME NEW t \in Threads, Merge(t) PROVE LoadInv'
  <2>1. PICK c \in Contexts : c = Current(t) /\ calling[t] = {c} /\ pc[t] = "merge"
    BY <1>8, CurrentContext DEF Merge
  <2>2. /\ Frame(t) /\ UNCHANGED <<calling, loads, analysis>> /\ pc'[t] = "kernel"
        /\ unmerged'[c] = IF function[t] = Null THEN unmerged[c] + 1 ELSE unmerged[c]
        /\ \A d \in Contexts : d # c => unmerged'[d] = unmerged[d]
    BY <1>8, <2>1 DEF Merge, TypeOK, entryVars
  <2>3. unmerged'[c] <= loads[c]
    BY <2>1, <2>2 DEF LoadInv, TypeOK
  <2>4. ASSUME NEW u \in Threads, u # t, NEW d \in calling[u] PROVE d \in Contexts /\ d # c
    BY <2>1, <2>4, AloneInContext DEF TypeOK
  <2>5. QED
    BY <2>1, <2>2, <2>3, <2>4 DEF LoadInv
<1>9. CASE UNCHANGED vars
  BY <1>9 DEF vars, threadVars, entryVars, counts, LoadInv
<1>10. QED
  BY <1>2, <1>3, <1>4, <1>5, <1>6, <1>7, <1>8, <1>9 DEF Next, Step

\* The inductive invariant holds at first.
LEMMA IInvInit == Init => IInv
<1> SUFFICES ASSUME Init PROVE IInv
  OBVIOUS
<1>1. TypeOK
  BY TypeOKInit
<1>2. CallsInv
  BY DEF Init, Calls!Init, CallsInv
<1>3. EntryInv
  BY UpdatesOfFields DEF Init, Calls!Init, EntryInv
<1>4. ReadInv
  BY DEF Init, ReadInv, ReadAt
<1>5. CachedInv
  BY DEF Init, CachedInv
<1>6. StreamInv
  BY DEF Init, Calls!Init, StreamInv
<1>7. LoadInv
  BY DEF Init, Calls!Init, LoadInv
<1>8. QED
  BY <1>1, <1>2, <1>3, <1>4, <1>5, <1>6, <1>7 DEF IInv

\* Every reachable state satisfies the inductive invariant.
THEOREM Invariance == Spec => []IInv
<1>1. IInv /\ [Next]_vars => IInv'
  BY TypeOKNext, CallsNext, EntryNext, ReadNext, CachedNext, StreamNext, LoadNext DEF IInv
<1>2. QED
  BY <1>1, IInvInit, PTL DEF Spec

\* Device buffers, streams and the analysis module are set up once in each
\* context, whatever the number of threads that ask for them and their order.
THEOREM SetUp == Spec => []SetUpOnce
<1>1. IInv => SetUpOnce
  BY DEF IInv, EntryInv, StreamInv, LoadInv, SetUpOnce
<1>2. QED
  BY <1>1, Invariance, PTL

\* A thread past sanitizer_buffer_init never works with half of the buffers,
\* though it tests the first of them only.
THEOREM Complete == Spec => []CachedComplete
<1>1. IInv => CachedComplete
  BY DEF IInv, CachedInv, CachedComplete
<1>2. QED
  BY <1>1, Invariance, PTL

\* No callback uses a handle of another stream than that of its context.
THEOREM Handles == Spec => []HandlesMatch
<1>1. IInv => HandlesMatch
  <2> SUFFICES ASSUME IInv, NEW t \in Threads, NEW k \in Kinds, handle[t][k] # Null
               PROVE  handle[t][k] = stream[Current(t)][k]
    BY DEF HandlesMatch
  <2>1. pc[t] # "app"
    BY DEF IInv, StreamInv
  <2>2. calling[t] = {Current(t)}
    BY <2>1, CurrentContext DEF IInv
  <2>3. QED
    BY <2>2 DEF IInv, StreamInv
<1>2. QED
  BY <1>1, Invariance, PTL

==============================================================================
