-------------------------- MODULE ContextLockProofs --------------------------
(***************************************************************************)
(* The context lock for every set of threads and contexts.                 *)
(***************************************************************************)
EXTENDS ContextLock, TLAPS

\* The threads and the map start well typed.
LEMMA TypeOKInit == Init => TypeOK
<1> SUFFICES ASSUME Init PROVE TypeOK
  OBVIOUS
<1>1. pc \in [Threads -> Locations]
  BY DEF Init, Locations
<1>2. /\ purpose \in [Threads -> {"checkOwner", "checkRelease", "checkStream", "create"}]
      /\ context \in [Threads -> Keys] /\ threadContext \in [Threads -> Keys]
  BY DEF Init, Keys
<1>3. /\ entry \in [Threads -> Entries \union {NoEntry}]
      /\ entryOf \in [Keys -> Entries \union {NoEntry}]
  BY DEF Init
<1>4. /\ depth \in [Threads -> Int] /\ streams \in [Entries -> Nat]
      /\ lockThread \in [Entries -> Threads \union {NoThread}]
  BY DEF Init
<1>5. mapLock \in BOOLEAN /\ lock \in [Entries -> BOOLEAN]
  BY Zenon DEF Init
<1>6. QED
  BY <1>1, <1>2, <1>3, <1>4, <1>5 DEF TypeOK

\* Every step keeps the threads and the map well typed.
LEMMA TypeOKNext == TypeOK /\ [Next]_vars => TypeOK'
<1> SUFFICES ASSUME TypeOK, [Next]_vars PROVE TypeOK'
  OBVIOUS
<1> USE DEF TypeOK, Locations, Keys, Goto, vars, threadVars, entryVars
<1>1. ASSUME NEW t \in Threads, NEW c \in Keys, ApiEnter(t, c) PROVE TypeOK'
  BY <1>1 DEF ApiEnter, Lookup
<1>2. ASSUME NEW t \in Threads, LaunchBegin(t) PROVE TypeOK'
  BY <1>2 DEF LaunchBegin, Lookup
<1>3. ASSUME NEW t \in Threads, ApiExit(t) PROVE TypeOK'
  BY <1>3 DEF ApiExit, Lookup
<1>4. ASSUME NEW t \in Threads, MapLock(t) \/ MapUnlock(t) PROVE TypeOK'
  BY <1>4 DEF MapLock, MapUnlock
<1>5. ASSUME NEW t \in Threads, Find(t) \/ FindNothing(t) PROVE TypeOK'
  BY <1>5 DEF Find, FindNothing
<1>6. ASSUME NEW t \in Threads, Insert(t) PROVE TypeOK'
  BY <1>6 DEF Insert
<1>7. ASSUME NEW t \in Threads, AlreadyOwner(t) \/ NotOwner(t) PROVE TypeOK'
  <2>1. CASE AlreadyOwner(t)
    BY <2>1 DEF AlreadyOwner, Entered
  <2>2. CASE NotOwner(t)
    BY <2>2 DEF NotOwner
  <2>3. QED
    BY <1>7, <2>1, <2>2
<1>8. ASSUME NEW t \in Threads, Acquire(t) \/ Own(t) PROVE TypeOK'
  <2>1. CASE Acquire(t)
    BY <2>1 DEF Acquire
  <2>2. CASE Own(t)
    BY <2>2 DEF Own, Entered
  <2>3. QED
    BY <1>8, <2>1, <2>2
<1>9. ASSUME NEW t \in Threads, Disown(t) \/ NothingToRelease(t) \/ Unlock(t)
      PROVE  TypeOK'
  <2>1. CASE Disown(t)
    BY <2>1 DEF Disown
  <2>2. CASE NothingToRelease(t)
    BY <2>2 DEF NothingToRelease
  <2>3. CASE Unlock(t)
    BY <2>3 DEF Unlock
  <2>4. QED
    BY <1>9, <2>1, <2>2, <2>3
<1>10. ASSUME NEW t \in Threads, Leave(t) PROVE TypeOK'
  BY <1>10 DEF Leave
<1>11. ASSUME NEW t \in Threads, HasStream(t) \/ NoStream(t) \/ CreateStream(t)
       PROVE  TypeOK'
  BY <1>11 DEF HasStream, NoStream, CreateStream
<1>12. CASE UNCHANGED vars
  BY <1>12
<1>13. QED
  BY <1>1, <1>2, <1>3, <1>4, <1>5, <1>6, <1>7, <1>8, <1>9, <1>10, <1>11, <1>12
     DEF Next, Step

\* A thread's purpose and the place it is at agree.
LEMMA PurposeNext == TypeOK /\ PurposeInv /\ [Next]_vars => PurposeInv'
<1> SUFFICES ASSUME TypeOK, PurposeInv, [Next]_vars PROVE PurposeInv'
  OBVIOUS
<1> USE DEF TypeOK, Goto, vars, threadVars, entryVars, PurposeInv
<1>1. ASSUME NEW t \in Threads, NEW c \in Keys, ApiEnter(t, c) PROVE PurposeInv'
  BY <1>1 DEF ApiEnter, Lookup
<1>2. ASSUME NEW t \in Threads, LaunchBegin(t) PROVE PurposeInv'
  BY <1>2 DEF LaunchBegin, Lookup
<1>3. ASSUME NEW t \in Threads, ApiExit(t) PROVE PurposeInv'
  BY <1>3 DEF ApiExit, Lookup
<1>4. ASSUME NEW t \in Threads, MapLock(t) PROVE PurposeInv'
  BY <1>4 DEF MapLock
<1>5. ASSUME NEW t \in Threads, Find(t) PROVE PurposeInv'
  BY <1>5 DEF Find
<1>6. ASSUME NEW t \in Threads, FindNothing(t) PROVE PurposeInv'
  BY <1>6 DEF FindNothing
<1>7. ASSUME NEW t \in Threads, Insert(t) PROVE PurposeInv'
  BY <1>7 DEF Insert
<1>8. ASSUME NEW t \in Threads, MapUnlock(t) PROVE PurposeInv'
  BY <1>8 DEF MapUnlock
<1>9. ASSUME NEW t \in Threads, AlreadyOwner(t) PROVE PurposeInv'
  BY <1>9 DEF AlreadyOwner, Entered
<1>10. ASSUME NEW t \in Threads, NotOwner(t) PROVE PurposeInv'
  BY <1>10 DEF NotOwner
<1>11. ASSUME NEW t \in Threads, Acquire(t) PROVE PurposeInv'
  BY <1>11 DEF Acquire
<1>12. ASSUME NEW t \in Threads, Own(t) PROVE PurposeInv'
  BY <1>12 DEF Own, Entered
<1>13. ASSUME NEW t \in Threads, Disown(t) PROVE PurposeInv'
  BY <1>13 DEF Disown
<1>14. ASSUME NEW t \in Threads, NothingToRelease(t) PROVE PurposeInv'
  BY <1>14 DEF NothingToRelease
<1>15. ASSUME NEW t \in Threads, Unlock(t) PROVE PurposeInv'
  BY <1>15 DEF Unlock
<1>16. ASSUME NEW t \in Threads, Leave(t) PROVE PurposeInv'
  BY <1>16 DEF Leave
<1>17. ASSUME NEW t \in Threads, HasStream(t) PROVE PurposeInv'
  BY <1>17 DEF HasStream
<1>18. ASSUME NEW t \in Threads, NoStream(t) PROVE PurposeInv'
  BY <1>18 DEF NoStream
<1>19. ASSUME NEW t \in Threads, CreateStream(t) PROVE PurposeInv'
  BY <1>19 DEF CreateStream
<1>20. CASE UNCHANGED vars
  BY <1>20
<1>21. QED
  BY <1>1, <1>2, <1>3, <1>4, <1>5, <1>6, <1>7, <1>8, <1>9, <1>10, <1>11, <1>12,
     <1>13, <1>14, <1>15, <1>16, <1>17, <1>18, <1>19, <1>20
     DEF Next, Step

\* The map's spin lock makes find-or-insert atomic: one entry per context.
LEMMA MapNext == TypeOK /\ PurposeInv /\ MapInv /\ [Next]_vars => MapInv'
<1> SUFFICES ASSUME TypeOK, PurposeInv, MapInv, [Next]_vars PROVE MapInv'
  OBVIOUS
<1> USE DEF TypeOK, Goto, vars, threadVars, entryVars, PurposeInv, MapInv, InMap, Found
<1>1. ASSUME NEW t \in Threads, NEW c \in Keys, ApiEnter(t, c) PROVE MapInv'
  BY <1>1 DEF ApiEnter, Lookup
<1>2. ASSUME NEW t \in Threads, LaunchBegin(t) PROVE MapInv'
  BY <1>2 DEF LaunchBegin, Lookup
<1>3. ASSUME NEW t \in Threads, ApiExit(t) PROVE MapInv'
  BY <1>3 DEF ApiExit, Lookup
<1>4. ASSUME NEW t \in Threads, MapLock(t) PROVE MapInv'
  BY <1>4 DEF MapLock
<1>5. ASSUME NEW t \in Threads, Find(t) PROVE MapInv'
  BY <1>5 DEF Find
<1>6. ASSUME NEW t \in Threads, FindNothing(t) PROVE MapInv'
  BY <1>6 DEF FindNothing
<1>7. ASSUME NEW t \in Threads, Insert(t) PROVE MapInv'
  <2>1. PICK e \in Entries :
          /\ \A c \in Keys : entryOf[c] # e
          /\ entryOf' = [entryOf EXCEPT ![context[t]] = e]
          /\ entry' = [entry EXCEPT ![t] = e]
          /\ lockThread' = [lockThread EXCEPT ![e] = NoThread]
    BY <1>7 DEF Insert
  <2>2. /\ pc[t] = "insert" /\ pc' = [pc EXCEPT ![t] = "mapUnlock"]
        /\ UNCHANGED <<purpose, context, mapLock>>
        /\ context[t] \in Keys /\ entryOf[context[t]] = NoEntry /\ e # NoEntry
    BY <1>7, ConstantsAssumption DEF Insert
  <2>3. \A u \in Threads : InMap(u)' => InMap(u)
    BY <2>2
  <2>4. \A u \in Threads : pc'[u] = "insert" => entryOf'[context'[u]] = NoEntry
    BY <2>1, <2>2
  <2>5. \A u \in Threads : Found(u)' => entry'[u] \in Entries /\ entry'[u] = entryOf'[context'[u]]
    <3>1. ASSUME NEW u \in Threads, u # t, Found(u)'
          PROVE  entry'[u] \in Entries /\ entry'[u] = entryOf'[context'[u]]
      <4>1. Found(u) /\ entry'[u] = entry[u] /\ context'[u] = context[u]
        BY <2>1, <2>2, <3>1
      <4>2. context[u] # context[t] /\ context[u] \in Keys
        BY <2>2, <4>1, ConstantsAssumption
      <4>3. QED
        BY <2>1, <4>1, <4>2
    <3>2. entry'[t] \in Entries /\ entry'[t] = entryOf'[context'[t]]
      BY <2>1, <2>2
    <3>3. QED
      BY <3>1, <3>2
  <2>6. \A c, d \in Keys : entryOf'[c] = entryOf'[d] /\ entryOf'[c] # NoEntry => c = d
    BY <2>1, <2>2
  <2>7. \A f \in Entries : lockThread'[f] # NoThread => \E c \in Keys : entryOf'[c] = f
    <3>1. ASSUME NEW f \in Entries, lockThread'[f] # NoThread, f # e
          PROVE  \E c \in Keys : entryOf'[c] = f
      <4>1. PICK c \in Keys : entryOf[c] = f
        BY <2>1, <3>1
      <4>2. c # context[t]
        BY <2>2, <4>1, ConstantsAssumption
      <4>3. entryOf'[c] = f
        BY <2>1, <4>1, <4>2
      <4>4. QED
        BY <4>3
    <3>2. lockThread'[e] = NoThread
      BY <2>1
    <3>3. QED
      BY <3>1, <3>2
  <2>8. mapLock' = mapLock
    BY <2>2
  <2>9. QED
    BY <2>3, <2>4, <2>5, <2>6, <2>7, <2>8
<1>8. ASSUME NEW t \in Threads, MapUnlock(t) PROVE MapInv'
  BY <1>8 DEF MapUnlock
<1>9. ASSUME NEW t \in Threads, AlreadyOwner(t) PROVE MapInv'
  BY <1>9 DEF AlreadyOwner, Entered
<1>10. ASSUME NEW t \in Threads, NotOwner(t) PROVE MapInv'
  BY <1>10 DEF NotOwner
<1>11. ASSUME NEW t \in Threads, Acquire(t) PROVE MapInv'
  BY <1>11 DEF Acquire
<1>12. ASSUME NEW t \in Threads, Own(t) PROVE MapInv'
  BY <1>12 DEF Own, Entered
<1>13. ASSUME NEW t \in Threads, Disown(t) PROVE MapInv'
  BY <1>13 DEF Disown
<1>14. ASSUME NEW t \in Threads, NothingToRelease(t) PROVE MapInv'
  BY <1>14 DEF NothingToRelease
<1>15. ASSUME NEW t \in Threads, Unlock(t) PROVE MapInv'
  BY <1>15 DEF Unlock
<1>16. ASSUME NEW t \in Threads, Leave(t) PROVE MapInv'
  BY <1>16 DEF Leave
<1>17. ASSUME NEW t \in Threads, HasStream(t) PROVE MapInv'
  BY <1>17 DEF HasStream
<1>18. ASSUME NEW t \in Threads, NoStream(t) PROVE MapInv'
  BY <1>18 DEF NoStream
<1>19. ASSUME NEW t \in Threads, CreateStream(t) PROVE MapInv'
  BY <1>19 DEF CreateStream
<1>20. CASE UNCHANGED vars
  BY <1>20
<1>21. QED
  BY <1>1, <1>2, <1>3, <1>4, <1>5, <1>6, <1>7, <1>8, <1>9, <1>10, <1>11, <1>12,
     <1>13, <1>14, <1>15, <1>16, <1>17, <1>18, <1>19, <1>20
     DEF Next, Step

\* Every step keeps one claimant of each entry's lock; the steps that matter
\* are the compare-and-swap and the two stores of the unlock.
LEMMA LockNext == TypeOK /\ PurposeInv /\ MapInv /\ LockInv /\ [Next]_vars => LockInv'
<1> SUFFICES ASSUME TypeOK, PurposeInv, MapInv, LockInv, [Next]_vars PROVE LockInv'
  OBVIOUS
<1> USE DEF TypeOK, Goto, vars, threadVars, entryVars, PurposeInv, MapInv, LockInv, Found, Claims
<1>1. ASSUME NEW t \in Threads, NEW c \in Keys, ApiEnter(t, c) PROVE LockInv'
  BY <1>1 DEF ApiEnter, Lookup
<1>2. ASSUME NEW t \in Threads, LaunchBegin(t) PROVE LockInv'
  BY <1>2 DEF LaunchBegin, Lookup
<1>3. ASSUME NEW t \in Threads, ApiExit(t) PROVE LockInv'
  BY <1>3 DEF ApiExit, Lookup
<1>4. ASSUME NEW t \in Threads, MapLock(t) PROVE LockInv'
  BY <1>4 DEF MapLock
<1>5. ASSUME NEW t \in Threads, Find(t) PROVE LockInv'
  BY <1>5 DEF Find
<1>6. ASSUME NEW t \in Threads, FindNothing(t) PROVE LockInv'
  BY <1>6 DEF FindNothing
<1>7. ASSUME NEW t \in Threads, Insert(t) PROVE LockInv'
  <2>1. PICK e \in Entries :
          /\ \A c \in Keys : entryOf[c] # e
          /\ entry' = [entry EXCEPT ![t] = e]
          /\ lock' = [lock EXCEPT ![e] = FALSE]
          /\ lockThread' = [lockThread EXCEPT ![e] = NoThread]
    BY <1>7 DEF Insert
  <2>2. pc[t] = "insert" /\ pc' = [pc EXCEPT ![t] = "mapUnlock"]
    BY <1>7 DEF Insert
  <2>3. \A u \in Threads : ~Claims(u, e)'
    BY <2>1, <2>2, ConstantsAssumption
  <2>4. \A f \in Entries, u \in Threads :
          f # e => Claims(u, f)' = Claims(u, f) /\ lock'[f] = lock[f]
                     /\ lockThread'[f] = lockThread[f]
    BY <2>1, <2>2
  <2>5. QED
    BY <2>1, <2>2, <2>3, <2>4
<1>8. ASSUME NEW t \in Threads, MapUnlock(t) PROVE LockInv'
  BY <1>8 DEF MapUnlock
<1>9. ASSUME NEW t \in Threads, AlreadyOwner(t) PROVE LockInv'
  BY <1>9 DEF AlreadyOwner, Entered
<1>10. ASSUME NEW t \in Threads, NotOwner(t) PROVE LockInv'
  BY <1>10 DEF NotOwner
<1>11. ASSUME NEW t \in Threads, Acquire(t) PROVE LockInv'
  BY <1>11 DEF Acquire
<1>12. ASSUME NEW t \in Threads, Own(t) PROVE LockInv'
  BY <1>12 DEF Own, Entered
<1>13. ASSUME NEW t \in Threads, Disown(t) PROVE LockInv'
  <2>1. /\ pc[t] = "checkRelease" /\ pc' = [pc EXCEPT ![t] = "unlock"]
        /\ lockThread[entry[t]] = t /\ entry[t] \in Entries
        /\ lockThread' = [lockThread EXCEPT ![entry[t]] = NoThread]
        /\ UNCHANGED <<entry, lock>>
    BY <1>13 DEF Disown
  <2>2. \A f \in Entries, u \in Threads : Claims(u, f)' => Claims(u, f)
    BY <2>1, ConstantsAssumption
  <2>3. \A f \in Entries, u \in Threads : lockThread'[f] = u => lockThread[f] = u
    BY <2>1, ConstantsAssumption
  <2>4. ASSUME NEW f \in Entries, NEW u \in Threads, Claims(u, f)',
               pc'[u] \in {"own", "unlock"}, entry'[u] = f
        PROVE  lockThread'[f] # u
    BY <2>1, <2>4, ConstantsAssumption
  <2>5. QED
    BY <2>1, <2>2, <2>4
<1>14. ASSUME NEW t \in Threads, NothingToRelease(t) PROVE LockInv'
  BY <1>14 DEF NothingToRelease
<1>15. ASSUME NEW t \in Threads, Unlock(t) PROVE LockInv'
  BY <1>15 DEF Unlock
<1>16. ASSUME NEW t \in Threads, Leave(t) PROVE LockInv'
  BY <1>16 DEF Leave
<1>17. ASSUME NEW t \in Threads, HasStream(t) PROVE LockInv'
  BY <1>17 DEF HasStream
<1>18. ASSUME NEW t \in Threads, NoStream(t) PROVE LockInv'
  BY <1>18 DEF NoStream
<1>19. ASSUME NEW t \in Threads, CreateStream(t) PROVE LockInv'
  BY <1>19 DEF CreateStream
<1>20. CASE UNCHANGED vars
  BY <1>20
<1>21. QED
  BY <1>1, <1>2, <1>3, <1>4, <1>5, <1>6, <1>7, <1>8, <1>9, <1>10, <1>11, <1>12,
     <1>13, <1>14, <1>15, <1>16, <1>17, <1>18, <1>19, <1>20
     DEF Next, Step

\* Every step keeps a claimant of each lock that is taken.
LEMMA OrphanNext == TypeOK /\ PurposeInv /\ MapInv /\ LockInv /\ NoOrphanLock /\ [Next]_vars => NoOrphanLock'
<1> SUFFICES ASSUME TypeOK, PurposeInv, MapInv, LockInv, NoOrphanLock, [Next]_vars PROVE NoOrphanLock'
  OBVIOUS
<1> USE DEF TypeOK, Goto, vars, threadVars, entryVars, PurposeInv, MapInv, LockInv, NoOrphanLock, Found, Claims
<1>1. ASSUME NEW t \in Threads, NEW c \in Keys, ApiEnter(t, c) PROVE NoOrphanLock'
  BY <1>1 DEF ApiEnter, Lookup
<1>2. ASSUME NEW t \in Threads, LaunchBegin(t) PROVE NoOrphanLock'
  BY <1>2 DEF LaunchBegin, Lookup
<1>3. ASSUME NEW t \in Threads, ApiExit(t) PROVE NoOrphanLock'
  BY <1>3 DEF ApiExit, Lookup
<1>4. ASSUME NEW t \in Threads, MapLock(t) PROVE NoOrphanLock'
  BY <1>4 DEF MapLock
<1>5. ASSUME NEW t \in Threads, Find(t) PROVE NoOrphanLock'
  BY <1>5 DEF Find
<1>6. ASSUME NEW t \in Threads, FindNothing(t) PROVE NoOrphanLock'
  BY <1>6 DEF FindNothing
<1>7. ASSUME NEW t \in Threads, Insert(t) PROVE NoOrphanLock'
  BY <1>7 DEF Insert
<1>8. ASSUME NEW t \in Threads, MapUnlock(t) PROVE NoOrphanLock'
  BY <1>8 DEF MapUnlock
<1>9. ASSUME NEW t \in Threads, AlreadyOwner(t) PROVE NoOrphanLock'
  BY <1>9 DEF AlreadyOwner, Entered
<1>10. ASSUME NEW t \in Threads, NotOwner(t) PROVE NoOrphanLock'
  BY <1>10 DEF NotOwner
<1>11. ASSUME NEW t \in Threads, Acquire(t) PROVE NoOrphanLock'
  BY <1>11 DEF Acquire
<1>12. ASSUME NEW t \in Threads, Own(t) PROVE NoOrphanLock'
  BY <1>12 DEF Own, Entered
<1>13. ASSUME NEW t \in Threads, Disown(t) PROVE NoOrphanLock'
  BY <1>13 DEF Disown
<1>14. ASSUME NEW t \in Threads, NothingToRelease(t) PROVE NoOrphanLock'
  BY <1>14 DEF NothingToRelease
<1>15. ASSUME NEW t \in Threads, Unlock(t) PROVE NoOrphanLock'
  BY <1>15 DEF Unlock
<1>16. ASSUME NEW t \in Threads, Leave(t) PROVE NoOrphanLock'
  BY <1>16 DEF Leave
<1>17. ASSUME NEW t \in Threads, HasStream(t) PROVE NoOrphanLock'
  BY <1>17 DEF HasStream
<1>18. ASSUME NEW t \in Threads, NoStream(t) PROVE NoOrphanLock'
  BY <1>18 DEF NoStream
<1>19. ASSUME NEW t \in Threads, CreateStream(t) PROVE NoOrphanLock'
  BY <1>19 DEF CreateStream
<1>20. CASE UNCHANGED vars
  BY <1>20
<1>21. QED
  BY <1>1, <1>2, <1>3, <1>4, <1>5, <1>6, <1>7, <1>8, <1>9, <1>10, <1>11, <1>12,
     <1>13, <1>14, <1>15, <1>16, <1>17, <1>18, <1>19, <1>20
     DEF Next, Step

\* Without nested calls a thread inside a call keeps the lock of its context.
LEMMA InsideNext ==
  ASSUME MaxDepth = 1
  PROVE  TypeOK /\ PurposeInv /\ MapInv /\ LockInv /\ InsideInv /\ [Next]_vars => InsideInv'
<1> SUFFICES ASSUME TypeOK, PurposeInv, MapInv, LockInv, InsideInv, [Next]_vars PROVE InsideInv'
  OBVIOUS
<1> USE DEF TypeOK, Goto, vars, threadVars, entryVars, PurposeInv, MapInv, LockInv, InsideInv, Found, Claims, Inside
<1>1. ASSUME NEW t \in Threads, NEW c \in Keys, ApiEnter(t, c) PROVE InsideInv'
  BY <1>1 DEF ApiEnter, Lookup
<1>2. ASSUME NEW t \in Threads, LaunchBegin(t) PROVE InsideInv'
  BY <1>2 DEF LaunchBegin, Lookup
<1>3. ASSUME NEW t \in Threads, ApiExit(t) PROVE InsideInv'
  BY <1>3 DEF ApiExit, Lookup
<1>4. ASSUME NEW t \in Threads, MapLock(t) PROVE InsideInv'
  BY <1>4 DEF MapLock
<1>5. ASSUME NEW t \in Threads, Find(t) PROVE InsideInv'
  BY <1>5 DEF Find
<1>6. ASSUME NEW t \in Threads, FindNothing(t) PROVE InsideInv'
  BY <1>6 DEF FindNothing
<1>7. ASSUME NEW t \in Threads, Insert(t) PROVE InsideInv'
  BY <1>7 DEF Insert
<1>8. ASSUME NEW t \in Threads, MapUnlock(t) PROVE InsideInv'
  BY <1>8 DEF MapUnlock
<1>9. ASSUME NEW t \in Threads, AlreadyOwner(t) PROVE InsideInv'
  <2>1. /\ pc[t] = "checkOwner" /\ pc' = [pc EXCEPT ![t] = "api"]
        /\ threadContext' = [threadContext EXCEPT ![t] = context[t]]
        /\ UNCHANGED <<purpose, context, depth, entryOf, lockThread>>
        /\ lockThread[entry[t]] = t
    BY <1>9 DEF AlreadyOwner, Entered
  <2>2. entry[t] \in Entries /\ entry[t] = entryOf[context[t]]
    BY <2>1
  <2>3. QED
    BY <2>1, <2>2, ConstantsAssumption
<1>10. ASSUME NEW t \in Threads, NotOwner(t) PROVE InsideInv'
  BY <1>10 DEF NotOwner
<1>11. ASSUME NEW t \in Threads, Acquire(t) PROVE InsideInv'
  BY <1>11 DEF Acquire
<1>12. ASSUME NEW t \in Threads, Own(t) PROVE InsideInv'
  <2>1. /\ pc[t] = "own" /\ pc' = [pc EXCEPT ![t] = "api"]
        /\ threadContext' = [threadContext EXCEPT ![t] = context[t]]
        /\ UNCHANGED <<purpose, context, depth, entryOf>>
        /\ lockThread' = [lockThread EXCEPT ![entry[t]] = t]
    BY <1>12 DEF Own, Entered
  <2>2. /\ entry[t] \in Entries /\ entry[t] = entryOf[context[t]]
        /\ entry[t] # NoEntry
    BY <2>1, ConstantsAssumption
  <2>3. ASSUME NEW u \in Threads, u # t, Inside(u)
        PROVE  entryOf[context[u]] # entry[t]
    <3>1. SUFFICES ASSUME entryOf[context[u]] = entry[t] PROVE FALSE
      OBVIOUS
    <3>2. Claims(u, entry[t]) /\ Claims(t, entry[t])
      BY <2>1, <2>3, <3>1
    <3>3. QED
      BY <2>2, <2>3, <3>2
  <2>4. ASSUME NEW u \in Threads, u # t, Inside(u)
        PROVE  lockThread'[entryOf[context[u]]] = u
    BY <2>1, <2>3, <2>4
  <2>5. lockThread'[entryOf[context[t]]] = t
    BY <2>1, <2>2
  <2>6. \A u \in Threads : depth'[u] = IF pc'[u] = "app" THEN 0 ELSE 1
    BY <2>1
  <2>7. \A u \in Threads : u # t /\ Inside(u)' => Inside(u)
    BY <2>1
  <2>8. QED
    BY <2>1, <2>2, <2>4, <2>5, <2>6, <2>7
<1>13. ASSUME NEW t \in Threads, Disown(t) PROVE InsideInv'
  BY <1>13 DEF Disown
<1>14. ASSUME NEW t \in Threads, NothingToRelease(t) PROVE InsideInv'
  BY <1>14 DEF NothingToRelease
<1>15. ASSUME NEW t \in Threads, Unlock(t) PROVE InsideInv'
  BY <1>15 DEF Unlock
<1>16. ASSUME NEW t \in Threads, Leave(t) PROVE InsideInv'
  BY <1>16 DEF Leave
<1>17. ASSUME NEW t \in Threads, HasStream(t) PROVE InsideInv'
  BY <1>17 DEF HasStream
<1>18. ASSUME NEW t \in Threads, NoStream(t) PROVE InsideInv'
  BY <1>18 DEF NoStream
<1>19. ASSUME NEW t \in Threads, CreateStream(t) PROVE InsideInv'
  BY <1>19 DEF CreateStream
<1>20. CASE UNCHANGED vars
  BY <1>20
<1>21. QED
  BY <1>1, <1>2, <1>3, <1>4, <1>5, <1>6, <1>7, <1>8, <1>9, <1>10, <1>11, <1>12,
     <1>13, <1>14, <1>15, <1>16, <1>17, <1>18, <1>19, <1>20
     DEF Next, Step

\* Every step preserves OwnerInv when calls do not nest.
LEMMA OwnerNext ==
  ASSUME MaxDepth = 1
  PROVE  TypeOK /\ PurposeInv /\ MapInv /\ LockInv /\ InsideInv /\ OwnerInv
           /\ [Next]_vars => OwnerInv'
<1> SUFFICES ASSUME TypeOK, PurposeInv, MapInv, LockInv, InsideInv, OwnerInv, [Next]_vars
             PROVE  OwnerInv'
  OBVIOUS
<1>a. \A e \in Entries, t \in Threads : lockThread[e] = t => Claims(t, e) /\ t # NoThread
  BY ConstantsAssumption DEF Claims
<1> USE <1>a DEF TypeOK, Goto, vars, threadVars, entryVars, PurposeInv, MapInv, InsideInv,
            OwnerInv, Found, Inside
<1>1. ASSUME NEW t \in Threads, NEW c \in Keys, ApiEnter(t, c) PROVE OwnerInv'
  BY <1>1 DEF ApiEnter, Lookup
<1>2. ASSUME NEW t \in Threads, LaunchBegin(t) PROVE OwnerInv'
  BY <1>2 DEF LaunchBegin, Lookup
<1>3. ASSUME NEW t \in Threads, ApiExit(t) PROVE OwnerInv'
  BY <1>3 DEF ApiExit, Lookup
<1>4. ASSUME NEW t \in Threads, MapLock(t) PROVE OwnerInv'
  BY <1>4 DEF MapLock
<1>5. ASSUME NEW t \in Threads, Find(t) PROVE OwnerInv'
  BY <1>5 DEF Find
<1>6. ASSUME NEW t \in Threads, FindNothing(t) PROVE OwnerInv'
  BY <1>6 DEF FindNothing
<1>7. ASSUME NEW t \in Threads, Insert(t) PROVE OwnerInv'
  <2>1. PICK e \in Entries :
          /\ \A c \in Keys : entryOf[c] # e
          /\ entryOf' = [entryOf EXCEPT ![context[t]] = e]
          /\ lockThread' = [lockThread EXCEPT ![e] = NoThread]
    BY <1>7 DEF Insert
  <2>2. /\ pc[t] = "insert" /\ pc' = [pc EXCEPT ![t] = "mapUnlock"] /\ context' = context
        /\ entryOf[context[t]] = NoEntry
    BY <1>7 DEF Insert
  <2>3. ASSUME NEW f \in Entries, NEW u \in Threads, lockThread'[f] = u
        PROVE  pc'[u] \notin {"app", "unlock", "leave"} /\ entryOf'[context'[u]] = f
    <3>1. lockThread[f] = u
      BY <2>1, <2>3, ConstantsAssumption
    <3>2. pc[u] \notin {"app", "unlock", "leave"} /\ entryOf[context[u]] = f
      BY <3>1
    <3>3. context[u] # context[t]
      BY <2>2, <3>2, ConstantsAssumption
    <3>4. QED
      BY <2>1, <2>2, <3>2, <3>3
  <2>4. QED
    BY <2>3
<1>8. ASSUME NEW t \in Threads, MapUnlock(t) PROVE OwnerInv'
  BY <1>8 DEF MapUnlock
<1>9. ASSUME NEW t \in Threads, AlreadyOwner(t) PROVE OwnerInv'
  BY <1>9 DEF AlreadyOwner, Entered
<1>10. ASSUME NEW t \in Threads, NotOwner(t) PROVE OwnerInv'
  BY <1>10 DEF NotOwner
<1>11. ASSUME NEW t \in Threads, Acquire(t) PROVE OwnerInv'
  BY <1>11 DEF Acquire
<1>12. ASSUME NEW t \in Threads, Own(t) PROVE OwnerInv'
  <2>1. /\ pc' = [pc EXCEPT ![t] = "api"] /\ UNCHANGED <<context, entryOf>>
        /\ lockThread' = [lockThread EXCEPT ![entry[t]] = t]
        /\ entry[t] \in Entries /\ entry[t] = entryOf[context[t]]
    BY <1>12 DEF Own
  <2>2. ASSUME NEW e \in Entries, NEW u \in Threads, lockThread'[e] = u
        PROVE  pc'[u] \notin {"app", "unlock", "leave"} /\ entryOf[context[u]] = e
    <3>1. CASE e = entry[t]
      <4>1. u = t
        BY <2>1, <2>2, <3>1
      <4>2. QED
        BY <2>1, <3>1, <4>1
    <3>2. CASE e # entry[t]
      <4>1. lockThread[e] = u
        BY <2>1, <2>2, <3>2
      <4>2. QED
        BY <2>1, <4>1
    <3>3. QED
      BY <3>1, <3>2
  <2>3. QED
    BY <2>1, <2>2
<1>13. ASSUME NEW t \in Threads, Disown(t) PROVE OwnerInv'
  <2>1. /\ pc' = [pc EXCEPT ![t] = "unlock"] /\ UNCHANGED <<context, entryOf>>
        /\ lockThread' = [lockThread EXCEPT ![entry[t]] = NoThread]
        /\ entry[t] \in Entries /\ entry[t] = entryOf[context[t]]
    BY <1>13 DEF Disown
  <2>2. ASSUME NEW e \in Entries, NEW u \in Threads, lockThread'[e] = u
        PROVE  pc'[u] \notin {"app", "unlock", "leave"} /\ entryOf[context[u]] = e
    <3>1. e # entry[t] /\ lockThread[e] = u
      BY <2>1, <2>2, ConstantsAssumption
    <3>2. u # t
      BY <2>1, <3>1
    <3>3. QED
      BY <2>1, <3>1, <3>2
  <2>3. QED
    BY <2>1, <2>2
<1>14. ASSUME NEW t \in Threads, NothingToRelease(t) PROVE OwnerInv'
  BY <1>14 DEF NothingToRelease
<1>15. ASSUME NEW t \in Threads, Unlock(t) PROVE OwnerInv'
  BY <1>15 DEF Unlock
<1>16. ASSUME NEW t \in Threads, Leave(t) PROVE OwnerInv'
  BY <1>16 DEF Leave
<1>17. ASSUME NEW t \in Threads, HasStream(t) PROVE OwnerInv'
  BY <1>17 DEF HasStream
<1>18. ASSUME NEW t \in Threads, NoStream(t) PROVE OwnerInv'
  BY <1>18 DEF NoStream
<1>19. ASSUME NEW t \in Threads, CreateStream(t) PROVE OwnerInv'
  BY <1>19 DEF CreateStream
<1>20. CASE UNCHANGED vars
  BY <1>20
<1>21. QED
  BY <1>1, <1>2, <1>3, <1>4, <1>5, <1>6, <1>7, <1>8, <1>9, <1>10, <1>11, <1>12,
     <1>13, <1>14, <1>15, <1>16, <1>17, <1>18, <1>19, <1>20
     DEF Next, Step

\* A stream is created by the owner of the context, who has seen none.
LEMMA StreamNext == TypeOK /\ PurposeInv /\ MapInv /\ InsideInv /\ StreamInv /\ [Next]_vars => StreamInv'
<1> SUFFICES ASSUME TypeOK, PurposeInv, MapInv, InsideInv, StreamInv, [Next]_vars PROVE StreamInv'
  OBVIOUS
<1> USE DEF TypeOK, Goto, vars, threadVars, entryVars, PurposeInv, MapInv, InsideInv, StreamInv, OneStream, Found, Inside
<1>1. ASSUME NEW t \in Threads, NEW c \in Keys, ApiEnter(t, c) PROVE StreamInv'
  BY <1>1 DEF ApiEnter, Lookup
<1>2. ASSUME NEW t \in Threads, LaunchBegin(t) PROVE StreamInv'
  BY <1>2 DEF LaunchBegin, Lookup
<1>3. ASSUME NEW t \in Threads, ApiExit(t) PROVE StreamInv'
  BY <1>3 DEF ApiExit, Lookup
<1>4. ASSUME NEW t \in Threads, MapLock(t) PROVE StreamInv'
  BY <1>4 DEF MapLock
<1>5. ASSUME NEW t \in Threads, Find(t) PROVE StreamInv'
  BY <1>5 DEF Find
<1>6. ASSUME NEW t \in Threads, FindNothing(t) PROVE StreamInv'
  BY <1>6 DEF FindNothing
<1>7. ASSUME NEW t \in Threads, Insert(t) PROVE StreamInv'
  BY <1>7 DEF Insert
<1>8. ASSUME NEW t \in Threads, MapUnlock(t) PROVE StreamInv'
  BY <1>8 DEF MapUnlock
<1>9. ASSUME NEW t \in Threads, AlreadyOwner(t) PROVE StreamInv'
  BY <1>9 DEF AlreadyOwner, Entered
<1>10. ASSUME NEW t \in Threads, NotOwner(t) PROVE StreamInv'
  BY <1>10 DEF NotOwner
<1>11. ASSUME NEW t \in Threads, Acquire(t) PROVE StreamInv'
  BY <1>11 DEF Acquire
<1>12. ASSUME NEW t \in Threads, Own(t) PROVE StreamInv'
  BY <1>12 DEF Own, Entered
<1>13. ASSUME NEW t \in Threads, Disown(t) PROVE StreamInv'
  BY <1>13 DEF Disown
<1>14. ASSUME NEW t \in Threads, NothingToRelease(t) PROVE StreamInv'
  BY <1>14 DEF NothingToRelease
<1>15. ASSUME NEW t \in Threads, Unlock(t) PROVE StreamInv'
  BY <1>15 DEF Unlock
<1>16. ASSUME NEW t \in Threads, Leave(t) PROVE StreamInv'
  BY <1>16 DEF Leave
<1>17. ASSUME NEW t \in Threads, HasStream(t) PROVE StreamInv'
  BY <1>17 DEF HasStream
<1>18. ASSUME NEW t \in Threads, NoStream(t) PROVE StreamInv'
  BY <1>18 DEF NoStream
<1>19. ASSUME NEW t \in Threads, CreateStream(t) PROVE StreamInv'
  BY <1>19 DEF CreateStream
<1>20. CASE UNCHANGED vars
  BY <1>20
<1>21. QED
  BY <1>1, <1>2, <1>3, <1>4, <1>5, <1>6, <1>7, <1>8, <1>9, <1>10, <1>11, <1>12,
     <1>13, <1>14, <1>15, <1>16, <1>17, <1>18, <1>19, <1>20
     DEF Next, Step

------------------------------------------------------------------------------

\* The inductive invariant holds initially.
LEMMA IInvInit == Init => IInv /\ NoOrphanLock
<1> SUFFICES ASSUME Init PROVE IInv /\ NoOrphanLock
  OBVIOUS
<1>1. TypeOK
  BY TypeOKInit
<1>2. /\ \A t \in Threads : pc[t] = "app" /\ entry[t] = NoEntry
      /\ \A c \in Keys : entryOf[c] = NoEntry
      /\ \A e \in Entries : ~lock[e] /\ lockThread[e] = NoThread
  BY DEF Init
<1>3. PurposeInv
  BY <1>2 DEF PurposeInv
<1>4. MapInv
  BY <1>2 DEF MapInv, InMap, Found
<1>5. LockInv
  BY <1>2, ConstantsAssumption DEF LockInv, Claims
<1>6. NoOrphanLock
  BY <1>2 DEF NoOrphanLock
<1>7. QED
  BY <1>1, <1>3, <1>4, <1>5, <1>6 DEF IInv

\* Every step preserves the inductive invariant.
LEMMA IInvNext == IInv /\ NoOrphanLock /\ [Next]_vars => (IInv /\ NoOrphanLock)'
BY TypeOKNext, PurposeNext, MapNext, LockNext, OrphanNext DEF IInv

\* The inductive invariant holds in every reachable state.
LEMMA Invariance == Spec => [](IInv /\ NoOrphanLock)
<1>1. Init => IInv /\ NoOrphanLock
  BY IInvInit
<1>2. IInv /\ NoOrphanLock /\ [Next]_vars => (IInv /\ NoOrphanLock)'
  BY IInvNext
<1>3. QED
  BY <1>1, <1>2, PTL DEF Spec

\* A step changes the map's entry of a context only where there is none.
LEMMA ReplacesNothing ==
  TypeOK /\ MapInv /\ [Next]_vars =>
    [\A c \in Keys : entryOf[c] # NoEntry => entryOf'[c] = entryOf[c]]_vars
<1> SUFFICES ASSUME TypeOK, MapInv, [Next]_vars, NEW c \in Keys, entryOf[c] # NoEntry
             PROVE  entryOf'[c] = entryOf[c]
  BY DEF vars
<1>1. ASSUME NEW t \in Threads, Insert(t) PROVE entryOf'[c] = entryOf[c]
  <2>1. pc[t] = "insert" /\ \E e \in Entries : entryOf' = [entryOf EXCEPT ![context[t]] = e]
    BY <1>1 DEF Insert, Goto
  <2>2. context[t] # c
    BY <2>1 DEF MapInv
  <2>3. QED
    BY <2>1, <2>2 DEF TypeOK
<1>2. ASSUME NEW t \in Threads,
             (\E d \in Keys : ApiEnter(t, d)) \/ LaunchBegin(t) \/ ApiExit(t)
      PROVE  entryOf'[c] = entryOf[c]
  BY <1>2 DEF ApiEnter, LaunchBegin, ApiExit, Lookup
<1>3. ASSUME NEW t \in Threads, Step(t), ~Insert(t) PROVE entryOf'[c] = entryOf[c]
  BY <1>3 DEF Step, MapLock, Find, FindNothing, MapUnlock, AlreadyOwner, NotOwner,
       Acquire, Own, Disown, NothingToRelease, Unlock, Leave, HasStream, NoStream,
       CreateStream
<1>4. CASE UNCHANGED vars
  BY <1>4 DEF vars
<1>5. QED
  BY <1>1, <1>2, <1>3, <1>4 DEF Next

\* No thread starts inside a call and no stream exists.
LEMMA InsideInit == Init => InsideInv /\ StreamInv /\ OwnerInv
BY ConstantsAssumption DEF Init, InsideInv, Inside, StreamInv, OneStream, OwnerInv

\* The invariant of calls that do not nest holds in every reachable state.
LEMMA InsideInvariance ==
  ASSUME MaxDepth = 1
  PROVE  Spec => [](IInv /\ InsideInv /\ StreamInv /\ OwnerInv)
<1>1. Init => InsideInv /\ StreamInv /\ OwnerInv
  BY InsideInit
<1>2. IInv /\ InsideInv /\ StreamInv /\ OwnerInv /\ [Next]_vars
        => (InsideInv /\ StreamInv /\ OwnerInv)'
  BY InsideNext, StreamNext, OwnerNext DEF IInv
<1>3. QED
  BY <1>1, <1>2, Invariance, PTL DEF Spec

------------------------------------------------------------------------------

\* The state of the map, of the locks and of every thread stays well-typed.
THEOREM TypeCorrect == Spec => []TypeOK
BY Invariance, PTL DEF IInv

\* sanitizer_context_map_context_lock and _unlock exclude: whatever the
\* number of threads and contexts and however driver API calls nest, one
\* thread at most has a claim on a context's lock, and lock_thread is -1
\* while that thread is between the spin lock and the store of its id.
THEOREM MutualExclusion == Spec => []LockInv
BY Invariance, PTL DEF IInv

\* A context's spin lock is never taken without a thread that will release
\* it, or whose EXIT callback will.
THEOREM LocksAreOwned == Spec => []NoOrphanLock
BY Invariance, PTL

\* sanitizer_context_map_init never replaces the entry of a context, so that
\* the pointers threads keep outside the map's lock do not go stale.
THEOREM EntriesAreStable == Spec => EntriesStay
BY Invariance, ReplacesNothing, PTL DEF IInv, Spec, EntriesStay

\* When driver API callbacks do not nest, two threads are never inside calls
\* on one context: what the comments of gputrigger.c call "already locked"
\* and "thread-safe".
THEOREM CallsExclude ==
  ASSUME MaxDepth = 1
  PROVE  Spec => []ApiExclusive
<1>1. IInv /\ InsideInv => ApiExclusive
  <2> SUFFICES ASSUME IInv, InsideInv, NEW t \in Threads, NEW u \in Threads,
                      Inside(t), Inside(u), threadContext[t] = threadContext[u]
               PROVE  t = u
    BY DEF ApiExclusive
  <2>1. context[t] = context[u] /\ context[t] \in Keys
    BY DEF IInv, TypeOK, InsideInv
  <2>2. QED
    BY <2>1 DEF InsideInv
<1>2. QED
  BY <1>1, InsideInvariance, PTL

\* Then the unlocked test of the priority stream is safe: no context gets a
\* second stream, which would leave the first one behind with work queued.
THEOREM StreamsAreUnique ==
  ASSUME MaxDepth = 1
  PROVE  Spec => []OneStream
BY InsideInvariance, PTL DEF StreamInv

\* And no context stays locked behind a call that returned: lock_thread only
\* ever names a thread in a call on the entry's context.
THEOREM OwnersAreInside ==
  ASSUME MaxDepth = 1
  PROVE  Spec => []OwnerIsInside
<1>1. InsideInv /\ OwnerInv => OwnerIsInside
  BY DEF InsideInv, OwnerInv, OwnerIsInside
<1>2. QED
  BY <1>1, InsideInvariance, PTL

------------------------------------------------------------------------------
(* The lock implements ContextCalls.                                       *)

InCall(t) == IF Inside(t) THEN {threadContext[t]} ELSE {}

\* The step that saves the context enters the call of the abstract specification.
LEMMA EntersCall ==
  ASSUME IInv, ApiExclusive', NEW t \in Threads,
         pc[t] \in {"checkOwner", "own"}, pc' = [pc EXCEPT ![t] = "api"],
         threadContext' = [threadContext EXCEPT ![t] = context[t]],
         purpose' = purpose
  PROVE  Calls!Next
<1>1. ~Inside(t) /\ Inside(t)' /\ threadContext'[t] = context[t] /\ context[t] \in Keys
  BY DEF IInv, TypeOK, PurposeInv, Inside
<1>2. \A u \in Threads : u # t =>
        (Inside(u)' <=> Inside(u)) /\ threadContext'[u] = threadContext[u]
  BY DEF IInv, TypeOK, Inside
<1>3. [u \in Threads |-> InCall(u)'] = [[u \in Threads |-> InCall(u)] EXCEPT ![t] = {context[t]}]
  BY <1>1, <1>2 DEF InCall
<1>4. \A u \in Threads : context[t] \notin InCall(u)
  <2> SUFFICES ASSUME NEW u \in Threads, context[t] \in InCall(u) PROVE FALSE
    OBVIOUS
  <2>1. Inside(u) /\ threadContext[u] = context[t]
    BY DEF InCall
  <2>2. u # t
    BY <1>1, <2>1
  <2>3. QED
    BY <1>1, <1>2, <2>1, <2>2 DEF ApiExclusive
<1>5. InCall(t) = {}
  BY <1>1 DEF InCall
<1>6. PICK c \in Keys : c = context[t]
  BY <1>1
<1>7. Calls!Enter(t, c)
  BY <1>3, <1>4, <1>5, <1>6 DEF Calls!Enter, InCall
<1>8. QED
  BY <1>7 DEF Calls!Next

\* The lookup of the EXIT callback leaves it.
LEMMA LeavesCall ==
  ASSUME NEW t \in Threads, Inside(t), ~Inside(t)',
         \A u \in Threads : u # t => InCall(u)' = InCall(u)
  PROVE  Calls!Next
<1>1. [u \in Threads |-> InCall(u)'] = [[u \in Threads |-> InCall(u)] EXCEPT ![t] = {}]
  BY DEF InCall
<1>2. InCall(t) # {}
  BY DEF InCall
<1>3. Calls!Exit(t)
  BY <1>1, <1>2 DEF Calls!Exit, InCall
<1>4. QED
  BY <1>3 DEF Calls!Next

\* Every step of the lock is a step of the exclusive calls, or a stutter.
LEMMA StepImplements ==
  ASSUME MaxDepth = 1, IInv, InsideInv, ApiExclusive', [Next]_vars
  PROVE  Calls!Next \/ [t \in Threads |-> InCall(t)'] = [t \in Threads |-> InCall(t)]
<1> DEFINE Same(u) == (Inside(u)' <=> Inside(u)) /\ threadContext'[u] = threadContext[u]
<1> USE DEF IInv, TypeOK, PurposeInv, Goto, Inside
<1>1. ASSUME \A u \in Threads : Same(u)
      PROVE  [t \in Threads |-> InCall(t)'] = [t \in Threads |-> InCall(t)]
  BY <1>1 DEF InCall
<1>2. ASSUME NEW t \in Threads, ~Inside(t)', \A u \in Threads : u # t => Same(u)
      PROVE  Calls!Next \/ [u \in Threads |-> InCall(u)'] = [u \in Threads |-> InCall(u)]
  <2>1. \A u \in Threads : u # t => InCall(u)' = InCall(u)
    BY <1>2 DEF InCall
  <2>2. CASE Inside(t)
    BY <1>2, <2>1, <2>2, LeavesCall
  <2>3. CASE ~Inside(t)
    <3>1. InCall(t)' = InCall(t)
      BY <1>2, <2>3 DEF InCall
    <3>2. QED
      BY <2>1, <3>1
  <2>4. QED
    BY <2>2, <2>3
<1>3. ASSUME NEW t \in Threads, NEW c \in Keys, ApiEnter(t, c)
      PROVE  ~Inside(t)' /\ \A u \in Threads : u # t => Same(u)
  BY <1>3 DEF ApiEnter, Lookup
<1>4. ASSUME NEW t \in Threads, ApiExit(t)
      PROVE  ~Inside(t)' /\ \A u \in Threads : u # t => Same(u)
  BY <1>4 DEF ApiExit, Lookup
<1>5. ASSUME NEW t \in Threads, LaunchBegin(t) PROVE \A u \in Threads : Same(u)
  BY <1>5 DEF LaunchBegin, Lookup
<1>6. ASSUME NEW t \in Threads, AlreadyOwner(t) PROVE Calls!Next
  BY <1>6, EntersCall DEF AlreadyOwner, Entered
<1>7. ASSUME NEW t \in Threads, Own(t) PROVE Calls!Next
  BY <1>7, EntersCall DEF Own, Entered
<1>8. ASSUME NEW t \in Threads, Leave(t)
      PROVE  ~Inside(t)' /\ \A u \in Threads : u # t => Same(u)
  BY <1>8 DEF Leave, InsideInv
<1>9. ASSUME NEW t \in Threads, MapLock(t) \/ Find(t) \/ FindNothing(t) \/ Insert(t) \/ MapUnlock(t)
      PROVE \A u \in Threads : Same(u)
  <2>1. CASE MapLock(t)
    BY <2>1 DEF MapLock, threadVars
  <2>2. CASE Find(t)
    BY <2>2 DEF Find
  <2>3. CASE FindNothing(t)
    BY <2>3 DEF FindNothing, threadVars
  <2>4. CASE Insert(t)
    BY <2>4 DEF Insert
  <2>5. CASE MapUnlock(t)
    BY <2>5 DEF MapUnlock, threadVars
  <2>6. QED
    BY <1>9, <2>1, <2>2, <2>3, <2>4, <2>5
<1>10. ASSUME NEW t \in Threads,
              NotOwner(t) \/ Acquire(t) \/ Disown(t) \/ NothingToRelease(t) \/ Unlock(t)
       PROVE  \A u \in Threads : Same(u)
  <2>1. CASE NotOwner(t)
    BY <2>1 DEF NotOwner, threadVars
  <2>2. CASE Acquire(t)
    BY <2>2 DEF Acquire, threadVars
  <2>3. CASE Disown(t)
    BY <2>3 DEF Disown, threadVars
  <2>4. CASE NothingToRelease(t)
    BY <2>4 DEF NothingToRelease, threadVars
  <2>5. CASE Unlock(t)
    BY <2>5 DEF Unlock, threadVars
  <2>6. QED
    BY <1>10, <2>1, <2>2, <2>3, <2>4, <2>5
<1>11. ASSUME NEW t \in Threads, HasStream(t) \/ NoStream(t) \/ CreateStream(t)
       PROVE  \A u \in Threads : Same(u)
  <2>1. CASE HasStream(t)
    BY <2>1 DEF HasStream, threadVars
  <2>2. CASE NoStream(t)
    BY <2>2 DEF NoStream
  <2>3. CASE CreateStream(t)
    BY <2>3 DEF CreateStream, threadVars
  <2>4. QED
    BY <1>11, <2>1, <2>2, <2>3
<1>12. CASE UNCHANGED vars
  <2>1. \A u \in Threads : Same(u)
    BY <1>12 DEF vars, threadVars
  <2>2. QED
    BY <1>1, <2>1
<1>13. QED
  <2> HIDE DEF Same, IInv, TypeOK, PurposeInv, Goto, Inside
  <2>1. ASSUME NEW t \in Threads, (\E c \in Keys : ApiEnter(t, c)) \/ ApiExit(t) \/ Leave(t)
        PROVE  Calls!Next \/ [u \in Threads |-> InCall(u)'] = [u \in Threads |-> InCall(u)]
    BY <1>2, <1>3, <1>4, <1>8, <2>1
  <2>2. ASSUME NEW t \in Threads, LaunchBegin(t) \/ Step(t), ~Leave(t), ~AlreadyOwner(t), ~Own(t)
        PROVE  [u \in Threads |-> InCall(u)'] = [u \in Threads |-> InCall(u)]
    <3>1. \A u \in Threads : Same(u)
      BY <1>5, <1>9, <1>10, <1>11, <2>2 DEF Step
    <3>2. QED
      BY <1>1, <3>1
  <2>3. QED
    BY <1>6, <1>7, <1>12, <2>1, <2>2 DEF Next, Step

\* The two spin locks, the unlocked reads of lock_thread and the callbacks
\* around them implement calls that exclude one another, whatever the number
\* of threads and contexts, when driver API callbacks do not nest.
THEOREM Implementation ==
  ASSUME MaxDepth = 1
  PROVE  Spec => ImplementsCalls
<1>1. Init => Calls!Init
  BY DEF Init, Calls!Init, Inside
<1>2. IInv /\ InsideInv /\ ApiExclusive' /\ [Next]_vars =>
        [Calls!Next]_[t \in Threads |-> IF Inside(t) THEN {threadContext[t]} ELSE {}]
  BY StepImplements DEF InCall
<1>3. Spec => [](IInv /\ InsideInv /\ StreamInv /\ OwnerInv)
  BY InsideInvariance
<1>4. Spec => []ApiExclusive
  BY CallsExclude
<1>5. QED
  BY <1>1, <1>2, <1>3, <1>4, PTL DEF Spec, ImplementsCalls, Calls!Spec

==============================================================================
