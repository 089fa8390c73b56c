------------------------ MODULE BufferChannelProofs --------------------------
(***************************************************************************)
(* What holds of the buffer channel for every pool size, every heap and    *)
(* every number of traces.                                                 *)
(***************************************************************************)
EXTENDS BufferChannel, FiniteSetTheorems, TLAPS

\* Pushing an item adds it to the stack's items, once.
LEMMA PushItems ==
  ASSUME NEW S, NEW s \in Seq(S), NEW x \in S
  PROVE  /\ Cons(x, s) \in Seq(S)
         /\ Cons(x, s) # <<>>
         /\ ToSet(Cons(x, s)) = ToSet(s) \union {x}
         /\ IsInjective(s) /\ x \notin ToSet(s) => IsInjective(Cons(x, s))
<1> DEFINE t == Cons(x, s)
<1>1. /\ t \in Seq(S) /\ Len(t) = Len(s) + 1 /\ t[1] = x
      /\ \A k \in 1..Len(s) : t[k + 1] = s[k]
      /\ \A k \in 2..Len(t) : t[k] = s[k - 1]
  BY DEF Cons
<1>2. DOMAIN t = 1..(Len(s) + 1) /\ DOMAIN s = 1..Len(s) /\ Len(s) \in Nat
  BY <1>1
<1>3. ToSet(t) = ToSet(s) \union {x}
  <2>1. ASSUME NEW k \in DOMAIN t PROVE t[k] \in ToSet(s) \union {x}
    <3>1. CASE k = 1
      BY <3>1, <1>1
    <3>2. CASE k # 1
      <4>1. k - 1 \in DOMAIN s /\ t[k] = s[k - 1]
        BY <3>2, <1>1, <1>2
      <4>2. QED
        BY <4>1 DEF ToSet
    <3>3. QED
      BY <3>1, <3>2
  <2>2. ASSUME NEW k \in DOMAIN s PROVE s[k] \in ToSet(t)
    <3>1. k + 1 \in DOMAIN t /\ t[k + 1] = s[k]
      BY <1>1, <1>2
    <3>2. QED
      BY <3>1 DEF ToSet
  <2>3. x \in ToSet(t)
    BY <1>1, <1>2 DEF ToSet
  <2>4. QED
    BY <2>1, <2>2, <2>3 DEF ToSet
<1>4. ASSUME IsInjective(s), x \notin ToSet(s),
             NEW a \in DOMAIN t, NEW b \in DOMAIN t, t[a] = t[b]
      PROVE  a = b
  <2>1. \A k \in DOMAIN s : s[k] # x
    BY <1>4 DEF ToSet
  <2>2. \A k \in 2..Len(t) : k - 1 \in DOMAIN s /\ t[k] = s[k - 1]
    BY <1>1, <1>2
  <2>3. CASE a = 1 \/ b = 1
    <3>1. \A k \in DOMAIN t : k # 1 => k \in 2..Len(t)
      BY <1>1, <1>2
    <3>2. \A k \in DOMAIN t : k # 1 => t[k] # x
      BY <2>1, <2>2, <3>1
    <3>3. QED
      BY <1>1, <1>4, <2>3, <3>2
  <2>4. CASE a # 1 /\ b # 1
    <3>1. a \in 2..Len(t) /\ b \in 2..Len(t)
      BY <1>1, <1>2, <2>4
    <3>2. s[a - 1] = s[b - 1] /\ a - 1 \in DOMAIN s /\ b - 1 \in DOMAIN s
      BY <1>4, <2>2, <3>1
    <3>3. a - 1 = b - 1
      BY <1>4, <3>2 DEF IsInjective
    <3>4. QED
      BY <3>1, <3>3
  <2>5. QED
    BY <2>3, <2>4
<1>5. QED
  BY <1>1, <1>3, <1>4 DEF IsInjective

\* Popping the top leaves a stack that holds the other items only.
LEMMA PopItems ==
  ASSUME NEW S, NEW s \in Seq(S), s # <<>>
  PROVE  /\ Head(s) \in S /\ Tail(s) \in Seq(S)
         /\ ToSet(s) = ToSet(Tail(s)) \union {Head(s)}
         /\ IsInjective(s) => IsInjective(Tail(s)) /\ Head(s) \notin ToSet(Tail(s))
<1> DEFINE t == Tail(s)
<1>1. /\ Head(s) \in S /\ t \in Seq(S) /\ Len(s) \in Nat \ {0}
      /\ DOMAIN s = 1..Len(s) /\ DOMAIN t = 1..(Len(s) - 1)
      /\ Head(s) = s[1] /\ \A k \in DOMAIN t : t[k] = s[k + 1]
  OBVIOUS
<1>2. ToSet(s) = ToSet(t) \union {Head(s)}
  <2>1. ASSUME NEW k \in DOMAIN s, k # 1 PROVE s[k] \in ToSet(t)
    <3>1. k - 1 \in DOMAIN t /\ t[k - 1] = s[k]
      BY <1>1, <2>1
    <3>2. QED
      BY <3>1 DEF ToSet
  <2>2. ASSUME NEW k \in DOMAIN t PROVE t[k] \in ToSet(s)
    <3>1. k + 1 \in DOMAIN s /\ t[k] = s[k + 1]
      BY <1>1
    <3>2. QED
      BY <3>1 DEF ToSet
  <2>3. s[1] \in ToSet(s)
    BY <1>1 DEF ToSet
  <2>4. QED
    BY <1>1, <2>1, <2>2, <2>3 DEF ToSet
<1>3. ASSUME IsInjective(s) PROVE IsInjective(t) /\ Head(s) \notin ToSet(t)
  <2>1. \A k \in DOMAIN t : k + 1 \in DOMAIN s /\ t[k] = s[k + 1]
    BY <1>1
  <2>2. IsInjective(t)
    BY <1>1, <1>3, <2>1 DEF IsInjective
  <2>3. \A k \in DOMAIN t : t[k] # s[1]
    BY <1>1, <1>3, <2>1 DEF IsInjective
  <2>4. QED
    BY <1>1, <2>2, <2>3 DEF ToSet
<1>4. QED
  BY <1>1, <1>2, <1>3

\* Reversing a stack changes neither its items nor their number.
LEMMA ReverseItems ==
  ASSUME NEW S, NEW s \in Seq(S)
  PROVE  /\ Reverse(s) \in Seq(S)
         /\ ToSet(Reverse(s)) = ToSet(s)
         /\ IsInjective(s) => IsInjective(Reverse(s))
<1> DEFINE t == Reverse(s)
<1>1. /\ t \in Seq(S) /\ Len(s) \in Nat
      /\ DOMAIN s = 1..Len(s) /\ DOMAIN t = 1..Len(s)
      /\ \A k \in 1..Len(s) : Len(s) - k + 1 \in 1..Len(s) /\ t[k] = s[Len(s) - k + 1]
  BY DEF Reverse
<1>2. ToSet(t) = ToSet(s)
  <2>1. ASSUME NEW k \in DOMAIN s PROVE s[k] \in ToSet(t)
    <3>1. Len(s) - k + 1 \in DOMAIN t /\ t[Len(s) - k + 1] = s[k]
      BY <1>1
    <3>2. QED
      BY <3>1 DEF ToSet
  <2>2. ASSUME NEW k \in DOMAIN t PROVE t[k] \in ToSet(s)
    BY <1>1 DEF ToSet
  <2>3. QED
    BY <2>1, <2>2 DEF ToSet
<1>3. ASSUME IsInjective(s) PROVE IsInjective(t)
  BY <1>1, <1>3 DEF IsInjective
<1>4. QED
  BY <1>1, <1>2, <1>3

\* The empty stack holds nothing.
LEMMA NoItems == ToSet(<<>>) = {} /\ IsInjective(<<>>)
BY DEF ToSet, IsInjective

------------------------------------------------------------------------------
(* Type correctness.                                                       *)

\* A stack of elements of S is a stack of elements of a larger set.
LEMMA SeqMonotonic ==
  ASSUME NEW S, NEW T, S \subseteq T
  PROVE  Seq(S) \subseteq Seq(T)
OBVIOUS

\* malloc returns an item that was not allocated before.
LEMMA FreshItemFact == heap \subseteq Items /\ heap # Items
                         => FreshItem \in Items /\ FreshItem \notin heap
BY DEF FreshItem

\* The channel starts well typed.
LEMMA TypeOKInit == Init => TypeOK
BY DEF Init, TypeOK, Locations, Holding

\* Every step of the channel keeps it well typed.
LEMMA TypeOKNext == TypeOK /\ [Next]_vars => TypeOK'
<1> SUFFICES ASSUME TypeOK, [Next]_vars PROVE TypeOK'
  OBVIOUS
<1> USE DEF TypeOK, Locations, Holding, vars, forwardVars, backwardVars, poolVars,
            traceVars
<1>1. CASE Launch
  BY <1>1 DEF Launch
<1>2. CASE Drain
  BY <1>2 DEF Drain
<1>3. CASE KernelDone
  BY <1>3 DEF KernelDone
<1>4. CASE AllocReuse
  BY <1>4, PopItems DEF AllocReuse, Obtain
<1>5. CASE AllocSteal
  BY <1>5, PopItems DEF AllocSteal, Obtain
<1>6. CASE AllocFresh
  BY <1>6, FreshItemFact, SeqMonotonic DEF AllocFresh, Obtain
<1>7. CASE AccountReuse
  BY <1>7 DEF AccountReuse
<1>8. CASE AccountNewBuffer
  BY <1>8 DEF AccountNewBuffer
<1>9. CASE AccountExhausted
  BY <1>9 DEF AccountExhausted
<1>10. CASE CopyTrace
  BY <1>10 DEF CopyTrace
<1>11. CASE PushForward
  <2>1. item \in heap /\ Cons(item, fwdProduced) \in Seq(heap)
    BY <1>11, PushItems DEF PushForward
  <2>2. QED
    BY <1>11, <2>1 DEF PushForward
<1>12. CASE StealForward
  <2>1. CASE fwdProduced = <<>>
    BY <1>12, <2>1 DEF StealForward
  <2>2. CASE fwdProduced # <<>>
    BY <1>12, <2>2 DEF StealForward
  <2>3. QED
    BY <2>1, <2>2
<1>13. CASE ReverseForward
  BY <1>13, ReverseItems DEF ReverseForward
<1>14. CASE PopAndAnalyze
  BY <1>14, PopItems DEF PopAndAnalyze
<1>15. CASE FreeItem
  BY <1>15, PushItems DEF FreeItem
<1>16. CASE RestoreBalance
  BY <1>16 DEF RestoreBalance
<1>17. CASE ConsumeReturn
  BY <1>17 DEF ConsumeReturn
<1>18. CASE UNCHANGED vars
  BY <1>18
<1>19. QED
  BY <1>1, <1>2, <1>3, <1>4, <1>5, <1>6, <1>7, <1>8, <1>9, <1>10, <1>11,
     <1>12, <1>13, <1>14, <1>15, <1>16, <1>17, <1>18
     DEF Next, Work, Alloc, Account, Consume

\* The channel's variables keep their types.
THEOREM TypeCorrect == Spec => []TypeOK
<1>1. QED
  BY TypeOKInit, TypeOKNext, PTL DEF Spec

------------------------------------------------------------------------------
(* Where the attempt stands and which stacks are empty.                    *)

\* Every step preserves RetryInv.
LEMMA RetryInvNext == TypeOK /\ RetryInv /\ [Next]_vars => RetryInv'
<1> SUFFICES ASSUME TypeOK, RetryInv, [Next]_vars PROVE RetryInv'
  OBVIOUS
<1> USE DEF TypeOK, RetryInv, Locations, Filling, vars, forwardVars, backwardVars,
            poolVars, traceVars
<1>1. CASE Launch \/ Drain \/ KernelDone
  BY <1>1 DEF Launch, Drain, KernelDone
<1>2. CASE Alloc
  BY <1>2 DEF Alloc, AllocReuse, AllocSteal, AllocFresh, Obtain
<1>3. CASE AccountReuse \/ AccountNewBuffer
  BY <1>3 DEF AccountReuse, AccountNewBuffer
<1>4. CASE AccountExhausted
  BY <1>4 DEF AccountExhausted
<1>5. CASE CopyTrace \/ PushForward
  BY <1>5 DEF CopyTrace, PushForward
<1>6. CASE StealForward
  BY <1>6 DEF StealForward
<1>7. CASE ReverseForward \/ PopAndAnalyze \/ FreeItem \/ RestoreBalance
  BY <1>7 DEF ReverseForward, PopAndAnalyze, FreeItem, RestoreBalance
<1>8. CASE ConsumeReturn
  BY <1>8 DEF ConsumeReturn
<1>9. CASE UNCHANGED vars
  BY <1>9
<1>10. QED
  BY <1>1, <1>2, <1>3, <1>4, <1>5, <1>6, <1>7, <1>8, <1>9
     DEF Next, Work, Account, Consume

------------------------------------------------------------------------------
(* Each item is in one place, and no item with a buffer is lost.           *)

\* Every step preserves PlacesInv and BuffersInv, which need each other.
LEMMA PlacesNext ==
  TypeOK /\ RetryInv /\ PlacesInv /\ BuffersInv /\ [Next]_vars
    => PlacesInv' /\ BuffersInv'
<1> SUFFICES ASSUME TypeOK, RetryInv, PlacesInv, BuffersInv, [Next]_vars
             PROVE  PlacesInv' /\ BuffersInv'
  OBVIOUS
<1>a. NoItem \notin heap
  BY ConstantsAssumption DEF TypeOK
<1>b. ToSet(fwdProduced) \subseteq heap /\ ToSet(fwdToConsume) \subseteq heap
      /\ ToSet(bwdProduced) \subseteq heap /\ ToSet(bwdToConsume) \subseteq heap
  BY DEF TypeOK, ToSet
<1> USE <1>a, <1>b, NoItems
        DEF PlacesInv, BuffersInv, Queued, Free, Holding, vars, forwardVars,
            backwardVars, poolVars, traceVars
<1>1. CASE Launch \/ Drain \/ KernelDone
  BY <1>1 DEF Launch, Drain, KernelDone, TypeOK
<1>2. CASE AllocReuse
  <2>1. /\ ToSet(bwdToConsume) = ToSet(Tail(bwdToConsume)) \union {Head(bwdToConsume)}
        /\ IsInjective(Tail(bwdToConsume))
        /\ Head(bwdToConsume) \notin ToSet(Tail(bwdToConsume))
    BY <1>2, PopItems DEF AllocReuse, TypeOK
  <2>2. QED
    BY <1>2, <2>1 DEF AllocReuse, Obtain, TypeOK
<1>3. CASE AllocSteal
  <2>1. /\ ToSet(bwdProduced) = ToSet(Tail(bwdProduced)) \union {Head(bwdProduced)}
        /\ IsInjective(Tail(bwdProduced))
        /\ Head(bwdProduced) \notin ToSet(Tail(bwdProduced))
    BY <1>3, PopItems DEF AllocSteal, TypeOK
  <2>2. QED
    BY <1>3, <2>1 DEF AllocSteal, Obtain, TypeOK
<1>4. CASE AllocFresh
  BY <1>4, FreshItemFact DEF AllocFresh, Obtain, TypeOK
<1>5. CASE AccountReuse
  BY <1>5 DEF AccountReuse, TypeOK
<1>6. CASE AccountNewBuffer
  BY <1>6 DEF AccountNewBuffer, TypeOK
<1>7. CASE AccountExhausted
  BY <1>7 DEF AccountExhausted, TypeOK
<1>8. CASE CopyTrace
  BY <1>8 DEF CopyTrace, TypeOK
<1>9. CASE PushForward
  <2>1. item \in heap
    BY <1>9 DEF PushForward, TypeOK
  <2>2. /\ ToSet(Cons(item, fwdProduced)) = ToSet(fwdProduced) \union {item}
        /\ IsInjective(Cons(item, fwdProduced))
    BY <2>1, PushItems DEF TypeOK
  <2>3. QED
    BY <1>9, <2>1, <2>2 DEF PushForward
<1>10. CASE StealForward
  <2>1. fwdToConsume = <<>>
    BY <1>10 DEF StealForward, RetryInv
  <2>2. QED
    BY <1>10, <2>1 DEF StealForward, TypeOK
<1>11. CASE ReverseForward
  <2>1. /\ ToSet(Reverse(fwdToConsume)) = ToSet(fwdToConsume)
        /\ IsInjective(Reverse(fwdToConsume))
    BY ReverseItems DEF TypeOK
  <2>2. QED
    BY <1>11, <2>1 DEF ReverseForward, TypeOK
<1>12. CASE PopAndAnalyze
  <2>1. /\ ToSet(fwdToConsume) = ToSet(Tail(fwdToConsume)) \union {Head(fwdToConsume)}
        /\ IsInjective(Tail(fwdToConsume))
        /\ Head(fwdToConsume) \notin ToSet(Tail(fwdToConsume))
    BY <1>12, PopItems DEF PopAndAnalyze, TypeOK
  <2>2. QED
    BY <1>12, <2>1 DEF PopAndAnalyze, TypeOK
<1>13. CASE FreeItem
  <2>1. item \in heap
    BY <1>13 DEF FreeItem, TypeOK
  <2>2. /\ ToSet(Cons(item, bwdProduced)) = ToSet(bwdProduced) \union {item}
        /\ IsInjective(Cons(item, bwdProduced))
    BY <2>1, PushItems DEF TypeOK
  <2>3. QED
    BY <1>13, <2>1, <2>2 DEF FreeItem
<1>14. CASE RestoreBalance \/ ConsumeReturn
  BY <1>14 DEF RestoreBalance, ConsumeReturn, TypeOK
<1>15. CASE UNCHANGED vars
  BY <1>15
<1>16. QED
  BY <1>1, <1>2, <1>3, <1>4, <1>5, <1>6, <1>7, <1>8, <1>9, <1>10, <1>11,
     <1>12, <1>13, <1>14, <1>15
     DEF Next, Work, Alloc, Account, Consume

------------------------------------------------------------------------------
(* The balance against the buffers that are out.                           *)

\* Every step preserves BalanceInv.
LEMMA BalanceNext ==
  TypeOK /\ PlacesInv /\ BuffersInv /\ BalanceInv /\ [Next]_vars => BalanceInv'
<1> SUFFICES ASSUME TypeOK, PlacesInv, BuffersInv, BalanceInv, [Next]_vars
             PROVE  BalanceInv'
  OBVIOUS
<1>a. /\ balance \in Int /\ PoolSize \in Nat /\ IsFiniteSet(hasBuffer)
      /\ Cardinality(hasBuffer) \in Nat /\ Cardinality(hasBuffer) < PoolSize
  BY ConstantsAssumption, FS_CardinalityType DEF TypeOK, BalanceInv
<1>b. /\ IsFiniteSet(Out) /\ Cardinality(Out) \in Nat
      /\ IsFiniteSet(Out \ {item})
  BY <1>a, FS_Subset, FS_CardinalityType DEF Out
<1>c. item \in Out => Cardinality(Out \ {item}) = Cardinality(Out) - 1
  BY <1>b, FS_RemoveElement
<1>d. item \notin Out => Out \ {item} = Out
  OBVIOUS
<1>e. item \notin Free
  BY DEF PlacesInv
<1> USE DEF BalanceInv, vars, forwardVars, backwardVars, poolVars, traceVars
<1>1. CASE Launch \/ Drain \/ KernelDone \/ CopyTrace \/ PushForward
           \/ StealForward \/ ReverseForward \/ PopAndAnalyze \/ ConsumeReturn
  <2>1. UNCHANGED <<hasBuffer, bwdProduced, bwdToConsume, balance>>
        /\ pc \notin {"account", "restore"} /\ pc' \notin {"account", "restore"}
    BY <1>1 DEF Launch, Drain, KernelDone, CopyTrace, PushForward, StealForward,
                ReverseForward, PopAndAnalyze, ConsumeReturn
  <2>2. Out' = Out
    BY <2>1 DEF Out, Free
  <2>3. QED
    BY <2>1, <2>2
<1>2. CASE AllocReuse \/ AllocSteal
  <2>1. /\ item' \in Free /\ Free' = Free \ {item'}
    <3>1. CASE AllocReuse
      <4>1. /\ ToSet(bwdToConsume) = ToSet(Tail(bwdToConsume)) \union {Head(bwdToConsume)}
            /\ Head(bwdToConsume) \notin ToSet(Tail(bwdToConsume))
        BY <3>1, PopItems DEF AllocReuse, TypeOK, PlacesInv
      <4>2. QED
        BY <3>1, <4>1 DEF AllocReuse, Obtain, PlacesInv, Free
    <3>2. CASE AllocSteal
      <4>1. /\ ToSet(bwdProduced) = ToSet(Tail(bwdProduced)) \union {Head(bwdProduced)}
            /\ Head(bwdProduced) \notin ToSet(Tail(bwdProduced))
        BY <3>2, PopItems DEF AllocSteal, TypeOK, PlacesInv
      <4>2. QED
        BY <3>2, <4>1, NoItems DEF AllocSteal, Obtain, PlacesInv, Free
    <3>3. QED
      BY <1>2, <3>1, <3>2
  <2>2. /\ pc = "alloc" /\ pc' = "account" /\ UNCHANGED <<hasBuffer, balance>>
    BY <1>2 DEF AllocReuse, AllocSteal, Obtain
  <2>3. Out' \ {item'} = Out
    BY <2>1, <2>2 DEF Out
  <2>4. QED
    BY <2>2, <2>3
<1>3. CASE AllocFresh
  <2>1. /\ item' \notin hasBuffer /\ pc = "alloc" /\ pc' = "account"
        /\ UNCHANGED <<hasBuffer, bwdProduced, bwdToConsume, balance>>
    BY <1>3, FreshItemFact DEF AllocFresh, Obtain, TypeOK
  <2>2. Out' \ {item'} = Out
    BY <2>1 DEF Out, Free
  <2>3. QED
    BY <2>1, <2>2
<1>4. CASE AccountReuse
  <2>1. /\ item \in Out /\ Out' = Out /\ balance' = balance + 1
        /\ pc = "account" /\ pc' = "copy" /\ UNCHANGED hasBuffer
    BY <1>4, <1>e DEF AccountReuse, Out, Free
  <2>2. QED
    BY <1>a, <1>b, <1>c, <2>1
<1>5. CASE AccountNewBuffer
  <2>1. /\ item \notin hasBuffer /\ Free = {} /\ Free' = {} /\ balance' = balance + 1
        /\ hasBuffer' = hasBuffer \union {item} /\ balance + 1 < PoolSize
        /\ pc = "account" /\ pc' = "copy"
    BY <1>5, <1>a DEF AccountNewBuffer, BuffersInv, PoolFull, Free
  <2>2. Out = hasBuffer /\ Out' = hasBuffer' /\ Out \ {item} = hasBuffer
    BY <2>1 DEF Out
  <2>3. /\ IsFiniteSet(hasBuffer')
        /\ Cardinality(hasBuffer') = Cardinality(hasBuffer) + 1
    BY <1>a, <2>1, FS_AddElement
  <2>4. QED
    BY <1>a, <2>1, <2>2, <2>3
<1>6. CASE AccountExhausted
  <2>1. /\ item \notin Out /\ Out' = Out /\ balance' = balance + 1
        /\ pc = "account" /\ pc' \in {"steal", "fault"} /\ UNCHANGED hasBuffer
    BY <1>6 DEF AccountExhausted, Out, Free
  <2>2. QED
    BY <1>a, <1>b, <1>d, <2>1
<1>7. CASE FreeItem
  <2>1. /\ item \in hasBuffer /\ item \in heap /\ bwdProduced' = Cons(item, bwdProduced)
        /\ pc = "free" /\ pc' = "restore"
        /\ UNCHANGED <<hasBuffer, bwdToConsume, balance>>
    BY <1>7 DEF FreeItem, BuffersInv, TypeOK
  <2>2. Free' = Free \union {item}
    <3>1. item \in heap /\ bwdProduced \in Seq(heap)
      BY <2>1 DEF TypeOK
    <3>2. ToSet(Cons(item, bwdProduced)) = ToSet(bwdProduced) \union {item}
      BY <3>1, PushItems
    <3>3. QED
      BY <2>1, <3>2 DEF Free
  <2>3. item \in Out /\ Out' = Out \ {item}
    BY <1>e, <2>1, <2>2 DEF Out
  <2>4. QED
    BY <1>a, <1>b, <1>c, <2>1, <2>3
<1>8. CASE RestoreBalance
  <2>1. /\ Out' = Out /\ balance' = balance - 1 /\ pc = "restore" /\ pc' = "pop"
        /\ UNCHANGED hasBuffer
    BY <1>8 DEF RestoreBalance, Out, Free
  <2>2. QED
    BY <1>a, <1>b, <2>1
<1>9. CASE UNCHANGED vars
  BY <1>9 DEF Out, Free
<1>10. QED
  BY <1>1, <1>2, <1>3, <1>4, <1>5, <1>6, <1>7, <1>8, <1>9
     DEF Next, Work, Alloc, Account, Consume

------------------------------------------------------------------------------
(* The retry of an exhausted pool finds a buffer to recycle.               *)

\* Every step preserves RecycleInv when the pool holds a buffer at all.
LEMMA RecycleNext ==
  ASSUME PoolSize > 1
  PROVE  TypeOK /\ RetryInv /\ PlacesInv /\ BuffersInv /\ BalanceInv /\ RecycleInv
           /\ [Next]_vars => RecycleInv'
<1> SUFFICES ASSUME TypeOK, RetryInv, PlacesInv, BuffersInv, BalanceInv, RecycleInv,
                    [Next]_vars
             PROVE  RecycleInv'
  OBVIOUS
<1>a. PoolSize \in Nat /\ balance \in Int
  BY ConstantsAssumption DEF TypeOK
<1> USE DEF RecycleInv, vars, forwardVars, backwardVars, poolVars, traceVars
<1>1. CASE Launch \/ Drain \/ KernelDone \/ CopyTrace \/ PushForward
           \/ StealForward \/ ReverseForward \/ PopAndAnalyze \/ FreeItem
           \/ ConsumeReturn
  BY <1>1 DEF Launch, Drain, KernelDone, CopyTrace, PushForward, StealForward,
              ReverseForward, PopAndAnalyze, FreeItem, ConsumeReturn
<1>2. CASE AllocReuse \/ AllocSteal
  <2>1. item' \in Free
    BY <1>2, PopItems DEF AllocReuse, AllocSteal, Obtain, Free, TypeOK
  <2>2. QED
    BY <1>2, <2>1 DEF AllocReuse, AllocSteal, Obtain, BuffersInv
<1>3. CASE AllocFresh
  <2>1. ASSUME attempt = 2 PROVE FALSE
    <3>1. /\ fwdProduced = <<>> /\ fwdToConsume = <<>>
          /\ bwdProduced = <<>> /\ bwdToConsume = <<>>
      BY <1>3, <2>1 DEF AllocFresh, RetryInv
    <3>2. item \notin hasBuffer
      BY <1>3, ConstantsAssumption DEF AllocFresh, TypeOK, Holding
    <3>3. QED
      BY <2>1, <3>1, <3>2, NoItems DEF BuffersInv, Queued, Free
  <2>2. QED
    BY <1>3, <2>1 DEF AllocFresh, Obtain
<1>4. CASE AccountReuse \/ AccountNewBuffer
  BY <1>4 DEF AccountReuse, AccountNewBuffer
<1>5. CASE AccountExhausted
  <2>1. attempt = 1 /\ balance + 1 >= PoolSize
    BY <1>5 DEF AccountExhausted, PoolFull, RetryInv, Filling
  <2>2. hasBuffer # {}
    BY <1>a, <2>1
  <2>3. QED
    BY <1>5, <2>1, <2>2 DEF AccountExhausted
<1>6. CASE RestoreBalance
  <2>1. Cardinality(Out) + 1 <= balance /\ Cardinality(Out) \in Nat
    BY <1>6, FS_Subset, FS_CardinalityType DEF RestoreBalance, BalanceInv, Out
  <2>2. hasBuffer # {}
    BY <1>a, <2>1
  <2>3. QED
    BY <1>6, <2>2 DEF RestoreBalance
<1>7. CASE UNCHANGED vars
  BY <1>7
<1>8. QED
  BY <1>1, <1>2, <1>3, <1>4, <1>5, <1>6, <1>7
     DEF Next, Work, Alloc, Account, Consume

------------------------------------------------------------------------------
(* The balance counts the items that are on their way or lost.             *)

\* A stack without repetitions is as long as it has items.
LEMMA StackCount ==
  ASSUME NEW S, NEW s \in Seq(S), IsInjective(s)
  PROVE  /\ IsFiniteSet(ToSet(s))
         /\ Cardinality(ToSet(s)) = Len(s)
<1>1. Len(s) \in Nat /\ DOMAIN s = 1..Len(s) /\ s \in [1..Len(s) -> ToSet(s)]
  BY DEF ToSet
<1>2. s \in Bijection(1..Len(s), ToSet(s))
  BY <1>1 DEF Bijection, Injection, Surjection, IsInjective, ToSet
<1>3. ExistsBijection(1..Len(s), ToSet(s))
  BY <1>2 DEF ExistsBijection
<1>4. QED
  BY <1>1, <1>3, FS_NatBijection, FS_CountingElements

\* Two stacks without a common item are as long as they have items together.
LEMMA StacksCount ==
  ASSUME NEW S, NEW s \in Seq(S), NEW t \in Seq(S), IsInjective(s), IsInjective(t),
         ToSet(s) \intersect ToSet(t) = {}
  PROVE  Cardinality(ToSet(s) \union ToSet(t)) = Len(s) + Len(t)
<1>1. /\ IsFiniteSet(ToSet(s)) /\ IsFiniteSet(ToSet(t))
      /\ Cardinality(ToSet(s)) = Len(s) /\ Cardinality(ToSet(t)) = Len(t)
  BY StackCount
<1>2. Cardinality(ToSet(s) \intersect ToSet(t)) = 0
  BY FS_EmptySet
<1>3. Cardinality(ToSet(s) \union ToSet(t)) = Len(s) + Len(t) - 0
  BY <1>1, <1>2, FS_Union
<1>4. QED
  BY <1>3

\* Every step preserves CountInv.
LEMMA CountNext ==
  TypeOK /\ RetryInv /\ PlacesInv /\ CountInv /\ [Next]_vars => CountInv'
<1> SUFFICES ASSUME TypeOK, RetryInv, PlacesInv, CountInv, [Next]_vars
             PROVE  CountInv'
  OBVIOUS
<1> DEFINE Underway == IF pc \in {"copy", "push", "free", "restore"} THEN 1 ELSE 0
<1>a. NoItem \notin heap
  BY ConstantsAssumption DEF TypeOK
<1>b. /\ ToSet(fwdProduced) \subseteq heap /\ ToSet(fwdToConsume) \subseteq heap
      /\ ToSet(bwdProduced) \subseteq heap /\ ToSet(bwdToConsume) \subseteq heap
  BY DEF TypeOK, ToSet
<1>c. /\ Queued \subseteq heap /\ Free \subseteq heap /\ Lost \subseteq heap
      /\ item \notin Queued /\ item \notin Free /\ item \notin Lost
      /\ Queued \intersect Free = {}
  BY <1>b DEF Queued, Free, Lost, PlacesInv
<1>d. /\ IsFiniteSet(heap) /\ IsFiniteSet(Queued) /\ IsFiniteSet(Lost)
      /\ Cardinality(Queued) \in Nat /\ Cardinality(Lost) \in Nat /\ balance \in Int
      /\ balance = Cardinality(Queued) + Cardinality(Lost) + Underway
  BY <1>c, FS_Subset, FS_CardinalityType DEF CountInv, BalanceCountsItems, TypeOK
<1>e. /\ Cardinality(Queued \union {item}) = Cardinality(Queued) + 1
      /\ Cardinality(Lost \union {item}) = Cardinality(Lost) + 1
  BY <1>c, <1>d, FS_AddElement
<1> HIDE DEF Underway
<1>f. ASSUME Queued' = Queued, Lost' = Lost, heap' = heap,
             balance' - Underway' = balance - Underway, balance' \in Int
      PROVE  CountInv'
  <2>1. Underway \in Int /\ Underway' \in Int
    BY DEF Underway
  <2>2. balance' = Cardinality(Queued') + Cardinality(Lost') + Underway'
    BY <1>d, <1>f, <2>1
  <2>3. QED
    BY <1>d, <1>f, <2>2 DEF CountInv, BalanceCountsItems, Underway
<1> USE DEF vars, forwardVars, backwardVars, poolVars, traceVars
<1>1. CASE Launch \/ Drain \/ KernelDone \/ CopyTrace \/ ConsumeReturn
           \/ AccountReuse \/ AccountNewBuffer \/ RestoreBalance
  <2>a. UNCHANGED <<item, heap, forwardVars, backwardVars>>
    BY <1>1 DEF Launch, Drain, KernelDone, CopyTrace, ConsumeReturn, AccountReuse,
         AccountNewBuffer, RestoreBalance
  <2>b. \/ balance' = balance /\ Underway' = Underway
        \/ balance' = balance + 1 /\ Underway = 0 /\ Underway' = 1
        \/ balance' = balance - 1 /\ Underway = 1 /\ Underway' = 0
    <3>1. CASE Launch \/ Drain \/ KernelDone
      BY <3>1 DEF Launch, Drain, KernelDone, Underway
    <3>2. CASE CopyTrace \/ ConsumeReturn
      BY <3>2 DEF CopyTrace, ConsumeReturn, Underway
    <3>3. CASE AccountReuse \/ AccountNewBuffer
      BY <3>3 DEF AccountReuse, AccountNewBuffer, Underway
    <3>4. CASE RestoreBalance
      BY <3>4 DEF RestoreBalance, Underway
    <3>5. QED
      BY <1>1, <3>1, <3>2, <3>3, <3>4
  <2>1. /\ UNCHANGED <<item, heap, forwardVars, backwardVars>>
        /\ balance' - Underway' = balance - Underway /\ balance' \in Int
    BY <1>d, <2>a, <2>b DEF Underway
  <2>2. Queued' = Queued /\ Lost' = Lost
    BY <2>1 DEF Queued, Free, Lost
  <2>3. QED
    BY <1>f, <2>1, <2>2
<1>2. CASE AllocReuse \/ AllocSteal
  <2>1. item' \in Free /\ Free' = Free \ {item'}
    <3>1. CASE AllocReuse
      <4>1. /\ ToSet(bwdToConsume) = ToSet(Tail(bwdToConsume)) \union {Head(bwdToConsume)}
            /\ Head(bwdToConsume) \notin ToSet(Tail(bwdToConsume))
        BY <3>1, PopItems DEF AllocReuse, TypeOK, PlacesInv
      <4>2. QED
        BY <3>1, <4>1 DEF AllocReuse, Obtain, PlacesInv, Free
    <3>2. CASE AllocSteal
      <4>1. /\ ToSet(bwdProduced) = ToSet(Tail(bwdProduced)) \union {Head(bwdProduced)}
            /\ Head(bwdProduced) \notin ToSet(Tail(bwdProduced))
        BY <3>2, PopItems DEF AllocSteal, TypeOK, PlacesInv
      <4>2. QED
        BY <3>2, <4>1, NoItems DEF AllocSteal, Obtain, PlacesInv, Free
    <3>3. QED
      BY <1>2, <3>1, <3>2
  <2>2. /\ item = NoItem /\ UNCHANGED <<heap, balance, forwardVars>>
        /\ Underway' = Underway
    BY <1>2 DEF AllocReuse, AllocSteal, Obtain, TypeOK, Holding, Underway
  <2>3. Queued' = Queued /\ Lost' = Lost
    BY <1>a, <2>1, <2>2 DEF Queued, Lost
  <2>4. QED
    BY <1>d, <1>f, <2>2, <2>3
<1>3. CASE AllocFresh
  <2>1. /\ item = NoItem /\ item' \notin heap /\ heap' = heap \union {item'}
        /\ UNCHANGED <<balance, forwardVars, backwardVars>> /\ Underway' = Underway
    BY <1>3, FreshItemFact DEF AllocFresh, Obtain, TypeOK, Holding, Underway
  <2>2. Queued' = Queued /\ Free' = Free
    BY <2>1 DEF Queued, Free
  <2>3. Lost' = Lost
    BY <1>a, <1>c, <2>1, <2>2 DEF Lost
  <2>4. IsFiniteSet(heap')
    BY <1>d, <2>1, FS_AddElement
  <2>5. QED
    BY <1>d, <2>1, <2>2, <2>3, <2>4 DEF CountInv, BalanceCountsItems, Underway
<1>4. CASE AccountExhausted
  <2>1. /\ item \in heap /\ item' = NoItem /\ balance' = balance + 1
        /\ UNCHANGED <<heap, forwardVars, backwardVars>>
        /\ Underway = 0 /\ Underway' = 0
    BY <1>4 DEF AccountExhausted, TypeOK, Holding, Underway
  <2>2. Queued' = Queued /\ Free' = Free
    BY <2>1 DEF Queued, Free
  <2>3. Lost' = Lost \union {item}
    BY <1>a, <1>c, <2>1, <2>2 DEF Lost
  <2>4. balance' = Cardinality(Queued') + Cardinality(Lost') + Underway'
    BY <1>d, <1>e, <2>1, <2>2, <2>3
  <2>5. QED
    BY <1>d, <2>1, <2>4 DEF CountInv, BalanceCountsItems, Underway
<1>5. CASE PushForward
  <2>1. /\ item \in heap /\ item' = NoItem
        /\ fwdProduced' = Cons(item, fwdProduced)
        /\ UNCHANGED <<heap, balance, fwdToConsume, backwardVars>>
        /\ Underway = 1 /\ Underway' = 0
    BY <1>5 DEF PushForward, TypeOK, Holding, Underway
  <2>2. ToSet(Cons(item, fwdProduced)) = ToSet(fwdProduced) \union {item}
    <3>1. item \in heap /\ fwdProduced \in Seq(heap)
      BY <2>1 DEF TypeOK
    <3>2. QED
      BY <3>1, PushItems
  <2>3. Queued' = Queued \union {item} /\ Free' = Free
    BY <2>1, <2>2 DEF Queued, Free
  <2>4. Lost' = Lost
    BY <1>a, <1>c, <2>1, <2>3 DEF Lost
  <2>5. balance' = Cardinality(Queued') + Cardinality(Lost') + Underway'
    BY <1>d, <1>e, <2>1, <2>3, <2>4
  <2>6. QED
    BY <1>d, <2>1, <2>5 DEF CountInv, BalanceCountsItems, Underway
<1>6. CASE StealForward \/ ReverseForward
  <2>1. /\ UNCHANGED <<item, heap, balance, backwardVars>> /\ Underway' = Underway
    BY <1>6 DEF StealForward, ReverseForward, Underway
  <2>2. Queued' = Queued
    <3>1. CASE StealForward
      <4>1. fwdToConsume = <<>>
        BY <3>1 DEF StealForward, RetryInv
      <4>2. QED
        BY <3>1, <4>1, NoItems DEF StealForward, Queued
    <3>2. CASE ReverseForward
      <4>1. ToSet(Reverse(fwdToConsume)) = ToSet(fwdToConsume)
        BY ReverseItems DEF TypeOK
      <4>2. QED
        BY <3>2, <4>1 DEF ReverseForward, Queued
    <3>3. QED
      BY <1>6, <3>1, <3>2
  <2>3. Lost' = Lost
    BY <2>1, <2>2 DEF Lost, Free
  <2>4. QED
    BY <1>d, <1>f, <2>1, <2>2, <2>3
<1>7. CASE PopAndAnalyze
  <2>1. /\ item = NoItem /\ item' = Head(fwdToConsume)
        /\ fwdToConsume # <<>> /\ fwdToConsume' = Tail(fwdToConsume)
        /\ UNCHANGED <<heap, balance, fwdProduced, backwardVars>>
        /\ Underway = 0 /\ Underway' = 1
    BY <1>7 DEF PopAndAnalyze, TypeOK, Holding, Underway
  <2>2. /\ ToSet(fwdToConsume) = ToSet(Tail(fwdToConsume)) \union {Head(fwdToConsume)}
        /\ Head(fwdToConsume) \notin ToSet(Tail(fwdToConsume))
    BY <2>1, PopItems DEF TypeOK, PlacesInv
  <2>3. /\ Queued' = Queued \ {item'} /\ item' \in Queued /\ Free' = Free
    BY <2>1, <2>2 DEF Queued, Free, PlacesInv
  <2>4. Lost' = Lost
    BY <1>a, <1>c, <2>1, <2>3 DEF Lost
  <2>5. Cardinality(Queued') = Cardinality(Queued) - 1
    BY <1>d, <2>3, FS_RemoveElement
  <2>6. balance' = Cardinality(Queued') + Cardinality(Lost') + Underway'
    BY <1>d, <2>1, <2>4, <2>5
  <2>7. QED
    BY <1>d, <2>1, <2>6 DEF CountInv, BalanceCountsItems, Underway
<1>8. CASE FreeItem
  <2>1. /\ item \in heap /\ item' = NoItem
        /\ bwdProduced' = Cons(item, bwdProduced)
        /\ UNCHANGED <<heap, balance, forwardVars, bwdToConsume>>
        /\ Underway' = Underway
    BY <1>8 DEF FreeItem, TypeOK, Holding, Underway
  <2>2. ToSet(Cons(item, bwdProduced)) = ToSet(bwdProduced) \union {item}
    <3>1. item \in heap /\ bwdProduced \in Seq(heap)
      BY <2>1 DEF TypeOK
    <3>2. QED
      BY <3>1, PushItems
  <2>3. Queued' = Queued /\ Free' = Free \union {item}
    BY <2>1, <2>2 DEF Queued, Free
  <2>4. Lost' = Lost
    BY <1>a, <1>c, <2>1, <2>3 DEF Lost
  <2>5. QED
    BY <1>d, <1>f, <2>1, <2>3, <2>4
<1>9. CASE UNCHANGED vars
  BY <1>9 DEF CountInv, BalanceCountsItems, Queued, Lost, Free
<1>10. QED
  BY <1>1, <1>2, <1>3, <1>4, <1>5, <1>6, <1>7, <1>8, <1>9
     DEF Next, Work, Alloc, Account, Consume

------------------------------------------------------------------------------
(* Traces are pending, and delivered, in the order in which they were      *)
(* drained.                                                                *)

\* Reversing a stack puts its top last and its last element on top.
LEMMA ReverseOrder ==
  ASSUME NEW S, NEW s \in Seq(S), NEW x \in S
  PROVE  /\ Reverse(<<>>) = <<>>
         /\ s \o Reverse(<<>>) = s
         /\ <<>> \o Reverse(s) = Reverse(s)
         /\ Reverse(Cons(x, s)) = Append(Reverse(s), x)
<1>1. Reverse(s) \in Seq(S) /\ Len(Reverse(s)) = Len(s)
  BY DEF Reverse
<1>2. Reverse(<<>>) = <<>>
  BY DEF Reverse
<1>3. s \o <<>> = s /\ <<>> \o Reverse(s) = Reverse(s)
  BY <1>1
<1>4. Reverse(Cons(x, s)) = Append(Reverse(s), x)
  <2> DEFINE t == Cons(x, s)
             u == Append(Reverse(s), x)
  <2>1. /\ t \in Seq(S) /\ Len(t) = Len(s) + 1 /\ t[1] = x
        /\ \A k \in 2..Len(t) : t[k] = s[k - 1]
    BY DEF Cons
  <2>2. /\ u \in Seq(S) /\ Len(u) = Len(s) + 1 /\ u[Len(s) + 1] = x
        /\ \A k \in 1..Len(s) : u[k] = s[Len(s) - k + 1]
    BY <1>1 DEF Reverse
  <2>3. /\ Reverse(t) \in Seq(S) /\ Len(Reverse(t)) = Len(s) + 1
        /\ \A k \in 1..(Len(s) + 1) : Reverse(t)[k] = t[Len(s) + 1 - k + 1]
    BY <2>1 DEF Reverse
  <2>4. ASSUME NEW k \in 1..(Len(s) + 1) PROVE Reverse(t)[k] = u[k]
    <3>1. CASE k = Len(s) + 1
      BY <2>1, <2>2, <2>3, <3>1
    <3>2. CASE k # Len(s) + 1
      <4>1. k \in 1..Len(s) /\ Len(s) + 1 - k + 1 \in 2..Len(t)
        BY <2>1, <3>2
      <4>2. Reverse(t)[k] = s[Len(s) + 1 - k + 1 - 1]
        <5>1. Reverse(t)[k] = t[Len(s) + 1 - k + 1]
          BY <2>3
        <5>2. t[Len(s) + 1 - k + 1] = s[Len(s) + 1 - k + 1 - 1]
          BY <2>1, <4>1
        <5>3. QED
          BY <5>1, <5>2
      <4>3. Len(s) + 1 - k + 1 - 1 = Len(s) - k + 1
        BY <4>1
      <4>4. QED
        BY <2>2, <4>1, <4>2, <4>3
    <3>3. QED
      BY <3>1, <3>2
  <2> HIDE DEF t, u
  <2>5. Reverse(t) = u
    BY <2>2, <2>3, <2>4
  <2>6. QED
    BY <2>5 DEF t, u
<1>5. QED
  BY <1>2, <1>3, <1>4

\* What is pending is queued: consume's own stack once it is in FIFO order,
\* the other one before.
LEMMA PendingIs ==
  ASSUME TypeOK, RetryInv
  PROVE  /\ pc \in {"pop", "free", "restore"} => Pending = fwdToConsume
         /\ pc = "reverse" => Pending = Reverse(fwdToConsume)
         /\ pc \notin {"reverse", "pop", "free", "restore"} => Pending = Reverse(fwdProduced)
         /\ Pending \in Seq(heap)
         /\ ToSet(Pending) \subseteq Queued
<1>1. /\ fwdProduced \in Seq(heap) /\ fwdToConsume \in Seq(heap)
      /\ Reverse(fwdProduced) \in Seq(heap) /\ Reverse(fwdToConsume) \in Seq(heap)
      /\ ToSet(Reverse(fwdProduced)) = ToSet(fwdProduced)
      /\ ToSet(Reverse(fwdToConsume)) = ToSet(fwdToConsume)
  BY ReverseItems DEF TypeOK
<1>2. /\ fwdToConsume \o Reverse(<<>>) = fwdToConsume
      /\ Reverse(fwdToConsume) \o Reverse(<<>>) = Reverse(fwdToConsume)
      /\ <<>> \o Reverse(fwdProduced) = Reverse(fwdProduced)
  BY <1>1 DEF Reverse
<1>3. CASE pc \in {"pop", "free", "restore"}
  <2>1. Pending = fwdToConsume
    BY <1>2, <1>3 DEF Pending, RetryInv
  <2>2. QED
    BY <1>1, <1>3, <2>1 DEF Queued
<1>4. CASE pc = "reverse"
  <2>1. Pending = Reverse(fwdToConsume)
    BY <1>2, <1>4 DEF Pending, RetryInv
  <2>2. QED
    BY <1>1, <1>4, <2>1 DEF Queued
<1>5. CASE pc \notin {"reverse", "pop", "free", "restore"}
  <2>1. Pending = Reverse(fwdProduced)
    BY <1>2, <1>5 DEF Pending, RetryInv
  <2>2. QED
    BY <1>1, <1>5, <2>1 DEF Queued
<1>6. QED
  BY <1>3, <1>4, <1>5

\* Only pushing an item forward and popping one change what is pending.
LEMMA PendingNext ==
  ASSUME TypeOK, RetryInv, [Next]_vars
  PROVE  /\ PushForward => Pending' = Append(Pending, item)
         /\ PopAndAnalyze => /\ Pending # <<>> /\ Head(fwdToConsume) = Pending[1]
                             /\ Pending' = Tail(Pending)
         /\ ~PushForward /\ ~PopAndAnalyze => Pending' = Pending
<1>1. TypeOK' /\ RetryInv'
  BY TypeOKNext, RetryInvNext
<1>2. /\ fwdProduced \in Seq(heap) /\ fwdToConsume \in Seq(heap)
      /\ fwdProduced' \in Seq(heap') /\ fwdToConsume' \in Seq(heap')
  BY <1>1 DEF TypeOK
<1>3. /\ fwdToConsume' \o Reverse(<<>>) = fwdToConsume'
      /\ Reverse(fwdToConsume') \o Reverse(<<>>) = Reverse(fwdToConsume')
      /\ <<>> \o Reverse(fwdProduced') = Reverse(fwdProduced')
      /\ Reverse(<<>>) = <<>>
  BY <1>2 DEF Reverse
<1>4. /\ pc' \in {"pop", "free", "restore"} => Pending' = fwdToConsume'
      /\ pc' = "reverse" => Pending' = Reverse(fwdToConsume')
      /\ pc' \notin {"reverse", "pop", "free", "restore"} => Pending' = Reverse(fwdProduced')
  BY <1>1, <1>3 DEF Pending, RetryInv
<1>5. ASSUME PushForward PROVE Pending' = Append(Pending, item)
  <2>1. item \in heap /\ Pending = Reverse(fwdProduced)
    BY <1>5, PendingIs DEF PushForward, TypeOK, Holding
  <2>2. Pending' = Reverse(Cons(item, fwdProduced))
    BY <1>4, <1>5 DEF PushForward
  <2>3. QED
    BY <1>2, <2>1, <2>2, ReverseOrder
<1>6. ASSUME PopAndAnalyze
      PROVE  /\ Pending # <<>> /\ Head(fwdToConsume) = Pending[1]
             /\ Pending' = Tail(Pending)
  BY <1>2, <1>4, <1>6, PendingIs DEF PopAndAnalyze
<1>7. ASSUME ~PushForward, ~PopAndAnalyze PROVE Pending' = Pending
  <2> USE DEF vars, forwardVars, backwardVars, poolVars, traceVars
  <2>1. CASE Launch \/ Drain \/ KernelDone \/ Alloc \/ Account \/ CopyTrace
    BY <1>4, <2>1, PendingIs
       DEF Launch, Drain, KernelDone, Alloc, AllocReuse, AllocSteal, AllocFresh, Obtain,
           Account, AccountReuse, AccountNewBuffer, AccountExhausted, CopyTrace
  <2>2. CASE StealForward
    <3>1. pc = "steal" /\ pc' = "reverse" /\ fwdToConsume = <<>>
          /\ (IF fwdProduced # <<>> THEN fwdToConsume' = fwdProduced
                                    ELSE fwdToConsume' = fwdProduced)
      BY <2>2 DEF StealForward, RetryInv
    <3>2. QED
      BY <1>4, <3>1, PendingIs
  <2>3. CASE ReverseForward
    BY <1>4, <2>3, PendingIs DEF ReverseForward
  <2>4. CASE FreeItem \/ RestoreBalance
    BY <1>4, <2>4, PendingIs DEF FreeItem, RestoreBalance
  <2>5. CASE ConsumeReturn
    BY <1>2, <1>3, <1>4, <2>5, PendingIs DEF ConsumeReturn, RetryInv
  <2>6. CASE UNCHANGED vars
    BY <2>6 DEF Pending
  <2>7. QED
    BY <1>7, <2>1, <2>2, <2>3, <2>4, <2>5, <2>6 DEF Next, Work, Consume
<1>8. QED
  BY <1>5, <1>6, <1>7

\* Every step preserves TraceInv.
LEMMA TraceNext ==
  TypeOK /\ RetryInv /\ PlacesInv /\ TraceInv /\ [Next]_vars => TraceInv'
<1> SUFFICES ASSUME TypeOK, RetryInv, PlacesInv, TraceInv, [Next]_vars
             PROVE  TraceInv'
  OBVIOUS
<1> DEFINE Busy == IF attempt = 0 THEN 0 ELSE 1
<1>a. /\ Pending \in Seq(heap) /\ delivered \in Seq(Nat) /\ drains \in Nat
      /\ Len(Pending) \in Nat /\ Len(delivered) \in Nat
  BY PendingIs DEF TypeOK
<1>b. \A k \in 1..Len(Pending) : Pending[k] # item
  <2>1. ToSet(Pending) \subseteq Queued /\ item \notin Queued
    BY PendingIs DEF PlacesInv
  <2>2. QED
    BY <1>a, <2>1 DEF ToSet
<1>c. /\ drains = Len(delivered) + Len(Pending) + Busy
      /\ \A k \in 1..Len(Pending) : content[Pending[k]] = Len(delivered) + k
      /\ pc = "push" => content[item] = drains
  BY DEF TraceInv
<1> USE DEF vars, forwardVars, backwardVars, poolVars, traceVars
<1>1. CASE Launch \/ KernelDone \/ Alloc \/ Account \/ StealForward \/ ReverseForward
           \/ FreeItem \/ RestoreBalance \/ ConsumeReturn
  <2>1. /\ UNCHANGED <<drains, delivered, content>> /\ pc' # "push"
        /\ ~PushForward /\ ~PopAndAnalyze
    BY <1>1 DEF Launch, KernelDone, Alloc, AllocReuse, AllocSteal, AllocFresh, Obtain,
         Account, AccountReuse, AccountNewBuffer, AccountExhausted, StealForward,
         ReverseForward, FreeItem, RestoreBalance, ConsumeReturn, PushForward,
         PopAndAnalyze
  <2>2. Busy' = Busy
    <3>1. CASE Account
      <4>1. attempt \in {1, 2} /\ attempt' \in {1, 2}
        BY <3>1 DEF Account, AccountReuse, AccountNewBuffer, AccountExhausted, RetryInv,
             Filling
      <4>2. QED
        BY <4>1
    <3>2. CASE ~Account
      BY <1>1, <3>2 DEF Launch, KernelDone, Alloc, AllocReuse, AllocSteal, AllocFresh,
           Obtain, StealForward, ReverseForward, FreeItem, RestoreBalance, ConsumeReturn
    <3>3. QED
      BY <3>1, <3>2
  <2>3. Pending' = Pending
    BY <2>1, PendingNext
  <2>4. QED
    BY <1>c, <2>1, <2>2, <2>3 DEF TraceInv
<1>2. CASE Drain
  <2>1. /\ drains' = drains + 1 /\ UNCHANGED <<delivered, content>> /\ pc' # "push"
        /\ attempt = 0 /\ attempt' = 1 /\ ~PushForward /\ ~PopAndAnalyze
    BY <1>2 DEF Drain, RetryInv, PushForward, PopAndAnalyze
  <2>2. Pending' = Pending
    BY <2>1, PendingNext
  <2>3. QED
    BY <1>a, <1>c, <2>1, <2>2 DEF TraceInv
<1>3. CASE CopyTrace
  <2>1. /\ UNCHANGED <<drains, delivered, attempt, item>> /\ item \in heap
        /\ content' = [content EXCEPT ![item] = drains]
        /\ ~PushForward /\ ~PopAndAnalyze
    BY <1>3 DEF CopyTrace, TypeOK, Holding, PushForward, PopAndAnalyze
  <2>2. content \in [Items -> Nat] /\ heap \subseteq Items
    BY DEF TypeOK
  <2>3. Pending' = Pending
    BY <2>1, PendingNext
  <2>4. content'[item] = drains
    BY <2>1, <2>2
  <2>5. \A k \in 1..Len(Pending) : content'[Pending[k]] = content[Pending[k]]
    BY <1>a, <1>b, <2>1, <2>2
  <2>6. QED
    BY <1>c, <2>1, <2>3, <2>4, <2>5 DEF TraceInv
<1>4. CASE PushForward
  <2>1. /\ UNCHANGED <<drains, delivered, content>> /\ item \in heap /\ pc' # "push"
        /\ attempt \in {1, 2} /\ attempt' = 0 /\ content[item] = drains
    BY <1>4, <1>c DEF PushForward, TypeOK, Holding, RetryInv, Filling
  <2>2. Pending' = Append(Pending, item)
    BY <1>4, PendingNext
  <2>3. /\ Len(Pending') = Len(Pending) + 1 /\ Pending'[Len(Pending) + 1] = item
        /\ \A k \in 1..Len(Pending) : Pending'[k] = Pending[k]
    BY <1>a, <2>1, <2>2
  <2>4. drains = Len(delivered) + Len(Pending) + 1
    BY <1>c, <2>1
  <2>5. ASSUME NEW k \in 1..Len(Pending')
        PROVE  content'[Pending'[k]] = Len(delivered') + k
    <3>1. CASE k \in 1..Len(Pending)
      BY <1>c, <2>1, <2>3, <3>1
    <3>2. CASE k \notin 1..Len(Pending)
      <4>1. k = Len(Pending) + 1
        BY <1>a, <2>3, <3>2
      <4>2. Pending'[k] = item
        BY <2>3, <4>1
      <4>3. QED
        BY <1>a, <2>1, <2>4, <4>1, <4>2
    <3>3. QED
      BY <3>1, <3>2
  <2>6. drains' = Len(delivered') + Len(Pending') + (IF attempt' = 0 THEN 0 ELSE 1)
    BY <1>a, <2>1, <2>3, <2>4
  <2>7. QED
    BY <2>1, <2>5, <2>6 DEF TraceInv
<1>5. CASE PopAndAnalyze
  <2>1. /\ UNCHANGED <<drains, attempt, content>> /\ pc' # "push"
        /\ delivered' = Append(delivered, content[Head(fwdToConsume)])
    BY <1>5 DEF PopAndAnalyze
  <2>2. Len(delivered') = Len(delivered) + 1
    BY <1>a, <2>1
  <2>3. Pending # <<>> /\ Pending' = Tail(Pending)
    BY <1>5, PendingNext
  <2>4. /\ Len(Pending') = Len(Pending) - 1
        /\ \A k \in 1..Len(Pending') : k + 1 \in 1..Len(Pending) /\ Pending'[k] = Pending[k + 1]
    BY <1>a, <2>3
  <2>5. ASSUME NEW k \in 1..Len(Pending')
        PROVE  content'[Pending'[k]] = Len(delivered') + k
    <3>1. content[Pending[k + 1]] = Len(delivered) + (k + 1)
      BY <1>c, <2>4
    <3>2. QED
      BY <1>a, <2>1, <2>2, <2>4, <3>1
  <2>6. drains' = Len(delivered') + Len(Pending') + (IF attempt' = 0 THEN 0 ELSE 1)
    BY <1>a, <1>c, <2>1, <2>2, <2>4
  <2>7. QED
    BY <2>1, <2>5, <2>6 DEF TraceInv
<1>6. CASE UNCHANGED vars
  BY <1>6 DEF TraceInv, Pending
<1>7. QED
  BY <1>1, <1>2, <1>3, <1>4, <1>5, <1>6 DEF Next, Work, Consume

------------------------------------------------------------------------------

\* The inductive invariant holds initially.
LEMMA IInvInit == Init => IInv
<1> SUFFICES ASSUME Init PROVE IInv
  OBVIOUS
<1>1. Queued = {} /\ Free = {} /\ Out = {}
  BY NoItems DEF Init, Queued, Free, Out
<1>2. TypeOK /\ RetryInv
  BY TypeOKInit DEF Init, RetryInv, Filling
<1>3. PlacesInv /\ BuffersInv
  BY <1>1, NoItems DEF Init, PlacesInv, BuffersInv
<1>4. BalanceInv
  BY <1>1, FS_EmptySet, ConstantsAssumption DEF Init, BalanceInv
<1>5. RecycleInv
  BY DEF Init, RecycleInv
<1>6. CountInv
  <2>1. heap = {} /\ Lost = {}
    BY DEF Init, Lost
  <2>2. QED
    BY <1>1, <2>1, FS_EmptySet DEF Init, CountInv, BalanceCountsItems
<1>7. TraceInv
  <2>1. Pending = <<>>
    BY DEF Init, Pending, Reverse
  <2>2. QED
    BY <2>1 DEF Init, TraceInv
<1>8. QED
  BY <1>2, <1>3, <1>4, <1>5, <1>6, <1>7 DEF IInv

\* Every step preserves the inductive invariant.
LEMMA IInvNext == IInv /\ [Next]_vars => IInv'
BY TypeOKNext, RetryInvNext, PlacesNext, BalanceNext, RecycleNext, CountNext, TraceNext
   DEF IInv

\* The inductive invariant holds in every reachable state.
LEMMA Invariance == Spec => []IInv
BY IInvInit, IInvNext, PTL DEF Spec

\* Whatever the pool size and however many traces are drained, the patch
\* buffers alive stay below the pool size.
THEOREM PoolNeverOverrun == Spec => []PoolBound
<1>1. IInv => PoolBound
  BY DEF IInv, BalanceInv, PoolBound
<1>2. QED
  BY Invariance, <1>1, PTL

\* With a pool of two or more, the second produce of buffer_analyze always
\* gets an item with a buffer: nothing is copied through a null pointer.
THEOREM RetrySucceeds == ASSUME PoolSize > 1 PROVE Spec => []NoNullCopy
<1>1. IInv => NoNullCopy
  BY DEF IInv, RecycleInv, NoNullCopy
<1>2. QED
  BY Invariance, <1>1, PTL

\* Whatever happens to the pool, the balance counts the items on their way and
\* the items lost.
THEOREM BalanceExplained == Spec => []BalanceCountsItems
<1>1. IInv => BalanceCountsItems
  BY DEF IInv, CountInv
<1>2. QED
  BY Invariance, <1>1, PTL

\* An item is in one stack, once, or in hand: no buffer is filled before its
\* trace is analysed and no item is freed twice.
THEOREM OneStackEach == Spec => []SinglePlace
<1>1. IInv => SinglePlace
  <2> SUFFICES ASSUME TypeOK, PlacesInv PROVE SinglePlace
    BY DEF IInv
  <2>1. /\ fwdProduced \in Seq(heap) /\ fwdToConsume \in Seq(heap)
        /\ bwdProduced \in Seq(heap) /\ bwdToConsume \in Seq(heap)
    BY DEF TypeOK
  <2>2. /\ Cardinality(Queued) = Len(fwdProduced) + Len(fwdToConsume)
        /\ Cardinality(Free) = Len(bwdProduced) + Len(bwdToConsume)
    BY <2>1, StacksCount DEF PlacesInv, Queued, Free
  <2>3. QED
    BY <2>2 DEF SinglePlace, PlacesInv
<1>2. QED
  BY Invariance, <1>1, PTL

------------------------------------------------------------------------------
(* The channel implements the queue of traces it promises.                 *)

\* What is pending, by number: the queue of the abstract specification.
LEMMA QueueIs ==
  ASSUME TypeOK, RetryInv, TraceInv
  PROVE  /\ [k \in 1..Len(Pending) |-> content[Pending[k]]]
              = [k \in 1..Len(Pending) |-> Len(delivered) + k]
         /\ Len(Pending) \in Nat /\ Len(delivered) \in Nat
<1>1. Pending \in Seq(heap) /\ delivered \in Seq(Nat)
  BY PendingIs DEF TypeOK
<1>2. QED
  BY <1>1 DEF TraceInv

\* A run of consecutive numbers, one more at its end.
LEMMA NextNumber ==
  ASSUME NEW n \in Nat, NEW d \in Nat, NEW q, q = [k \in 1..n |-> d + k]
  PROVE  /\ Len(q) = n
         /\ Append(q, n + d + 1) = [k \in 1..(n + 1) |-> d + k]
<1> DEFINE a == Append(q, n + d + 1)
           b == [k \in 1..(n + 1) |-> d + k]
<1>1. q \in Seq(Nat) /\ Len(q) = n /\ \A k \in 1..n : q[k] = d + k
  OBVIOUS
<1>2. /\ a \in Seq(Nat) /\ Len(a) = n + 1 /\ a[n + 1] = n + d + 1
      /\ \A k \in 1..n : a[k] = q[k]
  BY <1>1
<1>3. b \in Seq(Nat) /\ Len(b) = n + 1 /\ \A k \in 1..(n + 1) : b[k] = d + k
  OBVIOUS
<1> HIDE DEF a, b
<1>4. \A k \in 1..(n + 1) : a[k] = b[k]
  BY <1>1, <1>2, <1>3
<1>5. a = b
  BY <1>2, <1>3, <1>4
<1>6. QED
  BY <1>1, <1>5 DEF a, b

\* A run of consecutive numbers without its first.
LEMMA FirstNumber ==
  ASSUME NEW n \in Nat, NEW d \in Nat, NEW q, q = [k \in 1..n |-> d + k], n > 0
  PROVE  /\ q # <<>> /\ Head(q) = d + 1
         /\ Tail(q) = [k \in 1..(n - 1) |-> (d + 1) + k]
<1>1. q \in Seq(Nat) /\ Len(q) = n /\ \A k \in 1..n : q[k] = d + k
  OBVIOUS
<1>2. q # <<>> /\ Head(q) = d + 1
  BY <1>1
<1>3. PICK m \in Nat : m = n - 1
  OBVIOUS
<1> DEFINE a == Tail(q)
           b == [k \in 1..m |-> (d + 1) + k]
<1>4. a \in Seq(Nat) /\ Len(a) = m /\ \A k \in 1..m : a[k] = q[k + 1]
  BY <1>1, <1>2, <1>3
<1>5. b \in Seq(Nat) /\ Len(b) = m /\ \A k \in 1..m : b[k] = (d + 1) + k
  OBVIOUS
<1> HIDE DEF a, b
<1>6. \A k \in 1..m : a[k] = b[k]
  <2>1. \A k \in 1..m : k + 1 \in 1..n
    BY <1>3
  <2>2. \A k \in 1..m : a[k] = d + (k + 1)
    BY <1>1, <1>4, <2>1
  <2>3. QED
    BY <1>5, <2>2
<1>7. a = b
  BY <1>4, <1>5, <1>6
<1>8. QED
  BY <1>2, <1>3, <1>7 DEF a, b

\* Every step of the channel is a step of the queue or leaves it alone: a trace
\* enters the queue when its buffer is pushed forward.
LEMMA QueueStep ==
  TypeOK /\ RetryInv /\ PlacesInv /\ TraceInv /\ [Next]_vars
    => [Queue!Next]_(Queue!abstractVars)
<1> SUFFICES ASSUME TypeOK, RetryInv, PlacesInv, TraceInv, [Next]_vars
             PROVE  [Queue!Next]_(Queue!abstractVars)
  OBVIOUS
<1> DEFINE queue == [k \in 1..Len(Pending) |-> content[Pending[k]]]
           n == Len(Pending)
           d == Len(delivered)
<1>a. TypeOK' /\ RetryInv' /\ TraceInv'
  BY TypeOKNext, RetryInvNext, TraceNext
<1>b. /\ queue = [k \in 1..n |-> d + k] /\ n \in Nat /\ d \in Nat
      /\ delivered \in Seq(Nat)
  BY QueueIs DEF TypeOK
<1>c. queue' = [k \in 1..n' |-> d' + k]
  <2>1. Pending' \in Seq(heap') /\ delivered' \in Seq(Nat)
    <3>1. /\ fwdProduced' \in Seq(heap') /\ fwdToConsume' \in Seq(heap')
          /\ delivered' \in Seq(Nat)
      BY <1>a DEF TypeOK
    <3>2. /\ Reverse(fwdProduced') \in Seq(heap') /\ Reverse(fwdToConsume') \in Seq(heap')
      BY <3>1, ReverseItems
    <3>3. QED
      BY <3>1, <3>2 DEF Pending
  <2>2. QED
    BY <1>a, <2>1 DEF TraceInv
<1>d. Pending \in Seq(heap)
  BY PendingIs
<1>e. (Queue!abstractVars)' = Queue!abstractVars
        <=> (pc # "app")' = (pc # "app") /\ queue' = queue /\ delivered' = delivered
  BY DEF Queue!abstractVars
<1> HIDE DEF queue, n, d
<1>1. CASE Launch
  <2>1. Pending' = Pending
    BY <1>1, PendingNext DEF Launch, PushForward, PopAndAnalyze
  <2>2. Queue!Launch
    BY <1>1, <2>1 DEF Launch, Queue!Launch, traceVars
  <2>3. QED
    BY <2>2 DEF Queue!Next
<1>2. CASE PushForward
  <2>1. /\ pc # "app" /\ pc' # "app" /\ delivered' = delivered /\ item \in heap
    BY <1>2 DEF PushForward, traceVars, TypeOK, Holding
  <2>2. n' = n + 1 /\ d' = d
    BY <1>2, <1>d, <2>1, PendingNext DEF n, d
  <2>3. queue' = Append(queue, n + d + 1) /\ Len(queue) = n
    BY <1>b, <1>c, <2>2, NextNumber
  <2>4. Queue!Drain
    BY <2>1, <2>3 DEF Queue!Drain, queue, d
  <2>5. QED
    BY <2>4 DEF Queue!Next
<1>3. CASE PopAndAnalyze
  <2>1. /\ pc # "app" /\ pc' # "app"
        /\ delivered' = Append(delivered, content[Pending[1]])
        /\ Pending # <<>> /\ Pending' = Tail(Pending)
    BY <1>3, PendingNext DEF PopAndAnalyze
  <2>2. n' = n - 1 /\ d' = d + 1 /\ n >= 1
    BY <1>b, <1>d, <2>1 DEF n, d
  <2>3. /\ queue # <<>> /\ Head(queue) = content[Pending[1]]
        /\ queue' = Tail(queue)
    <3>1. queue[1] = content[Pending[1]] /\ queue[1] = d + 1
      BY <1>b, <2>2 DEF queue, n
    <3>2. /\ queue # <<>> /\ Head(queue) = d + 1
          /\ Tail(queue) = [k \in 1..(n - 1) |-> (d + 1) + k]
      <4>1. n \in Nat /\ d \in Nat /\ n > 0 /\ queue = [k \in 1..n |-> d + k]
        BY <1>b, <2>2
      <4>2. QED
        BY <4>1, FirstNumber
    <3>3. queue' = Tail(queue)
      BY <1>c, <2>2, <3>2
    <3>4. QED
      BY <3>1, <3>2, <3>3
  <2>4. Queue!Analyze
    BY <2>1, <2>3 DEF Queue!Analyze, queue
  <2>5. QED
    BY <2>4 DEF Queue!Next
<1>4. CASE ConsumeReturn
  <2>1. Pending' = Pending /\ Pending = fwdToConsume
    BY <1>4, PendingIs, PendingNext DEF ConsumeReturn, PushForward, PopAndAnalyze
  <2>2. /\ UNCHANGED <<content, delivered>> /\ pc = "pop" /\ fwdToConsume = <<>>
        /\ attempt \in {0, 2}
    BY <1>4 DEF ConsumeReturn, traceVars, TypeOK, RetryInv, Filling
  <2>3. queue' = queue
    BY <2>1, <2>2 DEF queue
  <2>4. CASE attempt = 2
    <3>1. pc' = "alloc"
      BY <1>4, <2>4 DEF ConsumeReturn
    <3>2. QED
      BY <1>e, <2>2, <2>3, <3>1
  <2>5. CASE attempt # 2
    <3>1. pc' = "app"
      BY <1>4, <2>5 DEF ConsumeReturn
    <3>2. queue = <<>>
      BY <2>1, <2>2 DEF queue
    <3>3. Queue!Return
      BY <2>2, <2>3, <3>1, <3>2 DEF Queue!Return, queue
    <3>4. QED
      BY <3>3 DEF Queue!Next
  <2>6. QED
    BY <2>4, <2>5
<1>5. CASE UNCHANGED vars
  <2>1. Pending' = Pending
    BY <1>5 DEF vars, forwardVars, Pending
  <2>2. QED
    BY <1>5, <1>e, <2>1 DEF vars, traceVars, queue
<1>6. CASE Drain \/ KernelDone \/ Alloc \/ Account \/ CopyTrace \/ StealForward
             \/ ReverseForward \/ FreeItem \/ RestoreBalance
  <2>1. /\ pc # "app" /\ pc' # "app" /\ delivered' = delivered
        /\ ~PushForward /\ ~PopAndAnalyze
    BY <1>6 DEF Drain, KernelDone, Alloc, AllocReuse, AllocSteal, AllocFresh, Obtain,
         Account, AccountReuse, AccountNewBuffer, AccountExhausted, CopyTrace,
         StealForward, ReverseForward, FreeItem, RestoreBalance, PushForward,
         PopAndAnalyze, traceVars
  <2>2. n' = n /\ d' = d
    BY <2>1, PendingNext DEF n, d
  <2>3. queue' = queue
    BY <1>b, <1>c, <2>2
  <2>4. QED
    BY <1>e, <2>1, <2>3
<1>7. QED
  BY <1>1, <1>2, <1>3, <1>4, <1>5, <1>6 DEF Next, Work, Consume

\* The channel hands every trace to the analysis exactly once and in the order
\* of the drains, and its callback returns with nothing pending, for every pool
\* size, every heap and any number of drains.
THEOREM Implementation == Spec => ImplementsQueue
<1>1. Init => Queue!Init
  <2> SUFFICES ASSUME Init PROVE Queue!Init
    OBVIOUS
  <2>1. Pending = <<>>
    BY DEF Init, Pending, Reverse
  <2>2. QED
    BY <2>1 DEF Init, Queue!Init
<1>2. IInv /\ [Next]_vars => [Queue!Next]_(Queue!abstractVars)
  BY QueueStep DEF IInv
<1>3. QED
  BY Invariance, <1>1, <1>2, PTL DEF Spec, ImplementsQueue, Queue!Spec

==============================================================================
