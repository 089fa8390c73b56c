--------------------------- MODULE ConcurrentStack ---------------------------
(***************************************************************************)
(* The lock-free stack of stacks.c (cstack), and the set of channels that  *)
(* sanitizer-buffer-channel-set.c keeps on it: threads push elements they  *)
(* allocated, or chains of them, while a thread pops or steals, or while   *)
(* threads walk the stack.  "Unsafe to use concurrently with cstack_steal  *)
(* or cstack_pop" is said of the walk, so that a stack is either walked or *)
(* emptied, which the constant variable emptied chooses.                   *)
(*                                                                         *)
(* A step is one atomic operation on the head, or on the next pointer of   *)
(* an element others can reach.                                            *)
(***************************************************************************)
EXTENDS Integers, Sequences, FiniteSets

CONSTANTS
  Threads,
  Removers,  \* threads that pop and steal: the code is right for one
  Elements,  \* elements the heap can provide
  Null

ASSUME ConstantsAssumption ==
  /\ Removers \subseteq Threads
  /\ Null \notin Elements
  /\ IsFiniteSet(Elements)

VARIABLES
  pc,         \* where each thread is
  head,       \* the stack's head pointer
  next,       \* the next pointer of each element
  chain,      \* first element of the chain each thread has in hand
  tail,       \* the element cstack_push has got to on its way down its chain
  expected,   \* the head each push or pop compares with
  following,  \* the next pointer a pop read
  current,    \* the element each walk is at
  visited,    \* the elements each walk was called for
  found,      \* history: the stack when each walk read its head
  free,       \* elements that are nobody's: never allocated, or taken off again
  emptied     \* whether this stack is popped and stolen from, or walked

pushVars == <<chain, tail, expected>>
walkVars == <<current, visited, found>>
vars == <<pc, head, next, pushVars, following, walkVars, free, emptied>>

Pointers == Elements \union {Null}

Init ==
  /\ pc = [t \in Threads |-> "idle"]
  /\ head = Null
  /\ next = [e \in Elements |-> Null]
  /\ chain = [t \in Threads |-> Null]
  /\ tail = [t \in Threads |-> Null]
  /\ expected = [t \in Threads |-> Null]
  /\ following = [t \in Threads |-> Null]
  /\ current = [t \in Threads |-> Null]
  /\ visited = [t \in Threads |-> <<>>]
  /\ found = [t \in Threads |-> <<>>]
  /\ free = Elements
  /\ emptied \in BOOLEAN

Goto(t, from, to) == pc[t] = from /\ pc' = [pc EXCEPT ![t] = to]

\* The elements from e on, in the order of the links, cut off after as many as
\* there are.
PathIn(links, e) ==
  LET far == Cardinality(Elements) + 1
      path[n \in 0..far] ==
        [p \in Pointers |-> IF p = Null \/ n = 0 THEN <<>> ELSE <<p>> \o path[n - 1][links[p]]]
  IN  path[far][e]

PathFrom(e) == PathIn(next, e)

------------------------------------------------------------------------------
(* Elements.                                                               *)

\* sanitizer_buffer_channel_set_insert: a new element with no successor.
NewElement(t) ==
  /\ pc[t] = "idle" /\ chain[t] = Null
  /\ \E e \in free :
       /\ chain' = [chain EXCEPT ![t] = e]
       /\ next' = [next EXCEPT ![e] = Null]
       /\ free' = free \ {e}
  /\ UNCHANGED <<pc, head, tail, expected, following, walkVars, emptied>>

\* sstack_pop on a chain that was popped or stolen.
Scatter(t) ==
  /\ t \in Removers /\ emptied
  /\ pc[t] = "idle" /\ chain[t] # Null
  /\ chain' = [chain EXCEPT ![t] = next[chain[t]]]
  /\ next' = [next EXCEPT ![chain[t]] = Null]
  /\ free' = free \union {chain[t]}
  /\ UNCHANGED <<pc, head, tail, expected, following, walkVars, emptied>>

------------------------------------------------------------------------------
(* cstack_push.                                                            *)

PushBegin(t) ==
  /\ Goto(t, "idle", "tail")
  /\ chain[t] # Null
  /\ expected' = [expected EXCEPT ![t] = head]
  /\ tail' = [tail EXCEPT ![t] = chain[t]]
  /\ UNCHANGED <<head, next, chain, following, walkVars, free, emptied>>

FindTail(t) ==
  /\ pc[t] = "tail"
  /\ next[tail[t]] # Null
  /\ tail' = [tail EXCEPT ![t] = next[tail[t]]]
  /\ UNCHANGED <<pc, head, next, chain, expected, following, walkVars, free, emptied>>

TailFound(t) ==
  /\ Goto(t, "tail", "link")
  /\ next[tail[t]] = Null
  /\ UNCHANGED <<head, next, pushVars, following, walkVars, free, emptied>>

Link(t) ==
  /\ Goto(t, "link", "pushCas")
  /\ next' = [next EXCEPT ![tail[t]] = expected[t]]
  /\ UNCHANGED <<head, pushVars, following, walkVars, free, emptied>>

\* The local variables of a call end with it.
ForgetPush(t) ==
  /\ chain' = [chain EXCEPT ![t] = Null]
  /\ tail' = [tail EXCEPT ![t] = Null]
  /\ expected' = [expected EXCEPT ![t] = Null]

\* Mutant: the head is stored without comparing it.
PushStore(t) ==
  /\ Goto(t, "pushCas", "idle")
  /\ head' = chain[t]
  /\ ForgetPush(t)
  /\ UNCHANGED <<next, following, walkVars, free, emptied>>

PushDone(t) ==
  /\ Goto(t, "pushCas", "idle")
  /\ head = expected[t]
  /\ head' = chain[t]
  /\ ForgetPush(t)
  /\ UNCHANGED <<next, following, walkVars, free, emptied>>

\* Mutant: the failed exchange does not report the head it found.
PushRetryStale(t) ==
  /\ Goto(t, "pushCas", "link")
  /\ head # expected[t]
  /\ UNCHANGED <<head, next, pushVars, following, walkVars, free, emptied>>

PushRetry(t) ==
  /\ Goto(t, "pushCas", "link")
  /\ head # expected[t]
  /\ expected' = [expected EXCEPT ![t] = head]
  /\ UNCHANGED <<head, next, chain, tail, following, walkVars, free, emptied>>

------------------------------------------------------------------------------
(* cstack_pop and cstack_steal.                                            *)

\* Mutant: elements are popped from a stack that is walked.
PopBeginAnywhere(t) ==
  /\ t \in Removers /\ chain[t] = Null
  /\ Goto(t, "idle", "popNext")
  /\ expected' = [expected EXCEPT ![t] = head]
  /\ UNCHANGED <<head, next, chain, tail, following, walkVars, free, emptied>>

PopBegin(t) ==
  /\ t \in Removers /\ emptied /\ chain[t] = Null
  /\ Goto(t, "idle", "popNext")
  /\ expected' = [expected EXCEPT ![t] = head]
  /\ UNCHANGED <<head, next, chain, tail, following, walkVars, free, emptied>>

PopEmpty(t) ==
  /\ Goto(t, "popNext", "idle")
  /\ expected[t] = Null
  /\ UNCHANGED <<head, next, pushVars, following, walkVars, free, emptied>>

PopNext(t) ==
  /\ Goto(t, "popNext", "popCas")
  /\ expected[t] # Null
  /\ following' = [following EXCEPT ![t] = next[expected[t]]]
  /\ UNCHANGED <<head, next, pushVars, walkVars, free, emptied>>

PopDone(t) ==
  /\ Goto(t, "popCas", "popReset")
  /\ head = expected[t]
  /\ head' = following[t]
  /\ chain' = [chain EXCEPT ![t] = expected[t]]
  /\ expected' = [expected EXCEPT ![t] = Null]
  /\ following' = [following EXCEPT ![t] = Null]
  /\ UNCHANGED <<next, tail, walkVars, free, emptied>>

PopRetry(t) ==
  /\ Goto(t, "popCas", "popNext")
  /\ head # expected[t]
  /\ expected' = [expected EXCEPT ![t] = head]
  /\ following' = [following EXCEPT ![t] = Null]
  /\ UNCHANGED <<head, next, chain, tail, walkVars, free, emptied>>

\* Mutant: the popped element stays linked to the stack.
PopResetNot(t) ==
  /\ Goto(t, "popReset", "idle")
  /\ UNCHANGED <<head, next, pushVars, following, walkVars, free, emptied>>

PopReset(t) ==
  /\ Goto(t, "popReset", "idle")
  /\ next' = [next EXCEPT ![chain[t]] = Null]
  /\ UNCHANGED <<head, pushVars, following, walkVars, free, emptied>>

Steal(t) ==
  /\ t \in Removers /\ emptied
  /\ pc[t] = "idle" /\ chain[t] = Null
  /\ head # Null
  /\ head' = Null
  /\ chain' = [chain EXCEPT ![t] = head]
  /\ UNCHANGED <<pc, next, tail, expected, following, walkVars, free, emptied>>

------------------------------------------------------------------------------
(* cstack_forall, as sanitizer_buffer_channel_set_forall uses it.          *)

WalkBegin(t) ==
  /\ ~emptied
  /\ Goto(t, "idle", "walk")
  /\ current' = [current EXCEPT ![t] = head]
  /\ found' = [found EXCEPT ![t] = PathFrom(head)]
  /\ UNCHANGED <<head, next, pushVars, following, visited, free, emptied>>

\* channel_forone, then the load of the next pointer.
Visit(t) ==
  /\ pc[t] = "walk"
  /\ current[t] # Null
  /\ visited' = [visited EXCEPT ![t] = Append(@, current[t])]
  /\ current' = [current EXCEPT ![t] = next[current[t]]]
  /\ UNCHANGED <<pc, head, next, pushVars, following, found, free, emptied>>

WalkEnd(t) ==
  /\ Goto(t, "walk", "idle")
  /\ current[t] = Null
  /\ visited' = [visited EXCEPT ![t] = <<>>]
  /\ found' = [found EXCEPT ![t] = <<>>]
  /\ UNCHANGED <<head, next, pushVars, following, current, free, emptied>>

------------------------------------------------------------------------------

Push(t) ==
  PushBegin(t) \/ FindTail(t) \/ TailFound(t) \/ Link(t) \/ PushDone(t) \/ PushRetry(t)

Pop(t) == PopEmpty(t) \/ PopNext(t) \/ PopDone(t) \/ PopRetry(t) \/ PopReset(t)

Walk(t) == Visit(t) \/ WalkEnd(t)

Next ==
  \E t \in Threads :
    \/ NewElement(t) \/ Scatter(t) \/ PopBegin(t) \/ Steal(t) \/ WalkBegin(t)
    \/ Push(t) \/ Pop(t) \/ Walk(t)

Spec == Init /\ [][Next]_vars

\* A thread that is in an operation takes its next step.
FairSpec == Spec /\ \A t \in Threads : WF_vars(pc[t] # "idle" /\ (Push(t) \/ Pop(t) \/ Walk(t)))

------------------------------------------------------------------------------

Elems(s) == {s[i] : i \in DOMAIN s}

\* The chain a thread has in hand: what it has linked below the tail, or has not
\* unlinked yet, is not its own.
Hand(t) ==
  LET path == PathFrom(chain[t])
  IN  CASE pc[t] = "popReset" -> <<chain[t]>>
        [] pc[t] \in {"link", "pushCas"} ->
             SubSeq(path, 1, CHOOSE n \in DOMAIN path :
               path[n] = tail[t] /\ \A i \in 1..(n - 1) : path[i] # tail[t])
        [] OTHER -> path

InHand(t) == Elems(Hand(t))

\* An element is on the stack, in the hand of one thread or nobody's, and no
\* two of these: whatever the order of pushes, pops and steals, none is lost,
\* on the stack twice, or handed out while it is reachable (cstack_pop reads
\* the successor of a head that others may cover meanwhile).
OnePlace ==
  LET stack == PathFrom(head)
      onStack == Elems(stack)
  IN  /\ Len(stack) = Cardinality(onStack)
      /\ onStack \intersect free = {}
      /\ \A t \in Threads : InHand(t) \intersect (onStack \union free) = {}
      /\ \A t, u \in Threads : t # u => InHand(t) \intersect InHand(u) = {}
      /\ onStack \union free \union UNION {InHand(t) : t \in Threads} = Elements

\* A walk visits the stack it found at its start, each element once and in
\* order, while others push: in particular every channel whose insert had
\* returned (sanitizer_buffer_channel_set_forall).
WalkSeesStack ==
  \A t \in Threads :
    pc[t] = "walk" => visited[t] \o PathFrom(current[t]) = found[t]

Lifo == INSTANCE LifoStack WITH stack <- PathFrom(head)

\* cstack implements a stack: each successful exchange is the whole operation.
ImplementsLifo == Lifo!Spec

\* A thread that stays in a push fails only because others succeed: it gets
\* through, or the head changes again and again.
PushLockFree ==
  \A t \in Threads :
    []<>(pc[t] \notin {"tail", "link", "pushCas"}) \/ []<><<head' # head>>_vars

------------------------------------------------------------------------------
(* The inductive invariant behind OnePlace and WalkSeesStack, for a stack  *)
(* s and chains h[t] in the hands of the threads.                          *)

Locations == {"idle", "tail", "link", "pushCas", "popNext", "popCas", "popReset", "walk"}

TypeOK ==
  /\ pc \in [Threads -> Locations]
  /\ head \in Pointers /\ next \in [Elements -> Pointers]
  /\ chain \in [Threads -> Pointers] /\ tail \in [Threads -> Pointers]
  /\ expected \in [Threads -> Pointers] /\ following \in [Threads -> Pointers]
  /\ current \in [Threads -> Pointers]
  /\ visited \in [Threads -> Seq(Elements)] /\ found \in [Threads -> Seq(Elements)]
  /\ free \subseteq Elements
  /\ emptied \in BOOLEAN

\* The elements of s, each once, are linked from p on.
Segment(links, s, p) ==
  /\ p = IF s = <<>> THEN Null ELSE s[1]
  /\ \A i \in 1..(Len(s) - 1) : links[s[i]] = s[i + 1]
  /\ \A i, j \in 1..Len(s) : s[i] = s[j] => i = j

\* The last of them is linked to q.
EndsAt(links, s, q) == s # <<>> => links[s[Len(s)]] = q

\* Sets of elements that have nothing in common and leave nothing out.
Partition(stack, unused, inHand) ==
  /\ stack \intersect unused = {}
  /\ \A t \in Threads : inHand[t] \intersect stack = {} /\ inHand[t] \intersect unused = {}
  /\ \A t, u \in Threads : t # u => inHand[t] \intersect inHand[u] = {}
  /\ \A e \in Elements : e \in stack \/ e \in unused \/ \E t \in Threads : e \in inHand[t]

\* A push has its chain whole but for the link below its tail.
PushAt(t, c) ==
  /\ pc[t] \notin {"link", "pushCas", "popReset"} => EndsAt(next, c, Null)
  /\ pc[t] = "tail" => tail[t] \in Elems(c)
  /\ pc[t] \in {"link", "pushCas"} => c # <<>> /\ tail[t] = c[Len(c)]
  /\ pc[t] = "pushCas" => next[tail[t]] = expected[t]

\* The head a pop read is still on the stack, and what it read of it holds.
PopAt(t, c, s) ==
  /\ pc[t] \in {"popNext", "popCas", "popReset"} => t \in Removers /\ emptied
  /\ pc[t] \in {"popNext", "popCas"} => c = <<>>
  /\ pc[t] = "popReset" => Len(c) = 1
  /\ pc[t] = "popNext" => expected[t] \in Elems(s) \union {Null}
  /\ pc[t] = "popCas" => expected[t] \in Elems(s) /\ following[t] = next[expected[t]]

\* A walk has the rest b of what it found before it, all of it on the stack.
WalkAt(t, b, s) ==
  /\ pc[t] # "walk" => visited[t] = <<>>
  /\ pc[t] = "walk" =>
       /\ ~emptied
       /\ Segment(next, b, current[t]) /\ EndsAt(next, b, Null)
       /\ Elems(b) \subseteq Elems(s)
       /\ visited[t] \o b = found[t]

StackInv(s, h, b) ==
  /\ Segment(next, s, head) /\ EndsAt(next, s, Null)
  /\ \A t \in Threads : Segment(next, h[t], chain[t])
  /\ Partition(Elems(s), free, [t \in Threads |-> Elems(h[t])])
  /\ \A t \in Threads : PushAt(t, h[t]) /\ PopAt(t, h[t], s) /\ WalkAt(t, b[t], s)

\* The sequences are those the properties name.
StackInvHolds ==
  StackInv(PathFrom(head), [t \in Threads |-> Hand(t)], [t \in Threads |-> PathFrom(current[t])])

==============================================================================
