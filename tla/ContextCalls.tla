----------------------------- MODULE ContextCalls -----------------------------
(***************************************************************************)
(* What the DRIVER_API callbacks promise to the rest of the profiler: a    *)
(* thread is in a call on one context at a time, and two threads are never *)
(* in calls on the same context.  The launch callbacks rely on it when     *)
(* they use the state of the context ("already locked").                   *)
(***************************************************************************)
CONSTANTS Threads, Keys

VARIABLE
  calling   \* the context each thread is in a call on, as a set of at most one

Init == calling = [t \in Threads |-> {}]

Enter(t, c) ==
  /\ calling[t] = {}
  /\ \A u \in Threads : c \notin calling[u]
  /\ calling' = [calling EXCEPT ![t] = {c}]

Exit(t) ==
  /\ calling[t] # {}
  /\ calling' = [calling EXCEPT ![t] = {}]

Next == \E t \in Threads : Exit(t) \/ \E c \in Keys : Enter(t, c)

Spec == Init /\ [][Next]_calling

==============================================================================
