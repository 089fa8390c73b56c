------------------------------ MODULE LifoStack ------------------------------
(***************************************************************************)
(* What cstack promises: one sequence of elements, top first, on which a   *)
(* push of a singleton or a chain, a pop and a steal each act at once.     *)
(***************************************************************************)
EXTENDS Integers, Sequences

VARIABLE stack

Init == stack = <<>>

\* A chain of elements that are not on the stack goes on top of it.
Push ==
  LET pushed == Len(stack') - Len(stack)
  IN  /\ pushed > 0
      /\ SubSeq(stack', pushed + 1, Len(stack')) = stack
      /\ \A i, j \in DOMAIN stack' : stack'[i] = stack'[j] => i = j

Pop == stack # <<>> /\ stack' = Tail(stack)

Steal == stack # <<>> /\ stack' = <<>>

Next == Push \/ Pop \/ Steal

Spec == Init /\ [][Next]_stack

==============================================================================
