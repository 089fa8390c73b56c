---------------------------- MODULE AnalysisQueue ----------------------------
(***************************************************************************)
(* What the buffer channel of one thread promises to the analysis library: *)
(* every trace drained from the device while a kernel runs is handed to    *)
(* redshow_analyze exactly once, in the order in which it was drained, and *)
(* a launch callback returns only when nothing is left in the channel.     *)
(***************************************************************************)
EXTENDS Naturals, Sequences

VARIABLES
  launched,   \* a kernel launch callback of the thread is in progress
  queue,      \* traces drained and not analysed yet, oldest first
  delivered   \* traces given to redshow_analyze, in order

abstractVars == <<launched, queue, delivered>>

Init ==
  /\ launched = FALSE
  /\ queue = <<>>
  /\ delivered = <<>>

Launch ==
  /\ ~launched
  /\ launched' = TRUE
  /\ UNCHANGED <<queue, delivered>>

\* The k-th trace of the thread enters the queue.
Drain ==
  /\ launched
  /\ queue' = Append(queue, Len(queue) + Len(delivered) + 1)
  /\ UNCHANGED <<launched, delivered>>

Analyze ==
  /\ launched
  /\ queue # <<>>
  /\ delivered' = Append(delivered, Head(queue))
  /\ queue' = Tail(queue)
  /\ UNCHANGED launched

Return ==
  /\ launched
  /\ queue = <<>>
  /\ launched' = FALSE
  /\ UNCHANGED <<queue, delivered>>

Next == Launch \/ Drain \/ Analyze \/ Return

Spec == Init /\ [][Next]_abstractVars

==============================================================================
