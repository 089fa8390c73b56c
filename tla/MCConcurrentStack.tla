-------------------------- MODULE MCConcurrentStack --------------------------
(* Three threads, one of which may empty the stack, and three elements.    *)
EXTENDS ConcurrentStack
==============================================================================
