--------------------------- MODULE MCBufferChannel ---------------------------
(* The buffer channel on small pools.  Every drain allocates at most two   *)
(* items, so a heap of 2 * MaxDrains items never runs out.                 *)
EXTENDS BufferChannel

MCItems == 1..(2 * MaxDrains)
==============================================================================
