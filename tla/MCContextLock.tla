---------------------------- MODULE MCContextLock ----------------------------
(* The context lock for two threads and three keys, one map entry for each. *)
EXTENDS ContextLock, TLC

Symmetric == Permutations(Threads) \union Permutations(Contexts)
               \union Permutations(Entries)
==============================================================================
