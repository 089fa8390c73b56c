----------------------------- MODULE MCSplayTree -----------------------------
(* Five keys: enough for both rotations, paths of either shape, chains of  *)
(* nodes put aside on both sides of one splay, and a splay of a missing    *)
(* key to either neighbour.                                                *)
EXTENDS SplayTree, TLC

MCKeys == 1..5
Symmetry == Permutations(Nodes) \union Permutations(Values)
==============================================================================
