--------------------------- MODULE MCContextBuffers ---------------------------
(***************************************************************************)
(* Two threads in two contexts, which may be exchanged.                    *)
(***************************************************************************)
EXTENDS ContextBuffers, TLC

Symmetry == Permutations(Threads) \union Permutations(Contexts)

==============================================================================
