---------------------------- MODULE MCKernelTrace ----------------------------
(* Kernel launches on a few blocks, with a patch buffer of two records.    *)
EXTENDS KernelTrace, TLC

Symmetric == Permutations(Threads)
==============================================================================
