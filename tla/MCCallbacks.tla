----------------------------- MODULE MCCallbacks -----------------------------
(***************************************************************************)
(* Two threads in two contexts, five environments: no patch file, an       *)
(* unreadable whitelist, a whitelist of one kernel and a comment with a    *)
(* frequency of zero, one of a comment only with a driver that creates no  *)
(* plain stream, and no runtime library.                                   *)
(***************************************************************************)
EXTENDS Callbacks

CONSTANTS k1, k2

Plain ==
  [frequency |-> Unset, fatbin |-> TRUE, whitelist |-> Unset, readable |-> TRUE, missing |-> {}]

Comment == [comment |-> TRUE, text |-> k2]

MCEnvironments ==
  {[Plain EXCEPT !.fatbin = FALSE],
   [Plain EXCEPT !.whitelist = <<>>, !.readable = FALSE],
   [Plain EXCEPT !.whitelist = <<Comment, [comment |-> FALSE, text |-> k1]>>, !.frequency = 0],
   [Plain EXCEPT !.whitelist = <<Comment>>, !.missing = {"cuStreamCreate"}],
   [Plain EXCEPT !.missing = {"cudaGetDevice", "cudaRuntimeGetVersion"}]}

==============================================================================
