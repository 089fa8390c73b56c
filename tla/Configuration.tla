---------------------------- MODULE Configuration ----------------------------
(***************************************************************************)
(* What the environment makes of the profiler before it subscribes         *)
(* (sanitizer_callbacks_subscribe and what it calls), as far as the        *)
(* callbacks depend on it: the sampling frequency, the whitelist of kernel *)
(* names, the driver's functions, and whether it subscribes at all.        *)
(*                                                                         *)
(* An environment is a record of what each variable holds, Unset if it is  *)
(* not set; a text that atoi makes no number of is 0.  A whitelist file is *)
(* the sequence of pieces that fgets reads of it into a buffer of 1024     *)
(* characters: a line, without its newline, or the next 1023 characters of *)
(* a longer one.  A piece is a comment if it begins with a hash, so that a *)
(* comment of more than 1023 characters has pieces that are none.          *)
(***************************************************************************)
EXTENDS Integers, SequencesExt

CONSTANT Unset

\* control_knob_value_get_int: 0 when the variable is not set.
Knob(value) == IF value = Unset THEN 0 ELSE value

KnobOr(value, default) == IF Knob(value) = 0 THEN default ELSE Knob(value)

------------------------------------------------------------------------------
(* The whitelist: a list of the pieces that are no comments.               *)

\* Mutant: a comment is put on the list.
WhitelistOfAll(file) == [i \in DOMAIN file |-> file[i].text]

\* What a file is.
IsFile(file) ==
  /\ Len(file) \in Nat /\ DOMAIN file = 1..Len(file)
  /\ \A i \in DOMAIN file : file[i].comment \in BOOLEAN

\* kernel_whitelist_init.
WhitelistOf(file) ==
  LET list[n \in 0..Len(file)] ==
        IF n = 0 THEN <<>>
        ELSE IF file[n].comment THEN list[n - 1]
        ELSE Append(list[n - 1], file[n].text)
  IN  list[Len(file)]

\* kernel_whitelist_search.
InWhitelist(list, name) == \E i \in DOMAIN list : list[i] = name

\* An empty list is a null pointer: nothing is filtered.
Filtered(list, name) == list # <<>> /\ ~InWhitelist(list, name)

------------------------------------------------------------------------------

\* sanitizer_callbacks_subscribe gives up when a file it needs cannot be read.
Exits(env) == ~env.fatbin \/ (env.whitelist # Unset /\ ~env.readable)

\* What the callbacks work with.
Configure(env) ==
  [frequency |-> KnobOr(env.frequency, 1),
   preprocessor |-> TRUE,
   whitelist |-> IF env.whitelist = Unset THEN <<>> ELSE WhitelistOf(env.whitelist)]

------------------------------------------------------------------------------
(* The driver's functions, looked up before all that.                      *)

DriverFunctions ==
  <<"cuDeviceGetAttribute", "cuCtxGetCurrent", "cuCtxSetCurrent", "cudaGetDevice",
    "cudaRuntimeGetVersion", "cuCtxGetStreamPriorityRange", "cuStreamCreateWithPriority",
    "cuStreamCreate", "cuStreamSynchronize", "cuMemcpyDtoHAsync", "cuMemcpyHtoDAsync",
    "cuModuleLoad", "cuModuleGetFunction", "cuLaunchKernel", "cuFuncSetAttribute">>

\* cuda_bind gives up at the first function that is missing, and its caller
\* goes on: that one and those after it stay null pointers.
BoundFunctions(missing) ==
  {DriverFunctions[i] :
     i \in {i \in DOMAIN DriverFunctions :
             \A j \in 1..i : DriverFunctions[j] \notin missing}}

==============================================================================
