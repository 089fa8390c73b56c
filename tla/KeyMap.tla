-------------------------------- MODULE KeyMap --------------------------------
(***************************************************************************)
(* What the maps of the profiler (contexts, cubins, cubin hashes, streams) *)
(* promise under their locks: a function from keys to entries, in which an *)
(* entry that is there is never replaced.                                  *)
(***************************************************************************)
CONSTANTS Keys, Values, None

VARIABLES
  map,    \* the entry of each key
  answer  \* the result of the last lookup

Init ==
  /\ map = [k \in Keys |-> None]
  /\ answer = None

Lookup(k) ==
  /\ answer' = map[k]
  /\ UNCHANGED map

Insert(k, v) ==
  /\ map' = [map EXCEPT ![k] = IF @ = None THEN v ELSE @]
  /\ UNCHANGED answer

Delete(k) ==
  /\ map' = [map EXCEPT ![k] = None]
  /\ UNCHANGED answer

Next == \E k \in Keys : Lookup(k) \/ Delete(k) \/ \E v \in Values : Insert(k, v)

Spec == Init /\ [][Next]_<<map, answer>>

==============================================================================
