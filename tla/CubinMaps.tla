------------------------------ MODULE CubinMaps ------------------------------
(***************************************************************************)
(* Loading modules: the MODULE_LOADED callback of gputrigger.c             *)
(* (sanitizer_load_callback) and the loader that cuda-api.c exports        *)
(* (cuda_load_callback), with the maps of cubins by id and by hash they    *)
(* share, and the cache that each thread keeps in front of the first.      *)
(*                                                                         *)
(* Each map operation runs under its map's spin lock and is one step; the  *)
(* trees are functions (KeyMap, which SplayTree implements).  An entry is  *)
(* never deleted, so that the entry of an id is known by the id.           *)
(***************************************************************************)
EXTENDS CubinSymbols

CONSTANTS
  Threads,
  Ids,       \* cubin ids, natural numbers
  Modules,
  IdOf,      \* the cubin id of each module
  Cubins,    \* images
  Slots,     \* CUPTI_CUBIN_ID_MAP_HASH_TABLE_SIZE
  None,
  NoModule   \* the caller is cuda_load_callback

\* The addresses of the symbols with an offset, which are their indexes.
Addresses(vector) == {i \in DOMAIN vector : vector[i] # 0}

ASSUME ConstantsAssumption ==
  /\ Ids \subseteq Nat
  /\ Slots \in Nat \ {0}
  /\ IdOf \in [Modules -> Ids]
  /\ NoModule \notin Modules
  /\ None \notin Ids /\ None \notin Cubins
  /\ \A cubin \in Cubins :
       LET vector == FunctionOffsets(cubin)
       IN  /\ WellFormed(cubin)
           /\ vector # None
           /\ vector # NullVector => Addresses(vector) # None

VARIABLES
  pc,          \* where each thread is
  module,      \* the module each thread loads
  id,          \* its cubin id
  result,      \* the map entry each thread has
  cubinOf,     \* the image behind each id
  hashMap,     \* the image each entry of the hash map was computed from
  idMap,       \* the symbol vector of each entry of the id map
  cache,       \* cubin_id_map_hash_table of each thread
  files,       \* images that have a file
  loaded,      \* modules whose callback was made
  registered,  \* the function addresses redshow got for each module
  patched      \* modules whose code is patched

threadVars == <<module, id, result>>
vars == <<pc, threadVars, cubinOf, hashMap, idMap, cache, files, loaded, registered, patched>>

Init ==
  /\ pc = [t \in Threads |-> "app"]
  /\ module = [t \in Threads |-> NoModule]
  /\ id = [t \in Threads |-> CHOOSE i \in Ids : TRUE]
  /\ result = [t \in Threads |-> None]
  /\ cubinOf \in [Ids -> Cubins]
  /\ hashMap = [i \in Ids |-> None]
  /\ idMap = [i \in Ids |-> None]
  /\ cache = [t \in Threads |-> [s \in 0..(Slots - 1) |-> [id |-> 0, entry |-> None]]]
  /\ files = {}
  /\ loaded = {}
  /\ registered = [m \in Modules |-> None]
  /\ patched = {}

Goto(t, from, to) == pc[t] = from /\ pc' = [pc EXCEPT ![t] = to]

------------------------------------------------------------------------------
(* The hash map, which both loaders look in, insert into and look in again. *)

\* MODULE_LOADED.
LoadModule(t) ==
  /\ Goto(t, "app", "hashLookup")
  /\ \E m \in Modules \ loaded :
       /\ loaded' = loaded \union {m}
       /\ module' = [module EXCEPT ![t] = m]
       /\ id' = [id EXCEPT ![t] = IdOf[m]]
  /\ result' = [result EXCEPT ![t] = None]
  /\ UNCHANGED <<cubinOf, hashMap, idMap, cache, files, registered, patched>>

\* cuda_load_callback.
CudaLoad(t) ==
  /\ Goto(t, "app", "hashLookup")
  /\ id' \in {[id EXCEPT ![t] = i] : i \in Ids}
  /\ module' = [module EXCEPT ![t] = NoModule]
  /\ result' = [result EXCEPT ![t] = None]
  /\ UNCHANGED <<cubinOf, hashMap, idMap, cache, files, loaded, registered, patched>>

\* Mutant: a cubin that is known is not registered again.
AfterHashKnown(t) ==
  CASE module[t] = NoModule -> "write"
    [] idMap[id[t]] # None -> "patch"
    [] OTHER -> "insertId"

\* Where a loader goes once it has the entry of the hash map.
AfterHash(t) == IF module[t] = NoModule THEN "write" ELSE "insertId"

HashLookup(t) ==
  /\ Goto(t, "hashLookup", IF hashMap[id[t]] # None THEN AfterHash(t) ELSE "hashInsert")
  /\ UNCHANGED <<threadVars, cubinOf, hashMap, idMap, cache, files, loaded, registered, patched>>

\* The hash of a new entry is computed from the image, which it stands for.
NewHash(t) == cubinOf[id[t]]

\* Mutant: the map is taken to be empty: the new entry becomes its only one.
HashInsertRoot(t) ==
  /\ Goto(t, "hashInsert", "hashAgain")
  /\ hashMap' = [i \in Ids |-> IF i = id[t] THEN NewHash(t) ELSE None]
  /\ UNCHANGED <<threadVars, cubinOf, idMap, cache, files, loaded, registered, patched>>

HashInsert(t) ==
  /\ Goto(t, "hashInsert", "hashAgain")
  /\ hashMap' = [hashMap EXCEPT ![id[t]] = IF @ = None THEN NewHash(t) ELSE @]
  /\ UNCHANGED <<threadVars, cubinOf, idMap, cache, files, loaded, registered, patched>>

\* cubin_hash_map_entry_hash_get reads the entry unchecked.
HashAgain(t) ==
  /\ Goto(t, "hashAgain", IF hashMap[id[t]] # None THEN AfterHash(t) ELSE "nullHash")
  /\ UNCHANGED <<threadVars, cubinOf, hashMap, idMap, cache, files, loaded, registered, patched>>

------------------------------------------------------------------------------
(* The id map and the cache of each thread.                                *)

\* cubin_id_map_insert of a vector computed before the map is locked.
InsertId(i) == [idMap EXCEPT ![i] = IF @ = None THEN FunctionOffsets(cubinOf[i]) ELSE @]

\* sanitizer_load_callback inserts always, and then reads the vector it
\* computed itself, unchecked.
InsertAndRead(t) ==
  /\ Goto(t, "insertId",
          IF FunctionOffsets(cubinOf[id[t]]) = NullVector THEN "nullVector" ELSE "register")
  /\ idMap' = InsertId(id[t])
  /\ UNCHANGED <<threadVars, cubinOf, hashMap, cache, files, loaded, registered, patched>>

\* cuda_write_cubin, under files_lock: a file that exists is taken as it is; a
\* new one may be cut short, and then stays.
WriteCubin(t) ==
  /\ \/ Goto(t, "write", "lookup")
     \/ Goto(t, "write", "app") /\ cubinOf[id[t]] \notin files
  /\ files' = files \union {cubinOf[id[t]]}
  /\ UNCHANGED <<threadVars, cubinOf, hashMap, idMap, cache, loaded, registered, patched>>

Slot(t) == cache[t][id[t] % Slots]

\* Mutant: an id that was looked for in vain before is not looked up again.
CachedNull(t) == Slot(t).id = id[t]

Cached(t) == Slot(t).entry # None /\ Slot(t).id = id[t]

\* cubin_id_map_lookup.
Lookup(t) ==
  LET entry == IF Cached(t) THEN Slot(t).entry
               ELSE IF idMap[id[t]] # None THEN id[t] ELSE None
  IN  /\ Goto(t, "lookup", IF entry = None THEN "insertNew" ELSE "app")
      /\ result' = [result EXCEPT ![t] = entry]
      /\ cache' = [cache EXCEPT ![t][id[t] % Slots] = [id |-> id[t], entry |-> entry]]
      /\ UNCHANGED <<module, id, cubinOf, hashMap, idMap, files, loaded, registered, patched>>

InsertNew(t) ==
  /\ Goto(t, "insertNew", "app")
  /\ idMap' = InsertId(id[t])
  /\ UNCHANGED <<threadVars, cubinOf, hashMap, cache, files, loaded, registered, patched>>

------------------------------------------------------------------------------
(* The rest of sanitizer_load_callback.                                    *)

\* The pc of every symbol with an offset, for redshow_cubin_cache_register.
Register(t) ==
  /\ Goto(t, "register", "patch")
  /\ registered' = [registered EXCEPT ![module[t]] = Addresses(FunctionOffsets(cubinOf[id[t]]))]
  /\ UNCHANGED <<threadVars, cubinOf, hashMap, idMap, cache, files, loaded, patched>>

\* Which instructions are patched depends on the mode and is left out.
Patch(t) ==
  /\ Goto(t, "patch", "app")
  /\ patched' = patched \union {module[t]}
  /\ UNCHANGED <<threadVars, cubinOf, hashMap, idMap, cache, files, loaded, registered>>

------------------------------------------------------------------------------

Step(t) ==
  \/ HashLookup(t) \/ HashInsert(t) \/ HashAgain(t)
  \/ InsertAndRead(t) \/ Register(t) \/ Patch(t)
  \/ WriteCubin(t) \/ Lookup(t) \/ InsertNew(t)

\* A null pointer that is read ends the process.
Alive == \A t \in Threads : pc[t] \notin {"nullHash", "nullVector"}

Next == Alive /\ \E t \in Threads : LoadModule(t) \/ CudaLoad(t) \/ Step(t)

Spec == Init /\ [][Next]_vars

------------------------------------------------------------------------------
(* Properties.                                                             *)

\* A loader that looked for its cubin in vain inserts it and finds it when it
\* looks again, whatever other loaders insert meanwhile: the entry that
\* cubin_hash_map_entry_hash_get reads is never null.
HashFound == \A t \in Threads : pc[t] # "nullHash"

\* A lookup answers from the map, whatever the cache of the thread holds: an id
\* that shares its slot, an id looked for before it was inserted, an entry that
\* another thread inserted.
LookupRight ==
  [][\A t \in Threads :
       pc[t] = "lookup" /\ pc'[t] # "lookup" =>
         result'[t] = IF idMap[id[t]] # None THEN id[t] ELSE None]_vars

\* The addresses that redshow gets of a module are those of the functions that
\* its cubin defines in one of its sections: none of a symbol that is undefined,
\* absolute or no function, and of every other one; and the map has the offset
\* of that section for each.
FunctionsRegistered ==
  \A m \in Modules :
    registered[m] # None =>
      LET cubin == cubinOf[IdOf[m]]
          vector == idMap[IdOf[m]]
          sectionsOf(i) == {n \in DOMAIN cubin.sections : IsFunctionOf(cubin, i, n - 1)}
      IN  /\ registered[m] = {i \in DOMAIN vector : sectionsOf(i) # {}}
          /\ \A i \in DOMAIN vector :
               \A n \in sectionsOf(i) : vector[i] = cubin.sections[n].offset

\* A module whose code is patched is known to those that read its trace: redshow
\* has the addresses of its functions, the maps have its cubin under its id, and
\* so it is for each of the modules that share a cubin.
PatchedModulesKnown ==
  \A m \in patched :
    /\ registered[m] # None
    /\ hashMap[IdOf[m]] = cubinOf[IdOf[m]]
    /\ idMap[IdOf[m]] = FunctionOffsets(cubinOf[IdOf[m]])

------------------------------------------------------------------------------
(* The inductive invariant behind the safety properties.                   *)

Locations == {"app", "hashLookup", "hashInsert", "hashAgain", "nullHash", "insertId", "nullVector",
              "register", "patch", "write", "lookup", "insertNew"}

Vector(i) == FunctionOffsets(cubinOf[i])

TypeOK ==
  /\ pc \in [Threads -> Locations]
  /\ module \in [Threads -> Modules \union {NoModule}]
  /\ DOMAIN id = Threads /\ \A t \in Threads : pc[t] # "app" => id[t] \in Ids
  /\ result \in [Threads -> Ids \union {None}]
  /\ cubinOf \in [Ids -> Cubins]
  /\ hashMap \in [Ids -> Cubins \union {None}]
  /\ DOMAIN idMap = Ids
  /\ cache \in [Threads -> [0..(Slots - 1) -> [id : Ids \union {0}, entry : Ids \union {None}]]]
  /\ files \subseteq Cubins
  /\ loaded \subseteq Modules
  /\ DOMAIN registered = Modules
  /\ patched \subseteq Modules

\* An entry of a map is of the image behind its id, and a cached entry is in
\* the map.
MapsInv ==
  /\ \A i \in Ids : hashMap[i] \in {None, cubinOf[i]} /\ idMap[i] \in {None, Vector(i)}
  /\ \A t \in Threads, s \in 0..(Slots - 1) :
       cache[t][s].entry # None => cache[t][s].entry = cache[t][s].id /\ idMap[cache[t][s].id] # None

\* A thread that loads a module has done what the rest of the callback counts on.
LoaderInv ==
  \A t \in Threads :
    LET m == module[t]
    IN  /\ m # NoModule /\ pc[t] # "app" => id[t] = IdOf[m]
        /\ pc[t] \in {"insertId", "nullVector", "register", "patch"} => m # NoModule
        /\ pc[t] \in {"hashAgain", "insertId", "nullVector", "register", "patch"} =>
             hashMap[id[t]] = cubinOf[id[t]]
        /\ pc[t] \in {"register", "patch"} =>
             idMap[id[t]] = Vector(id[t]) /\ Vector(id[t]) # NullVector
        /\ pc[t] = "patch" => registered[m] # None

\* What redshow got of a module is what the map has, a vector that there is.
RegisteredInv ==
  \A m \in Modules :
    registered[m] # None =>
      LET vector == Vector(IdOf[m])
      IN  /\ idMap[IdOf[m]] = vector /\ vector # NullVector
          /\ hashMap[IdOf[m]] = cubinOf[IdOf[m]]
          /\ registered[m] = Addresses(vector)

IInv == TypeOK /\ MapsInv /\ LoaderInv /\ RegisteredInv /\ HashFound /\ PatchedModulesKnown

==============================================================================
