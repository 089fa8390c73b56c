---------------------------- MODULE CubinMapsProofs ----------------------------
(***************************************************************************)
(* The maps of cubins for every set of threads, modules and well-formed    *)
(* images.                                                                 *)
(***************************************************************************)
EXTENDS CubinMaps, NaturalsInduction, WellFoundedInduction, TLAPS

\* A set of numbers that is not empty has a least one.
LEMMA LeastNumber ==
  ASSUME NEW S, S \subseteq Nat, S # {}
  PROVE  \E m \in S : \A n \in S : m <= n
<1>1. IsWellFoundedOn(OpToRel(<, Nat), Nat)
  BY NatLessThanWellFounded
<1>2. PICK m \in S : \A n \in S : ~ (<<n, m>> \in OpToRel(<, Nat))
  BY <1>1, WFMin
<1>3. \A n \in S : ~ (n < m)
  BY <1>2 DEF OpToRel
<1>4. QED
  BY <1>3

\* A slot of the cache is one of the table.
LEMMA SlotInTable == ASSUME NEW i \in Nat PROVE i % Slots \in 0..(Slots - 1)
  BY ConstantsAssumption

\* The symbol table that decides is the same with the null section and without.
LEMMA SameFirstTable ==
  ASSUME NEW cubin, WellFormed(cubin), SymbolTables(SectionVector(cubin)) # {}
  PROVE  /\ FirstTable(SectionVector(cubin)) = FirstTable(cubin.sections)
         /\ \E n \in SymbolTables(cubin.sections) :
              FirstTable(cubin.sections) = cubin.sections[n]
<1> DEFINE all == cubin.sections
           rest == Tail(all)
           Least(S) == CHOOSE i \in S : \A j \in S : i <= j
<1>1. PICK S : all \in Seq(S) /\ all # <<>>
  BY DEF WellFormed, IsSequence
<1>2. /\ Len(all) \in Nat \ {0} /\ Len(rest) = Len(all) - 1
      /\ DOMAIN all = 1..Len(all) /\ DOMAIN rest = 1..Len(rest)
      /\ \A i \in 1..Len(rest) : rest[i] = all[i + 1]
  BY <1>1
<1> DEFINE T == SymbolTables(all)
           R == SymbolTables(rest)
<1>3. T \subseteq Nat /\ R \subseteq Nat /\ R # {}
  BY <1>2 DEF SymbolTables, SectionVector
<1>4. \A i \in Nat : i \in R <=> i + 1 \in T /\ i # 0
  BY <1>2 DEF SymbolTables
<1>5. ASSUME NEW i \in T PROVE i - 1 \in R
  <2>1. i \in 1..Len(all) /\ i # 1
    BY <1>2 DEF SymbolTables, WellFormed
  <2>2. i - 1 \in 1..Len(rest) /\ (i - 1) + 1 = i
    BY <1>2, <2>1
  <2>3. QED
    BY <1>2, <2>2 DEF SymbolTables
<1>6. PICK r \in R : \A j \in R : r <= j
  BY <1>3, LeastNumber
<1>7. r + 1 \in T /\ \A j \in T : r + 1 <= j
  BY <1>3, <1>4, <1>5, <1>6
<1>8. Least(R) = r
  BY <1>3, <1>6
<1>9. Least(T) = r + 1
  BY <1>3, <1>7
<1>10. FirstTable(rest) = rest[r] /\ FirstTable(all) = all[r + 1]
  BY <1>8, <1>9 DEF FirstTable
<1>11. rest[r] = all[r + 1]
  BY <1>2 DEF SymbolTables
<1>12. QED
  BY <1>7, <1>10, <1>11 DEF SectionVector

\* The vector that the code computes of an image has an offset for the symbols
\* of the functions in sections, and for no other.
LEMMA OffsetsOfFunctions ==
  ASSUME NEW cubin, WellFormed(cubin), FunctionOffsets(cubin) # NullVector,
         NEW vector, vector = FunctionOffsets(cubin),
         NEW i \in DOMAIN vector
  PROVE  LET number == {n \in DOMAIN cubin.sections : IsFunctionOf(cubin, i, n - 1)}
         IN  /\ vector[i] # 0 <=> number # {}
             /\ \A n \in number : vector[i] = cubin.sections[n].offset
<1> DEFINE all == cubin.sections
           rest == Tail(all)
           table == FirstTable(all)
           sym == table.symbols[i]
           number == {n \in DOMAIN all : IsFunctionOf(cubin, i, n - 1)}
<1>1. PICK S : all \in Seq(S) /\ all # <<>>
  BY DEF WellFormed, IsSequence
<1>2. /\ Len(all) \in Nat \ {0} /\ Len(rest) = Len(all) - 1
      /\ DOMAIN all = 1..Len(all) /\ DOMAIN rest = 1..Len(rest)
      /\ \A n \in 1..Len(rest) : rest[n] = all[n + 1]
  BY <1>1
<1>3. /\ SymbolTables(SectionVector(cubin)) # {}
      /\ vector = RelocateSymbols(rest, FirstTable(rest))
  BY DEF FunctionOffsets, SectionVector
<1>4. /\ FirstTable(rest) = table
      /\ \E n \in SymbolTables(all) : table = all[n]
  BY <1>3, SameFirstTable DEF SectionVector
<1>5. vector = [j \in DOMAIN table.symbols |->
                  IF table.symbols[j].type = "STT_FUNC" /\ table.symbols[j].shndx # ShnUndef
                    THEN SectionOffset(rest, SectionIndex(table.symbols[j].shndx)) ELSE 0]
  BY <1>3, <1>4 DEF RelocateSymbols
<1>6. /\ i \in DOMAIN table.symbols
      /\ vector[i] = IF sym.type = "STT_FUNC" /\ sym.shndx # ShnUndef
                       THEN SectionOffset(rest, SectionIndex(sym.shndx)) ELSE 0
  BY <1>5
<1>7. SymbolOK(all, sym)
  BY <1>4, <1>6 DEF WellFormed
<1>8. CASE sym.type # "STT_FUNC" \/ sym.shndx = ShnUndef
  <2>1. number = {}
    BY <1>8 DEF IsFunctionOf
  <2>2. QED
    BY <1>6, <1>8, <2>1
<1>9. CASE sym.type = "STT_FUNC" /\ sym.shndx > Len(all)
  <2>1. number = {}
    BY <1>2, <1>9 DEF IsFunctionOf
  <2>2. vector[i] = 0
    <3>1. vector[i] = SectionOffset(rest, sym.shndx - 1) \/ vector[i] = 0
      BY <1>6 DEF SectionIndex
    <3>2. sym.shndx - 1 > Len(rest) /\ sym.shndx \in Nat
      BY <1>2, <1>7, <1>9 DEF SymbolOK
    <3>3. SectionOffset(rest, sym.shndx - 1) = 0
      BY <1>2, <3>2 DEF SectionOffset
    <3>4. QED
      BY <3>1, <3>3
  <2>3. QED
    BY <2>1, <2>2
<1>10. CASE /\ sym.type = "STT_FUNC" /\ sym.shndx # ShnUndef
            /\ sym.shndx + 1 \in DOMAIN all /\ all[sym.shndx + 1].offset # 0
  <2>1. sym.shndx \in Nat /\ sym.shndx # 0 /\ sym.shndx <= Len(rest)
    BY <1>2, <1>7, <1>10 DEF SymbolOK, ShnUndef
  <2>2. number = {sym.shndx + 1}
    BY <1>2, <1>10, <2>1 DEF IsFunctionOf
  <2>3. vector[i] = all[sym.shndx + 1].offset
    <3>1. vector[i] = SectionOffset(rest, sym.shndx - 1)
      BY <1>6, <1>10 DEF SectionIndex
    <3>2. SectionOffset(rest, sym.shndx - 1) = rest[sym.shndx].offset
      BY <1>2, <2>1 DEF SectionOffset
    <3>3. QED
      BY <1>2, <2>1, <3>1, <3>2
  <2>4. QED
    BY <1>10, <2>2, <2>3
<1>11. QED
  BY <1>7, <1>8, <1>9, <1>10 DEF SymbolOK

\* The vector of an image is no missing entry.
LEMMA VectorIsThere ==
  ASSUME TypeOK, NEW i \in Ids
  PROVE  /\ cubinOf[i] \in Cubins /\ cubinOf[i] # None /\ Vector(i) # None
         /\ WellFormed(cubinOf[i])
         /\ Vector(i) # NullVector => Addresses(Vector(i)) # None
  BY ConstantsAssumption DEF TypeOK, Vector

\* The loaders start well typed.
LEMMA TypeOKInit == Init => TypeOK
<1> SUFFICES ASSUME Init PROVE TypeOK
  OBVIOUS
<1>1. pc \in [Threads -> Locations]
  BY DEF Init, Locations
<1>2. cache \in [Threads -> [0..(Slots - 1) -> [id : Ids \union {0}, entry : Ids \union {None}]]]
  BY DEF Init
<1>3. QED
  BY <1>1, <1>2 DEF Init, TypeOK

\* Every step keeps the loaders and the maps well typed.
LEMMA TypeOKNext == TypeOK /\ LoaderInv /\ [Next]_vars => TypeOK'
<1> SUFFICES ASSUME TypeOK, LoaderInv, [Next]_vars PROVE TypeOK'
  OBVIOUS
<1> USE ConstantsAssumption DEF TypeOK, Locations, Goto, vars, threadVars
<1>1. ASSUME NEW t \in Threads, LoadModule(t) PROVE TypeOK'
  BY <1>1 DEF LoadModule
<1>2. ASSUME NEW t \in Threads, CudaLoad(t) PROVE TypeOK'
  BY <1>2 DEF CudaLoad
<1>3. ASSUME NEW t \in Threads, HashLookup(t) PROVE TypeOK'
  BY <1>3 DEF HashLookup, AfterHash
<1>4. ASSUME NEW t \in Threads, HashInsert(t) PROVE TypeOK'
  <2>1. id[t] \in Ids
    BY <1>4 DEF HashInsert
  <2>2. hashMap' \in [Ids -> Cubins \union {None}]
    BY <1>4, <2>1 DEF HashInsert, NewHash
  <2>3. QED
    BY <1>4, <2>2 DEF HashInsert
<1>5. ASSUME NEW t \in Threads, HashAgain(t) PROVE TypeOK'
  BY <1>5 DEF HashAgain, AfterHash
<1>6. ASSUME NEW t \in Threads, InsertAndRead(t) PROVE TypeOK'
  BY <1>6 DEF InsertAndRead, InsertId
<1>7. ASSUME NEW t \in Threads, Register(t) PROVE TypeOK'
  BY <1>7 DEF Register
<1>8. ASSUME NEW t \in Threads, Patch(t) PROVE TypeOK'
  <2>1. module[t] \in Modules
    BY <1>8 DEF Patch, LoaderInv
  <2>2. patched' \subseteq Modules
    BY <1>8, <2>1 DEF Patch
  <2>3. QED
    BY <1>8, <2>2 DEF Patch
<1>9. ASSUME NEW t \in Threads, WriteCubin(t) PROVE TypeOK'
  <2>1. id[t] \in Ids
    BY <1>9 DEF WriteCubin
  <2>2. cubinOf[id[t]] \in Cubins /\ files' = files \union {cubinOf[id[t]]}
    BY <1>9, <2>1 DEF WriteCubin
  <2>3. QED
    BY <1>9, <2>2 DEF WriteCubin
<1>10. ASSUME NEW t \in Threads, Lookup(t) PROVE TypeOK'
  <2>1. id[t] \in Ids /\ id[t] % Slots \in 0..(Slots - 1)
    BY <1>10, SlotInTable DEF Lookup
  <2> DEFINE entry == IF Cached(t) THEN Slot(t).entry
                      ELSE IF idMap[id[t]] # None THEN id[t] ELSE None
  <2>2. entry \in Ids \union {None}
    BY <2>1 DEF Cached, Slot
  <2>3. /\ pc' = [pc EXCEPT ![t] = IF entry = None THEN "insertNew" ELSE "app"]
        /\ result' = [result EXCEPT ![t] = entry]
        /\ cache' = [cache EXCEPT ![t][id[t] % Slots] = [id |-> id[t], entry |-> entry]]
        /\ UNCHANGED <<module, id, cubinOf, hashMap, idMap, files, loaded, registered, patched>>
    BY <1>10 DEF Lookup
  <2> HIDE DEF entry
  <2>4. cache' \in [Threads -> [0..(Slots - 1) -> [id : Ids \union {0}, entry : Ids \union {None}]]]
    BY <2>1, <2>2, <2>3
  <2>5. pc' \in [Threads -> Locations] /\ result' \in [Threads -> Ids \union {None}]
    BY <2>2, <2>3
  <2>6. \A u \in Threads : pc'[u] # "app" => id'[u] \in Ids
    BY <2>1, <2>3
  <2>7. QED
    BY <2>3, <2>4, <2>5, <2>6
<1>11. ASSUME NEW t \in Threads, InsertNew(t) PROVE TypeOK'
  BY <1>11 DEF InsertNew, InsertId
<1>12. CASE UNCHANGED vars
  BY <1>12
<1>13. QED
  BY <1>1, <1>2, <1>3, <1>4, <1>5, <1>6, <1>7, <1>8, <1>9, <1>10, <1>11, <1>12 DEF Next, Step

\* Entries are only added to the maps, each of the image behind its id.
LEMMA MapsGrow ==
  ASSUME TypeOK, MapsInv, [Next]_vars
  PROVE  /\ UNCHANGED cubinOf
         /\ \A i \in Ids :
              /\ hashMap'[i] \in {None, cubinOf[i]} /\ idMap'[i] \in {None, Vector(i)}
              /\ hashMap[i] # None => hashMap'[i] = hashMap[i]
              /\ idMap[i] # None => idMap'[i] = idMap[i]
<1> DEFINE Grown ==
             /\ UNCHANGED cubinOf
             /\ \A i \in Ids :
                  /\ hashMap'[i] \in {None, cubinOf[i]} /\ idMap'[i] \in {None, Vector(i)}
                  /\ hashMap[i] # None => hashMap'[i] = hashMap[i]
                  /\ idMap[i] # None => idMap'[i] = idMap[i]
<1>1. CASE UNCHANGED <<cubinOf, hashMap, idMap>>
  BY <1>1 DEF MapsInv
<1>2. ASSUME NEW t \in Threads, HashInsert(t) PROVE Grown
  BY <1>2 DEF HashInsert, NewHash, MapsInv, TypeOK, Goto
<1>3. ASSUME NEW j \in Ids, idMap' = InsertId(j), UNCHANGED <<cubinOf, hashMap>> PROVE Grown
  BY <1>3 DEF InsertId, Vector, MapsInv, TypeOK
<1>4. ASSUME NEW t \in Threads, InsertAndRead(t) \/ InsertNew(t) PROVE Grown
  <2>1. id[t] \in Ids
    BY <1>4 DEF InsertAndRead, InsertNew, Goto, TypeOK
  <2>2. QED
    BY <1>3, <1>4, <2>1 DEF InsertAndRead, InsertNew
<1>5. ASSUME NEW t \in Threads,
             LoadModule(t) \/ CudaLoad(t) \/ HashLookup(t) \/ HashAgain(t) \/ Register(t) \/ Patch(t)
             \/ WriteCubin(t) \/ Lookup(t)
      PROVE  UNCHANGED <<cubinOf, hashMap, idMap>>
  BY <1>5 DEF LoadModule, CudaLoad, HashLookup, HashAgain, Register, Patch, WriteCubin, Lookup
<1>6. CASE UNCHANGED vars
  BY <1>1, <1>6 DEF vars
<1>7. QED
  BY <1>1, <1>2, <1>4, <1>5, <1>6 DEF Next, Step

\* A cached entry stays that of its id.
LEMMA MapsNext == TypeOK /\ MapsInv /\ [Next]_vars => MapsInv'
<1> SUFFICES ASSUME TypeOK, MapsInv, [Next]_vars PROVE MapsInv'
  OBVIOUS
<1> DEFINE CacheOK(slot, map) ==
             slot.entry # None => slot.entry = slot.id /\ map[slot.id] # None
<1>1. /\ UNCHANGED cubinOf
      /\ \A i \in Ids :
           /\ hashMap'[i] \in {None, cubinOf[i]} /\ idMap'[i] \in {None, Vector(i)}
           /\ idMap[i] # None => idMap'[i] # None
  BY MapsGrow
<1>2. ASSUME NEW t \in Threads, NEW s \in 0..(Slots - 1) PROVE CacheOK(cache[t][s], idMap')
  <2>1. CASE cache[t][s].entry # None
    <3>1. cache[t][s].entry = cache[t][s].id /\ idMap[cache[t][s].id] # None
      BY <2>1 DEF MapsInv
    <3>2. cache[t][s] \in [id : Ids \union {0}, entry : Ids \union {None}]
      <4>1. cache[t] \in [0..(Slots - 1) -> [id : Ids \union {0}, entry : Ids \union {None}]]
        BY DEF TypeOK
      <4>2. QED
        BY <4>1
    <3>3. PICK i \in Ids : i = cache[t][s].entry
      BY <2>1, <3>2
    <3>4. idMap'[i] # None
      BY <1>1, <3>1, <3>3
    <3>5. QED
      BY <3>1, <3>3, <3>4
  <2>2. QED
    BY <2>1
<1>3. \A i \in Ids : hashMap'[i] \in {None, cubinOf'[i]} /\ idMap'[i] \in {None, Vector(i)'}
  BY <1>1 DEF Vector
<1>4. CASE UNCHANGED cache
  BY <1>2, <1>3, <1>4 DEF MapsInv
<1>5. ASSUME NEW t \in Threads, Lookup(t) PROVE MapsInv'
  <2>1. id[t] \in Ids /\ id[t] % Slots \in 0..(Slots - 1)
    BY <1>5, SlotInTable, ConstantsAssumption DEF Lookup, Goto, TypeOK
  <2> DEFINE entry == IF Cached(t) THEN Slot(t).entry
                      ELSE IF idMap[id[t]] # None THEN id[t] ELSE None
             new == [id |-> id[t], entry |-> entry]
  <2>2. CacheOK(new, idMap)
    <3>1. CASE Cached(t)
      BY <2>1, <3>1 DEF Cached, Slot, MapsInv
    <3>2. CASE ~Cached(t)
      BY <3>2
    <3>3. QED
      BY <3>1, <3>2
  <2>3. cache' = [cache EXCEPT ![t][id[t] % Slots] = new] /\ UNCHANGED idMap
    BY <1>5 DEF Lookup
  <2> HIDE DEF new, entry
  <2>4. ASSUME NEW u \in Threads, NEW s \in 0..(Slots - 1) PROVE CacheOK(cache'[u][s], idMap')
    <3>1. cache'[u][s] = cache[u][s] \/ cache'[u][s] = new
      BY <2>1, <2>3 DEF TypeOK
    <3>2. QED
      BY <1>2, <2>2, <2>3, <3>1
  <2>5. QED
    BY <1>3, <2>4 DEF MapsInv
<1>6. ASSUME NEW t \in Threads,
             \/ LoadModule(t) \/ CudaLoad(t) \/ HashLookup(t) \/ HashInsert(t) \/ HashAgain(t)
             \/ InsertAndRead(t) \/ Register(t) \/ Patch(t) \/ WriteCubin(t) \/ InsertNew(t)
      PROVE  UNCHANGED cache
  BY <1>6 DEF LoadModule, CudaLoad, HashLookup, HashInsert, HashAgain, InsertAndRead, Register,
              Patch, WriteCubin, InsertNew
<1>7. CASE UNCHANGED vars
  BY <1>4, <1>7 DEF vars
<1>8. QED
  BY <1>4, <1>5, <1>6, <1>7 DEF Next, Step

\* A module's functions are registered by the thread that loads it, with what
\* the map has of its cubin.
LEMMA RegisterStep ==
  ASSUME TypeOK, LoaderInv, NEW t \in Threads, Register(t)
  PROVE  LET m == module[t]
         IN  /\ m \in Modules /\ id[t] = IdOf[m] /\ id[t] \in Ids
             /\ registered'[m] = Addresses(Vector(IdOf[m])) /\ registered'[m] # None
             /\ \A n \in Modules : n # m => registered'[n] = registered[n]
<1>1. module[t] \in Modules /\ id[t] = IdOf[module[t]] /\ id[t] \in Ids
  BY DEF Register, Goto, LoaderInv, TypeOK
<1>2. Vector(id[t]) # NullVector
  BY DEF Register, Goto, LoaderInv
<1>3. registered' = [registered EXCEPT ![module[t]] = Addresses(Vector(id[t]))]
  BY DEF Register, Vector
<1>4. QED
  BY <1>1, <1>2, <1>3, VectorIsThere DEF TypeOK

\* A step leaves registered alone or registers a module for good.
LEMMA RegisteredStays ==
  ASSUME TypeOK, LoaderInv, [Next]_vars, NEW m \in Modules, registered[m] # None
  PROVE  registered'[m] # None
<1>1. ASSUME NEW t \in Threads, Register(t) PROVE registered'[m] # None
  BY <1>1, RegisterStep
<1>2. ASSUME NEW t \in Threads,
             \/ LoadModule(t) \/ CudaLoad(t) \/ HashLookup(t) \/ HashInsert(t) \/ HashAgain(t)
             \/ InsertAndRead(t) \/ Patch(t) \/ WriteCubin(t) \/ Lookup(t) \/ InsertNew(t)
      PROVE  UNCHANGED registered
  BY <1>2 DEF LoadModule, CudaLoad, HashLookup, HashInsert, HashAgain, InsertAndRead, Patch,
              WriteCubin, Lookup, InsertNew
<1>3. CASE UNCHANGED vars
  BY <1>3 DEF vars
<1>4. QED
  BY <1>1, <1>2, <1>3 DEF Next, Step

\* Each step of a loader leaves what the next one counts on.
LEMMA LoaderNext == TypeOK /\ MapsInv /\ LoaderInv /\ [Next]_vars => LoaderInv'
<1> SUFFICES ASSUME TypeOK, MapsInv, LoaderInv, [Next]_vars PROVE LoaderInv'
  OBVIOUS
<1> DEFINE Ready(p, m, i, hashes, ids, regs) ==
             /\ m # NoModule /\ p # "app" => i = IdOf[m]
             /\ p \in {"insertId", "nullVector", "register", "patch"} => m # NoModule
             /\ p \in {"hashAgain", "insertId", "nullVector", "register", "patch"} =>
                  hashes[i] = cubinOf[i]
             /\ p \in {"register", "patch"} => ids[i] = Vector(i) /\ Vector(i) # NullVector
             /\ p = "patch" => regs[m] # None
<1>1. /\ UNCHANGED cubinOf
      /\ \A i \in Ids :
           /\ hashMap[i] # None => hashMap'[i] = hashMap[i]
           /\ idMap[i] # None => idMap'[i] = idMap[i]
           /\ hashMap'[i] \in {None, cubinOf[i]} /\ idMap'[i] \in {None, Vector(i)}
  BY MapsGrow
<1>2. ASSUME NEW u \in Threads PROVE Ready(pc[u], module[u], id[u], hashMap', idMap', registered')
  <2>1. Ready(pc[u], module[u], id[u], hashMap, idMap, registered)
    BY DEF LoaderInv
  <2>2. CASE pc[u] \in {"hashAgain", "insertId", "nullVector", "register", "patch"}
    <3>1. id[u] \in Ids /\ cubinOf[id[u]] # None /\ Vector(id[u]) # None
      BY <2>2, VectorIsThere DEF TypeOK
    <3>2. hashMap'[id[u]] = cubinOf[id[u]]
      BY <1>1, <2>1, <2>2, <3>1
    <3>3. pc[u] \in {"register", "patch"} => idMap'[id[u]] = Vector(id[u])
      BY <1>1, <2>1, <3>1
    <3>4. pc[u] = "patch" => registered'[module[u]] # None
      <4>1. SUFFICES ASSUME pc[u] = "patch" PROVE registered'[module[u]] # None
        OBVIOUS
      <4>2. module[u] \in Modules /\ registered[module[u]] # None
        BY <2>1, <4>1 DEF TypeOK
      <4>3. QED
        BY <4>2, RegisteredStays
    <3>5. QED
      BY <2>1, <3>2, <3>3, <3>4
  <2>3. CASE pc[u] \notin {"hashAgain", "insertId", "nullVector", "register", "patch"}
    BY <2>1, <2>3
  <2>4. QED
    BY <2>2, <2>3
<1>3. ASSUME NEW t \in Threads,
             \A u \in Threads : u # t => pc'[u] = pc[u] /\ module'[u] = module[u] /\ id'[u] = id[u],
             Ready(pc'[t], module'[t], id'[t], hashMap', idMap', registered')
      PROVE  LoaderInv'
  <2>1. \A u \in Threads : Ready(pc'[u], module'[u], id'[u], hashMap', idMap', registered')
    BY <1>2, <1>3
  <2>2. \A i : Vector(i)' = Vector(i) /\ cubinOf'[i] = cubinOf[i]
    BY <1>1 DEF Vector
  <2>3. QED
    BY <2>1, <2>2 DEF LoaderInv
<1> HIDE DEF Ready
<1>4. ASSUME NEW t \in Threads, NEW to, Goto(t, pc[t], to), UNCHANGED <<module, id>>,
             Ready(to, module[t], id[t], hashMap', idMap', registered')
      PROVE  LoaderInv'
  BY <1>3, <1>4 DEF Goto, TypeOK
<1>5. ASSUME NEW t \in Threads, LoadModule(t) PROVE LoaderInv'
  <2>1. PICK m \in Modules : module' = [module EXCEPT ![t] = m] /\ id' = [id EXCEPT ![t] = IdOf[m]]
    BY <1>5 DEF LoadModule
  <2>2. Ready("hashLookup", m, IdOf[m], hashMap', idMap', registered')
    BY DEF Ready
  <2>3. pc' = [pc EXCEPT ![t] = "hashLookup"]
    BY <1>5 DEF LoadModule, Goto
  <2>4. QED
    BY <1>3, <2>1, <2>2, <2>3 DEF TypeOK
<1>6. ASSUME NEW t \in Threads, CudaLoad(t) PROVE LoaderInv'
  <2>1. PICK i \in Ids : id' = [id EXCEPT ![t] = i]
    BY <1>6 DEF CudaLoad
  <2>2. Ready("hashLookup", NoModule, i, hashMap', idMap', registered')
    BY DEF Ready
  <2>3. pc' = [pc EXCEPT ![t] = "hashLookup"] /\ module' = [module EXCEPT ![t] = NoModule]
    BY <1>6 DEF CudaLoad, Goto
  <2>4. QED
    BY <1>3, <2>1, <2>2, <2>3 DEF TypeOK
<1>7. ASSUME NEW t \in Threads, HashLookup(t) \/ HashAgain(t) PROVE LoaderInv'
  <2>1. id[t] \in Ids /\ UNCHANGED <<hashMap, module, id>>
    BY <1>7 DEF HashLookup, HashAgain, Goto, TypeOK, threadVars
  <2>2. PICK to : /\ Goto(t, pc[t], to) /\ pc[t] \in {"hashLookup", "hashAgain"}
                  /\ \/ hashMap[id[t]] # None /\ to = AfterHash(t)
                     \/ to \in {"hashInsert", "nullHash"}
    BY <1>7 DEF HashLookup, HashAgain, Goto
  <2>3. hashMap[id[t]] # None => hashMap'[id[t]] = cubinOf[id[t]]
    BY <1>1, <2>1
  <2>4. Ready(to, module[t], id[t], hashMap', idMap', registered')
    BY <1>2, <2>2, <2>3 DEF Ready, AfterHash
  <2>5. QED
    BY <1>4, <2>1, <2>2, <2>4
<1>8. ASSUME NEW t \in Threads, HashInsert(t) PROVE LoaderInv'
  <2>1. id[t] \in Ids /\ UNCHANGED <<module, id>> /\ Goto(t, pc[t], "hashAgain") /\ pc[t] = "hashInsert"
    BY <1>8 DEF HashInsert, Goto, TypeOK, threadVars
  <2>2. hashMap'[id[t]] # None
    BY <1>8, <2>1, VectorIsThere DEF HashInsert, NewHash, TypeOK
  <2>3. hashMap'[id[t]] = cubinOf[id[t]]
    BY <1>1, <2>1, <2>2
  <2>4. Ready("hashAgain", module[t], id[t], hashMap', idMap', registered')
    BY <1>2, <2>1, <2>3 DEF Ready
  <2>5. QED
    BY <1>4, <2>1, <2>4
<1>9. ASSUME NEW t \in Threads, InsertAndRead(t) PROVE LoaderInv'
  <2>1. id[t] \in Ids /\ UNCHANGED <<module, id>> /\ pc[t] = "insertId"
    BY <1>9 DEF InsertAndRead, Goto, TypeOK, threadVars
  <2>2. PICK to : Goto(t, pc[t], to) /\ to = IF Vector(id[t]) = NullVector THEN "nullVector" ELSE "register"
    BY <1>9 DEF InsertAndRead, Goto, Vector
  <2>3. idMap'[id[t]] # None
    BY <1>9, <2>1, VectorIsThere DEF InsertAndRead, InsertId, TypeOK, Vector
  <2>4. idMap'[id[t]] = Vector(id[t])
    BY <1>1, <2>1, <2>3
  <2>5. Ready(to, module[t], id[t], hashMap', idMap', registered')
    BY <1>2, <2>1, <2>2, <2>4 DEF Ready
  <2>6. QED
    BY <1>4, <2>1, <2>2, <2>5
<1>10. ASSUME NEW t \in Threads, Register(t) PROVE LoaderInv'
  <2>1. UNCHANGED <<module, id>> /\ Goto(t, pc[t], "patch") /\ pc[t] = "register"
    BY <1>10 DEF Register, Goto, threadVars
  <2>2. registered'[module[t]] # None
    BY <1>10, RegisterStep
  <2>3. Ready("patch", module[t], id[t], hashMap', idMap', registered')
    BY <1>2, <2>1, <2>2 DEF Ready
  <2>4. QED
    BY <1>4, <2>1, <2>3
<1>11. ASSUME NEW t \in Threads, Patch(t) \/ WriteCubin(t) \/ Lookup(t) \/ InsertNew(t)
       PROVE  LoaderInv'
  <2>1. UNCHANGED <<module, id>> /\ pc[t] \in {"patch", "write", "lookup", "insertNew"}
    BY <1>11 DEF Patch, WriteCubin, Lookup, InsertNew, Goto, threadVars
  <2>2. PICK to : Goto(t, pc[t], to) /\ to \in {"app", "lookup", "insertNew"}
    BY <1>11 DEF Patch, WriteCubin, Lookup, InsertNew, Goto
  <2>3. Ready(to, module[t], id[t], hashMap', idMap', registered')
    BY <1>2, <2>1, <2>2 DEF Ready
  <2>4. QED
    BY <1>4, <2>1, <2>2, <2>3
<1>12. CASE UNCHANGED vars
  BY <1>12 DEF vars, threadVars, LoaderInv, Vector
<1>13. QED
  BY <1>5, <1>6, <1>7, <1>8, <1>9, <1>10, <1>11, <1>12 DEF Next, Step

\* What redshow got of a module stays what the map has.
LEMMA RegisteredNext ==
  TypeOK /\ MapsInv /\ LoaderInv /\ RegisteredInv /\ [Next]_vars => RegisteredInv'
<1> SUFFICES ASSUME TypeOK, MapsInv, LoaderInv, RegisteredInv, [Next]_vars,
                    NEW m \in Modules, registered'[m] # None
             PROVE  /\ idMap'[IdOf[m]] = Vector(IdOf[m]) /\ Vector(IdOf[m]) # NullVector
                    /\ hashMap'[IdOf[m]] = cubinOf[IdOf[m]]
                    /\ registered'[m] = Addresses(Vector(IdOf[m]))
                    /\ UNCHANGED cubinOf
  BY DEF RegisteredInv, Vector
<1> DEFINE Known(i) == /\ idMap[i] = Vector(i) /\ Vector(i) # NullVector
                       /\ hashMap[i] = cubinOf[i]
           Kept(i) == /\ idMap'[i] = Vector(i) /\ Vector(i) # NullVector
                      /\ hashMap'[i] = cubinOf[i] /\ UNCHANGED cubinOf
<1>1. IdOf[m] \in Ids
  BY ConstantsAssumption
<1>2. Known(IdOf[m]) => Kept(IdOf[m])
  BY <1>1, MapsGrow, VectorIsThere
<1>3. CASE registered'[m] = registered[m]
  BY <1>2, <1>3 DEF RegisteredInv
<1>4. ASSUME NEW t \in Threads, Register(t), registered'[m] # registered[m]
      PROVE  Kept(IdOf[m]) /\ registered'[m] = Addresses(Vector(IdOf[m]))
  <2>1. m = module[t] /\ id[t] = IdOf[m] /\ registered'[m] = Addresses(Vector(IdOf[m]))
    BY <1>4, RegisterStep
  <2>2. Known(id[t])
    BY <1>4 DEF Register, Goto, LoaderInv
  <2>3. QED
    BY <1>2, <2>1, <2>2
<1>5. ASSUME NEW t \in Threads,
             \/ LoadModule(t) \/ CudaLoad(t) \/ HashLookup(t) \/ HashInsert(t) \/ HashAgain(t)
             \/ InsertAndRead(t) \/ Patch(t) \/ WriteCubin(t) \/ Lookup(t) \/ InsertNew(t)
      PROVE  UNCHANGED registered
  BY <1>5 DEF LoadModule, CudaLoad, HashLookup, HashInsert, HashAgain, InsertAndRead, Patch,
              WriteCubin, Lookup, InsertNew
<1>6. CASE UNCHANGED vars
  BY <1>3, <1>6 DEF vars
<1>7. QED
  <2> HIDE DEF Kept, Known
  <2>1. CASE \E t \in Threads : Register(t) /\ registered'[m] # registered[m]
    BY <1>4, <2>1 DEF Kept
  <2>2. QED
    BY <1>3, <1>5, <1>6, <2>1 DEF Next, Step

\* A loader that inserted the entry of its cubin does not miss it.
LEMMA HashFoundNext ==
  TypeOK /\ LoaderInv /\ HashFound /\ [Next]_vars => HashFound'
<1> SUFFICES ASSUME TypeOK, LoaderInv, HashFound, [Next]_vars PROVE HashFound'
  OBVIOUS
<1> USE DEF Goto
<1>1. ASSUME NEW t \in Threads, NEW to, to # "nullHash", pc' = [pc EXCEPT ![t] = to]
      PROVE  HashFound'
  BY <1>1 DEF HashFound, TypeOK
<1>2. ASSUME NEW t \in Threads, HashAgain(t) PROVE HashFound'
  <2>1. id[t] \in Ids /\ hashMap[id[t]] = cubinOf[id[t]]
    BY <1>2 DEF HashAgain, LoaderInv, TypeOK
  <2>2. hashMap[id[t]] # None
    BY <2>1, VectorIsThere
  <2>3. pc' = [pc EXCEPT ![t] = AfterHash(t)] /\ AfterHash(t) # "nullHash"
    BY <1>2, <2>2 DEF HashAgain, AfterHash
  <2>4. QED
    BY <1>1, <2>3
<1>3. ASSUME NEW t \in Threads,
             LoadModule(t) \/ CudaLoad(t) \/ HashLookup(t) \/ HashInsert(t) \/ InsertAndRead(t)
      PROVE  HashFound'
  BY <1>1, <1>3 DEF LoadModule, CudaLoad, HashLookup, AfterHash, HashInsert, InsertAndRead
<1>4. ASSUME NEW t \in Threads,
             Register(t) \/ Patch(t) \/ WriteCubin(t) \/ Lookup(t) \/ InsertNew(t)
      PROVE  HashFound'
  BY <1>1, <1>4 DEF Register, Patch, WriteCubin, Lookup, InsertNew
<1>5. CASE UNCHANGED vars
  BY <1>5 DEF vars, HashFound
<1>6. QED
  BY <1>2, <1>3, <1>4, <1>5 DEF Next, Step

\* A module is patched once all is known of it.
LEMMA PatchedNext ==
  TypeOK /\ MapsInv /\ LoaderInv /\ RegisteredInv' /\ PatchedModulesKnown /\ [Next]_vars
    => PatchedModulesKnown'
<1> SUFFICES ASSUME TypeOK, MapsInv, LoaderInv, RegisteredInv', PatchedModulesKnown, [Next]_vars,
                    NEW m \in patched'
             PROVE  m \in Modules /\ registered'[m] # None
  BY DEF PatchedModulesKnown, RegisteredInv, Vector
<1>1. CASE m \in patched
  BY <1>1, RegisteredStays DEF PatchedModulesKnown, TypeOK
<1>2. ASSUME NEW t \in Threads, Patch(t), m \notin patched
      PROVE  m \in Modules /\ registered'[m] # None
  <2>1. m = module[t]
    BY <1>2 DEF Patch, TypeOK
  <2>2. m \in Modules /\ registered[m] # None
    BY <1>2, <2>1 DEF Patch, Goto, LoaderInv, TypeOK
  <2>3. QED
    BY <2>2, RegisteredStays
<1>3. ASSUME NEW t \in Threads,
             \/ LoadModule(t) \/ CudaLoad(t) \/ HashLookup(t) \/ HashInsert(t) \/ HashAgain(t)
             \/ InsertAndRead(t) \/ Register(t) \/ WriteCubin(t) \/ Lookup(t) \/ InsertNew(t)
      PROVE  UNCHANGED patched
  BY <1>3 DEF LoadModule, CudaLoad, HashLookup, HashInsert, HashAgain, InsertAndRead, Register,
              WriteCubin, Lookup, InsertNew
<1>4. CASE UNCHANGED vars
  BY <1>1, <1>4 DEF vars
<1>5. QED
  BY <1>1, <1>2, <1>3, <1>4 DEF Next, Step

\* The inductive invariant holds at first.
LEMMA IInvInit == Init => IInv
<1> SUFFICES ASSUME Init PROVE IInv
  OBVIOUS
<1>1. TypeOK
  BY TypeOKInit
<1>2. MapsInv
  BY DEF Init, MapsInv
<1>3. \A t \in Threads : pc[t] = "app" /\ module[t] = NoModule
  BY DEF Init
<1>4. LoaderInv /\ HashFound
  BY <1>3 DEF LoaderInv, HashFound
<1>5. RegisteredInv /\ PatchedModulesKnown
  BY DEF Init, RegisteredInv, PatchedModulesKnown
<1>6. QED
  BY <1>1, <1>2, <1>4, <1>5 DEF IInv

\* Every step keeps the inductive invariant.
LEMMA IInvNext == IInv /\ [Next]_vars => IInv'
<1> SUFFICES ASSUME IInv, [Next]_vars PROVE IInv'
  OBVIOUS
<1>1. TypeOK' /\ MapsInv' /\ LoaderInv' /\ HashFound'
  BY TypeOKNext, MapsNext, LoaderNext, HashFoundNext DEF IInv
<1>2. RegisteredInv'
  BY RegisteredNext DEF IInv
<1>3. PatchedModulesKnown'
  BY <1>2, PatchedNext DEF IInv
<1>4. QED
  BY <1>1, <1>2, <1>3 DEF IInv

\* Every reachable state satisfies the inductive invariant.
THEOREM Invariance == Spec => []IInv
  BY IInvInit, IInvNext, PTL DEF Spec

\* The entry of the hash map that a loader reads unchecked is there.
THEOREM HashesFound == Spec => []HashFound
<1>1. IInv => HashFound
  BY DEF IInv
<1>2. QED
  BY <1>1, Invariance, PTL

\* A module whose code is patched is known to those that read its trace.
THEOREM PatchedKnown == Spec => []PatchedModulesKnown
<1>1. IInv => PatchedModulesKnown
  BY DEF IInv
<1>2. QED
  BY <1>1, Invariance, PTL

\* redshow gets the addresses of the functions that are defined in a section,
\* and the map their offsets, for every image that is well-formed ELF.
THEOREM FunctionsKnown == Spec => []FunctionsRegistered
<1>1. IInv => FunctionsRegistered
  <2> SUFFICES ASSUME IInv, NEW m \in Modules, registered[m] # None
               PROVE  LET cubin == cubinOf[IdOf[m]]
                          vector == idMap[IdOf[m]]
                          sectionsOf(i) == {n \in DOMAIN cubin.sections : IsFunctionOf(cubin, i, n - 1)}
                      IN  /\ registered[m] = {i \in DOMAIN vector : sectionsOf(i) # {}}
                          /\ \A i \in DOMAIN vector :
                               \A n \in sectionsOf(i) : vector[i] = cubin.sections[n].offset
    BY DEF FunctionsRegistered
  <2> DEFINE cubin == cubinOf[IdOf[m]]
             vector == idMap[IdOf[m]]
             sectionsOf(i) == {n \in DOMAIN cubin.sections : IsFunctionOf(cubin, i, n - 1)}
  <2>1. /\ vector = FunctionOffsets(cubin) /\ FunctionOffsets(cubin) # NullVector
        /\ registered[m] = Addresses(vector)
    BY DEF IInv, RegisteredInv, Vector
  <2>2. WellFormed(cubin)
    BY VectorIsThere, ConstantsAssumption DEF IInv
  <2> HIDE DEF cubin, vector
  <2>3. \A i \in DOMAIN vector :
          /\ vector[i] # 0 <=> sectionsOf(i) # {}
          /\ \A n \in sectionsOf(i) : vector[i] = cubin.sections[n].offset
    BY <2>1, <2>2, OffsetsOfFunctions
  <2> HIDE DEF sectionsOf
  <2>4. registered[m] = {i \in DOMAIN vector : sectionsOf(i) # {}}
    BY <2>1, <2>3 DEF Addresses
  <2>5. QED
    BY <2>3, <2>4 DEF cubin, vector, sectionsOf
<1>2. QED
  BY <1>1, Invariance, PTL

\* A lookup answers from the map, whatever the cache of the thread holds.
THEOREM LookupsRight == Spec => LookupRight
<1> DEFINE Right == \A t \in Threads :
                      pc[t] = "lookup" /\ pc'[t] # "lookup" =>
                        result'[t] = IF idMap[id[t]] # None THEN id[t] ELSE None
<1>1. IInv /\ [Next]_vars => Right
  <2> SUFFICES ASSUME IInv, [Next]_vars, NEW t \in Threads, pc[t] = "lookup", pc'[t] # "lookup"
               PROVE  result'[t] = IF idMap[id[t]] # None THEN id[t] ELSE None
    OBVIOUS
  <2>1. TypeOK /\ MapsInv
    BY DEF IInv
  <2>2. Lookup(t)
    <3>1. ASSUME NEW u \in Threads,
                 \/ LoadModule(u) \/ CudaLoad(u) \/ HashLookup(u) \/ HashInsert(u) \/ HashAgain(u)
                 \/ InsertAndRead(u)
          PROVE  FALSE
      BY <2>1, <3>1 DEF LoadModule, CudaLoad, HashLookup, HashInsert, HashAgain, InsertAndRead,
                        Goto, TypeOK
    <3>2. ASSUME NEW u \in Threads,
                 \/ Register(u) \/ Patch(u) \/ WriteCubin(u) \/ InsertNew(u)
                 \/ Lookup(u) /\ u # t
          PROVE  FALSE
      BY <2>1, <3>2 DEF Register, Patch, WriteCubin, InsertNew, Lookup, Goto, TypeOK
    <3>3. CASE UNCHANGED vars
      BY <3>3 DEF vars
    <3>4. QED
      BY <3>1, <3>2, <3>3 DEF Next, Step
  <2>3. id[t] \in Ids /\ id[t] % Slots \in 0..(Slots - 1)
    BY <2>1, SlotInTable, ConstantsAssumption DEF TypeOK
  <2>4. result'[t] = IF Cached(t) THEN Slot(t).entry ELSE IF idMap[id[t]] # None THEN id[t] ELSE None
    BY <2>1, <2>2 DEF Lookup, TypeOK
  <2>5. Cached(t) => Slot(t).entry = id[t] /\ idMap[id[t]] # None
    BY <2>1, <2>3 DEF MapsInv, Cached, Slot
  <2>6. QED
    BY <2>4, <2>5
<1>2. QED
  BY <1>1, Invariance, PTL DEF Spec, LookupRight

==============================================================================
