------------------------------ MODULE MCCubinMaps ------------------------------
(***************************************************************************)
(* Two threads load three modules, two of which share a cubin; the ids of  *)
(* the two cubins share a slot of the cache.  An image may have a symbol   *)
(* table without entry size, or not be for CUDA.                           *)
(***************************************************************************)
EXTENDS CubinMaps, TLC

CONSTANTS m1, m2, m3

MCIds == {1, 3}

MCIdOf == [m \in Modules |-> IF m = m3 THEN 3 ELSE 1]

Symbol(type, shndx) == [type |-> type, shndx |-> shndx]

Section(type, offset) ==
  [type |-> type, offset |-> offset, entsize |-> 0, data |-> FALSE, symbols |-> <<>>]

SymbolTable(entsize) ==
  [type |-> "SHT_SYMTAB", offset |-> 20, entsize |-> entsize, data |-> TRUE,
   symbols |-> <<Symbol("STT_NOTYPE", ShnUndef), Symbol("STT_FUNC", ShnUndef),
                 Symbol("STT_FUNC", 1), Symbol("STT_OBJECT", 1),
                 Symbol("STT_FUNC", 3), Symbol("STT_FUNC", ShnAbs)>>]

Cubin(cuda, sections) ==
  [cuda |-> cuda, sections |-> <<Section("SHT_NULL", 0)>> \o sections]

Text1 == Section("SHT_PROGBITS", 10)
Text3 == Section("SHT_PROGBITS", 30)

MCCubins ==
  {Cubin(TRUE, <<Text1, SymbolTable(24), Text3>>),
   Cubin(TRUE, <<Text1, Section("SHT_STRTAB", 20), Text3, SymbolTable(24)>>),
   Cubin(TRUE, <<Text1, SymbolTable(0), Text3>>),
   Cubin(FALSE, <<Text1, SymbolTable(24), Text3>>)}

Symmetry == Permutations(Threads)

==============================================================================
