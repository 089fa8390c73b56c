----------------------------- MODULE CubinSymbols -----------------------------
(***************************************************************************)
(* The vector of function offsets that cubin-symbols.c computes from the   *)
(* ELF image of a cubin.  An image is a record of what the code reads of   *)
(* it: whether it is for CUDA, its sections in the order of their ELF      *)
(* numbers, beginning with the null section, number 0, each with its type  *)
(* and offset, and the entries of a symbol table with their type and       *)
(* section number.                                                         *)
(***************************************************************************)
EXTENDS Integers, Sequences

CONSTANTS
  NullVector,  \* no vector
  PastEnd      \* what is found one element past the section vector

ShnUndef == 0

\* A section number beyond any vector: SHN_ABS.
ShnAbs == 65521

\* elfGetSectionVector: elf_nextscn begins after the null section.
SectionVector(cubin) == Tail(cubin.sections)

\* Mutant: ELF section numbers are taken for indexes of the vector.
SectionIndexRaw(n) == n

\* section_index: the vector begins with section number 1.
SectionIndex(n) == n - 1

\* sectionOffset: out of range is 0, but the length itself passes the check.
SectionOffset(sections, sindex) ==
  CASE sindex > Len(sections) -> 0
    [] sindex = Len(sections) -> PastEnd
    [] OTHER -> sections[sindex + 1].offset

\* relocateSymbolsHelper.
RelocateSymbols(sections, table) ==
  IF table.entsize = 0 \/ table.symbols = <<>> \/ ~table.data
    THEN NullVector
    ELSE [i \in DOMAIN table.symbols |->
            LET sym == table.symbols[i]
            IN  IF sym.type = "STT_FUNC" /\ sym.shndx # ShnUndef
                  THEN SectionOffset(sections, SectionIndex(sym.shndx))
                  ELSE 0]

SymbolTables(sections) == {i \in DOMAIN sections : sections[i].type = "SHT_SYMTAB"}

\* The symbol table that decides is the first one.
FirstTable(sections) ==
  LET tables == SymbolTables(sections)
  IN  sections[CHOOSE i \in tables : \A j \in tables : i <= j]

\* computeCubinFunctionOffsets.
FunctionOffsets(cubin) ==
  LET sections == SectionVector(cubin)
  IN  IF ~cubin.cuda \/ SymbolTables(sections) = {}
        THEN NullVector
        ELSE RelocateSymbols(sections, FirstTable(sections))

------------------------------------------------------------------------------

\* What ELF says: a function lies in the section whose number its symbol has.
IsFunctionOf(cubin, i, number) ==
  LET sym == FirstTable(cubin.sections).symbols[i]
  IN  sym.type = "STT_FUNC" /\ sym.shndx = number /\ number # ShnUndef

IsSequence(s) == s \in Seq({s[i] : i \in DOMAIN s})

\* The symbol names no section, one of the table that is not at the start of
\* the file, or a reserved number, which is beyond the table and its end.
SymbolOK(sections, sym) ==
  /\ sym.shndx \in Nat
  /\ \/ sym.shndx = ShnUndef
     \/ sym.shndx + 1 \in DOMAIN sections /\ sections[sym.shndx + 1].offset # 0
     \/ sym.shndx > Len(sections)

\* What the ELF format guarantees of an image: section 0 is the null section,
\* and the symbols of a table name sections that there are.
WellFormed(cubin) ==
  /\ IsSequence(cubin.sections)
  /\ cubin.sections # <<>>
  /\ cubin.sections[1].type # "SHT_SYMTAB"
  /\ \A n \in SymbolTables(cubin.sections) :
       LET symbols == cubin.sections[n].symbols
       IN  /\ IsSequence(symbols)
           /\ \A i \in DOMAIN symbols : SymbolOK(cubin.sections, symbols[i])

==============================================================================
