-------------------------------- MODULE Widths --------------------------------
(***************************************************************************)
(* Integers of C, for an int of IntValues values, 2^32 on the machines the *)
(* profiler runs on, and a size_t of the square of that.                   *)
(***************************************************************************)
EXTENDS Integers

CONSTANT IntValues

ASSUME WidthAssumption == IntValues \in Nat \ {0} /\ IntValues % 2 = 0

\* The value an int holds after n was stored in it.
SInt(n) ==
  LET m == n % IntValues
  IN  IF m < IntValues \div 2 THEN m ELSE m - IntValues

\* The value a uint32_t or unsigned holds.
UInt(n) == n % IntValues

\* The value a size_t or uint64_t holds.
Size(n) == n % (IntValues * IntValues)

==============================================================================
