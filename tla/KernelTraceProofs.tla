--------------------------- MODULE KernelTraceProofs ---------------------------
(***************************************************************************)
(* The launch of a kernel for every set of threads, contexts and kernels,  *)
(* every grid, sampling frequency, buffer size and width of an int.        *)
(***************************************************************************)
EXTENDS KernelTrace, FiniteSetTheorems, NaturalsInduction, WellFoundedInduction, TLAPS

\* A set of numbers that is not empty has a least one.
LEMMA LeastNumber ==
  ASSUME NEW S, S \subseteq Nat, S # {}
  PROVE  \E m \in S : \A n \in S : m <= n
<1>1. IsWellFoundedOn(OpToRel(<, Nat), Nat)
  BY NatLessThanWellFounded
<1>2. PICK m \in S : \A n \in S : ~ (<<n, m>> \in OpToRel(<, Nat))
  BY <1>1, WFMin
<1>3. \A n \in S : ~ (n < m)
  BY <1>2 DEF OpToRel
<1>4. QED
  BY <1>3

------------------------------------------------------------------------------
(* Division.                                                               *)

\* A number is its quotient times the divisor plus its remainder.
LEMMA Division ==
  ASSUME NEW a \in Int, NEW m \in Nat \ {0}
  PROVE  /\ a \div m \in Int /\ a % m \in 0..(m - 1)
         /\ a = m * (a \div m) + (a % m)
<1>1. m \in Int /\ m > 0
  OBVIOUS
<1>2. a = m * (a \div m) + (a % m)
  BY <1>1, Z3
<1>3. QED
  BY <1>2

\* Only one quotient and remainder do.
LEMMA QuotientIs ==
  ASSUME NEW m \in Nat \ {0}, NEW q \in Int, NEW r \in 0..(m - 1)
  PROVE  (m * q + r) \div m = q /\ (m * q + r) % m = r
OBVIOUS

\* Numbers a multiple of m apart have the same remainder, and the converse.
LEMMA SameRemainder ==
  ASSUME NEW m \in Nat \ {0}, NEW a \in Int, NEW b \in Int
  PROVE  a % m = b % m <=> \E k \in Int : a = b + m * k
<1> DEFINE p == a \div m
           q == b \div m
           r == a % m
           s == b % m
<1>1. /\ p \in Int /\ q \in Int /\ r \in 0..(m - 1) /\ s \in 0..(m - 1)
      /\ a = m * p + r /\ b = m * q + s
  BY Division
<1> HIDE DEF p, q, r, s
<1>2. ASSUME r = s PROVE \E k \in Int : a = b + m * k
  <2>1. p - q \in Int /\ m * (p - q) = m * p - m * q
    BY <1>1
  <2>2. a = b + m * (p - q)
    BY <1>1, <1>2, <2>1
  <2>3. QED
    BY <2>1, <2>2
<1>3. ASSUME NEW k \in Int, a = b + m * k PROVE r = s
  <2>1. q + k \in Int /\ m * (q + k) = m * q + m * k
    BY <1>1
  <2>2. a = m * (q + k) + s
    BY <1>1, <1>3, <2>1
  <2>3. a % m = s
    BY <1>1, <2>1, <2>2, QuotientIs
  <2>4. QED
    BY <2>3 DEF r
<1>4. QED
  BY <1>2, <1>3 DEF r, s

------------------------------------------------------------------------------
(* FlattenSeq, a recursive function over the positions of its argument.    *)

\* Concatenation under a name that the provers take as it is.
Joined(a, b) == a \o b

\* What FlattenSeq computes up to position n of q, if such a function exists.
IsFlattening(f, q, n) ==
  f = [i \in 1..n |-> IF i = 1 THEN q[i] ELSE Joined(f[i - 1], q[i])]

\* Each position adds its sequence to those before.
LEMMA FlatteningAt ==
  ASSUME NEW f, NEW q, NEW n, IsFlattening(f, q, n), NEW i \in 1..n
  PROVE  /\ i = 1 => f[i] = q[i]
         /\ i # 1 => f[i] = Joined(f[i - 1], q[i])
BY DEF IsFlattening

\* It exists.
LEMMA FlatteningExists ==
  ASSUME NEW S, NEW q \in Seq(Seq(S)), NEW n \in 0..Len(q)
  PROVE  \E f \in [1..n -> Seq(S)] : IsFlattening(f, q, n)
<1> DEFINE Good(k) == \E f \in [1..k -> Seq(S)] : IsFlattening(f, q, k)
           Bad == {k \in 0..Len(q) : ~Good(k)}
<1>1. SUFFICES ASSUME Bad # {} PROVE FALSE
  OBVIOUS
<1>2. PICK m \in Bad : \A k \in Bad : m <= k
  <2>1. Bad \subseteq Nat
    OBVIOUS
  <2>2. QED
    BY <1>1, <2>1, LeastNumber
<1>3. CASE m = 0
  <2> DEFINE f == [i \in {} |-> q[i]]
  <2>1. 1..0 = {} /\ f \in [1..0 -> Seq(S)]
    OBVIOUS
  <2>2. IsFlattening(f, q, 0)
    BY <2>1 DEF IsFlattening
  <2>3. QED
    BY <1>2, <1>3, <2>1, <2>2
<1>4. CASE m # 0
  <2>1. m - 1 \in 0..Len(q) /\ m \in 1..Len(q) /\ q[m] \in Seq(S)
    BY <1>2, <1>4
  <2>2. Good(m - 1)
    <3>1. ~ (m <= m - 1)
      BY <2>1
    <3>2. m - 1 \notin Bad
      BY <1>2, <3>1
    <3> HIDE DEF Good
    <3>3. QED
      BY <2>1, <3>2
  <2>a. PICK p \in Nat : p = m - 1
    BY <2>1
  <2>b. PICK f : f \in [1..p -> Seq(S)] /\ IsFlattening(f, q, p)
    BY <2>2, <2>a
  <2>3. IsFlattening(f, q, p)
    BY <2>b
  <2> DEFINE last == IF m = 1 THEN q[m] ELSE Joined(f[p], q[m])
             g == [i \in 1..m |-> IF i = m THEN last ELSE f[i]]
  <2>4. last \in Seq(S)
    BY <2>1, <2>a, <2>b DEF Joined
  <2>5. g \in [1..m -> Seq(S)]
    BY <2>1, <2>4, <2>a, <2>b
  <2>6. ASSUME NEW i \in 1..m
        PROVE  g[i] = IF i = 1 THEN q[i] ELSE Joined(g[i - 1], q[i])
    <3>1. CASE i = m
      BY <2>1, <2>a, <3>1
    <3>2. CASE i # m
      <4>1. i \in 1..p /\ (i # 1 => i - 1 \in 1..p /\ i - 1 \in 1..m)
        BY <2>1, <2>a, <3>2
      <4>2. /\ i = 1 => f[i] = q[i]
            /\ i # 1 => f[i] = Joined(f[i - 1], q[i])
        BY <2>3, <4>1, FlatteningAt
      <4>3. g[i] = f[i] /\ (i # 1 => g[i - 1] = f[i - 1])
        BY <2>1, <3>2, <4>1
      <4>4. QED
        BY <4>2, <4>3
    <3>3. QED
      BY <3>1, <3>2
  <2>7. IsFlattening(g, q, m)
    BY <2>5, <2>6 DEF IsFlattening
  <2>8. QED
    BY <1>2, <2>5, <2>7
<1>5. QED
  BY <1>3, <1>4

\* Two functions have the same values from 1 to l.
Agree(f, g, l) == \A i \in 1..l : f[i] = g[i]

\* Flattenings agree where both are defined and so do their arguments.
LEMMA FlatteningUnique ==
  ASSUME NEW q, NEW r, NEW n \in Nat, NEW m \in Nat, NEW l \in Nat, l <= n, l <= m,
         NEW f, NEW g, IsFlattening(f, q, n), IsFlattening(g, r, m),
         Agree(q, r, l)
  PROVE  Agree(f, g, l)
<1> USE DEF Agree
<1> DEFINE Bad == {i \in 1..l : f[i] # g[i]}
<1>1. SUFFICES ASSUME Bad # {} PROVE FALSE
  OBVIOUS
<1>2. PICK k \in Bad : \A i \in Bad : k <= i
  <2>1. Bad \subseteq Nat
    OBVIOUS
  <2>2. QED
    BY <1>1, <2>1, LeastNumber
<1>3. k \in 1..n /\ k \in 1..m /\ q[k] = r[k] /\ f[k] # g[k]
  BY <1>2
<1>4. /\ k = 1 => f[k] = q[k]
      /\ k # 1 => f[k] = Joined(f[k - 1], q[k])
      /\ k = 1 => g[k] = r[k]
      /\ k # 1 => g[k] = Joined(g[k - 1], r[k])
  BY <1>3, FlatteningAt
<1>5. k # 1 => f[k - 1] = g[k - 1]
  <2>1. ASSUME k # 1, f[k - 1] # g[k - 1] PROVE FALSE
    <3>1. k - 1 \in 1..l /\ ~ (k <= k - 1)
      BY <1>2, <2>1
    <3>2. k - 1 \in Bad
      BY <2>1, <3>1
    <3>3. QED
      BY <1>2, <3>1, <3>2
  <2>2. QED
    BY <2>1
<1>6. QED
  BY <1>3, <1>4, <1>5

\* FlattenSeq concatenates: a sequence added at the end of its argument is
\* added at the end of its value.
LEMMA FlattenAppend ==
  ASSUME NEW S, NEW q \in Seq(Seq(S)), NEW x \in Seq(S)
  PROVE  /\ FlattenSeq(q) \in Seq(S)
         /\ FlattenSeq(<<>>) = <<>>
         /\ FlattenSeq(Append(q, x)) = FlattenSeq(q) \o x
<1> DEFINE Flat(s) == CHOOSE f : IsFlattening(f, s, Len(s))
<1>1. \A s \in Seq(Seq(S)) :
        /\ IsFlattening(Flat(s), s, Len(s))
        /\ Flat(s) \in [1..Len(s) -> Seq(S)]
  <2> TAKE s \in Seq(Seq(S))
  <2>1. PICK f : f \in [1..Len(s) -> Seq(S)] /\ IsFlattening(f, s, Len(s))
    <3>1. Len(s) \in 0..Len(s)
      OBVIOUS
    <3>2. QED
      BY <3>1, FlatteningExists
  <2>2. IsFlattening(Flat(s), s, Len(s))
    BY <2>1
  <2> HIDE DEF Flat
  <2>3. \A i \in 1..Len(s) : Flat(s)[i] = f[i]
    <3>1. PICK k \in Nat : k = Len(s)
      OBVIOUS
    <3>2. PICK g : g = Flat(s)
      OBVIOUS
    <3>3. IsFlattening(g, s, k) /\ IsFlattening(f, s, k)
      BY <2>1, <2>2, <3>1, <3>2
    <3>4. Agree(s, s, k) /\ k \in Nat /\ k <= k
      BY DEF Agree
    <3>5. Agree(g, f, k)
      BY <3>3, <3>4, FlatteningUnique
    <3>6. QED
      BY <3>1, <3>2, <3>5 DEF Agree
  <2>4. Flat(s) = [i \in 1..Len(s) |-> Flat(s)[i]]
    BY <2>2 DEF IsFlattening
  <2>5. QED
    BY <2>1, <2>2, <2>3, <2>4
<1>2. \A s \in Seq(Seq(S)) : Len(s) # 0 => FlattenSeq(s) = Flat(s)[Len(s)]
  BY DEF FlattenSeq, IsFlattening, Joined
<1>3. FlattenSeq(<<>>) = <<>>
  BY DEF FlattenSeq
<1> DEFINE r == Append(q, x)
           n == Len(q)
<1>4. /\ r \in Seq(Seq(S)) /\ Len(r) = n + 1 /\ n \in Nat /\ r[n + 1] = x
      /\ \A i \in 1..n : r[i] = q[i]
  OBVIOUS
<1> HIDE DEF Flat, r
<1>5. /\ n = 0 => FlattenSeq(r) = x
      /\ n # 0 => FlattenSeq(r) = Joined(Flat(r)[n], x)
  <2>1. FlattenSeq(r) = Flat(r)[n + 1]
    BY <1>2, <1>4
  <2>2. /\ n + 1 = 1 => Flat(r)[n + 1] = r[n + 1]
        /\ n + 1 # 1 => Flat(r)[n + 1] = Joined(Flat(r)[n + 1 - 1], r[n + 1])
    <3>1. IsFlattening(Flat(r), r, n + 1) /\ n + 1 \in 1..(n + 1)
      BY <1>1, <1>4
    <3>2. QED
      BY <3>1, FlatteningAt
  <2>3. n + 1 - 1 = n /\ (n + 1 = 1 <=> n = 0)
    BY <1>4
  <2>4. QED
    BY <1>4, <2>1, <2>2, <2>3
<1>6. CASE n = 0
  <2>1. q = <<>> /\ <<>> \o x = x /\ <<>> \in Seq(S)
    BY <1>6
  <2>2. FlattenSeq(q) = <<>>
    BY <1>3, <2>1
  <2>3. FlattenSeq(q) \o x = x
    BY <2>1, <2>2
  <2>4. FlattenSeq(r) = FlattenSeq(q) \o x
    BY <1>5, <1>6, <2>3
  <2>5. QED
    BY <1>3, <2>1, <2>2, <2>4 DEF r
<1>7. CASE n # 0
  <2>1. \A i \in 1..n : Flat(r)[i] = Flat(q)[i]
    <3>1. /\ IsFlattening(Flat(r), r, n + 1) /\ IsFlattening(Flat(q), q, n)
          /\ n + 1 \in Nat /\ n <= n + 1 /\ n <= n
      BY <1>1, <1>4
    <3>2. PICK f : f = Flat(r)
      OBVIOUS
    <3>3. PICK g : g = Flat(q)
      OBVIOUS
    <3>4. PICK m \in Nat : m = n + 1
      BY <1>4
    <3>5. n <= m /\ Agree(r, q, n)
      BY <1>4, <3>4 DEF Agree
    <3>6. Agree(f, g, n)
      <4>1. IsFlattening(f, r, m) /\ IsFlattening(g, q, n) /\ n <= n
        BY <3>1, <3>2, <3>3, <3>4
      <4>2. QED
        BY <1>4, <3>5, <4>1, FlatteningUnique
    <3>7. QED
      BY <3>2, <3>3, <3>6 DEF Agree
  <2>2. n \in 1..n /\ Flat(q) \in [1..n -> Seq(S)] /\ FlattenSeq(q) = Flat(q)[n]
    BY <1>1, <1>2, <1>4, <1>7
  <2>3. FlattenSeq(q) \in Seq(S) /\ Flat(r)[n] = FlattenSeq(q)
    BY <2>1, <2>2
  <2>4. FlattenSeq(r) = FlattenSeq(q) \o x
    BY <1>5, <1>7, <2>3 DEF Joined
  <2>5. QED
    BY <1>3, <2>3, <2>4 DEF r
<1>8. QED
  BY <1>6, <1>7

------------------------------------------------------------------------------
(* Block sampling.                                                         *)

\* A product grows with its factor.
LEMMA Product ==
  ASSUME NEW m \in Nat \ {0}, NEW p \in Int, NEW q \in Int
  PROVE  /\ m * p \in Int
         /\ p < q => m * p + m <= m * q
         /\ p <= q => m * p <= m * q
<1>1. ASSUME NEW a \in Int, NEW b \in Int, a <= b PROVE m * a <= m * b
  <2>1. b - a \in Nat /\ m * (b - a) \in Nat
    BY <1>1
  <2>2. m * b = m * a + m * (b - a)
    BY <2>1
  <2>3. QED
    BY <2>1, <2>2
<1>2. m * (p + 1) = m * p + m /\ p + 1 \in Int
  OBVIOUS
<1>3. p < q => p + 1 <= q
  OBVIOUS
<1>4. QED
  BY <1>1, <1>2, <1>3

\* The blocks at an offset, by the runs of frequency blocks in the grid and the
\* short run at its end.
LEMMA SamplingBlocksAre ==
  ASSUME NEW g \in Nat \ {0}, NEW f \in Nat \ {0}, NEW o \in 0..(f - 1)
  PROVE  SamplingBlocks(g, f, o) = g \div f + (IF o < g % f THEN 1 ELSE 0)
<1> DEFINE q == g \div f
           r == g % f
<1>1. q \in Int /\ r \in 0..(f - 1) /\ g = f * q + r
  BY Division
<1> HIDE DEF q, r
<1>2. CASE r = 0
  <2>1. q - 1 \in Int /\ f * (q - 1) = f * q - f /\ f - 1 \in 0..(f - 1)
    BY <1>1
  <2>2. g - 1 = f * (q - 1) + (f - 1)
    BY <1>1, <1>2, <2>1
  <2>3. (g - 1) \div f = q - 1
    BY <2>1, <2>2, QuotientIs
  <2>4. SamplingBlocks(g, f, o) = (g - 1) \div f + 1
    BY <1>2 DEF SamplingBlocks, r
  <2>5. QED
    BY <1>1, <1>2, <2>3, <2>4 DEF q, r
<1>3. CASE r # 0
  <2>1. r - 1 \in 0..(f - 1) /\ g - 1 = f * q + (r - 1)
    BY <1>1, <1>3
  <2>2. (g - 1) \div f = q
    BY <1>1, <2>1, QuotientIs
  <2>3. SamplingBlocks(g, f, o) = (g - 1) \div f + (IF o >= r THEN 0 ELSE 1)
    BY <1>3 DEF SamplingBlocks, r
  <2>4. QED
    BY <1>1, <2>2, <2>3 DEF q, r
<1>4. QED
  BY <1>2, <1>3

\* The host's count of the blocks the device traces is right for every grid,
\* frequency and offset.
THEOREM SamplingCounts ==
  ASSUME NEW g \in Nat \ {0}, NEW f \in Nat \ {0}, NEW o \in 0..(f - 1)
  PROVE  Cardinality(TracedBlocks(g, f, o)) = SamplingBlocks(g, f, o)
<1> DEFINE S == TracedBlocks(g, f, o)
           q == g \div f
           r == g % f
           n == q + (IF o < r THEN 1 ELSE 0)
           h == [k \in 1..n |-> f * (k - 1) + o]
<1>1. q \in Int /\ r \in 0..(f - 1) /\ g = f * q + r
  BY Division
<1>2. S = {b \in 0..(g - 1) : b % f = o}
  BY DEF TracedBlocks
<1> HIDE DEF q, r, S
<1>3. q >= 0
  <2>1. ASSUME q < 0 PROVE FALSE
    <3>1. f * q + f <= f * 0
      BY <1>1, <2>1, Product
    <3>2. f * 0 = 0
      OBVIOUS
    <3>3. QED
      BY <1>1, <3>1, <3>2, Product
  <2>2. QED
    BY <1>1, <2>1
<1>4. n \in Nat
  BY <1>1, <1>3
<1>5. ASSUME NEW k \in 1..n PROVE h[k] \in S /\ h[k] \div f = k - 1
  <2>1. k - 1 \in Nat /\ f * (k - 1) \in Nat
    BY <1>4
  <2>2. h[k] = f * (k - 1) + o /\ h[k] \in Nat
    BY <2>1
  <2>3. h[k] \div f = k - 1 /\ h[k] % f = o
    <3>1. PICK j \in Int : j = k - 1
      BY <2>1
    <3>2. (f * j + o) \div f = j /\ (f * j + o) % f = o
      BY QuotientIs
    <3> HIDE DEF h
    <3>3. QED
      BY <2>2, <3>1, <3>2
  <2>4. h[k] < g
    <3>1. CASE k - 1 < q
      <4>1. f * (k - 1) + f <= f * q /\ f * q \in Int
        BY <1>1, <2>1, <3>1, Product
      <4>2. QED
        BY <1>1, <2>1, <2>2, <4>1
    <3>2. CASE ~ (k - 1 < q)
      <4>1. k - 1 = q /\ o < r
        BY <1>1, <3>2
      <4>2. QED
        BY <1>1, <2>1, <2>2, <4>1
    <3>3. QED
      BY <3>1, <3>2
  <2>5. h[k] \in 0..(g - 1)
    BY <2>2, <2>4
  <2>6. QED
    BY <1>2, <2>3, <2>5
<1>6. ASSUME NEW b \in S PROVE \E k \in 1..n : h[k] = b
  <2>1. b \in Nat /\ b < g /\ b % f = o
    BY <1>2
  <2> DEFINE p == b \div f
  <2>2. p \in Int /\ b = f * p + o
    BY <2>1, Division
  <2> HIDE DEF p
  <2>3. p >= 0
    <3>1. ASSUME p < 0 PROVE FALSE
      <4>1. f * p + f <= f * 0 /\ f * 0 = 0 /\ f * p \in Int
        BY <2>2, <3>1, Product
      <4>2. QED
        BY <2>1, <2>2, <4>1
    <3>2. QED
      BY <2>2, <3>1
  <2>4. ~ (q < p)
    <3>1. ASSUME q < p PROVE FALSE
      <4>1. f * q + f <= f * p /\ f * p \in Int /\ f * q \in Int
        BY <1>1, <2>2, <3>1, Product
      <4>2. QED
        BY <1>1, <2>1, <2>2, <4>1
    <3>2. QED
      BY <3>1
  <2>5. p = q => o < r
    <3>1. p = q => f * p = f * q /\ f * p \in Int
      BY <2>2, Product
    <3>2. QED
      BY <1>1, <2>1, <2>2, <3>1
  <2>6. p + 1 \in 1..n /\ (p + 1) - 1 = p
    BY <1>1, <2>2, <2>3, <2>4, <2>5
  <2>7. h[p + 1] = b
    BY <2>2, <2>6
  <2>8. QED
    BY <2>6, <2>7
<1> HIDE DEF n
<1>7. h \in [1..n -> S]
  BY <1>5
<1>8. \A i, j \in 1..n : h[i] = h[j] => i = j
  <2> TAKE i, j \in 1..n
  <2> HAVE h[i] = h[j]
  <2>1. i - 1 = j - 1
    <3> HIDE DEF h
    <3>1. QED
      BY <1>5
  <2>2. QED
    BY <1>4, <2>1
<1> HIDE DEF h
<1>9. h \in Bijection(1..n, S)
  BY <1>6, <1>7, <1>8 DEF Bijection, Injection, Surjection, IsInjective
<1>10. Cardinality(S) = n
  BY <1>4, <1>9, FS_CountingElements DEF ExistsBijection
<1>11. QED
  BY <1>10, SamplingBlocksAre DEF n, q, r, S

\* There are as many as the grid has blocks at most.
LEMMA SamplingBound ==
  ASSUME NEW g \in Nat \ {0}, NEW f, NEW o
  PROVE  Cardinality(TracedBlocks(g, f, o)) \in 0..g
<1>1. TracedBlocks(g, f, o) \in SUBSET (0..(g - 1))
  BY DEF TracedBlocks
<1>2. IsFiniteSet(0..(g - 1)) /\ Cardinality(0..(g - 1)) = g
  BY FS_Interval
<1>3. QED
  BY <1>1, <1>2, FS_Subset, FS_CardinalityType

------------------------------------------------------------------------------
(* The device's counter and the host's idea of its last value.             *)

\* Values that an unsigned int cannot tell apart.
SameUInt(a, b) == \E k \in Int : a = b + IntValues * k

\* Storing a number in an int, an unsigned or a size_t keeps its low bits.
LEMMA LowBits ==
  ASSUME NEW a \in Int
  PROVE  /\ SInt(a) \in Int /\ SameUInt(SInt(a), a)
         /\ UInt(a) \in Counters /\ SameUInt(UInt(a), a)
         /\ Size(a) \in Int /\ SameUInt(Size(a), a)
<1>1. IntValues \in Nat \ {0}
  BY WidthAssumption
<1>2. /\ a \div IntValues \in Int /\ a % IntValues \in 0..(IntValues - 1)
      /\ a = IntValues * (a \div IntValues) + (a % IntValues)
  BY <1>1, Division
<1> DEFINE q == a \div IntValues
           r == a % IntValues
<1> HIDE DEF q, r
<1>3. /\ q \in Int /\ r \in 0..(IntValues - 1) /\ a = IntValues * q + r
  BY <1>2 DEF q, r
<1>4. UInt(a) \in Counters /\ UInt(a) = r
  BY <1>3 DEF UInt, Counters, r
<1>5. -q \in Int /\ IntValues * (-q) = -(IntValues * q) /\ IntValues * q \in Int
  BY <1>1, <1>3
<1>6. r = a + IntValues * (-q)
  BY <1>1, <1>3, <1>5
<1>7. SameUInt(UInt(a), a)
  BY <1>4, <1>5, <1>6 DEF SameUInt
<1>8. SInt(a) \in Int /\ (SInt(a) = r \/ SInt(a) = r - IntValues)
  BY <1>1, <1>3 DEF SInt, r
<1>9. -q - 1 \in Int /\ IntValues * (-q - 1) = IntValues * (-q) - IntValues
  BY <1>1, <1>3
<1>10. SameUInt(SInt(a), a)
  <2>1. CASE SInt(a) = r
    BY <1>5, <1>6, <2>1 DEF SameUInt
  <2>2. CASE SInt(a) = r - IntValues
    <3>1. SInt(a) = a + IntValues * (-q - 1)
      BY <1>1, <1>3, <1>5, <1>6, <1>9, <2>2
    <3>2. QED
      BY <1>9, <3>1 DEF SameUInt
  <2>3. QED
    BY <1>8, <2>1, <2>2
<1>11. Size(a) \in Int /\ SameUInt(Size(a), a)
  <2> DEFINE w == IntValues * IntValues
  <2>1. w \in Nat \ {0}
    BY <1>1, Product
  <2>2. PICK p \in Int : p = a \div w
    BY <2>1, Division
  <2>3. PICK s \in Int : s = a % w
    BY <2>1, Division
  <2>4. a = w * p + s /\ Size(a) = s
    BY <2>1, <2>2, <2>3, Division DEF Size
  <2>5. w * p = IntValues * (IntValues * p) /\ IntValues * p \in Int
    BY <1>1, <2>2
  <2>6. -(IntValues * p) \in Int /\ IntValues * (-(IntValues * p)) = -(w * p)
    BY <1>1, <2>2, <2>5
  <2>7. s = a + IntValues * (-(IntValues * p))
    BY <2>1, <2>2, <2>3, <2>4, <2>6
  <2>8. QED
    BY <2>4, <2>6, <2>7 DEF SameUInt
<1>12. QED
  BY <1>4, <1>7, <1>8, <1>10, <1>11

\* They are equal as unsigned ints, and the relation is that of a congruence.
LEMMA Congruence ==
  ASSUME NEW a \in Int, NEW b \in Int, NEW c \in Int, NEW d \in Int
  PROVE  /\ UInt(a) = UInt(b) <=> SameUInt(a, b)
         /\ SameUInt(a, b) => SameUInt(b, a)
         /\ SameUInt(a, b) /\ SameUInt(b, c) => SameUInt(a, c)
         /\ SameUInt(a, b) /\ SameUInt(c, d) => SameUInt(a + c, b + d) /\ SameUInt(a - c, b - d)
<1>1. IntValues \in Nat \ {0}
  BY WidthAssumption
<1>2. UInt(a) = UInt(b) <=> SameUInt(a, b)
  BY <1>1, SameRemainder DEF UInt, SameUInt
<1>3. ASSUME SameUInt(a, b) PROVE SameUInt(b, a)
  <2>1. PICK k \in Int : a = b + IntValues * k
    BY <1>3 DEF SameUInt
  <2>2. -k \in Int /\ b = a + IntValues * (-k)
    BY <1>1, <2>1
  <2>3. QED
    BY <2>2 DEF SameUInt
<1>4. ASSUME SameUInt(a, b), SameUInt(b, c) PROVE SameUInt(a, c)
  <2>1. PICK k \in Int : a = b + IntValues * k
    BY <1>4 DEF SameUInt
  <2>2. PICK j \in Int : b = c + IntValues * j
    BY <1>4 DEF SameUInt
  <2>3. k + j \in Int /\ a = c + IntValues * (k + j)
    BY <1>1, <2>1, <2>2
  <2>4. QED
    BY <2>3 DEF SameUInt
<1>5. ASSUME SameUInt(a, b), SameUInt(c, d)
      PROVE  SameUInt(a + c, b + d) /\ SameUInt(a - c, b - d)
  <2>1. PICK k \in Int : a = b + IntValues * k
    BY <1>5 DEF SameUInt
  <2>2. PICK j \in Int : c = d + IntValues * j
    BY <1>5 DEF SameUInt
  <2>3. /\ k + j \in Int /\ a + c = (b + d) + IntValues * (k + j)
        /\ k - j \in Int /\ a - c = (b - d) + IntValues * (k - j)
    BY <1>1, <2>1, <2>2
  <2>4. QED
    BY <2>3 DEF SameUInt
<1>6. QED
  BY <1>2, <1>3, <1>4, <1>5

\* A thread that exits lowers the counter by one, whatever its width.
LEMMA CountDown ==
  ASSUME NEW a \in Int
  PROVE  UInt(UInt(a) - 1) = UInt(a - 1)
<1>1. UInt(a) \in Int /\ SameUInt(UInt(a), a)
  BY LowBits DEF Counters
<1>2. SameUInt(1, 1)
  BY WidthAssumption DEF SameUInt
<1>3. SameUInt(UInt(a) - 1, a - 1)
  BY <1>1, <1>2, Congruence
<1>4. UInt(a) - 1 \in Int /\ a - 1 \in Int
  BY <1>1
<1>5. QED
  BY <1>3, <1>4, Congruence

\* A difference of ints as a size_t equals the counter only when no thread is
\* left, if an int distinguishes as many values as the launch has threads.
LEMMA LeftIsNone ==
  ASSUME NEW a \in Int, NEW b \in Int, NEW live \in 0..(IntValues - 1),
         UInt(a - b + live) = Size(SInt(a) - SInt(b))
  PROVE  live = 0
<1>1. IntValues \in Nat \ {0}
  BY WidthAssumption
<1>2. /\ SInt(a) \in Int /\ SameUInt(SInt(a), a) /\ SInt(b) \in Int /\ SameUInt(SInt(b), b)
  BY LowBits
<1>3. PICK x \in Int : x = SInt(a) - SInt(b)
  BY <1>2
<1>4. a - b \in Int /\ SameUInt(x, a - b)
  BY <1>2, <1>3, Congruence
<1>5. PICK y \in Int : y = Size(x) /\ SameUInt(y, x)
  BY LowBits
<1>6. SameUInt(y, a - b)
  BY <1>4, <1>5, Congruence
<1>7. PICK z \in Int : z = a - b + live
  <2>1. live \in Int
    BY <1>1
  <2>2. QED
    BY <2>1
<1>8. UInt(z) \in Int /\ SameUInt(UInt(z), z) /\ UInt(z) = y
  BY <1>3, <1>5, <1>7, LowBits DEF Counters
<1>9. SameUInt(z, a - b)
  <2>1. SameUInt(z, y)
    BY <1>5, <1>7, <1>8, Congruence
  <2>2. QED
    BY <1>4, <1>5, <1>6, <1>7, <2>1, Congruence
<1>10. PICK k \in Int : z = (a - b) + IntValues * k
  BY <1>9 DEF SameUInt
<1>11. live = IntValues * k /\ live \in Int /\ IntValues * k \in Int
  BY <1>1, <1>7, <1>10
<1>12. ~ (0 < k)
  <2>1. ASSUME 0 < k PROVE FALSE
    <3>1. IntValues * 0 + IntValues <= IntValues * k
      BY <1>1, <2>1, Product
    <3>2. IntValues * 0 = 0
      BY <1>1
    <3>3. QED
      BY <1>1, <1>11, <3>1, <3>2
  <2>2. QED
    BY <2>1
<1>13. ~ (k < 0)
  <2>1. ASSUME k < 0 PROVE FALSE
    <3>1. IntValues * k + IntValues <= IntValues * 0
      BY <1>1, <2>1, Product
    <3>2. IntValues * 0 = 0
      BY <1>1
    <3>3. QED
      BY <1>1, <1>11, <3>1, <3>2
  <2>2. QED
    BY <2>1
<1>14. k = 0
  BY <1>12, <1>13
<1>15. QED
  BY <1>1, <1>11, <1>14

------------------------------------------------------------------------------
(* Types, and the calls the launches are made in.                          *)

\* The numbers among the constants.
LEMMA Constants ==
  /\ Frequency \in Nat \ {0} /\ BlockDim \in Nat \ {0}
  /\ Capacity \in Nat \ {0} /\ MaxGrid \in Nat \ {0} /\ MaxRecords \in Nat
  /\ MaxThreads \in Nat /\ IntValues \in Nat \ {0}
<1>1. /\ Frequency \in Nat \ {0} /\ BlockDim \in Nat \ {0}
      /\ Capacity \in Nat \ {0} /\ MaxGrid \in Nat \ {0} /\ MaxRecords \in Nat
  BY ConstantsAssumption
<1>2. QED
  BY <1>1, WidthAssumption DEF MaxThreads

\* An offset is below the frequency.
LEMMA OffsetRange ==
  ASSUME NEW g, NEW o \in Offsets(g, Frequency)
  PROVE  o \in 0..(Frequency - 1)
<1>1. PICK r \in 0..(g - 1) : o = r % Frequency
  BY DEF Offsets
<1>2. QED
  BY <1>1, Constants, Division

\* A step of a thread in a launch leaves the calls alone and moves that thread
\* only, which stays in its call.
LEMMA HostMoves ==
  ASSUME NEW t \in Threads, HostStep(t), pc \in [Threads -> Locations]
  PROVE  /\ UNCHANGED <<calling, created, hostBuffer, sampling, launch>>
         /\ pc[t] # "app" /\ pc'[t] # "app"
         /\ \A u \in Threads : u # t => pc'[u] = pc[u]
         /\ pc' \in [Threads -> Locations]
BY DEF HostStep, ResetBuffer, KernelStart, SyncSampled, SkipFiltered, Poll, KeepPolling,
       PoolExhausted, CopyRecords, ContinueKernel, Consume, StreamSync, Goto, Locations,
       threadVars, channelVars, deviceVars

\* A step of the device leaves the host alone.
LEMMA DeviceMoves ==
  ASSUME NEW c \in Contexts, DeviceStep(c)
  PROVE  UNCHANGED <<pc, threadVars, channelVars, resetOffset>>
BY DEF DeviceStep, Push, Resume, ThreadExit, KernelEnd, threadVars, channelVars

\* Calls on one context exclude one another.
LEMMA CallsNext == TypeOK /\ CallsInv /\ [Next]_vars => CallsInv'
<1> SUFFICES ASSUME TypeOK, CallsInv, [Next]_vars PROVE CallsInv'
  OBVIOUS
<1>1. /\ pc \in [Threads -> Locations] /\ calling \in [Threads -> SUBSET created]
      /\ created \subseteq Contexts
  BY DEF TypeOK
<1>2. ASSUME UNCHANGED calling, \A u \in Threads : pc'[u] = "app" <=> pc[u] = "app"
      PROVE  CallsInv'
  BY <1>2 DEF CallsInv
<1>3. ASSUME NEW t \in Threads, CreateContext(t) PROVE CallsInv'
  BY <1>2, <1>3 DEF CreateContext
<1>4. ASSUME NEW t \in Threads, ApiEnter(t) PROVE CallsInv'
  <2>1. PICK c \in created : Calls!Enter(t, c)
    BY <1>4 DEF ApiEnter
  <2>2. calling' = [calling EXCEPT ![t] = {c}] /\ \A u \in Threads : c \notin calling[u]
    BY <2>1 DEF Calls!Enter
  <2>3. pc' = [pc EXCEPT ![t] = "api"]
    BY <1>4 DEF ApiEnter, Goto
  <2>4. \A u \in Threads : calling'[u] = IF u = t THEN {c} ELSE calling[u]
    BY <1>1, <2>2
  <2>5. \A u \in Threads : pc'[u] = IF u = t THEN "api" ELSE pc[u]
    BY <1>1, <2>3
  <2>6. \A u, v \in Threads : u # v => calling'[u] \intersect calling'[v] = {}
    <3>1. \A u \in Threads : calling[u] \intersect {c} = {} /\ {c} \intersect calling[u] = {}
      BY <2>2
    <3>2. \A u, v \in Threads : u # v => calling[u] \intersect calling[v] = {}
      BY DEF CallsInv
    <3>3. QED
      BY <2>4, <3>1, <3>2
  <2>7. QED
    BY <1>1, <2>1, <2>4, <2>5, <2>6 DEF CallsInv
<1>5. ASSUME NEW t \in Threads, ApiExit(t) PROVE CallsInv'
  <2>1. calling' = [calling EXCEPT ![t] = {}] /\ pc' = [pc EXCEPT ![t] = "app"]
    BY <1>5 DEF ApiExit, Calls!Exit, Goto
  <2>2. \A u \in Threads : calling'[u] = IF u = t THEN {} ELSE calling[u]
    BY <1>1, <2>1
  <2>3. \A u \in Threads : pc'[u] = IF u = t THEN "app" ELSE pc[u]
    BY <1>1, <2>1
  <2>4. QED
    BY <2>2, <2>3 DEF CallsInv
<1>6. ASSUME NEW t \in Threads, LaunchBegin(t) PROVE CallsInv'
  <2>1. UNCHANGED calling /\ pc[t] = "api" /\ pc' = [pc EXCEPT ![t] = "reset"]
    BY <1>6 DEF LaunchBegin, Goto
  <2>2. QED
    BY <1>1, <1>2, <2>1
<1>7. ASSUME NEW t \in Threads, HostStep(t) PROVE CallsInv'
  BY <1>1, <1>2, <1>7, HostMoves
<1>8. ASSUME NEW c \in Contexts, DeviceStep(c) PROVE CallsInv'
  BY <1>2, <1>8, DeviceMoves DEF threadVars
<1>9. CASE UNCHANGED vars
  BY <1>2, <1>9 DEF vars, threadVars
<1>10. QED
  BY <1>3, <1>4, <1>5, <1>6, <1>7, <1>8, <1>9 DEF Next

\* A thread in a call is in one.
LEMMA OneCall ==
  CallsInv => \A t \in Threads : Cardinality(calling[t]) = IF pc[t] = "app" THEN 0 ELSE 1
BY FS_EmptySet, FS_Singleton DEF CallsInv

\* The context of the call is the only one in the thread's set, and is no other
\* thread's.
LEMMA CurrentIs ==
  ASSUME CallsInv, NEW t \in Threads, pc[t] # "app"
  PROVE  /\ Current(t) \in Contexts /\ calling[t] = {Current(t)}
         /\ \A u \in Threads : u # t /\ pc[u] # "app" => Current(u) # Current(t)
<1>1. \A u \in Threads : pc[u] # "app" => Current(u) \in Contexts /\ calling[u] = {Current(u)}
  BY DEF CallsInv, Current
<1>2. QED
  BY <1>1 DEF CallsInv

\* The first state has the invariant.
LEMMA LaunchInit == Init => LaunchInv
<1> SUFFICES ASSUME Init PROVE LaunchInv
  OBVIOUS
<1>1. /\ calling = [t \in Threads |-> {}] /\ \A t \in Threads : calling[t] = {}
      /\ created = {} /\ \A t \in Threads : pc[t] = "app"
  BY DEF Init, Calls!Init
<1>2. CallsInv
  BY <1>1 DEF CallsInv
<1>3. TypeOK
  <2>1. /\ pc \in [Threads -> Locations] /\ calling \in [Threads -> SUBSET created]
        /\ created \subseteq Contexts /\ hostBuffer \subseteq Threads
        /\ buffer \in [Threads -> created \union {NoContext}]
    BY <1>1 DEF Init, Locations
  <2>2. sampling \in [Threads -> BOOLEAN]
    BY Zenon DEF Init
  <2>3. /\ launch \in [Threads -> [name : Kernels, grid : 1..MaxGrid]]
        /\ snapshot \in [Threads -> [full : BOOLEAN, head : 0..Capacity, threads : Counters]]
    <3>1. PICK any \in Kernels : any = CHOOSE k \in Kernels : TRUE
      BY ConstantsAssumption
    <3>2. 1 \in 1..MaxGrid /\ 0 \in 0..Capacity /\ 0 \in Counters
      BY Constants DEF Counters
    <3>3. launch \in [Threads -> [name : Kernels, grid : 1..MaxGrid]]
      BY <3>1, <3>2 DEF Init
    <3>4. QED
      BY <3>2, <3>3 DEF Init
  <2>4. /\ trace \in [Threads -> Records] /\ analysed \in [Threads -> Records]
        /\ queue \in [Threads -> Seq(Records)]
    <3>1. <<>> \in Records /\ <<>> \in Seq(Records)
      BY DEF Records
    <3>2. QED
      BY <3>1 DEF Init
  <2>5. /\ resetOffset \in [Contexts -> 0..(Frequency - 1)]
        /\ device \in [Contexts -> DeviceBuffers]
        /\ \A c \in Contexts : Len(device[c].records) <= Capacity
    <3>1. 0 \in 0..(Frequency - 1) /\ 0 \in Counters /\ 0 <= Capacity /\ <<>> \in Records
      BY Constants DEF Counters, Records
    <3>2. QED
      BY <3>1 DEF Init, DeviceBuffers
  <2>6. kernel \in [Contexts -> KernelStates]
    <3>1. 0 \in 0..MaxThreads /\ 0 \in 0..MaxRecords
      BY Constants
    <3>2. QED
      BY <3>1 DEF Init, KernelStates
  <2>7. QED
    BY <1>2, <2>1, <2>2, <2>3, <2>4, <2>5, <2>6, OneCall DEF TypeOK
<1>4. KernelInv
  <2>1. \A c \in Contexts : ~kernel[c].running /\ kernel[c].live = 0
    BY DEF Init
  <2>2. QED
    BY <1>1, <2>1 DEF KernelInv, Launched, QuietBetweenLaunches
<1>5. FullInv
  BY DEF Init, FullInv
<1>6. ChannelInv
  <2>1. \A t \in Threads : trace[t] = <<>> /\ queue[t] = <<>>
    BY DEF Init
  <2>2. QED
    BY <1>1, <2>1 DEF ChannelInv
<1>7. QED
  BY <1>2, <1>3, <1>4, <1>5, <1>6 DEF LaunchInv

\* The context whose buffers a thread in a launch uses was created.
LEMMA BufferCreated ==
  ASSUME TypeOK, CallsInv, NEW t \in Threads, pc[t] # "app"
  PROVE  BufferOf(t) \in created /\ BufferOf(t) \in Contexts
<1>1. Current(t) \in created
  BY CurrentIs DEF TypeOK
<1>2. QED
  BY <1>1 DEF BufferOf, TypeOK

\* A step keeps the types of what the host has of its own.
LEMMA HostTypesNext ==
  ASSUME TypeOK, CallsInv, [Next]_vars
  PROVE  /\ pc' \in [Threads -> Locations]
         /\ calling' \in [Threads -> SUBSET created']
         /\ created' \subseteq Contexts /\ hostBuffer' \subseteq Threads
         /\ sampling' \in [Threads -> BOOLEAN]
         /\ launch' \in [Threads -> [name : Kernels, grid : 1..MaxGrid]]
<1> USE DEF TypeOK
<1>1. ASSUME UNCHANGED <<calling, created, hostBuffer, sampling, launch>>
      PROVE  /\ calling' \in [Threads -> SUBSET created']
             /\ created' \subseteq Contexts /\ hostBuffer' \subseteq Threads
             /\ sampling' \in [Threads -> BOOLEAN]
             /\ launch' \in [Threads -> [name : Kernels, grid : 1..MaxGrid]]
  BY <1>1
<1>2. ASSUME NEW t \in Threads, CreateContext(t)
      PROVE  /\ UNCHANGED <<pc, calling, sampling, launch>>
             /\ created \subseteq created' /\ created' \subseteq Contexts
             /\ hostBuffer' \subseteq Threads
             /\ calling' \in [Threads -> SUBSET created']
  BY <1>2 DEF CreateContext
<1>3. ASSUME NEW t \in Threads, ApiEnter(t)
      PROVE  /\ UNCHANGED <<created, hostBuffer, sampling, launch>>
             /\ calling' \in [Threads -> SUBSET created']
             /\ pc' \in [Threads -> Locations]
  BY <1>3 DEF ApiEnter, Calls!Enter, Goto, Locations
<1>4. ASSUME NEW t \in Threads, ApiExit(t)
      PROVE  /\ UNCHANGED <<created, hostBuffer, sampling, launch>>
             /\ calling' \in [Threads -> SUBSET created']
             /\ pc' \in [Threads -> Locations]
  BY <1>4 DEF ApiExit, Calls!Exit, Goto, Locations
<1>5. ASSUME NEW t \in Threads, LaunchBegin(t)
      PROVE  /\ UNCHANGED <<calling, created, hostBuffer>>
             /\ sampling' \in [Threads -> BOOLEAN]
             /\ launch' \in [Threads -> [name : Kernels, grid : 1..MaxGrid]]
             /\ pc' \in [Threads -> Locations]
  <2>1. PICK k \in Kernels, g \in 1..MaxGrid :
          /\ launch' = [launch EXCEPT ![t] = [name |-> k, grid |-> g]]
          /\ sampling' = [sampling EXCEPT ![t] = @ /\ k \in Whitelist]
    BY <1>5 DEF LaunchBegin
  <2>2. sampling' \in [Threads -> BOOLEAN]
    BY <2>1, Zenon
  <2>3. QED
    BY <1>5, <2>1, <2>2 DEF LaunchBegin, Goto, Locations
<1>6. CASE UNCHANGED vars
  BY <1>1, <1>6 DEF vars, threadVars
<1>7. ASSUME NEW c \in Contexts, DeviceStep(c)
      PROVE  UNCHANGED <<pc, calling, created, hostBuffer, sampling, launch>>
  BY <1>7, DeviceMoves DEF threadVars
<1> SUFFICES ASSUME Next
             PROVE  /\ pc' \in [Threads -> Locations]
                    /\ calling' \in [Threads -> SUBSET created']
                    /\ created' \subseteq Contexts /\ hostBuffer' \subseteq Threads
                    /\ sampling' \in [Threads -> BOOLEAN]
                    /\ launch' \in [Threads -> [name : Kernels, grid : 1..MaxGrid]]
  BY <1>6
<1>8. CASE \E t \in Threads : HostStep(t)
  BY <1>1, <1>8, HostMoves
<1>9. CASE \E c \in Contexts : DeviceStep(c)
  BY <1>1, <1>7, <1>9
<1>10. QED
  BY <1>2, <1>3, <1>4, <1>5, <1>8, <1>9 DEF Next

\* A step keeps the types of the channels and of the copies the host takes.
LEMMA ChannelTypesNext ==
  ASSUME TypeOK, CallsInv, KernelInv, [Next]_vars
  PROVE  /\ buffer' \in [Threads -> created' \union {NoContext}]
         /\ snapshot' \in [Threads -> [full : BOOLEAN, head : 0..Capacity, threads : Counters]]
         /\ trace' \in [Threads -> Records] /\ analysed' \in [Threads -> Records]
         /\ queue' \in [Threads -> Seq(Records)]
<1> DEFINE Typed ==
       /\ buffer' \in [Threads -> created' \union {NoContext}]
       /\ snapshot' \in [Threads -> [full : BOOLEAN, head : 0..Capacity, threads : Counters]]
       /\ trace' \in [Threads -> Records] /\ analysed' \in [Threads -> Records]
       /\ queue' \in [Threads -> Seq(Records)]
<1>1. /\ buffer \in [Threads -> created \union {NoContext}]
      /\ snapshot \in [Threads -> [full : BOOLEAN, head : 0..Capacity, threads : Counters]]
      /\ trace \in [Threads -> Records] /\ analysed \in [Threads -> Records]
      /\ queue \in [Threads -> Seq(Records)]
  BY DEF TypeOK
<1>2. ASSUME UNCHANGED <<created, buffer, snapshot, channelVars>> PROVE Typed
  BY <1>1, <1>2 DEF channelVars
<1>3. ASSUME NEW t \in Threads, CreateContext(t) PROVE Typed
  BY <1>1, <1>3 DEF CreateContext, channelVars
<1>4. ASSUME NEW t \in Threads, ApiEnter(t) \/ ApiExit(t) PROVE Typed
  BY <1>2, <1>4 DEF ApiEnter, ApiExit
<1>5. ASSUME NEW t \in Threads, LaunchBegin(t) PROVE Typed
  <2>1. <<>> \in Records
    BY DEF Records
  <2>2. QED
    BY <1>1, <1>5, <2>1 DEF LaunchBegin
<1>6. ASSUME NEW t \in Threads, ResetBuffer(t) PROVE Typed
  <2>1. BufferOf(t) \in created
    BY <1>6, BufferCreated DEF ResetBuffer, Goto
  <2>2. QED
    BY <1>1, <1>6, <2>1 DEF ResetBuffer, channelVars
<1>7. ASSUME NEW t \in Threads,
             \/ KernelStart(t) \/ SyncSampled(t) \/ SkipFiltered(t) \/ KeepPolling(t)
             \/ StreamSync(t)
      PROVE  Typed
  BY <1>2, <1>7 DEF KernelStart, SyncSampled, SkipFiltered, KeepPolling, StreamSync, threadVars
<1>8. ASSUME NEW t \in Threads, Poll(t) PROVE Typed
  <2>1. buffer[t] \in Contexts
    BY <1>8 DEF Poll, Goto, KernelInv, Launched
  <2>2. /\ device[buffer[t]] \in DeviceBuffers /\ Len(device[buffer[t]].records) <= Capacity
    BY <2>1 DEF TypeOK
  <2>3. /\ device[buffer[t]].full \in BOOLEAN /\ device[buffer[t]].threads \in Counters
        /\ Len(device[buffer[t]].records) \in 0..Capacity
    BY <2>2, Constants DEF DeviceBuffers, Records
  <2>4. QED
    BY <1>1, <1>8, <2>3 DEF Poll, channelVars
<1>9. ASSUME NEW t \in Threads, PoolExhausted(t) \/ Consume(t) PROVE Typed
  <2>1. UNCHANGED <<buffer, snapshot, created, trace>>
    BY <1>9 DEF PoolExhausted, Consume, threadVars
  <2>2. /\ analysed' = [analysed EXCEPT ![t] = @ \o FlattenSeq(queue[t])]
        /\ queue' = [queue EXCEPT ![t] = <<>>]
    BY <1>9 DEF PoolExhausted, Consume
  <2>3. FlattenSeq(queue[t]) \in Records /\ analysed[t] \in Records
    <3>1. queue[t] \in Seq(Seq(1..MaxRecords)) /\ <<>> \in Seq(1..MaxRecords)
      BY <1>1 DEF Records
    <3>2. QED
      BY <1>1, <3>1, FlattenAppend DEF Records
  <2>4. analysed[t] \o FlattenSeq(queue[t]) \in Records
    BY <2>3 DEF Records
  <2>5. analysed' \in [Threads -> Records]
    BY <1>1, <2>2, <2>4
  <2>6. queue' \in [Threads -> Seq(Records)]
    BY <1>1, <2>2
  <2>7. QED
    BY <1>1, <2>1, <2>5, <2>6
<1>10. ASSUME NEW t \in Threads, CopyRecords(t) PROVE Typed
  <2>1. buffer[t] \in Contexts
    BY <1>10 DEF CopyRecords, Goto, KernelInv, Launched
  <2>2. device[buffer[t]].records \in Records
    BY <2>1 DEF TypeOK, DeviceBuffers
  <2>3. snapshot[t].head \in 0..Capacity
    BY <1>1
  <2>4. PICK r \in Records : r = device[buffer[t]].records
    BY <2>2
  <2>5. PICK h \in 0..Capacity : h = snapshot[t].head
    BY <2>3
  <2>6. trace' = [trace EXCEPT ![t] = SubSeq(r, 1, IF h < Len(r) THEN h ELSE Len(r))]
    BY <1>10, <2>4, <2>5 DEF CopyRecords
  <2>7. SubSeq(r, 1, IF h < Len(r) THEN h ELSE Len(r)) \in Records
    <3>1. h \in Nat /\ Len(r) \in Nat /\ r \in Seq(1..MaxRecords)
      BY Constants DEF Records
    <3>2. \A n \in 0..Len(r) : SubSeq(r, 1, n) \in Seq(1..MaxRecords)
      <4>1. ASSUME NEW S, NEW x \in Seq(S), NEW n \in 0..Len(x) PROVE SubSeq(x, 1, n) \in Seq(S)
        BY <4>1
      <4>2. QED
        BY <3>1, <4>1
    <3>3. QED
      BY <3>1, <3>2 DEF Records
  <2>8. QED
    BY <1>1, <1>10, <2>6, <2>7 DEF CopyRecords, threadVars
<1>11. ASSUME NEW t \in Threads, ContinueKernel(t) PROVE Typed
  <2>1. trace[t] \in Records /\ <<>> \in Records /\ queue[t] \in Seq(Records)
    BY <1>1 DEF Records
  <2>2. Append(queue[t], trace[t]) \in Seq(Records)
    BY <2>1
  <2>3. snapshot' \in [Threads -> [full : BOOLEAN, head : 0..Capacity, threads : Counters]]
    BY <1>1, <1>11 DEF ContinueKernel
  <2>4. queue' \in [Threads -> Seq(Records)] /\ trace' \in [Threads -> Records]
    BY <1>1, <1>11, <2>1, <2>2 DEF ContinueKernel
  <2>5. QED
    BY <1>1, <1>11, <2>3, <2>4 DEF ContinueKernel
<1>12. ASSUME NEW t \in Threads, HostStep(t) PROVE Typed
  BY <1>6, <1>7, <1>8, <1>9, <1>10, <1>11, <1>12 DEF HostStep
<1>13. ASSUME NEW c \in Contexts, DeviceStep(c) PROVE Typed
  BY <1>2, <1>13, DeviceMoves DEF threadVars
<1>14. CASE UNCHANGED vars
  BY <1>2, <1>14 DEF vars, threadVars
<1>15. QED
  BY <1>3, <1>4, <1>5, <1>12, <1>13, <1>14 DEF Next

\* A kernel's state with another field is one.
LEMMA KernelUpdate ==
  ASSUME kernel \in [Contexts -> KernelStates], NEW c \in Contexts
  PROVE  /\ \A n \in 0..MaxThreads : [kernel EXCEPT ![c].live = n] \in [Contexts -> KernelStates]
         /\ \A n \in 0..MaxRecords : [kernel EXCEPT ![c].pushed = n] \in [Contexts -> KernelStates]
         /\ [kernel EXCEPT ![c].running = FALSE] \in [Contexts -> KernelStates]
<1>1. PICK S : S = 0..MaxThreads
  OBVIOUS
<1>2. PICK T : T = 0..MaxRecords
  OBVIOUS
<1>3. KernelStates = [running : BOOLEAN, buffer : Contexts, live : S, pushed : T]
  BY <1>1, <1>2 DEF KernelStates
<1>4. PICK k : k = kernel[c] /\ k \in [running : BOOLEAN, buffer : Contexts, live : S, pushed : T]
  BY <1>3
<1>5. /\ \A n \in S : [k EXCEPT !.live = n] \in KernelStates
      /\ \A n \in T : [k EXCEPT !.pushed = n] \in KernelStates
      /\ [k EXCEPT !.running = FALSE] \in KernelStates
  BY <1>3, <1>4
<1>6. /\ \A n \in S : [kernel EXCEPT ![c].live = n] = [kernel EXCEPT ![c] = [k EXCEPT !.live = n]]
      /\ \A n \in T : [kernel EXCEPT ![c].pushed = n] = [kernel EXCEPT ![c] = [k EXCEPT !.pushed = n]]
      /\ [kernel EXCEPT ![c].running = FALSE] = [kernel EXCEPT ![c] = [k EXCEPT !.running = FALSE]]
  BY <1>4
<1>7. \A x \in KernelStates : [kernel EXCEPT ![c] = x] \in [Contexts -> KernelStates]
  OBVIOUS
<1>8. QED
  BY <1>1, <1>2, <1>5, <1>6, <1>7

\* A step keeps the types of what the device has.
LEMMA DeviceTypesNext ==
  ASSUME TypeOK, CallsInv, KernelInv, [Next]_vars
  PROVE  /\ resetOffset' \in [Contexts -> 0..(Frequency - 1)]
         /\ device' \in [Contexts -> DeviceBuffers]
         /\ \A c \in Contexts : Len(device'[c].records) <= Capacity
         /\ kernel' \in [Contexts -> KernelStates]
<1> DEFINE Typed ==
       /\ resetOffset' \in [Contexts -> 0..(Frequency - 1)]
       /\ device' \in [Contexts -> DeviceBuffers]
       /\ \A c \in Contexts : Len(device'[c].records) <= Capacity
       /\ kernel' \in [Contexts -> KernelStates]
<1>1. /\ resetOffset \in [Contexts -> 0..(Frequency - 1)]
      /\ device \in [Contexts -> DeviceBuffers]
      /\ \A c \in Contexts : Len(device[c].records) <= Capacity
      /\ kernel \in [Contexts -> KernelStates]
  BY DEF TypeOK
<1>2. ASSUME UNCHANGED deviceVars PROVE Typed
  BY <1>1, <1>2 DEF deviceVars
<1>3. \A n \in Int : UInt(n) \in Counters
  BY LowBits
<1>4. ASSUME NEW t \in Threads, ResetBuffer(t) PROVE Typed
  <2>1. BufferOf(t) \in Contexts
    BY <1>4, BufferCreated DEF ResetBuffer, Goto
  <2>2. launch[t].grid \in 1..MaxGrid /\ sampling[t] \in BOOLEAN
    BY DEF TypeOK
  <2>3. PICK offset \in IF sampling[t] THEN Offsets(launch[t].grid, Frequency) ELSE {0} :
          /\ resetOffset' = [resetOffset EXCEPT ![BufferOf(t)] = offset]
          /\ device' = [device EXCEPT ![BufferOf(t)] =
               [full |-> FALSE, records |-> <<>>, threads |-> UInt(launch[t].grid * BlockDim),
                frequency |-> IF sampling[t] THEN Frequency ELSE 0, offset |-> offset]]
    BY <1>4 DEF ResetBuffer
  <2>4. offset \in 0..(Frequency - 1)
    <3>1. CASE sampling[t]
      BY <2>3, <3>1, OffsetRange
    <3>2. CASE ~sampling[t]
      BY <2>3, <3>2, Constants
    <3>3. QED
      BY <3>1, <3>2
  <2>5. UInt(launch[t].grid * BlockDim) \in Counters
    <3>1. launch[t].grid * BlockDim \in Int
      BY <2>2, Constants
    <3>2. QED
      BY <1>3, <3>1
  <2>6. PICK d \in DeviceBuffers :
          device' = [device EXCEPT ![BufferOf(t)] = d] /\ d.records = <<>>
    <3> DEFINE e == [full |-> FALSE, records |-> <<>>, threads |-> UInt(launch[t].grid * BlockDim),
                     frequency |-> IF sampling[t] THEN Frequency ELSE 0, offset |-> offset]
    <3>1. e \in DeviceBuffers
      BY <2>4, <2>5 DEF DeviceBuffers, Records
    <3>2. e.records = <<>>
      OBVIOUS
    <3>3. QED
      BY <2>3, <3>1, <3>2
  <2>7. resetOffset' \in [Contexts -> 0..(Frequency - 1)]
    BY <1>1, <2>3, <2>4
  <2>8. device' \in [Contexts -> DeviceBuffers]
    BY <1>1, <2>6
  <2>9. \A c \in Contexts : Len(device'[c].records) <= Capacity
    BY <1>1, <2>6, Constants
  <2>10. QED
    BY <1>1, <1>4, <2>7, <2>8, <2>9 DEF ResetBuffer
<1>5. ASSUME NEW t \in Threads, KernelStart(t) PROVE Typed
  <2> DEFINE traced == TracedBlocks(launch[t].grid, device[buffer[t]].frequency, device[buffer[t]].offset)
             k == [running |-> TRUE, buffer |-> buffer[t],
                   live |-> Cardinality(traced) * BlockDim, pushed |-> 0]
  <2>1. kernel' = [kernel EXCEPT ![Current(t)] = k] /\ UNCHANGED <<resetOffset, device>>
    BY <1>5 DEF KernelStart
  <2>2. launch[t].grid \in 1..MaxGrid
    BY DEF TypeOK
  <2>3. Cardinality(traced) \in 0..MaxGrid
    <3>1. launch[t].grid \in Nat \ {0} /\ launch[t].grid <= MaxGrid
      BY <2>2, Constants
    <3>2. Cardinality(traced) \in 0..launch[t].grid
      BY <3>1, SamplingBound
    <3>3. QED
      BY <3>1, <3>2, Constants
  <2> HIDE DEF traced
  <2>4. Cardinality(traced) * BlockDim \in 0..MaxThreads
    <3>1. PICK n \in 0..MaxGrid : n = Cardinality(traced)
      BY <2>3
    <3>2. BlockDim * n <= BlockDim * MaxGrid /\ BlockDim * n \in Nat
      BY <3>1, Constants, Product
    <3>3. BlockDim * n = n * BlockDim /\ BlockDim * MaxGrid = MaxThreads
      BY <3>1, Constants DEF MaxThreads
    <3>4. QED
      BY <3>1, <3>2, <3>3, Constants
  <2>5. buffer[t] \in Contexts
    BY <1>5 DEF KernelStart, Goto, KernelInv
  <2>6. k \in KernelStates
    BY <2>4, <2>5, Constants DEF KernelStates
  <2> HIDE DEF k
  <2>7. kernel' \in [Contexts -> KernelStates]
    BY <1>1, <2>1, <2>6
  <2>8. QED
    BY <1>1, <2>1, <2>7
<1>6. ASSUME NEW t \in Threads, ContinueKernel(t) PROVE Typed
  <2>1. /\ device' = [device EXCEPT ![buffer[t]].full = FALSE]
        /\ UNCHANGED <<resetOffset, kernel>>
    BY <1>6 DEF ContinueKernel
  <2>2. device' \in [Contexts -> DeviceBuffers]
    BY <1>1, <2>1 DEF DeviceBuffers
  <2>3. \A c \in Contexts : device'[c].records = device[c].records
    BY <1>1, <2>1 DEF DeviceBuffers
  <2>4. QED
    BY <1>1, <2>1, <2>2, <2>3
<1>7. ASSUME NEW t \in Threads,
             \/ CreateContext(t) \/ ApiEnter(t) \/ LaunchBegin(t) \/ ApiExit(t)
             \/ SyncSampled(t) \/ SkipFiltered(t) \/ Poll(t) \/ KeepPolling(t)
             \/ PoolExhausted(t) \/ CopyRecords(t) \/ Consume(t) \/ StreamSync(t)
      PROVE  Typed
  <2>1. UNCHANGED deviceVars
    BY <1>7 DEF CreateContext, ApiEnter, LaunchBegin, ApiExit, SyncSampled, SkipFiltered, Poll,
                KeepPolling, PoolExhausted, CopyRecords, Consume, StreamSync
  <2>2. QED
    BY <1>2, <2>1
<1>8. ASSUME NEW c \in Contexts, DeviceStep(c) PROVE Typed
  <2> DEFINE b == kernel[c].buffer
             d == device[b]
             k == kernel[c]
  <2>1. k \in KernelStates /\ b \in Contexts /\ d \in DeviceBuffers /\ Len(d.records) <= Capacity
    BY <1>1 DEF KernelStates
  <2>2. /\ d.records \in Records /\ d.threads \in Int /\ Len(d.records) \in Nat
        /\ k.live \in 0..MaxThreads /\ k.pushed \in 0..MaxRecords
    BY <2>1, Constants DEF DeviceBuffers, KernelStates, Records, Counters
  <2>3. CASE Push(c)
    <3>1. /\ k.pushed < MaxRecords /\ Len(d.records) # Capacity
          /\ device' = [device EXCEPT ![b].records = Append(@, k.pushed + 1),
                                      ![b].full = Len(d.records) + 1 = Capacity]
          /\ kernel' = [kernel EXCEPT ![c].pushed = k.pushed + 1]
          /\ UNCHANGED resetOffset
      BY <2>3 DEF Push, Blocked
    <3>2. k.pushed + 1 \in 1..MaxRecords
      <4>1. PICK p \in 0..MaxRecords : p = k.pushed
        BY <2>2
      <4>2. p < MaxRecords
        BY <3>1, <4>1
      <4>3. p + 1 \in 1..MaxRecords
        BY <4>2, Constants
      <4>4. QED
        BY <4>1, <4>3
    <3>3. Append(d.records, k.pushed + 1) \in Records
      BY <2>2, <3>2 DEF Records
    <3>4. Len(Append(d.records, k.pushed + 1)) <= Capacity
      BY <2>1, <2>2, <3>1, <3>2, Constants DEF Records
    <3>5. (Len(d.records) + 1 = Capacity) \in BOOLEAN
      OBVIOUS
    <3>6. PICK f \in BOOLEAN, r \in Records :
            /\ device' = [device EXCEPT ![b].records = r, ![b].full = f]
            /\ Len(r) <= Capacity
      BY <3>1, <3>3, <3>4, <3>5
    <3> HIDE DEF d
    <3>7. PICK x : x = [d EXCEPT !.records = r, !.full = f]
      OBVIOUS
    <3>8. x \in DeviceBuffers /\ x.records = r
      BY <2>1, <3>6, <3>7 DEF DeviceBuffers
    <3>9. device' = [device EXCEPT ![b] = x]
      BY <1>1, <2>1, <3>6, <3>7 DEF d
    <3>10. device' \in [Contexts -> DeviceBuffers]
      BY <1>1, <3>8, <3>9
    <3>11. \A e \in Contexts : Len(device'[e].records) <= Capacity
      BY <1>1, <3>6, <3>8, <3>9
    <3>12. kernel' \in [Contexts -> KernelStates]
      <4>1. PICK p \in 0..MaxRecords : p = k.pushed + 1
        BY <3>2, Constants
      <4>2. QED
        BY <2>1, <3>1, <4>1, KernelUpdate, <1>1
    <3>13. QED
      BY <1>1, <3>1, <3>10, <3>11, <3>12
  <2>4. CASE Resume(c)
    <3>1. /\ device' = [device EXCEPT ![b].records = <<>>]
          /\ UNCHANGED <<resetOffset, kernel>>
      BY <2>4 DEF Resume
    <3>2. <<>> \in Records /\ Len(<<>>) <= Capacity
      BY Constants DEF Records
    <3>3. device' \in [Contexts -> DeviceBuffers]
      BY <1>1, <2>1, <3>1, <3>2 DEF DeviceBuffers
    <3>4. \A e \in Contexts : Len(device'[e].records) <= Capacity
      BY <1>1, <2>1, <3>1, <3>2 DEF DeviceBuffers
    <3>5. QED
      BY <1>1, <3>1, <3>3, <3>4
  <2>5. CASE ThreadExit(c)
    <3>1. /\ k.live > 0
          /\ device' = [device EXCEPT ![b].threads = UInt(d.threads - 1)]
          /\ kernel' = [kernel EXCEPT ![c].live = k.live - 1]
          /\ UNCHANGED resetOffset
      BY <2>5 DEF ThreadExit
    <3>2. UInt(d.threads - 1) \in Counters /\ k.live - 1 \in 0..MaxThreads
      <4>1. d.threads - 1 \in Int
        BY <2>2
      <4>2. k.live - 1 \in 0..MaxThreads
        BY <2>2, <3>1, Constants
      <4>3. QED
        BY <1>3, <4>1, <4>2
    <3>3. PICK n \in Counters : device' = [device EXCEPT ![b].threads = n]
      BY <3>1, <3>2
    <3>4. device' \in [Contexts -> DeviceBuffers]
      BY <1>1, <2>1, <3>3 DEF DeviceBuffers
    <3>5. \A e \in Contexts : device'[e].records = device[e].records
      BY <1>1, <2>1, <3>3 DEF DeviceBuffers
    <3>6. kernel' \in [Contexts -> KernelStates]
      BY <1>1, <3>1, <3>2, KernelUpdate
    <3>7. QED
      BY <1>1, <3>1, <3>4, <3>5, <3>6
  <2>6. CASE KernelEnd(c)
    <3>1. kernel' = [kernel EXCEPT ![c].running = FALSE] /\ UNCHANGED <<resetOffset, device>>
      BY <2>6 DEF KernelEnd
    <3>2. kernel' \in [Contexts -> KernelStates]
      BY <1>1, <3>1, KernelUpdate
    <3>3. QED
      BY <1>1, <3>1, <3>2
  <2>7. QED
    BY <1>8, <2>3, <2>4, <2>5, <2>6 DEF DeviceStep
<1>9. CASE UNCHANGED vars
  BY <1>2, <1>9 DEF vars, deviceVars
<1>10. QED
  BY <1>4, <1>5, <1>6, <1>7, <1>8, <1>9 DEF Next, HostStep

\* Every step keeps the state well typed.
LEMMA TypeOKNext == TypeOK /\ CallsInv /\ KernelInv /\ [Next]_vars => TypeOK'
<1> SUFFICES ASSUME TypeOK, CallsInv, KernelInv, [Next]_vars PROVE TypeOK'
  OBVIOUS
<1>1. CallsInv'
  BY CallsNext
<1>2. \A t \in Threads : Cardinality(calling'[t]) = IF pc'[t] = "app" THEN 0 ELSE 1
  <2> TAKE t \in Threads
  <2>1. /\ pc'[t] # "app" => \E c \in Contexts : calling'[t] = {c}
        /\ pc'[t] = "app" => calling'[t] = {}
    BY <1>1 DEF CallsInv
  <2>2. Cardinality({}) = 0 /\ \A c : Cardinality({c}) = 1
    BY FS_EmptySet, FS_Singleton
  <2>3. QED
    BY <2>1, <2>2
<1>3. /\ pc' \in [Threads -> Locations]
      /\ calling' \in [Threads -> SUBSET created']
      /\ created' \subseteq Contexts /\ hostBuffer' \subseteq Threads
      /\ sampling' \in [Threads -> BOOLEAN]
      /\ launch' \in [Threads -> [name : Kernels, grid : 1..MaxGrid]]
  BY HostTypesNext
<1>4. /\ buffer' \in [Threads -> created' \union {NoContext}]
      /\ snapshot' \in [Threads -> [full : BOOLEAN, head : 0..Capacity, threads : Counters]]
      /\ trace' \in [Threads -> Records] /\ analysed' \in [Threads -> Records]
      /\ queue' \in [Threads -> Seq(Records)]
  BY ChannelTypesNext
<1>5. /\ resetOffset' \in [Contexts -> 0..(Frequency - 1)]
      /\ device' \in [Contexts -> DeviceBuffers]
      /\ \A c \in Contexts : Len(device'[c].records) <= Capacity
      /\ kernel' \in [Contexts -> KernelStates]
  BY DeviceTypesNext
<1>6. QED
  BY <1>2, <1>3, <1>4, <1>5, Zenon DEF TypeOK

------------------------------------------------------------------------------
(* Kernels run inside launches, buffers are full when they say so.         *)

\* A thread whose calls did not change is in the same one.
LEMMA CurrentKept ==
  ASSUME NEW t, calling'[t] = calling[t]
  PROVE  Current(t)' = Current(t)
BY DEF Current

\* A step of one launch does not disturb the kernels of the others, and waits
\* for its own before it returns.
LEMMA KernelNext == TypeOK /\ CallsInv /\ KernelInv /\ [Next]_vars => KernelInv'
<1> SUFFICES ASSUME TypeOK, CallsInv, KernelInv, [Next]_vars PROVE KernelInv'
  OBVIOUS
<1>1. /\ pc \in [Threads -> Locations] /\ kernel \in [Contexts -> KernelStates]
      /\ buffer \in [Threads -> created \union {NoContext}] /\ created \subseteq Contexts
      /\ calling \in [Threads -> SUBSET created]
  BY DEF TypeOK
<1>2. ASSUME NEW t \in Threads, UNCHANGED kernel, UNCHANGED buffer,
             \A u \in Threads : u # t => pc'[u] = pc[u] /\ calling'[u] = calling[u],
             \/ pc[t] \notin Launched /\ pc'[t] \notin Launched \union {"start"}
             \/ pc[t] \in Launched /\ pc'[t] \in Launched /\ calling'[t] = calling[t]
      PROVE  KernelInv'
  <2>1. \A u \in Threads : pc'[u] \in Launched \union {"start"} =>
          pc[u] \in Launched \union {"start"} /\ calling'[u] = calling[u]
    BY <1>2
  <2>2. \A u \in Threads : pc'[u] \in Launched => pc[u] \in Launched /\ Current(u)' = Current(u)
    BY <1>2, CurrentKept
  <2>3. QuietBetweenLaunches'
    <3>1. ASSUME NEW c \in Contexts, kernel[c].running
          PROVE  \E u \in Threads : c \in calling'[u] /\ pc'[u] \in Launched
      <4>1. PICK u \in Threads : c \in calling[u] /\ pc[u] \in Launched
        BY <3>1 DEF KernelInv, QuietBetweenLaunches, Launched, Locations
      <4>2. QED
        BY <1>2, <4>1
    <3>2. QED
      BY <1>2, <3>1 DEF QuietBetweenLaunches, Launched, Locations
  <2>4. QED
    BY <1>2, <2>1, <2>2, <2>3 DEF KernelInv
<1>3. ASSUME NEW t \in Threads,
             CreateContext(t) \/ ApiEnter(t) \/ ApiExit(t) \/ LaunchBegin(t)
      PROVE  KernelInv'
  <2>1. UNCHANGED <<kernel, buffer>>
    BY <1>3 DEF CreateContext, ApiEnter, ApiExit, LaunchBegin, deviceVars
  <2>2. \A u \in Threads : u # t => pc'[u] = pc[u] /\ calling'[u] = calling[u]
    BY <1>1, <1>3 DEF CreateContext, ApiEnter, ApiExit, LaunchBegin, Calls!Enter, Calls!Exit, Goto
  <2>3. pc[t] \notin Launched /\ pc'[t] \notin Launched \union {"start"}
    BY <1>1, <1>3 DEF CreateContext, ApiEnter, ApiExit, LaunchBegin, Goto, Launched
  <2>4. QED
    BY <1>2, <2>1, <2>2, <2>3
<1>4. ASSUME NEW t \in Threads,
             \/ SyncSampled(t) \/ SkipFiltered(t) \/ Poll(t) \/ KeepPolling(t)
             \/ PoolExhausted(t) \/ CopyRecords(t) \/ ContinueKernel(t) \/ Consume(t)
      PROVE  KernelInv'
  <2>1. UNCHANGED <<kernel, buffer, calling>>
    BY <1>4 DEF SyncSampled, SkipFiltered, Poll, KeepPolling, PoolExhausted, CopyRecords,
                ContinueKernel, Consume, deviceVars, threadVars
  <2>2. /\ \A u \in Threads : u # t => pc'[u] = pc[u]
        /\ pc[t] \in Launched /\ pc'[t] \in Launched
    BY <1>1, <1>4 DEF SyncSampled, SkipFiltered, Poll, KeepPolling, PoolExhausted, CopyRecords,
                ContinueKernel, Consume, Goto, Launched
  <2>3. QED
    BY <1>2, <2>1, <2>2
<1>5. ASSUME NEW t \in Threads, ResetBuffer(t) PROVE KernelInv'
  <2>1. /\ pc[t] = "reset" /\ pc' = [pc EXCEPT ![t] = "start"]
        /\ buffer' = [buffer EXCEPT ![t] = BufferOf(t)] /\ UNCHANGED <<calling, kernel>>
    BY <1>5 DEF ResetBuffer, Goto
  <2>2. BufferOf(t) \in Contexts
    BY <2>1, BufferCreated
  <2>3. \A u \in Threads :
          /\ buffer'[u] = IF u = t THEN BufferOf(t) ELSE buffer[u]
          /\ pc'[u] = IF u = t THEN "start" ELSE pc[u]
          /\ Current(u)' = Current(u)
    BY <1>1, <2>1, CurrentKept
  <2>4. QuietBetweenLaunches'
    BY <2>1, <2>3 DEF KernelInv, QuietBetweenLaunches
  <2>5. QED
    BY <2>1, <2>2, <2>3, <2>4 DEF KernelInv, Launched
<1>6. ASSUME NEW t \in Threads, KernelStart(t) PROVE KernelInv'
  <2>1. PICK n :
          /\ pc[t] = "start" /\ pc' = [pc EXCEPT ![t] = "end"]
          /\ kernel' = [kernel EXCEPT ![Current(t)] =
               [running |-> TRUE, buffer |-> buffer[t], live |-> n, pushed |-> 0]]
          /\ UNCHANGED <<calling, buffer>>
    BY <1>6 DEF KernelStart, Goto, threadVars
  <2>2. /\ Current(t) \in Contexts /\ calling[t] = {Current(t)}
        /\ \A u \in Threads : u # t /\ pc[u] # "app" => Current(u) # Current(t)
        /\ \A u \in Threads : pc[u] # "app" => Current(u) \in Contexts
    BY <2>1, CurrentIs
  <2>3. \A u \in Threads : pc'[u] = IF u = t THEN "end" ELSE pc[u]
    BY <1>1, <2>1
  <2>4. \A u \in Threads : Current(u)' = Current(u)
    BY <2>1, CurrentKept
  <2>5. /\ kernel'[Current(t)].buffer = buffer[t] /\ kernel'[Current(t)].running
        /\ \A c \in Contexts : c # Current(t) => kernel'[c] = kernel[c]
    BY <1>1, <2>1, <2>2
  <2>6. \A u \in Threads : pc'[u] \in Launched => kernel'[Current(u)].buffer = buffer[u]
    BY <2>2, <2>3, <2>5 DEF KernelInv, Launched
  <2>7. \A u \in Threads : pc'[u] \in Launched \union {"start"} => buffer[u] \in Contexts
    BY <2>1, <2>3 DEF KernelInv
  <2>8. QuietBetweenLaunches'
    <3>1. ASSUME NEW c \in Contexts, kernel'[c].running
          PROVE  \E u \in Threads : c \in calling[u] /\ pc'[u] \in Locations \ {"app", "api", "reset", "start"}
      <4>1. CASE c = Current(t)
        BY <2>2, <2>3, <4>1 DEF Locations
      <4>2. CASE c # Current(t)
        BY <2>1, <2>3, <2>5, <3>1, <4>2 DEF KernelInv, QuietBetweenLaunches
      <4>3. QED
        BY <4>1, <4>2
    <3>2. QED
      BY <2>1, <3>1 DEF QuietBetweenLaunches
  <2>9. \A c \in Contexts : kernel'[c].live > 0 => kernel'[c].running
    BY <2>5 DEF KernelInv
  <2>10. QED
    BY <2>1, <2>4, <2>6, <2>7, <2>8, <2>9 DEF KernelInv
<1>7. ASSUME NEW t \in Threads, StreamSync(t) PROVE KernelInv'
  <2>1. /\ pc[t] = "streamSync" /\ pc' = [pc EXCEPT ![t] = "api"]
        /\ ~kernel[Current(t)].running /\ UNCHANGED <<calling, buffer, kernel>>
    BY <1>7 DEF StreamSync, Goto, threadVars, deviceVars
  <2>2. calling[t] = {Current(t)}
    BY <2>1, CurrentIs
  <2>3. \A u \in Threads : /\ pc'[u] = IF u = t THEN "api" ELSE pc[u]
                           /\ Current(u)' = Current(u)
    BY <1>1, <2>1, CurrentKept
  <2>4. QuietBetweenLaunches'
    BY <2>1, <2>2, <2>3 DEF KernelInv, QuietBetweenLaunches
  <2>5. QED
    BY <2>1, <2>3, <2>4 DEF KernelInv, Launched
<1>8. ASSUME NEW c \in Contexts, DeviceStep(c) PROVE KernelInv'
  <2>1. UNCHANGED <<pc, calling, buffer>>
    BY <1>8, DeviceMoves DEF threadVars
  <2>2. \A d \in Contexts :
          /\ kernel'[d].buffer = kernel[d].buffer
          /\ kernel'[d].running => kernel[d].running
          /\ kernel'[d].live > 0 => kernel[d].live > 0 /\ (kernel[d].running => kernel'[d].running)
    <3>1. kernel[c] \in [running : BOOLEAN, buffer : Contexts, live : 0..MaxThreads, pushed : 0..MaxRecords]
      BY <1>1 DEF KernelStates
    <3>2. kernel[c].live \in Int
      BY <3>1, Constants
    <3>3. /\ kernel'[c].buffer = kernel[c].buffer
          /\ kernel'[c].running => kernel[c].running
          /\ kernel'[c].live > 0 => kernel[c].live > 0 /\ (kernel[c].running => kernel'[c].running)
      <4>1. CASE Push(c)
        BY <1>1, <3>1, <4>1 DEF Push
      <4>2. CASE Resume(c)
        BY <4>2 DEF Resume
      <4>3. CASE ThreadExit(c)
        BY <1>1, <3>1, <3>2, <4>3 DEF ThreadExit
      <4>4. CASE KernelEnd(c)
        BY <1>1, <3>1, <3>2, <4>4 DEF KernelEnd
      <4>5. QED
        BY <1>8, <4>1, <4>2, <4>3, <4>4 DEF DeviceStep
    <3>4. \A d \in Contexts : d # c => kernel'[d] = kernel[d]
      BY <1>1, <1>8 DEF DeviceStep, Push, Resume, ThreadExit, KernelEnd
    <3>5. QED
      BY <3>3, <3>4
  <2>3. \A u \in Threads : Current(u)' = Current(u)
    BY <2>1, CurrentKept
  <2>4. \A u \in Threads : pc[u] \in Launched => Current(u) \in Contexts
    BY CurrentIs DEF Launched
  <2>5. QED
    BY <2>1, <2>2, <2>3, <2>4 DEF KernelInv, QuietBetweenLaunches
<1>9. CASE UNCHANGED vars
  <2>1. UNCHANGED <<pc, calling, buffer, kernel>>
    BY <1>9 DEF vars, threadVars, deviceVars
  <2>2. \A u \in Threads : Current(u)' = Current(u)
    BY <2>1, CurrentKept
  <2>3. QED
    BY <2>1, <2>2 DEF KernelInv, QuietBetweenLaunches
<1>10. QED
  BY <1>3, <1>4, <1>5, <1>6, <1>7, <1>8, <1>9 DEF Next, HostStep

\* What the steps of the device do to one patch buffer.
LEMMA DeviceEffect ==
  ASSUME TypeOK, NEW c \in Contexts, DeviceStep(c), NEW b, b = kernel[c].buffer
  PROVE  /\ b \in Contexts
         /\ \A e \in Contexts : e # b => device'[e] = device[e]
         /\ device'[b].offset = device[b].offset /\ device'[b].frequency = device[b].frequency
         /\ Push(c) => /\ device'[b].records = Append(device[b].records, kernel[c].pushed + 1)
                       /\ device'[b].full = (Len(device[b].records) + 1 = Capacity)
                       /\ device'[b].threads = device[b].threads
         /\ Resume(c) => /\ device'[b].records = <<>>
                         /\ device'[b].full = device[b].full
                         /\ device'[b].threads = device[b].threads
         /\ ThreadExit(c) => /\ device'[b].records = device[b].records
                             /\ device'[b].full = device[b].full
                             /\ device'[b].threads = UInt(device[b].threads - 1)
         /\ KernelEnd(c) => device' = device
<1>1. /\ b \in Contexts /\ device \in [Contexts -> DeviceBuffers] /\ device[b] \in DeviceBuffers
  BY DEF TypeOK, KernelStates
<1>2. CASE Push(c)
  <2>1. device' = [device EXCEPT ![b].records = Append(@, kernel[c].pushed + 1),
                                 ![b].full = Len(device[b].records) + 1 = Capacity]
    BY <1>2 DEF Push
  <2>2. PICK f \in BOOLEAN : f = (Len(device[b].records) + 1 = Capacity)
    OBVIOUS
  <2>3. PICK r : r = Append(device[b].records, kernel[c].pushed + 1)
    OBVIOUS
  <2>4. device' = [device EXCEPT ![b].records = r, ![b].full = f]
    BY <2>1, <2>2, <2>3
  <2>5. /\ \A e \in Contexts : e # b => device'[e] = device[e]
        /\ device'[b].offset = device[b].offset /\ device'[b].frequency = device[b].frequency
        /\ device'[b].records = r /\ device'[b].full = f
        /\ device'[b].threads = device[b].threads
    BY <1>1, <2>4 DEF DeviceBuffers
  <2>6. ~Resume(c) /\ ~ThreadExit(c) /\ ~KernelEnd(c)
    <3>1. kernel[c] \in KernelStates /\ c \in Contexts /\ kernel \in [Contexts -> KernelStates]
      BY DEF TypeOK
    <3>2. kernel[c].pushed \in Nat /\ kernel'[c].pushed = kernel[c].pushed + 1
      BY <1>2, <3>1, Constants DEF Push, KernelStates
    <3>3. kernel'[c].pushed # kernel[c].pushed
      BY <3>2
    <3>4. Resume(c) \/ ThreadExit(c) \/ KernelEnd(c) => kernel'[c].pushed = kernel[c].pushed
      BY <3>1 DEF Resume, ThreadExit, KernelEnd, KernelStates
    <3>5. QED
      BY <3>3, <3>4
  <2>7. QED
    BY <1>1, <2>2, <2>3, <2>5, <2>6
<1>3. CASE Resume(c) /\ ~Push(c)
  <2>1. device' = [device EXCEPT ![b].records = <<>>] /\ kernel' = kernel /\ kernel[c].live > 0
    BY <1>3 DEF Resume
  <2>2. kernel[c] \in KernelStates /\ kernel \in [Contexts -> KernelStates]
    BY DEF TypeOK
  <2>3. ~ThreadExit(c)
    <3>1. kernel[c].live \in Nat
      BY <2>2, Constants DEF KernelStates
    <3>2. ThreadExit(c) => kernel'[c].live = kernel[c].live - 1
      BY <2>2 DEF ThreadExit, KernelStates
    <3>3. QED
      BY <2>1, <3>1, <3>2
  <2>4. ~KernelEnd(c)
    BY <2>1 DEF KernelEnd
  <2>5. QED
    BY <1>1, <1>3, <2>1, <2>3, <2>4 DEF DeviceBuffers
<1>4. CASE ThreadExit(c) /\ ~Push(c) /\ ~Resume(c)
  <2>1. device' = [device EXCEPT ![b].threads = UInt(@ - 1)] /\ kernel[c].live > 0
    BY <1>4 DEF ThreadExit
  <2>2. ~KernelEnd(c)
    BY <2>1 DEF KernelEnd
  <2>3. QED
    BY <1>1, <1>4, <2>1, <2>2 DEF DeviceBuffers
<1>5. CASE KernelEnd(c) /\ ~Push(c) /\ ~Resume(c) /\ ~ThreadExit(c)
  BY <1>1, <1>5 DEF KernelEnd
<1>6. QED
  BY <1>2, <1>3, <1>4, <1>5 DEF DeviceStep

\* What they do to the kernels.
LEMMA KernelEffect ==
  ASSUME TypeOK, NEW c \in Contexts, DeviceStep(c)
  PROVE  /\ \A e \in Contexts : e # c => kernel'[e] = kernel[e]
         /\ kernel'[c].buffer = kernel[c].buffer
         /\ Push(c) => kernel'[c].pushed = kernel[c].pushed + 1 /\ kernel'[c].live = kernel[c].live
         /\ ThreadExit(c) => kernel'[c].pushed = kernel[c].pushed /\ kernel'[c].live = kernel[c].live - 1
         /\ Resume(c) \/ KernelEnd(c) =>
              kernel'[c].pushed = kernel[c].pushed /\ kernel'[c].live = kernel[c].live
<1>1. kernel \in [Contexts -> KernelStates] /\ kernel[c] \in KernelStates
  BY DEF TypeOK
<1>2. PICK k : k = kernel[c] /\ k \in KernelStates
  BY <1>1
<1>3. \A e \in Contexts : e # c => kernel'[e] = kernel[e]
  BY <1>1 DEF DeviceStep, Push, Resume, ThreadExit, KernelEnd
<1>4. ASSUME Push(c) PROVE kernel'[c] = [k EXCEPT !.pushed = k.pushed + 1]
  BY <1>1, <1>2, <1>4 DEF Push
<1>5. ASSUME ThreadExit(c) PROVE kernel'[c] = [k EXCEPT !.live = k.live - 1]
  BY <1>1, <1>2, <1>5 DEF ThreadExit
<1>6. ASSUME KernelEnd(c) PROVE kernel'[c] = [k EXCEPT !.running = FALSE]
  BY <1>1, <1>2, <1>6 DEF KernelEnd
<1>7. ASSUME Resume(c) PROVE kernel'[c] = k
  BY <1>2, <1>7 DEF Resume
<1>8. QED
  BY <1>2, <1>3, <1>4, <1>5, <1>6, <1>7 DEF DeviceStep, KernelStates

\* The flag of a patch buffer is up only while it is full.
LEMMA FullNext == TypeOK /\ CallsInv /\ KernelInv /\ FullInv /\ [Next]_vars => FullInv'
<1> SUFFICES ASSUME TypeOK, CallsInv, KernelInv, FullInv, [Next]_vars PROVE FullInv'
  OBVIOUS
<1>1. device \in [Contexts -> DeviceBuffers]
  BY DEF TypeOK
<1>2. ASSUME NEW b \in Contexts,
             \A e \in Contexts : e # b => device'[e] = device[e],
             device'[b].full => Len(device'[b].records) = Capacity
      PROVE  FullInv'
  BY <1>2 DEF FullInv
<1>3. ASSUME UNCHANGED device PROVE FullInv'
  BY <1>3 DEF FullInv
<1>4. ASSUME NEW t \in Threads, ResetBuffer(t) PROVE FullInv'
  <2>1. BufferOf(t) \in Contexts
    BY <1>4, BufferCreated DEF ResetBuffer, Goto
  <2>2. PICK n, f, o :
          device' = [device EXCEPT ![BufferOf(t)] =
            [full |-> FALSE, records |-> <<>>, threads |-> n, frequency |-> f, offset |-> o]]
    BY <1>4 DEF ResetBuffer
  <2>3. /\ \A e \in Contexts : e # BufferOf(t) => device'[e] = device[e]
        /\ ~device'[BufferOf(t)].full
    BY <1>1, <2>1, <2>2
  <2>4. QED
    BY <1>2, <2>1, <2>3
<1>5. ASSUME NEW t \in Threads, ContinueKernel(t) PROVE FullInv'
  <2>1. buffer[t] \in Contexts /\ device' = [device EXCEPT ![buffer[t]].full = FALSE]
    BY <1>5 DEF ContinueKernel, Goto, KernelInv, Launched
  <2>2. /\ \A e \in Contexts : e # buffer[t] => device'[e] = device[e]
        /\ ~device'[buffer[t]].full
    BY <1>1, <2>1 DEF DeviceBuffers
  <2>3. QED
    BY <1>2, <2>1, <2>2
<1>6. ASSUME NEW t \in Threads,
             \/ CreateContext(t) \/ ApiEnter(t) \/ LaunchBegin(t) \/ ApiExit(t)
             \/ KernelStart(t) \/ SyncSampled(t) \/ SkipFiltered(t) \/ Poll(t) \/ KeepPolling(t)
             \/ PoolExhausted(t) \/ CopyRecords(t) \/ Consume(t) \/ StreamSync(t)
      PROVE  FullInv'
  <2>1. UNCHANGED device
    BY <1>6 DEF CreateContext, ApiEnter, LaunchBegin, ApiExit, KernelStart, SyncSampled, SkipFiltered,
                Poll, KeepPolling, PoolExhausted, CopyRecords, Consume, StreamSync, deviceVars
  <2>2. QED
    BY <1>3, <2>1
<1>7. ASSUME NEW c \in Contexts, DeviceStep(c) PROVE FullInv'
  <2>1. PICK b : b = kernel[c].buffer
    OBVIOUS
  <2>2. b \in Contexts /\ \A e \in Contexts : e # b => device'[e] = device[e]
    BY <1>7, <2>1, DeviceEffect
  <2>3. device'[b].full => Len(device'[b].records) = Capacity
    <3>1. CASE Push(c)
      <4>1. /\ device'[b].records = Append(device[b].records, kernel[c].pushed + 1)
            /\ device'[b].full => Len(device[b].records) + 1 = Capacity
        BY <1>7, <2>1, <3>1, DeviceEffect
      <4>2. device[b].records \in Seq(1..MaxRecords)
        BY <1>1, <2>2 DEF DeviceBuffers, Records
      <4>3. QED
        BY <4>1, <4>2
    <3>2. CASE Resume(c)
      <4>1. ~device[b].full
        BY <2>1, <3>2 DEF Resume
      <4>2. QED
        BY <1>7, <2>1, <3>2, <4>1, DeviceEffect
    <3>3. CASE ThreadExit(c)
      BY <1>7, <2>1, <2>2, <3>3, DeviceEffect DEF FullInv
    <3>4. CASE KernelEnd(c)
      BY <2>2, <3>4 DEF KernelEnd, FullInv
    <3>5. QED
      BY <1>7, <3>1, <3>2, <3>3, <3>4 DEF DeviceStep
  <2>4. QED
    BY <1>2, <2>2, <2>3
<1>8. CASE UNCHANGED vars
  BY <1>3, <1>8 DEF vars, deviceVars
<1>9. QED
  BY <1>4, <1>5, <1>6, <1>7, <1>8 DEF Next, HostStep

\* Each step leaves the traces where the next location expects them.
LEMMA ChannelNext == TypeOK /\ ChannelInv /\ [Next]_vars => ChannelInv'
<1> SUFFICES ASSUME TypeOK, ChannelInv, [Next]_vars PROVE ChannelInv'
  OBVIOUS
<1> DEFINE At(t) ==
       /\ pc[t] \in {"poll", "check", "continue", "consume"} => sampling[t]
       /\ pc[t] # "continue" => trace[t] = <<>>
       /\ pc[t] \in {"app", "api", "reset", "start", "end", "streamSync"} => queue[t] = <<>>
       /\ pc[t] \in {"reset", "start", "end"} => analysed[t] = <<>>
<1>1. \A u \in Threads : At(u)
  BY DEF ChannelInv
<1>2. /\ pc \in [Threads -> Locations] /\ sampling \in [Threads -> BOOLEAN]
      /\ trace \in [Threads -> Records] /\ analysed \in [Threads -> Records]
      /\ queue \in [Threads -> Seq(Records)]
  BY DEF TypeOK
<1>3. ASSUME NEW t \in Threads,
             \A u \in Threads : u # t =>
               /\ pc'[u] = pc[u] /\ sampling'[u] = sampling[u] /\ trace'[u] = trace[u]
               /\ queue'[u] = queue[u] /\ analysed'[u] = analysed[u],
             At(t)'
      PROVE  ChannelInv'
  BY <1>1, <1>3 DEF ChannelInv
<1>4. ASSUME UNCHANGED <<pc, sampling, trace, queue, analysed>> PROVE ChannelInv'
  BY <1>1, <1>4 DEF ChannelInv
<1>5. ASSUME NEW t \in Threads, CreateContext(t) PROVE ChannelInv'
  BY <1>4, <1>5 DEF CreateContext, channelVars
<1>6. ASSUME NEW t \in Threads, ApiEnter(t) \/ ApiExit(t) PROVE ChannelInv'
  <2>1. /\ UNCHANGED <<sampling, trace, queue, analysed>>
        /\ \A u \in Threads : u # t => pc'[u] = pc[u]
        /\ pc[t] \in {"app", "api"} /\ pc'[t] \in {"app", "api"}
    BY <1>2, <1>6 DEF ApiEnter, ApiExit, Goto, channelVars
  <2>2. At(t)'
    BY <1>1, <2>1
  <2>3. QED
    BY <1>3, <2>1, <2>2
<1>7. ASSUME NEW t \in Threads, LaunchBegin(t) PROVE ChannelInv'
  <2>1. /\ UNCHANGED <<trace, queue>> /\ analysed' = [analysed EXCEPT ![t] = <<>>]
        /\ pc[t] = "api" /\ pc' = [pc EXCEPT ![t] = "reset"]
        /\ \E k \in Kernels : sampling' = [sampling EXCEPT ![t] = @ /\ k \in Whitelist]
    BY <1>7 DEF LaunchBegin, Goto
  <2>2. At(t)'
    BY <1>1, <1>2, <2>1
  <2>3. \A u \in Threads : u # t => sampling'[u] = sampling[u]
    BY <1>2, <2>1
  <2>4. \A u \in Threads : u # t => pc'[u] = pc[u] /\ analysed'[u] = analysed[u]
    BY <1>2, <2>1
  <2>5. QED
    BY <1>3, <2>1, <2>2, <2>3, <2>4
<1>8. ASSUME NEW t \in Threads,
             \/ ResetBuffer(t) \/ KernelStart(t) \/ SyncSampled(t) \/ SkipFiltered(t)
             \/ Poll(t) \/ KeepPolling(t) \/ StreamSync(t)
      PROVE  ChannelInv'
  <2>1. /\ UNCHANGED <<sampling, trace, queue, analysed>>
        /\ \A u \in Threads : u # t => pc'[u] = pc[u]
    BY <1>2, <1>8 DEF ResetBuffer, KernelStart, SyncSampled, SkipFiltered, Poll, KeepPolling,
                      StreamSync, Goto, channelVars, threadVars
  <2>2. \/ pc[t] = "reset" /\ pc'[t] = "start"
        \/ pc[t] = "start" /\ pc'[t] = "end"
        \/ pc[t] = "end" /\ pc'[t] \in {"poll", "fault"} /\ sampling[t]
        \/ pc[t] = "end" /\ pc'[t] = "streamSync"
        \/ pc[t] \in {"poll", "check"} /\ pc'[t] \in {"poll", "check", "fault"}
        \/ pc[t] = "streamSync" /\ pc'[t] = "api"
    BY <1>2, <1>8 DEF ResetBuffer, KernelStart, SyncSampled, SkipFiltered, Poll, KeepPolling,
                      StreamSync, Goto
  <2>3. At(t)'
    BY <1>1, <2>1, <2>2
  <2>4. QED
    BY <1>3, <2>1, <2>3
<1>9. ASSUME NEW t \in Threads, PoolExhausted(t) PROVE ChannelInv'
  <2>1. /\ UNCHANGED <<pc, sampling, trace>> /\ pc[t] = "check"
        /\ analysed' = [analysed EXCEPT ![t] = @ \o FlattenSeq(queue[t])]
        /\ queue' = [queue EXCEPT ![t] = <<>>]
    BY <1>9 DEF PoolExhausted, threadVars
  <2>2. \A u \in Threads : u # t => queue'[u] = queue[u] /\ analysed'[u] = analysed[u]
    BY <1>2, <2>1
  <2>3. At(t)'
    BY <1>1, <2>1
  <2>4. QED
    BY <1>3, <2>1, <2>2, <2>3
<1>10. ASSUME NEW t \in Threads, CopyRecords(t) PROVE ChannelInv'
  <2>1. /\ UNCHANGED <<sampling, queue, analysed>>
        /\ pc[t] = "check" /\ pc' = [pc EXCEPT ![t] = "continue"]
        /\ \E x : trace' = [trace EXCEPT ![t] = x]
    BY <1>10 DEF CopyRecords, Goto, threadVars
  <2>2. \A u \in Threads : u # t => pc'[u] = pc[u] /\ trace'[u] = trace[u]
    BY <1>2, <2>1
  <2>3. At(t)'
    BY <1>1, <1>2, <2>1
  <2>4. QED
    BY <1>3, <2>1, <2>2, <2>3
<1>11. ASSUME NEW t \in Threads, ContinueKernel(t) PROVE ChannelInv'
  <2>1. /\ UNCHANGED <<sampling, analysed>>
        /\ pc[t] = "continue" /\ pc' = [pc EXCEPT ![t] = IF AllExited(t) THEN "consume" ELSE "poll"]
        /\ queue' = [queue EXCEPT ![t] = Append(@, trace[t])]
        /\ trace' = [trace EXCEPT ![t] = <<>>]
    BY <1>11 DEF ContinueKernel, Goto
  <2>2. \A u \in Threads : u # t => pc'[u] = pc[u] /\ trace'[u] = trace[u] /\ queue'[u] = queue[u]
    BY <1>2, <2>1
  <2>3. At(t)'
    BY <1>1, <1>2, <2>1
  <2>4. QED
    BY <1>3, <2>1, <2>2, <2>3
<1>12. ASSUME NEW t \in Threads, Consume(t) PROVE ChannelInv'
  <2>1. /\ UNCHANGED <<sampling, trace>> /\ pc[t] = "consume" /\ pc' = [pc EXCEPT ![t] = "streamSync"]
        /\ analysed' = [analysed EXCEPT ![t] = @ \o FlattenSeq(queue[t])]
        /\ queue' = [queue EXCEPT ![t] = <<>>]
    BY <1>12 DEF Consume, Goto, threadVars
  <2>2. \A u \in Threads : u # t =>
          pc'[u] = pc[u] /\ queue'[u] = queue[u] /\ analysed'[u] = analysed[u]
    BY <1>2, <2>1
  <2>3. At(t)'
    BY <1>1, <1>2, <2>1
  <2>4. QED
    BY <1>3, <2>1, <2>2, <2>3
<1>13. ASSUME NEW c \in Contexts, DeviceStep(c) PROVE ChannelInv'
  BY <1>4, <1>13, DeviceMoves DEF threadVars, channelVars
<1>14. CASE UNCHANGED vars
  BY <1>4, <1>14 DEF vars, threadVars, channelVars
<1>15. QED
  BY <1>5, <1>6, <1>7, <1>8, <1>9, <1>10, <1>11, <1>12, <1>13, <1>14 DEF Next, HostStep

\* One step keeps the part of the invariant that needs nothing of how the
\* application shares its contexts.
LEMMA LaunchNext == LaunchInv /\ [Next]_vars => LaunchInv'
BY CallsNext, TypeOKNext, KernelNext, FullNext, ChannelNext DEF LaunchInv

\* Launches are well formed in every reachable state: however threads share
\* contexts and buffers, each call has its context to itself, each kernel its
\* launch, and traces are where the callbacks expect them.
THEOREM LaunchInvariance == Spec => []LaunchInv
BY LaunchInit, LaunchNext, PTL DEF Spec

\* Every reachable state is well typed.
THEOREM Types == Spec => []TypeOK
<1>1. LaunchInv => TypeOK
  BY DEF LaunchInv
<1>2. QED
  BY <1>1, LaunchInvariance, PTL

\* No kernel runs outside the launch of a thread that is in a call on its
\* context: the synchronisation at the end of a launch waits for every kernel,
\* sampled or not, whatever the contexts and threads.
THEOREM Quiet == Spec => []QuietBetweenLaunches
<1>1. LaunchInv => QuietBetweenLaunches
  BY DEF LaunchInv, KernelInv
<1>2. QED
  BY <1>1, LaunchInvariance, PTL

------------------------------------------------------------------------------
(* Traces.  From here on no two launches in progress share a patch buffer, *)
(* and an int distinguishes as many values as a launch has threads.        *)

\* Concatenations the host's steps move records between.
LEMMA Moved ==
  ASSUME NEW S, NEW a \in Seq(S), NEW f \in Seq(S), NEW x \in Seq(S), NEW u \in Seq(S)
  PROVE  /\ a \o f \in Seq(S)
         /\ (a \o f) \o <<>> = a \o f
         /\ a \o f \o <<>> \o u = a \o f \o u \o <<>>
         /\ a \o f \o x \o <<>> = a \o (f \o x) \o <<>> \o <<>>
         /\ a \o f \o x \in Seq(S)
<1>1. a \o f \in Seq(S) /\ f \o x \in Seq(S)
  OBVIOUS
<1>2. \A y \in Seq(S) : y \o <<>> = y
  OBVIOUS
<1>3. (a \o f) \o x \in Seq(S) /\ (a \o f) \o u \in Seq(S)
  BY <1>1
<1>4. (a \o f) \o x = a \o (f \o x)
  OBVIOUS
<1>5. QED
  BY <1>1, <1>2, <1>3, <1>4

\* No traces hold no records.
LEMMA EmptyFlattened == FlattenSeq(<<>>) = <<>>
<1>1. <<>> \in Seq(Seq({})) /\ <<>> \in Seq({})
  OBVIOUS
<1>2. QED
  BY <1>1, FlattenAppend

\* A record appended to the last part is appended to the whole.
LEMMA Appended ==
  ASSUME NEW S, NEW a \in Seq(S), NEW u \in Seq(S), NEW n \in S
  PROVE  a \o Append(u, n) = Append(a \o u, n)
OBVIOUS

\* The numbers to p, and the next.
LEMMA NextWritten ==
  ASSUME NEW p \in Nat
  PROVE  /\ [n \in 1..p |-> n] \in Seq(Nat)
         /\ Append([n \in 1..p |-> n], p + 1) = [n \in 1..(p + 1) |-> n]
OBVIOUS

\* Nothing a thread can see of its launch changed.
Unseen(u) ==
  /\ pc'[u] = pc[u] /\ calling'[u] = calling[u] /\ sampling'[u] = sampling[u]
  /\ launch'[u] = launch[u] /\ snapshot'[u] = snapshot[u] /\ buffer'[u] = buffer[u]
  /\ trace'[u] = trace[u] /\ queue'[u] = queue[u] /\ analysed'[u] = analysed[u]
  /\ resetOffset'[buffer[u]] = resetOffset[buffer[u]]
  /\ device'[buffer[u]] = device[buffer[u]]
  /\ kernel'[Current(u)] = kernel[Current(u)]

\* What a launch keeps true.
Whole(t) == Tracing(t) => Collected(t) = Written(Current(t))
LaunchAt(t) == CountAt(t) /\ SnapshotAt(t) /\ Whole(t)

\* Then it is what it was.
LEMMA UnseenKeeps ==
  ASSUME NEW u \in Threads, Unseen(u), LaunchAt(u)
  PROVE  LaunchAt(u)'
<1>1. Current(u)' = Current(u)
  BY CurrentKept DEF Unseen
<1>2. (Tracing(u)' <=> Tracing(u)) /\ (AllExited(u)' <=> AllExited(u))
  BY DEF Unseen, Tracing, AllExited
<1>3. (Ready(u)' <=> Ready(u)) /\ SampledThreads(u)' = SampledThreads(u)
  BY <1>2 DEF Unseen, Ready, SampledThreads
<1>4. CountAt(u)'
  BY <1>1, <1>2, <1>3 DEF Unseen, CountAt, LaunchAt
<1>5. SnapshotAt(u)'
  BY <1>1, <1>2, <1>3 DEF Unseen, SnapshotAt, LaunchAt
<1>6. Undrained(u)' = Undrained(u)
  BY DEF Unseen, Undrained
<1>7. Collected(u)' = Collected(u) /\ Written(Current(u))' = Written(Current(u))
  BY <1>1, <1>6 DEF Unseen, Collected, Written
<1>8. QED
  BY <1>2, <1>4, <1>5, <1>7 DEF LaunchAt, Whole

\* Each launch keeps it, and so all do.
LEMMA EachLaunch == IInv <=> LaunchInv /\ \A t \in Threads : LaunchAt(t)
BY DEF IInv, LaunchAt, Whole, CountInv, SnapshotInv, TraceIntact

\* A step of one launch is not seen by another, which has its own buffer.
LEMMA OthersUnseen ==
  ASSUME LaunchInv, BuffersUnshared, NEW t \in Threads, HostStep(t),
         NEW u \in Threads, u # t, pc[u] \in Launched \union {"start"}
  PROVE  Unseen(u)
<1>1. /\ buffer[u] \in Contexts /\ pc[u] \notin {"app", "api"} /\ BufferOf(u) = buffer[u]
  BY ConstantsAssumption DEF LaunchInv, KernelInv, Launched, BufferOf
<1>2. /\ pc \in [Threads -> Locations] /\ device \in [Contexts -> DeviceBuffers]
      /\ kernel \in [Contexts -> KernelStates] /\ resetOffset \in [Contexts -> 0..(Frequency - 1)]
      /\ trace \in [Threads -> Records] /\ analysed \in [Threads -> Records]
      /\ queue \in [Threads -> Seq(Records)]
      /\ snapshot \in [Threads -> [full : BOOLEAN, head : 0..Capacity, threads : Counters]]
      /\ buffer \in [Threads -> created \union {NoContext}]
  BY DEF LaunchInv, TypeOK
<1>3. pc[t] \notin {"app", "api"} /\ BufferOf(u) # BufferOf(t)
  <2>1. pc[t] \notin {"app", "api"}
    BY DEF HostStep, ResetBuffer, KernelStart, SyncSampled, SkipFiltered, Poll, KeepPolling,
           PoolExhausted, CopyRecords, ContinueKernel, Consume, StreamSync, Goto
  <2>2. QED
    BY <1>1, <2>1 DEF BuffersUnshared
<1>4. Current(u) \in Contexts /\ Current(u) # Current(t) /\ Current(t) \in Contexts
  BY <1>1, <1>3, CurrentIs DEF LaunchInv
<1>5. /\ pc'[u] = pc[u] /\ calling'[u] = calling[u] /\ sampling'[u] = sampling[u]
      /\ launch'[u] = launch[u]
  BY <1>2, HostMoves
<1>6. /\ snapshot'[u] = snapshot[u] /\ buffer'[u] = buffer[u]
      /\ trace'[u] = trace[u] /\ queue'[u] = queue[u] /\ analysed'[u] = analysed[u]
  BY <1>2 DEF HostStep, ResetBuffer, KernelStart, SyncSampled, SkipFiltered, Poll, KeepPolling,
              PoolExhausted, CopyRecords, ContinueKernel, Consume, StreamSync, threadVars, channelVars
<1>7. kernel'[Current(u)] = kernel[Current(u)]
  BY <1>2, <1>4 DEF HostStep, ResetBuffer, KernelStart, SyncSampled, SkipFiltered, Poll, KeepPolling,
              PoolExhausted, CopyRecords, ContinueKernel, Consume, StreamSync, deviceVars
<1>8. resetOffset'[buffer[u]] = resetOffset[buffer[u]] /\ device'[buffer[u]] = device[buffer[u]]
  <2>1. CASE ResetBuffer(t)
    <3>1. PICK o, d : /\ resetOffset' = [resetOffset EXCEPT ![BufferOf(t)] = o]
                      /\ device' = [device EXCEPT ![BufferOf(t)] = d]
      BY <2>1 DEF ResetBuffer
    <3>2. QED
      BY <1>1, <1>2, <1>3, <3>1
  <2>2. CASE ContinueKernel(t)
    <3>1. /\ pc[t] = "continue" /\ device' = [device EXCEPT ![buffer[t]].full = FALSE]
          /\ UNCHANGED resetOffset
      BY <2>2 DEF ContinueKernel, Goto
    <3>2. buffer[t] \in Contexts /\ BufferOf(t) = buffer[t]
      BY <3>1, ConstantsAssumption DEF LaunchInv, KernelInv, Launched, BufferOf
    <3>3. QED
      BY <1>1, <1>2, <1>3, <3>1, <3>2
  <2>3. CASE ~ResetBuffer(t) /\ ~ContinueKernel(t)
    BY <2>3 DEF HostStep, KernelStart, SyncSampled, SkipFiltered, Poll, KeepPolling,
                PoolExhausted, CopyRecords, Consume, StreamSync, deviceVars
  <2>4. QED
    BY <2>1, <2>2, <2>3
<1>9. QED
  BY <1>5, <1>6, <1>7, <1>8 DEF Unseen

\* The kernel of one launch is not seen by another.
LEMMA DeviceUnseen ==
  ASSUME LaunchInv, BuffersUnshared, NEW c \in Contexts, DeviceStep(c),
         NEW u \in Threads, pc[u] \in Launched \union {"start"}, c \notin calling[u]
  PROVE  Unseen(u)
<1>1. kernel[c].running
  BY DEF LaunchInv, KernelInv, DeviceStep, Push, Resume, ThreadExit, KernelEnd
<1>2. PICK t \in Threads : c \in calling[t] /\ pc[t] \in Launched
  BY <1>1 DEF LaunchInv, KernelInv, QuietBetweenLaunches, Launched, Locations
<1>3. u # t /\ pc[u] \notin {"app", "api"} /\ pc[t] \notin {"app", "api"}
  BY <1>2 DEF Launched
<1>4. Current(t) = c /\ Current(u) \in Contexts /\ Current(u) # c
  BY <1>2, <1>3, CurrentIs DEF LaunchInv
<1>5. buffer[t] \in Contexts /\ buffer[u] \in Contexts /\ kernel[c].buffer = buffer[t]
  BY <1>2, <1>4 DEF LaunchInv, KernelInv
<1>6. buffer[u] # buffer[t]
  <2>1. BufferOf(u) = buffer[u] /\ BufferOf(t) = buffer[t]
    BY <1>5, ConstantsAssumption DEF BufferOf
  <2>2. BufferOf(u) # BufferOf(t)
    BY <1>3 DEF BuffersUnshared
  <2>3. QED
    BY <2>1, <2>2
<1>7. device'[buffer[u]] = device[buffer[u]]
  BY <1>5, <1>6, DeviceEffect DEF LaunchInv
<1>8. kernel'[Current(u)] = kernel[Current(u)]
  BY <1>4, KernelEffect DEF LaunchInv
<1>9. QED
  BY <1>7, <1>8, DeviceMoves DEF Unseen, threadVars, channelVars

\* Both counts of a launch are numbers.
LEMMA LaunchNumbers ==
  ASSUME TypeOK, NEW t \in Threads, buffer[t] \in Contexts
  PROVE  /\ launch[t].grid \in Nat \ {0} /\ launch[t].grid * BlockDim \in Nat
         /\ resetOffset[buffer[t]] \in 0..(Frequency - 1)
         /\ SampledThreads(t) \in Nat
         /\ SamplingBlocks(launch[t].grid, Frequency, resetOffset[buffer[t]]) \in Nat
<1>1. launch[t].grid \in 1..MaxGrid /\ resetOffset[buffer[t]] \in 0..(Frequency - 1)
  BY DEF TypeOK
<1>2. launch[t].grid \in Nat \ {0}
  BY <1>1, Constants
<1>3. SamplingBlocks(launch[t].grid, Frequency, resetOffset[buffer[t]]) \in Nat
  BY <1>1, <1>2, Constants, SamplingCounts, SamplingBound
<1>4. \A m, n \in Nat : m * n \in Nat
  OBVIOUS
<1>5. QED
  BY <1>1, <1>2, <1>3, <1>4, Constants DEF SampledThreads

\* The kernel of a launch keeps what the launch promises: it stops while the
\* host reads a full buffer, and the host has stopped polling when it ends.
LEMMA OwnKernel ==
  ASSUME LaunchInv, NEW t \in Threads, pc[t] # "app", LaunchAt(t), DeviceStep(Current(t))
  PROVE  LaunchAt(t)'
<1>1. UNCHANGED <<pc, threadVars, channelVars, resetOffset>> /\ Current(t) \in Contexts
  BY CurrentIs, DeviceMoves DEF LaunchInv
<1>2. Current(t)' = Current(t)
  BY <1>1, CurrentKept DEF threadVars
<1>3. CASE ~Tracing(t)
  <2>1. kernel[Current(t)].running
    BY <1>1 DEF LaunchInv, KernelInv, DeviceStep, Push, Resume, ThreadExit, KernelEnd
  <2>2. PICK u \in Threads : Current(t) \in calling[u] /\ pc[u] \in Launched
    BY <1>1, <2>1 DEF LaunchInv, KernelInv, QuietBetweenLaunches, Launched, Locations
  <2>3. u = t
    <3>1. Current(t) \in calling[t]
      BY CurrentIs DEF LaunchInv
    <3>2. u # t => calling[u] \intersect calling[t] = {}
      BY DEF LaunchInv, CallsInv
    <3>3. QED
      BY <2>2, <3>1, <3>2
  <2>4. pc[t] = "fault" \/ (~sampling[t] /\ pc[t] \in {"end", "streamSync"})
    BY <1>3, <2>2, <2>3 DEF Tracing, Launched, LaunchInv, ChannelInv
  <2>5. QED
    BY <1>1, <2>4 DEF threadVars, LaunchAt, CountAt, SnapshotAt, Whole, Tracing
<1> SUFFICES ASSUME Tracing(t) PROVE LaunchAt(t)'
  BY <1>3
<1>4. PICK b : b = buffer[t] /\ b \in Contexts /\ b = kernel[Current(t)].buffer
  BY DEF LaunchInv, KernelInv, Tracing, Launched
<1>5. PICK k : k = kernel[Current(t)] /\ k \in KernelStates /\ k.live \in Nat /\ k.pushed \in Nat
  BY <1>1, Constants DEF LaunchInv, TypeOK, KernelStates
<1>6. PICK d : d = device[b] /\ d \in DeviceBuffers /\ d.records \in Records /\ Len(d.records) <= Capacity
  BY <1>4 DEF LaunchInv, TypeOK, DeviceBuffers
<1>7. /\ (Tracing(t)' <=> Tracing(t)) /\ (AllExited(t)' <=> AllExited(t)) /\ (Ready(t)' <=> Ready(t))
      /\ SampledThreads(t)' = SampledThreads(t)
  BY <1>1 DEF threadVars, Tracing, AllExited, Ready, SampledThreads
<1>8. /\ d.threads = UInt(launch[t].grid * BlockDim - SampledThreads(t) + k.live)
      /\ k.live = 0 => Len(d.records) < Capacity
      /\ pc[t] # "start"
  BY <1>4, <1>5, <1>6 DEF LaunchAt, CountAt, Tracing
<1>9. d.full => Len(d.records) = Capacity
  BY <1>4, <1>6 DEF LaunchInv, FullInv
<1>10. /\ pc[t] \in {"check", "continue"} /\ snapshot[t].full =>
            d.full /\ snapshot[t].head = Len(d.records)
       /\ pc[t] \in {"check", "continue"} /\ AllExited(t) =>
            k.live = 0 /\ snapshot[t].head = Len(d.records)
       /\ pc[t] = "continue" => Ready(t)
       /\ pc[t] = "consume" \/ (pc[t] = "streamSync" /\ sampling[t]) => k.live = 0
  BY <1>4, <1>5, <1>6 DEF LaunchAt, SnapshotAt
<1>11. Collected(t) = Written(Current(t))
  BY DEF LaunchAt, Whole
<1>12. ASSUME device'[b].threads = UInt(launch[t].grid * BlockDim - SampledThreads(t) + kernel'[Current(t)].live),
              kernel'[Current(t)].live = 0 => Len(device'[b].records) < Capacity
       PROVE  CountAt(t)'
  BY <1>1, <1>2, <1>4, <1>7, <1>8, <1>12 DEF CountAt, threadVars
<1>13. CASE KernelEnd(Current(t))
  <2>1. device' = device /\ kernel'[Current(t)].live = k.live /\ kernel'[Current(t)].pushed = k.pushed
    BY <1>1, <1>4, <1>5, <1>13, KernelEffect DEF KernelEnd, LaunchInv
  <2>2. CountAt(t)'
    BY <1>6, <1>8, <1>12, <2>1
  <2>3. SnapshotAt(t)'
    BY <1>1, <1>2, <1>4, <1>6, <1>7, <1>10, <2>1 DEF SnapshotAt, threadVars
  <2>4. Collected(t)' = Collected(t) /\ Written(Current(t))' = Written(Current(t))
    BY <1>1, <1>2, <1>5, <2>1 DEF Collected, Undrained, Written, threadVars, channelVars
  <2>5. QED
    BY <1>11, <2>2, <2>3, <2>4 DEF LaunchAt, Whole
<1> SUFFICES ASSUME Push(Current(t)) \/ Resume(Current(t)) \/ ThreadExit(Current(t))
             PROVE  LaunchAt(t)'
  BY <1>13 DEF DeviceStep
<1>14. k.live > 0 /\ ~d.full
  <2>1. k.live > 0
    BY <1>5 DEF Push, Resume, ThreadExit
  <2>2. Push(Current(t)) \/ ThreadExit(Current(t)) => Len(d.records) # Capacity
    BY <1>4, <1>6 DEF Push, ThreadExit, Blocked
  <2>3. Resume(Current(t)) => ~d.full
    BY <1>4, <1>6 DEF Resume
  <2>4. QED
    BY <1>9, <2>1, <2>2, <2>3
<1>15. /\ pc[t] \in {"check", "continue"} => ~snapshot[t].full /\ ~AllExited(t)
       /\ pc[t] \notin {"continue", "consume", "streamSync"}
  BY <1>10, <1>14 DEF Ready, Tracing
<1>16. SnapshotAt(t)'
  BY <1>1, <1>7, <1>15 DEF SnapshotAt, threadVars
<1>17. Undrained(t) = IF Len(d.records) = Capacity THEN <<>> ELSE d.records
  BY <1>4, <1>6, <1>14, <1>15 DEF Undrained
<1>18. Undrained(t)' = IF Len(device'[b].records) = Capacity /\ ~device'[b].full
                         THEN <<>> ELSE device'[b].records
  BY <1>1, <1>4, <1>15 DEF Undrained, threadVars
<1>19. PICK a \in Records : a = analysed[t] \o FlattenSeq(queue[t]) \o trace[t]
  <2>1. /\ analysed[t] \in Seq(1..MaxRecords) /\ trace[t] \in Seq(1..MaxRecords)
        /\ queue[t] \in Seq(Seq(1..MaxRecords)) /\ <<>> \in Seq(1..MaxRecords)
    BY DEF LaunchInv, TypeOK, Records
  <2>2. FlattenSeq(queue[t]) \in Seq(1..MaxRecords)
    BY <2>1, FlattenAppend
  <2>3. analysed[t] \o FlattenSeq(queue[t]) \o trace[t] \in Seq(1..MaxRecords)
    BY <2>1, <2>2, Moved
  <2>4. QED
    BY <2>3 DEF Records
<1>20. Collected(t) = a \o Undrained(t) /\ Collected(t)' = a \o Undrained(t)'
  BY <1>1, <1>19 DEF Collected, channelVars
<1>21. CASE Push(Current(t))
  <2>1. /\ device'[b].records = Append(d.records, k.pushed + 1)
        /\ device'[b].full = (Len(d.records) + 1 = Capacity)
        /\ device'[b].threads = d.threads
        /\ kernel'[Current(t)].pushed = k.pushed + 1 /\ kernel'[Current(t)].live = k.live
        /\ Len(d.records) # Capacity /\ k.pushed < MaxRecords
    <3>1. /\ device'[b].records = Append(d.records, k.pushed + 1)
          /\ device'[b].full = (Len(d.records) + 1 = Capacity)
          /\ device'[b].threads = d.threads
      BY <1>1, <1>4, <1>5, <1>6, <1>21, DeviceEffect DEF LaunchInv
    <3>2. kernel'[Current(t)].pushed = k.pushed + 1 /\ kernel'[Current(t)].live = k.live
      BY <1>1, <1>5, <1>21, KernelEffect DEF LaunchInv
    <3>3. Len(d.records) # Capacity /\ k.pushed < MaxRecords
      BY <1>4, <1>5, <1>6, <1>21 DEF Push, Blocked
    <3>4. QED
      BY <3>1, <3>2, <3>3
  <2>2. CountAt(t)'
    BY <1>8, <1>12, <1>14, <2>1
  <2>3. k.pushed + 1 \in 1..MaxRecords /\ d.records \in Seq(1..MaxRecords) /\ a \in Seq(1..MaxRecords)
    BY <1>5, <1>6, <2>1, Constants DEF Records
  <2>4. Len(Append(d.records, k.pushed + 1)) = Len(d.records) + 1
    BY <2>3
  <2>5. Undrained(t)' = Append(d.records, k.pushed + 1) /\ Undrained(t) = d.records
    <3>1. Len(device'[b].records) = Capacity => device'[b].full
      BY <2>1, <2>4
    <3>2. QED
      BY <1>17, <1>18, <2>1, <3>1
  <2>6. Collected(t)' = Append(Collected(t), k.pushed + 1)
    BY <1>20, <2>3, <2>5, Appended
  <2>7. Written(Current(t))' = [n \in 1..(k.pushed + 1) |-> n] /\ Written(Current(t)) = [n \in 1..k.pushed |-> n]
    BY <1>2, <1>5, <2>1 DEF Written
  <2>8. Collected(t)' = Written(Current(t))'
    BY <1>5, <1>11, <2>6, <2>7, NextWritten
  <2>9. QED
    BY <1>16, <2>2, <2>8 DEF LaunchAt, Whole
<1>22. CASE Resume(Current(t))
  <2>1. /\ device'[b].records = <<>> /\ device'[b].full = d.full /\ device'[b].threads = d.threads
        /\ kernel'[Current(t)].pushed = k.pushed /\ kernel'[Current(t)].live = k.live
        /\ Len(d.records) = Capacity
    <3>1. device'[b].records = <<>> /\ device'[b].full = d.full /\ device'[b].threads = d.threads
      BY <1>1, <1>4, <1>6, <1>22, DeviceEffect DEF LaunchInv
    <3>2. kernel'[Current(t)].pushed = k.pushed /\ kernel'[Current(t)].live = k.live
      BY <1>1, <1>5, <1>22, KernelEffect DEF LaunchInv
    <3>3. Len(d.records) = Capacity
      BY <1>4, <1>6, <1>22 DEF Resume, Blocked
    <3>4. QED
      BY <3>1, <3>2, <3>3
  <2>2. CountAt(t)'
    BY <1>8, <1>12, <1>14, <2>1
  <2>3. Undrained(t)' = <<>> /\ Undrained(t) = <<>>
    BY <1>17, <1>18, <2>1
  <2>4. Written(Current(t))' = Written(Current(t))
    BY <1>2, <1>5, <2>1 DEF Written
  <2>5. QED
    BY <1>11, <1>16, <1>20, <2>2, <2>3, <2>4 DEF LaunchAt, Whole
<1>23. CASE ThreadExit(Current(t))
  <2>1. /\ device'[b].records = d.records /\ device'[b].full = d.full
        /\ device'[b].threads = UInt(d.threads - 1)
        /\ kernel'[Current(t)].pushed = k.pushed /\ kernel'[Current(t)].live = k.live - 1
        /\ Len(d.records) # Capacity
    <3>1. /\ device'[b].records = d.records /\ device'[b].full = d.full
          /\ device'[b].threads = UInt(d.threads - 1)
      BY <1>1, <1>4, <1>6, <1>23, DeviceEffect DEF LaunchInv
    <3>2. kernel'[Current(t)].pushed = k.pushed /\ kernel'[Current(t)].live = k.live - 1
      BY <1>1, <1>5, <1>23, KernelEffect DEF LaunchInv
    <3>3. Len(d.records) # Capacity
      BY <1>4, <1>6, <1>23 DEF ThreadExit, Blocked
    <3>4. QED
      BY <3>1, <3>2, <3>3
  <2>2. CountAt(t)'
    <3>1. /\ launch[t].grid * BlockDim \in Nat /\ SampledThreads(t) \in Nat
      BY <1>4, LaunchNumbers DEF LaunchInv
    <3>2. PICK x \in Int : x = launch[t].grid * BlockDim - SampledThreads(t)
      BY <3>1
    <3>3. x + k.live \in Int /\ (x + k.live) - 1 = x + (k.live - 1)
      BY <1>5
    <3>4. UInt(UInt(x + k.live) - 1) = UInt(x + (k.live - 1))
      BY <3>3, CountDown
    <3>5. device'[b].threads = UInt(launch[t].grid * BlockDim - SampledThreads(t) + kernel'[Current(t)].live)
      BY <1>8, <2>1, <3>2, <3>4
    <3>6. Len(device'[b].records) < Capacity
      <4>1. Len(d.records) \in Nat
        BY <1>6 DEF Records
      <4>2. QED
        BY <1>6, <2>1, <4>1, Constants
    <3>7. QED
      BY <1>12, <3>5, <3>6
  <2>3. Undrained(t)' = Undrained(t)
    BY <1>17, <1>18, <1>14, <2>1
  <2>4. Written(Current(t))' = Written(Current(t))
    BY <1>2, <1>5, <2>1 DEF Written
  <2>5. QED
    BY <1>11, <1>16, <1>20, <2>2, <2>3, <2>4 DEF LaunchAt, Whole
<1>24. QED
  BY <1>21, <1>22, <1>23

\* A host step that changes neither the launch nor the device and leaves every
\* record where it counts keeps the count and the trace.
LEMMA OwnKept ==
  ASSUME NEW t \in Threads, LaunchAt(t), Tracing(t), pc'[t] # "start",
         UNCHANGED <<calling, buffer, sampling, launch, resetOffset, kernel>>,
         device'[buffer[t]].threads = device[buffer[t]].threads,
         device'[buffer[t]].records = device[buffer[t]].records
  PROVE  /\ CountAt(t)' /\ Current(t)' = Current(t)
         /\ Written(Current(t))' = Written(Current(t))
         /\ Collected(t)' = Collected(t) => Whole(t)'
<1>1. Current(t)' = Current(t)
  BY CurrentKept
<1>2. SampledThreads(t)' = SampledThreads(t)
  BY DEF SampledThreads
<1>3. CountAt(t)'
  BY <1>1, <1>2 DEF LaunchAt, CountAt
<1>4. Written(Current(t))' = Written(Current(t))
  BY <1>1 DEF Written
<1>5. QED
  BY <1>1, <1>3, <1>4 DEF LaunchAt, Whole

\* The reset and the start of a kernel make the promise good.
LEMMA OwnStart ==
  ASSUME LaunchInv, NEW t \in Threads, LaunchAt(t), ResetBuffer(t) \/ KernelStart(t)
  PROVE  LaunchAt(t)'
<1>1. /\ pc \in [Threads -> Locations] /\ buffer \in [Threads -> created \union {NoContext}]
      /\ device \in [Contexts -> DeviceBuffers] /\ kernel \in [Contexts -> KernelStates]
      /\ resetOffset \in [Contexts -> 0..(Frequency - 1)]
      /\ sampling \in [Threads -> BOOLEAN]
  BY DEF LaunchInv, TypeOK
<1>2. CASE ResetBuffer(t)
  <2>1. pc[t] = "reset" /\ pc' = [pc EXCEPT ![t] = "start"] /\ UNCHANGED <<sampling, launch>>
    BY <1>2 DEF ResetBuffer, Goto
  <2>2. BufferOf(t) \in Contexts
    BY <2>1, BufferCreated DEF LaunchInv
  <2>3. PICK o :
          /\ buffer' = [buffer EXCEPT ![t] = BufferOf(t)]
          /\ resetOffset' = [resetOffset EXCEPT ![BufferOf(t)] = o]
          /\ device' = [device EXCEPT ![BufferOf(t)] =
               [full |-> FALSE, records |-> <<>>, threads |-> UInt(launch[t].grid * BlockDim),
                frequency |-> IF sampling[t] THEN Frequency ELSE 0, offset |-> o]]
    BY <1>2 DEF ResetBuffer
  <2>4. pc'[t] = "start" /\ buffer'[t] = BufferOf(t) /\ resetOffset'[BufferOf(t)] = o
    BY <1>1, <2>1, <2>2, <2>3
  <2>5. device'[BufferOf(t)] =
          [full |-> FALSE, records |-> <<>>, threads |-> UInt(launch[t].grid * BlockDim),
           frequency |-> IF sampling[t] THEN Frequency ELSE 0, offset |-> o]
    BY <1>1, <2>2, <2>3
  <2>6. CountAt(t)'
    BY <2>1, <2>4, <2>5 DEF CountAt, Tracing
  <2>7. QED
    BY <2>4, <2>6 DEF LaunchAt, SnapshotAt, Whole, Tracing
<1>3. CASE KernelStart(t)
  <2> DEFINE g == launch[t].grid
             b == buffer[t]
             o == resetOffset[b]
             traced == TracedBlocks(g, device[b].frequency, device[b].offset)
  <2>1. /\ pc[t] = "start" /\ pc' = [pc EXCEPT ![t] = "end"]
        /\ UNCHANGED <<threadVars, channelVars, resetOffset, device>>
        /\ kernel' = [kernel EXCEPT ![Current(t)] =
             [running |-> TRUE, buffer |-> b, live |-> Cardinality(traced) * BlockDim, pushed |-> 0]]
    BY <1>3 DEF KernelStart, Goto
  <2>2. pc'[t] = "end" /\ Current(t)' = Current(t) /\ Current(t) \in Contexts
    BY <1>1, <2>1, CurrentKept, CurrentIs DEF LaunchInv, threadVars
  <2>3. kernel'[Current(t)].live = Cardinality(traced) * BlockDim /\ kernel'[Current(t)].pushed = 0
    BY <1>1, <2>1, <2>2
  <2>4. CASE ~sampling[t]
    BY <2>1, <2>2, <2>4 DEF LaunchAt, CountAt, SnapshotAt, Whole, Tracing, threadVars
  <2>5. CASE sampling[t]
    <3>1. b \in Contexts
      BY <2>1 DEF LaunchInv, KernelInv
    <3>2. /\ device[b].full = FALSE /\ device[b].records = <<>>
          /\ device[b].threads = UInt(g * BlockDim)
          /\ device[b].frequency = Frequency /\ device[b].offset = o
      BY <2>1, <2>5 DEF LaunchAt, CountAt
    <3>3. /\ g \in Nat \ {0} /\ g * BlockDim \in Nat /\ o \in 0..(Frequency - 1)
          /\ SampledThreads(t) \in Nat
      BY <3>1, LaunchNumbers DEF LaunchInv
    <3>4. Cardinality(traced) * BlockDim = SampledThreads(t)
      <4>1. traced = TracedBlocks(g, Frequency, o)
        BY <3>2
      <4>2. Cardinality(traced) = SamplingBlocks(g, Frequency, o)
        BY <3>3, <4>1, Constants, SamplingCounts
      <4>3. QED
        BY <4>2 DEF SampledThreads
    <3>5. g * BlockDim - SampledThreads(t) + SampledThreads(t) = g * BlockDim
      <4> HIDE DEF g
      <4>1. PICK m \in Nat : m = g * BlockDim
        BY <3>3
      <4>2. m - SampledThreads(t) + SampledThreads(t) = m
        BY <3>3
      <4>3. QED
        BY <4>1, <4>2
    <3>6. CountAt(t)'
      <4>1. SampledThreads(t)' = SampledThreads(t)
        BY <2>1 DEF SampledThreads, threadVars
      <4>2. device[b].threads = UInt(g * BlockDim - SampledThreads(t) + kernel'[Current(t)].live)
        BY <2>3, <3>2, <3>4, <3>5
      <4>3. Len(device[b].records) < Capacity
        BY <3>2, Constants
      <4>4. QED
        BY <2>1, <2>2, <4>1, <4>2, <4>3 DEF CountAt, threadVars
    <3>7. Collected(t)' = <<>>
      <4>1. analysed[t] = <<>> /\ queue[t] = <<>> /\ trace[t] = <<>>
        BY <2>1 DEF LaunchInv, ChannelInv
      <4>2. FlattenSeq(<<>>) = <<>>
        BY EmptyFlattened
      <4>3. Undrained(t)' = <<>>
        BY <2>1, <3>2 DEF Undrained, threadVars
      <4>4. <<>> \o <<>> \o <<>> \o <<>> = <<>>
        OBVIOUS
      <4>5. QED
        BY <2>1, <4>1, <4>2, <4>3, <4>4 DEF Collected, channelVars
    <3>8. Written(Current(t))' = <<>>
      <4>1. Written(Current(t))' = [n \in 1..0 |-> n]
        BY <2>2, <2>3 DEF Written
      <4>2. [n \in 1..0 |-> n] = <<>>
        OBVIOUS
      <4>3. QED
        BY <4>1, <4>2
    <3>9. SnapshotAt(t)'
      BY <2>2 DEF SnapshotAt
    <3>10. QED
      BY <3>6, <3>7, <3>8, <3>9 DEF LaunchAt, Whole
  <2>6. QED
    BY <1>1, <2>4, <2>5
<1>4. QED
  BY <1>2, <1>3

\* A count of exited threads that the host takes for the last one is.
LEMMA ExitedMeansNone ==
  ASSUME LaunchInv, NEW t \in Threads, Tracing(t), LaunchAt(t), MaxThreads < IntValues,
         device[buffer[t]].threads =
           LeftThreads(launch[t].grid, BlockDim, Frequency, resetOffset[buffer[t]])
  PROVE  kernel[Current(t)].live = 0
<1>1. buffer[t] \in Contexts /\ Current(t) \in Contexts
  BY CurrentIs DEF LaunchInv, KernelInv, Tracing, Launched
<1>2. /\ launch[t].grid * BlockDim \in Nat /\ SampledThreads(t) \in Nat
  BY <1>1, LaunchNumbers DEF LaunchInv
<1>3. PICK a \in Int : a = launch[t].grid * BlockDim
  BY <1>2
<1>4. PICK s \in Int : s = SampledThreads(t)
  BY <1>2
<1>5. PICK l \in 0..(IntValues - 1) : l = kernel[Current(t)].live
  <2>1. kernel[Current(t)].live \in 0..MaxThreads
    BY <1>1 DEF LaunchInv, TypeOK, KernelStates
  <2>2. QED
    BY <2>1, Constants
<1>6. UInt(a - s + l) = device[buffer[t]].threads
  BY <1>3, <1>4, <1>5 DEF LaunchAt, CountAt
<1>7. device[buffer[t]].threads = Size(SInt(a) - SInt(s))
  BY <1>3, <1>4 DEF LeftThreads, SampledThreads
<1>8. UInt(a - s + l) = Size(SInt(a) - SInt(s))
  BY <1>6, <1>7
<1>9. l = 0
  BY <1>8, LeftIsNone
<1>10. QED
  BY <1>5, <1>9

\* The host's synchronisation keeps the promise.
LEMMA OwnSync ==
  ASSUME LaunchInv, MaxThreads < IntValues, NEW t \in Threads, LaunchAt(t),
         \/ SyncSampled(t) \/ SkipFiltered(t) \/ Poll(t) \/ KeepPolling(t)
         \/ PoolExhausted(t) \/ CopyRecords(t) \/ ContinueKernel(t) \/ Consume(t) \/ StreamSync(t)
  PROVE  LaunchAt(t)'
<1>1. /\ pc \in [Threads -> Locations] /\ buffer \in [Threads -> created \union {NoContext}]
      /\ device \in [Contexts -> DeviceBuffers]
      /\ trace \in [Threads -> Records] /\ analysed \in [Threads -> Records]
      /\ queue \in [Threads -> Seq(Records)]
      /\ snapshot \in [Threads -> [full : BOOLEAN, head : 0..Capacity, threads : Counters]]
  BY DEF LaunchInv, TypeOK
<1>2. CASE SkipFiltered(t) \/ StreamSync(t)
  <2>1. \/ pc'[t] = "streamSync" /\ ~sampling'[t]
        \/ pc'[t] = "api"
    BY <1>1, <1>2 DEF SkipFiltered, StreamSync, Goto, threadVars
  <2>2. QED
    BY <2>1 DEF LaunchAt, CountAt, SnapshotAt, Whole, Tracing
<1> SUFFICES ASSUME Tracing(t),
                    \/ SyncSampled(t) \/ Poll(t) \/ KeepPolling(t) \/ PoolExhausted(t)
                    \/ CopyRecords(t) \/ ContinueKernel(t) \/ Consume(t)
             PROVE  LaunchAt(t)'
  <2>1. SyncSampled(t) => sampling[t] /\ pc[t] = "end"
    BY DEF SyncSampled, Goto
  <2>2. ASSUME Poll(t) \/ KeepPolling(t) \/ PoolExhausted(t) \/ CopyRecords(t)
               \/ ContinueKernel(t) \/ Consume(t)
        PROVE  sampling[t] /\ pc[t] \in {"poll", "check", "continue", "consume"}
    <3>1. pc[t] \in {"poll", "check", "continue", "consume"}
      BY <2>2 DEF Poll, KeepPolling, PoolExhausted, CopyRecords, ContinueKernel, Consume, Goto
    <3>2. QED
      BY <3>1 DEF LaunchInv, ChannelInv
  <2>3. QED
    BY <1>2, <2>1, <2>2 DEF Tracing
<1>3. PICK b \in Contexts : b = buffer[t]
  BY DEF LaunchInv, KernelInv, Tracing, Launched
<1>4. PICK d : d = device[b] /\ d \in DeviceBuffers /\ d.records \in Records /\ Len(d.records) <= Capacity
  BY <1>3 DEF LaunchInv, TypeOK, DeviceBuffers
<1>5. d.full => Len(d.records) = Capacity
  BY <1>3, <1>4 DEF LaunchInv, FullInv
<1>6. kernel[Current(t)].live = 0 => Len(d.records) < Capacity
  BY <1>3, <1>4 DEF LaunchAt, CountAt
<1>7. Collected(t) = Written(Current(t)) /\ SnapshotAt(t)
  BY DEF LaunchAt, Whole
<1>8. UNCHANGED <<calling, buffer, sampling, launch, resetOffset, kernel>>
  BY DEF SyncSampled, Poll, KeepPolling, PoolExhausted, CopyRecords, ContinueKernel, Consume,
         threadVars, deviceVars
<1>9. device'[b].threads = d.threads /\ device'[b].records = d.records
  <2>1. CASE ContinueKernel(t)
    <3>1. device' = [device EXCEPT ![b].full = FALSE]
      BY <1>3, <2>1 DEF ContinueKernel
    <3>2. QED
      BY <1>1, <1>4, <3>1 DEF DeviceBuffers
  <2>2. CASE ~ContinueKernel(t)
    <3>1. device' = device
      BY <2>2 DEF SyncSampled, Poll, KeepPolling, PoolExhausted, CopyRecords, Consume, deviceVars
    <3>2. QED
      BY <1>4, <3>1
  <2>3. QED
    BY <2>1, <2>2
<1>10. pc'[t] # "start"
  BY <1>1 DEF SyncSampled, Poll, KeepPolling, PoolExhausted, CopyRecords, ContinueKernel, Consume, Goto
<1>11. /\ CountAt(t)' /\ Current(t)' = Current(t)
       /\ Written(Current(t))' = Written(Current(t))
       /\ Collected(t)' = Collected(t) => Whole(t)'
  BY <1>3, <1>4, <1>8, <1>9, <1>10, OwnKept
<1>12. /\ analysed[t] \in Seq(1..MaxRecords) /\ trace[t] \in Seq(1..MaxRecords)
       /\ queue[t] \in Seq(Seq(1..MaxRecords)) /\ d.records \in Seq(1..MaxRecords)
       /\ <<>> \in Seq(1..MaxRecords)
  BY <1>1, <1>4 DEF Records
<1>a. PICK a \in Seq(1..MaxRecords) : a = analysed[t]
  BY <1>12
<1>x. PICK x \in Seq(1..MaxRecords) : x = trace[t]
  BY <1>12
<1>q. PICK q \in Seq(Seq(1..MaxRecords)) : q = queue[t]
  BY <1>12
<1>f. PICK f \in Seq(1..MaxRecords) : f = FlattenSeq(q) /\ FlattenSeq(Append(q, x)) = f \o x
  BY FlattenAppend
<1>u. PICK u \in Seq(1..MaxRecords) : u = Undrained(t)
  BY <1>3, <1>4, <1>12 DEF Undrained
<1>13. Collected(t) = a \o f \o x \o u
  BY <1>a, <1>x, <1>q, <1>f, <1>u DEF Collected
<1> DEFINE Step(from, to) == pc[t] = from /\ pc'[t] = to
<1>14. CASE SyncSampled(t)
  <2>1. Step("end", "poll") \/ Step("end", "fault")
    BY <1>1, <1>14 DEF SyncSampled, Goto
  <2>2. UNCHANGED <<device, analysed, queue, trace>>
    BY <1>14 DEF SyncSampled, deviceVars, channelVars
  <2>3. Collected(t)' = Collected(t)
    BY <1>8, <2>1, <2>2 DEF Collected, Undrained
  <2>4. SnapshotAt(t)'
    BY <2>1 DEF SnapshotAt
  <2>5. QED
    BY <1>11, <2>3, <2>4 DEF LaunchAt
<1>15. CASE Poll(t)
  <2>1. Step("poll", "check") \/ Step("poll", "fault")
    BY <1>1, <1>15 DEF Poll, Goto
  <2>2. UNCHANGED <<device, analysed, queue, trace>>
    BY <1>15 DEF Poll, deviceVars, channelVars
  <2>3. snapshot'[t] = [full |-> d.full, head |-> Len(d.records), threads |-> d.threads]
    BY <1>1, <1>3, <1>4, <1>15 DEF Poll
  <2>4. Collected(t)' = Collected(t)
    BY <1>8, <2>1, <2>2 DEF Collected, Undrained
  <2>5. AllExited(t)' => kernel[Current(t)].live = 0
    BY <1>3, <1>4, <1>8, <2>3, ExitedMeansNone DEF AllExited
  <2>6. SnapshotAt(t)'
    BY <1>3, <1>4, <1>8, <1>11, <2>1, <2>2, <2>3, <2>5 DEF SnapshotAt
  <2>7. QED
    BY <1>11, <2>4, <2>6 DEF LaunchAt
<1>16. CASE KeepPolling(t)
  <2>1. Step("check", "poll")
    BY <1>1, <1>16 DEF KeepPolling, Goto
  <2>2. UNCHANGED <<device, analysed, queue, trace>>
    BY <1>16 DEF KeepPolling, deviceVars, channelVars
  <2>3. Collected(t)' = Collected(t)
    BY <1>8, <2>1, <2>2 DEF Collected, Undrained
  <2>4. SnapshotAt(t)'
    BY <2>1 DEF SnapshotAt
  <2>5. QED
    BY <1>11, <2>3, <2>4 DEF LaunchAt
<1>17. CASE PoolExhausted(t)
  <2>1. Step("check", "check")
    BY <1>17 DEF PoolExhausted
  <2>2. UNCHANGED <<device, trace, snapshot>>
    BY <1>17 DEF PoolExhausted, deviceVars, threadVars
  <2>3. analysed'[t] = a \o f /\ queue'[t] = <<>>
    BY <1>1, <1>17, <1>a, <1>q, <1>f DEF PoolExhausted
  <2>4. Undrained(t)' = Undrained(t)
    BY <1>8, <2>1, <2>2 DEF Undrained
  <2>5. FlattenSeq(queue'[t]) = <<>>
    BY <2>3, EmptyFlattened
  <2>6. Collected(t)' = Collected(t)
    <3>1. Collected(t)' = (a \o f) \o <<>> \o x \o u
      BY <1>x, <1>u, <2>2, <2>3, <2>4, <2>5 DEF Collected
    <3>2. (a \o f) \o <<>> = a \o f
      BY Moved
    <3>3. QED
      BY <1>13, <3>1, <3>2
  <2>7. AllExited(t)' <=> AllExited(t)
    BY <1>8, <2>2 DEF AllExited
  <2>8. SnapshotAt(t)'
    BY <1>7, <1>8, <1>11, <2>1, <2>2, <2>7 DEF SnapshotAt
  <2>9. QED
    BY <1>11, <2>6, <2>8 DEF LaunchAt
<1>18. CASE CopyRecords(t)
  <2>1. Step("check", "continue") /\ Ready(t)
    BY <1>1, <1>18 DEF CopyRecords, Goto
  <2>2. UNCHANGED <<device, analysed, queue, snapshot>>
    BY <1>18 DEF CopyRecords, deviceVars, threadVars
  <2>3. snapshot[t].head = Len(d.records) /\ (kernel[Current(t)].live = 0 \/ d.full)
    BY <1>3, <1>4, <1>7, <2>1 DEF Ready, SnapshotAt
  <2>4. trace'[t] = d.records /\ trace[t] = <<>>
    <3>1. trace'[t] = SubSeq(d.records, 1, Len(d.records))
      BY <1>1, <1>3, <1>4, <1>18, <2>3 DEF CopyRecords
    <3>2. SubSeq(d.records, 1, Len(d.records)) = d.records
      BY <1>12
    <3>3. QED
      BY <2>1, <3>1, <3>2 DEF LaunchInv, ChannelInv
  <2>5. Undrained(t) = d.records /\ Undrained(t)' = <<>>
    <3>1. ~ (Len(d.records) = Capacity /\ ~d.full)
      <4>1. Len(d.records) \in Nat
        BY <1>12
      <4>2. QED
        BY <1>6, <2>3, <4>1, Constants
    <3>2. QED
      BY <1>3, <1>4, <2>1, <3>1 DEF Undrained
  <2>6. Collected(t)' = Collected(t)
    <3>1. Collected(t)' = a \o f \o u \o <<>>
      BY <1>a, <1>q, <1>f, <1>u, <2>2, <2>4, <2>5 DEF Collected
    <3>2. Collected(t) = a \o f \o <<>> \o u
      BY <1>13, <1>x, <2>4
    <3>3. QED
      BY <3>1, <3>2, Moved
  <2>7. (AllExited(t)' <=> AllExited(t)) /\ (Ready(t)' <=> Ready(t))
    BY <1>8, <2>2 DEF AllExited, Ready
  <2>8. SnapshotAt(t)'
    BY <1>7, <1>8, <1>11, <2>1, <2>2, <2>7 DEF SnapshotAt
  <2>9. QED
    BY <1>11, <2>6, <2>8 DEF LaunchAt
<1>19. CASE ContinueKernel(t)
  <2>1. pc[t] = "continue" /\ pc'[t] = IF AllExited(t) THEN "consume" ELSE "poll"
    BY <1>1, <1>19 DEF ContinueKernel, Goto
  <2>2. /\ analysed' = analysed /\ trace'[t] = <<>> /\ queue'[t] = Append(queue[t], trace[t])
    BY <1>1, <1>19 DEF ContinueKernel
  <2>3. device'[b].full = FALSE
    BY <1>1, <1>3, <1>19 DEF ContinueKernel, DeviceBuffers
  <2>4. AllExited(t) => kernel[Current(t)].live = 0
    BY <1>7, <2>1 DEF SnapshotAt
  <2>5. ~AllExited(t) => Len(d.records) = Capacity
    BY <1>3, <1>4, <1>5, <1>7, <2>1 DEF SnapshotAt, Ready
  <2>6. Undrained(t) = <<>> /\ Undrained(t)' = <<>>
    <3>1. Undrained(t) = <<>>
      BY <2>1 DEF Undrained
    <3>2. CASE AllExited(t)
      BY <2>1, <3>1, <3>2 DEF Undrained
    <3>3. CASE ~AllExited(t)
      BY <1>3, <1>8, <1>9, <2>3, <2>5, <3>1, <3>3 DEF Undrained
    <3>4. QED
      BY <3>2, <3>3
  <2>7. Collected(t)' = Collected(t)
    <3>1. Collected(t)' = a \o (f \o x) \o <<>> \o <<>>
      BY <1>a, <1>x, <1>q, <1>f, <2>2, <2>6 DEF Collected
    <3>2. Collected(t) = a \o f \o x \o <<>>
      BY <1>13, <1>u, <2>6
    <3>3. a \o f \o x \o <<>> = a \o (f \o x) \o <<>> \o <<>>
      BY Moved
    <3>4. QED
      BY <3>1, <3>2, <3>3
  <2>8. SnapshotAt(t)'
    BY <1>8, <1>11, <2>1, <2>4 DEF SnapshotAt
  <2>9. QED
    BY <1>11, <2>7, <2>8 DEF LaunchAt
<1>20. CASE Consume(t)
  <2>1. Step("consume", "streamSync")
    BY <1>1, <1>20 DEF Consume, Goto
  <2>2. UNCHANGED <<device, trace>>
    BY <1>20 DEF Consume, deviceVars
  <2>3. analysed'[t] = a \o f /\ queue'[t] = <<>>
    BY <1>1, <1>20, <1>a, <1>q, <1>f DEF Consume
  <2>4. Undrained(t)' = <<>> /\ Undrained(t) = <<>>
    BY <2>1 DEF Undrained
  <2>5. FlattenSeq(queue'[t]) = <<>>
    BY <2>3, EmptyFlattened
  <2>6. Collected(t)' = Collected(t)
    <3>1. Collected(t)' = (a \o f) \o <<>> \o x \o u
      BY <1>x, <1>u, <2>2, <2>3, <2>4, <2>5 DEF Collected
    <3>2. (a \o f) \o <<>> = a \o f
      BY Moved
    <3>3. QED
      BY <1>13, <3>1, <3>2
  <2>7. SnapshotAt(t)'
    BY <1>7, <1>8, <1>11, <2>1 DEF SnapshotAt
  <2>8. QED
    BY <1>11, <2>6, <2>7 DEF LaunchAt
<1>21. QED
  BY <1>14, <1>15, <1>16, <1>17, <1>18, <1>19, <1>20

\* One step keeps the whole invariant.
LEMMA IInvNext ==
  ASSUME MaxThreads < IntValues
  PROVE  IInv /\ BuffersUnshared /\ [Next]_vars => IInv'
<1> SUFFICES ASSUME LaunchInv, BuffersUnshared, [Next]_vars, \A u \in Threads : LaunchAt(u)
             PROVE  IInv'
  BY EachLaunch
<1>1. LaunchInv'
  BY LaunchNext
<1>2. pc \in [Threads -> Locations] /\ \A u \in Threads : pc[u] \in Locations
  BY DEF LaunchInv, TypeOK
<1>3. ASSUME NEW u \in Threads, pc'[u] \in {"app", "api", "reset"} PROVE LaunchAt(u)'
  BY <1>3 DEF LaunchAt, CountAt, SnapshotAt, Whole, Tracing
<1>4. ASSUME NEW u \in Threads, pc[u] \notin Launched \union {"start"}, pc'[u] = pc[u]
      PROVE  LaunchAt(u)'
  BY <1>2, <1>3, <1>4 DEF Locations, Launched
<1>5. ASSUME NEW t \in Threads,
             CreateContext(t) \/ ApiEnter(t) \/ ApiExit(t) \/ LaunchBegin(t),
             NEW u \in Threads
      PROVE  LaunchAt(u)'
  <2>1. CASE u = t
    <3>1. pc'[t] \in {"app", "api", "reset"}
      BY <1>2, <1>5 DEF CreateContext, ApiEnter, ApiExit, LaunchBegin, Goto
    <3>2. QED
      BY <1>3, <2>1, <3>1
  <2>2. CASE u # t
    <3>1. /\ sampling \in [Threads -> BOOLEAN] /\ analysed \in [Threads -> Records]
          /\ calling \in [Threads -> SUBSET created]
          /\ launch \in [Threads -> [name : Kernels, grid : 1..MaxGrid]]
      BY DEF LaunchInv, TypeOK
    <3>2. /\ UNCHANGED <<snapshot, buffer, trace, queue, resetOffset, device, kernel>>
          /\ pc'[u] = pc[u] /\ calling'[u] = calling[u]
      BY <1>2, <1>5, <2>2, <3>1 DEF CreateContext, ApiEnter, ApiExit, LaunchBegin, Goto, Calls!Enter,
                                    Calls!Exit, channelVars, deviceVars
    <3>3. sampling'[u] = sampling[u]
      BY <1>5, <2>2, <3>1 DEF CreateContext, ApiEnter, ApiExit, LaunchBegin
    <3>4. launch'[u] = launch[u] /\ analysed'[u] = analysed[u]
      BY <1>5, <2>2, <3>1 DEF CreateContext, ApiEnter, ApiExit, LaunchBegin, channelVars
    <3>5. Unseen(u)
      BY <3>2, <3>3, <3>4 DEF Unseen
    <3>6. QED
      BY <3>5, UnseenKeeps
  <2>3. QED
    BY <2>1, <2>2
<1>6. ASSUME NEW t \in Threads, HostStep(t), NEW u \in Threads PROVE LaunchAt(u)'
  <2>1. CASE u = t
    BY <1>6, <2>1, OwnStart, OwnSync DEF HostStep
  <2>2. CASE u # t
    <3>1. pc'[u] = pc[u]
      BY <1>2, <1>6, <2>2, HostMoves
    <3>2. CASE pc[u] \in Launched \union {"start"}
      BY <1>6, <2>2, <3>2, OthersUnseen, UnseenKeeps
    <3>3. CASE pc[u] \notin Launched \union {"start"}
      BY <1>4, <3>1, <3>3
    <3>4. QED
      BY <3>2, <3>3
  <2>3. QED
    BY <2>1, <2>2
<1>7. ASSUME NEW c \in Contexts, DeviceStep(c), NEW u \in Threads PROVE LaunchAt(u)'
  <2>1. CASE pc[u] \notin Launched \union {"start"}
    BY <1>4, <1>7, <2>1, DeviceMoves
  <2>2. CASE pc[u] \in Launched \union {"start"} /\ c \notin calling[u]
    BY <1>7, <2>2, DeviceUnseen, UnseenKeeps
  <2>3. CASE pc[u] \in Launched \union {"start"} /\ c \in calling[u]
    <3>1. pc[u] # "app"
      BY <2>3 DEF Launched
    <3>2. c = Current(u)
      BY <2>3, <3>1, CurrentIs DEF LaunchInv
    <3>3. QED
      BY <1>7, <3>1, <3>2, OwnKernel
  <2>4. QED
    BY <2>1, <2>2, <2>3
<1>8. CASE UNCHANGED vars
  <2>1. \A u \in Threads : Unseen(u)
    BY <1>8 DEF vars, threadVars, channelVars, deviceVars, Unseen
  <2>2. \A u \in Threads : LaunchAt(u)'
    BY <2>1, UnseenKeeps
  <2>3. QED
    BY <1>1, <2>2 DEF IInv, LaunchAt, Whole, CountInv, SnapshotInv, TraceIntact
<1>9. \A u \in Threads : LaunchAt(u)'
  BY <1>5, <1>6, <1>7, <1>8 DEF Next, IInv, LaunchAt, Whole, CountInv, SnapshotInv, TraceIntact
<1>10. QED
  BY <1>1, <1>9 DEF IInv, LaunchAt, Whole, CountInv, SnapshotInv, TraceIntact

\* The first state has it.
LEMMA IInvInit == Init => IInv
<1> SUFFICES ASSUME Init PROVE IInv
  OBVIOUS
<1>1. \A t \in Threads : pc[t] = "app"
  BY DEF Init
<1>2. \A t \in Threads : LaunchAt(t)
  BY <1>1 DEF LaunchAt, CountAt, SnapshotAt, Whole, Tracing
<1>3. QED
  BY <1>2, LaunchInit, EachLaunch

\* The invariant gives the two properties of the traces.
LEMMA IInvSuffices == IInv => TraceIntact /\ CompleteAtEnd
<1> SUFFICES ASSUME IInv PROVE CompleteAtEnd
  BY DEF IInv
<1> SUFFICES ASSUME NEW t \in Threads, pc[t] = "streamSync", sampling[t]
             PROVE  /\ kernel[Current(t)].live = 0
                    /\ analysed[t] = Written(Current(t))
  BY DEF CompleteAtEnd
<1>1. kernel[Current(t)].live = 0
  BY DEF IInv, SnapshotInv, SnapshotAt
<1>2. analysed[t] \o FlattenSeq(queue[t]) \o trace[t] \o Undrained(t) = Written(Current(t))
  BY DEF IInv, TraceIntact, Tracing, Collected
<1>3. queue[t] = <<>> /\ trace[t] = <<>> /\ Undrained(t) = <<>>
  BY DEF IInv, LaunchInv, ChannelInv, Undrained
<1>4. FlattenSeq(queue[t]) = <<>>
  BY <1>3, EmptyFlattened
<1>5. PICK a \in Seq(1..MaxRecords) : a = analysed[t]
  BY DEF IInv, LaunchInv, TypeOK, Records
<1>6. a \o <<>> \o <<>> \o <<>> = a
  OBVIOUS
<1>7. QED
  BY <1>1, <1>2, <1>3, <1>4, <1>5, <1>6

\* As long as launches in progress use different patch buffers, and an int has
\* more values than a launch has threads, no record of a traced launch is lost,
\* duplicated or reordered, wherever the host and the device are, for every
\* grid, frequency, buffer size and number of records.
THEOREM TracesIntact ==
  ASSUME MaxThreads < IntValues
  PROVE  Spec /\ []BuffersUnshared => []TraceIntact
<1>1. IInv /\ BuffersUnshared /\ [Next]_vars => IInv'
  BY IInvNext
<1>2. QED
  BY <1>1, IInvInit, IInvSuffices, PTL DEF Spec

\* Under the same conditions a sampled launch that returns has no thread left
\* on the device and the analysis has all its records.
THEOREM LaunchesComplete ==
  ASSUME MaxThreads < IntValues
  PROVE  Spec /\ []BuffersUnshared => []CompleteAtEnd
<1>1. IInv /\ BuffersUnshared /\ [Next]_vars => IInv'
  BY IInvNext
<1>2. QED
  BY <1>1, IInvInit, IInvSuffices, PTL DEF Spec

------------------------------------------------------------------------------
(* Applications whose launches do not share patch buffers.                 *)

\* A thread that has launched on a context makes its driver calls on no other;
\* other threads may use that context too.
StayInContexts == \A t \in Threads : buffer[t] # NoContext => calling[t] \subseteq {buffer[t]}

\* Two launches in progress are on different contexts, hence on different buffers.
LEMMA StayUnshared == LaunchInv /\ StayInContexts => BuffersUnshared
<1> SUFFICES ASSUME LaunchInv, StayInContexts, NEW t \in Threads, NEW u \in Threads, t # u,
                    {pc[t], pc[u]} \intersect {"app", "api"} = {}
             PROVE  BufferOf(t) # BufferOf(u)
  BY DEF BuffersUnshared
<1>1. \A w \in {t, u} : w \in Threads /\ pc[w] # "app"
  OBVIOUS
<1>2. Current(t) # Current(u)
  BY <1>1, CurrentIs DEF LaunchInv
<1>3. \A w \in {t, u} : BufferOf(w) = Current(w)
  BY <1>1, CurrentIs DEF LaunchInv, StayInContexts, BufferOf
<1>4. QED
  BY <1>2, <1>3

\* In an application whose threads stay in the context they first launch on,
\* however they share contexts, traces are whole and complete.  What the finding
\* about buffers cached per thread shows takes a thread that changes contexts.
THEOREM OwnContexts ==
  ASSUME MaxThreads < IntValues
  PROVE  Spec /\ []StayInContexts => [](TraceIntact /\ CompleteAtEnd)
<1>1. IInv /\ BuffersUnshared /\ [Next]_vars => IInv'
  BY IInvNext
<1>2. QED
  BY <1>1, StayUnshared, LaunchInvariance, IInvInit, IInvSuffices, PTL DEF Spec

\* An application with one context and any number of threads gets whole traces.
THEOREM SingleContext ==
  ASSUME MaxThreads < IntValues, NEW c, Contexts = {c}
  PROVE  Spec => [](TraceIntact /\ CompleteAtEnd)
<1>1. LaunchInv => StayInContexts
  BY DEF LaunchInv, TypeOK, CallsInv, StayInContexts
<1>2. Spec /\ []StayInContexts => [](TraceIntact /\ CompleteAtEnd)
  BY OwnContexts
<1>3. QED
  BY <1>1, <1>2, LaunchInvariance, PTL

------------------------------------------------------------------------------
(* The end of the polling loop.                                            *)

\* Numbers below half of an int's values survive the conversions.
LEMMA SmallLeft ==
  ASSUME NEW a \in Nat, NEW b \in Nat, b <= a, a < IntValues \div 2
  PROVE  UInt(a - b) = a - b /\ Size(SInt(a) - SInt(b)) = a - b
<1>1. IntValues \in Nat \ {0} /\ IntValues \div 2 \in Nat /\ IntValues \div 2 <= IntValues
  BY WidthAssumption
<1>2. ASSUME NEW m \in Nat \ {0}, NEW n \in Nat, n < m PROVE n % m = n
  BY <1>2
<1>3. \A n \in Nat : n < IntValues \div 2 => n % IntValues = n
  BY <1>1, <1>2
<1>4. SInt(a) = a /\ SInt(b) = b
  BY <1>1, <1>3 DEF SInt
<1>5. a - b \in Nat /\ a - b < IntValues
  BY <1>1
<1>6. IntValues * IntValues \in Nat \ {0} /\ IntValues <= IntValues * IntValues
  <2>1. IntValues * 1 <= IntValues * IntValues
    BY <1>1, Product
  <2>2. IntValues * 1 = IntValues /\ IntValues * IntValues \in Nat
    BY <1>1
  <2>3. QED
    BY <1>1, <2>1, <2>2
<1>7. Size(a - b) = a - b
  <2>1. PICK p \in Nat \ {0} : p = IntValues * IntValues
    BY <1>6
  <2>2. PICK d \in Nat : d = a - b
    BY <1>5
  <2>3. IntValues <= p /\ d < IntValues
    BY <1>5, <1>6, <2>1, <2>2
  <2>4. d < p
    BY <1>1, <2>3
  <2>5. d % p = d
    BY <1>2, <2>4
  <2>6. QED
    BY <2>1, <2>2, <2>5 DEF Size
<1>8. UInt(a - b) = a - b
  BY <1>1, <1>2, <1>5 DEF UInt
<1>9. QED
  BY <1>4, <1>7, <1>8

\* The last sampled thread leaves the count at what the host waits for.
LEMMA NoneMeansExited ==
  ASSUME LaunchInv, NEW t \in Threads, Tracing(t), CountAt(t), kernel[Current(t)].live = 0,
         launch[t].grid * BlockDim < IntValues \div 2
  PROVE  device[buffer[t]].threads =
           LeftThreads(launch[t].grid, BlockDim, Frequency, resetOffset[buffer[t]])
<1>1. buffer[t] \in Contexts
  BY DEF LaunchInv, KernelInv, Tracing, Launched
<1>2. /\ launch[t].grid \in Nat \ {0} /\ launch[t].grid * BlockDim \in Nat
      /\ resetOffset[buffer[t]] \in 0..(Frequency - 1) /\ SampledThreads(t) \in Nat
      /\ SamplingBlocks(launch[t].grid, Frequency, resetOffset[buffer[t]]) \in Nat
  BY <1>1, LaunchNumbers DEF LaunchInv
<1>3. PICK a \in Nat : a = launch[t].grid * BlockDim
  BY <1>2
<1>4. PICK s \in Nat : s = SampledThreads(t)
  BY <1>2
<1>5. s <= a
  <2>1. PICK n \in Nat : n = SamplingBlocks(launch[t].grid, Frequency, resetOffset[buffer[t]])
    BY <1>2
  <2>2. n <= launch[t].grid
    <3>1. PICK g \in Nat \ {0} : g = launch[t].grid
      BY <1>2
    <3>2. PICK o \in 0..(Frequency - 1) : o = resetOffset[buffer[t]]
      BY <1>2
    <3>3. Frequency \in Nat \ {0}
      BY Constants
    <3>4. Cardinality(TracedBlocks(g, Frequency, o)) = SamplingBlocks(g, Frequency, o)
      BY <3>3, SamplingCounts
    <3>5. Cardinality(TracedBlocks(g, Frequency, o)) \in 0..g
      BY SamplingBound
    <3>6. n \in 0..g
      BY <2>1, <3>1, <3>2, <3>4, <3>5
    <3>7. QED
      BY <3>1, <3>6
  <2>3. BlockDim * n <= BlockDim * launch[t].grid
    BY <1>2, <2>2, Constants, Product
  <2>4. s = BlockDim * n /\ a = BlockDim * launch[t].grid
    BY <1>2, <1>3, <1>4, <2>1, Constants DEF SampledThreads
  <2>5. QED
    BY <2>3, <2>4
<1>6. device[buffer[t]].threads = UInt(a - s + 0)
  BY <1>3, <1>4 DEF CountAt
<1>7. LeftThreads(launch[t].grid, BlockDim, Frequency, resetOffset[buffer[t]]) = Size(SInt(a) - SInt(s))
  BY <1>3, <1>4 DEF LeftThreads, SampledThreads
<1>8. a - s + 0 = a - s /\ a < IntValues \div 2
  BY <1>3
<1>9. QED
  BY <1>5, <1>6, <1>7, <1>8, SmallLeft

\* A poll that comes after the last sampled thread has exited ends the polling:
\* what is left to the liveness of launches is that the device and the host
\* take their steps.
THEOREM EndSeen ==
  ASSUME MaxThreads < IntValues
  PROVE  Spec /\ []BuffersUnshared => EndIsSeen
<1>1. IInv /\ BuffersUnshared /\ [Next]_vars => IInv'
  BY IInvNext
<1>2. IInv => [\A t \in Threads :
                 Poll(t) /\ kernel[Current(t)].live = 0
                   /\ launch[t].grid * BlockDim < IntValues \div 2
                 => AllExited(t)']_vars
  <2> SUFFICES ASSUME IInv, NEW t \in Threads, Poll(t), kernel[Current(t)].live = 0,
                      launch[t].grid * BlockDim < IntValues \div 2
               PROVE  AllExited(t)'
    OBVIOUS
  <2>1. pc[t] = "poll" /\ UNCHANGED <<launch, buffer, resetOffset>>
    BY DEF Poll, Goto, deviceVars
  <2>2. LaunchInv /\ CountAt(t) /\ sampling[t]
    BY <2>1 DEF IInv, CountInv, LaunchInv, ChannelInv
  <2>3. device[buffer[t]].threads =
          LeftThreads(launch[t].grid, BlockDim, Frequency, resetOffset[buffer[t]])
    BY <2>1, <2>2, NoneMeansExited DEF Tracing
  <2>4. snapshot'[t].threads = device[buffer[t]].threads
    BY <2>2 DEF Poll, LaunchInv, TypeOK
  <2>5. QED
    BY <2>1, <2>3, <2>4 DEF AllExited
<1>3. QED
  BY <1>1, <1>2, IInvInit, PTL DEF Spec, EndIsSeen

==============================================================================
