------------------------ MODULE ConcurrentStackProofs ------------------------
(***************************************************************************)
(* The lock-free stack, for every number of threads and elements: with one *)
(* thread that removes, as trace collection has it, no element is lost,    *)
(* doubled or handed out while it is linked, walks see the stack they      *)
(* started on, and the whole is a stack.                                   *)
(***************************************************************************)
EXTENDS ConcurrentStack, FiniteSetTheorems, SequenceTheorems, NaturalsInduction,
        WellFoundedInduction, TLAPS

\* A set of numbers that is not empty has a least one.
LEMMA LeastNumber ==
  ASSUME NEW S, S \subseteq Nat, S # {}
  PROVE  \E m \in S : \A n \in S : m <= n
<1>1. IsWellFoundedOn(OpToRel(<, Nat), Nat)
  BY NatLessThanWellFounded
<1>2. PICK m \in S : \A n \in S : ~ (<<n, m>> \in OpToRel(<, Nat))
  BY <1>1, WFMin
<1>3. \A n \in S : ~ (n < m)
  BY <1>2 DEF OpToRel
<1>4. QED
  BY <1>3

\* Concatenation under a name that the provers take as it is.
Joined(a, b) == a \o b

------------------------------------------------------------------------------
(* The path along the links, a recursive function.                         *)

\* What PathIn computes in at most m links, if such a function exists.
IsPath(f, links, m) ==
  f = [n \in 0..m |->
        [p \in Pointers |->
          IF p = Null \/ n = 0 THEN <<>> ELSE Joined(<<p>>, f[n - 1][links[p]])]]

\* One link more is one element more.
LEMMA PathAt ==
  ASSUME NEW f, NEW links, NEW m \in Nat, IsPath(f, links, m),
         NEW n \in 0..m, NEW p \in Pointers
  PROVE  /\ p = Null \/ n = 0 => f[n][p] = <<>>
         /\ p # Null /\ n # 0 => f[n][p] = Joined(<<p>>, f[n - 1][links[p]])
<1>1. f[n] = [q \in Pointers |->
                IF q = Null \/ n = 0 THEN <<>> ELSE Joined(<<q>>, f[n - 1][links[q]])]
  BY DEF IsPath
<1>2. QED
  BY <1>1

\* It exists.
LEMMA PathExists ==
  ASSUME NEW links, NEW m \in Nat
  PROVE  \E f : IsPath(f, links, m)
<1> DEFINE Good(k) == \E f : IsPath(f, links, k)
           Bad == {k \in Nat : ~Good(k)}
<1>1. SUFFICES ASSUME Bad # {} PROVE FALSE
  OBVIOUS
<1>2. PICK k \in Bad : \A n \in Bad : k <= n
  BY <1>1, LeastNumber
<1>3. CASE k = 0
  <2> DEFINE f == [n \in 0..0 |-> [p \in Pointers |-> <<>>]]
  <2>1. \A n \in 0..0 : n = 0
    OBVIOUS
  <2>2. IsPath(f, links, 0)
    BY <2>1 DEF IsPath
  <2>3. QED
    BY <1>2, <1>3, <2>2
<1>4. CASE k # 0
  <2>1. k - 1 \in Nat /\ k \in Nat /\ ~ (k <= k - 1)
    BY <1>2, <1>4
  <2>2. Good(k - 1)
    <3>1. k - 1 \notin Bad
      BY <1>2, <2>1
    <3> HIDE DEF Good
    <3>2. QED
      BY <2>1, <3>1
  <2>3. PICK j \in Nat : j = k - 1
    BY <2>1
  <2>4. PICK f : IsPath(f, links, j)
    BY <2>2, <2>3
  <2> DEFINE Value(n, p) ==
               IF p = Null \/ n = 0 THEN <<>> ELSE Joined(<<p>>, f[n - 1][links[p]])
             g == [n \in 0..k |-> [p \in Pointers |-> Value(n, p)]]
  <2>5. \A n \in 0..j : g[n] = f[n]
    <3>1. ASSUME NEW n \in 0..j PROVE g[n] = f[n]
      <4>1. f[n] = [p \in Pointers |-> Value(n, p)]
        BY <2>4 DEF IsPath
      <4>2. n \in 0..k
        BY <2>1, <2>3
      <4> HIDE DEF Value
      <4>3. QED
        BY <4>1, <4>2
    <3>2. QED
      BY <3>1
  <2>6. ASSUME NEW n \in 0..k, NEW p \in Pointers
        PROVE  Value(n, p) =
               IF p = Null \/ n = 0 THEN <<>> ELSE Joined(<<p>>, g[n - 1][links[p]])
    <3>1. n # 0 => n - 1 \in 0..j
      BY <2>1, <2>3
    <3>2. n # 0 => g[n - 1] = f[n - 1]
      BY <2>5, <3>1
    <3> HIDE DEF g
    <3>3. QED
      BY <3>2
  <2>7. IsPath(g, links, k)
    <3> HIDE DEF Value
    <3>1. QED
      BY <2>6 DEF IsPath
  <2>8. QED
    BY <1>2, <2>7
<1>5. QED
  BY <1>3, <1>4

\* PathIn is such a function, cut off after as many elements as there are.
LEMMA PathInIs ==
  ASSUME NEW links, NEW p
  PROVE  LET far == Cardinality(Elements) + 1
         IN  \E f : IsPath(f, links, far) /\ PathIn(links, p) = f[far][p]
<1> DEFINE far == Cardinality(Elements) + 1
           f == CHOOSE f : IsPath(f, links, far)
<1>1. far \in Nat
  BY ConstantsAssumption, FS_CardinalityType
<1>2. IsPath(f, links, far)
  <2> HIDE DEF far
  <2>1. QED
    BY <1>1, PathExists
<1>3. PathIn(links, p) = f[far][p]
  BY DEF PathIn, IsPath, Joined
<1>4. QED
  BY <1>2, <1>3

\* Its values are sequences of elements.
LEMMA PathValues ==
  ASSUME NEW links \in [Elements -> Pointers], NEW m \in Nat, NEW f, IsPath(f, links, m)
  PROVE  \A q \in Pointers : \A n \in 0..m : f[n][q] \in Seq(Elements)
<1> DEFINE Bad == {n \in 0..m : ~ \A q \in Pointers : f[n][q] \in Seq(Elements)}
<1>1. SUFFICES ASSUME Bad # {} PROVE FALSE
  OBVIOUS
<1>2. PICK n \in Bad : \A k \in Bad : n <= k
  <2>1. Bad \subseteq Nat
    OBVIOUS
  <2>2. QED
    BY <1>1, <2>1, LeastNumber
<1>3. ASSUME NEW q \in Pointers PROVE f[n][q] \in Seq(Elements)
  <2>1. n \in 0..m
    BY <1>2
  <2>2. CASE q = Null \/ n = 0
    <3>1. f[n][q] = <<>>
      BY <2>1, <2>2, PathAt
    <3>2. QED
      BY <3>1
  <2>3. CASE q # Null /\ n # 0
    <3>1. n - 1 \in 0..m /\ ~ (n <= n - 1)
      BY <2>1, <2>3
    <3>2. q \in Elements /\ links[q] \in Pointers
      BY <2>3 DEF Pointers
    <3>3. f[n - 1][links[q]] \in Seq(Elements)
      BY <1>2, <3>1, <3>2
    <3>4. f[n][q] = Joined(<<q>>, f[n - 1][links[q]])
      BY <2>1, <2>3, PathAt
    <3>5. QED
      BY <3>2, <3>3, <3>4 DEF Joined
  <2>4. QED
    BY <2>2, <2>3
<1>4. QED
  BY <1>2, <1>3

\* So a path is one.
LEMMA PathTyped ==
  ASSUME NEW links \in [Elements -> Pointers], NEW p \in Pointers
  PROVE  PathIn(links, p) \in Seq(Elements)
<1>1. PICK m \in Nat : m = Cardinality(Elements) + 1
  BY ConstantsAssumption, FS_CardinalityType
<1>2. PICK f : IsPath(f, links, m) /\ PathIn(links, p) = f[m][p]
  BY <1>1, PathInIs
<1>3. QED
  BY <1>1, <1>2, PathValues

------------------------------------------------------------------------------
(* Segments.                                                               *)

\* The first of a segment is where it starts.
LEMMA SegmentFirst ==
  ASSUME NEW links, NEW s \in Seq(Elements), NEW p \in Pointers, Segment(links, s, p)
  PROVE  /\ p = Null <=> s = <<>>
         /\ p # Null => p = s[1] /\ p \in Elems(s) /\ 1 \in 1..Len(s)
<1>1. CASE s = <<>>
  BY <1>1 DEF Segment
<1>2. CASE s # <<>>
  <2>1. 1 \in 1..Len(s) /\ s[1] \in Elements /\ p = s[1]
    BY <1>2 DEF Segment
  <2>2. QED
    BY <1>2, <2>1, ConstantsAssumption DEF Elems
<1>3. QED
  BY <1>1, <1>2

\* It is no longer than there are elements, and as long as it has elements.
LEMMA SegmentLength ==
  ASSUME NEW links, NEW s \in Seq(Elements), NEW p, Segment(links, s, p)
  PROVE  /\ Elems(s) \subseteq Elements
         /\ Cardinality(Elems(s)) = Len(s)
         /\ Len(s) <= Cardinality(Elements)
<1> DEFINE n == Len(s)
<1>1. n \in Nat /\ IsFiniteSet(1..n) /\ Cardinality(1..n) = n
  <2>1. n \in Nat /\ 1 \in Int
    OBVIOUS
  <2> HIDE DEF n
  <2>2. IsFiniteSet(1..n) /\ Cardinality(1..n) = IF 1 > n THEN 0 ELSE n - 1 + 1
    BY <2>1, FS_Interval
  <2>3. QED
    BY <2>1, <2>2
<1>2. /\ s \in [1..n -> Elems(s)]
      /\ \A i, j \in 1..n : s[i] = s[j] => i = j
      /\ \A e \in Elems(s) : \E i \in 1..n : s[i] = e
  BY DEF Segment, Elems
<1>3. s \in Bijection(1..n, Elems(s))
  BY <1>2 DEF Bijection, Injection, Surjection, IsInjective
<1>4. Cardinality(Elems(s)) = n
  BY <1>1, <1>3, FS_Bijection DEF ExistsBijection
<1>5. Elems(s) \subseteq Elements
  BY DEF Elems
<1>6. QED
  BY <1>4, <1>5, ConstantsAssumption, FS_Subset

\* Where the links of its elements are the same it is still there.
LEMMA SegmentKept ==
  ASSUME NEW links, NEW others, NEW s \in Seq(Elements), NEW p,
         Segment(links, s, p), \A e \in Elems(s) : others[e] = links[e]
  PROVE  /\ Segment(others, s, p)
         /\ \A q : EndsAt(links, s, q) => EndsAt(others, s, q)
<1>1. \A i \in 1..Len(s) : others[s[i]] = links[s[i]]
  BY DEF Elems
<1>2. s # <<>> => Len(s) \in 1..Len(s)
  OBVIOUS
<1>3. \A i \in 1..(Len(s) - 1) : i \in 1..Len(s)
  OBVIOUS
<1>4. QED
  BY <1>1, <1>2, <1>3 DEF Segment, EndsAt

\* What the last element links to is no part of it.
LEMMA SegmentRelinked ==
  ASSUME NEW links, NEW others, NEW s \in Seq(Elements), s # <<>>, NEW p,
         Segment(links, s, p),
         \A e \in Elems(s) : e # s[Len(s)] => others[e] = links[e]
  PROVE  Segment(others, s, p)
<1>1. ASSUME NEW i \in 1..(Len(s) - 1) PROVE others[s[i]] = s[i + 1]
  <2>1. i \in 1..Len(s) /\ Len(s) \in 1..Len(s) /\ i # Len(s)
    OBVIOUS
  <2>2. s[i] # s[Len(s)] /\ s[i] \in Elems(s)
    BY <2>1 DEF Segment, Elems
  <2>3. QED
    BY <2>2 DEF Segment
<1>2. QED
  BY <1>1 DEF Segment

\* No element at all.
LEMMA SegmentNone ==
  ASSUME NEW links
  PROVE  /\ Segment(links, <<>>, Null) /\ Elems(<<>>) = {}
         /\ \A q : EndsAt(links, <<>>, q)
BY DEF Segment, Elems, EndsAt

\* An element alone.
LEMMA SegmentOne ==
  ASSUME NEW links, NEW e \in Elements
  PROVE  /\ Segment(links, <<e>>, e) /\ Elems(<<e>>) = {e}
         /\ \A q : EndsAt(links, <<e>>, q) <=> links[e] = q
<1>1. Len(<<e>>) = 1 /\ <<e>>[1] = e /\ <<e>> # <<>> /\ DOMAIN <<e>> = 1..1
  OBVIOUS
<1>2. 1..1 = {1} /\ 1..0 = {} /\ 1 - 1 = 0
  OBVIOUS
<1>3. Segment(links, <<e>>, e) /\ Elems(<<e>>) = {e}
  BY <1>1, <1>2 DEF Segment, Elems
<1>4. \A q : EndsAt(links, <<e>>, q) <=> links[e] = q
  BY <1>1 DEF EndsAt
<1>5. QED
  BY <1>3, <1>4

\* Without its first element a segment of several starts at the second.
LEMMA SegmentRest ==
  ASSUME NEW links, NEW s \in Seq(Elements), Len(s) # 0, Len(s) # 1, NEW p,
         Segment(links, s, p)
  PROVE  Segment(links, Tail(s), links[p])
<1> DEFINE n == Len(s)
           r == Tail(s)
<1>1. /\ n \in Nat /\ n > 1 /\ p = s[1]
      /\ r \in Seq(Elements) /\ Len(r) = n - 1 /\ r # <<>>
      /\ \A i \in 1..(n - 1) : r[i] = s[i + 1]
  <2>1. n \in Nat /\ n # 0 /\ n # 1 /\ s # <<>>
    OBVIOUS
  <2>2. /\ r \in Seq(Elements) /\ Len(r) = n - 1
        /\ \A i \in 1..(n - 1) : r[i] = s[i + 1]
    BY <2>1
  <2>3. p = s[1]
    BY <2>1 DEF Segment
  <2> HIDE DEF r
  <2>4. r # <<>>
    <3>1. Len(<<>>) = 0 /\ Len(r) # 0
      <4>1. Len(r) = n - 1
        BY <2>2
      <4> HIDE DEF n
      <4>2. QED
        BY <2>1, <4>1
    <3>2. QED
      BY <3>1
  <2>5. n > 1
    <3> HIDE DEF n
    <3>1. QED
      BY <2>1
  <2>6. QED
    BY <2>1, <2>2, <2>3, <2>4, <2>5
<1> HIDE DEF r
<1>2. links[p] = r[1]
  <2>1. 1 \in 1..(n - 1)
    BY <1>1
  <2>2. r[1] = s[2] /\ links[s[1]] = s[2]
    BY <1>1, <2>1 DEF Segment
  <2>3. QED
    BY <1>1, <2>2
<1>3. \A i \in 1..(Len(r) - 1) : links[r[i]] = r[i + 1]
  <2> TAKE i \in 1..(Len(r) - 1)
  <2>1. i \in 1..(n - 1) /\ i + 1 \in 1..(n - 1)
    BY <1>1
  <2>2. r[i] = s[i + 1] /\ r[i + 1] = s[(i + 1) + 1] /\ links[s[i + 1]] = s[(i + 1) + 1]
    BY <1>1, <2>1 DEF Segment
  <2>3. QED
    BY <2>2
<1>4. \A i, j \in 1..Len(r) : r[i] = r[j] => i = j
  <2> TAKE i, j \in 1..Len(r)
  <2> HAVE r[i] = r[j]
  <2>1. i + 1 \in 1..n /\ j + 1 \in 1..n /\ i \in 1..(n - 1) /\ j \in 1..(n - 1)
    BY <1>1
  <2>2. s[i + 1] = s[j + 1]
    BY <1>1, <2>1
  <2>3. i + 1 = j + 1
    BY <2>1, <2>2 DEF Segment
  <2>4. QED
    BY <2>1, <2>3
<1>5. QED
  BY <1>1, <1>2, <1>3, <1>4 DEF Segment, r

\* So does one of any length that nothing follows.
LEMMA SegmentTail ==
  ASSUME NEW links, NEW s \in Seq(Elements), s # <<>>, NEW p,
         Segment(links, s, p), EndsAt(links, s, Null)
  PROVE  /\ Tail(s) \in Seq(Elements)
         /\ Segment(links, Tail(s), links[p]) /\ EndsAt(links, Tail(s), Null)
         /\ Elems(Tail(s)) = Elems(s) \ {p} /\ p \in Elems(s)
<1> DEFINE n == Len(s)
           r == Tail(s)
<1>1. /\ n \in Nat \ {0} /\ p = s[1] /\ s \in [1..n -> Elements]
      /\ r \in Seq(Elements) /\ Len(r) = n - 1
      /\ \A i \in 1..(n - 1) : r[i] = s[i + 1]
  BY DEF Segment
<1> HIDE DEF r
<1>2. ASSUME n = 1 PROVE Segment(links, r, links[p])
  <2>1. Len(r) = 0
    <3>1. Len(r) = n - 1 /\ n = 1
      BY <1>1, <1>2
    <3> HIDE DEF n
    <3>2. QED
      BY <3>1
  <2>2. r = <<>>
    BY <1>1, <2>1, EmptySeq
  <2>3. links[s[1]] = Null
    <3>1. links[s[n]] = Null
      BY DEF EndsAt
    <3>2. QED
      BY <1>2, <3>1
  <2>4. QED
    BY <1>1, <2>2, <2>3, SegmentNone
<1>3. ASSUME n # 1 PROVE Segment(links, r, links[p])
  <2>1. Len(s) # 0 /\ Len(s) # 1
    BY <1>1, <1>3
  <2>2. QED
    BY <2>1, SegmentRest DEF r
<1>4. Segment(links, r, links[p])
  BY <1>2, <1>3
<1>5. EndsAt(links, r, Null)
  <2>1. SUFFICES ASSUME r # <<>> PROVE links[r[Len(r)]] = Null
    BY DEF EndsAt
  <2>2. Len(r) \in 1..(n - 1) /\ Len(r) + 1 = n
    BY <1>1, <2>1
  <2>3. r[Len(r)] = s[n]
    BY <1>1, <2>2
  <2>4. QED
    BY <2>3 DEF EndsAt
<1>6. Elems(r) = Elems(s) \ {p} /\ p \in Elems(s)
  <2>1. DOMAIN s = 1..n /\ DOMAIN r = 1..(n - 1) /\ 1 \in 1..n
    BY <1>1
  <2>2. ASSUME NEW e \in Elems(r) PROVE e \in Elems(s) /\ e # p
    <3>1. PICK i \in 1..(n - 1) : e = r[i]
      BY <2>1, <2>2 DEF Elems
    <3>2. i + 1 \in 1..n /\ e = s[i + 1] /\ i + 1 # 1
      BY <1>1, <3>1
    <3>3. QED
      BY <1>1, <2>1, <3>2 DEF Elems, Segment
  <2>3. ASSUME NEW e \in Elems(s), e # p PROVE e \in Elems(r)
    <3>1. PICK i \in 1..n : e = s[i]
      BY <2>1, <2>3 DEF Elems
    <3>2. i - 1 \in 1..(n - 1) /\ (i - 1) + 1 = i
      BY <1>1, <2>3, <3>1
    <3>3. e = r[i - 1]
      BY <1>1, <3>1, <3>2
    <3>4. QED
      BY <2>1, <3>2, <3>3 DEF Elems
  <2>4. p \in Elems(s)
    BY <1>1, <2>1 DEF Elems
  <2>5. QED
    BY <2>2, <2>3, <2>4
<1>7. QED
  BY <1>1, <1>4, <1>5, <1>6 DEF r

\* Each element but the last links to another.
LEMMA SegmentNext ==
  ASSUME NEW links, NEW s \in Seq(Elements), NEW p, NEW e \in Elems(s),
         Segment(links, s, p), EndsAt(links, s, Null)
  PROVE  /\ links[e] # Null => links[e] \in Elems(s)
         /\ links[e] = Null => s # <<>> /\ e = s[Len(s)]
<1>1. PICK i \in 1..Len(s) : e = s[i]
  BY DEF Elems
<1>2. s # <<>> /\ links[s[Len(s)]] = Null
  <2>1. s # <<>>
    BY DEF Elems
  <2>2. QED
    BY <2>1 DEF EndsAt
<1>3. CASE i = Len(s)
  BY <1>1, <1>2, <1>3
<1>4. CASE i # Len(s)
  <2>1. i \in 1..(Len(s) - 1) /\ i + 1 \in 1..Len(s)
    BY <1>4
  <2>2. links[e] = s[i + 1] /\ s[i + 1] \in Elements
    BY <1>1, <2>1 DEF Segment
  <2>3. s[i + 1] \in Elems(s)
    BY <2>1 DEF Elems
  <2>4. QED
    BY <2>2, <2>3, ConstantsAssumption
<1>5. QED
  BY <1>3, <1>4

\* Two segments, the first of which ends where the second starts, are one.
LEMMA SegmentJoin ==
  ASSUME NEW links, NEW a \in Seq(Elements), a # <<>>, NEW b \in Seq(Elements),
         NEW p, NEW q,
         Segment(links, a, p), EndsAt(links, a, q), Segment(links, b, q),
         EndsAt(links, b, Null), Elems(a) \intersect Elems(b) = {}
  PROVE  /\ a \o b \in Seq(Elements)
         /\ Segment(links, a \o b, p) /\ EndsAt(links, a \o b, Null)
         /\ Elems(a \o b) = Elems(a) \union Elems(b)
<1> DEFINE n == Len(a)
           m == Len(b)
           c == a \o b
<1>1. /\ n \in Nat \ {0} /\ m \in Nat /\ c \in Seq(Elements) /\ Len(c) = n + m
      /\ \A i \in 1..n : c[i] = a[i]
      /\ \A i \in 1..m : c[n + i] = b[i]
      /\ DOMAIN a = 1..n /\ DOMAIN b = 1..m /\ DOMAIN c = 1..(n + m)
  OBVIOUS
<1> HIDE DEF c
<1>2. \A i \in 1..(n + m) : i \in 1..n \/ (i - n \in 1..m /\ n + (i - n) = i /\ i > n)
  BY <1>1
<1>3. p = c[1] /\ c # <<>>
  BY <1>1 DEF Segment
<1>4. ASSUME NEW i \in 1..(Len(c) - 1) PROVE links[c[i]] = c[i + 1]
  <2>1. CASE i < n
    <3>1. i \in 1..(n - 1) /\ i \in 1..n /\ i + 1 \in 1..n
      BY <1>1, <2>1
    <3>2. QED
      BY <1>1, <3>1 DEF Segment
  <2>2. CASE i = n
    <3>1. i \in 1..n /\ 1 \in 1..m /\ b # <<>>
      BY <1>1, <2>2
    <3>2. links[a[n]] = q /\ q = b[1] /\ c[n + 1] = b[1]
      BY <1>1, <3>1 DEF EndsAt, Segment
    <3>3. QED
      BY <1>1, <2>2, <3>1, <3>2
  <2>3. CASE i > n
    <3>1. PICK j \in 1..(m - 1) : i = n + j
      <4>1. i - n \in 1..(m - 1) /\ i = n + (i - n)
        BY <1>1, <2>3
      <4>2. QED
        BY <4>1
    <3>2. j \in 1..m /\ j + 1 \in 1..m /\ i + 1 = n + (j + 1)
      BY <1>1, <3>1
    <3>3. c[i] = b[j] /\ c[i + 1] = b[j + 1] /\ links[b[j]] = b[j + 1]
      BY <1>1, <3>1, <3>2 DEF Segment
    <3>4. QED
      BY <3>3
  <2>4. i < n \/ i = n \/ i > n
    <3>1. i \in Nat /\ n \in Nat
      BY <1>1
    <3> HIDE DEF n
    <3>2. QED
      BY <3>1
  <2>5. QED
    BY <2>1, <2>2, <2>3, <2>4
<1>5. ASSUME NEW i \in 1..(n + m)
      PROVE  \/ i \in 1..n /\ c[i] = a[i] /\ c[i] \in Elems(a)
             \/ \E j \in 1..m : i = n + j /\ c[i] = b[j] /\ c[i] \in Elems(b)
  <2>1. CASE i \in 1..n
    BY <1>1, <2>1 DEF Elems
  <2>2. CASE i \notin 1..n
    <3>1. PICK j \in 1..m : i = n + j
      BY <1>2, <2>2
    <3>2. c[i] = b[j] /\ b[j] \in Elems(b)
      BY <1>1, <3>1 DEF Elems
    <3>3. QED
      BY <3>1, <3>2
  <2>3. QED
    BY <2>1, <2>2
<1>6. ASSUME NEW i \in 1..(n + m), NEW j \in 1..(n + m), c[i] = c[j] PROVE i = j
  <2>1. CASE c[i] \in Elems(a)
    <3>1. c[i] \notin Elems(b)
      BY <2>1
    <3>2. i \in 1..n /\ c[i] = a[i] /\ j \in 1..n /\ c[j] = a[j]
      BY <1>5, <1>6, <3>1
    <3>3. QED
      BY <1>6, <3>2 DEF Segment
  <2>2. CASE c[i] \notin Elems(a)
    <3>1. PICK k \in 1..m : i = n + k /\ c[i] = b[k]
      BY <1>5, <2>2
    <3>2. PICK l \in 1..m : j = n + l /\ c[j] = b[l]
      BY <1>5, <1>6, <2>2
    <3>3. k = l
      BY <1>6, <3>1, <3>2 DEF Segment
    <3>4. QED
      BY <3>1, <3>2, <3>3
  <2>3. QED
    BY <2>1, <2>2
<1>7. links[c[Len(c)]] = Null
  <2>1. CASE m = 0
    <3>1. b = <<>> /\ n + m = n /\ n \in 1..n
      BY <1>1, <2>1
    <3>2. q = Null /\ c[n] = a[n] /\ links[a[n]] = q
      BY <1>1, <3>1 DEF EndsAt, Segment
    <3>3. QED
      BY <1>1, <3>1, <3>2
  <2>2. CASE m # 0
    <3>1. b # <<>> /\ m \in 1..m
      BY <1>1, <2>2
    <3>2. QED
      BY <1>1, <3>1 DEF EndsAt
  <2>3. QED
    BY <2>1, <2>2
<1>8. Elems(c) = Elems(a) \union Elems(b)
  <2>1. ASSUME NEW e \in Elems(c) PROVE e \in Elems(a) \union Elems(b)
    <3>1. PICK i \in 1..(n + m) : e = c[i]
      BY <1>1 DEF Elems
    <3>2. QED
      BY <1>5, <3>1
  <2>2. ASSUME NEW e \in Elems(a) PROVE e \in Elems(c)
    <3>1. PICK i \in 1..n : e = a[i]
      BY <1>1 DEF Elems
    <3>2. i \in 1..(n + m) /\ e = c[i]
      BY <1>1, <3>1
    <3>3. QED
      BY <1>1, <3>2 DEF Elems
  <2>3. ASSUME NEW e \in Elems(b) PROVE e \in Elems(c)
    <3>1. PICK i \in 1..m : e = b[i]
      BY <1>1 DEF Elems
    <3>2. n + i \in 1..(n + m) /\ e = c[n + i]
      BY <1>1, <3>1
    <3>3. QED
      BY <1>1, <3>2 DEF Elems
  <2>4. QED
    BY <2>1, <2>2, <2>3
<1>9. QED
  BY <1>1, <1>3, <1>4, <1>6, <1>7, <1>8 DEF Segment, EndsAt, c

\* What a path is that starts with s, and is s if nothing follows it.
Begins(path, links, s) ==
  \E r \in Seq(Elements) : path = s \o r /\ (EndsAt(links, s, Null) => r = <<>>)

\* The path from the start of a segment begins with it.
LEMMA PathBegins ==
  ASSUME NEW links \in [Elements -> Pointers], NEW s \in Seq(Elements),
         NEW p \in Pointers, Segment(links, s, p)
  PROVE  Begins(PathIn(links, p), links, s)
<1>1. PICK m \in Nat : m = Cardinality(Elements) + 1
  BY ConstantsAssumption, FS_CardinalityType
<1>2. PICK f : IsPath(f, links, m) /\ PathIn(links, p) = f[m][p]
  BY <1>1, PathInIs
<1>3. \A q \in Pointers : \A n \in 0..m : f[n][q] \in Seq(Elements)
  BY <1>1, <1>2, PathValues
<1> DEFINE Good(n) ==
             \A c \in Seq(Elements), q \in Pointers :
               Segment(links, c, q) /\ Len(c) <= n => Begins(f[n][q], links, c)
           Bad == {n \in 0..m : ~Good(n)}
<1>4. ASSUME Bad # {} PROVE FALSE
  <2>1. PICK n \in Bad : \A k \in Bad : n <= k
    <3>1. Bad \subseteq Nat
      OBVIOUS
    <3>2. QED
      BY <1>4, <3>1, LeastNumber
  <2>2. ASSUME NEW c \in Seq(Elements), NEW q \in Pointers,
               Segment(links, c, q), Len(c) <= n
        PROVE  Begins(f[n][q], links, c)
    <3>1. n \in 0..m /\ n \in Nat
      BY <2>1
    <3>2. CASE c = <<>>
      <4>1. q = Null
        BY <2>2, <3>2, SegmentFirst
      <4>2. f[n][q] = <<>>
        BY <1>2, <3>1, <4>1, PathAt
      <4>3. <<>> \in Seq(Elements) /\ <<>> \o <<>> = <<>>
        OBVIOUS
      <4>4. QED
        BY <3>2, <4>2, <4>3 DEF Begins
    <3>3. CASE c # <<>>
      <4>1. q # Null /\ q = c[1] /\ q \in Elements /\ links[q] \in Pointers
        BY <2>2, <3>3, SegmentFirst DEF Pointers
      <4>2. Len(c) \in Nat \ {0} /\ n # 0 /\ n - 1 \in 0..m /\ ~ (n <= n - 1)
        BY <2>2, <3>1, <3>3
      <4>3. f[n][q] = Joined(<<q>>, f[n - 1][links[q]])
        BY <1>2, <3>1, <4>1, <4>2, PathAt
      <4>4. Good(n - 1)
        <5>1. n - 1 \notin Bad
          BY <2>1, <4>2
        <5> HIDE DEF Good
        <5>2. QED
          BY <4>2, <5>1
      <4>5. PICK r \in Seq(Elements) :
              f[n - 1][links[q]] = Tail(c) \o r /\ (EndsAt(links, c, Null) => r = <<>>)
        <5>1. CASE EndsAt(links, c, Null)
          <6>1. /\ Tail(c) \in Seq(Elements) /\ Segment(links, Tail(c), links[q])
                /\ EndsAt(links, Tail(c), Null) /\ Len(Tail(c)) <= n - 1
            BY <2>2, <3>1, <3>3, <4>2, <5>1, SegmentTail
          <6>2. Begins(f[n - 1][links[q]], links, Tail(c))
            BY <4>1, <4>4, <6>1
          <6>3. QED
            BY <6>1, <6>2 DEF Begins
        <5>2. CASE ~EndsAt(links, c, Null) /\ Len(c) = 1
          <6>1. Tail(c) = <<>> /\ f[n - 1][links[q]] \in Seq(Elements)
            <7>1. f[n - 1][links[q]] \in Seq(Elements)
              BY <1>3, <4>1, <4>2
            <7>2. Tail(c) \in Seq(Elements) /\ Len(Tail(c)) = 0
              BY <3>3, <5>2
            <7>3. QED
              BY <7>1, <7>2, EmptySeq
          <6>2. <<>> \o f[n - 1][links[q]] = f[n - 1][links[q]]
            BY <6>1, ConcatEmptySeq
          <6>3. QED
            BY <5>2, <6>1, <6>2
        <5>3. CASE ~EndsAt(links, c, Null) /\ Len(c) # 1
          <6>1. Segment(links, Tail(c), links[q])
            BY <2>2, <3>3, <4>1, <4>2, <5>3, SegmentRest
          <6>2. Tail(c) \in Seq(Elements) /\ Len(Tail(c)) <= n - 1
            BY <2>2, <3>1, <3>3, <4>2
          <6>3. Begins(f[n - 1][links[q]], links, Tail(c))
            BY <4>1, <4>4, <6>1, <6>2
          <6>4. QED
            BY <5>3, <6>3 DEF Begins
        <5>4. QED
          BY <5>1, <5>2, <5>3
      <4>6. Joined(<<q>>, Tail(c) \o r) = c \o r
        <5>1. /\ <<q>> \in Seq(Elements) /\ Tail(c) \in Seq(Elements)
              /\ <<q>> \o Tail(c) = c
          BY <3>3, <4>1
        <5>2. (<<q>> \o Tail(c)) \o r = <<q>> \o (Tail(c) \o r)
          BY <5>1, ConcatAssociative
        <5>3. QED
          BY <5>1, <5>2 DEF Joined
      <4>7. QED
        BY <4>3, <4>5, <4>6 DEF Begins
    <3>4. QED
      BY <3>2, <3>3
  <2>3. QED
    BY <2>1, <2>2
<1>5. Good(m)
  <2>1. m \in 0..m
    BY <1>1
  <2> HIDE DEF Good
  <2>2. QED
    BY <1>4, <2>1
<1>6. Len(s) <= m
  <2>1. Len(s) <= Cardinality(Elements) /\ Cardinality(Elements) \in Nat
    BY SegmentLength, ConstantsAssumption, FS_CardinalityType
  <2>2. QED
    BY <1>1, <2>1
<1>7. QED
  BY <1>2, <1>5, <1>6

\* The path from the start of a segment that nothing follows is the segment.
LEMMA PathIs ==
  ASSUME NEW links \in [Elements -> Pointers], NEW s \in Seq(Elements),
         NEW p \in Pointers, Segment(links, s, p), EndsAt(links, s, Null)
  PROVE  PathIn(links, p) = s
<1>1. PICK r \in Seq(Elements) : PathIn(links, p) = s \o r /\ r = <<>>
  BY PathBegins DEF Begins
<1>2. s \o <<>> = s
  BY ConcatEmptySeq
<1>3. QED
  BY <1>1, <1>2

------------------------------------------------------------------------------
(* Steps.                                                                  *)

\* A state whose stack is s, with chains h in hand and walks that have b left.
At(s, h, b) ==
  /\ s \in Seq(Elements)
  /\ h \in [Threads -> Seq(Elements)] /\ b \in [Threads -> Seq(Elements)]
  /\ TypeOK /\ StackInv(s, h, b)

\* A step of t leaves the other threads where they are.
OthersStay(t) ==
  /\ emptied' = emptied
  /\ \A u \in Threads \ {t} :
       /\ pc'[u] = pc[u] /\ chain'[u] = chain[u] /\ tail'[u] = tail[u]
       /\ expected'[u] = expected[u] /\ following'[u] = following[u]
       /\ current'[u] = current[u] /\ visited'[u] = visited[u] /\ found'[u] = found[u]

\* What a step may make of a stack: an operation of LifoStack, or nothing.
StackStep(s, r) ==
  \/ r = s
  \/ s # <<>> /\ (r = Tail(s) \/ r = <<>>)
  \/ \E c \in Seq(Elements) : c # <<>> /\ r = c \o s

\* A step that does it and leaves the invariant true.
Kept(s) ==
  \E r \in Seq(Elements), h \in [Threads -> Seq(Elements)], b \in [Threads -> Seq(Elements)] :
    StackInv(r, h, b)' /\ StackStep(s, r)

\* What the threads have in hand.
Hands(h) == [u \in Threads |-> Elems(h[u])]

\* Elements that change hands between the stack, one thread and nobody.
LEMMA PartitionMoved ==
  ASSUME NEW A, NEW F, NEW B, NEW G, NEW h \in [Threads -> Seq(Elements)],
         NEW t \in Threads, NEW c \in Seq(Elements),
         Partition(A, F, Hands(h)),
         B \union G \union Elems(c) = A \union F \union Elems(h[t]),
         B \intersect G = {}, Elems(c) \intersect B = {}, Elems(c) \intersect G = {}
  PROVE  Partition(B, G, Hands([h EXCEPT ![t] = c]))
<1> DEFINE g == [h EXCEPT ![t] = c]
<1>1. g[t] = c /\ \A u \in Threads : u # t => g[u] = h[u]
  OBVIOUS
<1> HIDE DEF g
<1>2. /\ \A u \in Threads : Elems(h[u]) \intersect A = {} /\ Elems(h[u]) \intersect F = {}
      /\ \A u, v \in Threads : u # v => Elems(h[u]) \intersect Elems(h[v]) = {}
      /\ \A e \in Elements : e \in A \/ e \in F \/ \E u \in Threads : e \in Elems(h[u])
  BY DEF Partition, Hands
<1>3. ASSUME NEW u \in Threads
      PROVE  Elems(g[u]) \intersect B = {} /\ Elems(g[u]) \intersect G = {}
  BY <1>1, <1>2
<1>4. ASSUME NEW u \in Threads, NEW v \in Threads, u # v
      PROVE  Elems(g[u]) \intersect Elems(g[v]) = {}
  BY <1>1, <1>2, <1>4
<1>5. ASSUME NEW e \in Elements
      PROVE  e \in B \/ e \in G \/ \E u \in Threads : e \in Elems(g[u])
  BY <1>1, <1>2
<1>6. QED
  BY <1>3, <1>4, <1>5 DEF Partition, Hands, g

\* The invariant holds after a step of t if it does of what the step changes:
\* a step relinks nothing of the stack and nothing the others have in hand,
\* and takes elements off the stack only as the one remover.
LEMMA StepOf ==
  ASSUME NEW s, NEW h, NEW b, At(s, h, b), NEW t \in Threads, OthersStay(t),
         NEW r \in Seq(Elements), NEW c \in Seq(Elements), NEW d \in Seq(Elements),
         \A e \in Elems(s) : next'[e] = next[e],
         \A u \in Threads \ {t} : \A e \in Elems(h[u]) : next'[e] = next[e],
         Elems(s) \subseteq Elems(r) \/ (emptied /\ \A u \in Threads \ {t} : u \notin Removers),
         Elems(r) \union free' \union Elems(c) = Elems(s) \union free \union Elems(h[t]),
         Elems(r) \intersect free' = {}, Elems(c) \intersect Elems(r) = {},
         Elems(c) \intersect free' = {},
         Segment(next', r, head'), EndsAt(next', r, Null), Segment(next', c, chain'[t]),
         PushAt(t, c)', PopAt(t, c, r)', WalkAt(t, d, r)', StackStep(s, r)
  PROVE  Kept(s)
<1> DEFINE g == [h EXCEPT ![t] = c]
           a == [b EXCEPT ![t] = d]
<1>1. /\ h \in [Threads -> Seq(Elements)] /\ b \in [Threads -> Seq(Elements)]
      /\ StackInv(s, h, b) /\ TypeOK /\ s \in Seq(Elements)
  BY DEF At
<1>2. /\ g \in [Threads -> Seq(Elements)] /\ a \in [Threads -> Seq(Elements)]
      /\ g[t] = c /\ a[t] = d
      /\ \A u \in Threads \ {t} : g[u] = h[u] /\ a[u] = b[u]
  BY <1>1
<1>3. Partition(Elems(r), free', Hands(g))
  <2>1. Partition(Elems(s), free, Hands(h))
    BY <1>1 DEF StackInv, Hands
  <2>2. PICK A, B, F, G : A = Elems(s) /\ B = Elems(r) /\ F = free /\ G = free'
    OBVIOUS
  <2>3. /\ Partition(A, F, Hands(h))
        /\ B \union G \union Elems(c) = A \union F \union Elems(h[t])
        /\ B \intersect G = {} /\ Elems(c) \intersect B = {} /\ Elems(c) \intersect G = {}
    BY <2>1, <2>2
  <2>4. Partition(B, G, Hands([h EXCEPT ![t] = c]))
    BY <1>1, <2>3, PartitionMoved
  <2>5. QED
    BY <2>2, <2>4
<1> HIDE DEF g, a
<1>4. ASSUME NEW u \in Threads \ {t}
      PROVE  /\ Segment(next', h[u], chain'[u])
             /\ PushAt(u, h[u])' /\ PopAt(u, h[u], r)' /\ WalkAt(u, b[u], r)'
  <2>1. /\ Segment(next, h[u], chain[u]) /\ h[u] \in Seq(Elements) /\ b[u] \in Seq(Elements)
        /\ PushAt(u, h[u]) /\ PopAt(u, h[u], s) /\ WalkAt(u, b[u], s)
    BY <1>1 DEF StackInv
  <2>2. /\ pc'[u] = pc[u] /\ chain'[u] = chain[u] /\ tail'[u] = tail[u]
        /\ expected'[u] = expected[u] /\ following'[u] = following[u]
        /\ current'[u] = current[u] /\ visited'[u] = visited[u] /\ found'[u] = found[u]
        /\ emptied' = emptied
    BY DEF OthersStay
  <2>3. /\ Segment(next', h[u], chain'[u])
        /\ \A q : EndsAt(next, h[u], q) => EndsAt(next', h[u], q)
    BY <2>1, <2>2, SegmentKept
  <2>4. PushAt(u, h[u])'
    <3>1. pc[u] = "pushCas" => tail[u] \in Elems(h[u])
      <4>1. h[u] # <<>> => Len(h[u]) \in DOMAIN h[u]
        BY <2>1
      <4>2. QED
        BY <2>1, <4>1 DEF PushAt, Elems
    <3>2. pc[u] = "pushCas" => next'[tail[u]] = expected[u]
      BY <2>1, <3>1 DEF PushAt
    <3>3. QED
      BY <2>1, <2>2, <2>3, <3>2 DEF PushAt
  <2>5. PopAt(u, h[u], r)'
    <3>1. CASE Elems(s) \subseteq Elems(r)
      BY <2>1, <2>2, <3>1 DEF PopAt
    <3>2. CASE u \notin Removers
      BY <2>1, <2>2, <3>2 DEF PopAt
    <3>3. QED
      BY <3>1, <3>2
  <2>6. WalkAt(u, b[u], r)'
    <3>1. CASE pc[u] = "walk"
      <4>1. Elems(s) \subseteq Elems(r) /\ Elems(b[u]) \subseteq Elems(s)
        BY <2>1, <3>1 DEF WalkAt
      <4>2. Segment(next', b[u], current[u]) /\ EndsAt(next', b[u], Null)
        BY <2>1, <3>1, <4>1, SegmentKept DEF WalkAt
      <4>3. QED
        BY <2>1, <2>2, <3>1, <4>1, <4>2 DEF WalkAt
    <3>2. CASE pc[u] # "walk"
      BY <2>1, <2>2, <3>2 DEF WalkAt
    <3>3. QED
      BY <3>1, <3>2
  <2>7. QED
    BY <2>3, <2>4, <2>5, <2>6
<1>5. ASSUME NEW u \in Threads
      PROVE  /\ Segment(next', g[u], chain'[u])
             /\ PushAt(u, g[u])' /\ PopAt(u, g[u], r)' /\ WalkAt(u, a[u], r)'
  BY <1>2, <1>4
<1>6. StackInv(r, g, a)'
  BY <1>3, <1>5 DEF StackInv, Hands
<1>7. QED
  BY <1>2, <1>6 DEF Kept

\* What is known of a thread in such a state.
LEMMA InState ==
  ASSUME NEW s, NEW h, NEW b, At(s, h, b), NEW t \in Threads
  PROVE  /\ s \in Seq(Elements) /\ h[t] \in Seq(Elements) /\ b[t] \in Seq(Elements)
         /\ Segment(next, s, head) /\ EndsAt(next, s, Null)
         /\ Segment(next, h[t], chain[t])
         /\ PushAt(t, h[t]) /\ PopAt(t, h[t], s) /\ WalkAt(t, b[t], s)
         /\ chain[t] = Null <=> h[t] = <<>>
         /\ head = Null <=> s = <<>>
         /\ Elems(s) \intersect free = {}
         /\ Elems(h[t]) \intersect Elems(s) = {} /\ Elems(h[t]) \intersect free = {}
         /\ \A u \in Threads \ {t} : /\ Elems(h[u]) \intersect Elems(h[t]) = {}
                                   /\ Elems(h[u]) \intersect free = {}
         /\ Elems(s) \subseteq Elements /\ Elems(h[t]) \subseteq Elements
<1>1. /\ s \in Seq(Elements) /\ h[t] \in Seq(Elements) /\ b[t] \in Seq(Elements)
      /\ Segment(next, s, head) /\ EndsAt(next, s, Null)
      /\ Segment(next, h[t], chain[t])
      /\ PushAt(t, h[t]) /\ PopAt(t, h[t], s) /\ WalkAt(t, b[t], s)
      /\ Partition(Elems(s), free, Hands(h))
      /\ head \in Pointers /\ chain[t] \in Pointers
  BY DEF At, StackInv, Hands, TypeOK
<1>2. chain[t] = Null <=> h[t] = <<>>
  BY <1>1, SegmentFirst
<1>3. head = Null <=> s = <<>>
  BY <1>1, SegmentFirst
<1>4. /\ Elems(s) \intersect free = {}
      /\ \A u \in Threads : Elems(h[u]) \intersect Elems(s) = {} /\ Elems(h[u]) \intersect free = {}
      /\ \A u, v \in Threads : u # v => Elems(h[u]) \intersect Elems(h[v]) = {}
  BY <1>1 DEF Partition, Hands
<1>5. Elems(s) \subseteq Elements /\ Elems(h[t]) \subseteq Elements
  BY <1>1 DEF Elems
<1>6. QED
  BY <1>1, <1>2, <1>3, <1>4, <1>5

\* A step that moves no element.
LEMMA LocalStep ==
  ASSUME NEW s, NEW h, NEW b, At(s, h, b), NEW t \in Threads, OthersStay(t),
         UNCHANGED <<head, next, chain, free>>, NEW d \in Seq(Elements),
         PushAt(t, h[t])', PopAt(t, h[t], s)', WalkAt(t, d, s)'
  PROVE  Kept(s)
<1>1. /\ s \in Seq(Elements) /\ h[t] \in Seq(Elements)
      /\ Segment(next, s, head) /\ EndsAt(next, s, Null) /\ Segment(next, h[t], chain[t])
      /\ Elems(s) \intersect free = {}
      /\ Elems(h[t]) \intersect Elems(s) = {} /\ Elems(h[t]) \intersect free = {}
  BY InState
<1>2. /\ \A e \in Elems(s) : next'[e] = next[e]
      /\ \A u \in Threads \ {t} : \A e \in Elems(h[u]) : next'[e] = next[e]
      /\ Segment(next', s, head') /\ EndsAt(next', s, Null)
      /\ Segment(next', h[t], chain'[t])
      /\ free' = free
  BY <1>1
<1>3. StackStep(s, s)
  BY DEF StackStep
<1>4. PICK r \in Seq(Elements), c \in Seq(Elements) : r = s /\ c = h[t]
  BY <1>1
<1>5. /\ Elems(s) \subseteq Elems(r)
      /\ Elems(r) \union free' \union Elems(c) = Elems(s) \union free \union Elems(h[t])
      /\ Elems(r) \intersect free' = {} /\ Elems(c) \intersect Elems(r) = {}
      /\ Elems(c) \intersect free' = {}
      /\ Segment(next', r, head') /\ EndsAt(next', r, Null) /\ Segment(next', c, chain'[t])
      /\ PushAt(t, c)' /\ PopAt(t, c, r)' /\ WalkAt(t, d, r)' /\ StackStep(s, r)
  BY <1>1, <1>2, <1>3, <1>4
<1>6. QED
  BY <1>2, <1>5, StepOf

\* The path along the links from the head is the stack.
LEMMA StackIs ==
  ASSUME NEW s, NEW h, NEW b, At(s, h, b)
  PROVE  PathFrom(head) = s
<1>1. /\ next \in [Elements -> Pointers] /\ s \in Seq(Elements) /\ head \in Pointers
      /\ Segment(next, s, head) /\ EndsAt(next, s, Null)
  BY DEF At, TypeOK, StackInv
<1>2. QED
  BY <1>1, PathIs DEF PathFrom

------------------------------------------------------------------------------
(* cstack_push.                                                            *)

LEMMA PushBeginKeeps ==
  ASSUME NEW s, NEW h, NEW b, At(s, h, b), NEW t \in Threads, PushBegin(t)
  PROVE  Kept(s)
<1>1. OthersStay(t) /\ UNCHANGED <<head, next, chain, free>>
  BY DEF PushBegin, Goto, OthersStay, walkVars, At, TypeOK
<1>2. /\ pc[t] = "idle" /\ pc'[t] = "tail" /\ tail'[t] = chain[t] /\ chain[t] # Null
      /\ visited'[t] = visited[t] /\ next' = next
  BY DEF PushBegin, Goto, walkVars, At, TypeOK
<1>3. /\ h[t] \in Seq(Elements) /\ b[t] \in Seq(Elements) /\ Segment(next, h[t], chain[t])
      /\ PushAt(t, h[t]) /\ WalkAt(t, b[t], s)
  BY InState
<1>4. chain[t] \in Elems(h[t])
  BY <1>2, <1>3, SegmentFirst DEF At, TypeOK
<1>5. PushAt(t, h[t])' /\ PopAt(t, h[t], s)' /\ WalkAt(t, b[t], s)'
  BY <1>2, <1>3, <1>4 DEF PushAt, PopAt, WalkAt
<1>6. QED
  BY <1>1, <1>3, <1>5, LocalStep

LEMMA FindTailKeeps ==
  ASSUME NEW s, NEW h, NEW b, At(s, h, b), NEW t \in Threads, FindTail(t)
  PROVE  Kept(s)
<1>1. OthersStay(t) /\ UNCHANGED <<head, next, chain, free>>
  BY DEF FindTail, OthersStay, walkVars, At, TypeOK
<1>2. /\ pc[t] = "tail" /\ pc'[t] = "tail" /\ tail'[t] = next[tail[t]] /\ next[tail[t]] # Null
      /\ visited'[t] = visited[t] /\ next' = next
  BY DEF FindTail, walkVars, At, TypeOK
<1>3. /\ h[t] \in Seq(Elements) /\ b[t] \in Seq(Elements) /\ Segment(next, h[t], chain[t])
      /\ PushAt(t, h[t]) /\ WalkAt(t, b[t], s)
  BY InState
<1>4. next[tail[t]] \in Elems(h[t])
  BY <1>2, <1>3, SegmentNext DEF PushAt
<1>5. PushAt(t, h[t])' /\ PopAt(t, h[t], s)' /\ WalkAt(t, b[t], s)'
  BY <1>2, <1>3, <1>4 DEF PushAt, PopAt, WalkAt
<1>6. QED
  BY <1>1, <1>3, <1>5, LocalStep

LEMMA TailFoundKeeps ==
  ASSUME NEW s, NEW h, NEW b, At(s, h, b), NEW t \in Threads, TailFound(t)
  PROVE  Kept(s)
<1>1. OthersStay(t) /\ UNCHANGED <<head, next, chain, free>>
  BY DEF TailFound, Goto, OthersStay, walkVars, pushVars, At, TypeOK
<1>2. /\ pc[t] = "tail" /\ pc'[t] = "link" /\ tail'[t] = tail[t] /\ next[tail[t]] = Null
      /\ visited'[t] = visited[t]
  BY DEF TailFound, Goto, walkVars, pushVars, At, TypeOK
<1>3. /\ h[t] \in Seq(Elements) /\ b[t] \in Seq(Elements) /\ Segment(next, h[t], chain[t])
      /\ PushAt(t, h[t]) /\ WalkAt(t, b[t], s)
  BY InState
<1>4. h[t] # <<>> /\ tail[t] = h[t][Len(h[t])]
  BY <1>2, <1>3, SegmentNext DEF PushAt
<1>5. PushAt(t, h[t])' /\ PopAt(t, h[t], s)' /\ WalkAt(t, b[t], s)'
  BY <1>2, <1>3, <1>4 DEF PushAt, PopAt, WalkAt
<1>6. QED
  BY <1>1, <1>3, <1>5, LocalStep

LEMMA PushRetryKeeps ==
  ASSUME NEW s, NEW h, NEW b, At(s, h, b), NEW t \in Threads, PushRetry(t)
  PROVE  Kept(s)
<1>1. OthersStay(t) /\ UNCHANGED <<head, next, chain, free>>
  BY DEF PushRetry, Goto, OthersStay, walkVars, At, TypeOK
<1>2. /\ pc[t] = "pushCas" /\ pc'[t] = "link" /\ tail'[t] = tail[t] /\ visited'[t] = visited[t]
  BY DEF PushRetry, Goto, walkVars, At, TypeOK
<1>3. /\ h[t] \in Seq(Elements) /\ b[t] \in Seq(Elements)
      /\ PushAt(t, h[t]) /\ WalkAt(t, b[t], s)
  BY InState
<1>4. PushAt(t, h[t])' /\ PopAt(t, h[t], s)' /\ WalkAt(t, b[t], s)'
  BY <1>2, <1>3 DEF PushAt, PopAt, WalkAt
<1>5. QED
  BY <1>1, <1>3, <1>4, LocalStep

LEMMA LinkKeeps ==
  ASSUME NEW s, NEW h, NEW b, At(s, h, b), NEW t \in Threads, Link(t)
  PROVE  Kept(s)
<1>1. OthersStay(t) /\ UNCHANGED <<head, chain, free>>
  BY DEF Link, Goto, OthersStay, walkVars, pushVars, At, TypeOK
<1>2. /\ pc[t] = "link" /\ pc'[t] = "pushCas" /\ tail'[t] = tail[t] /\ expected'[t] = expected[t]
      /\ visited'[t] = visited[t] /\ next' = [next EXCEPT ![tail[t]] = expected[t]]
  BY DEF Link, Goto, walkVars, pushVars, At, TypeOK
<1>3. /\ s \in Seq(Elements) /\ h[t] \in Seq(Elements) /\ b[t] \in Seq(Elements)
      /\ Segment(next, s, head) /\ EndsAt(next, s, Null) /\ Segment(next, h[t], chain[t])
      /\ PushAt(t, h[t]) /\ WalkAt(t, b[t], s)
      /\ Elems(s) \intersect free = {}
      /\ Elems(h[t]) \intersect Elems(s) = {} /\ Elems(h[t]) \intersect free = {}
      /\ \A u \in Threads \ {t} : Elems(h[u]) \intersect Elems(h[t]) = {}
      /\ next \in [Elements -> Pointers] /\ Elems(h[t]) \subseteq Elements
  BY InState DEF At, TypeOK
<1>4. h[t] # <<>> /\ tail[t] = h[t][Len(h[t])] /\ tail[t] \in Elems(h[t])
  <2>1. h[t] # <<>> /\ tail[t] = h[t][Len(h[t])]
    BY <1>2, <1>3 DEF PushAt
  <2>2. Len(h[t]) \in DOMAIN h[t]
    BY <1>3, <2>1
  <2>3. QED
    BY <2>1, <2>2 DEF Elems
<1>5. next'[tail[t]] = expected[t] /\ \A e \in Elements : e # tail[t] => next'[e] = next[e]
  BY <1>2, <1>3, <1>4
<1>6. /\ \A e \in Elems(s) : next'[e] = next[e]
      /\ \A u \in Threads \ {t} : \A e \in Elems(h[u]) : next'[e] = next[e]
  <2>1. \A u \in Threads : Elems(h[u]) \subseteq Elements
    BY InState
  <2>2. Elems(s) \subseteq Elements
    BY InState
  <2>3. QED
    BY <1>3, <1>4, <1>5, <2>1, <2>2
<1>7. Segment(next', s, head') /\ EndsAt(next', s, Null) /\ Segment(next', h[t], chain'[t])
  <2>1. Segment(next', s, head') /\ EndsAt(next', s, Null)
    BY <1>1, <1>3, <1>6, SegmentKept
  <2>2. Segment(next', h[t], chain'[t])
    BY <1>1, <1>3, <1>4, <1>5, SegmentRelinked
  <2>3. QED
    BY <2>1, <2>2
<1>8. PushAt(t, h[t])' /\ PopAt(t, h[t], s)' /\ WalkAt(t, b[t], s)'
  BY <1>2, <1>3, <1>4, <1>5 DEF PushAt, PopAt, WalkAt
<1>9. StackStep(s, s)
  BY DEF StackStep
<1>10. PICK r \in Seq(Elements), c \in Seq(Elements), d \in Seq(Elements) :
         r = s /\ c = h[t] /\ d = b[t]
  BY <1>3
<1>11. /\ Elems(s) \subseteq Elems(r)
       /\ Elems(r) \union free' \union Elems(c) = Elems(s) \union free \union Elems(h[t])
       /\ Elems(r) \intersect free' = {} /\ Elems(c) \intersect Elems(r) = {}
       /\ Elems(c) \intersect free' = {}
       /\ Segment(next', r, head') /\ EndsAt(next', r, Null) /\ Segment(next', c, chain'[t])
       /\ PushAt(t, c)' /\ PopAt(t, c, r)' /\ WalkAt(t, d, r)' /\ StackStep(s, r)
  BY <1>1, <1>3, <1>7, <1>8, <1>9, <1>10
<1>12. QED
  BY <1>1, <1>6, <1>11, StepOf

\* The chain goes on top of the stack.
LEMMA PushDoneKeeps ==
  ASSUME NEW s, NEW h, NEW b, At(s, h, b), NEW t \in Threads, PushDone(t)
  PROVE  Kept(s)
<1>1. OthersStay(t) /\ UNCHANGED <<next, free>>
  BY DEF PushDone, ForgetPush, Goto, OthersStay, walkVars, At, TypeOK
<1>2. /\ pc[t] = "pushCas" /\ pc'[t] = "idle" /\ head = expected[t]
      /\ head' = chain[t] /\ chain'[t] = Null /\ visited'[t] = visited[t]
  BY DEF PushDone, ForgetPush, Goto, walkVars, At, TypeOK
<1>3. /\ s \in Seq(Elements) /\ h[t] \in Seq(Elements) /\ b[t] \in Seq(Elements)
      /\ Segment(next, s, head) /\ EndsAt(next, s, Null) /\ Segment(next, h[t], chain[t])
      /\ PushAt(t, h[t]) /\ WalkAt(t, b[t], s)
      /\ Elems(s) \intersect free = {}
      /\ Elems(h[t]) \intersect Elems(s) = {} /\ Elems(h[t]) \intersect free = {}
  BY InState
<1>4. h[t] # <<>> /\ EndsAt(next, h[t], head)
  BY <1>2, <1>3 DEF PushAt, EndsAt
<1>5. PICK r \in Seq(Elements) :
        /\ r = h[t] \o s /\ Elems(r) = Elems(h[t]) \union Elems(s)
        /\ Segment(next, r, chain[t]) /\ EndsAt(next, r, Null)
  BY <1>3, <1>4, SegmentJoin
<1>6. PICK c \in Seq(Elements), d \in Seq(Elements) : c = <<>> /\ d = b[t]
  <2>1. <<>> \in Seq(Elements)
    OBVIOUS
  <2>2. QED
    BY <1>3, <2>1
<1>7. Segment(next', c, chain'[t]) /\ EndsAt(next', c, Null) /\ Elems(c) = {}
  BY <1>2, <1>6, SegmentNone
<1>8. PushAt(t, c)' /\ PopAt(t, c, r)' /\ WalkAt(t, d, r)'
  BY <1>2, <1>3, <1>6, <1>7 DEF PushAt, PopAt, WalkAt
<1>9. StackStep(s, r)
  BY <1>3, <1>4, <1>5 DEF StackStep
<1>10. /\ Elems(s) \subseteq Elems(r)
       /\ Elems(r) \union free' \union Elems(c) = Elems(s) \union free \union Elems(h[t])
       /\ Elems(r) \intersect free' = {} /\ Elems(c) \intersect Elems(r) = {}
       /\ Elems(c) \intersect free' = {}
       /\ Segment(next', r, head') /\ EndsAt(next', r, Null)
       /\ \A e \in Elems(s) : next'[e] = next[e]
       /\ \A u \in Threads \ {t} : \A e \in Elems(h[u]) : next'[e] = next[e]
  BY <1>1, <1>2, <1>3, <1>5, <1>7
<1>11. QED
  BY <1>1, <1>7, <1>8, <1>9, <1>10, StepOf

------------------------------------------------------------------------------
(* Elements that are taken and given back.                                 *)

LEMMA NewElementKeeps ==
  ASSUME NEW s, NEW h, NEW b, At(s, h, b), NEW t \in Threads, NewElement(t)
  PROVE  Kept(s)
<1>1. OthersStay(t) /\ UNCHANGED <<head, pc>>
  BY DEF NewElement, OthersStay, walkVars, At, TypeOK
<1>2. PICK x \in free :
        /\ chain'[t] = x /\ next' = [next EXCEPT ![x] = Null] /\ free' = free \ {x}
        /\ pc[t] = "idle" /\ chain[t] = Null /\ visited'[t] = visited[t]
  BY DEF NewElement, walkVars, At, TypeOK
<1>3. /\ s \in Seq(Elements) /\ h[t] = <<>> /\ b[t] \in Seq(Elements)
      /\ Segment(next, s, head) /\ EndsAt(next, s, Null)
      /\ WalkAt(t, b[t], s)
      /\ Elems(s) \intersect free = {}
      /\ \A u \in Threads \ {t} : Elems(h[u]) \intersect free = {}
      /\ Elems(s) \subseteq Elements /\ Elems(h[t]) = {}
      /\ next \in [Elements -> Pointers] /\ free \subseteq Elements
  <2>1. /\ s \in Seq(Elements) /\ b[t] \in Seq(Elements)
        /\ Segment(next, s, head) /\ EndsAt(next, s, Null)
        /\ WalkAt(t, b[t], s)
        /\ Elems(s) \intersect free = {}
        /\ \A u \in Threads \ {t} : Elems(h[u]) \intersect free = {}
        /\ Elems(s) \subseteq Elements
        /\ chain[t] = Null <=> h[t] = <<>>
    BY InState
  <2>2. next \in [Elements -> Pointers] /\ free \subseteq Elements
    BY DEF At, TypeOK
  <2>3. h[t] = <<>> /\ Elems(<<>>) = {}
    BY <1>2, <2>1, SegmentNone
  <2>4. QED
    BY <2>1, <2>2, <2>3
<1>4. x \in Elements /\ next'[x] = Null /\ \A e \in Elements : e # x => next'[e] = next[e]
  BY <1>2, <1>3
<1>5. /\ \A e \in Elems(s) : next'[e] = next[e]
      /\ \A u \in Threads \ {t} : \A e \in Elems(h[u]) : next'[e] = next[e]
  <2>1. \A u \in Threads : Elems(h[u]) \subseteq Elements
    BY InState
  <2>2. QED
    BY <1>3, <1>4, <2>1
<1>6. Segment(next', s, head') /\ EndsAt(next', s, Null)
  BY <1>1, <1>3, <1>5, SegmentKept
<1>7. PICK r \in Seq(Elements), c \in Seq(Elements), d \in Seq(Elements) :
        r = s /\ c = <<x>> /\ d = b[t]
  <2>1. <<x>> \in Seq(Elements)
    BY <1>4
  <2>2. QED
    BY <1>3, <2>1
<1>8. Segment(next', c, chain'[t]) /\ EndsAt(next', c, Null) /\ Elems(c) = {x}
  <2>1. PICK links : links = next'
    OBVIOUS
  <2>2. Segment(links, <<x>>, x) /\ EndsAt(links, <<x>>, Null) /\ Elems(<<x>>) = {x}
    BY <1>4, <2>1, SegmentOne
  <2>3. QED
    BY <1>2, <1>7, <2>1, <2>2
<1>9. PushAt(t, c)' /\ PopAt(t, c, r)' /\ WalkAt(t, d, r)'
  BY <1>1, <1>2, <1>3, <1>7, <1>8 DEF PushAt, PopAt, WalkAt
<1>10. StackStep(s, r)
  BY <1>7 DEF StackStep
<1>11. /\ Elems(s) \subseteq Elems(r)
       /\ Elems(r) \union free' \union Elems(c) = Elems(s) \union free \union Elems(h[t])
       /\ Elems(r) \intersect free' = {} /\ Elems(c) \intersect Elems(r) = {}
       /\ Elems(c) \intersect free' = {}
       /\ Segment(next', r, head') /\ EndsAt(next', r, Null)
  BY <1>2, <1>3, <1>6, <1>7, <1>8
<1>12. QED
  BY <1>1, <1>5, <1>8, <1>9, <1>10, <1>11, StepOf

LEMMA ScatterKeeps ==
  ASSUME NEW s, NEW h, NEW b, At(s, h, b), NEW t \in Threads, Scatter(t)
  PROVE  Kept(s)
<1>1. OthersStay(t) /\ UNCHANGED <<head, pc>>
  BY DEF Scatter, OthersStay, walkVars, At, TypeOK
<1>2. PICK x : x = chain[t]
  OBVIOUS
<1>3. /\ x # Null /\ pc[t] = "idle" /\ chain'[t] = next[x]
      /\ next' = [next EXCEPT ![x] = Null] /\ free' = free \union {x}
      /\ visited'[t] = visited[t]
  BY <1>2 DEF Scatter, walkVars, At, TypeOK
<1>4. /\ s \in Seq(Elements) /\ h[t] \in Seq(Elements) /\ b[t] \in Seq(Elements)
      /\ Segment(next, s, head) /\ EndsAt(next, s, Null) /\ Segment(next, h[t], x)
      /\ PushAt(t, h[t]) /\ WalkAt(t, b[t], s)
      /\ Elems(s) \intersect free = {}
      /\ Elems(h[t]) \intersect Elems(s) = {} /\ Elems(h[t]) \intersect free = {}
      /\ \A u \in Threads \ {t} : Elems(h[u]) \intersect Elems(h[t]) = {}
      /\ Elems(s) \subseteq Elements /\ Elems(h[t]) \subseteq Elements
      /\ h[t] # <<>> /\ next \in [Elements -> Pointers]
  <2>1. next \in [Elements -> Pointers]
    BY DEF At, TypeOK
  <2>2. chain[t] = Null <=> h[t] = <<>>
    BY InState
  <2>3. h[t] # <<>>
    BY <1>2, <1>3, <2>2
  <2>4. QED
    BY <1>2, <2>1, <2>3, InState
<1>5. EndsAt(next, h[t], Null)
  BY <1>3, <1>4 DEF PushAt
<1>6. PICK c \in Seq(Elements) :
        /\ Segment(next, c, next[x]) /\ EndsAt(next, c, Null)
        /\ Elems(c) = Elems(h[t]) \ {x} /\ x \in Elems(h[t])
  BY <1>4, <1>5, SegmentTail
<1>7. x \in Elements /\ next'[x] = Null /\ \A e \in Elements : e # x => next'[e] = next[e]
  BY <1>3, <1>4, <1>6
<1>8. /\ \A e \in Elems(s) : next'[e] = next[e]
      /\ \A u \in Threads \ {t} : \A e \in Elems(h[u]) : next'[e] = next[e]
      /\ \A e \in Elems(c) : next'[e] = next[e]
  <2>1. \A u \in Threads : Elems(h[u]) \subseteq Elements
    BY InState
  <2>2. QED
    BY <1>4, <1>6, <1>7, <2>1
<1>9. /\ Segment(next', s, head') /\ EndsAt(next', s, Null)
      /\ Segment(next', c, chain'[t]) /\ EndsAt(next', c, Null)
  <2>1. Segment(next', s, head') /\ EndsAt(next', s, Null)
    BY <1>1, <1>4, <1>8, SegmentKept
  <2>2. Segment(next', c, chain'[t]) /\ EndsAt(next', c, Null)
    BY <1>3, <1>6, <1>8, SegmentKept
  <2>3. QED
    BY <2>1, <2>2
<1>10. PICK r \in Seq(Elements), d \in Seq(Elements) : r = s /\ d = b[t]
  BY <1>4
<1>11. PushAt(t, c)' /\ PopAt(t, c, r)' /\ WalkAt(t, d, r)'
  BY <1>1, <1>3, <1>4, <1>9, <1>10 DEF PushAt, PopAt, WalkAt
<1>12. StackStep(s, r)
  BY <1>10 DEF StackStep
<1>13. /\ Elems(s) \subseteq Elems(r)
       /\ Elems(r) \union free' \union Elems(c) = Elems(s) \union free \union Elems(h[t])
       /\ Elems(r) \intersect free' = {} /\ Elems(c) \intersect Elems(r) = {}
       /\ Elems(c) \intersect free' = {}
       /\ Segment(next', r, head') /\ EndsAt(next', r, Null)
  BY <1>3, <1>4, <1>6, <1>9, <1>10
<1>14. QED
  BY <1>1, <1>8, <1>9, <1>11, <1>12, <1>13, StepOf

------------------------------------------------------------------------------
(* cstack_pop and cstack_steal.                                            *)

\* No other thread takes elements off the stack.
SoleRemover == \A t, u \in Removers : t = u

LEMMA PopBeginKeeps ==
  ASSUME NEW s, NEW h, NEW b, At(s, h, b), NEW t \in Threads, PopBegin(t)
  PROVE  Kept(s)
<1>1. OthersStay(t) /\ UNCHANGED <<head, next, chain, free>>
  BY DEF PopBegin, Goto, OthersStay, walkVars, At, TypeOK
<1>2. /\ pc[t] = "idle" /\ pc'[t] = "popNext" /\ expected'[t] = head /\ chain[t] = Null
      /\ t \in Removers /\ emptied' = emptied /\ emptied /\ visited'[t] = visited[t]
      /\ head \in Pointers
  BY DEF PopBegin, Goto, walkVars, At, TypeOK
<1>3. /\ s \in Seq(Elements) /\ h[t] \in Seq(Elements) /\ b[t] \in Seq(Elements)
      /\ PushAt(t, h[t]) /\ WalkAt(t, b[t], s) /\ Segment(next, s, head)
      /\ chain[t] = Null <=> h[t] = <<>>
  BY InState
<1>4. head \in Elems(s) \union {Null}
  BY <1>2, <1>3, SegmentFirst
<1>5. PushAt(t, h[t])' /\ PopAt(t, h[t], s)' /\ WalkAt(t, b[t], s)'
  BY <1>1, <1>2, <1>3, <1>4 DEF PushAt, PopAt, WalkAt
<1>6. QED
  BY <1>1, <1>3, <1>5, LocalStep

LEMMA PopEmptyKeeps ==
  ASSUME NEW s, NEW h, NEW b, At(s, h, b), NEW t \in Threads, PopEmpty(t)
  PROVE  Kept(s)
<1>1. OthersStay(t) /\ UNCHANGED <<head, next, chain, free>>
  BY DEF PopEmpty, Goto, OthersStay, walkVars, pushVars, At, TypeOK
<1>2. pc[t] = "popNext" /\ pc'[t] = "idle" /\ visited'[t] = visited[t]
  BY DEF PopEmpty, Goto, walkVars, At, TypeOK
<1>3. /\ h[t] \in Seq(Elements) /\ b[t] \in Seq(Elements)
      /\ PushAt(t, h[t]) /\ PopAt(t, h[t], s) /\ WalkAt(t, b[t], s)
  BY InState
<1>4. PushAt(t, h[t])' /\ PopAt(t, h[t], s)' /\ WalkAt(t, b[t], s)'
  BY <1>1, <1>2, <1>3 DEF PushAt, PopAt, WalkAt
<1>5. QED
  BY <1>1, <1>3, <1>4, LocalStep

LEMMA PopNextKeeps ==
  ASSUME NEW s, NEW h, NEW b, At(s, h, b), NEW t \in Threads, PopNext(t)
  PROVE  Kept(s)
<1>1. OthersStay(t) /\ UNCHANGED <<head, next, chain, free>>
  BY DEF PopNext, Goto, OthersStay, walkVars, pushVars, At, TypeOK
<1>2. /\ pc[t] = "popNext" /\ pc'[t] = "popCas" /\ visited'[t] = visited[t]
      /\ expected'[t] = expected[t] /\ expected[t] # Null
      /\ following'[t] = next[expected[t]] /\ emptied' = emptied
  BY DEF PopNext, Goto, walkVars, pushVars, At, TypeOK
<1>3. /\ h[t] \in Seq(Elements) /\ b[t] \in Seq(Elements)
      /\ PushAt(t, h[t]) /\ PopAt(t, h[t], s) /\ WalkAt(t, b[t], s)
  BY InState
<1>4. PushAt(t, h[t])' /\ PopAt(t, h[t], s)' /\ WalkAt(t, b[t], s)'
  BY <1>1, <1>2, <1>3 DEF PushAt, PopAt, WalkAt
<1>5. QED
  BY <1>1, <1>3, <1>4, LocalStep

LEMMA PopRetryKeeps ==
  ASSUME NEW s, NEW h, NEW b, At(s, h, b), NEW t \in Threads, PopRetry(t)
  PROVE  Kept(s)
<1>1. OthersStay(t) /\ UNCHANGED <<head, next, chain, free>>
  BY DEF PopRetry, Goto, OthersStay, walkVars, At, TypeOK
<1>2. /\ pc[t] = "popCas" /\ pc'[t] = "popNext" /\ visited'[t] = visited[t]
      /\ expected'[t] = head /\ emptied' = emptied /\ head \in Pointers
  BY DEF PopRetry, Goto, walkVars, At, TypeOK
<1>3. /\ s \in Seq(Elements) /\ h[t] \in Seq(Elements) /\ b[t] \in Seq(Elements)
      /\ PushAt(t, h[t]) /\ PopAt(t, h[t], s) /\ WalkAt(t, b[t], s) /\ Segment(next, s, head)
  BY InState
<1>4. head \in Elems(s) \union {Null}
  BY <1>2, <1>3, SegmentFirst
<1>5. PushAt(t, h[t])' /\ PopAt(t, h[t], s)' /\ WalkAt(t, b[t], s)'
  BY <1>1, <1>2, <1>3, <1>4 DEF PushAt, PopAt, WalkAt
<1>6. QED
  BY <1>1, <1>3, <1>5, LocalStep

\* The head is popped with the successor it had when it was read: nobody but t
\* takes it off and puts it back.
LEMMA PopDoneKeeps ==
  ASSUME NEW s, NEW h, NEW b, At(s, h, b), NEW t \in Threads, PopDone(t), SoleRemover
  PROVE  Kept(s)
<1>1. OthersStay(t) /\ UNCHANGED <<next, free>>
  BY DEF PopDone, Goto, OthersStay, walkVars, At, TypeOK
<1>2. PICK x : x = head
  OBVIOUS
<1>3. /\ pc[t] = "popCas" /\ pc'[t] = "popReset" /\ visited'[t] = visited[t]
      /\ x = expected[t] /\ head' = following[t] /\ chain'[t] = x /\ emptied' = emptied
  BY <1>2 DEF PopDone, Goto, walkVars, At, TypeOK
<1>4. /\ s \in Seq(Elements) /\ h[t] \in Seq(Elements) /\ b[t] \in Seq(Elements)
      /\ Segment(next, s, x) /\ EndsAt(next, s, Null)
      /\ PushAt(t, h[t]) /\ PopAt(t, h[t], s) /\ WalkAt(t, b[t], s)
      /\ Elems(s) \intersect free = {} /\ Elems(s) \subseteq Elements
  BY <1>2, InState
<1>5. /\ t \in Removers /\ emptied /\ h[t] = <<>> /\ x \in Elems(s) /\ head' = next[x]
  BY <1>3, <1>4 DEF PopAt
<1>6. s # <<>> /\ x \in Elements
  BY <1>4, <1>5, SegmentNone
<1>7. PICK r \in Seq(Elements) :
        /\ r = Tail(s) /\ Segment(next, r, next[x]) /\ EndsAt(next, r, Null)
        /\ Elems(r) = Elems(s) \ {x}
  BY <1>4, <1>6, SegmentTail
<1>8. PICK c \in Seq(Elements), d \in Seq(Elements) : c = <<x>> /\ d = b[t]
  <2>1. <<x>> \in Seq(Elements)
    BY <1>6
  <2>2. QED
    BY <1>4, <2>1
<1>9. Segment(next', c, chain'[t]) /\ Elems(c) = {x} /\ Len(c) = 1
  <2>1. Len(<<x>>) = 1
    OBVIOUS
  <2>2. \A links : Segment(links, <<x>>, x) /\ Elems(<<x>>) = {x}
    BY <1>6, SegmentOne
  <2>3. QED
    BY <1>3, <1>8, <2>1, <2>2
<1>10. PushAt(t, c)' /\ PopAt(t, c, r)' /\ WalkAt(t, d, r)'
  BY <1>1, <1>3, <1>4, <1>5, <1>8, <1>9 DEF PushAt, PopAt, WalkAt
<1>11. StackStep(s, r)
  BY <1>6, <1>7 DEF StackStep
<1>12. Elems(h[t]) = {}
  BY <1>5, SegmentNone
<1>13. /\ emptied /\ \A u \in Threads \ {t} : u \notin Removers
       /\ Elems(r) \union free' \union Elems(c) = Elems(s) \union free \union Elems(h[t])
       /\ Elems(r) \intersect free' = {} /\ Elems(c) \intersect Elems(r) = {}
       /\ Elems(c) \intersect free' = {}
       /\ Segment(next', r, head') /\ EndsAt(next', r, Null)
       /\ \A e \in Elems(s) : next'[e] = next[e]
       /\ \A u \in Threads \ {t} : \A e \in Elems(h[u]) : next'[e] = next[e]
  BY <1>1, <1>4, <1>5, <1>7, <1>9, <1>12 DEF SoleRemover
<1>14. QED
  BY <1>1, <1>9, <1>10, <1>11, <1>13, StepOf

LEMMA PopResetKeeps ==
  ASSUME NEW s, NEW h, NEW b, At(s, h, b), NEW t \in Threads, PopReset(t)
  PROVE  Kept(s)
<1>1. OthersStay(t) /\ UNCHANGED <<head, chain, free>>
  BY DEF PopReset, Goto, OthersStay, walkVars, pushVars, At, TypeOK
<1>2. PICK x : x = chain[t]
  OBVIOUS
<1>3. /\ pc[t] = "popReset" /\ pc'[t] = "idle" /\ visited'[t] = visited[t]
      /\ next' = [next EXCEPT ![x] = Null]
  BY <1>2 DEF PopReset, Goto, walkVars, At, TypeOK
<1>4. /\ s \in Seq(Elements) /\ h[t] \in Seq(Elements) /\ b[t] \in Seq(Elements)
      /\ Segment(next, s, head) /\ EndsAt(next, s, Null) /\ Segment(next, h[t], x)
      /\ PopAt(t, h[t], s) /\ WalkAt(t, b[t], s)
      /\ Elems(s) \intersect free = {}
      /\ Elems(h[t]) \intersect Elems(s) = {} /\ Elems(h[t]) \intersect free = {}
      /\ \A u \in Threads \ {t} : Elems(h[u]) \intersect Elems(h[t]) = {}
      /\ Elems(s) \subseteq Elements
  BY <1>2, InState
<1>5. h[t] = <<x>> /\ x \in Elements /\ next \in [Elements -> Pointers]
  <2>1. Len(h[t]) = 1
    BY <1>3, <1>4 DEF PopAt
  <2>2. h[t] # <<>> /\ h[t][1] \in Elements /\ h[t] = <<h[t][1]>>
    BY <1>4, <2>1
  <2>3. x = h[t][1]
    BY <1>4, <2>2 DEF Segment
  <2>4. QED
    BY <2>2, <2>3 DEF At, TypeOK
<1>6. Elems(h[t]) = {x}
  BY <1>5, SegmentOne
<1>7. next'[x] = Null /\ \A e \in Elements : e # x => next'[e] = next[e]
  BY <1>3, <1>5
<1>8. /\ \A e \in Elems(s) : next'[e] = next[e]
      /\ \A u \in Threads \ {t} : \A e \in Elems(h[u]) : next'[e] = next[e]
  <2>1. \A u \in Threads : Elems(h[u]) \subseteq Elements
    BY InState
  <2>2. QED
    BY <1>4, <1>6, <1>7, <2>1
<1>9. Segment(next', s, head') /\ EndsAt(next', s, Null)
  BY <1>1, <1>4, <1>8, SegmentKept
<1>10. Segment(next', h[t], chain'[t]) /\ EndsAt(next', h[t], Null)
  <2>1. PICK links : links = next'
    OBVIOUS
  <2>2. Segment(links, <<x>>, x) /\ EndsAt(links, <<x>>, Null)
    BY <1>5, <1>7, <2>1, SegmentOne
  <2>3. QED
    BY <1>1, <1>2, <1>5, <2>1, <2>2
<1>11. PushAt(t, h[t])' /\ PopAt(t, h[t], s)' /\ WalkAt(t, b[t], s)'
  BY <1>3, <1>4, <1>10 DEF PushAt, PopAt, WalkAt
<1>12. PICK r \in Seq(Elements), c \in Seq(Elements), d \in Seq(Elements) :
         r = s /\ c = h[t] /\ d = b[t]
  BY <1>4
<1>13. StackStep(s, r)
  BY <1>12 DEF StackStep
<1>14. /\ Elems(s) \subseteq Elems(r)
       /\ Elems(r) \union free' \union Elems(c) = Elems(s) \union free \union Elems(h[t])
       /\ Elems(r) \intersect free' = {} /\ Elems(c) \intersect Elems(r) = {}
       /\ Elems(c) \intersect free' = {}
       /\ Segment(next', r, head') /\ EndsAt(next', r, Null) /\ Segment(next', c, chain'[t])
       /\ PushAt(t, c)' /\ PopAt(t, c, r)' /\ WalkAt(t, d, r)'
  BY <1>1, <1>4, <1>9, <1>10, <1>11, <1>12
<1>15. QED
  BY <1>1, <1>8, <1>13, <1>14, StepOf

\* The whole stack changes hands.
LEMMA StealKeeps ==
  ASSUME NEW s, NEW h, NEW b, At(s, h, b), NEW t \in Threads, Steal(t), SoleRemover
  PROVE  Kept(s)
<1>1. OthersStay(t) /\ UNCHANGED <<pc, next, free>>
  BY DEF Steal, OthersStay, walkVars, At, TypeOK
<1>2. /\ t \in Removers /\ emptied /\ pc[t] = "idle" /\ chain[t] = Null
      /\ head # Null /\ head' = Null /\ chain'[t] = head /\ visited'[t] = visited[t]
  BY DEF Steal, walkVars, At, TypeOK
<1>3. /\ s \in Seq(Elements) /\ h[t] \in Seq(Elements) /\ b[t] \in Seq(Elements)
      /\ Segment(next, s, head) /\ EndsAt(next, s, Null)
      /\ WalkAt(t, b[t], s) /\ Elems(s) \intersect free = {}
      /\ chain[t] = Null <=> h[t] = <<>>
      /\ head = Null <=> s = <<>>
  BY InState
<1>4. PICK r \in Seq(Elements) : r = <<>>
  <2>1. <<>> \in Seq(Elements)
    OBVIOUS
  <2>2. QED
    BY <2>1
<1>5. Segment(next', r, head') /\ EndsAt(next', r, Null) /\ Elems(r) = {}
  BY <1>2, <1>4, SegmentNone
<1>6. Elems(h[t]) = {}
  BY <1>2, <1>3, SegmentNone
<1>7. PICK c \in Seq(Elements), d \in Seq(Elements) : c = s /\ d = b[t]
  BY <1>3
<1>8. PushAt(t, c)' /\ PopAt(t, c, r)' /\ WalkAt(t, d, r)'
  BY <1>1, <1>2, <1>3, <1>7 DEF PushAt, PopAt, WalkAt
<1>9. StackStep(s, r)
  BY <1>2, <1>3, <1>4 DEF StackStep
<1>10. /\ emptied /\ \A u \in Threads \ {t} : u \notin Removers
       /\ Elems(r) \union free' \union Elems(c) = Elems(s) \union free \union Elems(h[t])
       /\ Elems(r) \intersect free' = {} /\ Elems(c) \intersect Elems(r) = {}
       /\ Elems(c) \intersect free' = {}
       /\ Segment(next', c, chain'[t])
       /\ \A e \in Elems(s) : next'[e] = next[e]
       /\ \A u \in Threads \ {t} : \A e \in Elems(h[u]) : next'[e] = next[e]
  BY <1>1, <1>2, <1>3, <1>5, <1>6, <1>7 DEF SoleRemover
<1>11. QED
  BY <1>1, <1>5, <1>8, <1>9, <1>10, StepOf

------------------------------------------------------------------------------
(* cstack_forall.                                                          *)

LEMMA WalkBeginKeeps ==
  ASSUME NEW s, NEW h, NEW b, At(s, h, b), NEW t \in Threads, WalkBegin(t)
  PROVE  Kept(s)
<1>1. OthersStay(t) /\ UNCHANGED <<head, next, chain, free>>
  BY DEF WalkBegin, Goto, OthersStay, pushVars, At, TypeOK
<1>2. PathFrom(head) = s
  BY StackIs
<1>3. /\ pc[t] = "idle" /\ pc'[t] = "walk" /\ ~emptied /\ emptied' = emptied
      /\ current'[t] = head /\ found'[t] = s /\ visited'[t] = visited[t]
  BY <1>2 DEF WalkBegin, Goto, At, TypeOK
<1>4. /\ s \in Seq(Elements) /\ h[t] \in Seq(Elements)
      /\ Segment(next, s, head) /\ EndsAt(next, s, Null)
      /\ PushAt(t, h[t]) /\ WalkAt(t, b[t], s)
  BY InState
<1>5. visited'[t] \o s = s
  <2>1. visited'[t] = <<>>
    BY <1>3, <1>4 DEF WalkAt
  <2>2. <<>> \o s = s
    BY <1>4, ConcatEmptySeq
  <2>3. QED
    BY <2>1, <2>2
<1>6. PushAt(t, h[t])' /\ PopAt(t, h[t], s)' /\ WalkAt(t, s, s)'
  BY <1>1, <1>3, <1>4, <1>5 DEF PushAt, PopAt, WalkAt
<1>7. QED
  BY <1>1, <1>4, <1>6, LocalStep

LEMMA VisitKeeps ==
  ASSUME NEW s, NEW h, NEW b, At(s, h, b), NEW t \in Threads, Visit(t)
  PROVE  Kept(s)
<1>1. OthersStay(t) /\ UNCHANGED <<head, next, chain, free>>
  BY DEF Visit, OthersStay, pushVars, At, TypeOK
<1>2. PICK x, v : x = current[t] /\ v = visited[t]
  OBVIOUS
<1>3. /\ pc[t] = "walk" /\ pc'[t] = "walk" /\ emptied' = emptied
      /\ x # Null /\ x \in Pointers /\ v \in Seq(Elements)
      /\ current'[t] = next[x] /\ visited'[t] = Append(v, x) /\ found'[t] = found[t]
  BY <1>2 DEF Visit, pushVars, At, TypeOK
<1>4. /\ h[t] \in Seq(Elements) /\ b[t] \in Seq(Elements)
      /\ PushAt(t, h[t]) /\ WalkAt(t, b[t], s)
  BY InState
<1>5. /\ ~emptied /\ Segment(next, b[t], x) /\ EndsAt(next, b[t], Null)
      /\ Elems(b[t]) \subseteq Elems(s) /\ v \o b[t] = found[t]
  BY <1>2, <1>3, <1>4 DEF WalkAt
<1>6. b[t] # <<>> /\ x = b[t][1] /\ x \in Elements
  BY <1>3, <1>4, <1>5, SegmentFirst DEF Pointers
<1>7. PICK d \in Seq(Elements) :
        /\ d = Tail(b[t]) /\ Segment(next, d, next[x]) /\ EndsAt(next, d, Null)
        /\ Elems(d) \subseteq Elems(b[t])
  BY <1>4, <1>5, <1>6, SegmentTail
<1>8. Append(v, x) \o d = v \o b[t]
  <2>1. Append(v, x) = v \o <<x>> /\ <<x>> \in Seq(Elements)
    <3>1. Append(v, x) = v \o <<x>>
      BY <1>3, <1>6, AppendIsConcat
    <3>2. <<x>> \in Seq(Elements)
      BY <1>6
    <3>3. QED
      BY <3>1, <3>2
  <2>2. (v \o <<x>>) \o d = v \o (<<x>> \o d)
    BY <1>3, <2>1, ConcatAssociative
  <2>3. <<x>> \o d = b[t]
    BY <1>4, <1>6, <1>7
  <2>4. QED
    BY <2>1, <2>2, <2>3
<1>9. PushAt(t, h[t])' /\ PopAt(t, h[t], s)' /\ WalkAt(t, d, s)'
  <2>1. PushAt(t, h[t])' /\ PopAt(t, h[t], s)'
    BY <1>1, <1>3, <1>4 DEF PushAt, PopAt
  <2>2. WalkAt(t, d, s)'
    BY <1>1, <1>3, <1>5, <1>7, <1>8 DEF WalkAt
  <2>3. QED
    BY <2>1, <2>2
<1>10. QED
  BY <1>1, <1>7, <1>9, LocalStep

LEMMA WalkEndKeeps ==
  ASSUME NEW s, NEW h, NEW b, At(s, h, b), NEW t \in Threads, WalkEnd(t)
  PROVE  Kept(s)
<1>1. OthersStay(t) /\ UNCHANGED <<head, next, chain, free>>
  BY DEF WalkEnd, Goto, OthersStay, pushVars, At, TypeOK
<1>2. pc[t] = "walk" /\ pc'[t] = "idle" /\ visited'[t] = <<>>
  BY DEF WalkEnd, Goto, At, TypeOK
<1>3. h[t] \in Seq(Elements) /\ b[t] \in Seq(Elements) /\ PushAt(t, h[t])
  BY InState
<1>4. PushAt(t, h[t])' /\ PopAt(t, h[t], s)' /\ WalkAt(t, b[t], s)'
  BY <1>1, <1>2, <1>3 DEF PushAt, PopAt, WalkAt
<1>5. QED
  BY <1>1, <1>3, <1>4, LocalStep

------------------------------------------------------------------------------
(* The invariant.                                                          *)

\* The types: a push follows the links of its own chain only.
LEMMA TypesKept ==
  ASSUME NEW s, NEW h, NEW b, At(s, h, b), Next
  PROVE  TypeOK'
<1> USE DEF pushVars, walkVars, Goto
<1>1. TypeOK
  BY DEF At
<1>2. PICK t \in Threads :
        \/ NewElement(t) \/ Scatter(t) \/ PopBegin(t) \/ Steal(t) \/ WalkBegin(t)
        \/ Push(t) \/ Pop(t) \/ Walk(t)
  BY DEF Next
<1>3. CASE NewElement(t)
  BY <1>1, <1>3 DEF NewElement, TypeOK, Pointers
<1>4. CASE Scatter(t)
  BY <1>1, <1>4 DEF Scatter, TypeOK, Pointers
<1>5. CASE PopBegin(t)
  BY <1>1, <1>5 DEF PopBegin, TypeOK, Pointers, Locations
<1>6. CASE Steal(t)
  BY <1>1, <1>6 DEF Steal, TypeOK, Pointers
<1>7. CASE WalkBegin(t)
  <2>1. PathFrom(head) \in Seq(Elements)
    BY <1>1, PathTyped DEF PathFrom, TypeOK
  <2>2. QED
    BY <1>1, <1>7, <2>1 DEF WalkBegin, TypeOK, Locations
<1>8. CASE Push(t)
  <2>1. CASE PushBegin(t)
    BY <1>1, <2>1 DEF PushBegin, TypeOK, Locations
  <2>2. CASE FindTail(t)
    <3>1. h[t] \in Seq(Elements) /\ PushAt(t, h[t])
      BY InState
    <3>2. tail[t] \in Elems(h[t])
      BY <2>2, <3>1 DEF FindTail, PushAt
    <3>3. tail[t] \in Elements
      BY <3>1, <3>2 DEF Elems
    <3>4. QED
      BY <1>1, <2>2, <3>3 DEF FindTail, TypeOK
  <2>3. CASE TailFound(t)
    BY <1>1, <2>3 DEF TailFound, TypeOK, Locations
  <2>4. CASE Link(t)
    BY <1>1, <2>4 DEF Link, TypeOK, Locations
  <2>5. CASE PushDone(t)
    BY <1>1, <2>5 DEF PushDone, ForgetPush, TypeOK, Locations, Pointers
  <2>6. CASE PushRetry(t)
    BY <1>1, <2>6 DEF PushRetry, TypeOK, Locations
  <2>7. QED
    BY <1>8, <2>1, <2>2, <2>3, <2>4, <2>5, <2>6 DEF Push
<1>9. CASE Pop(t)
  <2>1. CASE PopEmpty(t)
    BY <1>1, <2>1 DEF PopEmpty, TypeOK, Locations
  <2>2. CASE PopNext(t)
    BY <1>1, <2>2 DEF PopNext, TypeOK, Locations, Pointers
  <2>3. CASE PopDone(t)
    BY <1>1, <2>3 DEF PopDone, TypeOK, Locations, Pointers
  <2>4. CASE PopRetry(t)
    BY <1>1, <2>4 DEF PopRetry, TypeOK, Locations, Pointers
  <2>5. CASE PopReset(t)
    BY <1>1, <2>5 DEF PopReset, TypeOK, Locations, Pointers
  <2>6. QED
    BY <1>9, <2>1, <2>2, <2>3, <2>4, <2>5 DEF Pop
<1>10. CASE Walk(t)
  <2>1. CASE Visit(t)
    <3>1. current[t] \in Elements /\ visited[t] \in Seq(Elements) /\ next[current[t]] \in Pointers
      BY <1>1, <2>1 DEF Visit, TypeOK, Pointers
    <3>2. Append(visited[t], current[t]) \in Seq(Elements)
      BY <3>1
    <3>3. QED
      BY <1>1, <2>1, <3>1, <3>2 DEF Visit, TypeOK
  <2>2. CASE WalkEnd(t)
    <3>1. <<>> \in Seq(Elements)
      OBVIOUS
    <3>2. QED
      BY <1>1, <2>2, <3>1 DEF WalkEnd, TypeOK, Locations
  <2>3. QED
    BY <1>10, <2>1, <2>2 DEF Walk
<1>11. QED
  BY <1>2, <1>3, <1>4, <1>5, <1>6, <1>7, <1>8, <1>9, <1>10

\* What every step keeps.
LEMMA NextKeeps ==
  ASSUME NEW s, NEW h, NEW b, At(s, h, b), [Next]_vars, SoleRemover
  PROVE  TypeOK' /\ Kept(s)
<1>1. CASE Next
  <2>1. PICK t \in Threads :
          \/ NewElement(t) \/ Scatter(t) \/ PopBegin(t) \/ Steal(t) \/ WalkBegin(t)
          \/ Push(t) \/ Pop(t) \/ Walk(t)
    BY <1>1 DEF Next
  <2>2. ASSUME Push(t) PROVE Kept(s)
    BY <2>2, PushBeginKeeps, FindTailKeeps, TailFoundKeeps, LinkKeeps, PushDoneKeeps,
       PushRetryKeeps DEF Push
  <2>3. ASSUME Pop(t) PROVE Kept(s)
    BY <2>3, PopEmptyKeeps, PopNextKeeps, PopDoneKeeps, PopRetryKeeps, PopResetKeeps DEF Pop
  <2>4. ASSUME Walk(t) PROVE Kept(s)
    BY <2>4, VisitKeeps, WalkEndKeeps DEF Walk
  <2>5. Kept(s)
    BY <2>1, <2>2, <2>3, <2>4, NewElementKeeps, ScatterKeeps, PopBeginKeeps, StealKeeps,
       WalkBeginKeeps
  <2>6. QED
    BY <1>1, <2>5, TypesKept
<1>2. CASE UNCHANGED vars
  <2>1. /\ UNCHANGED <<pc, head, next, chain, tail, expected, following>>
        /\ UNCHANGED <<current, visited, found, free, emptied>>
    BY <1>2 DEF vars, pushVars, walkVars
  <2>2. TypeOK'
    BY <2>1 DEF At, TypeOK
  <2>3. StackInv(s, h, b)'
    <3>1. StackInv(s, h, b)
      BY DEF At
    <3>2. QED
      BY <2>1, <3>1 DEF StackInv, PushAt, PopAt, WalkAt
  <2>4. Kept(s)
    BY <2>3 DEF At, Kept, StackStep
  <2>5. QED
    BY <2>2, <2>4
<1>3. QED
  BY <1>1, <1>2

\* There are such a stack and such chains and walks.
IInv == \E s, h, b : At(s, h, b)

LEMMA Starts ==
  ASSUME Init
  PROVE  At(<<>>, [t \in Threads |-> <<>>], [t \in Threads |-> <<>>])
<1> DEFINE none == [t \in Threads |-> <<>>]
<1>1. TypeOK
  <2>1. <<>> \in Seq(Elements)
    OBVIOUS
  <2>2. QED
    BY <2>1 DEF Init, TypeOK, Locations, Pointers
<1>2. none \in [Threads -> Seq(Elements)] /\ <<>> \in Seq(Elements)
  OBVIOUS
<1>3. /\ Segment(next, <<>>, Null) /\ Elems(<<>>) = {}
      /\ \A q : EndsAt(next, <<>>, q)
  BY SegmentNone
<1>4. Partition({}, free, [t \in Threads |-> Elems(none[t])])
  BY <1>3 DEF Init, Partition
<1>5. ASSUME NEW t \in Threads
      PROVE  /\ Segment(next, <<>>, chain[t])
             /\ PushAt(t, <<>>) /\ PopAt(t, <<>>, <<>>) /\ WalkAt(t, <<>>, <<>>)
  BY <1>3 DEF Init, PushAt, PopAt, WalkAt
<1>6. StackInv(<<>>, none, none)
  BY <1>3, <1>4, <1>5 DEF StackInv, Init
<1>7. QED
  BY <1>1, <1>2, <1>6 DEF At

\* With one remover, every reachable state is such a state.
LEMMA Inductive ==
  ASSUME SoleRemover
  PROVE  Spec => []IInv
<1>1. Init => IInv
  BY Starts DEF IInv
<1>2. IInv /\ [Next]_vars => IInv'
  <2> SUFFICES ASSUME IInv, [Next]_vars PROVE IInv'
    OBVIOUS
  <2>1. PICK s, h, b : At(s, h, b)
    BY DEF IInv
  <2>2. TypeOK' /\ Kept(s)
    BY <2>1, NextKeeps
  <2>3. PICK r \in Seq(Elements), g \in [Threads -> Seq(Elements)],
             a \in [Threads -> Seq(Elements)] : StackInv(r, g, a)'
    BY <2>2 DEF Kept
  <2>4. At(r, g, a)'
    BY <2>2, <2>3 DEF At
  <2>5. QED
    BY <2>4 DEF IInv
<1>3. QED
  BY <1>1, <1>2, PTL DEF Spec

------------------------------------------------------------------------------
(* What the invariant says of the paths.                                   *)

\* What a thread has in hand is its chain.
LEMMA HandIs ==
  ASSUME NEW s, NEW h, NEW b, At(s, h, b), NEW t \in Threads
  PROVE  Hand(t) = h[t]
<1>1. PICK c, path : c = h[t] /\ path = PathFrom(chain[t])
  OBVIOUS
<1>2. /\ c \in Seq(Elements) /\ Segment(next, c, chain[t]) /\ PushAt(t, c) /\ PopAt(t, c, s)
      /\ next \in [Elements -> Pointers] /\ chain[t] \in Pointers
  BY <1>1, InState DEF At, TypeOK
<1>3. CASE pc[t] = "popReset"
  <2>1. Len(c) = 1
    BY <1>2, <1>3 DEF PopAt
  <2>2. c # <<>> /\ c = <<c[1]>>
    <3>1. c \in Seq(Elements)
      BY <1>2
    <3>2. QED
      BY <2>1, <3>1
  <2>3. c = <<chain[t]>>
    BY <1>2, <2>2 DEF Segment
  <2>4. QED
    BY <1>1, <1>3, <2>3 DEF Hand
<1>4. CASE pc[t] \in {"link", "pushCas"}
  <2>1. c # <<>> /\ tail[t] = c[Len(c)]
    BY <1>2, <1>4 DEF PushAt
  <2>2. PICK r \in Seq(Elements) : path = c \o r
    BY <1>1, <1>2, PathBegins DEF Begins, PathFrom
  <2>3. PICK m \in Nat : m = Len(c)
    BY <1>2
  <2>4. m \in 1..m /\ m \in DOMAIN path /\ DOMAIN path \subseteq Nat /\ \A i \in 1..m : path[i] = c[i]
    BY <1>2, <2>1, <2>2, <2>3
  <2>5. path[m] = tail[t] /\ \A i \in 1..(m - 1) : path[i] # tail[t]
    <3>1. \A i \in 1..(m - 1) : i \in 1..m /\ i # m
      BY <2>3
    <3>2. \A i \in 1..m : c[i] = c[m] => i = m
      BY <1>2, <2>3, <2>4 DEF Segment
    <3>3. QED
      BY <2>1, <2>3, <2>4, <3>1, <3>2
  <2>6. \A n \in DOMAIN path :
          path[n] = tail[t] /\ (\A i \in 1..(n - 1) : path[i] # tail[t]) => n = m
    <3> TAKE n \in DOMAIN path
    <3> HAVE path[n] = tail[t] /\ \A i \in 1..(n - 1) : path[i] # tail[t]
    <3>1. n \in Nat /\ n \in DOMAIN path
      BY <2>4
    <3>2. ~ (n < m)
      <4>1. n < m => n \in 1..(m - 1)
        BY <2>2, <2>4
      <4>2. QED
        BY <2>5, <4>1
    <3>3. ~ (m < n)
      <4>1. m < n => m \in 1..(n - 1)
        BY <2>4, <3>1
      <4>2. QED
        BY <2>5, <4>1
    <3>4. QED
      BY <2>3, <3>1, <3>2, <3>3
  <2>7. m = CHOOSE n \in DOMAIN path :
              path[n] = tail[t] /\ \A i \in 1..(n - 1) : path[i] # tail[t]
    BY <2>4, <2>5, <2>6
  <2>8. SubSeq(path, 1, m) = c
    <3>1. 1 \in 1..Len(c) /\ m \in 1..Len(c)
      BY <1>2, <2>1, <2>3
    <3>2. SubSeq(c \o r, 1, m) = SubSeq(c, 1, m)
      BY <1>2, <3>1, SubSeqOfConcat1
    <3>3. QED
      BY <1>2, <2>2, <2>3, <3>2, SubSeqFull
  <2>9. QED
    BY <1>1, <1>4, <2>7, <2>8 DEF Hand
<1>5. CASE pc[t] \notin {"link", "pushCas", "popReset"}
  <2>1. EndsAt(next, c, Null)
    BY <1>2, <1>5 DEF PushAt
  <2>2. PathFrom(chain[t]) = c
    BY <1>2, <2>1, PathIs DEF PathFrom
  <2>3. QED
    BY <1>1, <1>5, <2>2 DEF Hand
<1>6. QED
  BY <1>3, <1>4, <1>5

\* What a walk has left is the path from where it is.
LEMMA WalkIs ==
  ASSUME NEW s, NEW h, NEW b, At(s, h, b), NEW t \in Threads, pc[t] = "walk"
  PROVE  PathFrom(current[t]) = b[t]
<1>1. /\ b[t] \in Seq(Elements) /\ WalkAt(t, b[t], s)
      /\ next \in [Elements -> Pointers] /\ current[t] \in Pointers
  BY InState DEF At, TypeOK
<1>2. QED
  BY <1>1, PathIs DEF WalkAt, PathFrom

\* So the invariant holds of the sequences the properties name.
LEMMA Named ==
  ASSUME IInv
  PROVE  TypeOK /\ StackInvHolds
<1>1. PICK s, h, b : At(s, h, b)
  BY DEF IInv
<1>2. /\ StackInv(s, h, b) /\ TypeOK /\ h \in [Threads -> Seq(Elements)]
  BY <1>1 DEF At
<1> DEFINE a == [t \in Threads |-> PathFrom(current[t])]
<1>3. PathFrom(head) = s
  BY <1>1, StackIs
<1>4. [t \in Threads |-> Hand(t)] = h
  <2>1. \A t \in Threads : Hand(t) = h[t]
    BY <1>1, HandIs
  <2>2. QED
    BY <1>2, <2>1
<1>5. ASSUME NEW t \in Threads PROVE WalkAt(t, a[t], s)
  <2>1. WalkAt(t, b[t], s)
    BY <1>2 DEF StackInv
  <2>2. pc[t] = "walk" => a[t] = b[t]
    BY <1>1, WalkIs
  <2> HIDE DEF a
  <2>3. QED
    BY <2>1, <2>2 DEF WalkAt
<1>6. StackInv(s, h, a)
  <2> HIDE DEF a
  <2>1. QED
    BY <1>2, <1>5 DEF StackInv
<1>7. QED
  BY <1>2, <1>3, <1>4, <1>6 DEF StackInvHolds

\* In such a state each element is in one place.
LEMMA PlacesDiffer ==
  ASSUME IInv
  PROVE  OnePlace
<1>1. PICK s, h, b : At(s, h, b)
  BY DEF IInv
<1>2. /\ s \in Seq(Elements) /\ Segment(next, s, head)
      /\ Partition(Elems(s), free, Hands(h)) /\ free \subseteq Elements
  BY <1>1 DEF At, StackInv, Hands, TypeOK
<1>3. PathFrom(head) = s
  BY <1>1, StackIs
<1>4. \A t \in Threads : InHand(t) = Elems(h[t])
  BY <1>1, HandIs DEF InHand
<1>5. Len(s) = Cardinality(Elems(s)) /\ Elems(s) \subseteq Elements
  BY <1>2, SegmentLength
<1>6. \A t \in Threads : Elems(h[t]) \subseteq Elements
  BY <1>1, InState
<1>7. /\ Elems(s) \intersect free = {}
      /\ \A t \in Threads : InHand(t) \intersect (Elems(s) \union free) = {}
      /\ \A t, u \in Threads : t # u => InHand(t) \intersect InHand(u) = {}
      /\ \A e \in Elements : e \in Elems(s) \/ e \in free \/ \E t \in Threads : e \in InHand(t)
  <2>1. /\ Elems(s) \intersect free = {}
        /\ \A t \in Threads : Elems(h[t]) \intersect Elems(s) = {} /\ Elems(h[t]) \intersect free = {}
        /\ \A t, u \in Threads : t # u => Elems(h[t]) \intersect Elems(h[u]) = {}
        /\ \A e \in Elements : e \in Elems(s) \/ e \in free \/ \E t \in Threads : e \in Elems(h[t])
    BY <1>2 DEF Partition, Hands
  <2>2. \A t \in Threads : InHand(t) \intersect (Elems(s) \union free) = {}
    BY <1>4, <2>1
  <2>3. \A t, u \in Threads : t # u => InHand(t) \intersect InHand(u) = {}
    BY <1>4, <2>1
  <2>4. QED
    BY <1>4, <2>1, <2>2, <2>3
<1>8. Elems(s) \union free \union UNION {InHand(t) : t \in Threads} = Elements
  BY <1>2, <1>4, <1>5, <1>6, <1>7
<1>9. QED
  BY <1>3, <1>5, <1>7, <1>8 DEF OnePlace

\* In such a state each walk is on what it found.
LEMMA WalksStay ==
  ASSUME IInv
  PROVE  WalkSeesStack
<1>1. PICK s, h, b : At(s, h, b)
  BY DEF IInv
<1>2. ASSUME NEW t \in Threads, pc[t] = "walk"
      PROVE  visited[t] \o PathFrom(current[t]) = found[t]
  <2>1. WalkAt(t, b[t], s)
    BY <1>1, InState
  <2>2. PathFrom(current[t]) = b[t]
    BY <1>1, <1>2, WalkIs
  <2>3. QED
    BY <1>2, <2>1, <2>2 DEF WalkAt
<1>3. QED
  BY <1>2 DEF WalkSeesStack

\* What a step does to the stack is an operation of LifoStack.
LEMMA StackStepIs ==
  ASSUME NEW s \in Seq(Elements), NEW r \in Seq(Elements), NEW links, NEW p,
         Segment(links, r, p), StackStep(s, r)
  PROVE  \/ r = s
         \/ s # <<>> /\ (r = Tail(s) \/ r = <<>>)
         \/ /\ Len(r) - Len(s) > 0
            /\ SubSeq(r, Len(r) - Len(s) + 1, Len(r)) = s
            /\ \A i, j \in DOMAIN r : r[i] = r[j] => i = j
<1>1. CASE r = s \/ (s # <<>> /\ (r = Tail(s) \/ r = <<>>))
  BY <1>1
<1>2. CASE \E c \in Seq(Elements) : c # <<>> /\ r = c \o s
  <2>1. PICK c \in Seq(Elements) : c # <<>> /\ r = c \o s
    BY <1>2
  <2>2. PICK n, m \in Nat : n = Len(c) /\ m = Len(s)
    OBVIOUS
  <2>3. Len(r) = n + m /\ n > 0 /\ Len(r) - Len(s) = n
    <3>1. Len(r) = Len(c) + Len(s) /\ Len(c) # 0
      BY <2>1
    <3>2. QED
      BY <2>2, <3>1
  <2>4. SubSeq(r, n + 1, n + m) = s
    <3>1. /\ SubSeq(r, n + 1, n + m) \in Seq(Elements)
          /\ Len(SubSeq(r, n + 1, n + m)) = m
          /\ \A i \in 1..m : SubSeq(r, n + 1, n + m)[i] = r[n + i]
      <4>1. n + 1 \in Int /\ n + m \in Int /\ n + 1 >= 1 /\ n + m <= Len(r)
        BY <2>2, <2>3
      <4>2. QED
        BY <2>2, <2>3, <4>1
    <3>2. \A i \in 1..m : r[n + i] = s[i]
      BY <2>1, <2>2
    <3>3. PICK q \in Seq(Elements) : q = SubSeq(r, n + 1, n + m)
      BY <3>1
    <3>4. Len(q) = Len(s) /\ \A i \in 1..Len(q) : q[i] = s[i]
      BY <2>2, <3>1, <3>2, <3>3
    <3>5. q = s
      BY <3>4, SeqEqual
    <3>6. QED
      BY <3>3, <3>5
  <2>5. \A i, j \in DOMAIN r : r[i] = r[j] => i = j
    BY DEF Segment
  <2>6. QED
    BY <2>3, <2>4, <2>5
<1>3. QED
  BY <1>1, <1>2 DEF StackStep

\* Every step is a step of LifoStack, or leaves its stack alone.
LEMMA LifoStep ==
  ASSUME IInv, [Next]_vars, SoleRemover
  PROVE  [Lifo!Next]_(PathFrom(head))
<1>1. PICK s, h, b : At(s, h, b)
  BY DEF IInv
<1>2. TypeOK' /\ Kept(s) /\ s \in Seq(Elements)
  BY <1>1, NextKeeps DEF At
<1>3. PICK r \in Seq(Elements), g \in [Threads -> Seq(Elements)],
           a \in [Threads -> Seq(Elements)] : StackInv(r, g, a)' /\ StackStep(s, r)
  BY <1>2 DEF Kept
<1>4. /\ next' \in [Elements -> Pointers] /\ head' \in Pointers
      /\ Segment(next', r, head') /\ EndsAt(next', r, Null)
  BY <1>2, <1>3 DEF TypeOK, StackInv
<1>5. PathIn(next', head') = r
  BY <1>4, PathIs
<1>6. PathFrom(head) = s /\ PathFrom(head)' = r
  <2>1. PathFrom(head)' = PathIn(next', head')
    BY DEF PathFrom
  <2>2. QED
    BY <1>1, <1>5, <2>1, StackIs
<1>7. \/ r = s
      \/ s # <<>> /\ (r = Tail(s) \/ r = <<>>)
      \/ /\ Len(r) - Len(s) > 0
         /\ SubSeq(r, Len(r) - Len(s) + 1, Len(r)) = s
         /\ \A i, j \in DOMAIN r : r[i] = r[j] => i = j
  BY <1>2, <1>3, <1>4, StackStepIs
<1>8. CASE r = s
  BY <1>6, <1>8
<1>9. CASE s # <<>> /\ r = Tail(s)
  BY <1>6, <1>9 DEF Lifo!Next, Lifo!Pop
<1>10. CASE s # <<>> /\ r = <<>>
  BY <1>6, <1>10 DEF Lifo!Next, Lifo!Steal
<1>11. CASE /\ Len(r) - Len(s) > 0
            /\ SubSeq(r, Len(r) - Len(s) + 1, Len(r)) = s
            /\ \A i, j \in DOMAIN r : r[i] = r[j] => i = j
  BY <1>6, <1>11 DEF Lifo!Next, Lifo!Push
<1>12. QED
  BY <1>7, <1>8, <1>9, <1>10, <1>11

------------------------------------------------------------------------------
(* The theorems.                                                           *)

\* With one thread that removes, in every reachable state the variables are of
\* their types and the invariant holds of the stack, the chains in hand and the
\* rests of the walks that the links give.
THEOREM Invariance ==
  ASSUME SoleRemover
  PROVE  Spec => [](TypeOK /\ StackInvHolds)
<1>1. Spec => []IInv
  BY Inductive
<1>2. IInv => TypeOK /\ StackInvHolds
  BY Named
<1>3. QED
  BY <1>1, <1>2, PTL

\* Whatever the order of pushes, pops and steals, each element is on the stack,
\* in the hand of one thread or nobody's (cstack_push, cstack_pop and
\* cstack_steal lose none and hand none out twice).
THEOREM ElementsKept ==
  ASSUME SoleRemover
  PROVE  Spec => []OnePlace
<1>1. Spec => []IInv
  BY Inductive
<1>2. QED
  BY <1>1, PlacesDiffer, PTL

\* A walk visits the stack it found, each element once and in order, whatever
\* others push meanwhile (cstack_forall).
THEOREM WalksComplete ==
  ASSUME SoleRemover
  PROVE  Spec => []WalkSeesStack
<1>1. Spec => []IInv
  BY Inductive
<1>2. QED
  BY <1>1, WalksStay, PTL

\* cstack implements a stack whose operations take effect at once, each at its
\* successful exchange of the head.
THEOREM Implementation ==
  ASSUME SoleRemover
  PROVE  Spec => ImplementsLifo
<1>1. Spec => []IInv
  BY Inductive
<1>2. Init => Lifo!Init
  <2> SUFFICES ASSUME Init PROVE PathFrom(head) = <<>>
    BY DEF Lifo!Init
  <2>1. QED
    BY Starts, StackIs
<1>3. IInv /\ [Next]_vars => [Lifo!Next]_(PathFrom(head))
  BY LifoStep
<1>4. QED
  BY <1>1, <1>2, <1>3, PTL DEF Spec, ImplementsLifo, Lifo!Spec

==============================================================================
