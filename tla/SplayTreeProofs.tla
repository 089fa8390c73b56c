--------------------------- MODULE SplayTreeProofs ---------------------------
(***************************************************************************)
(* The splay tree for every set of keys, entries and nodes.                *)
(***************************************************************************)
EXTENDS SplayTree, TLAPS

------------------------------------------------------------------------------
(* The two sides.                                                          *)

\* A side and the other one are all there are.
LEMMA SidesAre ==
  ASSUME NEW d \in Sides
  PROVE  /\ Other(d) \in Sides /\ Other(d) # d /\ Other(Other(d)) = d
         /\ \A s \in Sides : s = d \/ s = Other(d)
BY DEF Sides, Other

\* The comparison that goes to a side is a total order, and the one that goes
\* to the other side its inverse.
LEMMA Order ==
  ASSUME NEW d \in Sides
  PROVE  /\ \A a, b \in Int : Before(Other(d), a, b) <=> Before(d, b, a)
         /\ \A a \in Int : ~Before(d, a, a)
         /\ \A a, b \in Int : ~(Before(d, a, b) /\ Before(d, b, a))
         /\ \A a, b \in Int : a = b \/ Before(d, a, b) \/ Before(d, b, a)
         /\ \A a, b, c \in Int : Before(d, a, b) /\ Before(d, b, c) => Before(d, a, c)
<1>1. CASE d = "left"
  BY <1>1 DEF Before, Other
<1>2. CASE d = "right"
  BY <1>2 DEF Before, Other
<1>3. QED
  BY <1>1, <1>2 DEF Sides

------------------------------------------------------------------------------
(* Trees as closed sets of nodes.                                          *)

Links == [Sides -> [Nodes \union {Dummy} -> Pointers]]

\* A closed set with the root of a tree in it has all its nodes.
LEMMA BelowLeast ==
  ASSUME NEW l, NEW p, NEW S \in SUBSET Nodes, p \in S \union {Null}, Closed(l, S)
  PROVE  Below(l, p) \subseteq S
BY DEF Below

\* The empty tree has no nodes.
LEMMA BelowNull ==
  ASSUME NEW l
  PROVE  Below(l, Null) = {}
<1>1. Closed(l, {}) /\ {} \in SUBSET Nodes /\ Null \in {} \union {Null}
  BY DEF Closed
<1>2. QED
  BY <1>1, BelowLeast

\* The nodes of a tree are a closed set with its root.
LEMMA BelowClosed ==
  ASSUME NEW l \in Links, NEW p \in Pointers
  PROVE  /\ Below(l, p) \in SUBSET Nodes
         /\ p \in Below(l, p) \union {Null}
         /\ Closed(l, Below(l, p))
<1>1. Below(l, p) \in SUBSET Nodes
  BY DEF Below
<1>2. p \in Below(l, p) \union {Null}
  BY DEF Below, Pointers
<1>3. ASSUME NEW n \in Below(l, p), NEW d \in Sides
      PROVE  l[d][n] \in Below(l, p) \union {Null}
  <2>1. n \in Nodes /\ l[d][n] \in Pointers
    BY <1>1 DEF Links
  <2>2. ASSUME l[d][n] # Null, NEW S \in SUBSET Nodes, p \in S \union {Null}, Closed(l, S)
        PROVE  l[d][n] \in S
    <3>1. n \in S
      BY <2>2 DEF Below
    <3>2. QED
      BY <2>2, <3>1 DEF Closed
  <2>3. QED
    BY <2>1, <2>2 DEF Below, Pointers
<1>4. QED
  BY <1>1, <1>2, <1>3 DEF Closed

\* A node of a tree has its own tree within.
LEMMA BelowWithin ==
  ASSUME NEW l \in Links, NEW p \in Pointers, NEW n \in Below(l, p)
  PROVE  /\ n \in Nodes
         /\ Below(l, n) \subseteq Below(l, p)
         /\ \A d \in Sides : l[d][n] \in Pointers /\ Below(l, l[d][n]) \subseteq Below(l, p)
<1>1. n \in Nodes /\ Below(l, p) \in SUBSET Nodes /\ Closed(l, Below(l, p))
  BY BelowClosed
<1>2. Below(l, n) \subseteq Below(l, p)
  BY <1>1, BelowLeast
<1>3. ASSUME NEW d \in Sides
      PROVE  l[d][n] \in Pointers /\ Below(l, l[d][n]) \subseteq Below(l, p)
  <2>1. l[d][n] \in Below(l, p) \union {Null}
    BY <1>1 DEF Closed
  <2>2. Below(l, l[d][n]) \subseteq Below(l, p)
    BY <1>1, <2>1, BelowLeast
  <2>3. QED
    BY <1>1, <2>2 DEF Links
<1>4. QED
  BY <1>1, <1>2, <1>3

\* A tree is its root and its two subtrees.
LEMMA BelowIs ==
  ASSUME NEW l \in Links, NEW p \in Nodes
  PROVE  \A n : n \in Below(l, p) <=> n = p \/ \E d \in Sides : n \in Below(l, l[d][p])
<1> DEFINE S == {n \in Nodes : n = p \/ \E d \in Sides : n \in Below(l, l[d][p])}
<1>1. p \in Pointers /\ p # Null
  BY ConstantsAssumption DEF Pointers
<1>2. p \in Below(l, p)
  BY <1>1, BelowClosed
<1>3. S \subseteq Below(l, p)
  BY <1>1, <1>2, BelowWithin
<1>4. ASSUME NEW n \in S, NEW e \in Sides PROVE l[e][n] \in S \union {Null}
  <2>1. CASE n = p
    <3>1. l[e][p] \in Pointers
      BY DEF Links
    <3>2. l[e][p] \in Below(l, l[e][p]) \union {Null}
      BY <3>1, BelowClosed
    <3>3. QED
      BY <2>1, <3>1, <3>2 DEF Pointers
  <2>2. ASSUME NEW d \in Sides, n \in Below(l, l[d][p]) PROVE l[e][n] \in S \union {Null}
    <3>1. l[d][p] \in Pointers
      BY DEF Links
    <3>2. Below(l, l[d][p]) \in SUBSET Nodes /\ Closed(l, Below(l, l[d][p]))
      BY <3>1, BelowClosed
    <3>3. l[e][n] \in Below(l, l[d][p]) \union {Null}
      BY <2>2, <3>2 DEF Closed
    <3>4. QED
      BY <2>2, <3>2, <3>3
  <2>3. QED
    BY <2>1, <2>2
<1>5. Closed(l, S)
  BY <1>4 DEF Closed
<1>6. Below(l, p) \subseteq S
  <2>1. S \in SUBSET Nodes /\ p \in S \union {Null}
    OBVIOUS
  <2>2. QED
    BY <1>5, <2>1, BelowLeast
<1>7. \A n, d : d \in Sides /\ n \in Below(l, l[d][p]) => n \in Nodes
  BY DEF Below
<1>8. QED
  BY <1>3, <1>6, <1>7

\* A tree depends on the links of its own nodes only, and its order on their
\* keys.
LEMMA SameTree ==
  ASSUME NEW l \in Links, NEW m \in Links, NEW p \in Pointers,
         \A n \in Below(l, p), d \in Sides : m[d][n] = l[d][n]
  PROVE  /\ Below(m, p) = Below(l, p)
         /\ \A j, k : (\A n \in Below(l, p) : k[n] = j[n]) /\ Ordered(l, j, p) => Ordered(m, k, p)
<1>1. ASSUME NEW q \in Pointers, Below(l, q) \subseteq Below(l, p)
      PROVE  Below(m, q) = Below(l, q)
  <2>1. /\ Below(l, q) \in SUBSET Nodes /\ q \in Below(l, q) \union {Null}
        /\ Closed(l, Below(l, q))
        /\ Below(m, q) \in SUBSET Nodes /\ q \in Below(m, q) \union {Null}
        /\ Closed(m, Below(m, q))
    BY BelowClosed
  <2>2. Closed(m, Below(l, q))
    BY <1>1, <2>1 DEF Closed
  <2>3. Below(m, q) \subseteq Below(l, q)
    BY <2>1, <2>2, BelowLeast
  <2>4. Closed(l, Below(m, q))
    BY <1>1, <2>1, <2>3 DEF Closed
  <2>5. Below(l, q) \subseteq Below(m, q)
    BY <2>1, <2>4, BelowLeast
  <2>6. QED
    BY <2>3, <2>5
<1>2. Below(m, p) = Below(l, p)
  BY <1>1
<1>3. ASSUME NEW j, NEW k, \A n \in Below(l, p) : k[n] = j[n], Ordered(l, j, p),
             NEW n \in Below(m, p), NEW d \in Sides, NEW a \in Below(m, m[d][n])
      PROVE  Before(d, k[a], k[n])
  <2>1. /\ n \in Below(l, p) /\ m[d][n] = l[d][n] /\ l[d][n] \in Pointers
        /\ Below(l, l[d][n]) \subseteq Below(l, p)
    BY <1>2, <1>3, BelowWithin
  <2>2. a \in Below(l, l[d][n])
    BY <1>1, <1>3, <2>1
  <2>3. Before(d, j[a], j[n])
    BY <1>3, <2>1, <2>2 DEF Ordered
  <2>4. QED
    BY <1>3, <2>1, <2>2, <2>3
<1>4. QED
  BY <1>2, <1>3 DEF Ordered

\* A tree is ordered when its subtrees are and lie on their sides of the root.
LEMMA OrderedIs ==
  ASSUME NEW l \in Links, NEW k, NEW p \in Nodes
  PROVE  Ordered(l, k, p) <=>
           \A d \in Sides : /\ Ordered(l, k, l[d][p])
                            /\ \A n \in Below(l, l[d][p]) : Before(d, k[n], k[p])
<1>1. p \in Below(l, p) /\ \A d \in Sides : Below(l, l[d][p]) \subseteq Below(l, p)
  BY BelowIs
<1>2. ASSUME Ordered(l, k, p), NEW d \in Sides
      PROVE  /\ Ordered(l, k, l[d][p])
             /\ \A n \in Below(l, l[d][p]) : Before(d, k[n], k[p])
  BY <1>1, <1>2 DEF Ordered
<1>3. ASSUME \A d \in Sides : /\ Ordered(l, k, l[d][p])
                              /\ \A n \in Below(l, l[d][p]) : Before(d, k[n], k[p])
      PROVE  Ordered(l, k, p)
  <2> SUFFICES ASSUME NEW n \in Below(l, p), NEW e \in Sides, NEW a \in Below(l, l[e][n])
               PROVE  Before(e, k[a], k[n])
    BY DEF Ordered
  <2>1. CASE n = p
    BY <1>3, <2>1
  <2>2. ASSUME NEW d \in Sides, n \in Below(l, l[d][p]) PROVE Before(e, k[a], k[n])
    BY <1>3, <2>2 DEF Ordered
  <2>3. QED
    BY <2>1, <2>2, BelowIs
<1>4. QED
  BY <1>2, <1>3

------------------------------------------------------------------------------
(* A tree hung below another.                                              *)

\* Hung below the last node of a tree on a side, a tree that lies on that side
\* of it makes one ordered tree with it.
LEMMA Hang ==
  ASSUME NEW l \in Links, NEW m \in Links, NEW k, NEW d \in Sides,
         NEW t \in Pointers, NEW r \in Below(l, t), NEW x \in Pointers,
         \A s \in Sides, n \in Nodes \union {Dummy} :
           m[s][n] = IF s = d /\ n = r THEN x ELSE l[s][n],
         l[d][r] = Null,
         Ordered(l, k, t), Ordered(l, k, x),
         \A n \in Below(l, t) \union Below(l, x) : k[n] \in Int,
         \A n \in Below(l, t) \ {r} : Before(d, k[r], k[n]),
         \A n \in Below(l, t) : \A a \in Below(l, x) : Before(d, k[a], k[n])
  PROVE  /\ Below(m, t) = Below(l, t) \union Below(l, x)
         /\ Ordered(m, k, t)
         /\ Below(m, x) = Below(l, x)
         /\ Ordered(m, k, x)
<1> DEFINE T == Below(l, t)
           X == Below(l, x)
<1>1. /\ T \in SUBSET Nodes /\ t \in T \union {Null} /\ Closed(l, T)
      /\ X \in SUBSET Nodes /\ x \in X \union {Null} /\ Closed(l, X)
  BY BelowClosed
<1>2. r \in Nodes /\ r \notin X /\ T \intersect X = {}
  BY <1>1, Order
<1>3. Below(m, x) = X /\ Ordered(m, k, x)
  <2>1. \A n \in X, s \in Sides : m[s][n] = l[s][n]
    BY <1>1, <1>2
  <2>2. QED
    BY <2>1, SameTree
<1>4. Below(m, t) = T \union X
  <2>1. /\ Below(m, t) \in SUBSET Nodes /\ t \in Below(m, t) \union {Null}
        /\ Closed(m, Below(m, t))
    BY BelowClosed
  <2>2. Below(m, t) \subseteq T \union X
    <3>1. Closed(m, T \union X)
      BY <1>1 DEF Closed
    <3>2. T \union X \in SUBSET Nodes /\ t \in (T \union X) \union {Null}
      BY <1>1
    <3>3. QED
      BY <3>1, <3>2, BelowLeast
  <2>3. T \subseteq Below(m, t)
    <3>1. Closed(l, Below(m, t))
      BY <2>1 DEF Closed
    <3>2. QED
      BY <2>1, <3>1, BelowLeast
  <2>4. X \subseteq Below(m, t)
    <3>1. m[d][r] = x
      BY <1>2
    <3>2. QED
      BY <1>3, <2>3, <3>1, BelowWithin
  <2>5. QED
    BY <2>2, <2>3, <2>4
<1>5. ASSUME NEW n \in T, NEW e \in Sides, NEW a \in Below(m, m[e][n])
      PROVE  Before(e, k[a], k[n])
  <2>1. n \in Nodes /\ l[e][n] \in Pointers /\ Below(l, l[e][n]) \subseteq T
    BY BelowWithin
  <2>2. \A b \in Below(l, l[e][n]) : Before(e, k[b], k[n])
    BY DEF Ordered
  <2>3. CASE e = d /\ n = r
    BY <1>2, <1>3, <2>3
  <2>4. CASE e = d /\ n # r
    <3>1. m[e][n] = l[e][n]
      BY <2>1, <2>4
    <3>2. Closed(m, Below(l, l[e][n]) \union X)
      <4>1. Below(l, l[e][n]) \in SUBSET Nodes /\ Closed(l, Below(l, l[e][n]))
        BY <2>1, BelowClosed
      <4>2. QED
        BY <1>1, <4>1 DEF Closed
    <3>3. /\ Below(l, l[e][n]) \union X \in SUBSET Nodes
          /\ l[e][n] \in (Below(l, l[e][n]) \union X) \union {Null}
      BY <1>1, <2>1, BelowClosed
    <3>4. a \in Below(l, l[e][n]) \union X
      BY <3>1, <3>2, <3>3, BelowLeast
    <3>5. QED
      BY <2>2, <2>4, <3>4
  <2>5. CASE e # d
    <3>1. m[e][n] = l[e][n]
      BY <2>1, <2>5
    <3>2. e = Other(d)
      BY <2>5, SidesAre
    <3>3. r \notin Below(l, l[e][n])
      <4> SUFFICES ASSUME r \in Below(l, l[e][n]) PROVE FALSE
        OBVIOUS
      <4>1. Before(e, k[r], k[n])
        BY <2>2
      <4>2. Before(d, k[n], k[r])
        BY <3>2, <4>1, Order
      <4>3. n = r \/ Before(d, k[r], k[n])
        OBVIOUS
      <4>4. QED
        BY <4>2, <4>3, Order
    <3>4. Below(m, l[e][n]) = Below(l, l[e][n])
      <4>1. \A b \in Below(l, l[e][n]), s \in Sides : m[s][b] = l[s][b]
        BY <1>1, <2>1, <3>3
      <4>2. QED
        BY <2>1, <4>1, SameTree
    <3>5. QED
      BY <2>2, <3>1, <3>4
  <2>6. QED
    BY <2>3, <2>4, <2>5
<1>6. Ordered(m, k, t)
  BY <1>3, <1>4, <1>5 DEF Ordered
<1>7. QED
  BY <1>3, <1>4, <1>6

\* The nodes put aside on one side and those on the other are apart, and apart
\* from the tree that is searched.
LEMMA AsidesApart ==
  ASSUME NEW l, NEW k, NEW c \in Int, NEW t, NEW e,
         \A d \in Sides : PutAside(l, k, c, t, d, e[d]),
         \A n \in Below(l, t) \union UNION {Below(l, l[d][Dummy]) : d \in Sides} : k[n] \in Int,
         NEW d \in Sides, NEW n \in Below(l, l[d][Dummy])
  PROVE  n \notin Below(l, t) /\ n \notin Below(l, l[Other(d)][Dummy])
<1>1. Other(d) \in Sides /\ k[n] \in Int
  BY SidesAre
<1>2. n \notin Below(l, t)
  <2>1. \A a \in Below(l, t) : Before(d, k[a], k[n])
    BY DEF PutAside
  <2>2. QED
    BY <1>1, <2>1, Order
<1>3. n \notin Below(l, l[Other(d)][Dummy])
  <2> SUFFICES ASSUME n \in Below(l, l[Other(d)][Dummy]) PROVE FALSE
    OBVIOUS
  <2>1. Before(d, c, k[n]) /\ Before(Other(d), c, k[n])
    BY <1>1 DEF PutAside
  <2>2. QED
    BY <1>1, <2>1, Order
<1>4. QED
  BY <1>2, <1>3

\* Hung at the edge of the nodes put aside, a part of the tree that is searched
\* joins them.
LEMMA HangAside ==
  ASSUME NEW l \in Links, NEW m \in Links, NEW k, NEW c, NEW d \in Sides,
         NEW t \in Pointers, NEW e \in Nodes \union {Dummy}, NEW x \in Pointers,
         \A s \in Sides, n \in Nodes \union {Dummy} :
           m[s][n] = IF s = d /\ n = e THEN x ELSE l[s][n],
         PutAside(l, k, c, t, d, e),
         Below(l, x) \subseteq Below(l, t), Ordered(l, k, x),
         \A n \in Below(l, t) \union Below(l, l[d][Dummy]) : k[n] \in Int
  PROVE  /\ Below(m, m[d][Dummy]) = Below(l, l[d][Dummy]) \union Below(l, x)
         /\ Ordered(m, k, m[d][Dummy])
         /\ Below(m, x) = Below(l, x)
         /\ Ordered(m, k, x)
<1>1. l[d][Dummy] \in Pointers /\ Dummy \notin Nodes
  BY ConstantsAssumption DEF Links
<1>2. CASE e = Dummy
  <2>1. l[d][Dummy] = Null /\ m[d][Dummy] = x
    BY <1>2 DEF PutAside
  <2>2. Below(l, x) \in SUBSET Nodes
    BY BelowClosed
  <2>3. \A n \in Below(l, x), s \in Sides : m[s][n] = l[s][n]
    BY <1>1, <1>2, <2>2
  <2>4. Below(m, x) = Below(l, x) /\ Ordered(m, k, x)
    BY <2>3, SameTree
  <2>5. QED
    BY <2>1, <2>4, BelowNull
<1>3. CASE e # Dummy
  <2>1. m[d][Dummy] = l[d][Dummy] /\ e \in Nodes
    BY <1>3
  <2>2. /\ e \in Below(l, l[d][Dummy]) /\ l[d][e] = Null
        /\ Ordered(l, k, l[d][Dummy])
        /\ \A n \in Below(l, l[d][Dummy]) \ {e} : Before(d, k[e], k[n])
        /\ \A n \in Below(l, l[d][Dummy]) : \A a \in Below(l, x) : Before(d, k[a], k[n])
    BY <1>3 DEF PutAside
  <2>3. \A n \in Below(l, l[d][Dummy]) \union Below(l, x) : k[n] \in Int
    OBVIOUS
  <2>4. QED
    BY <1>1, <2>1, <2>2, <2>3, Hang
<1>4. QED
  BY <1>2, <1>3

------------------------------------------------------------------------------
(* The steps of the splay, on the links.                                   *)

\* The nodes of the three trees.
Three(l, t) == Below(l, t) \union UNION {Below(l, l[d][Dummy]) : d \in Sides}

\* What the loop keeps of the three trees.
Splayed(l, k, c, t, e) ==
  /\ \A n \in Three(l, t) : k[n] \in Int
  /\ Ordered(l, k, t)
  /\ \A d \in Sides : PutAside(l, k, c, t, d, e[d])

\* The nodes of a tree lie on their sides of its root, and nowhere else.
LEMMA Parts ==
  ASSUME NEW l \in Links, NEW k, NEW t \in Nodes, Ordered(l, k, t),
         \A n \in Below(l, t) : k[n] \in Int,
         NEW d \in Sides
  PROVE  /\ l[d][t] \in Pointers
         /\ t \in Below(l, t) /\ Below(l, l[d][t]) \subseteq Below(l, t)
         /\ Below(l, t) = {t} \union Below(l, l[d][t]) \union Below(l, l[Other(d)][t])
         /\ Ordered(l, k, l[d][t])
         /\ \A n \in Below(l, l[d][t]) : Before(d, k[n], k[t])
         /\ t \notin Below(l, l[d][t])
         /\ Below(l, l[d][t]) \intersect Below(l, l[Other(d)][t]) = {}
<1>1. Other(d) \in Sides /\ \A s \in Sides : s = d \/ s = Other(d)
  BY SidesAre
<1>2. l[d][t] \in Pointers
  BY DEF Links
<1>3. \A n : n \in Below(l, t) <=> n = t \/ \E s \in Sides : n \in Below(l, l[s][t])
  BY BelowIs
<1>4. \A s \in Sides : /\ Ordered(l, k, l[s][t])
                       /\ \A n \in Below(l, l[s][t]) : Before(s, k[n], k[t])
  BY OrderedIs
<1>5. \A n \in Below(l, l[d][t]) : n \notin Below(l, l[Other(d)][t]) /\ n # t
  <2> SUFFICES ASSUME NEW n \in Below(l, l[d][t]), n \in Below(l, l[Other(d)][t]) \/ n = t
               PROVE  FALSE
    OBVIOUS
  <2>1. k[n] \in Int /\ k[t] \in Int /\ Before(d, k[n], k[t])
    BY <1>3, <1>4
  <2>2. n # t
    BY <2>1, Order
  <2>3. Before(Other(d), k[n], k[t])
    BY <1>1, <1>4, <2>2
  <2>4. QED
    BY <2>1, <2>3, Order
<1>6. Below(l, t) = {t} \union Below(l, l[d][t]) \union Below(l, l[Other(d)][t])
  BY <1>1, <1>3
<1>7. QED
  BY <1>1, <1>2, <1>3, <1>4, <1>5, <1>6

\* The links of the nodes put aside on a side are the same.
AsideSame(l, m, d) ==
  /\ \A n \in Below(l, l[d][Dummy]) \union {Dummy} : m[d][n] = l[d][n]
  /\ \A n \in Below(l, l[d][Dummy]), s \in Sides : m[s][n] = l[s][n]

\* What holds of the nodes put aside stays so when no more of the tree is
\* searched and their links are the same.
LEMMA StillAside ==
  ASSUME NEW l \in Links, NEW m \in Links, NEW k, NEW c, NEW t, NEW q, NEW d \in Sides,
         NEW e \in Nodes \union {Dummy},
         PutAside(l, k, c, t, d, e),
         Below(m, q) \subseteq Below(l, t), AsideSame(l, m, d)
  PROVE  PutAside(m, k, c, q, d, e) /\ Below(m, m[d][Dummy]) = Below(l, l[d][Dummy])
<1> USE DEF AsideSame
<1>1. l[d][Dummy] \in Pointers /\ m[d][Dummy] = l[d][Dummy]
  BY DEF Links
<1>2. Ordered(l, k, l[d][Dummy])
  BY DEF PutAside
<1>3. Below(m, l[d][Dummy]) = Below(l, l[d][Dummy]) /\ Ordered(m, k, l[d][Dummy])
  BY <1>1, <1>2, SameTree
<1>4. m[d][e] = Null
  BY DEF PutAside
<1>5. QED
  BY <1>1, <1>3, <1>4 DEF PutAside

\* A rotation leaves the tree its nodes and its order.
LEMMA Rotated ==
  ASSUME NEW l \in Links, NEW m \in Links, NEW k, NEW t \in Nodes, NEW d \in Sides, NEW y \in Nodes,
         Ordered(l, k, t), \A n \in Below(l, t) : k[n] \in Int,
         y = l[d][t],
         \A s \in Sides, n \in Nodes \union {Dummy} :
           m[s][n] = IF s = d /\ n = t THEN l[Other(d)][y]
                     ELSE IF s = Other(d) /\ n = y THEN t ELSE l[s][n]
  PROVE  Below(m, y) = Below(l, t) /\ Ordered(m, k, y)
<1> DEFINE o == Other(d)
           A == Below(l, l[d][y])
           B == Below(l, l[o][y])
           C == Below(l, l[o][t])
<1>1. o \in Sides /\ o # d /\ Other(o) = d /\ \A s \in Sides : s = d \/ s = o
  BY SidesAre
<1>2. /\ t \in Below(l, t) /\ Below(l, y) \subseteq Below(l, t) /\ C \subseteq Below(l, t)
      /\ Below(l, t) = {t} \union Below(l, y) \union C
      /\ Ordered(l, k, y) /\ \A n \in Below(l, y) : Before(d, k[n], k[t])
      /\ t \notin Below(l, y) /\ Below(l, y) \intersect C = {}
  BY Parts
<1>3. /\ Ordered(l, k, l[o][t]) /\ \A n \in C : Before(o, k[n], k[t])
      /\ t \notin C /\ l[o][t] \in Pointers
  BY <1>1, Parts
<1>4. \A n \in Below(l, y) : k[n] \in Int
  BY <1>2
<1>5. /\ l[d][y] \in Pointers /\ y \in Below(l, y) /\ A \subseteq Below(l, y)
      /\ Below(l, y) = {y} \union A \union B
      /\ Ordered(l, k, l[d][y]) /\ \A n \in A : Before(d, k[n], k[y])
      /\ y \notin A
  BY <1>2, <1>4, Parts
<1>6. /\ l[o][y] \in Pointers /\ B \subseteq Below(l, y)
      /\ Ordered(l, k, l[o][y]) /\ \A n \in B : Before(o, k[n], k[y])
      /\ y \notin B
  BY <1>1, <1>2, <1>4, Parts
<1>7. A \subseteq Nodes /\ B \subseteq Nodes /\ C \subseteq Nodes /\ y \notin C /\ y # t
  BY <1>2, <1>5 DEF Below
<1>8. Below(m, l[d][y]) = A /\ Ordered(m, k, l[d][y])
  <2>1. \A n \in A, s \in Sides : m[s][n] = l[s][n]
    BY <1>2, <1>5, <1>7
  <2>2. QED
    BY <1>5, <2>1, SameTree
<1>9. Below(m, l[o][y]) = B /\ Ordered(m, k, l[o][y])
  <2>1. \A n \in B, s \in Sides : m[s][n] = l[s][n]
    BY <1>2, <1>6, <1>7
  <2>2. QED
    BY <1>6, <2>1, SameTree
<1>10. Below(m, l[o][t]) = C /\ Ordered(m, k, l[o][t])
  <2>1. \A n \in C, s \in Sides : m[s][n] = l[s][n]
    BY <1>3, <1>7
  <2>2. QED
    BY <1>3, <2>1, SameTree
<1>11. /\ m[d][t] = l[o][y] /\ m[o][t] = l[o][t]
       /\ m[d][y] = l[d][y] /\ m[o][y] = t
  BY <1>1, <1>7
<1>12. Below(m, t) = {t} \union B \union C
  BY <1>1, <1>9, <1>10, <1>11, BelowIs
<1>13. Ordered(m, k, t)
  <2>1. \A n \in B : Before(d, k[n], k[t])
    BY <1>2, <1>6
  <2>2. QED
    BY <1>1, <1>3, <1>9, <1>10, <1>11, <2>1, OrderedIs
<1>14. Below(m, y) = Below(l, t)
  BY <1>1, <1>2, <1>5, <1>8, <1>11, <1>12, BelowIs
<1>15. \A n \in {t} \union B \union C : Before(o, k[n], k[y])
  <2>1. k[y] \in Int /\ k[t] \in Int /\ Before(o, k[t], k[y])
    BY <1>2, <1>5, Order
  <2>2. \A n \in C : k[n] \in Int
    BY <1>2
  <2>3. QED
    BY <1>1, <1>3, <1>6, <2>1, <2>2, Order
<1>16. Ordered(m, k, y)
  BY <1>1, <1>5, <1>8, <1>11, <1>12, <1>13, <1>15, OrderedIs
<1>17. QED
  BY <1>14, <1>16

\* The root goes below the edge on a side, and what it has there is cut off.
LinkMade(l, m, t, d, e) ==
  \A s \in Sides, n \in Nodes \union {Dummy} :
    m[s][n] = IF s = d /\ n = t THEN Null ELSE IF s = d /\ n = e[d] THEN t ELSE l[s][n]

\* A link leaves the three trees their nodes and their order, with the old root
\* put aside and the subtree at the root.
LEMMA Linked ==
  ASSUME NEW l \in Links, NEW m \in Links, NEW k, NEW c \in Int, NEW t \in Nodes, NEW d \in Sides,
         NEW e, \A s \in Sides : e[s] \in Nodes \union {Dummy},
         Splayed(l, k, c, t, e), Before(d, c, k[t]), LinkMade(l, m, t, d, e)
  PROVE  /\ Ordered(m, k, l[d][t])
         /\ PutAside(m, k, c, l[d][t], d, t)
         /\ PutAside(m, k, c, l[d][t], Other(d), e[Other(d)])
         /\ Three(m, l[d][t]) = Three(l, t)
         /\ Below(m, l[d][t]) = Below(l, l[d][t])
<1> DEFINE o == Other(d)
           q == l[d][t]
           A == Below(l, l[d][Dummy])
           B == Below(l, l[o][Dummy])
           C == Below(l, l[o][t])
           j == [s \in Sides |-> [n \in Nodes \union {Dummy} |->
                  IF s = d /\ n = t THEN Null ELSE l[s][n]]]
<1>0. \A s \in Sides, n \in Nodes \union {Dummy} :
        m[s][n] = IF s = d /\ n = t THEN Null ELSE IF s = d /\ n = e[d] THEN t ELSE l[s][n]
  BY DEF LinkMade
<1> USE <1>0
<1>1. o \in Sides /\ o # d /\ Other(o) = d /\ \A s \in Sides : s = d \/ s = o
  BY SidesAre
<1>2. /\ Ordered(l, k, t)
      /\ PutAside(l, k, c, t, d, e[d]) /\ PutAside(l, k, c, t, o, e[o])
      /\ \A n \in Below(l, t) \union A \union B : k[n] \in Int
  BY <1>1 DEF Splayed, Three
<1>3. /\ q \in Pointers /\ t \in Below(l, t) /\ Below(l, q) \subseteq Below(l, t)
      /\ Below(l, t) = {t} \union Below(l, q) \union C
      /\ Ordered(l, k, q) /\ \A n \in Below(l, q) : Before(d, k[n], k[t])
      /\ t \notin Below(l, q) /\ Below(l, q) \intersect C = {}
  BY <1>2, Parts
<1>4. /\ l[o][t] \in Pointers /\ t \notin C /\ C \subseteq Below(l, t)
      /\ Ordered(l, k, l[o][t]) /\ \A n \in C : Before(o, k[n], k[t])
  BY <1>1, <1>2, Parts
<1>5. A \intersect Below(l, t) = {} /\ B \intersect Below(l, t) = {} /\ A \intersect B = {}
  BY <1>1, <1>2, AsidesApart DEF Splayed, Three
<1>6. /\ A \subseteq Nodes /\ B \subseteq Nodes /\ Below(l, t) \subseteq Nodes
      /\ Dummy \notin Nodes /\ e[d] \in A \union {Dummy} /\ e[o] \in B \union {Dummy}
  BY <1>2, ConstantsAssumption DEF Below, PutAside
<1>7. /\ j \in Links
      /\ \A s \in Sides, n \in Nodes \union {Dummy} :
           j[s][n] = IF s = d /\ n = t THEN Null ELSE l[s][n]
  <2>1. \A s \in Sides, n \in Nodes \union {Dummy} : j[s][n] \in Pointers
    BY DEF Links, Pointers
  <2>2. QED
    BY <2>1 DEF Links
<1> HIDE DEF j
<1>8. Below(j, t) = {t} \union C /\ Ordered(j, k, t)
  <2>1. \A n \in C, s \in Sides : j[s][n] = l[s][n]
    BY <1>4, <1>6, <1>7
  <2>2. Below(j, l[o][t]) = C /\ Ordered(j, k, l[o][t])
    BY <1>4, <1>7, <2>1, SameTree
  <2>3. j[o][t] = l[o][t] /\ j[d][t] = Null
    BY <1>1, <1>7
  <2>4. Below(j, Null) = {}
    BY BelowNull
  <2>5. Ordered(j, k, Null)
    BY <2>4 DEF Ordered
  <2>6. Below(j, t) = {t} \union C
    BY <1>1, <1>7, <2>2, <2>3, <2>4, BelowIs
  <2>7. \A s \in Sides : /\ Ordered(j, k, j[s][t])
                         /\ \A n \in Below(j, j[s][t]) : Before(s, k[n], k[t])
    BY <1>1, <1>4, <2>2, <2>3, <2>4, <2>5
  <2>8. QED
    BY <1>7, <2>6, <2>7, OrderedIs
<1>9. PutAside(j, k, c, t, d, e[d]) /\ Below(j, j[d][Dummy]) = A
  <2>1. \A n \in A \union {Dummy} : j[d][n] = l[d][n]
    BY <1>3, <1>5, <1>6, <1>7
  <2>2. \A n \in A, s \in Sides : j[s][n] = l[s][n]
    BY <1>3, <1>5, <1>6, <1>7
  <2>3. Below(j, t) \subseteq Below(l, t)
    BY <1>3, <1>8
  <2>4. j \in Links /\ e[d] \in Nodes \union {Dummy}
    BY <1>7
  <2>5. PutAside(l, k, c, t, d, e[d])
    BY <1>2
  <2>6. AsideSame(l, j, d)
    BY <2>1, <2>2 DEF AsideSame
  <2>7. QED
    BY <2>3, <2>4, <2>5, <2>6, StillAside
<1>10. Below(m, m[d][Dummy]) = A \union {t} \union C /\ Ordered(m, k, m[d][Dummy])
  <2>1. t # e[d]
    BY <1>3, <1>5, <1>6
  <2>2. \A s \in Sides, n \in Nodes \union {Dummy} :
          m[s][n] = IF s = d /\ n = e[d] THEN t ELSE j[s][n]
    BY <1>7, <2>1
  <2>3. \A n \in Below(j, t) \union Below(j, j[d][Dummy]) : k[n] \in Int
    BY <1>2, <1>3, <1>8, <1>9
  <2>4. t \in Pointers
    BY DEF Pointers
  <2>5. Below(m, m[d][Dummy]) = A \union Below(j, t) /\ Ordered(m, k, m[d][Dummy])
    BY <1>7, <1>8, <1>9, <2>2, <2>3, <2>4, HangAside
  <2>6. QED
    BY <1>8, <2>5
<1>11. Below(m, q) = Below(l, q) /\ Ordered(m, k, q)
  <2>1. \A n \in Below(l, q), s \in Sides : m[s][n] = l[s][n]
    BY <1>3, <1>5, <1>6
  <2>2. QED
    BY <1>3, <2>1, SameTree
<1>12. PutAside(m, k, c, q, d, t)
  <2> DEFINE S == A \union {t} \union C
  <2>1. k[t] \in Int /\ \A n \in Below(l, q) \union C \union A : k[n] \in Int
    BY <1>2, <1>3
  <2>2. \A n \in C : Before(d, k[t], k[n])
    BY <1>4, <2>1, Order
  <2>3. \A n \in A : Before(d, k[t], k[n]) /\ Before(d, c, k[n])
    BY <1>2, <1>3 DEF PutAside
  <2>4. \A n \in S : Before(d, c, k[n])
    BY <2>1, <2>2, <2>3, Order
  <2>5. \A n \in S, b \in Below(l, q) : Before(d, k[b], k[n])
    BY <1>3, <2>1, <2>2, <2>3, Order
  <2>6. m[d][t] = Null /\ t \in S /\ \A n \in S \ {t} : Before(d, k[t], k[n])
    BY <2>2, <2>3
  <2>7. QED
    BY <1>10, <1>11, <2>4, <2>5, <2>6 DEF PutAside
<1>13. PutAside(m, k, c, q, o, e[o]) /\ Below(m, m[o][Dummy]) = B
  <2>1. \A n \in B \union {Dummy} : m[o][n] = l[o][n]
    BY <1>1, <1>6
  <2>2. \A n \in B, s \in Sides : m[s][n] = l[s][n]
    BY <1>3, <1>5, <1>6
  <2>3. Below(m, q) \subseteq Below(l, t)
    BY <1>3, <1>11
  <2>4. PutAside(l, k, c, t, o, e[o]) /\ e[o] \in Nodes \union {Dummy} /\ o \in Sides
    BY <1>1, <1>2
  <2>5. AsideSame(l, m, o)
    BY <2>1, <2>2 DEF AsideSame
  <2> HIDE DEF o, q
  <2>6. QED
    BY <2>3, <2>4, <2>5, StillAside
<1>14. Three(m, q) = Three(l, t)
  <2>1. Three(m, q) = Below(m, q) \union Below(m, m[d][Dummy]) \union Below(m, m[o][Dummy])
    BY <1>1 DEF Three
  <2>2. Three(l, t) = Below(l, t) \union A \union B
    BY <1>1 DEF Three
  <2>3. QED
    BY <1>3, <1>10, <1>11, <1>13, <2>1, <2>2
<1>15. QED
  BY <1>11, <1>12, <1>13, <1>14

\* Assembled, the three trees are one, with the key at its root or next to it.
LEMMA Assembled ==
  ASSUME NEW l \in Links, NEW m \in Links, NEW k, NEW c \in Int, NEW t \in Nodes,
         NEW e, \A s \in Sides : e[s] \in Nodes \union {Dummy},
         Splayed(l, k, c, t, e),
         \A d \in Sides : Before(d, c, k[t]) => l[d][t] = Null,
         \A s \in Sides, n \in Nodes :
           m[s][n] = IF n = t THEN IF e[Other(s)] = Dummy THEN l[s][t] ELSE l[Other(s)][Dummy]
                     ELSE IF n = e[s] THEN l[Other(s)][t]
                     ELSE l[s][n]
  PROVE  /\ Below(m, t) = Three(l, t)
         /\ Ordered(m, k, t)
         /\ \A d \in Sides : Before(d, c, k[t]) => \A n \in Below(m, m[d][t]) : Before(d, k[n], c)
<1>1. ASSUME NEW d \in Sides
      PROVE  /\ Below(m, m[Other(d)][t]) = Below(l, l[d][Dummy]) \union Below(l, l[Other(d)][t])
             /\ Ordered(m, k, m[Other(d)][t])
             /\ \A n \in Below(m, m[Other(d)][t]) : Before(Other(d), k[n], k[t])
             /\ Before(Other(d), c, k[t]) =>
                  \A n \in Below(m, m[Other(d)][t]) : Before(Other(d), k[n], c)
  <2> DEFINE o == Other(d)
             A == Below(l, l[d][Dummy])
             B == Below(l, l[o][Dummy])
             x == l[o][t]
             g == [s \in Sides |-> [n \in Nodes \union {Dummy} |->
                    IF s = d /\ n = e[d] THEN x ELSE l[s][n]]]
  <2>1. o \in Sides /\ o # d /\ Other(o) = d /\ \A s \in Sides : s = d \/ s = o
    BY SidesAre
  <2>2. /\ Ordered(l, k, t)
        /\ PutAside(l, k, c, t, d, e[d]) /\ PutAside(l, k, c, t, o, e[o])
        /\ \A n \in Below(l, t) \union A \union B : k[n] \in Int
    BY <2>1 DEF Splayed, Three
  <2>3. /\ x \in Pointers /\ t \in Below(l, t) /\ Below(l, x) \subseteq Below(l, t)
        /\ Ordered(l, k, x) /\ \A n \in Below(l, x) : Before(o, k[n], k[t])
        /\ t \notin Below(l, x)
    BY <2>1, <2>2, Parts
  <2>4. A \intersect Below(l, t) = {} /\ B \intersect Below(l, t) = {} /\ A \intersect B = {}
    BY <2>1, <2>2, AsidesApart DEF Splayed, Three
  <2>5. /\ A \subseteq Nodes /\ B \subseteq Nodes /\ Below(l, t) \subseteq Nodes
        /\ Dummy \notin Nodes /\ e[d] \in A \union {Dummy} /\ e[o] \in B \union {Dummy}
    BY <2>2, ConstantsAssumption DEF Below, PutAside
  <2>6. /\ g \in Links
        /\ \A s \in Sides, n \in Nodes \union {Dummy} :
             g[s][n] = IF s = d /\ n = e[d] THEN x ELSE l[s][n]
    <3>1. \A s \in Sides, n \in Nodes \union {Dummy} : g[s][n] \in Pointers
      BY <2>3 DEF Links
    <3>2. QED
      BY <3>1 DEF Links
  <2> HIDE DEF g
  <2>7. Below(g, g[d][Dummy]) = A \union Below(l, x) /\ Ordered(g, k, g[d][Dummy])
    <3>1. \A n \in Below(l, t) \union Below(l, l[d][Dummy]) : k[n] \in Int
      BY <2>2
    <3>2. t \in Pointers /\ e[d] \in Nodes \union {Dummy}
      BY DEF Pointers
    <3>3. QED
      BY <2>2, <2>3, <2>6, <3>1, <3>2, HangAside
  <2>8. g[d][Dummy] \in Pointers /\ m[o][t] = g[d][Dummy]
    BY <2>1, <2>6 DEF Links
  <2>9. Below(m, g[d][Dummy]) = A \union Below(l, x) /\ Ordered(m, k, g[d][Dummy])
    <3>1. \A n \in A \union Below(l, x), s \in Sides : m[s][n] = g[s][n]
      BY <2>1, <2>3, <2>4, <2>5, <2>6
    <3>2. QED
      BY <2>6, <2>7, <2>8, <3>1, SameTree
  <2>10. \A n \in A : Before(o, k[n], k[t]) /\ Before(o, k[n], c)
    <3>1. \A n \in A : Before(d, c, k[n]) /\ Before(d, k[t], k[n])
      BY <2>2, <2>3 DEF PutAside
    <3>2. k[t] \in Int /\ \A n \in A : k[n] \in Int
      BY <2>2, <2>3
    <3>3. QED
      BY <3>1, <3>2, Order
  <2>11. Before(o, c, k[t]) => Below(l, x) = {}
    BY <2>1, BelowNull
  <2>12. QED
    BY <2>3, <2>8, <2>9, <2>10, <2>11
<1>2. \A s \in Sides :
        /\ Below(m, m[s][t]) = Below(l, l[Other(s)][Dummy]) \union Below(l, l[s][t])
        /\ Ordered(m, k, m[s][t])
        /\ \A n \in Below(m, m[s][t]) : Before(s, k[n], k[t])
        /\ Before(s, c, k[t]) => \A n \in Below(m, m[s][t]) : Before(s, k[n], c)
  BY <1>1, SidesAre
<1>3. Below(m, t) = Three(l, t)
  <2>1. \A n : n \in Below(m, t) <=> n = t \/ \E s \in Sides : n \in Below(m, m[s][t])
    BY BelowIs
  <2>2. \A n : n \in Below(l, t) <=> n = t \/ \E s \in Sides : n \in Below(l, l[s][t])
    BY BelowIs
  <2>3. \A n : n \in Below(m, t) <=>
          n \in Below(l, t) \/ \E s \in Sides : n \in Below(l, l[s][Dummy])
    <3>1. \A s \in Sides : Other(s) \in Sides /\ Other(Other(s)) = s
      BY SidesAre
    <3>2. ASSUME NEW n \in Below(m, t)
          PROVE  n \in Below(l, t) \/ \E s \in Sides : n \in Below(l, l[s][Dummy])
      <4>1. CASE n = t
        BY <2>2, <4>1
      <4>2. ASSUME NEW s \in Sides, n \in Below(m, m[s][t])
            PROVE  n \in Below(l, l[Other(s)][Dummy]) \/ n \in Below(l, t)
        <5>1. n \in Below(l, l[Other(s)][Dummy]) \union Below(l, l[s][t])
          BY <1>2, <4>2
        <5>2. QED
          BY <2>2, <5>1
      <4>3. QED
        BY <2>1, <3>1, <4>1, <4>2
    <3>3. ASSUME NEW n \in Below(l, t)
          PROVE  n \in Below(m, t)
      <4>1. CASE n = t
        BY <2>1, <4>1
      <4>2. ASSUME NEW s \in Sides, n \in Below(l, l[s][t])
            PROVE  n \in Below(m, t)
        <5>1. n \in Below(m, m[s][t])
          BY <1>2, <4>2
        <5>2. QED
          BY <2>1, <5>1
      <4>3. QED
        BY <2>2, <4>1, <4>2
    <3>4. ASSUME NEW s \in Sides, NEW n \in Below(l, l[s][Dummy])
          PROVE  n \in Below(m, t)
      <4>1. n \in Below(m, m[Other(s)][t])
        BY <1>1
      <4>2. QED
        BY <2>1, <3>1, <4>1
    <3>5. QED
      BY <3>2, <3>3, <3>4
  <2>4. QED
    BY <2>3 DEF Three
<1>4. Ordered(m, k, t)
  BY <1>2, OrderedIs
<1>5. QED
  BY <1>2, <1>3, <1>4

------------------------------------------------------------------------------
(* Types.                                                                  *)

\* An operation under way has a key.
LEMMA CallHasKey ==
  ASSUME TypeOK, call.op # "none"
  PROVE  /\ call \in Requests /\ call.key \in Keys /\ call.key \in Int
         /\ call.val \in Values \union {None}
<1>1. call \in Requests
  BY DEF TypeOK, NoCall
<1>2. QED
  BY <1>1, ConstantsAssumption DEF Requests

\* Changing one link, or two.
LEMMA LinkSet ==
  ASSUME NEW l \in Links, NEW d \in Sides, NEW n, NEW x \in Pointers
  PROVE  /\ [l EXCEPT ![d][n] = x] \in Links
         /\ \A s \in Sides, b \in Nodes \union {Dummy} :
              [l EXCEPT ![d][n] = x][s][b] = IF s = d /\ b = n THEN x ELSE l[s][b]
<1>1. \A s \in Sides : l[s] \in [Nodes \union {Dummy} -> Pointers]
  BY DEF Links
<1>2. [l[d] EXCEPT ![n] = x] \in [Nodes \union {Dummy} -> Pointers]
  BY <1>1
<1>3. [l EXCEPT ![d][n] = x] = [s \in Sides |-> IF s = d THEN [l[d] EXCEPT ![n] = x] ELSE l[s]]
  BY DEF Links
<1>4. QED
  BY <1>1, <1>2, <1>3 DEF Links

LEMMA TwoLinksSet ==
  ASSUME NEW l \in Links, NEW d \in Sides, NEW n, NEW x \in Pointers,
         NEW e \in Sides, NEW i, NEW y \in Pointers
  PROVE  /\ [l EXCEPT ![d][n] = x, ![e][i] = y] \in Links
         /\ \A s \in Sides, b \in Nodes \union {Dummy} :
              [l EXCEPT ![d][n] = x, ![e][i] = y][s][b] =
                IF s = e /\ b = i THEN y ELSE IF s = d /\ b = n THEN x ELSE l[s][b]
<1> DEFINE m == [l EXCEPT ![d][n] = x]
           z == [l EXCEPT ![d][n] = x, ![e][i] = y]
<1>1. m \in Links /\ \A s \in Sides, b \in Nodes \union {Dummy} :
                        m[s][b] = IF s = d /\ b = n THEN x ELSE l[s][b]
  BY LinkSet
<1>2. z = [m EXCEPT ![e][i] = y]
  OBVIOUS
<1> HIDE DEF m, z
<1>3. /\ [m EXCEPT ![e][i] = y] \in Links
      /\ \A s \in Sides, b \in Nodes \union {Dummy} :
           [m EXCEPT ![e][i] = y][s][b] = IF s = e /\ b = i THEN y ELSE m[s][b]
  BY <1>1, LinkSet
<1>4. /\ z \in Links
      /\ \A s \in Sides, b \in Nodes \union {Dummy} :
           z[s][b] = IF s = e /\ b = i THEN y ELSE IF s = d /\ b = n THEN x ELSE l[s][b]
  BY <1>1, <1>2, <1>3
<1>5. QED
  BY <1>4 DEF z

\* The types of the variables are invariant.
LEMMA TypesStay ==
  ASSUME IInv, [Next]_vars
  PROVE  TypeOK'
<1> DEFINE D == Nodes \union {Dummy}
<1> USE ConstantsAssumption
<1>0. TypeOK /\ (pc \in {"splay", "rotated"} => top \in Nodes) /\ (call.op = "join" => root \in Nodes)
  BY DEF IInv, SplayInv, JoinInv, TypeOK, Pointers
<1> USE <1>0
<1>1. /\ Null \in Pointers /\ Nodes \subseteq Pointers /\ \A q \in Pointers : q # Null => q \in Nodes
      /\ child \in Links /\ Links = [Sides -> [D -> Pointers]] /\ NoEdge \in [Sides -> D]
      /\ \A s \in Sides : child[s] \in [D -> Pointers] /\ Other(s) \in Sides
  BY SidesAre DEF TypeOK, Pointers, NoEdge, Links
<1>2. ASSUME NEW k \in Keys, NEW op \in {"lookup", "insert", "delete"},
             NEW v \in Values \union {None}, Begin(op, k, v)
      PROVE  TypeOK'
  <2>1. call' \in Requests
    BY <1>2 DEF Begin, Requests
  <2>2. QED
    BY <1>2, <2>1 DEF Begin, Splay, TypeOK, nodeVars
<1>3. ASSUME NEW d \in Sides, Rotate(d) PROVE TypeOK'
  <2>1. child[d][top] \in Nodes /\ top \in Nodes
    BY <1>1, <1>3 DEF Rotate, Toward
  <2>2. child' \in [Sides -> [D -> Pointers]]
    <3> DEFINE yy == child[d][top]
    <3>1. child' = [child EXCEPT ![d][top] = child[Other(d)][yy], ![Other(d)][yy] = top]
      BY <1>3 DEF Rotate
    <3>2. child[Other(d)][yy] \in Pointers /\ top \in Pointers
      BY <1>1, <2>1
    <3> HIDE DEF yy
    <3>3. QED
      BY <1>1, <3>1, <3>2, TwoLinksSet
  <2>3. QED
    BY <1>1, <1>3, <2>1, <2>2 DEF Rotate, TypeOK, nodeVars
<1>4. ASSUME NEW d \in Sides, Link(d) PROVE TypeOK'
  <2>1. child[d][top] \in Nodes /\ top \in D
    BY <1>1, <1>4 DEF Link, Toward
  <2>2. top \in Pointers
    BY DEF TypeOK
  <2>3. child' \in [Sides -> [D -> Pointers]]
    BY <1>1, <1>4, <2>2, LinkSet DEF Link
  <2>4. edge' \in [Sides -> D]
    BY <1>4, <2>1 DEF Link, TypeOK
  <2>5. QED
    BY <1>1, <1>4, <2>1, <2>3, <2>4 DEF Link, TypeOK, nodeVars
<1>5. CASE Assemble
  <2>1. child' \in [Sides -> [D -> Pointers]]
    <3> DEFINE hung == [d \in Sides |-> [child[d] EXCEPT ![edge[d]] = child[Other(d)][top]]]
    <3>1. top \in Nodes
      BY <1>5 DEF Assemble
    <3>2. ASSUME NEW d \in Sides PROVE hung[d] \in [D -> Pointers]
      <4>1. child[d] \in [D -> Pointers] /\ child[Other(d)][top] \in Pointers
        <5>1. Other(d) \in Sides /\ top \in D
          BY <1>1, <3>1
        <5>2. child[d] \in [D -> Pointers] /\ child[Other(d)] \in [D -> Pointers]
          BY <1>1, <5>1
        <5>3. QED
          BY <5>1, <5>2
      <4>2. hung[d] = [child[d] EXCEPT ![edge[d]] = child[Other(d)][top]]
        OBVIOUS
      <4>3. QED
        BY <4>1, <4>2
    <3>3. child' = [d \in Sides |-> [hung[d] EXCEPT ![top] = hung[Other(d)][Dummy], ![Dummy] = Null]]
      BY <1>5 DEF Assemble
    <3> HIDE DEF hung
    <3>4. \A d \in Sides : hung[Other(d)][Dummy] \in Pointers
      BY <1>1, <3>2
    <3>5. \A d \in Sides :
            [hung[d] EXCEPT ![top] = hung[Other(d)][Dummy], ![Dummy] = Null] \in [D -> Pointers]
      BY <1>1, <3>2, <3>4
    <3>6. QED
      BY <3>3, <3>5
  <2>2. QED
    BY <1>1, <1>5, <2>1 DEF Assemble, TypeOK, nodeVars
<1>6. CASE Lookup
  <2>1. Found => top \in Nodes
    BY <1>1 DEF Found, TypeOK
  <2>2. answer' \in Values \union {None}
    BY <1>6, <2>1 DEF Lookup, TypeOK
  <2>3. QED
    BY <1>1, <1>6, <2>2 DEF Lookup, Return, TypeOK, nodeVars
<1>7. CASE Skip
  BY <1>1, <1>7 DEF Skip, Return, TypeOK, nodeVars
<1>8. ASSUME NEW n \in Nodes, New(n), At("insert")
      PROVE  /\ key' \in [Nodes -> Keys \union {None}]
             /\ val' \in [Nodes -> Values \union {None}]
             /\ used' \subseteq Nodes
  <2>1. call.key \in Keys /\ call.val \in Values \union {None}
    BY <1>8, CallHasKey DEF At
  <2>2. QED
    BY <1>8, <2>1 DEF New, TypeOK
<1>9. CASE InsertFirst
  BY <1>1, <1>8, <1>9 DEF InsertFirst, Return, TypeOK
<1>10. ASSUME NEW d \in Sides, InsertRoot(d) PROVE TypeOK'
  <2>1. PICK n \in Nodes :
          /\ New(n)
          /\ child' = [child EXCEPT ![d][n] = child[d][top], ![Other(d)][n] = top, ![d][top] = Null]
          /\ root' = n
    BY <1>10 DEF InsertRoot
  <2>2. top \in Nodes
    BY <1>1, <1>10 DEF InsertRoot, TypeOK
  <2>3. child' \in [Sides -> [D -> Pointers]]
    <3> DEFINE m == [child EXCEPT ![d][n] = child[d][top], ![Other(d)][n] = top]
    <3>1. child[d][top] \in Pointers /\ top \in Pointers /\ Other(d) \in Sides
      BY <1>1, <2>2
    <3>2. m \in Links
      BY <1>1, <3>1, TwoLinksSet
    <3>3. child' = [m EXCEPT ![d][top] = Null]
      BY <2>1
    <3> HIDE DEF m
    <3>4. QED
      BY <1>1, <3>2, <3>3, LinkSet
  <2>4. At("insert")
    BY <1>10 DEF InsertRoot
  <2>5. QED
    BY <1>1, <1>8, <1>10, <2>1, <2>3, <2>4 DEF InsertRoot, Return, TypeOK
<1>11. ASSUME NEW n \in Nodes, Discard(n)
       PROVE  /\ key' \in [Nodes -> Keys \union {None}]
              /\ val' \in [Nodes -> Values \union {None}]
              /\ used' \subseteq Nodes
  BY <1>11 DEF Discard, TypeOK
<1>12. CASE DeleteRoot
  <2>1. top \in Nodes
    BY <1>1, <1>12 DEF DeleteRoot, Found, TypeOK
  <2>2. child' \in [Sides -> [D -> Pointers]] /\ root' \in Pointers
    BY <1>1, <1>12, <2>1, LinkSet DEF DeleteRoot, Sides
  <2>3. Discard(top)
    BY <1>12 DEF DeleteRoot
  <2>4. QED
    BY <1>1, <1>11, <1>12, <2>1, <2>2, <2>3 DEF DeleteRoot, Return, TypeOK
<1>13. CASE SplayLeft
  <2>1. top \in Nodes /\ child["left"][top] \in Pointers
    BY <1>1, <1>13 DEF SplayLeft, Found, TypeOK, Sides
  <2>2. call' \in Requests
    <3>1. call \in Requests
      BY <1>13, CallHasKey DEF SplayLeft, At
    <3>2. QED
      BY <1>13, <3>1 DEF SplayLeft, Requests
  <2>3. QED
    BY <1>1, <1>13, <2>1, <2>2 DEF SplayLeft, Splay, TypeOK, nodeVars
<1>14. CASE Join
  <2>1. child' \in [Sides -> [D -> Pointers]]
    <3>1. root \in Nodes
      BY <1>14 DEF Join, At
    <3>2. QED
      BY <1>1, <1>14, <3>1 DEF Join
  <2>2. QED
    BY <1>1, <1>14, <2>1 DEF Join, Discard, Return, TypeOK
<1>15. CASE UNCHANGED vars
  BY <1>15 DEF vars, nodeVars, TypeOK
<1>16. QED
  BY <1>2, <1>3, <1>4, <1>5, <1>6, <1>7, <1>9, <1>10, <1>12, <1>13, <1>14, <1>15 DEF Next

------------------------------------------------------------------------------
(* The links in a state.                                                   *)

CutOff(l, e) == [d \in Sides |-> [l[d] EXCEPT ![e[d]] = Null]]

\* What the links are without those at the edges.
LEMMA CutIs ==
  ASSUME NEW l \in Links, NEW e \in [Sides -> Nodes \union {Dummy}]
  PROVE  /\ CutOff(l, e) \in Links
         /\ \A s \in Sides, n \in Nodes \union {Dummy} :
              CutOff(l, e)[s][n] = IF n = e[s] THEN Null ELSE l[s][n]
<1>1. \A s \in Sides : l[s] \in [Nodes \union {Dummy} -> Pointers]
  BY DEF Links
<1>2. Null \in Pointers
  BY DEF Pointers
<1>3. \A s \in Sides : [l[s] EXCEPT ![e[s]] = Null] \in [Nodes \union {Dummy} -> Pointers]
  BY <1>1, <1>2
<1>4. CutOff(l, e) \in Links
  BY <1>3 DEF CutOff, Links
<1>5. ASSUME NEW s \in Sides, NEW n \in Nodes \union {Dummy}
      PROVE  CutOff(l, e)[s][n] = IF n = e[s] THEN Null ELSE l[s][n]
  BY <1>1 DEF CutOff
<1>6. QED
  BY <1>4, <1>5

\* The links of the nodes are all that their trees depend on.
LEMMA SameNodes ==
  ASSUME NEW l \in Links, NEW m \in Links, NEW p \in Pointers,
         \A s \in Sides, n \in Nodes : m[s][n] = l[s][n]
  PROVE  Below(m, p) = Below(l, p) /\ \A k : Ordered(m, k, p) <=> Ordered(l, k, p)
<1>1. Below(l, p) \in SUBSET Nodes /\ Below(m, p) \in SUBSET Nodes
  BY BelowClosed
<1>2. Below(m, p) = Below(l, p) /\ \A k : Ordered(l, k, p) => Ordered(m, k, p)
  BY <1>1, SameTree
<1>3. \A k : Ordered(m, k, p) => Ordered(l, k, p)
  BY <1>1, SameTree
<1>4. QED
  BY <1>2, <1>3

\* With no edge the links are those of the nodes.
LEMMA NoEdgeSame ==
  ASSUME NEW l \in Links, NEW p \in Pointers
  PROVE  /\ Below(CutOff(l, NoEdge), p) = Below(l, p)
         /\ \A k : Ordered(CutOff(l, NoEdge), k, p) <=> Ordered(l, k, p)
<1>1. NoEdge \in [Sides -> Nodes \union {Dummy}] /\ \A s \in Sides : NoEdge[s] = Dummy
  BY DEF NoEdge
<1>2. /\ CutOff(l, NoEdge) \in Links
      /\ \A s \in Sides, n \in Nodes : CutOff(l, NoEdge)[s][n] = l[s][n]
  BY <1>1, CutIs, ConstantsAssumption
<1>3. QED
  BY <1>2, SameNodes

\* With no edge nothing is put aside.
LEMMA NothingAside ==
  ASSUME NEW l \in Links, NEW k, NEW c, NEW t, NEW d \in Sides
  PROVE  LET m == CutOff(l, NoEdge)
         IN  PutAside(m, k, c, t, d, Dummy) /\ Below(m, m[d][Dummy]) = {}
<1> DEFINE m == CutOff(l, NoEdge)
<1>1. NoEdge \in [Sides -> Nodes \union {Dummy}] /\ \A s \in Sides : NoEdge[s] = Dummy
  BY DEF NoEdge
<1>2. m[d][Dummy] = Null
  BY <1>1, CutIs
<1>3. Below(m, m[d][Dummy]) = {}
  BY <1>2, BelowNull
<1>4. Ordered(m, k, m[d][Dummy])
  BY <1>3 DEF Ordered
<1>5. QED
  BY <1>2, <1>3, <1>4 DEF PutAside

\* What holds in every state: the links are typed, the nodes that are used have
\* keys to compare.
LEMMA StateFacts ==
  ASSUME TypeOK, FieldsInv
  PROVE  /\ child \in Links /\ edge \in [Sides -> Nodes \union {Dummy}]
         /\ Cut = CutOff(child, edge) /\ Cut \in Links
         /\ \A s \in Sides, n \in Nodes \union {Dummy} :
              Cut[s][n] = IF n = edge[s] THEN Null ELSE child[s][n]
         /\ used \subseteq Nodes /\ \A n \in used : key[n] \in Keys /\ key[n] \in Int
         /\ (pc # "idle" => call \in Requests /\ call.key \in Keys /\ call.key \in Int)
<1>1. child \in Links /\ edge \in [Sides -> Nodes \union {Dummy}] /\ Cut = CutOff(child, edge)
  BY DEF TypeOK, Links, Cut, CutOff
<1>2. /\ Cut \in Links
      /\ \A s \in Sides, n \in Nodes \union {Dummy} :
           Cut[s][n] = IF n = edge[s] THEN Null ELSE child[s][n]
  BY <1>1, CutIs
<1>3. used \subseteq Nodes /\ \A n \in used : key[n] \in Keys /\ key[n] \in Int
  BY ConstantsAssumption DEF TypeOK, FieldsInv
<1>4. pc # "idle" => call \in Requests /\ call.key \in Keys /\ call.key \in Int
  BY ConstantsAssumption DEF TypeOK, FieldsInv, Requests
<1>5. QED
  BY <1>1, <1>2, <1>3, <1>4

\* What holds in the loop.
LEMMA LoopFacts ==
  ASSUME TypeOK, FieldsInv, SplayInv, pc \in {"splay", "rotated"}
  PROVE  /\ top \in Nodes /\ top \in Below(Cut, top) /\ Below(Cut, top) \subseteq used \ Kept
         /\ Three(Cut, top) = used \ Kept
         /\ Splayed(Cut, key, call.key, top, edge)
         /\ \A d \in Sides :
              /\ edge[d] \in (used \ Kept) \union {Dummy}
              /\ edge[d] \in Below(Cut, Cut[d][Dummy]) \union {Dummy}
              /\ \A n \in Below(Cut, top) : n # edge[d] /\ child[d][n] = Cut[d][n]
<1>1. top \in Nodes
  BY DEF TypeOK, SplayInv, Pointers
<1>2. Cut \in Links /\ call.key \in Int /\ used \subseteq Nodes /\ \A n \in used : key[n] \in Int
  BY StateFacts
<1>3. Three(Cut, top) = used \ Kept
  BY DEF SplayInv, Three
<1>4. Splayed(Cut, key, call.key, top, edge)
  BY <1>2, <1>3 DEF SplayInv, Splayed
<1>5. top \in Below(Cut, top)
  BY <1>1, <1>2, BelowIs
<1>6. Below(Cut, top) \subseteq used \ Kept
  BY <1>3 DEF Three
<1>7. ASSUME NEW d \in Sides
      PROVE  /\ edge[d] \in (used \ Kept) \union {Dummy}
             /\ edge[d] \in Below(Cut, Cut[d][Dummy]) \union {Dummy}
             /\ \A n \in Below(Cut, top) : n # edge[d] /\ child[d][n] = Cut[d][n]
  <2>1. edge[d] \in Below(Cut, Cut[d][Dummy]) \union {Dummy}
    BY <1>4 DEF Splayed, PutAside
  <2>2. Below(Cut, Cut[d][Dummy]) \subseteq used \ Kept
    BY <1>3 DEF Three
  <2>3. \A n \in Below(Cut, Cut[d][Dummy]) : n \notin Below(Cut, top)
    BY <1>2, <1>4, AsidesApart DEF Splayed, Three
  <2>4. \A n \in Below(Cut, top) : n \in Nodes /\ n # edge[d]
    BY <1>2, <1>6, <2>1, <2>3, ConstantsAssumption
  <2>5. QED
    BY <2>1, <2>2, <2>4, StateFacts
<1>8. QED
  BY <1>1, <1>3, <1>4, <1>5, <1>6, <1>7

\* What holds when the key is splayed.
LEMMA FinishFacts ==
  ASSUME TypeOK, FieldsInv, FinishInv, pc = "finish"
  PROVE  /\ edge = NoEdge
         /\ Below(child, top) = used \ Kept
         /\ Ordered(child, key, top)
         /\ \A p \in Pointers : /\ Below(Cut, p) = Below(child, p)
                                /\ Ordered(Cut, key, p) <=> Ordered(child, key, p)
         /\ call.op # "join" => Kept = {}
<1>1. edge = NoEdge
  BY DEF FieldsInv
<1>2. \A p \in Pointers : /\ Below(Cut, p) = Below(child, p)
                          /\ Ordered(Cut, key, p) <=> Ordered(child, key, p)
  BY <1>1, StateFacts, NoEdgeSame
<1>3. QED
  BY <1>1, <1>2 DEF FinishInv, Kept

\* Neither in the loop nor after it does what the delete keeps change.
LEMMA KeptStays ==
  ASSUME TypeOK, TypeOK', FieldsInv, JoinInv,
         UNCHANGED <<root, key, used, call>>, top' # Null,
         \A n \in Kept, s \in Sides : Cut'[s][n] = Cut[s][n],
         call.op = "join" => child'["right"][root] = child["right"][root]
  PROVE  JoinInv' /\ Kept' = Kept
<1>1. CASE call.op # "join"
  BY <1>1 DEF JoinInv, Kept
<1>2. CASE call.op = "join"
  <2> DEFINE p == child["right"][root]
  <2>1. Cut \in Links /\ Cut' \in Links
    <3>1. child' \in Links /\ edge' \in [Sides -> Nodes \union {Dummy}] /\ Cut' = CutOff(child', edge')
      BY DEF TypeOK, Links, Cut, CutOff
    <3>2. QED
      BY <3>1, CutIs, StateFacts
  <2>2. p \in Pointers /\ p = child'["right"][root'] /\ call'.op = "join"
    BY <1>2, StateFacts DEF JoinInv, Links, Sides
  <2>3. Below(Cut, p) \subseteq Kept
    BY <1>2 DEF Kept
  <2>4. Ordered(Cut, key, p)
    BY <1>2 DEF JoinInv
  <2>5. \A n \in Below(Cut, p), s \in Sides : Cut'[s][n] = Cut[s][n]
    BY <2>3
  <2>6. Below(Cut', p) = Below(Cut, p) /\ Ordered(Cut', key, p)
    BY <2>1, <2>2, <2>4, <2>5, SameTree
  <2>7. Kept' = Kept
    BY <1>2, <2>2, <2>6 DEF Kept
  <2>8. /\ root' = root /\ key' = key /\ used' = used /\ call' = call
        /\ Below(Cut', child'["right"][root']) = Below(Cut, p)
        /\ Ordered(Cut', key', child'["right"][root'])
    BY <2>2, <2>6
  <2>9. QED
    BY <1>2, <2>7, <2>8 DEF JoinInv
<1>3. QED
  BY <1>1, <1>2

------------------------------------------------------------------------------
(* The steps of the loop.                                                  *)

\* The links as they are after a step.
LEMMA LinksAfter ==
  ASSUME TypeOK'
  PROVE  /\ child' \in Links /\ Cut' \in Links
         /\ \A s \in Sides, n \in Nodes \union {Dummy} :
              Cut'[s][n] = IF n = edge'[s] THEN Null ELSE child'[s][n]
<1>1. child' \in Links /\ edge' \in [Sides -> Nodes \union {Dummy}] /\ Cut' = CutOff(child', edge')
  BY DEF TypeOK, Links, Cut, CutOff
<1>2. QED
  BY <1>1, CutIs

\* What is left of the invariant when the types are known.
Rest == FieldsInv /\ JoinInv /\ SplayInv /\ FinishInv /\ SearchTree

\* A rotation keeps the invariant.
LEMMA RotateStep ==
  ASSUME IInv, TypeOK', NEW d \in Sides, Rotate(d)
  PROVE  Rest'
<1> DEFINE y == child[d][top]
           o == Other(d)
<1> USE DEF IInv
<1>1. /\ top \in Nodes /\ top \in Below(Cut, top) /\ Below(Cut, top) \subseteq used \ Kept
      /\ Three(Cut, top) = used \ Kept
      /\ Splayed(Cut, key, call.key, top, edge)
      /\ \A s \in Sides :
           /\ edge[s] \in Below(Cut, Cut[s][Dummy]) \union {Dummy}
           /\ \A n \in Below(Cut, top) : n # edge[s] /\ child[s][n] = Cut[s][n]
  BY LoopFacts DEF Rotate
<1>2. /\ child \in Links /\ Cut \in Links /\ used \subseteq Nodes
      /\ call.key \in Int /\ \A n \in used : key[n] \in Int
      /\ \A s \in Sides, n \in Nodes \union {Dummy} :
           Cut[s][n] = IF n = edge[s] THEN Null ELSE child[s][n]
  BY StateFacts DEF Rotate
<1>3. /\ o \in Sides /\ o # d /\ Other(o) = d /\ \A s \in Sides : s = d \/ s = o
  BY SidesAre
<1>4. y = Cut[d][top] /\ y \in Nodes /\ y \in Below(Cut, top)
  <2>1. y = Cut[d][top] /\ y # Null
    BY <1>1 DEF Rotate, Toward
  <2>2. y \in Pointers
    BY <1>1, <1>2 DEF Links
  <2>3. y \in Nodes
    BY <2>1, <2>2 DEF Pointers
  <2>4. y \in Below(Cut, y)
    BY <1>2, <2>3, BelowIs
  <2>5. QED
    BY <1>1, <1>2, <2>1, <2>3, <2>4, BelowIs
<1>5. \A s \in Sides, n \in Nodes \union {Dummy} :
        child'[s][n] = IF s = o /\ n = y THEN top
                       ELSE IF s = d /\ n = top THEN child[o][y] ELSE child[s][n]
  <2>1. child' = [child EXCEPT ![d][top] = child[o][y], ![o][y] = top]
    BY DEF Rotate
  <2>2. child[o][y] \in Pointers /\ top \in Pointers
    BY <1>1, <1>2, <1>3, <1>4 DEF Links, Pointers
  <2> HIDE DEF o, y
  <2>3. QED
    BY <1>2, <1>3, <2>1, <2>2 DEF Links
<1>6. /\ edge' = edge /\ used' = used /\ key' = key /\ val' = val /\ call' = call
      /\ root' = root /\ top' = y /\ pc' = "rotated" /\ pc = "splay"
  BY DEF Rotate, nodeVars
<1> HIDE DEF o, y
<1>7. /\ Cut' \in Links
      /\ \A s \in Sides, n \in Nodes \union {Dummy} :
           Cut'[s][n] = IF s = d /\ n = top THEN Cut[o][y]
                        ELSE IF s = o /\ n = y THEN top ELSE Cut[s][n]
  <2>1. /\ Cut' \in Links
        /\ \A s \in Sides, n \in Nodes \union {Dummy} :
             Cut'[s][n] = IF n = edge[s] THEN Null ELSE child'[s][n]
    BY <1>6, LinksAfter
  <2>2. Cut[o][y] = child[o][y]
    BY <1>1, <1>3, <1>4
  <2>3. QED
    BY <1>1, <1>2, <1>3, <1>4, <1>5, <2>1, <2>2
<1>8. Below(Cut', y) = Below(Cut, top) /\ Ordered(Cut', key, y)
  <2>1. Ordered(Cut, key, top) /\ \A n \in Below(Cut, top) : key[n] \in Int
    BY <1>1, <1>2 DEF Splayed
  <2>2. QED
    BY <1>1, <1>2, <1>4, <1>7, <2>1, Rotated DEF o
<1>9. ASSUME NEW s \in Sides
      PROVE  /\ PutAside(Cut', key, call.key, y, s, edge[s])
             /\ Below(Cut', Cut'[s][Dummy]) = Below(Cut, Cut[s][Dummy])
  <2> DEFINE A == Below(Cut, Cut[s][Dummy])
  <2>1. \A n \in A : n \in Nodes /\ n \notin Below(Cut, top)
    <3>1. \A n \in A : n \notin Below(Cut, top)
      BY <1>1, <1>2, AsidesApart DEF Splayed, Three
    <3>2. A \subseteq Nodes
      BY DEF Below
    <3>3. QED
      BY <3>1, <3>2
  <2>2. \A n \in A, i \in Sides : Cut'[i][n] = Cut[i][n]
    BY <1>1, <1>4, <1>7, <2>1
  <2>3. \A n \in A \union {Dummy} : Cut'[s][n] = Cut[s][n]
    BY <1>1, <1>4, <1>7, <2>2, ConstantsAssumption
  <2>4. PutAside(Cut, key, call.key, top, s, edge[s])
    BY <1>1 DEF Splayed
  <2>5. edge[s] \in Nodes \union {Dummy} /\ Below(Cut', y) \subseteq Below(Cut, top)
    BY <1>1, <1>8, <2>1
  <2>6. AsideSame(Cut, Cut', s)
    BY <2>2, <2>3 DEF AsideSame
  <2>7. QED
    BY <1>2, <1>7, <2>4, <2>5, <2>6, StillAside
<1>10. FieldsInv'
  <2>1. \A n \in Nodes \ used, s \in Sides : child'[s][n] = Null
    <3>1. \A n \in Nodes \ used, s \in Sides : child[s][n] = Null
      BY DEF FieldsInv
    <3>2. top \in used /\ y \in used
      BY <1>1, <1>4
    <3>3. QED
      BY <1>5, <3>1, <3>2
  <2>2. QED
    BY <1>6, <2>1 DEF FieldsInv
<1>11. JoinInv' /\ Kept' = Kept
  <2>1. \A n \in Kept : n \in Nodes /\ n # top /\ n # y
    <3>1. Kept \subseteq Nodes
      BY <1>2 DEF Kept, Below, JoinInv
    <3>2. QED
      BY <1>1, <1>4, <3>1
  <2>2. \A n \in Kept, s \in Sides : Cut'[s][n] = Cut[s][n]
    BY <1>7, <2>1
  <2>3. call.op = "join" => child'["right"][root] = child["right"][root]
    <3>1. call.op = "join" => root \in Kept
      BY DEF Kept
    <3>2. QED
      BY <1>5, <2>1, <3>1 DEF Sides
  <2>4. top' # Null
    BY <1>4, <1>6, ConstantsAssumption
  <2>5. QED
    BY <1>6, <2>2, <2>3, <2>4, KeptStays
<1>12. SplayInv'
  <2>1. y # Null
    BY <1>4, ConstantsAssumption
  <2>2. used \ Kept = Below(Cut', y) \union UNION {Below(Cut', Cut'[s][Dummy]) : s \in Sides}
    BY <1>1, <1>8, <1>9 DEF Three
  <2>3. QED
    BY <1>6, <1>8, <1>9, <1>11, <2>1, <2>2 DEF SplayInv
<1>13. FinishInv' /\ SearchTree'
  BY <1>6 DEF FinishInv, SearchTree
<1>14. QED
  BY <1>10, <1>11, <1>12, <1>13 DEF Rest

\* A link keeps the invariant, and its root is not below the next one.
LEMMA LinkStep ==
  ASSUME IInv, TypeOK', NEW d \in Sides, Link(d)
  PROVE  Rest' /\ Below(child, top)' \subseteq Below(child, top) \ {top}
<1> DEFINE q == Cut[d][top]
<1> USE DEF IInv
<1>1. /\ top \in Nodes /\ top \in Below(Cut, top) /\ Below(Cut, top) \subseteq used \ Kept
      /\ Three(Cut, top) = used \ Kept
      /\ Splayed(Cut, key, call.key, top, edge)
      /\ \A s \in Sides :
           /\ edge[s] \in (used \ Kept) \union {Dummy}
           /\ \A n \in Below(Cut, top) : n # edge[s] /\ child[s][n] = Cut[s][n]
  BY LoopFacts DEF Link
<1>2. /\ child \in Links /\ Cut \in Links /\ used \subseteq Nodes
      /\ edge \in [Sides -> Nodes \union {Dummy}]
      /\ call.key \in Int /\ \A n \in used : key[n] \in Int
      /\ \A s \in Sides, n \in Nodes \union {Dummy} :
           Cut[s][n] = IF n = edge[s] THEN Null ELSE child[s][n]
  BY StateFacts, ConstantsAssumption DEF Link, TypeOK, FieldsInv
<1>3. q = child[d][top] /\ q # Null /\ Before(d, call.key, key[top])
  BY <1>1 DEF Link, Toward
<1>4. child' \in Links /\ \A s \in Sides, n \in Nodes \union {Dummy} :
        child'[s][n] = IF s = d /\ n = edge[d] THEN top ELSE child[s][n]
  <2>1. child' = [child EXCEPT ![d][edge[d]] = top] /\ top \in Pointers
    BY <1>1 DEF Link, Pointers
  <2>2. QED
    BY <1>2, <2>1 DEF Links
<1>5. /\ edge' = [edge EXCEPT ![d] = top] /\ used' = used /\ key' = key /\ val' = val
      /\ call' = call /\ root' = root /\ top' = q /\ pc' = "splay" /\ pc \in {"splay", "rotated"}
  BY <1>3 DEF Link, nodeVars
<1>6. /\ edge' \in [Sides -> Nodes \union {Dummy}]
      /\ \A s \in Sides : edge'[s] = IF s = d THEN top ELSE edge[s]
  BY <1>1, <1>2, <1>5
<1> HIDE DEF q
<1>7. /\ Cut' \in Links
      /\ \A s \in Sides, n \in Nodes \union {Dummy} :
           Cut'[s][n] = IF s = d /\ n = top THEN Null
                        ELSE IF s = d /\ n = edge[d] THEN top ELSE Cut[s][n]
  <2>1. /\ Cut' \in Links
        /\ \A s \in Sides, n \in Nodes \union {Dummy} :
             Cut'[s][n] = IF n = edge'[s] THEN Null ELSE child'[s][n]
    BY LinksAfter
  <2>2. child[d][edge[d]] \in Pointers
    BY <1>2 DEF Links
  <2>3. Cut[d][edge[d]] = Null
    BY <1>2
  <2>4. QED
    BY <1>1, <1>2, <1>4, <1>6, <2>1, <2>3
<1>8. /\ Splayed(Cut', key, call.key, q, edge')
      /\ Three(Cut', q) = used \ Kept
      /\ Below(Cut', q) = Below(Cut, q)
  <2> HIDE DEF IInv
  <2>1. Cut \in Links /\ call.key \in Int /\ top \in Nodes /\ Cut' \in Links
    BY <1>1, <1>2, <1>7
  <2>2. Splayed(Cut, key, call.key, top, edge) /\ Before(d, call.key, key[top])
    BY <1>1, <1>3
  <2>3. LinkMade(Cut, Cut', top, d, edge)
    BY <1>7 DEF LinkMade
  <2>4. Three(Cut, top) = used \ Kept
    BY <1>1
  <2>5. /\ Ordered(Cut', key, Cut[d][top])
        /\ PutAside(Cut', key, call.key, Cut[d][top], d, top)
        /\ PutAside(Cut', key, call.key, Cut[d][top], Other(d), edge[Other(d)])
        /\ Three(Cut', Cut[d][top]) = Three(Cut, top)
        /\ Below(Cut', Cut[d][top]) = Below(Cut, Cut[d][top])
    <3>1. \A s \in Sides : edge[s] \in Nodes \union {Dummy}
      BY <1>2
    <3>2. QED
      BY <2>1, <2>2, <2>3, <3>1, Linked
  <2>6. \A s \in Sides : PutAside(Cut', key, call.key, Cut[d][top], s, edge'[s])
    <3>1. edge'[d] = top /\ edge'[Other(d)] = edge[Other(d)]
      BY <1>6, SidesAre
    <3>2. QED
      BY <2>5, <3>1, SidesAre
  <2>7. \A n \in Three(Cut', Cut[d][top]) : key[n] \in Int
    BY <1>2, <2>4, <2>5
  <2>8. QED
    BY <2>4, <2>5, <2>6, <2>7 DEF q, Splayed
<1>9. FieldsInv'
  <2>1. \A n \in Nodes \ used, s \in Sides : child'[s][n] = Null
    <3>1. \A n \in Nodes \ used, s \in Sides : child[s][n] = Null
      BY DEF FieldsInv
    <3>2. QED
      BY <1>1, <1>4, <3>1, ConstantsAssumption
  <2>2. QED
    BY <1>5, <2>1 DEF FieldsInv
<1>10. JoinInv' /\ Kept' = Kept
  <2>1. \A n \in Kept : n \in Nodes /\ n # top /\ n # edge[d]
    <3>1. Kept \subseteq Nodes
      BY <1>2 DEF Kept, Below, JoinInv
    <3>2. QED
      BY <1>1, <3>1, ConstantsAssumption
  <2>2. \A n \in Kept, s \in Sides : Cut'[s][n] = Cut[s][n]
    BY <1>7, <2>1
  <2>3. call.op = "join" => child'["right"][root] = child["right"][root]
    <3>1. call.op = "join" => root \in Kept
      BY DEF Kept
    <3>2. QED
      BY <1>4, <2>1, <3>1 DEF Sides
  <2>4. QED
    BY <1>3, <1>5, <2>2, <2>3, KeptStays
<1>11. SplayInv'
  <2>1. used \ Kept = Below(Cut', q) \union UNION {Below(Cut', Cut'[s][Dummy]) : s \in Sides}
    BY <1>8 DEF Three
  <2>2. QED
    BY <1>3, <1>5, <1>8, <1>10, <2>1 DEF SplayInv, Splayed
<1>12. FinishInv' /\ SearchTree'
  BY <1>5 DEF FinishInv, SearchTree, FieldsInv
<1>13. Below(child', q) \subseteq Below(child, top) \ {top}
  <2>1. /\ q \in Pointers /\ Below(Cut, q) \subseteq Below(Cut, top) /\ top \notin Below(Cut, q)
    <3>1. Ordered(Cut, key, top) /\ \A n \in Below(Cut, top) : key[n] \in Int
      BY <1>1, <1>2 DEF Splayed
    <3>2. QED
      BY <1>1, <1>2, <3>1, Parts DEF q
  <2>2. Below(child, top) = Below(Cut, top)
    BY <1>1, <1>2, SameTree DEF Pointers
  <2>3. \A n \in Below(Cut, q), s \in Sides : child'[s][n] = Cut[s][n]
    <3>1. Below(Cut, q) \subseteq Nodes
      BY DEF Below
    <3>2. QED
      BY <1>1, <1>4, <2>1, <3>1
  <2>4. Below(child', q) = Below(Cut, q)
    BY <1>2, <1>4, <2>1, <2>3, SameTree
  <2>5. QED
    BY <2>1, <2>2, <2>4
<1>14. Below(child, top)' = Below(child', q)
  BY <1>5 DEF Below, Closed
<1>15. QED
  BY <1>9, <1>10, <1>11, <1>12, <1>13, <1>14 DEF Rest

\* The assembly keeps the invariant.
LEMMA AssembleStep ==
  ASSUME IInv, TypeOK', Assemble
  PROVE  Rest'
<1> USE DEF IInv
<1>1. /\ top \in Nodes /\ top \in Below(Cut, top) /\ Below(Cut, top) \subseteq used \ Kept
      /\ Three(Cut, top) = used \ Kept
      /\ Splayed(Cut, key, call.key, top, edge)
      /\ \A s \in Sides :
           /\ edge[s] \in (used \ Kept) \union {Dummy}
           /\ \A n \in Below(Cut, top) : n # edge[s] /\ child[s][n] = Cut[s][n]
  BY LoopFacts DEF Assemble
<1>2. /\ child \in Links /\ Cut \in Links /\ used \subseteq Nodes
      /\ edge \in [Sides -> Nodes \union {Dummy}]
      /\ call.key \in Int /\ \A n \in used : key[n] \in Int
      /\ \A s \in Sides, n \in Nodes \union {Dummy} :
           Cut[s][n] = IF n = edge[s] THEN Null ELSE child[s][n]
  BY StateFacts, ConstantsAssumption DEF Assemble, TypeOK, FieldsInv
<1>3. /\ edge' = NoEdge /\ used' = used /\ key' = key /\ val' = val
      /\ call' = call /\ root' = root /\ top' = top /\ pc' = "finish" /\ pc \in {"splay", "rotated"}
  BY DEF Assemble, nodeVars
<1>4. child' \in Links /\ Cut' = CutOff(child', NoEdge)
  BY <1>3, LinksAfter DEF Cut, CutOff
<1>5. \A s \in Sides, n \in Nodes :
        child'[s][n] = IF n = top THEN IF edge[Other(s)] = Dummy THEN Cut[s][top] ELSE Cut[Other(s)][Dummy]
                       ELSE IF n = edge[s] THEN Cut[Other(s)][top]
                       ELSE Cut[s][n]
  <2> DEFINE hung == [d \in Sides |-> [child[d] EXCEPT ![edge[d]] = child[Other(d)][top]]]
  <2>1. child' = [d \in Sides |-> [hung[d] EXCEPT ![top] = hung[Other(d)][Dummy], ![Dummy] = Null]]
    BY DEF Assemble
  <2>2. ASSUME NEW d \in Sides
        PROVE  /\ hung[d] \in [Nodes \union {Dummy} -> Pointers]
               /\ \A n \in Nodes \union {Dummy} :
                    hung[d][n] = IF n = edge[d] THEN child[Other(d)][top] ELSE child[d][n]
    <3>1. Other(d) \in Sides /\ child[d] \in [Nodes \union {Dummy} -> Pointers]
      BY <1>2, SidesAre DEF Links
    <3>2. child[Other(d)][top] \in Pointers
      BY <1>1, <1>2, <3>1 DEF Links
    <3>3. hung[d] = [child[d] EXCEPT ![edge[d]] = child[Other(d)][top]]
      OBVIOUS
    <3>4. QED
      BY <3>1, <3>2, <3>3
  <2> HIDE DEF hung
  <2> SUFFICES ASSUME NEW s \in Sides, NEW n \in Nodes
               PROVE  child'[s][n] =
                        IF n = top
                          THEN IF edge[Other(s)] = Dummy THEN Cut[s][top] ELSE Cut[Other(s)][Dummy]
                        ELSE IF n = edge[s] THEN Cut[Other(s)][top]
                        ELSE Cut[s][n]
    OBVIOUS
  <2>3. Other(s) \in Sides /\ Other(Other(s)) = s
    BY SidesAre
  <2>4. child'[s][n] = IF n = top THEN hung[Other(s)][Dummy] ELSE hung[s][n]
    BY <1>1, <2>1, <2>2, ConstantsAssumption
  <2>5. hung[Other(s)][Dummy] =
          IF edge[Other(s)] = Dummy THEN Cut[s][top] ELSE Cut[Other(s)][Dummy]
    BY <1>1, <1>2, <2>2, <2>3
  <2>6. hung[s][n] = IF n = edge[s] THEN Cut[Other(s)][top] ELSE Cut[s][n]
    BY <1>1, <1>2, <2>2, <2>3
  <2>7. QED
    BY <2>4, <2>5, <2>6
<1>6. /\ Below(child', top) = used \ Kept
      /\ Ordered(child', key, top)
      /\ \A s \in Sides : Before(s, call.key, key[top]) =>
           \A n \in Below(child', child'[s][top]) : Before(s, key[n], call.key)
  <2>1. \A s \in Sides : Before(s, call.key, key[top]) => Cut[s][top] = Null
    BY <1>1 DEF Assemble, Toward
  <2>2. Cut \in Links /\ child' \in Links /\ call.key \in Int /\ top \in Nodes
    BY <1>1, <1>2, <1>4
  <2>3. Splayed(Cut, key, call.key, top, edge) /\ Three(Cut, top) = used \ Kept
    BY <1>1
  <2>4. \A s \in Sides : edge[s] \in Nodes \union {Dummy}
    BY <1>2
  <2>5. QED
    BY <1>5, <2>1, <2>2, <2>3, <2>4, Assembled
<1>7. FieldsInv'
  <2>1. \A n \in Nodes \ used, s \in Sides : child'[s][n] = Null
    <3>1. \A n \in Nodes \ used, s \in Sides : child[s][n] = Null
      BY DEF FieldsInv
    <3>2. \A n \in Nodes \ used, s \in Sides : n # top /\ n # edge[s] /\ Cut[s][n] = Null
      BY <1>1, <1>2, <3>1, ConstantsAssumption
    <3>3. QED
      BY <1>5, <3>2
  <2>2. QED
    BY <1>3, <2>1 DEF FieldsInv
<1>8. JoinInv' /\ Kept' = Kept
  <2>1. \A n \in Kept : n \in Nodes /\ n # top /\ \A s \in Sides : n # edge[s]
    <3>1. Kept \subseteq Nodes
      BY <1>2 DEF Kept, Below, JoinInv
    <3>2. QED
      BY <1>1, <3>1, ConstantsAssumption
  <2>2. \A n \in Kept, s \in Sides : child'[s][n] = Cut[s][n]
    BY <1>5, <2>1
  <2>3. \A n \in Kept, s \in Sides : Cut'[s][n] = Cut[s][n]
    <3>1. \A s \in Sides, n \in Nodes \union {Dummy} :
            Cut'[s][n] = IF n = NoEdge[s] THEN Null ELSE child'[s][n]
      BY <1>3, LinksAfter
    <3>2. \A s \in Sides : NoEdge[s] = Dummy
      BY DEF NoEdge
    <3>3. QED
      BY <2>1, <2>2, <3>1, <3>2, ConstantsAssumption
  <2>4. call.op = "join" => child'["right"][root] = child["right"][root]
    <3>1. call.op = "join" => root \in Kept
      BY DEF Kept
    <3>2. QED
      BY <1>2, <2>1, <2>2, <3>1 DEF Sides
  <2>5. top' # Null
    BY <1>1, <1>3, ConstantsAssumption
  <2>6. QED
    BY <1>3, <2>3, <2>4, <2>5, KeptStays
<1>9. FinishInv'
  <2>1. Below(child, top)' = used \ Kept
    BY <1>3, <1>6 DEF Below, Closed
  <2>2. QED
    BY <1>3, <1>6, <1>8 DEF FinishInv, Below, Closed, Ordered
<1>10. SplayInv' /\ SearchTree'
  BY <1>3 DEF SplayInv, SearchTree, FieldsInv
<1>11. QED
  BY <1>7, <1>8, <1>9, <1>10 DEF Rest

------------------------------------------------------------------------------
(* The steps of the operations.                                            *)

\* A loop starts with the whole tree to search and nothing put aside.
LEMMA LoopStarts ==
  ASSUME child' \in Links, NEW t \in Nodes, edge' = NoEdge, top' = t,
         Below(child', t) = used' \ Kept', Ordered(child', key', t)
  PROVE  SplayInv'
<1>1. Cut' = CutOff(child', NoEdge) /\ t \in Pointers /\ t # Null
  BY ConstantsAssumption DEF Cut, CutOff, Pointers
<1>2. Below(Cut', t) = Below(child', t) /\ Ordered(Cut', key', t)
  BY <1>1, NoEdgeSame
<1>3. ASSUME NEW d \in Sides
      PROVE  PutAside(Cut', key', call'.key, t, d, edge'[d]) /\ Below(Cut', Cut'[d][Dummy]) = {}
  <2>1. edge'[d] = Dummy
    BY DEF NoEdge
  <2>2. QED
    BY <1>1, <2>1, NothingAside
<1>4. used' \ Kept' = Below(Cut', t) \union UNION {Below(Cut', Cut'[d][Dummy]) : d \in Sides}
  BY <1>2, <1>3
<1>5. QED
  BY <1>1, <1>2, <1>3, <1>4 DEF SplayInv

\* The beginning of an operation keeps the invariant.
LEMMA BeginStep ==
  ASSUME IInv, TypeOK', NEW op \in {"lookup", "insert", "delete"}, NEW k \in Keys,
         NEW v \in Values \union {None}, op = "insert" => v \in Values, Begin(op, k, v)
  PROVE  Rest'
<1> USE DEF IInv
<1>1. /\ child \in Links /\ edge = NoEdge
      /\ Below(child, root) = used /\ Ordered(child, key, root)
  BY StateFacts DEF Begin, SearchTree, FieldsInv
<1>2. /\ call' = [op |-> op, key |-> k, val |-> v] /\ call'.op = op /\ call'.val = v
      /\ call'.op # "join" /\ call' # NoCall
      /\ root' = root /\ child' = child /\ key' = key /\ val' = val /\ used' = used
      /\ edge' = edge /\ top' = root /\ pc' = (IF root = Null THEN "finish" ELSE "splay")
      /\ pc = "idle"
  BY DEF Begin, Splay, NoCall, nodeVars
<1>3. FieldsInv'
  BY <1>1, <1>2 DEF FieldsInv
<1>4. JoinInv' /\ Kept' = {}
  BY <1>2 DEF JoinInv, Kept
<1>5. SplayInv'
  <2>1. CASE root = Null
    BY <1>2, <2>1 DEF SplayInv
  <2>2. CASE root # Null
    <3>1. root \in Nodes
      BY <2>2 DEF TypeOK, Pointers
    <3>2. Below(child', root) = used' \ Kept' /\ Ordered(child', key', root)
      BY <1>1, <1>2, <1>4
    <3>3. QED
      BY <1>1, <1>2, <3>1, <3>2, LoopStarts
  <2>3. QED
    BY <2>1, <2>2
<1>6. FinishInv'
  <2>1. pc' = "finish" => top' = Null /\ Below(child', top') = used' \ Kept' /\ Ordered(child', key', top')
    BY <1>1, <1>2, <1>4
  <2>2. QED
    BY <2>1 DEF FinishInv, Below, Closed, Ordered
<1>7. SearchTree'
  BY <1>2, <1>3 DEF SearchTree, FieldsInv
<1>8. QED
  BY <1>3, <1>4, <1>5, <1>6, <1>7 DEF Rest

\* A return keeps the invariant when it leaves a search tree.
LEMMA ReturnStep ==
  ASSUME Return, edge = NoEdge,
         \A n \in used' : key'[n] \in Keys /\ val'[n] \in Values,
         \A n \in Nodes \ used', d \in Sides : child'[d][n] = Null,
         \A m, n \in used' : key'[m] = key'[n] => m = n,
         Below(child', root') = used', Ordered(child', key', root')
  PROVE  Rest'
<1>1. pc' = "idle" /\ call' = NoCall /\ edge' = NoEdge /\ call'.op = "none"
  BY DEF Return, NoCall
<1>2. FieldsInv' /\ JoinInv' /\ SplayInv' /\ FinishInv'
  BY <1>1 DEF FieldsInv, JoinInv, SplayInv, FinishInv
<1>3. SearchTree'
  BY DEF SearchTree, Below, Closed, Ordered
<1>4. QED
  BY <1>2, <1>3 DEF Rest

\* Neither a lookup nor an operation with nothing to do changes more of the tree
\* than the splay did.
LEMMA LookupStep ==
  ASSUME IInv, TypeOK', Lookup \/ Skip
  PROVE  Rest'
<1> USE DEF IInv
<1>1. /\ pc = "finish" /\ call.op # "join" /\ Return
      /\ root' = top /\ child' = child /\ key' = key /\ val' = val /\ used' = used
  BY DEF Lookup, Skip, At, nodeVars
<1>2. edge = NoEdge /\ Below(child, top) = used /\ Ordered(child, key, top)
  BY <1>1, FinishFacts
<1>3. QED
  BY <1>1, <1>2, ReturnStep DEF FieldsInv

\* When the key is not at the root, all nodes of a subtree lie on its side of
\* the key.
LEMMA NextTo ==
  ASSUME IInv, pc = "finish", top # Null, key[top] # call.key, NEW d \in Sides
  PROVE  /\ top \in Nodes /\ \A n \in Below(child, top) : key[n] \in Int
         /\ \A n \in Below(child, child[d][top]) : Before(d, key[n], call.key)
<1> USE DEF IInv
<1>1. top \in Nodes
  BY DEF TypeOK, Pointers
<1>2. /\ child \in Links /\ Ordered(child, key, top) /\ call.key \in Int
      /\ \A n \in Below(child, top) : key[n] \in Int
  BY StateFacts, FinishFacts
<1>3. /\ Below(child, child[d][top]) \subseteq Below(child, top) /\ top \in Below(child, top)
      /\ \A n \in Below(child, child[d][top]) : Before(d, key[n], key[top])
  BY <1>1, <1>2, Parts
<1>4. CASE Before(d, call.key, key[top])
  BY <1>1, <1>2, <1>4 DEF FinishInv
<1>5. CASE Before(d, key[top], call.key)
  <2> SUFFICES ASSUME NEW n \in Below(child, child[d][top]) PROVE Before(d, key[n], call.key)
    BY <1>1, <1>2
  <2>1. key[top] \in Int /\ key[n] \in Int /\ call.key \in Int
    BY <1>2, <1>3
  <2>2. Before(d, key[n], key[top])
    BY <1>3
  <2>3. QED
    BY <1>5, <2>1, <2>2, Order
<1>6. QED
  BY <1>1, <1>2, <1>3, <1>4, <1>5, Order

\* A key that is not at the root after the splay is nowhere in the tree.
LEMMA NotThere ==
  ASSUME IInv, pc = "finish", call.op # "join", ~Found, NEW n \in used
  PROVE  key[n] # call.key
<1> USE DEF IInv
<1>1. /\ Below(child, top) = used /\ child \in Links /\ call.key \in Int
      /\ \A i \in used : key[i] \in Int
  BY FinishFacts, StateFacts
<1>2. top # Null /\ key[top] # call.key
  BY <1>1, BelowNull DEF Found
<1>3. CASE n = top
  BY <1>2, <1>3
<1>4. ASSUME NEW d \in Sides, n \in Below(child, child[d][top]) PROVE key[n] # call.key
  <2>1. Before(d, key[n], call.key)
    BY <1>2, <1>4, NextTo
  <2>2. QED
    BY <1>1, <2>1, Order
<1>5. top \in Nodes
  BY <1>2 DEF TypeOK, Pointers
<1>6. QED
  BY <1>1, <1>3, <1>4, <1>5, BelowIs

\* The first node of a tree.
LEMMA InsertFirstStep ==
  ASSUME IInv, TypeOK', InsertFirst
  PROVE  Rest'
<1> USE DEF IInv
<1>1. PICK n \in Nodes : New(n) /\ root' = n
  BY DEF InsertFirst
<1>2. /\ pc = "finish" /\ call.op = "insert" /\ top = Null /\ Return /\ child' = child
  BY DEF InsertFirst, At
<1>3. child \in Links /\ edge = NoEdge /\ used = {} /\ call.key \in Keys /\ call.val \in Values
  BY <1>2, BelowNull, FinishFacts, StateFacts DEF FieldsInv
<1>4. used' = {n} /\ key'[n] = call.key /\ val'[n] = call.val
  BY <1>1, <1>3 DEF New, TypeOK
<1>5. \A d \in Sides : child[d][n] = Null
  BY <1>3 DEF FieldsInv
<1>6. Below(child, n) = {n}
  BY <1>3, <1>5, BelowIs, BelowNull
<1>7. Ordered(child, key', n)
  <2>1. Below(child, Null) = {} /\ Ordered(child, key', Null)
    BY BelowNull DEF Ordered
  <2>2. QED
    BY <1>3, <1>5, <2>1, OrderedIs
<1>8. \A i \in Nodes \ used', d \in Sides : child'[d][i] = Null
  BY <1>2, <1>3 DEF FieldsInv
<1>9. QED
  BY <1>1, <1>2, <1>3, <1>4, <1>6, <1>7, <1>8, ReturnStep

\* A new root between the old one and its subtree on a side.
LEMMA InsertRootStep ==
  ASSUME IInv, TypeOK', NEW d \in Sides, InsertRoot(d)
  PROVE  Rest'
<1> DEFINE o == Other(d)
           x == child[d][top]
           z == child[o][top]
<1> USE DEF IInv
<1>1. PICK n \in Nodes :
        /\ New(n)
        /\ child' = [child EXCEPT ![d][n] = child[d][top], ![Other(d)][n] = top, ![d][top] = Null]
        /\ root' = n
  BY DEF InsertRoot
<1>2. /\ pc = "finish" /\ call.op = "insert" /\ call.op # "join" /\ top # Null /\ Return
      /\ Before(d, call.key, key[top])
  BY DEF InsertRoot, At
<1>3. /\ child \in Links /\ edge = NoEdge /\ used \subseteq Nodes /\ \A i \in used : key[i] \in Int
      /\ call.key \in Keys /\ call.key \in Int /\ call.val \in Values
      /\ Below(child, top) = used /\ Ordered(child, key, top)
  BY <1>2, FinishFacts, StateFacts DEF FieldsInv
<1>4. /\ o \in Sides /\ o # d /\ Other(o) = d /\ \A s \in Sides : s = d \/ s = o
  BY SidesAre
<1>5. top \in Nodes
  BY <1>2 DEF TypeOK, Pointers
<1>6. key[top] # call.key
  <2>1. top \in used
    BY <1>3, <1>5, BelowIs
  <2>2. QED
    BY <1>2, <1>3, <2>1, Order
<1>7. /\ x \in Pointers /\ top \in used /\ Below(child, x) \subseteq used
      /\ used = {top} \union Below(child, x) \union Below(child, z)
      /\ Ordered(child, key, x) /\ \A i \in Below(child, x) : Before(d, key[i], call.key)
      /\ top \notin Below(child, x)
  BY <1>2, <1>3, <1>5, <1>6, Parts, NextTo
<1>8. /\ z \in Pointers /\ Below(child, z) \subseteq used /\ Ordered(child, key, z)
      /\ \A i \in Below(child, z) : Before(o, key[i], key[top]) /\ Before(o, key[i], call.key)
      /\ top \notin Below(child, z)
  BY <1>2, <1>3, <1>4, <1>5, <1>6, Parts, NextTo
<1>9. /\ n \notin used /\ n # top /\ used' = used \union {n}
      /\ key'[n] = call.key /\ val'[n] = call.val
      /\ \A i \in used : key'[i] = key[i] /\ val'[i] = val[i]
  BY <1>1, <1>3, <1>7 DEF New, TypeOK
<1>10. /\ child' \in Links
       /\ \A s \in Sides, i \in Nodes \union {Dummy} :
            child'[s][i] = IF i = n THEN IF s = d THEN x ELSE top
                           ELSE IF s = d /\ i = top THEN Null ELSE child[s][i]
  <2>1. top \in Pointers
    BY DEF TypeOK
  <2> DEFINE j == [child EXCEPT ![d][n] = x, ![o][n] = top]
  <2>2. j \in Links /\ \A s \in Sides, i \in Nodes \union {Dummy} :
          j[s][i] = IF s = o /\ i = n THEN top ELSE IF s = d /\ i = n THEN x ELSE child[s][i]
    <3> HIDE DEF o, x
    <3>1. QED
      BY <1>3, <1>4, <1>7, <2>1 DEF Links
  <2>3. child' = [j EXCEPT ![d][top] = Null]
    BY <1>1
  <2> HIDE DEF j, x
  <2>4. \A s \in Sides, i \in Nodes \union {Dummy} :
          child'[s][i] = IF s = d /\ i = top THEN Null ELSE j[s][i]
    BY <2>2, <2>3 DEF Links
  <2>5. QED
    BY <1>4, <1>9, <2>2, <2>4, LinksAfter
<1> HIDE DEF o, x, z
<1>11. /\ child'[d][n] = x /\ child'[o][n] = top
       /\ child'[d][top] = Null /\ child'[o][top] = z
  BY <1>4, <1>5, <1>9, <1>10 DEF z
<1>12. Below(child', x) = Below(child, x) /\ Ordered(child', key', x)
  <2>1. \A i \in Below(child, x), s \in Sides : child'[s][i] = child[s][i]
    BY <1>3, <1>7, <1>9, <1>10
  <2>2. \A i \in Below(child, x) : key'[i] = key[i]
    BY <1>7, <1>9
  <2>3. QED
    BY <1>3, <1>7, <1>10, <2>1, <2>2, SameTree
<1>13. Below(child', z) = Below(child, z) /\ Ordered(child', key', z)
  <2>1. \A i \in Below(child, z), s \in Sides : child'[s][i] = child[s][i]
    BY <1>3, <1>8, <1>9, <1>10
  <2>2. \A i \in Below(child, z) : key'[i] = key[i]
    BY <1>8, <1>9
  <2>3. QED
    BY <1>3, <1>8, <1>10, <2>1, <2>2, SameTree
<1>14. Below(child', Null) = {} /\ Ordered(child', key', Null)
  BY BelowNull DEF Ordered
<1>15. Below(child', top) = {top} \union Below(child, z)
  BY <1>4, <1>5, <1>10, <1>11, <1>13, <1>14, BelowIs
<1>16. Ordered(child', key', top)
  <2>1. \A i \in Below(child, z) : Before(o, key'[i], key'[top])
    BY <1>7, <1>8, <1>9
  <2>2. \A s \in Sides : /\ Ordered(child', key', child'[s][top])
                         /\ \A i \in Below(child', child'[s][top]) : Before(s, key'[i], key'[top])
    BY <1>4, <1>11, <1>13, <1>14, <2>1
  <2>3. QED
    BY <1>5, <1>10, <2>2, OrderedIs
<1>17. Below(child', n) = used'
  BY <1>4, <1>7, <1>9, <1>10, <1>11, <1>12, <1>15, BelowIs
<1>18. Ordered(child', key', n)
  <2>1. \A i \in Below(child, x) : Before(d, key'[i], key'[n])
    BY <1>7, <1>9
  <2>2. Before(o, key'[top], key'[n])
    BY <1>2, <1>3, <1>7, <1>9, Order DEF o
  <2>3. \A i \in Below(child, z) : Before(o, key'[i], key'[n])
    BY <1>8, <1>9
  <2>4. \A s \in Sides : /\ Ordered(child', key', child'[s][n])
                         /\ \A i \in Below(child', child'[s][n]) : Before(s, key'[i], key'[n])
    BY <1>4, <1>11, <1>12, <1>15, <1>16, <2>1, <2>2, <2>3
  <2>5. QED
    BY <1>10, <2>4, OrderedIs
<1>19. \A i, j \in used' : key'[i] = key'[j] => i = j
  <2>1. \A i \in used : key[i] # call.key
    BY <1>2, <1>6, NotThere DEF Found
  <2>2. \A i, j \in used : key[i] = key[j] => i = j
    BY DEF FieldsInv
  <2>3. QED
    BY <1>9, <2>1, <2>2
<1>20. \A i \in used' : key'[i] \in Keys /\ val'[i] \in Values
  BY <1>3, <1>9 DEF FieldsInv
<1>21. \A i \in Nodes \ used', s \in Sides : child'[s][i] = Null
  BY <1>7, <1>9, <1>10 DEF FieldsInv
<1>22. QED
  BY <1>1, <1>2, <1>3, <1>17, <1>18, <1>19, <1>20, <1>21, ReturnStep

\* The rest of the tree does not change when a node is discarded.
LEMMA Discarded ==
  ASSUME IInv, NEW n \in used, Discard(n)
  PROVE  /\ used' = used \ {n}
         /\ \A i \in used' : key'[i] = key[i] /\ val'[i] = val[i]
         /\ \A i \in used' : key'[i] \in Keys /\ val'[i] \in Values
         /\ \A i, j \in used' : key'[i] = key'[j] => i = j
<1> USE DEF IInv
<1>1. used' = used \ {n} /\ \A i \in used' : key'[i] = key[i] /\ val'[i] = val[i]
  BY DEF Discard, TypeOK
<1>2. QED
  BY <1>1 DEF FieldsInv

\* A root without a left subtree leaves its right one.
LEMMA DeleteRootStep ==
  ASSUME IInv, TypeOK', DeleteRoot
  PROVE  Rest'
<1> DEFINE x == child["right"][top]
<1> USE DEF IInv
<1>1. /\ pc = "finish" /\ call.op # "join" /\ Return /\ Discard(top) /\ top # Null
      /\ child["left"][top] = Null /\ root' = x
      /\ child' = [child EXCEPT !["right"][top] = Null]
  BY DEF DeleteRoot, At, Found
<1>2. /\ child \in Links /\ edge = NoEdge /\ used \subseteq Nodes /\ \A i \in used : key[i] \in Int
      /\ Below(child, top) = used /\ Ordered(child, key, top)
  BY <1>1, FinishFacts, StateFacts
<1>3. top \in Nodes /\ "right" \in Sides /\ Other("right") = "left"
  BY <1>1 DEF TypeOK, Pointers, Sides, Other
<1>4. /\ x \in Pointers /\ top \in used
      /\ used = {top} \union Below(child, x)
      /\ Ordered(child, key, x) /\ top \notin Below(child, x)
  BY <1>1, <1>2, <1>3, Parts, BelowNull
<1>5. /\ used' = used \ {top} /\ \A i \in used' : key'[i] = key[i] /\ val'[i] = val[i]
      /\ \A i \in used' : key'[i] \in Keys /\ val'[i] \in Values
      /\ \A i, j \in used' : key'[i] = key'[j] => i = j
  BY <1>1, <1>4, Discarded
<1>6. /\ child' \in Links
      /\ \A s \in Sides, i \in Nodes \union {Dummy} :
           child'[s][i] = IF s = "right" /\ i = top THEN Null ELSE child[s][i]
  BY <1>1, <1>2, <1>3, LinksAfter DEF Links
<1>7. Below(child', x) = Below(child, x) /\ Ordered(child', key', x)
  <2>1. \A i \in Below(child, x), s \in Sides : child'[s][i] = child[s][i]
    BY <1>2, <1>4, <1>6
  <2>2. \A i \in Below(child, x) : key'[i] = key[i]
    BY <1>4, <1>5
  <2>3. QED
    BY <1>2, <1>4, <1>6, <2>1, <2>2, SameTree
<1>8. Below(child', x) = used'
  BY <1>4, <1>5, <1>7
<1>9. \A i \in Nodes \ used', s \in Sides : child'[s][i] = Null
  <2>1. \A i \in Nodes \ used, s \in Sides : child[s][i] = Null
    BY DEF FieldsInv
  <2>2. \A s \in Sides : s = "left" \/ s = "right"
    BY DEF Sides
  <2>3. QED
    BY <1>1, <1>3, <1>5, <1>6, <2>1, <2>2
<1>10. QED
  BY <1>1, <1>2, <1>5, <1>7, <1>8, <1>9, ReturnStep

\* The splay of the left subtree keeps the root and its right subtree.
LEMMA SplayLeftStep ==
  ASSUME IInv, TypeOK', SplayLeft
  PROVE  Rest'
<1> DEFINE x == child["left"][top]
           z == child["right"][top]
<1> USE DEF IInv
<1>1. /\ pc = "finish" /\ call.op = "delete" /\ call.op # "join" /\ top # Null
      /\ key[top] = call.key /\ x # Null
      /\ root' = top /\ call' = [call EXCEPT !.op = "join"]
      /\ top' = x /\ pc' = "splay" /\ child' = child /\ edge' = edge
      /\ key' = key /\ val' = val /\ used' = used
  BY DEF SplayLeft, At, Found, Splay, nodeVars
<1>2. /\ child \in Links /\ edge = NoEdge /\ used \subseteq Nodes /\ \A i \in used : key[i] \in Int
      /\ Below(child, top) = used /\ Ordered(child, key, top) /\ call \in Requests
  BY <1>1, FinishFacts, StateFacts
<1>3. top \in Nodes /\ "right" \in Sides /\ "left" \in Sides /\ Other("left") = "right" /\ Other("right") = "left"
  BY <1>1 DEF TypeOK, Pointers, Sides, Other
<1>4. /\ x \in Pointers /\ top \in used
      /\ used = {top} \union Below(child, x) \union Below(child, z)
      /\ Ordered(child, key, x) /\ \A i \in Below(child, x) : Before("left", key[i], key[top])
      /\ top \notin Below(child, x) /\ Below(child, x) \intersect Below(child, z) = {}
  BY <1>2, <1>3, Parts
<1>5. /\ z \in Pointers /\ Ordered(child, key, z) /\ top \notin Below(child, z)
      /\ \A i \in Below(child, z) : Before("right", key[i], key[top])
  BY <1>2, <1>3, Parts
<1>6. call'.op = "join" /\ call'.key = call.key /\ call' # NoCall
  BY <1>1, <1>2 DEF Requests, NoCall
<1> HIDE DEF x, z
<1>7. Below(Cut', z) = Below(child, z) /\ Ordered(Cut', key, z)
  <2>1. Cut' = CutOff(child, NoEdge)
    BY <1>1, <1>2 DEF Cut, CutOff
  <2>2. QED
    BY <1>2, <1>5, <2>1, NoEdgeSame
<1>8. child'["right"][root'] = z
  BY <1>1 DEF z
<1>9. Kept' = {top} \union Below(child, z)
  BY <1>1, <1>6, <1>7, <1>8 DEF Kept
<1>10. used' \ Kept' = Below(child, x)
  BY <1>1, <1>4, <1>9
<1>11. FieldsInv'
  BY <1>1, <1>2, <1>6 DEF FieldsInv
<1>12. JoinInv'
  <2>1. \A i \in Below(child, z) : Before("left", call.key, key[i])
    <3>1. call.key \in Int /\ \A i \in Below(child, z) : key[i] \in Int
      BY <1>1, <1>2, <1>4
    <3>2. QED
      BY <1>1, <1>3, <1>5, <3>1, Order
  <2>2. \A i \in Below(child, x) : Before("left", key[i], call.key)
    BY <1>1, <1>4
  <2>3. Kept' \subseteq used'
    BY <1>1, <1>4, <1>9
  <2>4. root' \in used' /\ key'[root'] = call'.key /\ top' # Null
    BY <1>1, <1>4, <1>6
  <2>5. Ordered(Cut', key', child'["right"][root'])
    BY <1>1, <1>7, <1>8
  <2>6. \A i \in Below(Cut', child'["right"][root']) : Before("left", call'.key, key'[i])
    BY <1>1, <1>6, <1>7, <1>8, <2>1
  <2>7. \A i \in used' \ Kept' : Before("left", key'[i], call'.key)
    BY <1>1, <1>6, <1>10, <2>2
  <2>8. QED
    BY <2>3, <2>4, <2>5, <2>6, <2>7 DEF JoinInv
<1>13. SplayInv'
  <2>1. x \in Nodes
    BY <1>1, <1>4 DEF Pointers, x
  <2>2. QED
    BY <1>1, <1>2, <1>4, <1>10, <2>1, LoopStarts
<1>14. FinishInv' /\ SearchTree'
  BY <1>1 DEF FinishInv, SearchTree, FieldsInv
<1>15. QED
  BY <1>11, <1>12, <1>13, <1>14 DEF Rest

\* Splayed, the left subtree has nothing on the right of its root, and takes the
\* right subtree there.
LEMMA JoinStep ==
  ASSUME IInv, TypeOK', Join
  PROVE  Rest'
<1> DEFINE x == child["left"][top]
           y == child["right"][top]
           z == child["right"][root]
<1> USE DEF IInv
<1>1. /\ pc = "finish" /\ call.op = "join" /\ Return /\ Discard(root) /\ root' = top
      /\ child' = [d \in Sides |->
           [child[d] EXCEPT ![top] = IF d = "right" THEN child[d][root] ELSE @, ![root] = Null]]
  BY DEF Join, At
<1>2. /\ child \in Links /\ edge = NoEdge /\ used \subseteq Nodes /\ \A i \in used : key[i] \in Int
      /\ Below(child, top) = used \ Kept /\ Ordered(child, key, top) /\ call.key \in Int
      /\ \A p \in Pointers : /\ Below(Cut, p) = Below(child, p)
                             /\ Ordered(Cut, key, p) <=> Ordered(child, key, p)
  BY <1>1, FinishFacts, StateFacts
<1>3. /\ "right" \in Sides /\ "left" \in Sides /\ Other("left") = "right" /\ Other("right") = "left"
      /\ \A s \in Sides : s = "left" \/ s = "right"
  BY DEF Sides, Other
<1>4. /\ top # Null /\ root \in used /\ key[root] = call.key
      /\ \A i \in used \ Kept : Before("left", key[i], call.key)
  BY <1>1 DEF JoinInv
<1>5. top \in Nodes
  BY <1>4 DEF TypeOK, Pointers
<1>6. z \in Pointers /\ root \in Nodes
  BY <1>2, <1>3, <1>4 DEF Links
<1>7. /\ Kept = {root} \union Below(child, z) /\ Kept \subseteq used
      /\ Ordered(child, key, z) /\ \A i \in Below(child, z) : Before("left", call.key, key[i])
  BY <1>1, <1>2, <1>6 DEF Kept, JoinInv
<1>8. /\ x \in Pointers /\ top \in used \ Kept
      /\ used \ Kept = {top} \union Below(child, x) \union Below(child, y)
      /\ Ordered(child, key, x) /\ \A i \in Below(child, x) : Before("left", key[i], key[top])
      /\ top \notin Below(child, x)
  BY <1>2, <1>3, <1>5, Parts
<1>9. Below(child, y) = {}
  <2>1. Before("right", call.key, key[top])
    BY <1>2, <1>3, <1>4, <1>8, Order
  <2>2. \A i \in Below(child, y) : Before("right", key[i], call.key)
    BY <1>1, <1>3, <1>4, <2>1 DEF FinishInv
  <2>3. \A i \in Below(child, y) : Before("left", key[i], call.key) /\ key[i] \in Int
    BY <1>2, <1>4, <1>8
  <2>4. QED
    BY <1>2, <1>3, <2>2, <2>3, Order
<1>10. root \notin Below(child, z) /\ root # top
  BY <1>2, <1>3, <1>4, <1>7, <1>8, Order
<1>11. /\ used' = used \ {root} /\ \A i \in used' : key'[i] = key[i] /\ val'[i] = val[i]
       /\ \A i \in used' : key'[i] \in Keys /\ val'[i] \in Values
       /\ \A i, j \in used' : key'[i] = key'[j] => i = j
  BY <1>1, <1>4, Discarded
<1>12. /\ child' \in Links
       /\ \A s \in Sides, i \in Nodes \union {Dummy} :
            child'[s][i] = IF i = root THEN Null
                           ELSE IF s = "right" /\ i = top THEN z ELSE child[s][i]
  <2>1. child' \in Links
    BY LinksAfter
  <2>2. \A s \in Sides : child[s] \in [Nodes \union {Dummy} -> Pointers]
    BY <1>2 DEF Links
  <2>3. QED
    BY <1>1, <1>3, <1>5, <1>6, <2>1, <2>2
<1> HIDE DEF x, y, z
<1>13. child'["left"][top] = x /\ child'["right"][top] = z
  BY <1>3, <1>5, <1>10, <1>12 DEF x
<1>14. Below(child', x) = Below(child, x) /\ Ordered(child', key', x)
  <2>1. \A i \in Below(child, x) : i \in used' /\ i # top /\ i # root /\ i \in Nodes
    BY <1>2, <1>7, <1>8, <1>11
  <2>2. \A i \in Below(child, x), s \in Sides : child'[s][i] = child[s][i]
    BY <1>12, <2>1
  <2>3. \A i \in Below(child, x) : key'[i] = key[i]
    BY <1>11, <2>1
  <2>4. QED
    BY <1>2, <1>8, <1>12, <2>2, <2>3, SameTree
<1>15. Below(child', z) = Below(child, z) /\ Ordered(child', key', z)
  <2>1. \A i \in Below(child, z) : i \in used' /\ i # top /\ i # root /\ i \in Nodes
    BY <1>2, <1>7, <1>8, <1>10, <1>11
  <2>2. \A i \in Below(child, z), s \in Sides : child'[s][i] = child[s][i]
    BY <1>12, <2>1
  <2>3. \A i \in Below(child, z) : key'[i] = key[i]
    BY <1>11, <2>1
  <2>4. QED
    BY <1>2, <1>6, <1>7, <1>12, <2>2, <2>3, SameTree
<1>16. Below(child', top) = used'
  <2>1. used' = {top} \union Below(child, x) \union Below(child, z)
    BY <1>7, <1>8, <1>9, <1>10, <1>11
  <2>2. QED
    BY <1>3, <1>5, <1>12, <1>13, <1>14, <1>15, <2>1, BelowIs
<1>17. Ordered(child', key', top)
  <2>1. top \in used' /\ key'[top] = key[top] /\ key[top] \in Int
    BY <1>2, <1>7, <1>8, <1>11
  <2>2. \A i \in Below(child, x) : Before("left", key'[i], key'[top])
    <3>1. \A i \in Below(child, x) : i \in used'
      BY <1>7, <1>8, <1>11
    <3>2. QED
      BY <1>8, <1>11, <2>1, <3>1
  <2>3. \A i \in Below(child, z) : Before("right", key'[i], key'[top])
    <3> SUFFICES ASSUME NEW i \in Below(child, z) PROVE Before("right", key'[i], key'[top])
      OBVIOUS
    <3>1. i \in used' /\ key'[i] = key[i] /\ key[i] \in Int
      BY <1>2, <1>7, <1>10, <1>11
    <3>2. Before("left", key[top], call.key) /\ Before("left", call.key, key[i])
      BY <1>4, <1>7, <1>8
    <3>3. QED
      BY <1>2, <1>3, <2>1, <3>1, <3>2, Order
  <2>4. \A s \in Sides : /\ Ordered(child', key', child'[s][top])
                         /\ \A i \in Below(child', child'[s][top]) : Before(s, key'[i], key'[top])
    BY <1>3, <1>13, <1>14, <1>15, <2>2, <2>3
  <2>5. QED
    BY <1>5, <1>12, <2>4, OrderedIs
<1>18. \A i \in Nodes \ used', s \in Sides : child'[s][i] = Null
  <2>1. \A i \in Nodes \ used, s \in Sides : child[s][i] = Null
    BY DEF FieldsInv
  <2>2. QED
    BY <1>8, <1>11, <1>12, <2>1
<1>19. QED
  BY <1>1, <1>2, <1>11, <1>16, <1>17, <1>18, ReturnStep

------------------------------------------------------------------------------
(* The invariant.                                                          *)

\* The invariant holds at first.
LEMMA InitInv == Init => IInv
<1> SUFFICES ASSUME Init PROVE IInv
  OBVIOUS
<1>1. /\ root = Null /\ used = {} /\ pc = "idle" /\ call = NoCall /\ edge = NoEdge
      /\ \A n \in Nodes \union {Dummy}, d \in Sides : child[d][n] = Null
  BY DEF Init
<1>2. TypeOK
  BY ConstantsAssumption DEF Init, TypeOK, Pointers, NoEdge
<1>3. Below(child, root) = {} /\ Ordered(child, key, root)
  BY <1>1, BelowNull DEF Ordered
<1>4. FieldsInv /\ JoinInv /\ SplayInv /\ FinishInv
  BY <1>1 DEF FieldsInv, JoinInv, SplayInv, FinishInv, NoCall
<1>5. SearchTree
  BY <1>1, <1>3 DEF SearchTree
<1>6. QED
  BY <1>2, <1>4, <1>5 DEF IInv

\* Every step of an operation keeps the invariant.
LEMMA NextInv == IInv /\ [Next]_vars => IInv'
<1> SUFFICES ASSUME IInv, [Next]_vars PROVE IInv'
  OBVIOUS
<1>1. TypeOK'
  BY TypesStay
<1> SUFFICES Rest'
  BY <1>1 DEF IInv, Rest
<1>2. ASSUME NEW k \in Keys, NEW op \in {"lookup", "delete"}, Begin(op, k, None) PROVE Rest'
  BY <1>1, <1>2, BeginStep
<1>3. ASSUME NEW k \in Keys, NEW v \in Values, Begin("insert", k, v) PROVE Rest'
  BY <1>1, <1>3, BeginStep
<1>4. ASSUME NEW d \in Sides, Rotate(d) PROVE Rest'
  BY <1>1, <1>4, RotateStep
<1>5. ASSUME NEW d \in Sides, Link(d) PROVE Rest'
  BY <1>1, <1>5, LinkStep
<1>6. ASSUME NEW d \in Sides, InsertRoot(d) PROVE Rest'
  BY <1>1, <1>6, InsertRootStep
<1>7. CASE Assemble
  BY <1>1, <1>7, AssembleStep
<1>8. CASE Lookup \/ Skip
  BY <1>1, <1>8, LookupStep
<1>9. CASE InsertFirst
  BY <1>1, <1>9, InsertFirstStep
<1>10. CASE DeleteRoot
  BY <1>1, <1>10, DeleteRootStep
<1>11. CASE SplayLeft
  BY <1>1, <1>11, SplayLeftStep
<1>12. CASE Join
  BY <1>1, <1>12, JoinStep
<1>13. CASE UNCHANGED vars
  <2>1. /\ root' = root /\ child' = child /\ key' = key /\ val' = val /\ used' = used
        /\ pc' = pc /\ call' = call /\ top' = top /\ edge' = edge /\ answer' = answer
    BY <1>13 DEF vars, nodeVars
  <2>2. Cut' = Cut /\ Kept' = Kept
    BY <2>1 DEF Cut, Kept, Below, Closed
  <2>3. FieldsInv' /\ SearchTree'
    BY <2>1 DEF IInv, FieldsInv, SearchTree, Below, Closed, Ordered
  <2>4. JoinInv'
    BY <2>1, <2>2 DEF IInv, JoinInv
  <2>5. SplayInv'
    BY <2>1, <2>2 DEF IInv, SplayInv
  <2>6. FinishInv'
    BY <2>1, <2>2 DEF IInv, FinishInv
  <2>7. QED
    BY <2>3, <2>4, <2>5, <2>6 DEF Rest
<1>14. QED
  BY <1>2, <1>3, <1>4, <1>5, <1>6, <1>7, <1>8, <1>9, <1>10, <1>11, <1>12, <1>13 DEF Next

\* The inductive invariant holds in every state.
THEOREM Invariance == Spec => []IInv
BY InitInv, NextInv, PTL DEF Spec

\* Pointers lead to nodes or nowhere, and every field has a value of its type.
THEOREM TypeCorrect == Spec => []TypeOK
<1>1. IInv => TypeOK
  BY DEF IInv
<1>2. QED
  BY <1>1, Invariance, PTL

\* Between two operations the nodes inserted and not deleted are a search tree,
\* each with a key of its own, whatever keys were looked up, inserted and deleted
\* and in whatever order.
THEOREM TreeStaysOrdered == Spec => []SearchTree
<1>1. IInv => SearchTree
  BY DEF IInv
<1>2. QED
  BY <1>1, Invariance, PTL

\* Each turn of the loop of the splay leaves less of the tree to search: with
\* finitely many nodes the loop ends.
THEOREM LoopShrinks == Spec => LinkShrinks
<1>1. IInv /\ [Next]_vars =>
        [\A d \in Sides : Link(d) => Below(child, top)' \subseteq Below(child, top) \ {top}]_vars
  <2> SUFFICES ASSUME IInv, [Next]_vars, NEW d \in Sides, Link(d)
               PROVE  Below(child, top)' \subseteq Below(child, top) \ {top}
    OBVIOUS
  <2>1. TypeOK'
    BY TypesStay
  <2>2. QED
    BY <2>1, LinkStep
<1>2. QED
  BY <1>1, Invariance, PTL DEF Spec, LinkShrinks

------------------------------------------------------------------------------
(* The map.                                                                *)

MapFrom(u, j, v) ==
  [k \in Keys |-> IF \E n \in u : j[n] = k THEN v[CHOOSE n \in u : j[n] = k] ELSE None]

\* A key of a node is mapped to its content, any other to nothing.
LEMMA MapEntry ==
  ASSUME NEW u, NEW j, NEW v, \A m, n \in u : j[m] = j[n] => m = n
  PROVE  /\ \A n \in u : j[n] \in Keys => MapFrom(u, j, v)[j[n]] = v[n]
         /\ \A k \in Keys : (\A n \in u : j[n] # k) => MapFrom(u, j, v)[k] = None
<1>1. ASSUME NEW n \in u, j[n] \in Keys PROVE MapFrom(u, j, v)[j[n]] = v[n]
  <2> DEFINE i == CHOOSE i \in u : j[i] = j[n]
  <2>1. i \in u /\ j[i] = j[n]
    OBVIOUS
  <2>2. i = n
    BY <2>1
  <2>3. QED
    BY <1>1, <2>2 DEF MapFrom
<1>2. ASSUME NEW k \in Keys, \A n \in u : j[n] # k PROVE MapFrom(u, j, v)[k] = None
  BY <1>2 DEF MapFrom
<1>3. QED
  BY <1>1, <1>2

\* A new node is a new entry, and nothing else.
LEMMA MapInsert ==
  ASSUME NEW u, NEW j, NEW v, NEW i, NEW w, NEW n, n \notin u, i[n] \in Keys,
         \A m \in u : i[m] = j[m] /\ w[m] = v[m],
         \A a, b \in u \union {n} : i[a] = i[b] => a = b
  PROVE  /\ MapFrom(u, j, v)[i[n]] = None
         /\ \A k \in Keys : MapFrom(u \union {n}, i, w)[k] =
                            IF k = i[n] THEN w[n] ELSE MapFrom(u, j, v)[k]
<1> DEFINE M == MapFrom(u, j, v)
           W == MapFrom(u \union {n}, i, w)
<1>1. \A a, b \in u : j[a] = j[b] => a = b
  OBVIOUS
<1>2. M[i[n]] = None
  BY <1>1, MapEntry
<1>3. ASSUME NEW k \in Keys PROVE W[k] = IF k = i[n] THEN w[n] ELSE M[k]
  <2>1. CASE k = i[n]
    BY <2>1, MapEntry
  <2>2. CASE k # i[n] /\ \E a \in u : j[a] = k
    <3>1. PICK a \in u : j[a] = k
      BY <2>2
    <3>2. W[k] = w[a] /\ M[k] = v[a]
      BY <1>1, <2>2, <3>1, MapEntry
    <3>3. QED
      BY <2>2, <3>1, <3>2
  <2>3. CASE k # i[n] /\ ~\E a \in u : j[a] = k
    BY <1>1, <2>3, MapEntry
  <2>4. QED
    BY <2>1, <2>2, <2>3
<1>4. QED
  BY <1>2, <1>3

\* A node less is an entry less, and nothing else.
LEMMA MapDelete ==
  ASSUME NEW u, NEW j, NEW v, NEW i, NEW w, NEW n \in u,
         \A m \in u \ {n} : i[m] = j[m] /\ w[m] = v[m],
         \A a, b \in u : j[a] = j[b] => a = b
  PROVE  \A k \in Keys : MapFrom(u \ {n}, i, w)[k] = IF k = j[n] THEN None ELSE MapFrom(u, j, v)[k]
<1> DEFINE M == MapFrom(u, j, v)
           W == MapFrom(u \ {n}, i, w)
<1>1. \A a, b \in u \ {n} : i[a] = i[b] => a = b
  OBVIOUS
<1>2. ASSUME NEW k \in Keys PROVE W[k] = IF k = j[n] THEN None ELSE M[k]
  <2>1. CASE k = j[n]
    <3>1. \A a \in u \ {n} : i[a] # k
      BY <2>1
    <3>2. QED
      BY <1>1, <2>1, <3>1, MapEntry
  <2>2. CASE k # j[n] /\ \E a \in u : j[a] = k
    <3>1. PICK a \in u : j[a] = k
      BY <2>2
    <3>2. W[k] = w[a] /\ M[k] = v[a]
      BY <1>1, <2>2, <3>1, MapEntry
    <3>3. QED
      BY <2>2, <3>1, <3>2
  <2>3. CASE k # j[n] /\ ~\E a \in u : j[a] = k
    BY <1>1, <2>3, MapEntry
  <2>4. QED
    BY <2>1, <2>2, <2>3
<1>3. QED
  BY <1>2

\* The step of an operation that takes effect is that of the map, every other
\* step leaves the map as it is.
LEMMA StepImplements ==
  ASSUME IInv, [Next]_vars
  PROVE  [Map!Next]_<<MapOf, answer>>
<1> DEFINE c == call.key
<1>0. MapOf = [k \in Keys |-> MapOf[k]] /\ MapOf' = [k \in Keys |-> MapOf'[k]]
  BY DEF MapOf
<1>1. MapOf = MapFrom(used, key, val) /\ MapOf' = MapFrom(used', key', val')
  BY DEF MapOf, MapFrom
<1>2. /\ TypeOK /\ FieldsInv /\ FinishInv /\ JoinInv /\ used \subseteq Nodes
      /\ \A m, n \in used : key[m] = key[n] => m = n
      /\ \A n \in used : key[n] \in Keys
      /\ (pc # "idle" => call \in Requests /\ c \in Keys)
  BY StateFacts DEF IInv, SearchTree
<1>3. ASSUME used' = used, key' = key, val' = val PROVE MapOf' = MapOf
  BY <1>1, <1>3
<1>4. CASE UNCHANGED <<nodeVars, answer>>
  BY <1>3, <1>4 DEF nodeVars
<1>5. CASE Lookup
  <2>1. /\ pc = "finish" /\ call.op # "join" /\ MapOf' = MapOf
        /\ answer' = IF Found THEN val[top] ELSE None
    BY <1>3, <1>5 DEF Lookup, At, nodeVars
  <2>2. CASE Found
    <3>1. top \in used /\ key[top] = c
      <4>1. top \in Nodes /\ key[top] = c
        BY <1>2, <2>2 DEF Found, TypeOK, Pointers
      <4>2. child \in Links /\ Below(child, top) = used
        BY <1>2, <2>1, StateFacts, FinishFacts
      <4>3. QED
        BY <4>1, <4>2, BelowIs
    <3>2. MapOf[c] = val[top]
      BY <1>1, <1>2, <3>1, MapEntry
    <3>3. QED
      BY <1>2, <2>1, <2>2, <3>2 DEF Map!Next, Map!Lookup
  <2>3. CASE ~Found
    <3>1. \A n \in used : key[n] # c
      BY <2>1, <2>3, NotThere
    <3>2. MapOf[c] = None
      BY <1>1, <1>2, <2>1, <3>1, MapEntry
    <3>3. QED
      BY <1>2, <2>1, <2>3, <3>2 DEF Map!Next, Map!Lookup
  <2>4. QED
    BY <2>2, <2>3
<1>6. ASSUME NEW n \in Nodes, New(n), At("insert"), ~Found, answer' = answer
      PROVE  Map!Next
  <2>1. pc = "finish" /\ call.op # "join" /\ c \in Keys /\ call.val \in Values
    BY <1>2, <1>6 DEF At, FieldsInv
  <2>2. \A i \in used : key[i] # c
    BY <1>6, <2>1, NotThere
  <2>3. /\ n \notin used /\ used' = used \union {n} /\ key'[n] = c /\ val'[n] = call.val
        /\ \A i \in used : key'[i] = key[i] /\ val'[i] = val[i]
    BY <1>2, <1>6 DEF New, TypeOK
  <2>4. \A a, b \in used \union {n} : key'[a] = key'[b] => a = b
    BY <1>2, <2>2, <2>3
  <2>5. MapOf' = [MapOf EXCEPT ![c] = IF @ = None THEN call.val ELSE @]
    <3>1. /\ MapFrom(used, key, val)[key'[n]] = None
          /\ \A k \in Keys : MapFrom(used \union {n}, key', val')[k] =
                             IF k = key'[n] THEN val'[n] ELSE MapFrom(used, key, val)[k]
      <4>1. n \notin used /\ key'[n] \in Keys
        BY <2>1, <2>3
      <4>2. \A i \in used : key'[i] = key[i] /\ val'[i] = val[i]
        BY <2>3
      <4>3. QED
        BY <2>4, <4>1, <4>2, MapInsert
    <3>2. MapOf[c] = None /\ \A k \in Keys : MapOf'[k] = IF k = c THEN call.val ELSE MapOf[k]
      BY <1>1, <2>3, <3>1
    <3>3. QED
      BY <1>0, <2>1, <3>2
  <2>6. QED
    BY <1>6, <2>1, <2>5 DEF Map!Next, Map!Insert
<1>7. CASE InsertFirst
  BY <1>6, <1>7 DEF InsertFirst, Found
<1>8. ASSUME NEW d \in Sides, InsertRoot(d) PROVE Map!Next
  <2>1. ~Found
    <3> SUFFICES ASSUME Found PROVE FALSE
      OBVIOUS
    <3>1. Before(d, c, c) /\ c \in Int
      BY <1>2, <1>8, ConstantsAssumption DEF InsertRoot, Found, At
    <3>2. QED
      BY <3>1, Order
  <2>2. QED
    BY <1>6, <1>8, <2>1 DEF InsertRoot
<1>9. ASSUME NEW n \in used, Discard(n), key[n] = c, pc = "finish", answer' = answer
      PROVE  Map!Next
  <2>1. used' = used \ {n} /\ \A i \in used \ {n} : key'[i] = key[i] /\ val'[i] = val[i]
    BY <1>9, Discarded
  <2>2. MapOf' = [MapOf EXCEPT ![c] = None]
    <3>1. \A k \in Keys : MapFrom(used \ {n}, key', val')[k] =
                          IF k = key[n] THEN None ELSE MapFrom(used, key, val)[k]
      <4>1. \A i \in used \ {n} : key'[i] = key[i] /\ val'[i] = val[i]
        BY <2>1
      <4>2. \A i, j \in used : key[i] = key[j] => i = j
        BY <1>2
      <4>3. QED
        BY <4>1, <4>2, MapDelete
    <3>2. \A k \in Keys : MapOf'[k] = IF k = c THEN None ELSE MapOf[k]
      BY <1>1, <1>9, <2>1, <3>1
    <3>3. QED
      BY <1>0, <3>2
  <2>3. QED
    BY <1>2, <1>9, <2>2 DEF Map!Next, Map!Delete
<1>10. CASE DeleteRoot
  <2>1. top \in Nodes /\ key[top] = c /\ pc = "finish" /\ call.op # "join"
    BY <1>2, <1>10 DEF DeleteRoot, Found, At, TypeOK, Pointers
  <2>2. child \in Links /\ Below(child, top) = used
    BY <1>2, <2>1, StateFacts, FinishFacts
  <2>3. top \in used
    BY <2>1, <2>2, BelowIs
  <2>4. QED
    BY <1>9, <1>10, <2>1, <2>3 DEF DeleteRoot
<1>11. CASE Join
  <2>1. root \in used /\ key[root] = c /\ pc = "finish"
    BY <1>2, <1>11 DEF Join, At, JoinInv
  <2>2. QED
    BY <1>9, <1>11, <2>1 DEF Join
<1>12. CASE UNCHANGED vars
  BY <1>4, <1>12 DEF vars, nodeVars
<1>13. CASE Next
  <2>1. ASSUME NEW k, NEW op, NEW v, Begin(op, k, v) PROVE UNCHANGED <<nodeVars, answer>>
    BY <2>1 DEF Begin
  <2>2. ASSUME NEW d \in Sides, Rotate(d) \/ Link(d) PROVE UNCHANGED <<nodeVars, answer>>
    BY <2>2 DEF Rotate, Link
  <2>3. ASSUME Assemble \/ Skip \/ SplayLeft PROVE UNCHANGED <<nodeVars, answer>>
    BY <2>3 DEF Assemble, Skip, SplayLeft
  <2>4. QED
    BY <1>4, <1>5, <1>7, <1>8, <1>10, <1>11, <1>13, <2>1, <2>2, <2>3 DEF Next
<1>14. QED
  BY <1>12, <1>13

\* Through whatever rotations, the tree is a map: each operation takes effect as
\* the one of the abstract map, and a lookup returns what that map holds.
THEOREM Implementation == Spec => ImplementsMap
<1>1. Init => Map!Init
  BY DEF Init, Map!Init, MapOf
<1>2. IInv /\ [Next]_vars => [Map!Next]_<<MapOf, answer>>
  BY StepImplements
<1>3. QED
  BY <1>1, <1>2, Invariance, PTL DEF Spec, ImplementsMap, Map!Spec

==============================================================================
