------------------------------ MODULE SplayTree ------------------------------
(***************************************************************************)
(* The top-down splay tree of splay-macros.h and the map operations that   *)
(* cubin-id-map.c, cubin-hash-map.c, sanitizer-context-map.c and           *)
(* sanitizer-stream-map.c build on it, each under the spin lock of its     *)
(* map: lookup, insert and delete.                                         *)
(*                                                                         *)
(* A tree is made of nodes linked by pointers.  The left and the right of  *)
(* the macro mirror each other, and so do here the two sides: a step that  *)
(* goes to a side is written once.                                         *)
(***************************************************************************)
EXTENDS Integers

CONSTANTS
  Keys,    \* integers: addresses or ids
  Values,  \* what an entry holds
  Nodes,   \* entries the heap can provide
  Null,    \* a null pointer
  Dummy,   \* dummy_node
  None     \* no result, or no content

ASSUME ConstantsAssumption ==
  /\ Keys \subseteq Int
  /\ None \notin Values
  /\ Null \notin Nodes /\ Dummy \notin Nodes /\ Dummy # Null

VARIABLES
  root,    \* the map
  child,   \* the left and the right pointer of each node
  key,     \* the key of each node
  val,     \* the content of each node
  used,    \* the nodes inserted and not deleted
  pc,      \* where the operation is
  call,    \* the operation and its arguments
  top,     \* root, the local variable of the splay
  edge,    \* rtree_min on the left, ltree_max on the right
  answer   \* the result of the last lookup

nodeVars == <<key, val, used>>
vars == <<root, child, nodeVars, pc, call, top, edge, answer>>

Sides == {"left", "right"}
Other(d) == IF d = "left" THEN "right" ELSE "left"

\* The comparison that goes to a side: lt to the left, gt to the right.
Before(d, a, b) == IF d = "left" THEN a < b ELSE b < a

NoCall == [op |-> "none", key |-> None, val |-> None]
NoEdge == [d \in Sides |-> Dummy]

Init ==
  /\ root = Null
  /\ child = [d \in Sides |-> [n \in Nodes \union {Dummy} |-> Null]]
  /\ key = [n \in Nodes |-> None]
  /\ val = [n \in Nodes |-> None]
  /\ used = {}
  /\ pc = "idle"
  /\ call = NoCall
  /\ top = Null
  /\ edge = NoEdge
  /\ answer = None

------------------------------------------------------------------------------
(* GENERAL_SPLAY_TREE.                                                     *)

\* An empty tree is not splayed.
Splay(t) ==
  /\ top' = t
  /\ pc' = IF t = Null THEN "finish" ELSE "splay"

\* The loop goes on to a side.
Toward(d) == Before(d, call.key, key[top]) /\ child[d][top] # Null

\* Mutant: the subtree between the two nodes is lost.
RotateLossy(d) ==
  /\ pc = "splay"
  /\ Toward(d)
  /\ LET yy == child[d][top]
     IN  /\ Before(d, call.key, key[yy])
         /\ child' = [child EXCEPT ![d][top] = Null, ![Other(d)][yy] = top]
         /\ top' = yy
  /\ pc' = "rotated"
  /\ UNCHANGED <<root, nodeVars, call, edge, answer>>

Rotate(d) ==
  /\ pc = "splay"
  /\ Toward(d)
  /\ LET yy == child[d][top]
     IN  /\ Before(d, call.key, key[yy])
         /\ child' = [child EXCEPT ![d][top] = child[Other(d)][yy], ![Other(d)][yy] = top]
         /\ top' = yy
  /\ pc' = "rotated"
  /\ UNCHANGED <<root, nodeVars, call, edge, answer>>

\* The root goes below the nodes put aside before, and its child takes its place.
Link(d) ==
  /\ pc \in {"splay", "rotated"}
  /\ Toward(d)
  /\ pc = "rotated" \/ ~Before(d, call.key, key[child[d][top]])
  /\ child' = [child EXCEPT ![d][edge[d]] = top]
  /\ edge' = [edge EXCEPT ![d] = top]
  /\ top' = child[d][top]
  /\ pc' = "splay"
  /\ UNCHANGED <<root, nodeVars, call, answer>>

\* What is left of the root goes below the nodes put aside, and these become
\* its subtrees.
Assemble ==
  /\ pc \in {"splay", "rotated"}
  /\ \A d \in Sides : ~Toward(d)
  /\ LET hung == [d \in Sides |-> [child[d] EXCEPT ![edge[d]] = child[Other(d)][top]]]
     IN  child' = [d \in Sides |->
                    [hung[d] EXCEPT ![top] = hung[Other(d)][Dummy], ![Dummy] = Null]]
  /\ edge' = NoEdge
  /\ pc' = "finish"
  /\ UNCHANGED <<root, nodeVars, call, top, answer>>

------------------------------------------------------------------------------
(* The operations: each splays its key to the root and goes on there.      *)

Begin(op, k, v) ==
  /\ pc = "idle"
  /\ call' = [op |-> op, key |-> k, val |-> v]
  /\ Splay(root)
  /\ UNCHANGED <<root, child, nodeVars, edge, answer>>

At(op) == pc = "finish" /\ call.op = op

Return ==
  /\ pc' = "idle"
  /\ call' = NoCall
  /\ top' = Null
  /\ UNCHANGED edge

Found == top # Null /\ key[top] = call.key

Lookup ==
  /\ At("lookup")
  /\ root' = top
  /\ answer' = IF Found THEN val[top] ELSE None
  /\ Return
  /\ UNCHANGED <<child, nodeVars>>

\* A key that is there is not inserted, one that is not there not deleted.
Skip ==
  /\ (At("insert") /\ Found) \/ (At("delete") /\ ~Found)
  /\ root' = top
  /\ Return
  /\ UNCHANGED <<child, nodeVars, answer>>

\* A new node.
New(n) ==
  /\ n \in Nodes \ used
  /\ key' = [key EXCEPT ![n] = call.key]
  /\ val' = [val EXCEPT ![n] = call.val]
  /\ used' = used \union {n}

InsertFirst ==
  /\ At("insert")
  /\ top = Null
  /\ \E n \in Nodes : New(n) /\ root' = n
  /\ Return
  /\ UNCHANGED <<child, answer>>

\* Mutant: the new root keeps the old one on the wrong side of it.
InsertMirrored(d) ==
  /\ At("insert")
  /\ top # Null /\ Before(d, call.key, key[top])
  /\ \E n \in Nodes :
       /\ New(n)
       /\ child' = [child EXCEPT ![Other(d)][n] = child[d][top], ![d][n] = top, ![d][top] = Null]
       /\ root' = n
  /\ Return
  /\ UNCHANGED answer

\* Splayed at the key, the old root is next to it and goes below the new one.
InsertRoot(d) ==
  /\ At("insert")
  /\ top # Null /\ Before(d, call.key, key[top])
  /\ \E n \in Nodes :
       /\ New(n)
       /\ child' = [child EXCEPT ![d][n] = child[d][top], ![Other(d)][n] = top, ![d][top] = Null]
       /\ root' = n
  /\ Return
  /\ UNCHANGED answer

\* A deleted node is nobody's.  It gets the fields of a new one, which the next
\* insert may take it for.
Discard(n) ==
  /\ key' = [key EXCEPT ![n] = None]
  /\ val' = [val EXCEPT ![n] = None]
  /\ used' = used \ {n}

DeleteRoot ==
  /\ At("delete")
  /\ Found /\ child["left"][top] = Null
  /\ root' = child["right"][top]
  /\ child' = [child EXCEPT !["right"][top] = Null]
  /\ Discard(top)
  /\ Return
  /\ UNCHANGED answer

\* The left subtree is splayed at the key of the node above it, which gets its
\* greatest node to its root.
SplayLeft ==
  /\ At("delete")
  /\ Found /\ child["left"][top] # Null
  /\ root' = top
  /\ call' = [call EXCEPT !.op = "join"]
  /\ Splay(child["left"][top])
  /\ UNCHANGED <<child, nodeVars, edge, answer>>

Join ==
  /\ At("join")
  /\ root' = top
  /\ child' = [d \in Sides |->
       [child[d] EXCEPT ![top] = IF d = "right" THEN child[d][root] ELSE @, ![root] = Null]]
  /\ Discard(root)
  /\ Return
  /\ UNCHANGED answer

Next ==
  \/ \E k \in Keys :
       \/ \E op \in {"lookup", "delete"} : Begin(op, k, None)
       \/ \E v \in Values : Begin("insert", k, v)
  \/ \E d \in Sides : Rotate(d) \/ Link(d) \/ InsertRoot(d)
  \/ Assemble \/ Lookup \/ Skip \/ InsertFirst \/ DeleteRoot \/ SplayLeft \/ Join

Spec == Init /\ [][Next]_vars

------------------------------------------------------------------------------
(* Trees.                                                                  *)

\* The set leaves no node out that its nodes point to.
Closed(links, S) == \A n \in S, d \in Sides : links[d][n] \in S \union {Null}

\* The nodes of the tree with root p: those in every closed set that p is in.
Below(links, p) ==
  {n \in Nodes : \A S \in SUBSET Nodes : p \in S \union {Null} /\ Closed(links, S) => n \in S}

\* On either side of each node are the keys on that side of its key.
Ordered(links, keys, p) ==
  \A n \in Below(links, p), d \in Sides :
    \A m \in Below(links, links[d][n]) : Before(d, keys[m], keys[n])

\* However often and in whatever order keys are looked up, inserted and
\* deleted, the rotations keep the tree a search tree, and on it every node
\* that was inserted and not deleted since, with a key of its own.
SearchTree ==
  /\ pc = "idle" => Below(child, root) = used /\ Ordered(child, key, root)
  /\ \A m, n \in used : key[m] = key[n] => m = n

MapOf ==
  [k \in Keys |-> IF \E n \in used : key[n] = k
                    THEN val[CHOOSE n \in used : key[n] = k]
                    ELSE None]

Map == INSTANCE KeyMap WITH map <- MapOf

\* The tree implements the map: a lookup finds what was inserted first and not
\* deleted since, through whatever rotations.
ImplementsMap == Map!Spec

------------------------------------------------------------------------------
(* The inductive invariant behind the properties of the tree.              *)

Pointers == Nodes \union {Null}
Requests == [op : {"lookup", "insert", "delete", "join"}, key : Keys, val : Values \union {None}]

TypeOK ==
  /\ root \in Pointers /\ top \in Pointers
  /\ child \in [Sides -> [Nodes \union {Dummy} -> Pointers]]
  /\ key \in [Nodes -> Keys \union {None}]
  /\ val \in [Nodes -> Values \union {None}]
  /\ used \subseteq Nodes
  /\ pc \in {"idle", "splay", "rotated", "finish"}
  /\ call \in Requests \union {NoCall}
  /\ edge \in [Sides -> Nodes \union {Dummy}]
  /\ answer \in Values \union {None}

\* An operation has its arguments; a node that is used has its content, and one
\* that is not is as new.
FieldsInv ==
  /\ pc = "idle" <=> call = NoCall
  /\ call.op = "insert" => call.val \in Values
  /\ \A n \in used : key[n] \in Keys /\ val[n] \in Values
  /\ \A n \in Nodes \ used, d \in Sides : child[d][n] = Null
  /\ \A m, n \in used : key[m] = key[n] => m = n
  /\ pc \notin {"splay", "rotated"} => edge = NoEdge

\* The links without those the splay has yet to overwrite.
Cut == [d \in Sides |-> [child[d] EXCEPT ![edge[d]] = Null]]

\* The node being deleted, with what it has on its right, while its left
\* subtree is splayed.
Kept == IF call.op = "join" THEN {root} \union Below(Cut, child["right"][root]) ELSE {}

JoinInv ==
  call.op = "join" =>
    /\ root \in used /\ key[root] = call.key
    /\ top # Null
    /\ Kept \subseteq used
    /\ Ordered(Cut, key, child["right"][root])
    /\ \A n \in Below(Cut, child["right"][root]) : Before("left", call.key, key[n])
    /\ \A n \in used \ Kept : Before("left", key[n], call.key)

\* The nodes put aside on one side of the tree with root t, which is searched
\* for k: they lie on that side of both, and e is the one nearest to them.
PutAside(links, keys, k, t, d, e) ==
  LET aside == Below(links, links[d][Dummy])
  IN  /\ Ordered(links, keys, links[d][Dummy])
      /\ \A n \in aside : Before(d, k, keys[n]) /\ \A m \in Below(links, t) : Before(d, keys[m], keys[n])
      /\ e # Dummy => e \in aside /\ \A n \in aside \ {e} : Before(d, keys[e], keys[n])
      /\ links[d][e] = Null

\* Three trees share the nodes: the one being searched and those put aside.
SplayInv ==
  pc \in {"splay", "rotated"} =>
    /\ top # Null
    /\ used \ Kept = Below(Cut, top) \union UNION {Below(Cut, Cut[d][Dummy]) : d \in Sides}
    /\ Ordered(Cut, key, top)
    /\ \A d \in Sides : PutAside(Cut, key, call.key, top, d, edge[d])

\* Splayed, the tree has its key at the root, or next to it.
FinishInv ==
  pc = "finish" =>
    /\ Below(child, top) = used \ Kept
    /\ Ordered(child, key, top)
    /\ top # Null =>
         \A d \in Sides :
           Before(d, call.key, key[top]) =>
             \A n \in Below(child, child[d][top]) : Before(d, key[n], call.key)

IInv == TypeOK /\ FieldsInv /\ JoinInv /\ SplayInv /\ FinishInv /\ SearchTree

\* Each turn of the loop leaves less of the tree to search.
LinkShrinks ==
  [][\A d \in Sides :
       Link(d) => Below(child, top)' \subseteq Below(child, top) \ {top}]_vars

==============================================================================
