----------------------------- MODULE HeapProofs -----------------------------
(***************************************************************************)
(* Theorems about the nodes of a dwindle tree, for any windows and enough  *)
(* addresses: the pointers make sense, nothing leaks, the loop of dwindle  *)
(* removes exactly what it should, and the functions of main.c implement   *)
(* the tree of splits.                                                     *)
(*                                                                         *)
(* The argument carries a function B: B[n] are the windows of the leaves   *)
(* below node n.  Shape(h, B) says that the pointers of heap h are a tree  *)
(* in which B is right; Meant(h, B) is the tree of splits, read off B.     *)
(***************************************************************************)
EXTENDS DwindleHeap, Loops, FiniteSetTheorems

Contents == [is_node : BOOLEAN, client : Window \cup {None}, parent : Node \cup {None},
             children : {<<>>} \cup [1..2 -> Node]]
Heaps == [root : Node \cup {None}, node : UNION {[D -> Contents] : D \in SUBSET Node}]

Nodes(h) == DOMAIN h.node
Inner(h) == {n \in Nodes(h) : h.node[n].is_node}
Kid(h, n, i) == h.node[n].children[i]

\* Two nodes have no window in common, or one is below a child of the other.
Below(h, B, n, m) == m \in Inner(h) /\ \E i \in 1..2 : B[n] \subseteq B[Kid(h, m, i)]
Nested(h, B, n, m) ==
    n = m \/ B[n] \cap B[m] = {} \/ Below(h, B, n, m) \/ Below(h, B, m, n)

\* An inner node has two children, with different windows.
InnerOK(h, B, n) ==
    /\ h.node[n].children \in [1..2 -> Nodes(h)]
    /\ \A i \in 1..2 : h.node[Kid(h, n, i)].parent = n
    /\ B[n] = B[Kid(h, n, 1)] \cup B[Kid(h, n, 2)]
    /\ B[Kid(h, n, 1)] \cap B[Kid(h, n, 2)] = {}
LeafOK(h, B, n) ==
    h.node[n].client \in Window /\ B[n] = {h.node[n].client} /\ h.node[n].children = <<>>

\* Every other node is a child of its parent, and the root has all the windows.
RootOK(h, B) ==
    h.root \in Nodes(h) /\ h.node[h.root].parent = None
    /\ \A n \in Nodes(h) : B[n] \subseteq B[h.root]
ParentOK(h, n) ==
    h.node[n].parent \in Inner(h) /\ \E i \in 1..2 : Kid(h, h.node[n].parent, i) = n

\* As many inner nodes as leaves, less one.
Counted(h, B) == Cardinality(Nodes(h)) + 1 = 2 * Cardinality(B[h.root])

Shape(h, B) ==
    /\ h \in Heaps /\ B \in [Nodes(h) -> SUBSET Window]
    /\ IF h.root = None THEN Nodes(h) = {} ELSE RootOK(h, B) /\ Counted(h, B)
    /\ \A n \in Inner(h) : InnerOK(h, B, n)
    /\ \A n \in Nodes(h) \ Inner(h) : LeafOK(h, B, n)
    /\ \A n \in Nodes(h) \ {h.root} : ParentOK(h, n)
    /\ \A n \in Nodes(h) : B[n] # {}
    /\ \A n, m \in Nodes(h) : Nested(h, B, n, m)

Halves(h, B, n) == <<B[Kid(h, n, 1)], B[Kid(h, n, 2)]>>
Meant(h, B) ==
    [leaves |-> IF h.root = None THEN {} ELSE B[h.root],
     splits |-> {Halves(h, B, n) : n \in Inner(h)}]

\* The heap is a tree, and means the tree of splits t.
Realizes(h, t) == \E B : Shape(h, B) /\ t = Meant(h, B)

IInv == Realizes(heap, meaning)

-----------------------------------------------------------------------------
(***************************************************************************)
(* The windows below a node are finitely many, and fewer below a child.    *)
(***************************************************************************)
LEMMA Sizes ==
    ASSUME NEW h, NEW B, Shape(h, B), NEW n \in Nodes(h)
    PROVE  /\ B[n] \subseteq Window /\ B[n] # {} /\ IsFiniteSet(B[n])
           /\ Cardinality(B[n]) \in 0..Cardinality(Window)
<1>1. B[n] \in SUBSET Window /\ B[n] # {}
  BY DEF Shape
<1>2. IsFiniteSet(B[n]) /\ Cardinality(B[n]) <= Cardinality(Window)
  BY <1>1, WindowAssumption, FS_Subset
<1>3. Cardinality(B[n]) \in Nat /\ Cardinality(Window) \in Nat
  BY <1>2, WindowAssumption, FS_CardinalityType
<1> QED BY <1>1, <1>2, <1>3

LEMMA HasRoot ==
    ASSUME NEW h, NEW B, Shape(h, B), NEW n \in Nodes(h)
    PROVE  h.root # None /\ RootOK(h, B) /\ Counted(h, B)
<1>1. IF h.root = None THEN Nodes(h) = {} ELSE RootOK(h, B) /\ Counted(h, B)
  BY DEF Shape
<1> QED BY <1>1

LEMMA Fewer ==
    ASSUME NEW h, NEW B, Shape(h, B), NEW n \in Nodes(h), NEW m \in Nodes(h),
           B[m] \subseteq B[n], B[m] # B[n]
    PROVE  Cardinality(B[m]) < Cardinality(B[n])
<1>1. Cardinality(B[m]) <= Cardinality(B[n]) /\ Cardinality(B[m]) # Cardinality(B[n])
  BY Sizes, FS_Subset
<1> QED BY <1>1, Sizes

LEMMA Kids ==
    ASSUME NEW h, NEW B, Shape(h, B), NEW n \in Inner(h), NEW i \in 1..2
    PROVE  /\ Kid(h, n, i) \in Nodes(h) /\ h.node[Kid(h, n, i)].parent = n
           /\ B[Kid(h, n, i)] \subseteq B[n]
           /\ Cardinality(B[Kid(h, n, i)]) < Cardinality(B[n])
<1>1. InnerOK(h, B, n) /\ n \in Nodes(h)
  BY DEF Shape, Inner
<1>2. \A j \in 1..2 : Kid(h, n, j) \in Nodes(h)
  BY <1>1 DEF InnerOK, Kid
<1>3. i = 1 \/ i = 2
  OBVIOUS
<1>4. \A j \in 1..2 : B[Kid(h, n, j)] # {}
  BY <1>2 DEF Shape
<1>5. B[Kid(h, n, i)] \subseteq B[n] /\ B[Kid(h, n, i)] # B[n]
  BY <1>1, <1>3, <1>4 DEF InnerOK
<1>6. Cardinality(B[Kid(h, n, i)]) < Cardinality(B[n])
  BY <1>1, <1>2, <1>5, Fewer
<1> QED BY <1>1, <1>2, <1>5, <1>6 DEF InnerOK

(***************************************************************************)
(* Induction along the pointers, from the leaves up and from the root      *)
(* down: a node where it fails has a child, or a parent, where it fails.   *)
(***************************************************************************)
LEMMA FromLeaves ==
    ASSUME NEW h, NEW B, Shape(h, B), NEW T \in SUBSET Nodes(h),
           \A n \in Nodes(h) \ Inner(h) : n \in T,
           \A n \in Inner(h) : Kid(h, n, 1) \in T /\ Kid(h, n, 2) \in T => n \in T
    PROVE  T = Nodes(h)
<1>1. SUFFICES ASSUME Nodes(h) \ T # {} PROVE FALSE
  OBVIOUS
<1> DEFINE C == {Cardinality(B[n]) : n \in Nodes(h) \ T}
<1>2. C \in SUBSET Nat /\ C # {}
  <2>1. \A n \in Nodes(h) \ T : Cardinality(B[n]) \in Nat
    BY Sizes
  <2> QED BY <1>1, <2>1
<1>3. PICK k \in C : \A j \in C : k <= j
  <2> HIDE DEF C
  <2> QED BY <1>2, Least
<1>4. PICK n \in Nodes(h) \ T : k = Cardinality(B[n])
  OBVIOUS
<1>5. PICK i \in 1..2 : n \in Inner(h) /\ Kid(h, n, i) \notin T
  OBVIOUS
<1>6. Cardinality(B[Kid(h, n, i)]) \in C /\ Cardinality(B[Kid(h, n, i)]) < k
  BY <1>4, <1>5, Kids
<1>7. k \in Nat /\ Cardinality(B[Kid(h, n, i)]) \in Nat
  BY <1>2, <1>6
<1> QED BY <1>3, <1>6, <1>7

LEMMA Parents ==
    ASSUME NEW h, NEW B, Shape(h, B), NEW n \in Nodes(h), n # h.root
    PROVE  /\ h.node[n].parent \in Inner(h) /\ h.node[n].parent # None
           /\ \E i \in 1..2 : Kid(h, h.node[n].parent, i) = n
           /\ B[n] \subseteq B[h.node[n].parent]
           /\ Cardinality(B[n]) < Cardinality(B[h.node[n].parent])
<1>1. ParentOK(h, n)
  BY DEF Shape
<1>2. Nodes(h) \subseteq Node
  BY DEF Shape, Heaps, Nodes
<1>3. h.node[n].parent # None
  BY <1>1, <1>2, NoneAssumption DEF ParentOK, Inner
<1> QED BY <1>1, <1>3, Kids DEF ParentOK

Descends(h, T) ==
    \A n \in Nodes(h) : n = h.root \/ h.node[n].parent \in T => n \in T

LEMMA FromRoot ==
    ASSUME NEW h, NEW B, Shape(h, B), NEW T \in SUBSET Nodes(h), Descends(h, T)
    PROVE  T = Nodes(h)
<1>1. SUFFICES ASSUME Nodes(h) \ T # {} PROVE FALSE
  OBVIOUS
<1> DEFINE size(n) == Cardinality(Window) - Cardinality(B[n])
           C == {size(n) : n \in Nodes(h) \ T}
<1>2. C \in SUBSET Nat /\ C # {}
  <2>1. ASSUME NEW n \in Nodes(h) PROVE size(n) \in Nat
    <3>1. Cardinality(Window) \in Nat
      BY WindowAssumption, FS_CardinalityType
    <3> QED BY <3>1, Sizes
  <2> QED BY <1>1, <2>1
<1>3. PICK k \in C : \A j \in C : k <= j
  <2> HIDE DEF C
  <2> QED BY <1>2, Least
<1>4. PICK n \in Nodes(h) \ T : k = size(n)
  OBVIOUS
<1> DEFINE p == h.node[n].parent
<1>5. n # h.root /\ p \notin T
  <2> HIDE DEF size
  <2> QED BY DEF Descends
<1>6. p \in Nodes(h) \ T /\ Cardinality(B[n]) < Cardinality(B[p])
  <2>1. p \in Nodes(h) /\ Cardinality(B[n]) < Cardinality(B[p])
    BY <1>5, Parents DEF Inner
  <2> QED BY <1>5, <2>1
<1> HIDE DEF p
<1>7. size(p) \in C /\ size(p) < size(n)
  <2>1. size(p) < size(n)
    <3>1. /\ Cardinality(B[n]) \in Nat /\ Cardinality(B[p]) \in Nat
          /\ Cardinality(Window) \in Nat
      BY <1>4, <1>6, Sizes, WindowAssumption, FS_CardinalityType
    <3> QED BY <1>6, <3>1
  <2> HIDE DEF size
  <2> QED BY <1>6, <2>1
<1>8. size(p) \in Nat /\ size(n) \in Nat
  BY <1>2, <1>4, <1>7
<1> HIDE DEF C, size
<1> QED BY <1>3, <1>4, <1>7, <1>8

-----------------------------------------------------------------------------
(***************************************************************************)
(* The recursive functions.  The windows that MeaningOf collects below a   *)
(* node are those of B.                                                    *)
(***************************************************************************)
LEMMA MeaningIs ==
    ASSUME NEW h, NEW B, Shape(h, B)
    PROVE  MeaningOf(h) = Meant(h, B)
<1> DEFINE below[n \in DOMAIN h.node] ==
               IF h.node[n].is_node THEN UNION {below[m] : m \in Range(h.node[n].children)}
               ELSE {h.node[n].client}
           split(n) == <<below[h.node[n].children[1]], below[h.node[n].children[2]]>>
<1>1. B \in [DOMAIN h.node -> SUBSET Window]
  BY DEF Shape, Nodes
<1>2. ASSUME NEW n \in Inner(h)
      PROVE  Range(h.node[n].children) = {Kid(h, n, 1), Kid(h, n, 2)}
  <2>1. InnerOK(h, B, n)
    BY DEF Shape
  <2> QED BY <2>1 DEF InnerOK, Kid, Range
<1>3. ASSUME NEW n \in DOMAIN h.node
      PROVE  B[n] = IF h.node[n].is_node THEN UNION {B[m] : m \in Range(h.node[n].children)}
                    ELSE {h.node[n].client}
  <2>1. CASE n \in Inner(h)
    <3>1. InnerOK(h, B, n) /\ h.node[n].is_node
      BY <2>1 DEF Shape, Inner
    <3>2. UNION {B[m] : m \in Range(h.node[n].children)} = B[n]
      BY <1>2, <2>1, <3>1 DEF InnerOK
    <3> QED BY <3>1, <3>2
  <2>2. CASE n \notin Inner(h)
    BY <2>2 DEF Shape, Inner, LeafOK, Nodes
  <2> QED BY <2>1, <2>2
<1>4. below = [n \in DOMAIN h.node |->
                 IF h.node[n].is_node THEN UNION {below[m] : m \in Range(h.node[n].children)}
                 ELSE {h.node[n].client}]
  <2>1. B = [n \in DOMAIN h.node |->
               IF h.node[n].is_node THEN UNION {B[m] : m \in Range(h.node[n].children)}
               ELSE {h.node[n].client}]
    BY <1>1, <1>3
  <2> QED BY <2>1
<1> HIDE DEF below
<1> DEFINE T == {n \in Nodes(h) : below[n] = B[n]}
<1>5. \A n \in Nodes(h) \ Inner(h) : n \in T
  BY <1>3, <1>4 DEF Nodes, Inner
<1>6. ASSUME NEW n \in Inner(h), Kid(h, n, 1) \in T, Kid(h, n, 2) \in T PROVE n \in T
  <2>1. UNION {below[m] : m \in Range(h.node[n].children)}
          = UNION {B[m] : m \in Range(h.node[n].children)}
    BY <1>2, <1>6
  <2> QED BY <1>3, <1>4, <2>1 DEF Nodes, Inner
<1>7. T = Nodes(h)
  <2> HIDE DEF T
  <2>1. T \in SUBSET Nodes(h)
    BY DEF T
  <2> QED BY <1>5, <1>6, <2>1, FromLeaves
<1>8. \A n \in Nodes(h) : below[n] = B[n]
  BY <1>7
<1>9. MeaningOf(h) = [leaves |-> IF h.root = None THEN {} ELSE below[h.root],
                      splits |-> {split(n) : n \in {m \in DOMAIN h.node : h.node[m].is_node}}]
  BY DEF MeaningOf, below
<1>10. h.root = None \/ below[h.root] = B[h.root]
  BY <1>8 DEF Shape, RootOK
<1>11. \A n \in Inner(h) : split(n) = Halves(h, B, n)
  BY <1>8, Kids DEF Halves, Kid
<1>12. {m \in DOMAIN h.node : h.node[m].is_node} = Inner(h)
  BY DEF Inner, Nodes
<1> HIDE DEF split
<1> QED BY <1>9, <1>10, <1>11, <1>12 DEF Meant

(***************************************************************************)
(* dwindle_find_leaf finds the leaf of a window that has one.              *)
(***************************************************************************)
Leaves(h) == Nodes(h) \ Inner(h)

LEMMA OneLeaf ==
    ASSUME NEW h, NEW B, Shape(h, B), NEW n \in Nodes(h), NEW m \in Leaves(h),
           B[n] \subseteq B[m]
    PROVE  n = m
<1>1. LeafOK(h, B, m) /\ m \in Nodes(h) /\ m \notin Inner(h) /\ Nested(h, B, n, m)
  BY DEF Shape, Leaves
<1>2. B[n] # {} /\ B[n] = B[m]
  BY <1>1, Sizes DEF LeafOK
<1>3. CASE Below(h, B, m, n)
  <2>1. PICK i \in 1..2 : n \in Inner(h) /\ B[m] \subseteq B[Kid(h, n, i)]
    BY <1>3 DEF Below
  <2>2. B[Kid(h, n, i)] \subseteq B[n] /\ Cardinality(B[Kid(h, n, i)]) < Cardinality(B[n])
    BY <2>1, Kids
  <2>3. B[Kid(h, n, i)] = B[n]
    BY <1>2, <2>1, <2>2
  <2> QED BY <2>2, <2>3, Sizes
<1> QED BY <1>1, <1>2, <1>3 DEF Nested, Below

LEMMA LeafBelow ==
    ASSUME NEW h, NEW B, Shape(h, B), NEW n \in Nodes(h), NEW c \in B[n]
    PROVE  \E m \in Leaves(h) : h.node[m].client = c /\ B[m] = {c}
<1> DEFINE has(m) == c \in B[m] => \E l \in Leaves(h) : h.node[l].client = c /\ B[l] = {c}
           T == {m \in Nodes(h) : has(m)}
<1>1. \A m \in Nodes(h) \ Inner(h) : m \in T
  <2>1. \A m \in Nodes(h) \ Inner(h) : LeafOK(h, B, m)
    BY DEF Shape
  <2> QED BY <2>1 DEF LeafOK, Leaves
<1>2. \A m \in Inner(h) : Kid(h, m, 1) \in T /\ Kid(h, m, 2) \in T => m \in T
  <2>1. \A m \in Inner(h) : InnerOK(h, B, m) /\ m \in Nodes(h)
    BY DEF Shape, Inner
  <2>2. \A m \in Inner(h) : c \in B[m] => c \in B[Kid(h, m, 1)] \/ c \in B[Kid(h, m, 2)]
    BY <2>1 DEF InnerOK
  <2> QED BY <2>1, <2>2
<1>3. T = Nodes(h)
  <2> HIDE DEF T
  <2>1. T \in SUBSET Nodes(h)
    BY DEF T
  <2> QED BY <1>1, <1>2, <2>1, FromLeaves
<1> QED BY <1>3

LEMMA FindsLeaf ==
    ASSUME NEW h, NEW B, Shape(h, B), NEW c
    PROVE  \/ /\ h.root # None /\ c \in B[h.root] /\ find_leaf(h, c) \in Leaves(h)
              /\ h.node[find_leaf(h, c)].client = c /\ B[find_leaf(h, c)] = {c}
           \/ (h.root = None \/ c \notin B[h.root]) /\ find_leaf(h, c) = None
<1> DEFINE kid(n, i) == h.node[n].children[i]
           found[n \in DOMAIN h.node] ==
               IF h.node[n].is_node
               THEN IF found[h.node[n].children[1]] # None
                    THEN found[h.node[n].children[1]] ELSE found[h.node[n].children[2]]
               ELSE IF h.node[n].client = c THEN n ELSE None
           IsLeafOf(m) == m \in Leaves(h) /\ h.node[m].client = c /\ B[m] = {c}
           it == CHOOSE m : IsLeafOf(m)
           F == [n \in DOMAIN h.node |-> IF c \in B[n] THEN it ELSE None]
<1>1. ASSUME NEW n \in Nodes(h), c \in B[n] PROVE IsLeafOf(it)
  <2>1. \E m : IsLeafOf(m)
    BY <1>1, LeafBelow
  <2> HIDE DEF IsLeafOf
  <2> QED BY <2>1
<1>2. None \notin Nodes(h)
  BY NoneAssumption DEF Shape, Heaps, Nodes
<1> HIDE DEF it
<1>3. ASSUME NEW n \in DOMAIN h.node
      PROVE  F[n] = IF h.node[n].is_node
                    THEN IF F[h.node[n].children[1]] # None
                         THEN F[h.node[n].children[1]] ELSE F[h.node[n].children[2]]
                    ELSE IF h.node[n].client = c THEN n ELSE None
  <2>1. CASE n \in Inner(h)
    <3>1. InnerOK(h, B, n) /\ h.node[n].is_node
      BY <2>1 DEF Shape, Inner
    <3>2. Kid(h, n, 1) \in DOMAIN h.node /\ Kid(h, n, 2) \in DOMAIN h.node
      BY <2>1, Kids DEF Nodes
    <3>3. c \in B[n] => it # None
      BY <1>1, <1>2 DEF Leaves, Nodes
    <3> QED BY <3>1, <3>2, <3>3 DEF InnerOK, Kid
  <2>2. CASE n \notin Inner(h)
    <3>1. LeafOK(h, B, n) /\ ~h.node[n].is_node /\ n \in Leaves(h)
      BY <2>2 DEF Shape, Inner, Leaves, Nodes
    <3>2. c \in B[n] => n = it
      <4>1. ASSUME c \in B[n] PROVE n = it
        <5>1. IsLeafOf(it) /\ B[n] = {c}
          BY <1>1, <3>1, <4>1 DEF LeafOK, Nodes
        <5> QED BY <3>1, <5>1, OneLeaf DEF Leaves
      <4> QED BY <4>1
    <3> QED BY <3>1, <3>2 DEF LeafOK
  <2> QED BY <2>1, <2>2
<1>4. found = [n \in DOMAIN h.node |->
                 IF h.node[n].is_node
                 THEN IF found[h.node[n].children[1]] # None
                      THEN found[h.node[n].children[1]] ELSE found[h.node[n].children[2]]
                 ELSE IF h.node[n].client = c THEN n ELSE None]
  <2>1. F = [n \in DOMAIN h.node |->
               IF h.node[n].is_node
               THEN IF F[h.node[n].children[1]] # None
                    THEN F[h.node[n].children[1]] ELSE F[h.node[n].children[2]]
               ELSE IF h.node[n].client = c THEN n ELSE None]
    <3>1. F = [n \in DOMAIN h.node |-> F[n]]
      OBVIOUS
    <3> HIDE DEF F
    <3> QED BY <1>3, <3>1
  <2> HIDE DEF F
  <2> QED BY <2>1
<1> HIDE DEF found
<1> DEFINE T == {n \in Nodes(h) : found[n] = F[n]}
<1>5. \A n \in Nodes(h) \ Inner(h) : n \in T
  <2> HIDE DEF F
  <2> QED BY <1>3, <1>4 DEF Nodes, Inner
<1>6. ASSUME NEW n \in Inner(h), Kid(h, n, 1) \in T, Kid(h, n, 2) \in T PROVE n \in T
  <2> HIDE DEF F
  <2> QED BY <1>3, <1>4, <1>6 DEF Nodes, Inner, Kid
<1>7. T = Nodes(h)
  <2> HIDE DEF T
  <2>1. T \in SUBSET Nodes(h)
    BY DEF T
  <2> QED BY <1>5, <1>6, <2>1, FromLeaves
<1>8. find_leaf(h, c) = IF h.root = None THEN None ELSE found[h.root]
  BY DEF find_leaf, found
<1>9. CASE h.root = None
  BY <1>8, <1>9
<1>10. CASE h.root # None
  <2>1. h.root \in Nodes(h)
    BY <1>10 DEF Shape, RootOK
  <2>2. find_leaf(h, c) = IF c \in B[h.root] THEN it ELSE None
    BY <1>7, <1>8, <1>10, <2>1 DEF Nodes
  <2> HIDE DEF T, F
  <2> QED BY <1>1, <1>10, <2>1, <2>2
<1> QED BY <1>9, <1>10

(***************************************************************************)
(* dwindle_first_leaf finds the leaf that all the others are after.        *)
(***************************************************************************)
IsFirst(h, B, n, m) ==
    /\ m \in Leaves(h) /\ B[m] \subseteq B[n]
    /\ \A w \in B[n] \ B[m] : \E k \in Inner(h) :
         B[m] \subseteq B[Kid(h, k, 1)] /\ w \in B[Kid(h, k, 2)]

LEMMA DownExists ==
    ASSUME NEW h, NEW B, Shape(h, B), Nodes(h) # {}
    PROVE  \E f \in [Nodes(h) -> Nodes(h)] : \A n \in Nodes(h) :
               f[n] = IF h.node[n].is_node THEN f[h.node[n].children[1]] ELSE n
<1> DEFINE D == Nodes(h)
           N == Cardinality(Window)
           rank == [n \in D |-> Cardinality(B[n])]
           G == [p \in D \X [D -> D] |->
                   IF h.node[p[1]].is_node THEN p[2][h.node[p[1]].children[1]] ELSE p[1]]
<1>1. ASSUME NEW n \in D, h.node[n].is_node
      PROVE  h.node[n].children[1] \in D /\ rank[h.node[n].children[1]] < rank[n]
  <2>1. n \in Inner(h)
    BY <1>1 DEF Inner
  <2> QED BY <2>1, Kids DEF Kid
<1>2. N \in Nat /\ rank \in [D -> 0..N]
  BY Sizes, WindowAssumption, FS_CardinalityType
<1> HIDE DEF D, rank, N
<1>3. ASSUME NEW n \in D, NEW f \in [D -> D]
      PROVE  G[<<n, f>>] = IF h.node[n].is_node THEN f[h.node[n].children[1]] ELSE n
  OBVIOUS
<1>4. G \in [D \X [D -> D] -> D]
  <2>1. ASSUME NEW p \in D \X [D -> D]
        PROVE  (IF h.node[p[1]].is_node THEN p[2][h.node[p[1]].children[1]] ELSE p[1]) \in D
    <3>1. p[1] \in D /\ p[2] \in [D -> D]
      OBVIOUS
    <3> QED BY <1>1, <3>1
  <2> QED BY <2>1
<1> HIDE DEF G
<1>5. Grounded(D, D, rank, G)
  <2> SUFFICES ASSUME NEW n \in D, NEW f \in [D -> D], NEW g \in [D -> D],
                      \A m \in D : rank[m] < rank[n] => f[m] = g[m]
               PROVE  G[<<n, f>>] = G[<<n, g>>]
    BY DEF Grounded
  <2>1. h.node[n].is_node => f[h.node[n].children[1]] = g[h.node[n].children[1]]
    BY <1>1
  <2> QED BY <1>3, <2>1
<1>6. PICK r \in D : TRUE
  BY DEF D
<1>7. PICK f \in [D -> D] : \A n \in D : f[n] = G[<<n, f>>]
  <2>1. Solutions(D, D, G) # {}
    BY <1>2, <1>4, <1>5, <1>6, RecursionExists
  <2> QED BY <2>1 DEF Solutions
<1>8. \A n \in D : f[n] = IF h.node[n].is_node THEN f[h.node[n].children[1]] ELSE n
  BY <1>3, <1>7
<1> QED BY <1>7, <1>8 DEF D

LEMMA FirstLeaf ==
    ASSUME NEW h, NEW B, Shape(h, B), NEW n \in Nodes(h)
    PROVE  IsFirst(h, B, n, first_leaf(h, n))
<1> DEFINE down[m \in DOMAIN h.node] ==
               IF h.node[m].is_node THEN down[h.node[m].children[1]] ELSE m
<1>1. PICK f \in [Nodes(h) -> Nodes(h)] : \A m \in Nodes(h) :
               f[m] = IF h.node[m].is_node THEN f[h.node[m].children[1]] ELSE m
  BY DownExists
<1>2. down = [m \in DOMAIN h.node |->
                IF h.node[m].is_node THEN down[h.node[m].children[1]] ELSE m]
  <2>1. f = [m \in DOMAIN h.node |->
               IF h.node[m].is_node THEN f[h.node[m].children[1]] ELSE m]
    BY <1>1 DEF Nodes
  <2> QED BY <2>1
<1> HIDE DEF down
<1> DEFINE T == {m \in Nodes(h) : IsFirst(h, B, m, down[m])}
<1>3. ASSUME NEW m \in Nodes(h) \ Inner(h) PROVE m \in T
  <2>1. down[m] = m /\ m \in Leaves(h)
    BY <1>2 DEF Inner, Nodes, Leaves
  <2> QED BY <2>1 DEF IsFirst
<1>4. ASSUME NEW m \in Inner(h), Kid(h, m, 1) \in T, Kid(h, m, 2) \in T PROVE m \in T
  <2> DEFINE l == down[Kid(h, m, 1)]
  <2>1. down[m] = l /\ m \in Nodes(h) /\ InnerOK(h, B, m)
    BY <1>2 DEF Inner, Nodes, Kid, Shape
  <2>2. IsFirst(h, B, Kid(h, m, 1), l)
    BY <1>4
  <2> HIDE DEF l, T
  <2>3. l \in Leaves(h) /\ B[l] \subseteq B[Kid(h, m, 1)] /\ B[l] \subseteq B[m]
    BY <2>1, <2>2 DEF IsFirst, InnerOK
  <2>4. ASSUME NEW w \in B[m] \ B[l]
        PROVE  \E k \in Inner(h) : B[l] \subseteq B[Kid(h, k, 1)] /\ w \in B[Kid(h, k, 2)]
    <3>1. CASE w \in B[Kid(h, m, 1)]
      BY <2>2, <2>4, <3>1 DEF IsFirst
    <3>2. CASE w \in B[Kid(h, m, 2)]
      BY <2>3, <3>2
    <3> QED BY <2>1, <2>4, <3>1, <3>2 DEF InnerOK
  <2> QED BY <2>1, <2>3, <2>4 DEF T, IsFirst
<1>5. T = Nodes(h)
  <2> HIDE DEF T
  <2>1. T \in SUBSET Nodes(h)
    BY DEF T
  <2> QED BY <1>3, <1>4, <2>1, FromLeaves
<1>6. first_leaf(h, n) = IF n = None THEN None ELSE down[n]
  BY DEF first_leaf, down
<1>7. n # None
  BY NoneAssumption DEF Shape, Heaps, Nodes
<1> QED BY <1>5, <1>6, <1>7

(***************************************************************************)
(* Which half of another split the windows of an inner node are in.        *)
(***************************************************************************)
LEMMA Halved ==
    ASSUME NEW h, NEW B, Shape(h, B), NEW n \in Inner(h), NEW m \in Nodes(h),
           NEW i \in 1..2, B[m] \subseteq B[Kid(h, n, i)]
    PROVE  /\ B[m] \subseteq B[n] /\ B[m] # B[n]
           /\ \A j \in 1..2 : j # i => B[m] \cap B[Kid(h, n, j)] = {}
<1>1. InnerOK(h, B, n) /\ n \in Nodes(h)
  BY DEF Shape, Inner
<1>2. /\ B[Kid(h, n, i)] \subseteq B[n]
      /\ Cardinality(B[Kid(h, n, i)]) < Cardinality(B[n])
  BY Kids
<1>3. B[m] # B[n]
  <2>1. B[m] = B[n] => B[Kid(h, n, i)] = B[n]
    BY <1>2
  <2> QED BY <1>1, <1>2, <2>1, Sizes
<1>4. i = 1 \/ i = 2
  OBVIOUS
<1> QED BY <1>1, <1>2, <1>3, <1>4 DEF InnerOK

LEMMA Around ==
    ASSUME NEW h, NEW B, Shape(h, B), NEW k \in Inner(h), NEW p \in Inner(h),
           NEW i \in 1..2, NEW j \in 1..2, NEW m \in Nodes(h),
           B[m] \subseteq B[Kid(h, p, i)], B[m] \subseteq B[Kid(h, k, j)],
           ~(B[k] \subseteq B[Kid(h, p, i)])
    PROVE  (k = p /\ i = j) \/ B[p] \subseteq B[Kid(h, k, j)]
<1>1. k \in Nodes(h) /\ p \in Nodes(h) /\ Nested(h, B, k, p)
  BY DEF Shape, Inner
<1>2. /\ B[m] \subseteq B[p] /\ \A a \in 1..2 : a # i => B[m] \cap B[Kid(h, p, a)] = {}
      /\ B[m] \subseteq B[k] /\ \A a \in 1..2 : a # j => B[m] \cap B[Kid(h, k, a)] = {}
      /\ B[m] # {}
  BY Halved, Sizes
<1>3. CASE Below(h, B, k, p)
  <2>1. PICK a \in 1..2 : B[k] \subseteq B[Kid(h, p, a)]
    BY <1>3 DEF Below
  <2> QED BY <1>2, <2>1
<1>4. CASE Below(h, B, p, k)
  <2>1. PICK a \in 1..2 : B[p] \subseteq B[Kid(h, k, a)]
    BY <1>4 DEF Below
  <2> QED BY <1>2, <2>1
<1>5. CASE k = p
  BY <1>2, <1>5
<1> QED BY <1>1, <1>2, <1>3, <1>4, <1>5 DEF Nested

(***************************************************************************)
(* dwindle_next_leaf finds the next leaf: up to the first node that is not *)
(* the second child of its parent, over to its sibling, down to the first  *)
(* leaf there.                                                             *)
(***************************************************************************)
IsLast(h, B, n, u) ==
    /\ u \in Nodes(h) /\ ~IsSecond(h, u) /\ B[n] \subseteq B[u]
    /\ \A k \in Inner(h) : B[n] \subseteq B[Kid(h, k, 1)] => B[u] \subseteq B[Kid(h, k, 1)]

LEMMA UpExists ==
    ASSUME NEW h, NEW B, Shape(h, B), Nodes(h) # {}
    PROVE  \E f \in [Nodes(h) -> Nodes(h)] : \A n \in Nodes(h) :
               f[n] = IF IsSecond(h, n) THEN f[h.node[n].parent] ELSE n
<1> DEFINE D == Nodes(h)
           N == Cardinality(Window)
           rank == [n \in D |-> N - Cardinality(B[n])]
           G == [p \in D \X [D -> D] |->
                   IF IsSecond(h, p[1]) THEN p[2][h.node[p[1]].parent] ELSE p[1]]
<1>1. N \in Nat /\ \A n \in D : Cardinality(B[n]) \in 0..N
  BY Sizes, WindowAssumption, FS_CardinalityType
<1>2. ASSUME NEW n \in D, IsSecond(h, n)
      PROVE  h.node[n].parent \in D /\ rank[h.node[n].parent] < rank[n]
  <2> DEFINE p == h.node[n].parent
  <2>1. n # h.root
    BY <1>2, HasRoot DEF IsSecond, RootOK
  <2>2. p \in D /\ Cardinality(B[n]) < Cardinality(B[p])
    BY <2>1, Parents DEF Inner
  <2> HIDE DEF p, D, N
  <2>3. rank[n] = N - Cardinality(B[n]) /\ rank[p] = N - Cardinality(B[p])
    BY <2>2
  <2>4. rank[p] < rank[n]
    BY <1>1, <2>2, <2>3
  <2> QED BY <2>2, <2>4 DEF p
<1>3. rank \in [D -> 0..N]
  <2>1. \A n \in D : N - Cardinality(B[n]) \in 0..N
    BY <1>1
  <2> QED BY <2>1
<1> HIDE DEF D, rank, N
<1>4. ASSUME NEW n \in D, NEW f \in [D -> D]
      PROVE  G[<<n, f>>] = IF IsSecond(h, n) THEN f[h.node[n].parent] ELSE n
  OBVIOUS
<1>5. G \in [D \X [D -> D] -> D]
  <2>1. ASSUME NEW p \in D \X [D -> D]
        PROVE  (IF IsSecond(h, p[1]) THEN p[2][h.node[p[1]].parent] ELSE p[1]) \in D
    <3>1. p[1] \in D /\ p[2] \in [D -> D]
      OBVIOUS
    <3> QED BY <1>2, <3>1
  <2> QED BY <2>1
<1> HIDE DEF G
<1>6. Grounded(D, D, rank, G)
  <2> SUFFICES ASSUME NEW n \in D, NEW f \in [D -> D], NEW g \in [D -> D],
                      \A m \in D : rank[m] < rank[n] => f[m] = g[m]
               PROVE  G[<<n, f>>] = G[<<n, g>>]
    BY DEF Grounded
  <2>1. IsSecond(h, n) => f[h.node[n].parent] = g[h.node[n].parent]
    BY <1>2
  <2> QED BY <1>4, <2>1
<1>7. PICK r \in D : TRUE
  BY DEF D
<1>8. PICK f \in [D -> D] : \A n \in D : f[n] = G[<<n, f>>]
  <2>1. Solutions(D, D, G) # {}
    BY <1>1, <1>3, <1>5, <1>6, <1>7, RecursionExists
  <2> QED BY <2>1 DEF Solutions
<1>9. \A n \in D : f[n] = IF IsSecond(h, n) THEN f[h.node[n].parent] ELSE n
  BY <1>4, <1>8
<1> QED BY <1>8, <1>9 DEF D

After(h, B, c) ==
    UNION {B[Kid(h, k, 2)] : k \in {k \in Inner(h) : c \in B[Kid(h, k, 1)]}}

LEMMA LastStep ==
    ASSUME NEW h, NEW B, Shape(h, B), NEW n \in Nodes(h), IsSecond(h, n),
           NEW u, IsLast(h, B, h.node[n].parent, u)
    PROVE  IsLast(h, B, n, u)
<1> DEFINE p == h.node[n].parent
<1>1. n # h.root
  BY HasRoot DEF IsSecond, RootOK
<1>2. p \in Inner(h) /\ B[n] \subseteq B[p] /\ Kid(h, p, 2) = n
  BY <1>1, Parents DEF IsSecond, Kid
<1> HIDE DEF p
<1>3. ASSUME NEW k \in Inner(h), B[n] \subseteq B[Kid(h, k, 1)]
      PROVE  B[p] \subseteq B[Kid(h, k, 1)]
  <2>1. B[Kid(h, k, 1)] \subseteq B[k] /\ k \in Nodes(h)
        /\ Cardinality(B[Kid(h, k, 1)]) < Cardinality(B[k])
    BY Kids DEF Inner
  <2>2. ~(B[k] \subseteq B[n])
    <3>1. B[k] \subseteq B[n] => B[Kid(h, k, 1)] = B[k]
      BY <1>3, <2>1
    <3> QED BY <2>1, <3>1, Sizes
  <2> QED BY <1>2, <1>3, <2>2, Around
<1>4. IsLast(h, B, p, u)
  BY DEF p
<1> QED BY <1>2, <1>3, <1>4 DEF IsLast

LEMMA NextLeaf ==
    ASSUME NEW h, NEW B, Shape(h, B), NEW m \in Leaves(h), NEW c, B[m] = {c}
    PROVE  \/ next_leaf(h, m) = None /\ After(h, B, c) = {}
           \/ \E d : /\ next_leaf(h, m) \in Leaves(h) /\ B[next_leaf(h, m)] = {d}
                     /\ h.node[next_leaf(h, m)].client = d
                     /\ After(h, B, c) = {d} \cup After(h, B, d)
<1> DEFINE up[n \in DOMAIN h.node] ==
               IF IsSecond(h, n) THEN up[h.node[n].parent] ELSE n
<1>1. PICK f \in [Nodes(h) -> Nodes(h)] : \A n \in Nodes(h) :
               f[n] = IF IsSecond(h, n) THEN f[h.node[n].parent] ELSE n
  BY UpExists DEF Leaves
<1>2. up = [n \in DOMAIN h.node |-> IF IsSecond(h, n) THEN up[h.node[n].parent] ELSE n]
  <2>1. f = [n \in DOMAIN h.node |-> IF IsSecond(h, n) THEN f[h.node[n].parent] ELSE n]
    BY <1>1 DEF Nodes
  <2> QED BY <2>1
<1> HIDE DEF up
<1> DEFINE T == {n \in Nodes(h) : IsLast(h, B, n, up[n])}
<1>3. ASSUME NEW n \in Nodes(h), ~IsSecond(h, n) PROVE n \in T
  <2>1. up[n] = n
    BY <1>2, <1>3 DEF Nodes
  <2> QED BY <1>3, <2>1 DEF IsLast
<1>4. h.root \in T
  <2>1. m \in Nodes(h)
    BY DEF Leaves
  <2>2. h.root \in Nodes(h) /\ ~IsSecond(h, h.root)
    BY <2>1, HasRoot DEF RootOK, IsSecond
  <2> QED BY <1>3, <2>2
<1>5. ASSUME NEW n \in Nodes(h) \ {h.root}, h.node[n].parent \in T PROVE n \in T
  <2>1. CASE IsSecond(h, n)
    <3>1. up[n] = up[h.node[n].parent]
      BY <1>2, <2>1 DEF Nodes
    <3>2. IsLast(h, B, h.node[n].parent, up[n])
      BY <1>5, <3>1
    <3> QED BY <2>1, <3>2, LastStep
  <2> QED BY <1>3, <2>1
<1>6. T = Nodes(h)
  <2> HIDE DEF T
  <2>1. T \in SUBSET Nodes(h)
    BY DEF T
  <2>2. Descends(h, T)
    BY <1>4, <1>5 DEF Descends
  <2> QED BY <2>1, <2>2, FromRoot
<1> DEFINE u == up[m]
           p == h.node[u].parent
<1>7. IsLast(h, B, m, u) /\ m \in Nodes(h)
  BY <1>6 DEF Leaves
<1>8. next_leaf(h, m) = IF p = None THEN None ELSE first_leaf(h, h.node[p].children[2])
  <2>1. next_leaf(h, m) =
          IF m \notin DOMAIN h.node \/ p = None THEN None
          ELSE first_leaf(h, h.node[p].children[2])
    BY DEF next_leaf, up
  <2> QED BY <1>7, <2>1 DEF Nodes
<1> HIDE DEF u, p, T
<1>9. \A k \in Inner(h) : c \in B[Kid(h, k, 1)] <=> B[u] \subseteq B[Kid(h, k, 1)]
  BY <1>7 DEF IsLast
<1>10. CASE p = None
  <2>1. u = h.root
    BY <1>7, <1>10, Parents DEF IsLast, p
  <2>2. ASSUME NEW k \in Inner(h) PROVE ~(B[u] \subseteq B[Kid(h, k, 1)])
    <3>1. /\ B[Kid(h, k, 1)] \subseteq B[k] /\ k \in Nodes(h) /\ Kid(h, k, 1) \in Nodes(h)
          /\ Cardinality(B[Kid(h, k, 1)]) < Cardinality(B[k])
      BY Kids DEF Inner
    <3>2. B[k] \subseteq B[u]
      BY <2>1, <3>1, HasRoot DEF RootOK
    <3>3. B[u] \subseteq B[Kid(h, k, 1)] => B[Kid(h, k, 1)] = B[k]
      BY <3>1, <3>2
    <3> QED BY <3>1, <3>3, Sizes
  <2> QED BY <1>8, <1>9, <1>10, <2>2 DEF After
<1>11. CASE p # None
  <2>1. u # h.root
    BY <1>11, <1>7, HasRoot DEF RootOK, p
  <2>2. PICK i \in 1..2 : p \in Inner(h) /\ Kid(h, p, i) = u
    BY <1>7, <2>1, Parents DEF IsLast, p
  <2>3. Kid(h, p, 1) = u
    <3>1. i # 2
      BY <1>7, <1>11, <2>2 DEF IsLast, IsSecond, Kid, p
    <3> QED BY <2>2, <3>1
  <2> DEFINE q == Kid(h, p, 2)
             l == first_leaf(h, q)
             d == h.node[l].client
  <2>4. q \in Nodes(h) /\ IsFirst(h, B, q, l) /\ next_leaf(h, m) = l
    BY <1>8, <1>11, <2>2, Kids, FirstLeaf DEF Kid
  <2> HIDE DEF q, l
  <2>5. l \in Leaves(h) /\ l \in Nodes(h) /\ B[l] = {d} /\ d \in B[q]
    BY <2>4 DEF IsFirst, Leaves, Shape, LeafOK
  <2> HIDE DEF d
  <2>6. ASSUME NEW k \in Inner(h), c \in B[Kid(h, k, 1)]
        PROVE  k = p \/ d \in B[Kid(h, k, 1)]
    <3>1. B[u] \subseteq B[Kid(h, k, 1)] /\ Kid(h, k, 1) \in Nodes(h)
      BY <1>9, <2>6, Kids
    <3>2. B[Kid(h, k, 1)] \subseteq B[k] /\ Cardinality(B[Kid(h, k, 1)]) < Cardinality(B[k])
          /\ k \in Nodes(h)
      BY Kids DEF Inner
    <3>3. ~(B[k] \subseteq B[Kid(h, p, 1)])
      <4>1. B[k] \subseteq B[u] => B[Kid(h, k, 1)] = B[k]
        BY <3>1, <3>2
      <4> QED BY <2>3, <3>1, <3>2, <4>1, Sizes
    <3>4. k = p \/ B[p] \subseteq B[Kid(h, k, 1)]
      BY <1>7, <2>2, <2>3, <3>1, <3>3, Around DEF IsLast
    <3> QED BY <2>2, <2>5, <3>4, Kids DEF q
  <2>7. ASSUME NEW k \in Inner(h), d \in B[Kid(h, k, 1)], ~(B[k] \subseteq B[q])
        PROVE  c \in B[Kid(h, k, 1)]
    <3>1. B[l] \subseteq B[Kid(h, k, 1)] /\ B[l] \subseteq B[Kid(h, p, 2)]
      BY <2>5, <2>7 DEF q
    <3>2. B[p] \subseteq B[Kid(h, k, 1)]
      BY <2>2, <2>5, <2>7, <3>1, Around DEF q
    <3>3. B[u] \subseteq B[p]
      BY <2>2, Kids
    <3> QED BY <1>7, <3>2, <3>3 DEF IsLast
  <2>8. ASSUME NEW w \in After(h, B, c) PROVE w \in {d} \cup After(h, B, d)
    <3>1. PICK k \in Inner(h) : c \in B[Kid(h, k, 1)] /\ w \in B[Kid(h, k, 2)]
      BY DEF After
    <3>2. CASE k = p
      <4>1. w \in B[q]
        BY <3>1, <3>2 DEF q
      <4>2. CASE w \notin B[l]
        <5>1. PICK j \in Inner(h) : B[l] \subseteq B[Kid(h, j, 1)] /\ w \in B[Kid(h, j, 2)]
          BY <2>4, <4>1, <4>2 DEF IsFirst
        <5> QED BY <2>5, <5>1 DEF After
      <4> QED BY <2>5, <4>2
    <3>3. CASE d \in B[Kid(h, k, 1)]
      BY <3>1, <3>3 DEF After
    <3> QED BY <2>6, <3>1, <3>2, <3>3
  <2>9. ASSUME NEW w \in {d} \cup After(h, B, d) PROVE w \in After(h, B, c)
    <3>1. c \in B[Kid(h, p, 1)] /\ p \in Inner(h)
      BY <1>7, <2>2, <2>3 DEF IsLast
    <3>2. CASE w \in B[q]
      BY <3>1, <3>2 DEF After, q
    <3>3. CASE w \in After(h, B, d) /\ w \notin B[q]
      <4>1. PICK k \in Inner(h) : d \in B[Kid(h, k, 1)] /\ w \in B[Kid(h, k, 2)]
        BY <3>3 DEF After
      <4>2. B[Kid(h, k, 2)] \subseteq B[k]
        BY Kids
      <4>3. c \in B[Kid(h, k, 1)]
        BY <2>7, <3>3, <4>1, <4>2
      <4> QED BY <4>1, <4>3 DEF After
    <3> QED BY <2>5, <3>2, <3>3
  <2>10. After(h, B, c) = {d} \cup After(h, B, d)
    BY <2>8, <2>9
  <2> QED BY <2>4, <2>5, <2>10 DEF d
<1> QED BY <1>10, <1>11

-----------------------------------------------------------------------------
(***************************************************************************)
(* dwindle_new_node: a tree without the window c leaves two addresses.     *)
(***************************************************************************)
LEMMA Spare ==
    ASSUME NEW D \in SUBSET Node, Cardinality(D) < Cardinality(Node)
    PROVE  \E n \in Node : n \notin D
<1>1. D # Node
  BY NodeAssumption, FS_CardinalityType
<1> QED BY <1>1

LEMMA Space ==
    ASSUME NEW h, NEW B, Shape(h, B), h.root # None, NEW c \in Window, c \notin B[h.root]
    PROVE  /\ Nodes(h) \in SUBSET Node /\ IsFiniteSet(Nodes(h))
           /\ Cardinality(Nodes(h)) + 2 <= Cardinality(Node)
           /\ Cardinality(Nodes(h)) \in Nat /\ Cardinality(Node) \in Nat
<1>1. Nodes(h) \in SUBSET Node
  BY DEF Shape, Heaps, Nodes
<1>2. IsFiniteSet(Nodes(h)) /\ Cardinality(Nodes(h)) \in Nat /\ Cardinality(Node) \in Nat
  BY <1>1, NodeAssumption, FS_Subset, FS_CardinalityType
<1>3. h.root \in Nodes(h) /\ Counted(h, B)
  BY DEF Shape, RootOK
<1> DEFINE W == B[h.root]
<1>4. W \subseteq Window /\ IsFiniteSet(W)
  BY <1>3, Sizes
<1>5. Counted(h, B) => Cardinality(Nodes(h)) + 1 = 2 * Cardinality(W)
  BY DEF Counted
<1>6. c \notin W
  OBVIOUS
<1> HIDE DEF W
<1>7. Cardinality(W \cup {c}) = Cardinality(W) + 1 /\ Cardinality(W) \in Nat
  BY <1>4, <1>6, FS_AddElement, FS_CardinalityType
<1>8. Cardinality(W \cup {c}) <= Cardinality(Window) /\ Cardinality(Window) \in Nat
  BY <1>4, WindowAssumption, FS_Subset, FS_CardinalityType
<1> QED BY <1>1, <1>2, <1>3, <1>5, <1>7, <1>8, NodeAssumption

(***************************************************************************)
(* What each node holds after a leaf is split.                             *)
(***************************************************************************)
Spliced(h, n, old, new) ==
    IF h.node[n].is_node
    THEN [i \in 1..2 |-> IF Kid(h, n, i) = old THEN new ELSE Kid(h, n, i)] ELSE <<>>

IsBisected(g, h, c, at, first, l, q) ==
    /\ g \in Heaps /\ Nodes(g) = Nodes(h) \cup {l, q}
    /\ g.root = (IF at = h.root THEN q ELSE h.root)
    /\ g.node[l] = [is_node |-> FALSE, client |-> c, parent |-> q, children |-> <<>>]
    /\ g.node[q] = [is_node |-> TRUE, client |-> None, parent |-> h.node[at].parent,
                    children |-> IF first THEN <<l, at>> ELSE <<at, l>>]
    /\ \A n \in Nodes(h) :
         g.node[n] = [is_node |-> h.node[n].is_node, client |-> h.node[n].client,
                      parent |-> IF n = at THEN q ELSE h.node[n].parent,
                      children |-> Spliced(h, n, at, q)]

LEMMA Typed ==
    ASSUME NEW h, h \in Heaps
    PROVE  /\ h = [root |-> h.root, node |-> h.node]
           /\ h.root \in Node \cup {None} /\ Nodes(h) \subseteq Node
           /\ h.node \in [Nodes(h) -> Contents]
BY DEF Heaps, Nodes

LEMMA IsHeap ==
    ASSUME NEW r \in Node \cup {None}, NEW D \in SUBSET Node, NEW f \in [D -> Contents]
    PROVE  [root |-> r, node |-> f] \in Heaps
BY DEF Heaps

LEMMA AllocatedIs ==
    ASSUME NEW h, h \in Heaps, NEW n \in Node, n \notin Nodes(h), NEW x \in Contents
    PROVE  LET g == Allocated(h, n, x)
           IN  /\ g \in Heaps /\ g.root = h.root /\ Nodes(g) = Nodes(h) \cup {n}
               /\ g.node[n] = x /\ \A m \in Nodes(h) : g.node[m] = h.node[m]
<1> DEFINE D == Nodes(h) \cup {n}
           f == [m \in D |-> IF m = n THEN x ELSE h.node[m]]
<1>1. Allocated(h, n, x) = [root |-> h.root, node |-> f]
  BY Typed DEF Allocated, Nodes
<1>2. D \in SUBSET Node /\ f \in [D -> Contents]
  BY Typed
<1>3. f[n] = x /\ \A m \in Nodes(h) : f[m] = h.node[m]
  OBVIOUS
<1> HIDE DEF f
<1>4. [root |-> h.root, node |-> f] \in Heaps
  <2> HIDE DEF D
  <2> QED BY <1>2, Typed, IsHeap
<1> QED BY <1>1, <1>2, <1>3, <1>4 DEF Nodes

LEMMA ReparentedIs ==
    ASSUME NEW h, h \in Heaps, NEW n \in Nodes(h), NEW p \in Node \cup {None}
    PROVE  LET g == [h EXCEPT !.node[n].parent = p]
           IN  /\ g \in Heaps /\ g.root = h.root /\ Nodes(g) = Nodes(h)
               /\ g.node[n] = [is_node |-> h.node[n].is_node, client |-> h.node[n].client,
                               parent |-> p, children |-> h.node[n].children]
               /\ \A m \in Nodes(h) \ {n} : g.node[m] = h.node[m]
<1> DEFINE x == [is_node |-> h.node[n].is_node, client |-> h.node[n].client,
                 parent |-> p, children |-> h.node[n].children]
           f == [h.node EXCEPT ![n] = x]
<1>1. h.node \in [Nodes(h) -> Contents] /\ h.node[n] \in Contents
  BY Typed
<1>2. x \in Contents /\ [h.node[n] EXCEPT !.parent = p] = x
  BY <1>1 DEF Contents
<1> HIDE DEF x
<1>3. [h EXCEPT !.node[n].parent = p] = [root |-> h.root, node |-> f]
  BY <1>2, Typed
<1>4. f \in [Nodes(h) -> Contents] /\ f[n] = x /\ \A m \in Nodes(h) \ {n} : f[m] = h.node[m]
  BY <1>1, <1>2
<1> HIDE DEF f
<1>5. [root |-> h.root, node |-> f] \in Heaps
  BY <1>4, Typed, IsHeap
<1> QED BY <1>3, <1>4, <1>5 DEF Nodes, x

LEMMA RelinkedIs ==
    ASSUME NEW h, h \in Heaps, NEW p \in Nodes(h), NEW old, NEW new \in Node,
           h.node[p].children \in [1..2 -> Node]
    PROVE  LET g == Relinked(h, p, old, new)
           IN  /\ g \in Heaps /\ g.root = h.root /\ Nodes(g) = Nodes(h)
               /\ g.node[p] = [is_node |-> h.node[p].is_node, client |-> h.node[p].client,
                               parent |-> h.node[p].parent,
                               children |-> [j \in 1..2 |->
                                   IF (j = 1) <=> (h.node[p].children[1] = old)
                                   THEN new ELSE h.node[p].children[j]]]
               /\ \A m \in Nodes(h) \ {p} : g.node[m] = h.node[m]
<1> DEFINE i == IF h.node[p].children[1] = old THEN 1 ELSE 2
           y == [j \in 1..2 |-> IF (j = 1) <=> (h.node[p].children[1] = old)
                                THEN new ELSE h.node[p].children[j]]
           x == [is_node |-> h.node[p].is_node, client |-> h.node[p].client,
                 parent |-> h.node[p].parent, children |-> y]
           f == [h.node EXCEPT ![p] = x]
<1>1. h.node \in [Nodes(h) -> Contents] /\ h.node[p] \in Contents /\ p # None
  BY Typed, NoneAssumption
<1>2. y \in [1..2 -> Node] /\ [h.node[p].children EXCEPT ![i] = new] = y
  OBVIOUS
<1> HIDE DEF y
<1>3. x \in Contents /\ [h.node[p] EXCEPT !.children = y] = x
  BY <1>1, <1>2 DEF Contents
<1>4. [h.node[p] EXCEPT !.children[i] = new] = x
  BY <1>2, <1>3
<1> HIDE DEF x
<1>5. Relinked(h, p, old, new) = [root |-> h.root, node |-> f]
  <2>1. Relinked(h, p, old, new) = [h EXCEPT !.node[p].children[i] = new]
    BY <1>1 DEF Relinked
  <2>2. [h EXCEPT !.node[p].children[i] = new] = [h EXCEPT !.node[p] = x]
    BY <1>4
  <2> QED BY <2>1, <2>2, Typed
<1>6. f \in [Nodes(h) -> Contents] /\ f[p] = x /\ \A m \in Nodes(h) \ {p} : f[m] = h.node[m]
  BY <1>1, <1>3
<1> HIDE DEF f
<1>7. [root |-> h.root, node |-> f] \in Heaps
  BY <1>6, Typed, IsHeap
<1> QED BY <1>5, <1>6, <1>7 DEF Nodes, x, y

LEMMA RerootedIs ==
    ASSUME NEW h, h \in Heaps, NEW old, NEW new \in Node
    PROVE  LET g == Relinked(h, None, old, new)
           IN  g \in Heaps /\ g.root = new /\ g.node = h.node
<1>1. Relinked(h, None, old, new) = [root |-> new, node |-> h.node]
  BY Typed DEF Relinked
<1> QED BY <1>1, Typed, IsHeap

LEMMA OneKid ==
    ASSUME NEW h, NEW B, Shape(h, B), NEW p \in Inner(h)
    PROVE  Kid(h, p, 1) # Kid(h, p, 2)
<1>1. InnerOK(h, B, p) /\ Kid(h, p, 1) \in Nodes(h)
  BY Kids DEF Shape
<1>2. B[Kid(h, p, 1)] # {}
  BY <1>1, Sizes
<1> QED BY <1>1, <1>2 DEF InnerOK

\* Relinked names new in the place of old, in whichever node pointed to it.
LEMMA SplicedIs ==
    ASSUME NEW h, NEW B, Shape(h, B), NEW old \in Nodes(h), NEW new \in Node,
           NEW k \in Heaps, Nodes(h) \subseteq Nodes(k), k.root = h.root,
           h.node[old].parent # None =>
             k.node[h.node[old].parent] = h.node[h.node[old].parent]
    PROVE  LET g == Relinked(k, h.node[old].parent, old, new)
           IN  /\ g \in Heaps /\ Nodes(g) = Nodes(k)
               /\ g.root = IF old = h.root THEN new ELSE h.root
               /\ \A m \in Nodes(k) \ Inner(h) : g.node[m] = k.node[m]
               /\ \A m \in Inner(h) :
                    g.node[m] = [is_node |-> k.node[m].is_node, client |-> k.node[m].client,
                                 parent |-> k.node[m].parent,
                                 children |-> IF m = h.node[old].parent
                                              THEN Spliced(h, m, old, new)
                                              ELSE k.node[m].children]
<1> DEFINE p == h.node[old].parent
           g == Relinked(k, p, old, new)
<1>1. \A m \in Nodes(k) : k.node[m] = [is_node |-> k.node[m].is_node, client |-> k.node[m].client,
                                       parent |-> k.node[m].parent,
                                       children |-> k.node[m].children]
  BY Typed DEF Contents
<1>2. Inner(h) \subseteq Nodes(k) /\ Inner(h) \subseteq Nodes(h)
  BY DEF Inner
<1>3. CASE old = h.root
  <2>1. p = None
    BY <1>3, HasRoot DEF RootOK
  <2>2. g \in Heaps /\ g.root = new /\ g.node = k.node
    BY <2>1, RerootedIs
  <2>3. Nodes(g) = Nodes(k)
    BY <2>2 DEF Nodes
  <2>4. \A m \in Inner(h) : m # p
    BY <2>1, NoneAssumption DEF Shape, Heaps, Inner, Nodes
  <2> QED BY <1>1, <1>2, <1>3, <2>2, <2>3, <2>4
<1>4. CASE old # h.root
  <2>1. p \in Inner(h) /\ p # None
    BY <1>4, Parents
  <2>2. PICK a \in 1..2 : Kid(h, p, a) = old
    BY <1>4, Parents
  <2>3. k.node[p] = h.node[p] /\ h.node[p].is_node /\ p \in Nodes(k)
    BY <1>2, <2>1 DEF Inner
  <2>4. h.node[p].children \in [1..2 -> Node]
    <3>1. InnerOK(h, B, p) /\ h \in Heaps
      BY <2>1 DEF Shape
    <3>2. Nodes(h) \subseteq Node
      BY <3>1, Typed
    <3> HIDE DEF p
    <3> QED BY <3>1, <3>2 DEF InnerOK
  <2> HIDE DEF p
  <2>5. /\ g \in Heaps /\ g.root = k.root /\ Nodes(g) = Nodes(k)
        /\ g.node[p] = [is_node |-> k.node[p].is_node, client |-> k.node[p].client,
                        parent |-> k.node[p].parent,
                        children |-> [j \in 1..2 |->
                            IF (j = 1) <=> (k.node[p].children[1] = old)
                            THEN new ELSE k.node[p].children[j]]]
        /\ \A m \in Nodes(k) \ {p} : g.node[m] = k.node[m]
    <3>1. k.node[p].children \in [1..2 -> Node]
      BY <2>3, <2>4
    <3> QED BY <2>3, <3>1, RelinkedIs
  <2>6. [j \in 1..2 |-> IF (j = 1) <=> (k.node[p].children[1] = old)
                        THEN new ELSE k.node[p].children[j]]
          = Spliced(h, p, old, new)
    <3>1. ASSUME NEW j \in 1..2
          PROVE  ((j = 1) <=> (h.node[p].children[1] = old)) <=> Kid(h, p, j) = old
      BY <2>1, <2>2, OneKid DEF Kid
    <3> QED BY <2>3, <3>1 DEF Spliced, Kid
  <2>7. p \notin Nodes(k) \ Inner(h)
    BY <2>1
  <2> HIDE DEF g
  <2>8. \A m \in Inner(h) : m # p => g.node[m] = k.node[m]
    BY <1>2, <2>5
  <2>9. \A m \in Inner(h) :
          g.node[m] = [is_node |-> k.node[m].is_node, client |-> k.node[m].client,
                       parent |-> k.node[m].parent,
                       children |-> IF m = p THEN Spliced(h, m, old, new)
                                    ELSE k.node[m].children]
    BY <1>1, <1>2, <2>5, <2>6, <2>8
  <2> QED BY <1>4, <2>5, <2>7, <2>9 DEF g, p
<1> QED BY <1>3, <1>4

LEMMA NewNodeIs ==
    ASSUME NEW h, Nodes(h) \in SUBSET Node, Cardinality(Nodes(h)) < Cardinality(Node)
    PROVE  NewNode(h) \in Node /\ NewNode(h) \notin Nodes(h)
<1>1. \E n \in Node : n \notin DOMAIN h.node
  BY Spare DEF Nodes
<1> QED BY <1>1 DEF NewNode, Nodes

LEMMA BisectedIs ==
    ASSUME NEW h, NEW B, Shape(h, B), NEW at \in Leaves(h), NEW c \in Window,
           c \notin B[h.root], NEW first \in BOOLEAN
    PROVE  \E l, q \in Node \ Nodes(h) :
             l # q /\ IsBisected(Bisected(h, c, at, first), h, c, at, first, l, q)
<1> DEFINE l     == NewNode(h)
           one   == Allocated(h, l, LeafOf(c))
           q     == NewNode(one)
           above == h.node[at].parent
           pair  == IF first THEN <<l, at>> ELSE <<at, l>>
           x     == [is_node |-> TRUE, client |-> None, parent |-> above, children |-> pair]
           two   == Allocated(one, q, x)
           three == [two EXCEPT !.node[at].parent = q]
           four  == [three EXCEPT !.node[l].parent = q]
           five  == Relinked(four, above, at, q)
<1>1. /\ h \in Heaps /\ at \in Nodes(h) /\ at \notin Inner(h) /\ LeafOK(h, B, at)
      /\ above \in Node \cup {None} /\ Nodes(h) \subseteq Node
  <2>1. h \in Heaps /\ at \in Nodes(h) /\ at \notin Inner(h) /\ LeafOK(h, B, at)
    BY DEF Shape, Leaves
  <2>2. h.node[at] \in Contents /\ Nodes(h) \subseteq Node
    BY <2>1, Typed
  <2> QED BY <2>1, <2>2 DEF Contents
<1>2. /\ Nodes(h) \in SUBSET Node /\ IsFiniteSet(Nodes(h))
      /\ Cardinality(Nodes(h)) + 2 <= Cardinality(Node)
      /\ Cardinality(Nodes(h)) \in Nat /\ Cardinality(Node) \in Nat
  BY <1>1, HasRoot, Space
<1>3. l \in Node /\ l \notin Nodes(h)
  BY <1>2, NewNodeIs
<1>4. LeafOf(c) \in Contents
  BY DEF LeafOf, Contents
<1> HIDE DEF l, above
<1>5. /\ one \in Heaps /\ one.root = h.root /\ Nodes(one) = Nodes(h) \cup {l}
      /\ one.node[l] = LeafOf(c) /\ \A m \in Nodes(h) : one.node[m] = h.node[m]
  BY <1>1, <1>3, <1>4, AllocatedIs
<1> HIDE DEF one
<1>6. q \in Node /\ q \notin Nodes(one)
  <2>1. Cardinality(Nodes(one)) = Cardinality(Nodes(h)) + 1
    BY <1>2, <1>3, <1>5, FS_AddElement
  <2>2. Nodes(one) \in SUBSET Node
    BY <1>2, <1>3, <1>5
  <2> QED BY <1>2, <2>1, <2>2, NewNodeIs
<1> HIDE DEF q
<1>7. x \in Contents
  <2>1. pair \in [1..2 -> Node]
    BY <1>1, <1>3
  <2> HIDE DEF pair
  <2> QED BY <1>1, <2>1 DEF Contents
<1> HIDE DEF x
<1>8. /\ two \in Heaps /\ two.root = h.root /\ Nodes(two) = Nodes(h) \cup {l, q}
      /\ two.node[l] = LeafOf(c) /\ two.node[q] = x
      /\ \A m \in Nodes(h) : two.node[m] = h.node[m]
  <2>1. /\ two \in Heaps /\ two.root = one.root /\ Nodes(two) = Nodes(one) \cup {q}
        /\ two.node[q] = x /\ \A m \in Nodes(one) : two.node[m] = one.node[m]
    BY <1>5, <1>6, <1>7, AllocatedIs
  <2> HIDE DEF two
  <2> QED BY <1>5, <2>1
<1> HIDE DEF two
<1>9. at \in Nodes(two) /\ l \in Nodes(two) /\ q \in Node \cup {None}
  BY <1>1, <1>6, <1>8
<1>10. /\ three \in Heaps /\ three.root = two.root /\ Nodes(three) = Nodes(two)
       /\ three.node[at] = [is_node |-> two.node[at].is_node, client |-> two.node[at].client,
                            parent |-> q, children |-> two.node[at].children]
       /\ \A m \in Nodes(two) \ {at} : three.node[m] = two.node[m]
  BY <1>8, <1>9, ReparentedIs
<1> HIDE DEF three
<1>11. /\ four \in Heaps /\ four.root = three.root /\ Nodes(four) = Nodes(three)
       /\ four.node[l] = [is_node |-> three.node[l].is_node, client |-> three.node[l].client,
                          parent |-> q, children |-> three.node[l].children]
       /\ \A m \in Nodes(three) \ {l} : four.node[m] = three.node[m]
  BY <1>9, <1>10, ReparentedIs
<1> HIDE DEF four
<1>12. at # l /\ at # q /\ l # q /\ l \notin Inner(h) /\ q \notin Inner(h)
  BY <1>1, <1>3, <1>5, <1>6 DEF Inner
<1>13. /\ four.root = h.root /\ Nodes(four) = Nodes(h) \cup {l, q}
       /\ four.node[l] = [is_node |-> FALSE, client |-> c, parent |-> q, children |-> <<>>]
       /\ four.node[q] = x
       /\ four.node[at] = [is_node |-> h.node[at].is_node, client |-> h.node[at].client,
                           parent |-> q, children |-> h.node[at].children]
       /\ \A m \in Nodes(h) \ {at} : four.node[m] = h.node[m]
  <2>1. Nodes(four) = Nodes(h) \cup {l, q} /\ four.root = h.root
    BY <1>8, <1>10, <1>11
  <2>2. four.node[l] = [is_node |-> FALSE, client |-> c, parent |-> q, children |-> <<>>]
    <3>1. three.node[l] = LeafOf(c)
      BY <1>8, <1>9, <1>10, <1>12
    <3> QED BY <1>11, <3>1 DEF LeafOf
  <2>3. \A m \in Nodes(two) \ {l, at} : four.node[m] = two.node[m]
    BY <1>10, <1>11
  <2>4. \A m \in Nodes(h) : m \in Nodes(two) /\ m # l /\ m # q
    BY <1>3, <1>5, <1>6, <1>8
  <2>5. q \in Nodes(two)
    BY <1>8
  <2>6. four.node[at] = three.node[at]
    BY <1>9, <1>10, <1>11, <1>12
  <2> QED BY <1>1, <1>8, <1>10, <1>12, <2>1, <2>2, <2>3, <2>4, <2>5, <2>6
<1>14. above # None => four.node[above] = h.node[above]
  <2>1. above # None => above \in Inner(h)
    BY <1>1, HasRoot, Parents DEF RootOK, above
  <2> QED BY <1>1, <1>13, <2>1 DEF Inner
<1>15. /\ five \in Heaps /\ Nodes(five) = Nodes(four)
       /\ five.root = IF at = h.root THEN q ELSE h.root
       /\ \A m \in Nodes(four) \ Inner(h) : five.node[m] = four.node[m]
       /\ \A m \in Inner(h) :
            five.node[m] = [is_node |-> four.node[m].is_node, client |-> four.node[m].client,
                            parent |-> four.node[m].parent,
                            children |-> IF m = above THEN Spliced(h, m, at, q)
                                         ELSE four.node[m].children]
  BY <1>1, <1>6, <1>11, <1>13, <1>14, SplicedIs DEF above
<1>16. Bisected(h, c, at, first) = five
  BY DEF Bisected, five, four, three, two, one, l, q, x, above
<1> HIDE DEF five
<1>17. ASSUME NEW m \in Inner(h)
       PROVE  (IF m = above THEN Spliced(h, m, at, q) ELSE h.node[m].children)
                = Spliced(h, m, at, q)
  <2>1. InnerOK(h, B, m) /\ h.node[m].is_node
    BY DEF Shape, Inner
  <2>2. m # above => \A i \in 1..2 : Kid(h, m, i) # at
    BY <2>1 DEF InnerOK, above
  <2>3. h.node[m].children = [i \in 1..2 |-> Kid(h, m, i)]
    BY <2>1 DEF InnerOK, Kid
  <2> QED BY <2>1, <2>2, <2>3 DEF Spliced
<1>18. ASSUME NEW m \in Nodes(h)
       PROVE  five.node[m] = [is_node |-> h.node[m].is_node, client |-> h.node[m].client,
                              parent |-> IF m = at THEN q ELSE h.node[m].parent,
                              children |-> Spliced(h, m, at, q)]
  <2>1. CASE m \in Inner(h)
    BY <1>1, <1>13, <1>15, <1>17, <2>1
  <2>2. CASE m \notin Inner(h)
    <3>1. LeafOK(h, B, m) /\ ~h.node[m].is_node
      BY <2>2 DEF Shape, Inner
    <3>2. Spliced(h, m, at, q) = <<>> /\ h.node[m].children = <<>>
      BY <3>1 DEF Spliced, LeafOK
    <3>3. five.node[m] = four.node[m]
      BY <1>13, <1>15, <2>2
    <3>4. h.node[m] = [is_node |-> h.node[m].is_node, client |-> h.node[m].client,
                       parent |-> h.node[m].parent, children |-> h.node[m].children]
      BY <1>1, Typed DEF Contents
    <3> QED BY <1>13, <3>2, <3>3, <3>4
  <2> QED BY <2>1, <2>2
<1>19. IsBisected(five, h, c, at, first, l, q)
  BY <1>12, <1>13, <1>15, <1>18 DEF IsBisected, x, above
<1> QED BY <1>3, <1>5, <1>6, <1>12, <1>16, <1>19

-----------------------------------------------------------------------------
(***************************************************************************)
(* dwindle_insert and dwindle_insert_at_edge: the tree with the new leaf.  *)
(* The nodes above the leaf that is split get the window c as well, and    *)
(* the inner node q stands where that leaf stood.                          *)
(***************************************************************************)
Widened(h, B, c, at, l, q) ==
    [n \in Nodes(h) \cup {l, q} |->
        IF n = l THEN {c} ELSE IF n = at THEN B[at]
        ELSE Grown(B[IF n = q THEN at ELSE n], h.node[at].client, c)]

Splitting(h, B, c, at, first, l, q, g, W) ==
    /\ Shape(h, B) /\ at \in Leaves(h) /\ c \in Window /\ c \notin B[h.root] /\ first \in BOOLEAN
    /\ l \in Node \ Nodes(h) /\ q \in Node \ Nodes(h) /\ l # q
    /\ IsBisected(g, h, c, at, first, l, q) /\ W = Widened(h, B, c, at, l, q)

LEMMA SplitFields ==
    ASSUME NEW h, NEW B, NEW c, NEW at, NEW first, NEW l, NEW q, NEW g, NEW W,
           Splitting(h, B, c, at, first, l, q, g, W), NEW n \in Nodes(h)
    PROVE  /\ g.node[n].is_node = h.node[n].is_node /\ g.node[n].client = h.node[n].client
           /\ g.node[n].parent = (IF n = at THEN q ELSE h.node[n].parent)
           /\ g.node[n].children = Spliced(h, n, at, q)
<1>1. g.node[n] = [is_node |-> h.node[n].is_node, client |-> h.node[n].client,
                   parent |-> IF n = at THEN q ELSE h.node[n].parent,
                   children |-> Spliced(h, n, at, q)]
  <2>1. IsBisected(g, h, c, at, first, l, q)
    BY DEF Splitting
  <2> QED BY <2>1 DEF IsBisected
<1> QED BY <1>1

LEMMA SplitNodes ==
    ASSUME NEW h, NEW B, NEW c, NEW at, NEW first, NEW l, NEW q, NEW g, NEW W,
           Splitting(h, B, c, at, first, l, q, g, W)
    PROVE  /\ Nodes(g) = Nodes(h) \cup {l, q} /\ Inner(g) = Inner(h) \cup {q}
           /\ l \notin Nodes(h) /\ q \notin Nodes(h) /\ l # q
           /\ at \in Nodes(h) /\ at \notin Inner(h) /\ Inner(h) \subseteq Nodes(h)
           /\ at # l /\ at # q
<1>1. /\ Nodes(g) = Nodes(h) \cup {l, q} /\ l \notin Nodes(h) /\ q \notin Nodes(h) /\ l # q
      /\ at \in Nodes(h) /\ at \notin Inner(h)
      /\ ~g.node[l].is_node /\ g.node[q].is_node
      /\ \A n \in Nodes(h) : g.node[n].is_node = h.node[n].is_node
  <2>1. IsBisected(g, h, c, at, first, l, q) /\ at \in Leaves(h)
    BY DEF Splitting
  <2>2. ~g.node[l].is_node /\ g.node[q].is_node /\ Nodes(g) = Nodes(h) \cup {l, q}
    BY <2>1 DEF IsBisected
  <2>3. \A n \in Nodes(h) : g.node[n].is_node = h.node[n].is_node
    BY SplitFields
  <2>4. l \notin Nodes(h) /\ q \notin Nodes(h) /\ l # q
    BY DEF Splitting
  <2> QED BY <2>1, <2>2, <2>3, <2>4 DEF Leaves
<1>2. Inner(g) = Inner(h) \cup {q} /\ Inner(h) \subseteq Nodes(h)
  BY <1>1 DEF Inner
<1> QED BY <1>1, <1>2

LEMMA SplitSets ==
    ASSUME NEW h, NEW B, NEW c, NEW at, NEW first, NEW l, NEW q, NEW g, NEW W,
           Splitting(h, B, c, at, first, l, q, g, W)
    PROVE  LET a == h.node[at].client
           IN  /\ a \in Window /\ c \in Window /\ a # c /\ B[at] = {a} /\ a \in B[h.root]
               /\ W[l] = {c} /\ W[at] = {a} /\ W[q] = {a, c}
               /\ \A n \in Nodes(h) \ {at} : W[n] = Grown(B[n], a, c)
               /\ \A n \in Nodes(h) : c \notin B[n]
<1> DEFINE a == h.node[at].client
<1>1. /\ Shape(h, B) /\ at \in Leaves(h) /\ at \in Nodes(h) /\ c \notin B[h.root] /\ c \in Window
      /\ W = Widened(h, B, c, at, l, q)
  BY DEF Splitting, Leaves
<1>2. LeafOK(h, B, at) /\ RootOK(h, B)
  BY <1>1, HasRoot DEF Shape, Leaves
<1>3. /\ a \in Window /\ B[at] = {a} /\ \A n \in Nodes(h) : B[n] \subseteq B[h.root]
  BY <1>2 DEF LeafOK, RootOK
<1> HIDE DEF a
<1>4. a \in B[h.root] /\ a # c /\ \A n \in Nodes(h) : c \notin B[n]
  BY <1>1, <1>3
<1>5. W = [n \in Nodes(h) \cup {l, q} |->
             IF n = l THEN {c} ELSE IF n = at THEN B[at]
             ELSE Grown(B[IF n = q THEN at ELSE n], a, c)]
  BY <1>1 DEF Widened, a
<1>6. W[l] = {c} /\ W[at] = {a} /\ W[q] = {a, c}
  BY <1>3, <1>5, SplitNodes DEF Grown
<1>7. \A n \in Nodes(h) \ {at} : W[n] = Grown(B[n], a, c)
  BY <1>5, SplitNodes
<1> QED BY <1>1, <1>3, <1>4, <1>6, <1>7 DEF a

LEMMA SplitKids ==
    ASSUME NEW h, NEW B, NEW c, NEW at, NEW first, NEW l, NEW q, NEW g, NEW W,
           Splitting(h, B, c, at, first, l, q, g, W)
    PROVE  /\ \A n \in Inner(h), i \in 1..2 :
                /\ Kid(g, n, i) = IF Kid(h, n, i) = at THEN q ELSE Kid(h, n, i)
                /\ W[Kid(g, n, i)] = Grown(B[Kid(h, n, i)], h.node[at].client, c)
           /\ Kid(g, q, 1) = (IF first THEN l ELSE at) /\ Kid(g, q, 2) = IF first THEN at ELSE l
<1> DEFINE a == h.node[at].client
<1>1. /\ W[q] = {a, c} /\ B[at] = {a}
      /\ \A n \in Nodes(h) \ {at} : W[n] = Grown(B[n], a, c)
  BY SplitSets
<1> HIDE DEF a
<1>2. Shape(h, B) /\ IsBisected(g, h, c, at, first, l, q)
  BY DEF Splitting
<1>3. ASSUME NEW n \in Inner(h), NEW i \in 1..2
      PROVE  /\ Kid(g, n, i) = IF Kid(h, n, i) = at THEN q ELSE Kid(h, n, i)
             /\ W[Kid(g, n, i)] = Grown(B[Kid(h, n, i)], a, c)
  <2>1. Kid(g, n, i) = IF Kid(h, n, i) = at THEN q ELSE Kid(h, n, i)
    <3>1. h.node[n].is_node /\ n \in Nodes(h)
      BY DEF Inner
    <3>2. g.node[n].children = Spliced(h, n, at, q)
      BY <3>1, SplitFields
    <3> QED BY <3>1, <3>2 DEF Kid, Spliced
  <2>2. Kid(h, n, i) \in Nodes(h)
    BY <1>2, Kids
  <2>3. CASE Kid(h, n, i) = at
    BY <1>1, <2>1, <2>3 DEF Grown
  <2>4. CASE Kid(h, n, i) # at
    BY <1>1, <2>1, <2>2, <2>4
  <2> QED BY <2>1, <2>3, <2>4
<1>4. Kid(g, q, 1) = (IF first THEN l ELSE at) /\ Kid(g, q, 2) = IF first THEN at ELSE l
  BY <1>2 DEF IsBisected, Kid
<1> QED BY <1>3, <1>4 DEF a

LEMMA SplitInner ==
    ASSUME NEW h, NEW B, NEW c, NEW at, NEW first, NEW l, NEW q, NEW g, NEW W,
           Splitting(h, B, c, at, first, l, q, g, W), NEW n \in Inner(g)
    PROVE  InnerOK(g, W, n)
<1> DEFINE a == h.node[at].client
<1>1. /\ W[l] = {c} /\ W[at] = {a} /\ W[q] = {a, c} /\ a # c /\ B[at] = {a}
      /\ \A m \in Nodes(h) \ {at} : W[m] = Grown(B[m], a, c)
      /\ \A m \in Nodes(h) : c \notin B[m]
  BY SplitSets
<1>2. CASE n = q
  <2>1. Kid(g, q, 1) = (IF first THEN l ELSE at) /\ Kid(g, q, 2) = IF first THEN at ELSE l
    BY SplitKids
  <2>2. /\ g.node[q].children = (IF first THEN <<l, at>> ELSE <<at, l>>)
        /\ g.node[l].parent = q
    BY DEF Splitting, IsBisected
  <2>3. g.node[at].parent = q
    BY SplitFields, SplitNodes
  <2>4. g.node[q].children \in [1..2 -> Nodes(g)]
    BY <2>2, SplitNodes
  <2> HIDE DEF a
  <2> QED BY <1>1, <1>2, <2>1, <2>2, <2>3, <2>4 DEF InnerOK
<1>3. CASE n \in Inner(h)
  <2>1. Shape(h, B) /\ InnerOK(h, B, n) /\ n # at /\ n \in Nodes(h) /\ h.node[n].is_node
    <3>1. Shape(h, B)
      BY DEF Splitting
    <3>2. InnerOK(h, B, n) /\ n \in Nodes(h) /\ h.node[n].is_node
      BY <1>3, <3>1 DEF Shape, Inner
    <3> QED BY <1>3, <3>1, <3>2, SplitNodes
  <2>2. \A i \in 1..2 : /\ Kid(g, n, i) = (IF Kid(h, n, i) = at THEN q ELSE Kid(h, n, i))
                        /\ W[Kid(g, n, i)] = Grown(B[Kid(h, n, i)], a, c)
    BY <1>3, SplitKids
  <2>3. \A i \in 1..2 : Kid(h, n, i) \in Nodes(h) /\ h.node[Kid(h, n, i)].parent = n
    BY <1>3, <2>1, Kids
  <2>4. \A i \in 1..2 : g.node[Kid(g, n, i)].parent = n
    <3>1. IsBisected(g, h, c, at, first, l, q)
      BY DEF Splitting
    <3>2. g.node[q].parent = h.node[at].parent
      BY <3>1 DEF IsBisected
    <3> QED BY <2>2, <2>3, <3>2, SplitFields
  <2>5. g.node[n].children \in [1..2 -> Nodes(g)]
    <3>1. g.node[n].children = [i \in 1..2 |-> IF Kid(h, n, i) = at THEN q ELSE Kid(h, n, i)]
      BY <2>1, SplitFields DEF Spliced
    <3> QED BY <2>3, <3>1, SplitNodes
  <2>6. W[n] = Grown(B[n], a, c)
    BY <1>1, <2>1
  <2> HIDE DEF a
  <2>7. W[n] = W[Kid(g, n, 1)] \cup W[Kid(g, n, 2)]
    BY <2>1, <2>2, <2>6 DEF InnerOK, Grown
  <2>8. W[Kid(g, n, 1)] \cap W[Kid(g, n, 2)] = {}
    BY <1>1, <2>1, <2>2, <2>3 DEF InnerOK, Grown
  <2> QED BY <2>4, <2>5, <2>7, <2>8 DEF InnerOK
<1> QED BY <1>2, <1>3, SplitNodes

LEMMA SplitLeaf ==
    ASSUME NEW h, NEW B, NEW c, NEW at, NEW first, NEW l, NEW q, NEW g, NEW W,
           Splitting(h, B, c, at, first, l, q, g, W), NEW n \in Nodes(g) \ Inner(g)
    PROVE  LeafOK(g, W, n)
<1> DEFINE a == h.node[at].client
<1>1. /\ W[l] = {c} /\ W[at] = {a} /\ c \in Window /\ a \in Window /\ B[at] = {a}
      /\ \A m \in Nodes(h) \ {at} : W[m] = Grown(B[m], a, c)
  BY SplitSets
<1>2. CASE n = l
  <2>1. IsBisected(g, h, c, at, first, l, q)
    BY DEF Splitting
  <2>2. g.node[l].client = c /\ g.node[l].children = <<>>
    BY <2>1 DEF IsBisected
  <2> QED BY <1>1, <1>2, <2>2 DEF LeafOK
<1>3. CASE n # l
  <2>1. n \in Leaves(h) /\ n \in Nodes(h) /\ n \notin Inner(h) /\ Shape(h, B)
    <3>1. Shape(h, B)
      BY DEF Splitting
    <3> QED BY <1>3, <3>1, SplitNodes DEF Leaves
  <2>2. LeafOK(h, B, n) /\ ~h.node[n].is_node
    BY <2>1 DEF Shape, Inner
  <2>3. g.node[n].client = h.node[n].client /\ g.node[n].children = <<>>
    <3>1. /\ g.node[n].client = h.node[n].client
          /\ g.node[n].children = Spliced(h, n, at, q)
      BY <2>1, SplitFields
    <3> QED BY <2>2, <3>1 DEF Spliced
  <2>4. W[n] = B[n]
    <3>1. CASE n = at
      BY <1>1, <3>1
    <3>2. CASE n # at
      <4>1. a \notin B[n]
        <5>1. B[at] \subseteq B[n] => n = at
          BY <2>1, SplitNodes, OneLeaf
        <5> QED BY <1>1, <3>2, <5>1
      <4> QED BY <1>1, <2>1, <3>2, <4>1 DEF Grown
    <3> QED BY <3>1, <3>2
  <2> QED BY <2>2, <2>3, <2>4 DEF LeafOK
<1> QED BY <1>2, <1>3

LEMMA SplitParent ==
    ASSUME NEW h, NEW B, NEW c, NEW at, NEW first, NEW l, NEW q, NEW g, NEW W,
           Splitting(h, B, c, at, first, l, q, g, W), NEW n \in Nodes(g) \ {g.root}
    PROVE  ParentOK(g, n)
<1>1. /\ Shape(h, B) /\ IsBisected(g, h, c, at, first, l, q)
  BY DEF Splitting
<1>2. /\ g.root = (IF at = h.root THEN q ELSE h.root)
      /\ g.node[l].parent = q /\ g.node[q].parent = h.node[at].parent
  BY <1>1 DEF IsBisected
<1>3. CASE n \in {l, at}
  <2>1. g.node[n].parent = q /\ q \in Inner(g)
    BY <1>2, <1>3, SplitFields, SplitNodes
  <2>2. Kid(g, q, 1) = n \/ Kid(g, q, 2) = n
    BY <1>3, SplitKids DEF Splitting
  <2> QED BY <2>1, <2>2 DEF ParentOK
<1>4. ASSUME NEW m \in Nodes(h), m # h.root, n = IF m = at THEN q ELSE m
      PROVE  ParentOK(g, n)
  <2> DEFINE p == h.node[m].parent
  <2>1. p \in Inner(h) /\ \E i \in 1..2 : Kid(h, p, i) = m
    BY <1>1, <1>4, Parents
  <2>2. g.node[n].parent = p
    BY <1>2, <1>4, SplitFields
  <2> HIDE DEF p
  <2>3. \E i \in 1..2 : Kid(g, p, i) = n
    BY <1>4, <2>1, SplitKids
  <2> QED BY <2>1, <2>2, <2>3, SplitNodes DEF ParentOK
<1>5. CASE n = q
  <2>1. at # h.root /\ at \in Nodes(h)
    BY <1>2, <1>5, SplitNodes
  <2> QED BY <1>4, <1>5, <2>1
<1>6. CASE n \in Nodes(h) \ {at}
  <2>1. n # h.root
    BY <1>2, <1>6
  <2> QED BY <1>4, <1>6, <2>1
<1> QED BY <1>3, <1>5, <1>6, SplitNodes

LEMMA SplitNested ==
    ASSUME NEW h, NEW B, NEW c, NEW at, NEW first, NEW l, NEW q, NEW g, NEW W,
           Splitting(h, B, c, at, first, l, q, g, W), NEW n \in Nodes(g), NEW m \in Nodes(g)
    PROVE  Nested(g, W, n, m)
<1> DEFINE a == h.node[at].client
           now(k) == IF k = at THEN q ELSE k
<1>1. /\ W[l] = {c} /\ W[at] = {a} /\ W[q] = {a, c} /\ a # c /\ B[at] = {a}
      /\ \A k \in Nodes(h) \ {at} : W[k] = Grown(B[k], a, c)
      /\ \A k \in Nodes(h) : c \notin B[k]
  BY SplitSets
<1>2. \A k \in Nodes(h) : W[now(k)] = Grown(B[k], a, c)
  BY <1>1 DEF Grown
<1>3. \A k \in Inner(h), i \in 1..2 : W[Kid(g, k, i)] = Grown(B[Kid(h, k, i)], a, c)
  BY SplitKids
<1>4. Shape(h, B) /\ at \in Nodes(h) /\ Inner(g) = Inner(h) \cup {q} /\ at \notin Inner(h)
  <2>1. Shape(h, B)
    BY DEF Splitting
  <2> QED BY <2>1, SplitNodes
<1>5. \A i \in 1..2, k \in Inner(h) : Kid(h, k, i) \in Nodes(h)
  BY <1>4, Kids
<1> HIDE DEF a
<1>6. ASSUME NEW j \in Nodes(h), NEW k \in Nodes(h), Below(h, B, j, k)
      PROVE  Below(g, W, now(j), now(k))
  <2>1. PICK i \in 1..2 : k \in Inner(h) /\ B[j] \subseteq B[Kid(h, k, i)]
    BY <1>6 DEF Below
  <2>2. now(k) = k /\ k \in Inner(g)
    BY <1>4, <2>1
  <2>3. W[now(j)] \subseteq W[Kid(g, k, i)]
    <3> HIDE DEF now
    <3> QED BY <1>2, <1>3, <2>1 DEF Grown
  <2> HIDE DEF now
  <2> QED BY <2>2, <2>3 DEF Below
<1>7. ASSUME NEW j \in Nodes(h), NEW k \in Nodes(h) PROVE Nested(g, W, now(j), now(k))
  <2>1. Nested(h, B, j, k)
    BY <1>4 DEF Shape
  <2>2. CASE B[j] \cap B[k] = {}
    <3> HIDE DEF now
    <3>1. W[now(j)] \cap W[now(k)] = {}
      BY <1>1, <1>2, <2>2 DEF Grown
    <3> QED BY <3>1 DEF Nested
  <2> HIDE DEF now
  <2> QED BY <1>6, <2>1, <2>2 DEF Nested
<1>8. ASSUME NEW x \in {l, at}, NEW k \in Nodes(g) PROVE Nested(g, W, x, k)
  <2>1. CASE k \in {l, at}
    BY <1>1, <1>8, <2>1 DEF Nested
  <2>2. CASE k = q
    <3>1. PICK i \in 1..2 : Kid(g, q, i) = x
      <4>1. Kid(g, q, 1) = x \/ Kid(g, q, 2) = x
        BY <1>8, SplitKids
      <4> QED BY <4>1
    <3>2. Below(g, W, x, q)
      BY <1>4, <3>1 DEF Below
    <3> QED BY <2>2, <3>2 DEF Nested
  <2>3. CASE k \in Nodes(h) \ {at}
    <3>1. Nested(h, B, at, k)
      BY <1>4, <2>3 DEF Shape
    <3>2. CASE B[at] \cap B[k] = {}
      <4>1. W[x] \cap W[k] = {}
        BY <1>1, <1>8, <2>3, <3>2 DEF Grown
      <4> QED BY <4>1 DEF Nested
    <3>3. CASE Below(h, B, at, k)
      <4>1. PICK i \in 1..2 : k \in Inner(h) /\ B[at] \subseteq B[Kid(h, k, i)]
        BY <3>3 DEF Below
      <4>2. W[x] \subseteq W[Kid(g, k, i)]
        BY <1>1, <1>3, <1>8, <4>1 DEF Grown
      <4> QED BY <1>4, <4>1, <4>2 DEF Below, Nested
    <3>4. ~Below(h, B, k, at)
      BY <1>4 DEF Below
    <3> QED BY <2>3, <3>1, <3>2, <3>3, <3>4 DEF Nested
  <2> QED BY <2>1, <2>2, <2>3, SplitNodes
<1>9. CASE n \in {l, at} \/ m \in {l, at}
  <2>1. Nested(g, W, n, m) <=> Nested(g, W, m, n)
    BY DEF Nested
  <2> QED BY <1>8, <1>9, <2>1
<1>10. CASE n \notin {l, at} /\ m \notin {l, at}
  <2>1. \A k \in Nodes(g) \ {l, at} : \E j \in Nodes(h) : k = now(j)
    <3>1. \A k \in Nodes(g) \ {l, at} : k = now(IF k = q THEN at ELSE k)
      OBVIOUS
    <3>2. \A k \in Nodes(g) \ {l, at} : (IF k = q THEN at ELSE k) \in Nodes(h)
      BY SplitNodes
    <3> HIDE DEF now
    <3> QED BY <3>1, <3>2
  <2> HIDE DEF now
  <2> QED BY <1>7, <1>10, <2>1
<1> QED BY <1>9, <1>10

LEMMA SplitRoot ==
    ASSUME NEW h, NEW B, NEW c, NEW at, NEW first, NEW l, NEW q, NEW g, NEW W,
           Splitting(h, B, c, at, first, l, q, g, W)
    PROVE  /\ g.root # None /\ RootOK(g, W) /\ Counted(g, W)
           /\ W[g.root] = B[h.root] \cup {c}
<1> DEFINE a == h.node[at].client
<1>1. Shape(h, B) /\ IsBisected(g, h, c, at, first, l, q) /\ q \in Node /\ c \notin B[h.root]
  BY DEF Splitting
<1>2. /\ at \in Nodes(h) /\ Nodes(g) = Nodes(h) \cup {l, q}
      /\ l \notin Nodes(h) /\ q \notin Nodes(h) /\ l # q
  BY SplitNodes
<1>3. RootOK(h, B) /\ Counted(h, B)
  BY <1>1, <1>2, HasRoot
<1>4. g.root = IF at = h.root THEN q ELSE h.root
  BY <1>1 DEF IsBisected
<1>5. /\ W[l] = {c} /\ W[at] = {a} /\ W[q] = {a, c} /\ a \in B[h.root] /\ B[at] = {a}
      /\ \A m \in Nodes(h) \ {at} : W[m] = Grown(B[m], a, c)
  BY SplitSets
<1> HIDE DEF a
<1>6. g.root \in Nodes(g) /\ g.node[g.root].parent = None
  <2>1. CASE at = h.root
    <3>1. g.node[q].parent = h.node[at].parent
      BY <1>1 DEF IsBisected
    <3> QED BY <1>2, <1>3, <1>4, <2>1, <3>1 DEF RootOK
  <2>2. CASE at # h.root
    <3>1. h.root \in Nodes(h)
      BY <1>3 DEF RootOK
    <3>2. g.node[h.root].parent = h.node[h.root].parent
      BY <2>2, <3>1, SplitFields
    <3> QED BY <1>2, <1>3, <1>4, <2>2, <3>1, <3>2 DEF RootOK
  <2> QED BY <2>1, <2>2
<1>7. W[g.root] = B[h.root] \cup {c}
  <2>1. CASE at = h.root
    BY <1>4, <1>5, <2>1
  <2>2. CASE at # h.root
    BY <1>3, <1>4, <1>5, <2>2 DEF RootOK, Grown
  <2> QED BY <2>1, <2>2
<1>8. \A n \in Nodes(g) : W[n] \subseteq W[g.root]
  <2>1. \A n \in Nodes(h) \ {at} : W[n] \subseteq W[g.root]
    BY <1>3, <1>5, <1>7 DEF RootOK, Grown
  <2> QED BY <1>2, <1>5, <1>7, <2>1
<1>9. Counted(g, W)
  <2>1. h.root # None /\ c \in Window
    BY <1>1, <1>2, HasRoot DEF Splitting
  <2>2. IsFiniteSet(Nodes(h)) /\ Cardinality(Nodes(h)) \in Nat
    BY <1>1, <2>1, Space
  <2>3. IsFiniteSet(B[h.root]) /\ Cardinality(B[h.root]) \in Nat
    BY <1>1, <1>3, Sizes, FS_CardinalityType DEF RootOK
  <2>4. Cardinality(B[h.root] \cup {c}) = Cardinality(B[h.root]) + 1
    BY <1>1, <2>3, FS_AddElement
  <2>5. /\ IsFiniteSet(Nodes(h) \cup {l})
        /\ Cardinality(Nodes(h) \cup {l}) = Cardinality(Nodes(h)) + 1
    BY <1>2, <2>2, FS_AddElement
  <2>6. Cardinality((Nodes(h) \cup {l}) \cup {q}) = Cardinality(Nodes(h)) + 2
    <3>1. q \notin Nodes(h) \cup {l}
      BY <1>2
    <3>2. Cardinality((Nodes(h) \cup {l}) \cup {q}) = Cardinality(Nodes(h) \cup {l}) + 1
      BY <2>5, <3>1, FS_AddElement
    <3> QED BY <2>2, <2>5, <3>2
  <2>7. Nodes(g) = (Nodes(h) \cup {l}) \cup {q}
    BY <1>2
  <2>8. Cardinality(Nodes(h)) + 1 = 2 * Cardinality(B[h.root])
    BY <1>3 DEF Counted
  <2>9. Cardinality(Nodes(g)) + 1 = 2 * Cardinality(W[g.root])
    BY <1>7, <2>2, <2>3, <2>4, <2>6, <2>7, <2>8
  <2> QED BY <2>9 DEF Counted
<1>10. g.root # None
  BY <1>1, <1>4, NoneAssumption, HasRoot, <1>2
<1> QED BY <1>6, <1>7, <1>8, <1>9, <1>10 DEF RootOK

(***************************************************************************)
(* A leaf that is split: the nodes are a tree again, the tree that Opened  *)
(* describes.                                                              *)
(***************************************************************************)
LEMMA SplitMeant ==
    ASSUME NEW h, NEW B, NEW c, NEW at, NEW first, NEW l, NEW q, NEW g, NEW W,
           Splitting(h, B, c, at, first, l, q, g, W)
    PROVE  Meant(g, W) = Opened(Meant(h, B), h.node[at].client, c, first)
<1> DEFINE a == h.node[at].client
           grown(s) == <<Grown(s[1], a, c), Grown(s[2], a, c)>>
           new == IF first THEN <<{c}, {a}>> ELSE <<{a}, {c}>>
<1>1. Inner(g) = Inner(h) \cup {q}
  BY SplitNodes
<1>2. ASSUME NEW n \in Inner(h) PROVE Halves(g, W, n) = grown(Halves(h, B, n))
  BY SplitKids DEF Halves
<1>3. Halves(g, W, q) = new
  <2>1. W[l] = {c} /\ W[at] = {a}
    BY SplitSets
  <2>2. Kid(g, q, 1) = (IF first THEN l ELSE at) /\ Kid(g, q, 2) = IF first THEN at ELSE l
    BY SplitKids
  <2> HIDE DEF a
  <2> QED BY <2>1, <2>2 DEF Halves
<1> HIDE DEF grown, new
<1>4. {Halves(g, W, n) : n \in Inner(g)} = {grown(Halves(h, B, n)) : n \in Inner(h)} \cup {new}
  BY <1>1, <1>2, <1>3
<1>5. {grown(Halves(h, B, n)) : n \in Inner(h)}
        = {grown(s) : s \in {Halves(h, B, n) : n \in Inner(h)}}
  OBVIOUS
<1>6. h.root # None /\ g.root # None /\ W[g.root] = B[h.root] \cup {c}
  <2>1. Shape(h, B)
    BY DEF Splitting
  <2>2. h.root # None
    BY <2>1, SplitNodes, HasRoot
  <2> QED BY <2>2, SplitRoot
<1> QED BY <1>4, <1>5, <1>6 DEF Meant, Opened, grown, new

LEMMA BisectedShape ==
    ASSUME NEW h, NEW B, Shape(h, B), NEW at \in Leaves(h), NEW c \in Window,
           c \notin B[h.root], NEW first \in BOOLEAN
    PROVE  \E W : /\ Shape(Bisected(h, c, at, first), W)
                  /\ Meant(Bisected(h, c, at, first), W)
                       = Opened(Meant(h, B), h.node[at].client, c, first)
<1> DEFINE g == Bisected(h, c, at, first)
<1>1. PICK l, q \in Node \ Nodes(h) : l # q /\ IsBisected(g, h, c, at, first, l, q)
  BY BisectedIs
<1> HIDE DEF g
<1> DEFINE W == Widened(h, B, c, at, l, q)
<1>2. Splitting(h, B, c, at, first, l, q, g, W)
  BY <1>1 DEF Splitting
<1>3. g \in Heaps /\ Nodes(g) = Nodes(h) \cup {l, q}
  BY <1>1 DEF IsBisected
<1>4. W \in [Nodes(g) -> SUBSET Window]
  <2>1. B \in [Nodes(h) -> SUBSET Window] /\ at \in Nodes(h)
    BY DEF Shape, Leaves
  <2> QED BY <1>3, <2>1 DEF Widened, Grown
<1> HIDE DEF W
<1>5. \A n \in Nodes(g) : W[n] # {}
  <2>1. \A n \in Inner(g) : InnerOK(g, W, n)
    BY <1>2, SplitInner
  <2> DEFINE a == h.node[at].client
  <2>2. /\ W[l] = {c} /\ W[at] = {a} /\ W[q] = {a, c}
        /\ \A m \in Nodes(h) \ {at} : W[m] = Grown(B[m], a, c)
    BY <1>2, SplitSets
  <2>3. \A m \in Nodes(h) : B[m] # {}
    BY DEF Shape
  <2> HIDE DEF a
  <2> QED BY <1>3, <2>2, <2>3 DEF Grown
<1>6. g.root # None /\ RootOK(g, W) /\ Counted(g, W)
  BY <1>2, SplitRoot
<1>7. \A n \in Inner(g) : InnerOK(g, W, n)
  BY <1>2, SplitInner
<1>8. \A n \in Nodes(g) \ Inner(g) : LeafOK(g, W, n)
  BY <1>2, SplitLeaf
<1>9. \A n \in Nodes(g) \ {g.root} : ParentOK(g, n)
  BY <1>2, SplitParent
<1>10. \A n, m \in Nodes(g) : Nested(g, W, n, m)
  BY <1>2, SplitNested
<1>11. Shape(g, W)
  BY <1>3, <1>4, <1>5, <1>6, <1>7, <1>8, <1>9, <1>10 DEF Shape
<1>12. Meant(g, W) = Opened(Meant(h, B), h.node[at].client, c, first)
  BY <1>2, SplitMeant
<1> QED BY <1>11, <1>12 DEF g

(***************************************************************************)
(* The first leaf of an empty tree.                                        *)
(***************************************************************************)
Planted(c, l) == [root |-> l, node |-> [n \in {l} |-> LeafOf(c)]]

LEMMA PlantedShape ==
    ASSUME NEW c \in Window, NEW l \in Node
    PROVE  LET B == [n \in {l} |-> {c}]
           IN  /\ Shape(Planted(c, l), B)
               /\ Meant(Planted(c, l), B) = [leaves |-> {c}, splits |-> {}]
<1> DEFINE h == Planted(c, l)
           B == [n \in {l} |-> {c}]
<1>1. /\ Nodes(h) = {l} /\ h.root = l /\ h.node[l] = LeafOf(c) /\ Inner(h) = {} /\ B[l] = {c}
      /\ B \in [Nodes(h) -> SUBSET Window] /\ l # None
  BY NoneAssumption DEF Planted, Nodes, Inner, LeafOf
<1>2. h \in Heaps
  <2>1. LeafOf(c) \in Contents
    BY DEF LeafOf, Contents
  <2> DEFINE f == [n \in {l} |-> LeafOf(c)]
  <2>2. f \in [{l} -> Contents] /\ {l} \in SUBSET Node
    BY <2>1
  <2>3. h = [root |-> l, node |-> f]
    BY DEF Planted
  <2> HIDE DEF f
  <2>4. [root |-> l, node |-> f] \in Heaps
    BY <2>2, IsHeap
  <2> QED BY <2>3, <2>4
<1> HIDE DEF h, B
<1>3. RootOK(h, B) /\ LeafOK(h, B, l)
  BY <1>1 DEF RootOK, LeafOK, LeafOf
<1>4. Counted(h, B)
  <2>1. Cardinality({l}) = 1 /\ Cardinality({c}) = 1
    BY FS_Singleton
  <2> QED BY <1>1, <2>1 DEF Counted
<1>5. Shape(h, B)
  <2>1. /\ \A n \in Nodes(h) : B[n] # {} /\ n \notin Nodes(h) \ {h.root}
        /\ \A n, m \in Nodes(h) : Nested(h, B, n, m)
    BY <1>1 DEF Nested
  <2>2. \A n \in Nodes(h) \ Inner(h) : LeafOK(h, B, n)
    BY <1>1, <1>3
  <2>3. h.root # None
    BY <1>1
  <2> QED BY <1>1, <1>2, <1>3, <1>4, <2>1, <2>2, <2>3 DEF Shape
<1>6. Meant(h, B) = [leaves |-> {c}, splits |-> {}]
  BY <1>1 DEF Meant
<1> QED BY <1>5, <1>6 DEF h, B

-----------------------------------------------------------------------------
(***************************************************************************)
(* dwindle_remove_leaf: the sibling s of the leaf takes the place of their *)
(* parent p, and every node loses the window c.                            *)
(***************************************************************************)
IsRemoved(g, h, at, p, s) ==
    /\ g \in Heaps /\ Nodes(g) = Nodes(h) \ {at, p}
    /\ g.root = (IF p = h.root THEN s ELSE h.root)
    /\ \A n \in Nodes(g) :
         g.node[n] = [is_node |-> h.node[n].is_node, client |-> h.node[n].client,
                      parent |-> IF n = s THEN h.node[p].parent ELSE h.node[n].parent,
                      children |-> Spliced(h, n, p, s)]

\* What is known of a leaf below the root.
Removable(h, B, c, at, p, s) ==
    /\ Shape(h, B) /\ at \in Leaves(h) /\ at # h.root /\ B[at] = {c}
    /\ p = h.node[at].parent /\ p \in Inner(h) /\ s \in Nodes(h) /\ s # at /\ s # p
    /\ \/ Kid(h, p, 1) = at /\ Kid(h, p, 2) = s
       \/ Kid(h, p, 1) = s /\ Kid(h, p, 2) = at
    /\ h.node[s].parent = p /\ B[p] = B[s] \cup {c} /\ c \notin B[s]

LEMMA IsRemovable ==
    ASSUME NEW h, NEW B, Shape(h, B), NEW at \in Leaves(h), at # h.root, NEW c, B[at] = {c}
    PROVE  LET p == h.node[at].parent
           IN  Removable(h, B, c, at, p, Kid(h, p, IF Kid(h, p, 1) = at THEN 2 ELSE 1))
<1> DEFINE p == h.node[at].parent
           j == IF Kid(h, p, 1) = at THEN 2 ELSE 1
           s == Kid(h, p, j)
<1>1. at \in Nodes(h) /\ at \notin Inner(h)
  BY DEF Leaves
<1>2. p \in Inner(h) /\ p \in Nodes(h) /\ \E i \in 1..2 : Kid(h, p, i) = at
  BY <1>1, Parents DEF Inner
<1> HIDE DEF p
<1>3. Kid(h, p, 1) = at \/ Kid(h, p, 2) = at
  BY <1>2
<1>4. s # at /\ j \in 1..2
  BY <1>2, <1>3, OneKid
<1>5. \/ Kid(h, p, 1) = at /\ Kid(h, p, 2) = s
      \/ Kid(h, p, 1) = s /\ Kid(h, p, 2) = at
  BY <1>3
<1> HIDE DEF j
<1>6. /\ s \in Nodes(h) /\ h.node[s].parent = p
      /\ Cardinality(B[s]) < Cardinality(B[p])
  BY <1>2, <1>4, Kids
<1> HIDE DEF s
<1>7. InnerOK(h, B, p)
  BY <1>2 DEF Shape
<1>8. B[p] = B[s] \cup {c} /\ c \notin B[s]
  BY <1>5, <1>7 DEF InnerOK
<1>9. s # p
  BY <1>2, <1>6, Sizes
<1> QED BY <1>1, <1>2, <1>4, <1>5, <1>6, <1>8, <1>9 DEF Removable, p, s, j

LEMMA RemovedIs ==
    ASSUME NEW h, NEW B, NEW c, NEW at, NEW p, NEW s, Removable(h, B, c, at, p, s)
    PROVE  IsRemoved(remove_leaf(h, at), h, at, p, s)
<1> DEFINE above == h.node[p].parent
           k == [h EXCEPT !.node[s].parent = above]
           r == Relinked(k, above, p, s)
           g == Freed(r, {at, p})
<1>1. /\ Shape(h, B) /\ h \in Heaps /\ at \in Nodes(h) /\ at \notin Inner(h) /\ at # h.root
      /\ p = h.node[at].parent /\ p \in Inner(h) /\ p \in Nodes(h) /\ s \in Nodes(h)
      /\ s # at /\ s # p /\ h.node[s].parent = p
  <2>1. Shape(h, B) /\ at \in Leaves(h) /\ p \in Inner(h)
    BY DEF Removable
  <2>2. h \in Heaps /\ at \in Nodes(h) /\ at \notin Inner(h) /\ p \in Nodes(h)
    BY <2>1 DEF Shape, Leaves, Inner
  <2> QED BY <2>1, <2>2 DEF Removable
<1>2. /\ Nodes(h) \subseteq Node /\ above \in Node \cup {None} /\ p # None /\ at # None
      /\ h.node \in [Nodes(h) -> Contents]
  <2>1. h.node[p] \in Contents /\ Nodes(h) \subseteq Node /\ h.node \in [Nodes(h) -> Contents]
    BY <1>1, Typed
  <2> QED BY <1>1, <2>1, NoneAssumption DEF Contents
<1>3. above # None => above \in Inner(h) /\ above # s
  <2>1. above # None => p # h.root
    BY <1>1, HasRoot DEF RootOK
  <2>2. p # h.root => above \in Inner(h) /\ Cardinality(B[p]) < Cardinality(B[above])
    BY <1>1, Parents
  <2>3. B[s] \subseteq B[p]
    BY DEF Removable
  <2>4. Cardinality(B[s]) <= Cardinality(B[p])
    BY <1>1, <2>3, Sizes, FS_Subset
  <2>5. above = s => ~(Cardinality(B[p]) < Cardinality(B[above]))
    BY <1>1, <2>4, Sizes
  <2> QED BY <2>1, <2>2, <2>5
<1> HIDE DEF above
<1>4. /\ k \in Heaps /\ k.root = h.root /\ Nodes(k) = Nodes(h)
      /\ k.node[s] = [is_node |-> h.node[s].is_node, client |-> h.node[s].client,
                      parent |-> above, children |-> h.node[s].children]
      /\ \A m \in Nodes(h) \ {s} : k.node[m] = h.node[m]
  BY <1>1, <1>2, ReparentedIs
<1> HIDE DEF k
<1>5. above # None => k.node[above] = h.node[above]
  BY <1>3, <1>4 DEF Inner
<1>6. /\ r \in Heaps /\ Nodes(r) = Nodes(k)
      /\ r.root = IF p = h.root THEN s ELSE h.root
      /\ \A m \in Nodes(k) \ Inner(h) : r.node[m] = k.node[m]
      /\ \A m \in Inner(h) :
           r.node[m] = [is_node |-> k.node[m].is_node, client |-> k.node[m].client,
                        parent |-> k.node[m].parent,
                        children |-> IF m = above THEN Spliced(h, m, p, s)
                                     ELSE k.node[m].children]
  <2>1. Shape(h, B) /\ p \in Nodes(h) /\ s \in Node
    BY <1>1, <1>2
  <2>2. k \in Heaps /\ Nodes(h) \subseteq Nodes(k) /\ k.root = h.root
    BY <1>4
  <2>3. above = h.node[p].parent
    BY DEF above
  <2> QED BY <1>5, <2>1, <2>2, <2>3, SplicedIs
<1> HIDE DEF r
<1>7. ASSUME NEW m \in Inner(h)
      PROVE  (IF m = above THEN Spliced(h, m, p, s) ELSE h.node[m].children)
               = Spliced(h, m, p, s)
  <2>1. InnerOK(h, B, m) /\ h.node[m].is_node
    BY <1>1 DEF Shape, Inner
  <2>2. m # above => \A i \in 1..2 : Kid(h, m, i) # p
    BY <2>1 DEF InnerOK, above
  <2>3. h.node[m].children = [i \in 1..2 |-> Kid(h, m, i)]
    BY <2>1 DEF InnerOK, Kid
  <2> QED BY <2>1, <2>2, <2>3 DEF Spliced
<1>8. \A m \in Nodes(h) :
        k.node[m] = [is_node |-> h.node[m].is_node, client |-> h.node[m].client,
                     parent |-> IF m = s THEN above ELSE h.node[m].parent,
                     children |-> h.node[m].children]
  <2>1. \A m \in Nodes(h) : h.node[m] \in Contents
    BY <1>2
  <2>2. \A m \in Nodes(h) :
          h.node[m] = [is_node |-> h.node[m].is_node, client |-> h.node[m].client,
                       parent |-> h.node[m].parent, children |-> h.node[m].children]
    BY <2>1 DEF Contents
  <2> QED BY <1>4, <2>2
<1>9. ASSUME NEW m \in Nodes(h)
      PROVE  r.node[m] = [is_node |-> h.node[m].is_node, client |-> h.node[m].client,
                          parent |-> IF m = s THEN above ELSE h.node[m].parent,
                          children |-> Spliced(h, m, p, s)]
  <2>1. CASE m \in Inner(h)
    <3>1. /\ k.node[m].is_node = h.node[m].is_node /\ k.node[m].client = h.node[m].client
          /\ k.node[m].parent = (IF m = s THEN above ELSE h.node[m].parent)
          /\ k.node[m].children = h.node[m].children
      <4>1. k.node[m] = [is_node |-> h.node[m].is_node, client |-> h.node[m].client,
                         parent |-> IF m = s THEN above ELSE h.node[m].parent,
                         children |-> h.node[m].children]
        BY <1>8
      <4> QED BY <4>1
    <3>2. r.node[m] = [is_node |-> k.node[m].is_node, client |-> k.node[m].client,
                       parent |-> k.node[m].parent,
                       children |-> IF m = above THEN Spliced(h, m, p, s)
                                    ELSE k.node[m].children]
      BY <1>6, <2>1
    <3>3. (IF m = above THEN Spliced(h, m, p, s) ELSE h.node[m].children)
            = Spliced(h, m, p, s)
      BY <1>7, <2>1
    <3> QED BY <3>1, <3>2, <3>3
  <2>2. CASE m \notin Inner(h)
    <3>1. LeafOK(h, B, m) /\ ~h.node[m].is_node
      BY <1>1, <2>2 DEF Shape, Inner
    <3>2. Spliced(h, m, p, s) = <<>> /\ h.node[m].children = <<>>
      BY <3>1 DEF Spliced, LeafOK
    <3>3. r.node[m] = k.node[m]
      BY <1>4, <1>6, <2>2
    <3> QED BY <1>8, <3>2, <3>3
  <2> QED BY <2>1, <2>2
<1>10. /\ g \in Heaps /\ g.root = r.root /\ Nodes(g) = Nodes(h) \ {at, p}
       /\ \A m \in Nodes(g) : g.node[m] = r.node[m]
  <2> DEFINE D == Nodes(h) \ {at, p}
             f == [n \in D |-> r.node[n]]
  <2>1. g = [root |-> r.root, node |-> f]
    BY <1>4, <1>6, Typed DEF Freed, Nodes
  <2>2. r.node \in [Nodes(h) -> Contents] /\ r.root \in Node \cup {None}
    BY <1>4, <1>6, Typed
  <2>3. f \in [D -> Contents] /\ D \in SUBSET Node /\ \A m \in D : f[m] = r.node[m]
    BY <1>2, <2>2
  <2> HIDE DEF f, D
  <2>4. [root |-> r.root, node |-> f] \in Heaps
    BY <2>2, <2>3, IsHeap
  <2> HIDE DEF g
  <2> QED BY <2>1, <2>3, <2>4 DEF Nodes, D
<1>11. remove_leaf(h, at) = g
  <2>1. Kid(h, p, IF Kid(h, p, 1) = at THEN 2 ELSE 1) = s
    BY <1>1 DEF Removable
  <2>2. remove_leaf(h, at) =
          IF at = None THEN h
          ELSE IF h.node[at].parent = None THEN [Freed(h, {at}) EXCEPT !.root = None]
          ELSE Freed(Relinked([h EXCEPT !.node[Kid(h, h.node[at].parent,
                                 IF Kid(h, h.node[at].parent, 1) = at THEN 2 ELSE 1)].parent
                                   = h.node[h.node[at].parent].parent],
                              h.node[h.node[at].parent].parent, h.node[at].parent,
                              Kid(h, h.node[at].parent,
                                  IF Kid(h, h.node[at].parent, 1) = at THEN 2 ELSE 1)),
                     {at, h.node[at].parent})
    BY DEF remove_leaf, Kid
  <2> QED BY <1>1, <1>2, <2>1, <2>2 DEF g, r, k, above
<1> HIDE DEF g
<1> QED BY <1>6, <1>9, <1>10, <1>11 DEF IsRemoved, above

Narrowed(h, B, c, at, p) == [n \in Nodes(h) \ {at, p} |-> B[n] \ {c}]

Removing(h, B, c, at, p, s, g, W) ==
    /\ Removable(h, B, c, at, p, s) /\ IsRemoved(g, h, at, p, s)
    /\ W = Narrowed(h, B, c, at, p)

LEMMA CutFields ==
    ASSUME NEW h, NEW B, NEW c, NEW at, NEW p, NEW s, NEW g, NEW W,
           Removing(h, B, c, at, p, s, g, W), NEW n \in Nodes(g)
    PROVE  /\ g.node[n].is_node = h.node[n].is_node /\ g.node[n].client = h.node[n].client
           /\ g.node[n].parent = (IF n = s THEN h.node[p].parent ELSE h.node[n].parent)
           /\ g.node[n].children = Spliced(h, n, p, s)
<1>1. g.node[n] = [is_node |-> h.node[n].is_node, client |-> h.node[n].client,
                   parent |-> IF n = s THEN h.node[p].parent ELSE h.node[n].parent,
                   children |-> Spliced(h, n, p, s)]
  <2>1. IsRemoved(g, h, at, p, s)
    BY DEF Removing
  <2> QED BY <2>1 DEF IsRemoved
<1> QED BY <1>1

LEMMA CutNodes ==
    ASSUME NEW h, NEW B, NEW c, NEW at, NEW p, NEW s, NEW g, NEW W,
           Removing(h, B, c, at, p, s, g, W)
    PROVE  /\ Shape(h, B) /\ g \in Heaps
           /\ Nodes(g) = Nodes(h) \ {at, p} /\ Inner(g) = Inner(h) \ {p}
           /\ p = h.node[at].parent /\ h.node[s].parent = p /\ p # None
           /\ p \in Inner(h) /\ p \in Nodes(h) /\ at \in Leaves(h) /\ at \in Nodes(h)
           /\ at \notin Inner(h) /\ at # p /\ s \in Nodes(g) /\ at # h.root
<1>1. Removable(h, B, c, at, p, s) /\ IsRemoved(g, h, at, p, s)
  BY DEF Removing
<1>2. Shape(h, B) /\ at \in Leaves(h) /\ p \in Inner(h) /\ at # h.root
      /\ p = h.node[at].parent /\ h.node[s].parent = p /\ s \in Nodes(h) /\ s # at /\ s # p
  BY <1>1 DEF Removable
<1>3. Nodes(g) = Nodes(h) \ {at, p} /\ g \in Heaps
  BY <1>1 DEF IsRemoved
<1>4. p \in Nodes(h) /\ at \in Nodes(h) /\ at \notin Inner(h) /\ at # p
  BY <1>2 DEF Leaves, Inner
<1>5. Inner(g) = Inner(h) \ {p}
  <2>1. \A n \in Nodes(g) : g.node[n].is_node = h.node[n].is_node
    BY CutFields
  <2>2. Inner(h) \subseteq Nodes(h)
    BY DEF Inner
  <2> QED BY <1>3, <1>4, <2>1, <2>2 DEF Inner
<1>6. p # None
  BY <1>2, <1>4, NoneAssumption DEF Shape, Heaps, Nodes
<1> QED BY <1>2, <1>3, <1>4, <1>5, <1>6

LEMMA CutSets ==
    ASSUME NEW h, NEW B, NEW c, NEW at, NEW p, NEW s, NEW g, NEW W,
           Removing(h, B, c, at, p, s, g, W)
    PROVE  /\ c \in Window /\ B[at] = {c} /\ B[p] = B[s] \cup {c} /\ c \notin B[s]
           /\ \A n \in Nodes(g) : W[n] = B[n] \ {c} /\ W[n] # {}
           /\ W \in [Nodes(g) -> SUBSET Window]
<1>1. B[at] = {c} /\ B[p] = B[s] \cup {c} /\ c \notin B[s]
  BY DEF Removing, Removable
<1>2. /\ Shape(h, B) /\ at \in Leaves(h) /\ at \in Nodes(h) /\ Nodes(g) = Nodes(h) \ {at, p}
  BY CutNodes
<1>3. c \in Window
  BY <1>1, <1>2, Sizes
<1>4. W = [n \in Nodes(g) |-> B[n] \ {c}]
  BY <1>2 DEF Removing, Narrowed
<1>5. ASSUME NEW n \in Nodes(g) PROVE B[n] \ {c} # {} /\ B[n] \ {c} \in SUBSET Window
  <2>1. n \in Nodes(h) /\ n # at
    BY <1>2
  <2>2. ~(B[n] \subseteq B[at]) /\ B[n] \subseteq Window
    BY <1>2, <2>1, OneLeaf, Sizes
  <2> QED BY <1>1, <2>2
<1> QED BY <1>1, <1>3, <1>4, <1>5

LEMMA CutKids ==
    ASSUME NEW h, NEW B, NEW c, NEW at, NEW p, NEW s, NEW g, NEW W,
           Removing(h, B, c, at, p, s, g, W), NEW n \in Inner(g), NEW i \in 1..2
    PROVE  /\ Kid(g, n, i) = (IF Kid(h, n, i) = p THEN s ELSE Kid(h, n, i))
           /\ Kid(h, n, i) \in Nodes(h) /\ h.node[Kid(h, n, i)].parent = n /\ Kid(h, n, i) # s
           /\ Kid(g, n, i) \in Nodes(g) /\ W[Kid(g, n, i)] = B[Kid(h, n, i)] \ {c}
<1>1. /\ Shape(h, B) /\ Nodes(g) = Nodes(h) \ {at, p} /\ Inner(g) = Inner(h) \ {p}
      /\ p = h.node[at].parent /\ h.node[s].parent = p /\ s \in Nodes(g)
  BY CutNodes
<1>2. n \in Inner(h) /\ n # p /\ h.node[n].is_node /\ n \in Nodes(g)
  BY <1>1 DEF Inner
<1>3. Kid(h, n, i) \in Nodes(h) /\ h.node[Kid(h, n, i)].parent = n
  BY <1>1, <1>2, Kids
<1>4. Kid(g, n, i) = (IF Kid(h, n, i) = p THEN s ELSE Kid(h, n, i))
  <2>1. g.node[n].children = Spliced(h, n, p, s)
    BY <1>2, CutFields
  <2> QED BY <1>2, <2>1 DEF Kid, Spliced
<1>5. Kid(h, n, i) # at /\ Kid(h, n, i) # s
  BY <1>1, <1>2, <1>3
<1>6. Kid(g, n, i) \in Nodes(g)
  BY <1>1, <1>3, <1>4, <1>5
<1>7. /\ B[p] = B[s] \cup {c} /\ c \notin B[s]
      /\ \A m \in Nodes(g) : W[m] = B[m] \ {c}
  BY CutSets
<1>8. W[Kid(g, n, i)] = B[Kid(h, n, i)] \ {c}
  <2>1. W[Kid(g, n, i)] = B[Kid(g, n, i)] \ {c}
    BY <1>6, <1>7
  <2>2. B[s] \ {c} = B[p] \ {c}
    BY <1>7
  <2> QED BY <1>4, <2>1, <2>2
<1> QED BY <1>3, <1>4, <1>5, <1>6, <1>8

LEMMA CutInner ==
    ASSUME NEW h, NEW B, NEW c, NEW at, NEW p, NEW s, NEW g, NEW W,
           Removing(h, B, c, at, p, s, g, W), NEW n \in Inner(g)
    PROVE  InnerOK(g, W, n)
<1>1. Shape(h, B) /\ n \in Inner(h) /\ n \in Nodes(g) /\ h.node[n].is_node
  BY CutNodes DEF Inner
<1>2. InnerOK(h, B, n)
  BY <1>1 DEF Shape
<1>3. \A i \in 1..2 :
        /\ Kid(g, n, i) = (IF Kid(h, n, i) = p THEN s ELSE Kid(h, n, i))
        /\ h.node[Kid(h, n, i)].parent = n /\ Kid(h, n, i) # s
        /\ Kid(g, n, i) \in Nodes(g) /\ W[Kid(g, n, i)] = B[Kid(h, n, i)] \ {c}
  BY CutKids
<1>4. g.node[n].children \in [1..2 -> Nodes(g)]
  <2>1. g.node[n].children = [i \in 1..2 |-> IF Kid(h, n, i) = p THEN s ELSE Kid(h, n, i)]
    BY <1>1, CutFields DEF Spliced
  <2> QED BY <1>3, <2>1
<1>5. \A i \in 1..2 : g.node[Kid(g, n, i)].parent = n
  BY <1>3, CutFields
<1>6. W[n] = B[n] \ {c}
  BY <1>1, CutSets
<1>7. /\ W[n] = W[Kid(g, n, 1)] \cup W[Kid(g, n, 2)]
      /\ W[Kid(g, n, 1)] \cap W[Kid(g, n, 2)] = {}
  <2>1. /\ B[n] = B[Kid(h, n, 1)] \cup B[Kid(h, n, 2)]
        /\ B[Kid(h, n, 1)] \cap B[Kid(h, n, 2)] = {}
    BY <1>2 DEF InnerOK
  <2> QED BY <1>3, <1>6, <2>1
<1> QED BY <1>4, <1>5, <1>7 DEF InnerOK

LEMMA CutLeaf ==
    ASSUME NEW h, NEW B, NEW c, NEW at, NEW p, NEW s, NEW g, NEW W,
           Removing(h, B, c, at, p, s, g, W), NEW n \in Nodes(g) \ Inner(g)
    PROVE  LeafOK(g, W, n)
<1>1. Shape(h, B) /\ n \in Nodes(h) \ Inner(h) /\ ~h.node[n].is_node
  BY CutNodes DEF Inner
<1>2. LeafOK(h, B, n)
  BY <1>1 DEF Shape
<1>3. g.node[n].client = h.node[n].client /\ g.node[n].children = <<>>
  <2>1. g.node[n].client = h.node[n].client /\ g.node[n].children = Spliced(h, n, p, s)
    BY CutFields
  <2> QED BY <1>1, <2>1 DEF Spliced
<1>4. W[n] = B[n] \ {c} /\ W[n] # {}
  BY CutSets
<1> QED BY <1>2, <1>3, <1>4 DEF LeafOK

LEMMA CutParent ==
    ASSUME NEW h, NEW B, NEW c, NEW at, NEW p, NEW s, NEW g, NEW W,
           Removing(h, B, c, at, p, s, g, W), NEW n \in Nodes(g) \ {g.root}
    PROVE  ParentOK(g, n)
<1>1. /\ Shape(h, B) /\ Nodes(g) = Nodes(h) \ {at, p} /\ Inner(g) = Inner(h) \ {p}
      /\ p \in Nodes(h)
  BY CutNodes
<1>2. g.root = (IF p = h.root THEN s ELSE h.root)
  BY DEF Removing, IsRemoved
<1> DEFINE m == IF n = s THEN p ELSE n
           a == h.node[m].parent
<1>3. m \in Nodes(h) /\ m # h.root
  BY <1>1, <1>2
<1>4. g.node[n].parent = a
  BY CutFields
<1>5. a \in Inner(h) /\ (\E i \in 1..2 : Kid(h, a, i) = m)
      /\ Cardinality(B[m]) < Cardinality(B[a])
  <2> HIDE DEF m
  <2> QED BY <1>1, <1>3, Parents
<1>6. a # p
  <2>1. CASE n = s
    <3>1. a = p => Cardinality(B[p]) < Cardinality(B[p])
      BY <1>5, <2>1
    <3> QED BY <1>1, <3>1, Sizes
  <2>2. CASE n # s
    <3>1. a = p => n = at \/ n = s
      <4>1. \/ Kid(h, p, 1) = at /\ Kid(h, p, 2) = s
            \/ Kid(h, p, 1) = s /\ Kid(h, p, 2) = at
        BY DEF Removing, Removable
      <4>2. ASSUME a = p, NEW i \in 1..2, Kid(h, a, i) = m PROVE n = at \/ n = s
        <5>1. i = 1 \/ i = 2
          OBVIOUS
        <5> QED BY <2>2, <4>1, <4>2, <5>1
      <4> HIDE DEF a, m
      <4> QED BY <1>5, <4>2
    <3> QED BY <1>1, <2>2, <3>1
  <2> QED BY <2>1, <2>2
<1>7. \E i \in 1..2 : Kid(g, a, i) = n
  <2>1. a \in Inner(g)
    BY <1>1, <1>5, <1>6
  <2>2. PICK i \in 1..2 : Kid(h, a, i) = m
    BY <1>5
  <2> HIDE DEF a
  <2>3. Kid(g, a, i) = IF m = p THEN s ELSE m
    BY <2>1, <2>2, CutKids
  <2> QED BY <1>1, <2>3
<1> QED BY <1>1, <1>4, <1>5, <1>6, <1>7 DEF ParentOK

LEMMA CutNested ==
    ASSUME NEW h, NEW B, NEW c, NEW at, NEW p, NEW s, NEW g, NEW W,
           Removing(h, B, c, at, p, s, g, W), NEW n \in Nodes(g), NEW m \in Nodes(g)
    PROVE  Nested(g, W, n, m)
<1>1. Shape(h, B) /\ Nodes(g) = Nodes(h) \ {at, p} /\ Inner(g) = Inner(h) \ {p}
  BY CutNodes
<1>2. \A k \in Nodes(g) : W[k] = B[k] \ {c}
  BY CutSets
<1>3. ASSUME NEW j \in Nodes(g), NEW k \in Nodes(g), Below(h, B, j, k)
      PROVE  Below(g, W, j, k)
  <2>1. PICK i \in 1..2 : k \in Inner(h) /\ B[j] \subseteq B[Kid(h, k, i)]
    BY <1>3 DEF Below
  <2>2. k \in Inner(g)
    BY <1>1, <2>1
  <2>3. W[Kid(g, k, i)] = B[Kid(h, k, i)] \ {c}
    BY <2>2, CutKids
  <2> QED BY <1>2, <2>1, <2>2, <2>3 DEF Below
<1>4. Nested(h, B, n, m)
  BY <1>1 DEF Shape
<1>5. B[n] \cap B[m] = {} => W[n] \cap W[m] = {}
  BY <1>2
<1> QED BY <1>3, <1>4, <1>5 DEF Nested

LEMMA CutRoot ==
    ASSUME NEW h, NEW B, NEW c, NEW at, NEW p, NEW s, NEW g, NEW W,
           Removing(h, B, c, at, p, s, g, W)
    PROVE  /\ g.root # None /\ RootOK(g, W) /\ Counted(g, W)
           /\ h.root # None /\ c \in B[h.root] /\ W[g.root] = B[h.root] \ {c}
<1>1. /\ Shape(h, B) /\ Nodes(g) = Nodes(h) \ {at, p} /\ at # p /\ at # h.root
      /\ at \in Nodes(h) /\ p \in Nodes(h) /\ s \in Nodes(g) /\ h.node[s].parent = p /\ p # None
  BY CutNodes
<1>2. g.root = (IF p = h.root THEN s ELSE h.root)
  BY DEF Removing, IsRemoved
<1>3. h.root # None /\ RootOK(h, B) /\ Counted(h, B)
  BY <1>1, HasRoot
<1>4. /\ B[at] = {c} /\ B[p] = B[s] \cup {c} /\ c \notin B[s]
      /\ \A n \in Nodes(g) : W[n] = B[n] \ {c}
  BY CutSets
<1>5. g.root \in Nodes(g) /\ g.node[g.root].parent = None
  <2>1. g.root \in Nodes(g)
    BY <1>1, <1>2, <1>3 DEF RootOK
  <2>2. g.node[g.root].parent = (IF g.root = s THEN h.node[p].parent ELSE h.node[g.root].parent)
    BY <2>1, CutFields
  <2> QED BY <1>1, <1>2, <1>3, <2>1, <2>2 DEF RootOK
<1>6. W[g.root] = B[h.root] \ {c}
  <2>1. B[p] \ {c} = B[s] \ {c}
    BY <1>4
  <2> QED BY <1>2, <1>4, <1>5, <2>1
<1>7. c \in B[h.root] /\ \A n \in Nodes(g) : W[n] \subseteq W[g.root]
  <2>1. \A n \in Nodes(h) : B[n] \subseteq B[h.root]
    BY <1>3 DEF RootOK
  <2> QED BY <1>1, <1>4, <1>6, <2>1
<1>8. Counted(g, W)
  <2>1. Nodes(h) \in SUBSET Node
    BY <1>1, CutNodes DEF Shape, Heaps, Nodes
  <2>2. IsFiniteSet(Nodes(h)) /\ Cardinality(Nodes(h)) \in Nat
    BY <2>1, NodeAssumption, FS_Subset, FS_CardinalityType
  <2>3. IsFiniteSet(B[h.root]) /\ Cardinality(B[h.root]) \in Nat
    BY <1>1, <1>3, Sizes, FS_CardinalityType DEF RootOK
  <2>4. Cardinality(B[h.root] \ {c}) = Cardinality(B[h.root]) - 1
    BY <1>7, <2>3, FS_RemoveElement
  <2>5. /\ IsFiniteSet(Nodes(h) \ {at})
        /\ Cardinality(Nodes(h) \ {at}) = Cardinality(Nodes(h)) - 1
    BY <1>1, <2>2, FS_RemoveElement
  <2>6. Cardinality((Nodes(h) \ {at}) \ {p}) = Cardinality(Nodes(h)) - 2
    <3>1. Cardinality((Nodes(h) \ {at}) \ {p}) = Cardinality(Nodes(h) \ {at}) - 1
      BY <1>1, <2>5, FS_RemoveElement
    <3> QED BY <2>2, <2>5, <3>1
  <2>7. Nodes(g) = (Nodes(h) \ {at}) \ {p}
    BY <1>1
  <2>8. Cardinality(Nodes(h)) + 1 = 2 * Cardinality(B[h.root])
    BY <1>3 DEF Counted
  <2>9. Cardinality(Nodes(g)) + 1 = 2 * Cardinality(W[g.root])
    BY <1>6, <2>2, <2>3, <2>4, <2>6, <2>7, <2>8
  <2> QED BY <2>9 DEF Counted
<1>9. g.root # None
  BY <1>1, <1>2, <1>3, <1>5, NoneAssumption DEF Shape, Heaps, Nodes
<1> QED BY <1>3, <1>5, <1>6, <1>7, <1>8, <1>9 DEF RootOK

(***************************************************************************)
(* A leaf that goes: of the tree of splits, the other windows are kept.    *)
(***************************************************************************)
LEMMA CutMeant ==
    ASSUME NEW h, NEW B, NEW c, NEW at, NEW p, NEW s, NEW g, NEW W,
           Removing(h, B, c, at, p, s, g, W), NEW S, B[h.root] \cap S = B[h.root] \ {c}
    PROVE  Meant(g, W) = Kept(Meant(h, B), S)
<1> DEFINE cut(r) == <<r[1] \cap S, r[2] \cap S>>
           whole(r) == r[1] # {} /\ r[2] # {}
           split(n) == Halves(h, B, n)
           now(n) == Halves(g, W, n)
<1>1. /\ Shape(h, B) /\ Inner(g) = Inner(h) \ {p} /\ p \in Inner(h)
  BY CutNodes
<1>2. /\ g.root # None /\ h.root # None /\ RootOK(h, B) /\ W[g.root] = B[h.root] \ {c}
  BY CutRoot, CutNodes, HasRoot
<1>3. ASSUME NEW n \in Nodes(h) PROVE B[n] \cap S = B[n] \ {c}
  <2>1. B[n] \subseteq B[h.root]
    BY <1>2 DEF RootOK
  <2> QED BY <2>1
<1>4. ASSUME NEW n \in Inner(g) PROVE now(n) = cut(split(n)) /\ whole(now(n))
  <2>1. ASSUME NEW i \in 1..2
        PROVE  W[Kid(g, n, i)] = B[Kid(h, n, i)] \cap S /\ W[Kid(g, n, i)] # {}
    <3>1. Kid(h, n, i) \in Nodes(h) /\ Kid(g, n, i) \in Nodes(g)
          /\ W[Kid(g, n, i)] = B[Kid(h, n, i)] \ {c}
      BY CutKids
    <3> QED BY <1>3, <3>1, CutSets
  <2> QED BY <2>1 DEF Halves
<1>5. ~whole(cut(split(p)))
  <2>1. Kid(h, p, 1) = at \/ Kid(h, p, 2) = at
    BY DEF Removing, Removable
  <2>2. B[at] \cap S = {}
    BY <1>3, CutNodes, CutSets
  <2> QED BY <2>1, <2>2 DEF Halves
<1>6. Kept(Meant(h, B), S).splits
        = {r \in {cut(x) : x \in {split(n) : n \in Inner(h)}} : whole(r)}
  BY DEF Kept, Meant
<1>7. Meant(g, W).splits = {now(n) : n \in Inner(g)}
  BY DEF Meant
<1>8. {r \in {cut(x) : x \in {split(n) : n \in Inner(h)}} : whole(r)} = {now(n) : n \in Inner(g)}
  <2> HIDE DEF cut, whole, split, now
  <2> QED BY <1>1, <1>4, <1>5
<1>9. /\ Meant(g, W).leaves = B[h.root] \ {c} /\ Kept(Meant(h, B), S).leaves = B[h.root] \cap S
  BY <1>2 DEF Meant, Kept
<1>10. /\ Meant(g, W) = [leaves |-> Meant(g, W).leaves, splits |-> Meant(g, W).splits]
       /\ Kept(Meant(h, B), S) = [leaves |-> Kept(Meant(h, B), S).leaves,
                                  splits |-> Kept(Meant(h, B), S).splits]
  BY DEF Meant, Kept
<1> QED BY <1>6, <1>7, <1>8, <1>9, <1>10

LEMMA CutAfter ==
    ASSUME NEW h, NEW B, NEW c, NEW at, NEW p, NEW s, NEW g, NEW W,
           Removing(h, B, c, at, p, s, g, W), NEW d, d # c
    PROVE  After(g, W, d) = After(h, B, d) \ {c}
<1>1. Inner(g) = Inner(h) \ {p} /\ p \in Inner(h) /\ B[at] = {c}
  BY CutNodes, CutSets
<1>2. \A n \in Inner(g), i \in 1..2 : W[Kid(g, n, i)] = B[Kid(h, n, i)] \ {c}
  BY CutKids
<1>3. d \in B[Kid(h, p, 1)] => B[Kid(h, p, 2)] \ {c} = {}
  <2>1. Kid(h, p, 1) = at \/ Kid(h, p, 2) = at
    BY DEF Removing, Removable
  <2> QED BY <1>1, <2>1
<1>4. ASSUME NEW w PROVE w \in After(g, W, d) <=> w \in After(h, B, d) \ {c}
  <2>1. w \in After(g, W, d)
          <=> \E k \in Inner(g) : d \in W[Kid(g, k, 1)] /\ w \in W[Kid(g, k, 2)]
    BY DEF After
  <2>2. w \in After(h, B, d)
          <=> \E k \in Inner(h) : d \in B[Kid(h, k, 1)] /\ w \in B[Kid(h, k, 2)]
    BY DEF After
  <2>3. \A k \in Inner(g) : /\ d \in W[Kid(g, k, 1)] <=> d \in B[Kid(h, k, 1)]
                            /\ w \in W[Kid(g, k, 2)] <=> w \in B[Kid(h, k, 2)] \ {c}
    BY <1>2
  <2> QED BY <1>1, <1>3, <2>1, <2>2, <2>3
<1> QED BY <1>4

\* What is left of a heap without the leaf at of the window c.
Remains(g, W, h, B, c, at) ==
    /\ Shape(g, W)
    /\ \A S : B[h.root] \cap S = B[h.root] \ {c} => Meant(g, W) = Kept(Meant(h, B), S)
    /\ Leaves(g) = Leaves(h) \ {at}
    /\ \A n \in Leaves(g) : W[n] = B[n] /\ g.node[n].client = h.node[n].client
    /\ \A d : d # c => After(g, W, d) = After(h, B, d) \ {c}

LEMMA CutRemains ==
    ASSUME NEW h, NEW B, NEW c, NEW at, NEW p, NEW s, NEW g, NEW W,
           Removing(h, B, c, at, p, s, g, W)
    PROVE  Remains(g, W, h, B, c, at)
<1>1. Shape(g, W)
  <2>1. g \in Heaps /\ W \in [Nodes(g) -> SUBSET Window] /\ \A n \in Nodes(g) : W[n] # {}
    BY CutNodes, CutSets
  <2>2. g.root # None /\ RootOK(g, W) /\ Counted(g, W)
    BY CutRoot
  <2>3. \A n \in Inner(g) : InnerOK(g, W, n)
    BY CutInner
  <2>4. \A n \in Nodes(g) \ Inner(g) : LeafOK(g, W, n)
    BY CutLeaf
  <2>5. \A n \in Nodes(g) \ {g.root} : ParentOK(g, n)
    BY CutParent
  <2>6. \A n, m \in Nodes(g) : Nested(g, W, n, m)
    BY CutNested
  <2> QED BY <2>1, <2>2, <2>3, <2>4, <2>5, <2>6 DEF Shape
<1>2. \A S : B[h.root] \cap S = B[h.root] \ {c} => Meant(g, W) = Kept(Meant(h, B), S)
  BY CutMeant
<1>3. Leaves(g) = Leaves(h) \ {at}
  BY CutNodes DEF Leaves
<1>4. ASSUME NEW n \in Leaves(g) PROVE W[n] = B[n] /\ g.node[n].client = h.node[n].client
  <2>1. n \in Nodes(g) /\ n \in Nodes(h) \ Inner(h) /\ Shape(h, B)
    BY CutNodes DEF Leaves
  <2>2. LeafOK(h, B, n)
    BY <2>1 DEF Shape
  <2>3. W[n] = B[n] \ {c} /\ W[n] # {} /\ g.node[n].client = h.node[n].client
    BY <2>1, CutSets, CutFields
  <2> QED BY <2>2, <2>3 DEF LeafOK
<1>5. \A d : d # c => After(g, W, d) = After(h, B, d) \ {c}
  BY CutAfter
<1> QED BY <1>1, <1>2, <1>3, <1>4, <1>5 DEF Remains

\* No node is left.
Bare == [root |-> None, node |-> [n \in {} |-> LeafOf(None)]]

LEMMA BareShape ==
    ASSUME NEW B, B = [n \in {} |-> {}]
    PROVE  Shape(Bare, B) /\ Meant(Bare, B) = Empty /\ Nodes(Bare) = {} /\ Inner(Bare) = {}
<1>1. Nodes(Bare) = {} /\ Inner(Bare) = {} /\ Bare.root = None
  BY DEF Bare, Nodes, Inner
<1>2. Bare \in Heaps
  <2> DEFINE f == [n \in {} |-> LeafOf(None)]
  <2>1. f \in [{} -> Contents] /\ {} \in SUBSET Node
    OBVIOUS
  <2>2. Bare = [root |-> None, node |-> f]
    BY DEF Bare
  <2> HIDE DEF f
  <2>3. [root |-> None, node |-> f] \in Heaps
    BY <2>1, IsHeap
  <2> QED BY <2>2, <2>3
<1>3. B \in [Nodes(Bare) -> SUBSET Window]
  BY <1>1
<1>4. Meant(Bare, B) = Empty
  BY <1>1 DEF Meant, Empty
<1> QED BY <1>1, <1>2, <1>3, <1>4 DEF Shape

LEMMA AllFreed ==
    ASSUME NEW h, h \in Heaps, NEW N, Nodes(h) \ N = {}
    PROVE  [Freed(h, N) EXCEPT !.root = None] = Bare
<1> DEFINE f == [n \in Nodes(h) \ N |-> h.node[n]]
<1>1. Freed(h, N) = [h EXCEPT !.node = f]
  BY DEF Freed, Nodes
<1>2. f = [n \in {} |-> LeafOf(None)]
  <2>1. f = [n \in {} |-> h.node[n]]
    OBVIOUS
  <2> QED BY <2>1
<1> HIDE DEF f
<1>3. Freed(h, N) = [root |-> h.root, node |-> f]
  BY <1>1, Typed
<1>4. [Freed(h, N) EXCEPT !.root = None] = [root |-> None, node |-> f]
  BY <1>3
<1> QED BY <1>2, <1>4 DEF Bare

LEMMA LastRemains ==
    ASSUME NEW h, NEW B, Shape(h, B), NEW at \in Leaves(h), at = h.root, NEW c, B[at] = {c}
    PROVE  remove_leaf(h, at) = Bare /\ \E W : Remains(Bare, W, h, B, c, at)
<1>1. at \in Nodes(h) /\ at \notin Inner(h) /\ h \in Heaps /\ RootOK(h, B) /\ h.root # None
  BY HasRoot DEF Leaves, Shape
<1>2. Nodes(h) = {at} /\ Inner(h) = {}
  <2>1. \A n \in Nodes(h) : n = at
    BY <1>1, OneLeaf DEF RootOK
  <2> QED BY <1>1, <2>1 DEF Inner
<1>3. remove_leaf(h, at) = Bare
  <2>1. remove_leaf(h, at) = [Freed(h, {at}) EXCEPT !.root = None]
    <3>1. at # None /\ h.node[at].parent = None
      BY <1>1 DEF RootOK
    <3> QED BY <3>1 DEF remove_leaf
  <2>2. Nodes(h) \ {at} = {}
    BY <1>2
  <2> QED BY <1>1, <2>1, <2>2, AllFreed
<1> DEFINE W == [n \in {} |-> {}]
<1>4. Shape(Bare, W) /\ Meant(Bare, W) = Empty /\ Nodes(Bare) = {} /\ Inner(Bare) = {}
  BY BareShape
<1> HIDE DEF W
<1>5. ASSUME NEW S, B[h.root] \cap S = B[h.root] \ {c} PROVE Kept(Meant(h, B), S) = Empty
  <2>1. B[h.root] \cap S = {} /\ {Halves(h, B, n) : n \in Inner(h)} = {}
    BY <1>2, <1>5
  <2>2. Meant(h, B) = [leaves |-> B[h.root], splits |-> {}]
    BY <1>1, <2>1 DEF Meant
  <2> QED BY <2>1, <2>2 DEF Kept, Empty
<1>6. Leaves(Bare) = Leaves(h) \ {at} /\ Leaves(Bare) = {}
  BY <1>2, <1>4 DEF Leaves
<1>7. \A d : After(Bare, W, d) = {} /\ After(h, B, d) = {}
  BY <1>2, <1>4 DEF After
<1>8. Remains(Bare, W, h, B, c, at)
  BY <1>4, <1>5, <1>6, <1>7 DEF Remains
<1> QED BY <1>3, <1>8

LEMMA RemovedShape ==
    ASSUME NEW h, NEW B, Shape(h, B), NEW at \in Leaves(h), NEW c, B[at] = {c}
    PROVE  \E W : Remains(remove_leaf(h, at), W, h, B, c, at)
<1>1. CASE at = h.root
  BY <1>1, LastRemains
<1>2. CASE at # h.root
  <2>1. PICK p, s : Removable(h, B, c, at, p, s)
    BY <1>2, IsRemovable
  <2> DEFINE g == remove_leaf(h, at)
             W == Narrowed(h, B, c, at, p)
  <2>2. IsRemoved(g, h, at, p, s)
    BY <2>1, RemovedIs
  <2> HIDE DEF g, W
  <2>3. Removing(h, B, c, at, p, s, g, W)
    BY <2>1, <2>2 DEF Removing, W
  <2>4. Remains(g, W, h, B, c, at)
    BY <2>3, CutRemains
  <2> QED BY <2>4 DEF g
<1> QED BY <1>1, <1>2

-----------------------------------------------------------------------------
(***************************************************************************)
(* dwindle_swap: the leaves of a and b exchange their windows.             *)
(***************************************************************************)
LEMMA RenamedTwice ==
    ASSUME NEW X, NEW a, NEW b, NEW w
    PROVE  w \in SwappedIn(X, a, b) <=> Renamed(w, a, b) \in X
<1>1. \A u : Renamed(Renamed(u, a, b), a, b) = u
  BY DEF Renamed
<1>2. w \in SwappedIn(X, a, b) <=> \E u \in X : w = Renamed(u, a, b)
  BY DEF SwappedIn
<1> QED BY <1>1, <1>2

LEMMA SwappedSets ==
    ASSUME NEW a, NEW b, NEW X, NEW Y
    PROVE  /\ SwappedIn(X \cup Y, a, b) = SwappedIn(X, a, b) \cup SwappedIn(Y, a, b)
           /\ X \cap Y = {} => SwappedIn(X, a, b) \cap SwappedIn(Y, a, b) = {}
           /\ X \subseteq Y => SwappedIn(X, a, b) \subseteq SwappedIn(Y, a, b)
           /\ X # {} => SwappedIn(X, a, b) # {}
           /\ a \in X /\ b \in X => SwappedIn(X, a, b) = X
<1>1. \A w : /\ w \in SwappedIn(X, a, b) <=> Renamed(w, a, b) \in X
             /\ w \in SwappedIn(Y, a, b) <=> Renamed(w, a, b) \in Y
             /\ w \in SwappedIn(X \cup Y, a, b) <=> Renamed(w, a, b) \in X \cup Y
  BY RenamedTwice
<1>2. SwappedIn(X \cup Y, a, b) = SwappedIn(X, a, b) \cup SwappedIn(Y, a, b)
  BY <1>1
<1>3. X \cap Y = {} => SwappedIn(X, a, b) \cap SwappedIn(Y, a, b) = {}
  BY <1>1
<1>4. X \subseteq Y => SwappedIn(X, a, b) \subseteq SwappedIn(Y, a, b)
  BY <1>1
<1>5. X # {} => SwappedIn(X, a, b) # {}
  BY DEF SwappedIn
<1>6. a \in X /\ b \in X => SwappedIn(X, a, b) = X
  <2>1. \A w : a \in X /\ b \in X => (Renamed(w, a, b) \in X <=> w \in X)
    BY DEF Renamed
  <2> QED BY <1>1, <2>1
<1> QED BY <1>2, <1>3, <1>4, <1>5, <1>6

LEMMA ReclientedIs ==
    ASSUME NEW h, h \in Heaps, NEW n \in Nodes(h), NEW c \in Window
    PROVE  LET g == [h EXCEPT !.node[n].client = c]
           IN  /\ g \in Heaps /\ g.root = h.root /\ Nodes(g) = Nodes(h)
               /\ g.node[n] = [is_node |-> h.node[n].is_node, client |-> c,
                               parent |-> h.node[n].parent, children |-> h.node[n].children]
               /\ \A m \in Nodes(h) \ {n} : g.node[m] = h.node[m]
<1> DEFINE x == [is_node |-> h.node[n].is_node, client |-> c,
                 parent |-> h.node[n].parent, children |-> h.node[n].children]
           f == [h.node EXCEPT ![n] = x]
<1>1. h.node \in [Nodes(h) -> Contents] /\ h.node[n] \in Contents
  BY Typed
<1>2. x \in Contents /\ [h.node[n] EXCEPT !.client = c] = x
  BY <1>1 DEF Contents
<1> HIDE DEF x
<1>3. [h EXCEPT !.node[n].client = c] = [root |-> h.root, node |-> f]
  BY <1>2, Typed
<1>4. f \in [Nodes(h) -> Contents] /\ f[n] = x /\ \A m \in Nodes(h) \ {n} : f[m] = h.node[m]
  BY <1>1, <1>2
<1> HIDE DEF f
<1>5. [root |-> h.root, node |-> f] \in Heaps
  BY <1>4, Typed, IsHeap
<1> QED BY <1>3, <1>4, <1>5 DEF Nodes, x

Exchanged(B, D, a, b) == [n \in D |-> SwappedIn(B[n], a, b)]

Swapping(h, B, a, b, g, W) ==
    /\ Shape(h, B) /\ a \in Window /\ b \in Window /\ h.root # None
    /\ a \in B[h.root] /\ b \in B[h.root]
    /\ g \in Heaps /\ g.root = h.root /\ Nodes(g) = Nodes(h)
    /\ \A n \in Nodes(h) :
         g.node[n] = [is_node |-> h.node[n].is_node,
                      client |-> IF n \in Leaves(h) THEN Renamed(h.node[n].client, a, b)
                                 ELSE h.node[n].client,
                      parent |-> h.node[n].parent, children |-> h.node[n].children]
    /\ W = Exchanged(B, Nodes(h), a, b)

LEMMA SwappedIs ==
    ASSUME NEW h, NEW B, Shape(h, B), NEW a \in Window, NEW b \in Window, a # b,
           NEW la, NEW lb, la = find_leaf(h, a), lb = find_leaf(h, b), la # None, lb # None
    PROVE  Swapping(h, B, a, b, swap(h, a, b), Exchanged(B, Nodes(h), a, b))
<1> DEFINE one == [h EXCEPT !.node[la].client = b]
           g == [one EXCEPT !.node[lb].client = a]
<1>1. h \in Heaps
  BY DEF Shape
<1>2. /\ la \in Leaves(h) /\ h.node[la].client = a /\ B[la] = {a} /\ a \in B[h.root]
      /\ lb \in Leaves(h) /\ h.node[lb].client = b /\ B[lb] = {b} /\ b \in B[h.root]
      /\ h.root # None
  BY FindsLeaf
<1>3. la # lb /\ la \in Nodes(h) /\ lb \in Nodes(h)
  BY <1>2 DEF Leaves
<1>4. /\ one \in Heaps /\ one.root = h.root /\ Nodes(one) = Nodes(h)
      /\ one.node[la] = [is_node |-> h.node[la].is_node, client |-> b,
                         parent |-> h.node[la].parent, children |-> h.node[la].children]
      /\ \A m \in Nodes(h) \ {la} : one.node[m] = h.node[m]
  BY <1>1, <1>3, ReclientedIs
<1> HIDE DEF one
<1>5. /\ g \in Heaps /\ g.root = h.root /\ Nodes(g) = Nodes(h)
      /\ g.node[lb] = [is_node |-> one.node[lb].is_node, client |-> a,
                       parent |-> one.node[lb].parent, children |-> one.node[lb].children]
      /\ \A m \in Nodes(h) \ {lb} : g.node[m] = one.node[m]
  BY <1>3, <1>4, ReclientedIs
<1>6. swap(h, a, b) = g
  BY DEF swap, one
<1> HIDE DEF g
<1>7. ASSUME NEW n \in Nodes(h)
      PROVE  g.node[n] = [is_node |-> h.node[n].is_node,
                          client |-> IF n \in Leaves(h) THEN Renamed(h.node[n].client, a, b)
                                     ELSE h.node[n].client,
                          parent |-> h.node[n].parent, children |-> h.node[n].children]
  <2>1. CASE n = la
    BY <1>2, <1>3, <1>4, <1>5, <2>1 DEF Renamed
  <2>2. CASE n = lb
    <3>1. one.node[lb] = h.node[lb]
      BY <1>3, <1>4
    <3> QED BY <1>2, <1>5, <2>2, <3>1 DEF Renamed
  <2>3. CASE n # la /\ n # lb
    <3>1. g.node[n] = h.node[n]
      BY <1>4, <1>5, <2>3
    <3>2. n \in Leaves(h) => h.node[n].client # a /\ h.node[n].client # b
      <4>1. ASSUME n \in Leaves(h) PROVE h.node[n].client # a /\ h.node[n].client # b
        <5>1. B[n] = {h.node[n].client}
          BY <4>1 DEF Shape, LeafOK, Leaves
        <5>2. ~(B[n] \subseteq B[la]) /\ ~(B[n] \subseteq B[lb])
          BY <1>2, <2>3, OneLeaf
        <5> QED BY <1>2, <5>1, <5>2
      <4> QED BY <4>1
    <3>3. h.node[n] \in Contents
      BY <1>1, Typed
    <3>4. h.node[n] = [is_node |-> h.node[n].is_node, client |-> h.node[n].client,
                       parent |-> h.node[n].parent, children |-> h.node[n].children]
      BY <3>3 DEF Contents
    <3>5. n \in Leaves(h) => Renamed(h.node[n].client, a, b) = h.node[n].client
      BY <3>2 DEF Renamed
    <3> QED BY <3>1, <3>4, <3>5
  <2> QED BY <2>1, <2>2, <2>3
<1> QED BY <1>2, <1>5, <1>6, <1>7 DEF Swapping

LEMMA SwapFields ==
    ASSUME NEW h, NEW B, NEW a, NEW b, NEW g, NEW W, Swapping(h, B, a, b, g, W)
    PROVE  /\ Shape(h, B) /\ Nodes(g) = Nodes(h) /\ Inner(g) = Inner(h) /\ Leaves(g) = Leaves(h)
           /\ \A n \in Nodes(h) :
                /\ g.node[n].is_node = h.node[n].is_node /\ g.node[n].parent = h.node[n].parent
                /\ g.node[n].children = h.node[n].children
                /\ n \in Leaves(h) => g.node[n].client = Renamed(h.node[n].client, a, b)
                /\ W[n] = SwappedIn(B[n], a, b)
           /\ \A n \in Nodes(h), i \in 1..2 : Kid(g, n, i) = Kid(h, n, i)
<1>1. /\ Shape(h, B) /\ Nodes(g) = Nodes(h)
      /\ \A n \in Nodes(h) :
           g.node[n] = [is_node |-> h.node[n].is_node,
                        client |-> IF n \in Leaves(h) THEN Renamed(h.node[n].client, a, b)
                                   ELSE h.node[n].client,
                        parent |-> h.node[n].parent, children |-> h.node[n].children]
      /\ W = Exchanged(B, Nodes(h), a, b)
  BY DEF Swapping
<1>2. ASSUME NEW n \in Nodes(h)
      PROVE  /\ g.node[n].is_node = h.node[n].is_node /\ g.node[n].parent = h.node[n].parent
             /\ g.node[n].children = h.node[n].children
             /\ n \in Leaves(h) => g.node[n].client = Renamed(h.node[n].client, a, b)
             /\ W[n] = SwappedIn(B[n], a, b)
  <2>1. g.node[n] = [is_node |-> h.node[n].is_node,
                     client |-> IF n \in Leaves(h) THEN Renamed(h.node[n].client, a, b)
                                ELSE h.node[n].client,
                     parent |-> h.node[n].parent, children |-> h.node[n].children]
    BY <1>1
  <2>2. W[n] = SwappedIn(B[n], a, b)
    BY <1>1 DEF Exchanged
  <2> QED BY <2>1, <2>2
<1>3. Inner(g) = Inner(h)
  BY <1>1, <1>2 DEF Inner
<1>4. \A n \in Nodes(h), i \in 1..2 : Kid(g, n, i) = Kid(h, n, i)
  BY <1>2 DEF Kid
<1> QED BY <1>1, <1>2, <1>3, <1>4 DEF Leaves

LEMMA SwapShape ==
    ASSUME NEW h, NEW B, NEW a, NEW b, NEW g, NEW W, Swapping(h, B, a, b, g, W)
    PROVE  Shape(g, W) /\ Meant(g, W) = Swapped(Meant(h, B), a, b)
<1>1. /\ a \in Window /\ b \in Window /\ h.root # None /\ g \in Heaps /\ g.root = h.root
      /\ a \in B[h.root] /\ b \in B[h.root] /\ W = Exchanged(B, Nodes(h), a, b)
  BY DEF Swapping
<1>2. /\ Shape(h, B) /\ Nodes(g) = Nodes(h) /\ Inner(g) = Inner(h) /\ Leaves(g) = Leaves(h)
      /\ Inner(h) \subseteq Nodes(h)
  BY SwapFields DEF Inner
<1>3. \A n \in Nodes(h) : W[n] = SwappedIn(B[n], a, b)
  BY SwapFields
<1>4. \A n \in Inner(h), i \in 1..2 :
        /\ Kid(g, n, i) = Kid(h, n, i) /\ Kid(h, n, i) \in Nodes(h)
        /\ W[Kid(g, n, i)] = SwappedIn(B[Kid(h, n, i)], a, b)
  BY <1>2, <1>3, SwapFields, Kids
<1>5. W \in [Nodes(g) -> SUBSET Window] /\ \A n \in Nodes(g) : W[n] # {}
  <2>1. ASSUME NEW n \in Nodes(h)
        PROVE  SwappedIn(B[n], a, b) \subseteq Window /\ SwappedIn(B[n], a, b) # {}
    <3>1. B[n] \subseteq Window /\ B[n] # {}
      BY <1>2, Sizes
    <3> QED BY <1>1, <3>1 DEF SwappedIn, Renamed
  <2> QED BY <1>1, <1>2, <2>1 DEF Exchanged
<1>6. RootOK(h, B) /\ Counted(h, B)
  BY <1>1, <1>2 DEF Shape
<1>7. W[g.root] = B[h.root]
  <2>1. h.root \in Nodes(h)
    BY <1>6 DEF RootOK
  <2> QED BY <1>1, <1>3, <2>1, SwappedSets
<1>8. RootOK(g, W) /\ Counted(g, W)
  <2>1. g.root \in Nodes(g) /\ g.node[g.root].parent = None
    BY <1>1, <1>2, <1>6, SwapFields DEF RootOK
  <2>2. \A n \in Nodes(g) : W[n] \subseteq W[g.root]
    <3>1. h.root \in Nodes(h) /\ \A n \in Nodes(h) : B[n] \subseteq B[h.root]
      BY <1>6 DEF RootOK
    <3> QED BY <1>1, <1>2, <1>3, <3>1, SwappedSets
  <2>3. Counted(g, W)
    BY <1>2, <1>6, <1>7 DEF Counted
  <2> QED BY <2>1, <2>2, <2>3 DEF RootOK
<1>9. ASSUME NEW n \in Inner(g) PROVE InnerOK(g, W, n)
  <2>1. InnerOK(h, B, n) /\ n \in Nodes(h) /\ n \in Inner(h)
    BY <1>2 DEF Shape
  <2>2. g.node[n].children \in [1..2 -> Nodes(g)]
    <3>1. g.node[n].children = h.node[n].children
      BY <2>1, SwapFields
    <3> QED BY <1>2, <2>1, <3>1 DEF InnerOK
  <2>3. \A i \in 1..2 : g.node[Kid(g, n, i)].parent = n
    <3>1. \A i \in 1..2 : h.node[Kid(h, n, i)].parent = n
      BY <2>1 DEF InnerOK
    <3> QED BY <1>4, <2>1, <3>1, SwapFields
  <2>4. /\ W[n] = W[Kid(g, n, 1)] \cup W[Kid(g, n, 2)]
        /\ W[Kid(g, n, 1)] \cap W[Kid(g, n, 2)] = {}
    <3>1. /\ B[n] = B[Kid(h, n, 1)] \cup B[Kid(h, n, 2)]
          /\ B[Kid(h, n, 1)] \cap B[Kid(h, n, 2)] = {}
      BY <2>1 DEF InnerOK
    <3>2. /\ W[n] = SwappedIn(B[n], a, b)
          /\ W[Kid(g, n, 1)] = SwappedIn(B[Kid(h, n, 1)], a, b)
          /\ W[Kid(g, n, 2)] = SwappedIn(B[Kid(h, n, 2)], a, b)
      BY <1>3, <1>4, <2>1
    <3> QED BY <3>1, <3>2, SwappedSets
  <2> QED BY <2>2, <2>3, <2>4 DEF InnerOK
<1>10. ASSUME NEW n \in Nodes(g) \ Inner(g) PROVE LeafOK(g, W, n)
  <2>1. LeafOK(h, B, n) /\ n \in Nodes(h) /\ n \in Leaves(h)
    BY <1>2 DEF Shape, Leaves
  <2>2. /\ g.node[n].client = Renamed(h.node[n].client, a, b)
        /\ g.node[n].children = h.node[n].children /\ W[n] = SwappedIn(B[n], a, b)
    BY <2>1, SwapFields
  <2>3. W[n] = {Renamed(h.node[n].client, a, b)} /\ Renamed(h.node[n].client, a, b) \in Window
    BY <1>1, <2>1, <2>2 DEF LeafOK, SwappedIn, Renamed
  <2> QED BY <2>1, <2>2, <2>3 DEF LeafOK
<1>11. ASSUME NEW n \in Nodes(g) \ {g.root} PROVE ParentOK(g, n)
  <2>1. ParentOK(h, n) /\ n \in Nodes(h)
    BY <1>1, <1>2 DEF Shape
  <2>2. g.node[n].parent = h.node[n].parent
    BY <2>1, SwapFields
  <2> QED BY <1>2, <1>4, <2>1, <2>2 DEF ParentOK
<1>12. ASSUME NEW n \in Nodes(g), NEW m \in Nodes(g) PROVE Nested(g, W, n, m)
  <2>1. Nested(h, B, n, m)
    BY <1>2 DEF Shape
  <2>2. \A j, k \in Nodes(h) : Below(h, B, j, k) => Below(g, W, j, k)
    <3>1. ASSUME NEW j \in Nodes(h), NEW k \in Nodes(h), Below(h, B, j, k)
          PROVE  Below(g, W, j, k)
      <4>1. PICK i \in 1..2 : k \in Inner(h) /\ B[j] \subseteq B[Kid(h, k, i)]
        BY <3>1 DEF Below
      <4>2. W[j] \subseteq W[Kid(g, k, i)]
        BY <1>3, <1>4, <4>1, SwappedSets
      <4> QED BY <1>2, <4>1, <4>2 DEF Below
    <3> QED BY <3>1
  <2>3. B[n] \cap B[m] = {} => W[n] \cap W[m] = {}
    <3>1. W[n] = SwappedIn(B[n], a, b) /\ W[m] = SwappedIn(B[m], a, b)
      BY <1>2, <1>3
    <3>2. B[n] \cap B[m] = {} => SwappedIn(B[n], a, b) \cap SwappedIn(B[m], a, b) = {}
      BY SwappedSets, Zenon
    <3> QED BY <3>1, <3>2
  <2> QED BY <1>2, <2>1, <2>2, <2>3 DEF Nested
<1>13. Shape(g, W)
  BY <1>1, <1>5, <1>8, <1>9, <1>10, <1>11, <1>12 DEF Shape
<1>14. Meant(g, W) = Swapped(Meant(h, B), a, b)
  <2> DEFINE now(s) == <<SwappedIn(s[1], a, b), SwappedIn(s[2], a, b)>>
             split(n) == Halves(h, B, n)
  <2>1. \A n \in Inner(h) : Halves(g, W, n) = now(split(n))
    BY <1>4 DEF Halves
  <2>2. Swapped(Meant(h, B), a, b)
          = [leaves |-> B[h.root], splits |-> {now(s) : s \in {split(n) : n \in Inner(h)}}]
    BY <1>1 DEF Swapped, Meant
  <2>3. Meant(g, W) = [leaves |-> B[h.root], splits |-> {Halves(g, W, n) : n \in Inner(h)}]
    BY <1>1, <1>2, <1>7 DEF Meant
  <2> HIDE DEF now, split
  <2>4. {Halves(g, W, n) : n \in Inner(h)} = {now(s) : s \in {split(n) : n \in Inner(h)}}
    BY <2>1
  <2> QED BY <2>2, <2>3, <2>4
<1> QED BY <1>13, <1>14

-----------------------------------------------------------------------------
(***************************************************************************)
(* The loop of dwindle.  The windows that it has not come to yet are kept  *)
(* for now; with the leaf that it stands at, they become fewer each round. *)
(***************************************************************************)
LEMMA KeptTwice ==
    ASSUME NEW t, NEW X, NEW Y, X \subseteq Y
    PROVE  Kept(Kept(t, Y), X) = Kept(t, X)
<1> DEFINE cut(s, Z) == <<s[1] \cap Z, s[2] \cap Z>>
           whole(s) == s[1] # {} /\ s[2] # {}
           some(U, Z) == {r \in {cut(s, Z) : s \in U} : whole(r)}
<1>1. \A s : cut(cut(s, Y), X) = cut(s, X)
  <2>1. \A s : cut(cut(s, Y), X) = <<(s[1] \cap Y) \cap X, (s[2] \cap Y) \cap X>>
    OBVIOUS
  <2>2. \A s : (s[1] \cap Y) \cap X = s[1] \cap X /\ (s[2] \cap Y) \cap X = s[2] \cap X
    OBVIOUS
  <2> QED BY <2>1, <2>2
<1>2. \A s : whole(cut(s, X)) => whole(cut(s, Y))
  OBVIOUS
<1>3. \A Z, u : Kept(u, Z) = [leaves |-> u.leaves \cap Z, splits |-> some(u.splits, Z)]
  BY DEF Kept
<1>4. some(some(t.splits, Y), X) = some(t.splits, X)
  <2> HIDE DEF cut, whole
  <2>1. \A r : r \in some(some(t.splits, Y), X)
                 <=> whole(r) /\ \E q \in some(t.splits, Y) : r = cut(q, X)
    OBVIOUS
  <2>2. \A q : q \in some(t.splits, Y) <=> whole(q) /\ \E s \in t.splits : q = cut(s, Y)
    OBVIOUS
  <2>3. \A r : r \in some(t.splits, X) <=> whole(r) /\ \E s \in t.splits : r = cut(s, X)
    OBVIOUS
  <2> HIDE DEF some
  <2>4. ASSUME NEW r PROVE r \in some(some(t.splits, Y), X) <=> r \in some(t.splits, X)
    <3>1. ASSUME r \in some(some(t.splits, Y), X) PROVE r \in some(t.splits, X)
      <4>1. whole(r) /\ \E s \in t.splits : r = cut(cut(s, Y), X)
        BY <2>1, <2>2, <3>1
      <4> QED BY <1>1, <2>3, <4>1
    <3>2. ASSUME r \in some(t.splits, X) PROVE r \in some(some(t.splits, Y), X)
      <4>1. PICK s \in t.splits : whole(r) /\ r = cut(s, X)
        BY <2>3, <3>2
      <4>2. cut(s, Y) \in some(t.splits, Y)
        BY <1>2, <2>2, <4>1
      <4> QED BY <1>1, <2>1, <4>1, <4>2
    <3> QED BY <3>1, <3>2
  <2> QED BY <2>4
<1> HIDE DEF some
<1>5. Kept(Kept(t, Y), X)
        = [leaves |-> (t.leaves \cap Y) \cap X, splits |-> some(some(t.splits, Y), X)]
  BY <1>3
<1>6. (t.leaves \cap Y) \cap X = t.leaves \cap X
  OBVIOUS
<1> QED BY <1>3, <1>4, <1>5, <1>6

LEMMA KeptAll ==
    ASSUME NEW h, NEW B, Shape(h, B), NEW X, Meant(h, B).leaves \subseteq X
    PROVE  Kept(Meant(h, B), X) = Meant(h, B)
<1> DEFINE t == Meant(h, B)
           cut(s) == <<s[1] \cap X, s[2] \cap X>>
           whole(s) == s[1] # {} /\ s[2] # {}
<1>1. ASSUME NEW n \in Inner(h) PROVE LET s == Halves(h, B, n) IN cut(s) = s /\ whole(s)
  <2>1. n \in Nodes(h) /\ h.root # None /\ RootOK(h, B)
    BY HasRoot DEF Inner
  <2>2. B[h.root] \subseteq X
    BY <2>1 DEF Meant
  <2>3. \A i \in 1..2 : B[Kid(h, n, i)] \subseteq X /\ B[Kid(h, n, i)] # {}
    BY <2>1, <2>2, Kids, Sizes DEF RootOK
  <2>4. B[Kid(h, n, 1)] \cap X = B[Kid(h, n, 1)] /\ B[Kid(h, n, 2)] \cap X = B[Kid(h, n, 2)]
    BY <2>3
  <2> QED BY <2>3, <2>4 DEF Halves
<1>2. t.splits = {Halves(h, B, n) : n \in Inner(h)}
  BY DEF Meant
<1>3. \A s \in t.splits : cut(s) = s /\ whole(s)
  <2> HIDE DEF cut, whole, t
  <2> QED BY <1>1, <1>2
<1>4. {r \in {cut(s) : s \in t.splits} : whole(r)} = t.splits
  <2> HIDE DEF cut, whole, t
  <2> QED BY <1>3
<1>5. t = [leaves |-> t.leaves, splits |-> t.splits] /\ t.leaves \cap X = t.leaves
  BY DEF Meant
<1>6. Kept(t, X) = [leaves |-> t.leaves \cap X,
                    splits |-> {r \in {cut(s) : s \in t.splits} : whole(r)}]
  BY DEF Kept
<1> HIDE DEF t, cut, whole
<1>7. Kept(t, X) = t
  BY <1>4, <1>5, <1>6
<1> QED BY <1>7 DEF t

LEMMA AfterApart ==
    ASSUME NEW h, NEW B, Shape(h, B), NEW c
    PROVE  c \notin After(h, B, c) /\ After(h, B, c) \subseteq Window
<1>1. ASSUME NEW k \in Inner(h)
      PROVE  B[Kid(h, k, 1)] \cap B[Kid(h, k, 2)] = {} /\ B[Kid(h, k, 2)] \subseteq Window
  <2>1. InnerOK(h, B, k) /\ Kid(h, k, 2) \in Nodes(h)
    BY Kids DEF Shape
  <2> QED BY <2>1, Sizes DEF InnerOK
<1> QED BY <1>1 DEF After

\* The loop stands at a leaf, or has come to the end.
States == [heap : Heaps, leaf : Node \cup {None}]
Left(r, B) ==
    IF r.leaf = None THEN {} ELSE B[r.leaf] \cup After(r.heap, B, r.heap.node[r.leaf].client)
Pruning(r, B, t, S, k) ==
    /\ Shape(r.heap, B) /\ (r.leaf = None \/ r.leaf \in Leaves(r.heap))
    /\ Meant(r.heap, B) = Kept(t, S \cup Left(r, B))
    /\ Cardinality(Left(r, B)) <= k
PruningIn(t, S, k) == {r \in States : \E B : Pruning(r, B, t, S, k)}

LEMMA LeftAt ==
    ASSUME NEW r, NEW B, Shape(r.heap, B), r.leaf \in Leaves(r.heap), NEW c, B[r.leaf] = {c}
    PROVE  /\ c = r.heap.node[r.leaf].client /\ r.leaf # None
           /\ Left(r, B) = {c} \cup After(r.heap, B, c)
<1>1. r.leaf \in Nodes(r.heap) /\ LeafOK(r.heap, B, r.leaf)
  BY DEF Shape, Leaves
<1>2. r.leaf # None
  BY <1>1, NoneAssumption DEF Shape, Heaps, Nodes
<1> QED BY <1>1, <1>2 DEF LeafOK, Left

LEMMA LeftSize ==
    ASSUME NEW r, NEW B, Shape(r.heap, B), r.leaf = None \/ r.leaf \in Leaves(r.heap)
    PROVE  /\ Left(r, B) \subseteq Window /\ IsFiniteSet(Left(r, B))
           /\ Cardinality(Left(r, B)) \in 0..Cardinality(Window)
<1>1. Left(r, B) \subseteq Window
  <2>1. CASE r.leaf = None
    BY <2>1 DEF Left
  <2>2. CASE r.leaf \in Leaves(r.heap)
    <3>1. B[r.leaf] \subseteq Window
      BY <2>2, Sizes DEF Leaves
    <3>2. After(r.heap, B, r.heap.node[r.leaf].client) \subseteq Window
      BY AfterApart
    <3> QED BY <3>1, <3>2 DEF Left
  <2> QED BY <2>1, <2>2
<1>2. IsFiniteSet(Left(r, B)) /\ Cardinality(Left(r, B)) <= Cardinality(Window)
  BY <1>1, WindowAssumption, FS_Subset
<1>3. Cardinality(Left(r, B)) \in Nat /\ Cardinality(Window) \in Nat
  BY <1>2, WindowAssumption, FS_CardinalityType
<1> QED BY <1>1, <1>2, <1>3

\* The leaves after that of c are as before.
Carries(g, W, h, B, c, m) ==
    /\ Shape(g, W)
    /\ \A n \in Leaves(h) \ {m} : n \in Leaves(g) /\ W[n] = B[n]
    /\ \A d : d # c /\ c \notin After(h, B, d) => After(g, W, d) = After(h, B, d)

LEMMA CarriesOn ==
    ASSUME NEW h, NEW B, Shape(h, B), NEW m \in Leaves(h), NEW c, B[m] = {c},
           NEW g, NEW W, Carries(g, W, h, B, c, m), NEW r,
           r = [heap |-> g, leaf |-> next_leaf(h, m)]
    PROVE  /\ r.leaf = None \/ r.leaf \in Leaves(g)
           /\ Left(r, W) = After(h, B, c) /\ r \in States
<1> DEFINE n == next_leaf(h, m)
<1>1. Shape(g, W) /\ g \in Heaps
  BY DEF Carries, Shape
<1>2. r.heap = g /\ r.leaf = n
  OBVIOUS
<1> HIDE DEF n
<1>3. CASE n = None /\ After(h, B, c) = {}
  BY <1>1, <1>2, <1>3 DEF Left, States
<1>4. ASSUME NEW d, n \in Leaves(h), B[n] = {d}, After(h, B, c) = {d} \cup After(h, B, d)
      PROVE  n \in Leaves(g) /\ Left(r, W) = After(h, B, c)
  <2>1. c \notin After(h, B, c)
    BY AfterApart
  <2>2. d # c /\ c \notin After(h, B, d) /\ n # m
    BY <1>4, <2>1
  <2>3. n \in Leaves(g) /\ W[n] = {d} /\ After(g, W, d) = After(h, B, d)
    BY <1>4, <2>2 DEF Carries
  <2>4. Left(r, W) = {d} \cup After(g, W, d)
    BY <1>1, <1>2, <2>3, LeftAt
  <2> QED BY <1>4, <2>3, <2>4
<1>5. CASE \E d : n \in Leaves(h) /\ B[n] = {d} /\ After(h, B, c) = {d} \cup After(h, B, d)
  <2>1. n \in Leaves(g) /\ Left(r, W) = After(h, B, c)
    BY <1>4, <1>5
  <2>2. n \in Node
    BY <1>1, <2>1, Typed DEF Leaves
  <2> QED BY <1>1, <1>2, <2>1, <2>2 DEF States
<1>6. \/ n = None /\ After(h, B, c) = {}
      \/ \E d : n \in Leaves(h) /\ B[n] = {d} /\ After(h, B, c) = {d} \cup After(h, B, d)
  BY NextLeaf DEF n
<1> QED BY <1>3, <1>5, <1>6

LEMMA StaysCarries ==
    ASSUME NEW h, NEW B, Shape(h, B), NEW m, NEW c
    PROVE  Carries(h, B, h, B, c, m)
BY DEF Carries

LEMMA RemainsCarries ==
    ASSUME NEW h, NEW B, NEW m, NEW c, NEW g, NEW W, Remains(g, W, h, B, c, m)
    PROVE  Carries(g, W, h, B, c, m)
<1>1. Shape(g, W) /\ Leaves(g) = Leaves(h) \ {m} /\ \A n \in Leaves(g) : W[n] = B[n]
  BY DEF Remains
<1>2. ASSUME NEW d, d # c, c \notin After(h, B, d) PROVE After(g, W, d) = After(h, B, d)
  <2>1. After(g, W, d) = After(h, B, d) \ {c}
    BY <1>2 DEF Remains
  <2> QED BY <1>2, <2>1
<1> QED BY <1>1, <1>2 DEF Carries

\* One window fewer is left after a round.
LEMMA RoundMoves ==
    ASSUME NEW t, NEW S, NEW k \in Nat, NEW r \in States, NEW B, Pruning(r, B, t, S, k + 1),
           r.leaf # None
    PROVE  Round(r, S) \in PruningIn(t, S, k)
<1> DEFINE h == r.heap
           m == r.leaf
           c == h.node[m].client
           U == After(h, B, c)
           g == IF c \in S THEN h ELSE remove_leaf(h, m)
           q == [heap |-> g, leaf |-> next_leaf(h, m)]
<1>1. /\ Shape(h, B) /\ m \in Leaves(h) /\ Meant(h, B) = Kept(t, S \cup Left(r, B))
      /\ Cardinality(Left(r, B)) <= k + 1
  BY DEF Pruning
<1>2. B[m] = {c} /\ Left(r, B) = {c} \cup U
  <2>1. B[m] = {c}
    BY <1>1 DEF Shape, LeafOK, Leaves
  <2> QED BY <1>1, <2>1, LeftAt
<1>3. c \notin U /\ U \subseteq Window
  BY <1>1, AfterApart
<1>4. Cardinality(U) <= k
  <2>1. IsFiniteSet(U)
    BY <1>3, WindowAssumption, FS_Subset
  <2>2. Cardinality(U \cup {c}) = Cardinality(U) + 1 /\ Cardinality(U) \in Nat
    BY <1>3, <2>1, FS_AddElement, FS_CardinalityType
  <2>3. Left(r, B) = U \cup {c}
    BY <1>2
  <2> QED BY <1>1, <2>2, <2>3
<1>5. Round(r, S) = q
  BY DEF Round
<1> HIDE DEF h, m, c, U
<1>6. ASSUME NEW W, Carries(g, W, h, B, c, m), Meant(g, W) = Kept(t, S \cup U)
      PROVE  Round(r, S) \in PruningIn(t, S, k)
  <2> HIDE DEF g
  <2>1. /\ q.leaf = None \/ q.leaf \in Leaves(g)
        /\ Left(q, W) = U /\ q \in States
    BY <1>1, <1>2, <1>6, CarriesOn DEF U
  <2>2. Shape(g, W) /\ q.heap = g
    BY <1>6 DEF Carries
  <2> HIDE DEF q
  <2>3. Pruning(q, W, t, S, k)
    BY <1>4, <1>6, <2>1, <2>2 DEF Pruning
  <2> QED BY <1>5, <2>1, <2>3 DEF PruningIn
<1>7. CASE c \in S
  <2>1. S \cup Left(r, B) = S \cup U
    BY <1>2, <1>7
  <2>2. g = h
    BY <1>7
  <2> HIDE DEF g
  <2> QED BY <1>1, <1>6, <2>1, <2>2, StaysCarries
<1>8. CASE c \notin S
  <2>1. PICK W : Remains(remove_leaf(h, m), W, h, B, c, m)
    BY <1>1, <1>2, RemovedShape
  <2>2. g = remove_leaf(h, m)
    BY <1>8
  <2> HIDE DEF g
  <2>3. B[h.root] \cap (S \cup U) = B[h.root] \ {c}
    <3>1. h.root # None
      BY <1>1, HasRoot DEF Leaves
    <3>2. B[h.root] = t.leaves \cap (S \cup ({c} \cup U))
      BY <1>1, <1>2, <3>1 DEF Meant, Kept
    <3> QED BY <1>3, <1>8, <3>2
  <2>4. Meant(g, W) = Kept(Meant(h, B), S \cup U)
    BY <2>1, <2>2, <2>3 DEF Remains
  <2>5. Meant(g, W) = Kept(t, S \cup U)
    <3>1. S \cup U \subseteq S \cup Left(r, B)
      BY <1>2
    <3> QED BY <1>1, <2>4, <3>1, KeptTwice
  <2> QED BY <1>6, <2>1, <2>2, <2>5, RemainsCarries
<1> QED BY <1>7, <1>8

LEMMA RoundStep ==
    ASSUME NEW t, NEW S, NEW k \in Nat, NEW r \in PruningIn(t, S, k + 1)
    PROVE  Round(r, S) \in PruningIn(t, S, k)
<1>1. PICK B : Pruning(r, B, t, S, k + 1)
  BY DEF PruningIn
<1>2. r \in States
  BY DEF PruningIn
<1>3. CASE r.leaf # None
  BY <1>1, <1>2, <1>3, RoundMoves
<1>4. CASE r.leaf = None
  <2>1. Round(r, S) = r
    BY <1>4 DEF Round
  <2>2. Left(r, B) = {} /\ Cardinality({}) = 0
    BY <1>4, FS_EmptySet DEF Left
  <2>3. Pruning(r, B, t, S, k)
    BY <1>1, <2>2 DEF Pruning
  <2> QED BY <1>2, <2>1, <2>3 DEF PruningIn
<1> QED BY <1>3, <1>4

LEMMA PruningStarts ==
    ASSUME NEW h, NEW B, Shape(h, B), NEW S, NEW r,
           r = [heap |-> h, leaf |-> first_leaf(h, h.root)]
    PROVE  r \in PruningIn(Meant(h, B), S, Cardinality(Window))
<1> DEFINE m == first_leaf(h, h.root)
           t == Meant(h, B)
<1>1. h \in Heaps /\ r.heap = h /\ r.leaf = m
  BY DEF Shape
<1>2. CASE h.root = None
  <2>1. m = None
    BY <1>2 DEF first_leaf
  <2>2. Left(r, B) = {} /\ t.leaves = {}
    BY <1>1, <1>2, <2>1 DEF Left, Meant
  <2> HIDE DEF m
  <2>3. Kept(t, S \cup Left(r, B)) = t
    BY <2>2, KeptAll DEF t
  <2>4. Cardinality(Left(r, B)) <= Cardinality(Window)
    BY <1>1, <2>1, LeftSize
  <2> HIDE DEF t
  <2>5. Pruning(r, B, t, S, Cardinality(Window))
    BY <1>1, <2>1, <2>3, <2>4 DEF Pruning, t
  <2> QED BY <1>1, <2>1, <2>5 DEF PruningIn, States, t
<1>3. CASE h.root # None
  <2>1. h.root \in Nodes(h)
    BY <1>3 DEF Shape, RootOK
  <2>2. IsFirst(h, B, h.root, m)
    BY <2>1, FirstLeaf
  <2> HIDE DEF m
  <2> DEFINE c == h.node[m].client
  <2>3. m \in Leaves(h) /\ B[m] = {c}
    BY <2>2 DEF IsFirst, Shape, LeafOK, Leaves
  <2> HIDE DEF c
  <2>4. Left(r, B) = {c} \cup After(h, B, c)
    BY <1>1, <2>3, LeftAt
  <2>5. t.leaves \subseteq S \cup Left(r, B)
    <3>1. ASSUME NEW w \in B[h.root], w # c PROVE w \in After(h, B, c)
      <4>1. PICK k \in Inner(h) : B[m] \subseteq B[Kid(h, k, 1)] /\ w \in B[Kid(h, k, 2)]
        BY <2>2, <2>3, <3>1 DEF IsFirst
      <4> QED BY <2>3, <4>1 DEF After
    <3>2. t.leaves = B[h.root]
      BY <1>3 DEF Meant
    <3> QED BY <2>4, <3>1, <3>2
  <2>6. Kept(t, S \cup Left(r, B)) = t
    BY <2>5, KeptAll DEF t
  <2>7. Cardinality(Left(r, B)) <= Cardinality(Window)
    BY <1>1, <2>3, LeftSize
  <2> HIDE DEF t
  <2>8. Pruning(r, B, t, S, Cardinality(Window))
    BY <1>1, <2>3, <2>6, <2>7 DEF Pruning, t
  <2>9. m \in Node
    BY <1>1, <2>3, Typed DEF Leaves
  <2> QED BY <1>1, <2>8, <2>9 DEF PruningIn, States, t
<1> QED BY <1>2, <1>3

LEMMA PruningRuns ==
    ASSUME NEW t, NEW S, NEW s, NEW N, N = Cardinality(Window), s \in PruningIn(t, S, N)
    PROVE  \E f : /\ f = [i \in 0..N |-> IF i = 0 THEN s ELSE Round(f[i - 1], S)]
                  /\ f[N] \in PruningIn(t, S, 0)
<1> DEFINE All == UNION {PruningIn(t, S, k) : k \in Nat}
           G == [p \in (1..N) \X All |-> Round(p[2], S)]
<1>1. N \in Nat
  BY WindowAssumption, FS_CardinalityType
<1>2. ASSUME NEW r \in All PROVE Round(r, S) \in All
  <2>1. PICK k \in Nat : r \in PruningIn(t, S, k)
    OBVIOUS
  <2>2. r \in PruningIn(t, S, k + 1)
    <3>1. PICK B : Pruning(r, B, t, S, k)
      BY <2>1 DEF PruningIn
    <3>2. Cardinality(Left(r, B)) \in Nat
      BY <3>1, LeftSize DEF Pruning
    <3>3. Pruning(r, B, t, S, k + 1)
      BY <3>1, <3>2 DEF Pruning
    <3> QED BY <2>1, <3>3 DEF PruningIn
  <2> QED BY <2>2, RoundStep
<1>3. s \in All
  BY <1>1
<1> HIDE DEF All
<1>4. G \in [(1..N) \X All -> All]
  BY <1>2
<1>5. \A i \in 1..N, r \in All : G[<<i, r>>] = Round(r, S)
  OBVIOUS
<1> HIDE DEF G
<1>6. RunsOf(All, s, N, G) # {}
  BY <1>1, <1>3, <1>4, LoopRuns
<1>7. PICK f \in [0..N -> All] : f[0] = s /\ \A i \in 1..N : f[i] = G[<<i, f[i - 1]>>]
  BY <1>6 DEF RunsOf
<1>8. \A i \in 1..N : f[i] = Round(f[i - 1], S)
  <2>1. ASSUME NEW i \in 1..N PROVE f[i] = Round(f[i - 1], S)
    <3>1. i - 1 \in 0..N
      BY <1>1
    <3> QED BY <1>5, <1>7, <3>1
  <2> QED BY <2>1
<1>9. f = [i \in 0..N |-> IF i = 0 THEN s ELSE Round(f[i - 1], S)]
  <2>1. ASSUME NEW i \in 0..N PROVE f[i] = IF i = 0 THEN s ELSE Round(f[i - 1], S)
    <3>1. i = 0 \/ i \in 1..N
      BY <1>1
    <3> QED BY <1>7, <1>8, <3>1
  <2> QED BY <1>7, <2>1
<1> DEFINE R == [i \in 0..N |-> PruningIn(t, S, N - i)]
<1>10. f[0] \in R[0]
  BY <1>1, <1>7
<1>11. ASSUME NEW i \in 1..N, f[i - 1] \in R[i - 1] PROVE f[i] \in R[i]
  <2>1. i - 1 \in 0..N /\ i \in 0..N /\ N - i \in Nat /\ N - (i - 1) = (N - i) + 1
    BY <1>1
  <2>2. f[i - 1] \in PruningIn(t, S, (N - i) + 1)
    BY <1>11, <2>1
  <2>3. Round(f[i - 1], S) \in PruningIn(t, S, N - i)
    BY <2>1, <2>2, RoundStep
  <2> QED BY <1>8, <2>1, <2>3
<1>12. f[N] \in R[N]
  <2> HIDE DEF R
  <2> QED BY <1>1, <1>10, <1>11, LoopProgress
<1>13. f[N] \in PruningIn(t, S, 0)
  BY <1>1, <1>12
<1> QED BY <1>9, <1>13

(***************************************************************************)
(* After the loop the tree has the leaves of the windows in S and no other.*)
(***************************************************************************)
LEMMA PrunedShape ==
    ASSUME NEW h, NEW B, Shape(h, B), NEW S
    PROVE  \E W : Shape(pruned(h, S), W) /\ Meant(pruned(h, S), W) = Kept(Meant(h, B), S)
<1> DEFINE t == Meant(h, B)
           N == Cardinality(Window)
           s == [heap |-> h, leaf |-> first_leaf(h, h.root)]
           run[i \in 0..N] == IF i = 0 THEN s ELSE Round(run[i - 1], S)
<1>1. s \in PruningIn(t, S, N)
  BY PruningStarts
<1>2. pruned(h, S) = run[N].heap
  BY DEF pruned
<1>3. run[N] \in PruningIn(t, S, 0)
  <2> HIDE DEF t, N, s
  <2>1. PICK f : /\ f = [i \in 0..N |-> IF i = 0 THEN s ELSE Round(f[i - 1], S)]
                 /\ f[N] \in PruningIn(t, S, 0)
    BY <1>1, PruningRuns DEF N
  <2>2. run = [i \in 0..N |-> IF i = 0 THEN s ELSE Round(run[i - 1], S)]
    BY <2>1
  <2>3. \A i \in 0..N : run[i] = IF i = 0 THEN s ELSE Round(run[i - 1], S)
    <3> HIDE DEF run
    <3> QED BY <2>2
  <2>4. \A i \in 0..N : f[i] = IF i = 0 THEN s ELSE Round(f[i - 1], S)
    BY <2>1
  <2> HIDE DEF run
  <2> DEFINE K == {i \in Nat : i <= N => run[i] = f[i]}
  <2>5. N \in Nat
    BY WindowAssumption, FS_CardinalityType DEF N
  <2>6. 0 \in K
    BY <2>3, <2>4, <2>5
  <2>7. ASSUME NEW i \in K PROVE i + 1 \in K
    <3>1. SUFFICES ASSUME i + 1 <= N PROVE run[i + 1] = f[i + 1]
      OBVIOUS
    <3>2. run[i] = f[i] /\ i + 1 \in 0..N /\ i + 1 # 0 /\ (i + 1) - 1 = i
      BY <2>5, <3>1
    <3> QED BY <2>3, <2>4, <3>2
  <2>8. K = Nat
    <3> HIDE DEF K
    <3>1. K \in SUBSET Nat
      BY DEF K
    <3> QED BY <2>6, <2>7, <3>1, Induction
  <2>9. run[N] = f[N]
    BY <2>5, <2>8
  <2> QED BY <2>1, <2>9
<1> HIDE DEF run, t
<1>4. PICK W : Pruning(run[N], W, t, S, 0)
  BY <1>3 DEF PruningIn
<1> DEFINE r == run[N]
<1>5. /\ Shape(r.heap, W) /\ (r.leaf = None \/ r.leaf \in Leaves(r.heap))
      /\ Meant(r.heap, W) = Kept(t, S \cup Left(r, W)) /\ Cardinality(Left(r, W)) <= 0
  BY <1>4 DEF Pruning
<1> HIDE DEF r
<1>6. Left(r, W) = {}
  <2>1. IsFiniteSet(Left(r, W)) /\ Cardinality(Left(r, W)) = 0
    BY <1>5, LeftSize
  <2> QED BY <2>1, FS_EmptySet
<1>7. S \cup Left(r, W) = S
  BY <1>6
<1> QED BY <1>2, <1>5, <1>7 DEF r, t

-----------------------------------------------------------------------------
(***************************************************************************)
(* Nothing leaks: every node hangs from the root, at most as deep as there *)
(* are windows.                                                            *)
(***************************************************************************)
LEMMA KidRange ==
    ASSUME NEW h, NEW B, Shape(h, B), NEW n \in Nodes(h)
    PROVE  /\ Range(h.node[n].children) \subseteq Nodes(h)
           /\ n \in Inner(h) => \A i \in 1..2 : Kid(h, n, i) \in Range(h.node[n].children)
<1>1. CASE n \in Inner(h)
  <2>1. InnerOK(h, B, n)
    BY <1>1 DEF Shape
  <2> QED BY <2>1 DEF InnerOK, Kid, Range
<1>2. CASE n \notin Inner(h)
  <2>1. h.node[n].children = <<>>
    BY <1>2 DEF Shape, LeafOK
  <2> QED BY <1>2, <2>1 DEF Range
<1> QED BY <1>1, <1>2

\* The nodes that hang from the root after i rounds.
Hung(h, f, M) ==
    /\ f \in [0..M -> SUBSET Nodes(h)] /\ f[0] = {h.root} \ {None}
    /\ \A i \in 1..M : f[i] = f[i - 1] \cup UNION {Range(h.node[n].children) : n \in f[i - 1]}

LEMMA HungExists ==
    ASSUME NEW h, NEW B, Shape(h, B), NEW M \in Nat
    PROVE  \E f : Hung(h, f, M)
<1> DEFINE D == SUBSET Nodes(h)
           more(X) == X \cup UNION {Range(h.node[n].children) : n \in X}
           G == [p \in (1..M) \X D |-> more(p[2])]
           s == {h.root} \ {None}
<1>1. s \in D
  BY DEF Shape, RootOK
<1>2. ASSUME NEW X \in D PROVE more(X) \in D
  <2>1. \A n \in X : Range(h.node[n].children) \subseteq Nodes(h)
    BY KidRange
  <2> QED BY <2>1
<1> HIDE DEF more, D, s
<1>3. G \in [(1..M) \X D -> D] /\ \A i \in 1..M, X \in D : G[<<i, X>>] = more(X)
  BY <1>2
<1> HIDE DEF G
<1>4. RunsOf(D, s, M, G) # {}
  BY <1>1, <1>3, LoopRuns
<1>5. PICK f \in [0..M -> D] : f[0] = s /\ \A i \in 1..M : f[i] = G[<<i, f[i - 1]>>]
  BY <1>4 DEF RunsOf
<1>6. ASSUME NEW i \in 1..M PROVE f[i] = more(f[i - 1])
  <2>1. i - 1 \in 0..M
    OBVIOUS
  <2> QED BY <1>3, <1>5, <2>1
<1>7. Hung(h, f, M)
  BY <1>5, <1>6 DEF Hung, D, s, more
<1> QED BY <1>7

LEMMA HungAll ==
    ASSUME NEW h, NEW B, Shape(h, B), NEW M \in Nat, Cardinality(Window) <= M + 1,
           NEW f, Hung(h, f, M)
    PROVE  f[M] = Nodes(h)
<1> DEFINE size(n) == Cardinality(B[n])
           rank(n) == size(h.root) - size(n)
           T == {n \in Nodes(h) : \A k \in 0..M : rank(n) <= k => n \in f[k]}
<1>1. /\ f \in [0..M -> SUBSET Nodes(h)] /\ f[0] = {h.root} \ {None}
      /\ \A i \in 1..M :
           f[i] = f[i - 1] \cup UNION {Range(h.node[n].children) : n \in f[i - 1]}
  BY DEF Hung
<1>2. ASSUME NEW m \in Nodes(h) PROVE h.root \in Nodes(h) /\ h.root \in T
  <2>1. h.root \in Nodes(h) /\ h.root # None
    BY HasRoot DEF RootOK
  <2> DEFINE K == {k \in Nat : k <= M => h.root \in f[k]}
  <2>2. 0 \in K
    BY <1>1, <2>1
  <2>3. ASSUME NEW k \in K PROVE k + 1 \in K
    <3>1. SUFFICES ASSUME k + 1 <= M PROVE h.root \in f[k + 1]
      OBVIOUS
    <3>2. h.root \in f[k] /\ k + 1 \in 1..M /\ (k + 1) - 1 = k
      BY <3>1
    <3> QED BY <1>1, <3>2
  <2>4. K = Nat
    <3> HIDE DEF K
    <3>1. K \in SUBSET Nat
      BY DEF K
    <3> QED BY <2>2, <2>3, <3>1, Induction
  <2>5. \A k \in 0..M : h.root \in f[k]
    BY <2>4
  <2> QED BY <2>1, <2>5
<1>3. \A n \in Nodes(h) : size(n) \in Nat /\ size(n) <= Cardinality(Window) /\ size(n) > 0
  <2>1. ASSUME NEW n \in Nodes(h)
        PROVE  size(n) \in Nat /\ size(n) <= Cardinality(Window) /\ size(n) > 0
    <3>1. IsFiniteSet(B[n]) /\ B[n] # {} /\ size(n) \in 0..Cardinality(Window)
      BY Sizes
    <3>2. size(n) # 0
      BY <3>1, FS_EmptySet
    <3> HIDE DEF size
    <3>3. Cardinality(Window) \in Nat
      BY WindowAssumption, FS_CardinalityType
    <3> QED BY <3>1, <3>2, <3>3
  <2> QED BY <2>1
<1>4. ASSUME NEW n \in Nodes(h), n # h.root, h.node[n].parent \in T PROVE n \in T
  <2> DEFINE p == h.node[n].parent
  <2>1. p \in Inner(h) /\ p \in Nodes(h) /\ size(n) < size(p)
    BY <1>4, Parents DEF Inner
  <2>2. n \in Range(h.node[p].children)
    <3>1. \E i \in 1..2 : Kid(h, p, i) = n
      BY <1>4, Parents
    <3> HIDE DEF p
    <3> QED BY <2>1, <3>1, KidRange
  <2>3. \A k \in 0..M : rank(p) <= k => p \in f[k]
    BY <1>4
  <2> HIDE DEF p, size
  <2>4. ASSUME NEW k \in 0..M, rank(n) <= k PROVE n \in f[k]
    <3>1. size(n) \in Nat /\ size(p) \in Nat /\ size(h.root) \in Nat /\ size(p) <= size(h.root)
      <4>1. h.root \in Nodes(h) /\ B[p] \subseteq B[h.root]
        BY <2>1, HasRoot DEF RootOK
      <4>2. size(p) <= size(h.root)
        BY <4>1, Sizes, FS_Subset DEF size
      <4> QED BY <1>3, <2>1, <4>1, <4>2
    <3>2. k - 1 \in 0..M /\ k \in 1..M /\ rank(p) <= k - 1
      BY <2>1, <2>4, <3>1
    <3>3. p \in f[k - 1]
      BY <2>3, <3>2
    <3> QED BY <1>1, <2>2, <3>2, <3>3
  <2> QED BY <2>4
<1>5. T = Nodes(h)
  <2> HIDE DEF T
  <2>1. T \in SUBSET Nodes(h)
    BY DEF T
  <2>2. Descends(h, T)
    BY <1>2, <1>4 DEF Descends
  <2> QED BY <2>1, <2>2, FromRoot
<1>6. ASSUME NEW n \in Nodes(h) PROVE n \in f[M]
  <2>1. h.root \in Nodes(h)
    BY <1>2
  <2> HIDE DEF size
  <2>2. rank(n) <= M /\ M \in 0..M
    <3>1. Cardinality(Window) \in Nat
      BY WindowAssumption, FS_CardinalityType
    <3> QED BY <1>3, <2>1, <3>1
  <2> HIDE DEF rank
  <2> QED BY <1>5, <2>2
<1>7. f[M] \subseteq Nodes(h)
  BY <1>1
<1> QED BY <1>6, <1>7

LEMMA HangingIs ==
    ASSUME NEW B, Shape(heap, B)
    PROVE  Hanging = DOMAIN node
<1> DEFINE M == Cardinality(Node)
           more(X) == X \cup UNION {Range(node[n].children) : n \in X}
           hangs[k \in 0..M] ==
               IF k = 0 THEN {root} \ {None}
               ELSE hangs[k - 1] \cup UNION {Range(node[n].children) : n \in hangs[k - 1]}
<1>1. heap.root = root /\ heap.node = node /\ Nodes(heap) = DOMAIN node
  BY DEF heap, Nodes
<1>2. M \in Nat /\ Cardinality(Window) <= M + 1 /\ Cardinality(Window) \in Nat
  <2>1. M \in Nat /\ Cardinality(Window) \in Nat
    BY NodeAssumption, WindowAssumption, FS_CardinalityType
  <2> QED BY <2>1, NodeAssumption
<1>3. Hanging = hangs[M]
  BY DEF Hanging
<1> HIDE DEF M
<1>4. PICK f : Hung(heap, f, M)
  BY <1>2, HungExists
<1>5. /\ f \in [0..M -> SUBSET DOMAIN node] /\ f[0] = {root} \ {None}
      /\ \A i \in 1..M : f[i] = more(f[i - 1])
  BY <1>1, <1>4 DEF Hung
<1> HIDE DEF more
<1>6. f = [k \in 0..M |-> IF k = 0 THEN {root} \ {None} ELSE more(f[k - 1])]
  <2>1. ASSUME NEW k \in 0..M
        PROVE  f[k] = IF k = 0 THEN {root} \ {None} ELSE more(f[k - 1])
    <3>1. k = 0 \/ k \in 1..M
      BY <1>2
    <3> QED BY <1>5, <3>1
  <2> QED BY <1>5, <2>1
<1>7. hangs = [k \in 0..M |-> IF k = 0 THEN {root} \ {None} ELSE more(hangs[k - 1])]
  BY <1>6 DEF more
<1> HIDE DEF hangs
<1> DEFINE K == {k \in Nat : k <= M => hangs[k] = f[k]}
<1>8. 0 \in K
  BY <1>2, <1>5, <1>7
<1>9. ASSUME NEW k \in K PROVE k + 1 \in K
  <2>1. SUFFICES ASSUME k + 1 <= M PROVE hangs[k + 1] = f[k + 1]
    OBVIOUS
  <2>2. hangs[k] = f[k] /\ k + 1 \in 0..M /\ k + 1 \in 1..M /\ k + 1 # 0 /\ (k + 1) - 1 = k
    BY <1>2, <2>1
  <2> QED BY <1>5, <1>7, <2>2
<1>10. K = Nat
  <2> HIDE DEF K
  <2>1. K \in SUBSET Nat
    BY DEF K
  <2> QED BY <1>8, <1>9, <2>1, Induction
<1>11. hangs[M] = f[M]
  BY <1>2, <1>10
<1>12. f[M] = DOMAIN node
  BY <1>1, <1>2, <1>4, HungAll
<1> QED BY <1>3, <1>11, <1>12

LEMMA IsLinked == IInv => Linked
<1> SUFFICES ASSUME IInv PROVE Linked
  OBVIOUS
<1>1. PICK B : Shape(heap, B)
  BY DEF IInv, Realizes
<1>2. heap.root = root /\ heap.node = node /\ Nodes(heap) = DOMAIN node
  BY DEF heap, Nodes
<1>3. root = None \/ (root \in DOMAIN node /\ node[root].parent = None)
  BY <1>1, <1>2 DEF Shape, RootOK
<1>4. ASSUME NEW n \in DOMAIN node
      PROVE  IF node[n].is_node
             THEN \A i \in {1, 2} : LET child == node[n].children[i]
                                    IN  child \in DOMAIN node /\ node[child].parent = n
             ELSE node[n].client \in Window
  <2>1. CASE node[n].is_node
    <3>1. n \in Inner(heap)
      BY <1>2, <2>1 DEF Inner
    <3>2. \A i \in 1..2 : Kid(heap, n, i) \in Nodes(heap)
                          /\ heap.node[Kid(heap, n, i)].parent = n
      BY <1>1, <3>1, Kids
    <3> QED BY <1>2, <2>1, <3>2 DEF Kid
  <2>2. CASE ~node[n].is_node
    <3>1. n \in Nodes(heap) \ Inner(heap)
      BY <1>2, <2>2 DEF Inner
    <3>2. LeafOK(heap, B, n)
      BY <1>1, <3>1 DEF Shape
    <3> QED BY <1>2, <2>2, <3>2 DEF LeafOK
  <2> QED BY <2>1, <2>2
<1>5. Hanging = DOMAIN node
  BY <1>1, HangingIs
<1> QED BY <1>3, <1>4, <1>5 DEF Linked

LEMMA IsPruned == IInv => PrunesExactly
<1> SUFFICES ASSUME IInv, NEW S \in SUBSET Window
             PROVE  MeaningOf(pruned(heap, S)) = Kept(meaning, S)
  BY DEF PrunesExactly
<1>1. PICK B : Shape(heap, B) /\ meaning = Meant(heap, B)
  BY DEF IInv, Realizes
<1>2. PICK W : /\ Shape(pruned(heap, S), W)
               /\ Meant(pruned(heap, S), W) = Kept(Meant(heap, B), S)
  BY <1>1, PrunedShape
<1>3. MeaningOf(pruned(heap, S)) = Meant(pruned(heap, S), W)
  BY <1>2, MeaningIs
<1> QED BY <1>1, <1>2, <1>3

-----------------------------------------------------------------------------
(***************************************************************************)
(* What each function of main.c does to the tree of splits.                *)
(***************************************************************************)
LEMMA FoundIs ==
    ASSUME NEW h, NEW B, Shape(h, B), NEW c
    PROVE  \/ /\ c \in Meant(h, B).leaves /\ find_leaf(h, c) \in Leaves(h)
              /\ find_leaf(h, c) # None /\ c \in Window /\ h.root # None /\ c \in B[h.root]
              /\ h.node[find_leaf(h, c)].client = c /\ B[find_leaf(h, c)] = {c}
           \/ c \notin Meant(h, B).leaves /\ find_leaf(h, c) = None
<1>1. CASE find_leaf(h, c) = None /\ (h.root = None \/ c \notin B[h.root])
  BY <1>1 DEF Meant
<1>2. CASE /\ h.root # None /\ c \in B[h.root] /\ find_leaf(h, c) \in Leaves(h)
           /\ h.node[find_leaf(h, c)].client = c /\ B[find_leaf(h, c)] = {c}
  <2> DEFINE m == find_leaf(h, c)
  <2>1. m \in Nodes(h) /\ m # None
    BY <1>2, NoneAssumption DEF Leaves, Shape, Heaps, Nodes
  <2>2. c \in Window
    BY <1>2, <2>1, Sizes
  <2> QED BY <1>2, <2>1, <2>2 DEF Meant
<1> QED BY <1>1, <1>2, FindsLeaf

LEMMA InsertRealizes ==
    ASSUME NEW h, NEW t, Realizes(h, t), NEW c \in Window, find_leaf(h, c) = None,
           NEW focused, NEW first \in BOOLEAN
    PROVE  \E u : /\ Realizes(insert(h, c, focused, first), u) /\ c \notin t.leaves
                  /\ \/ t.leaves = {} /\ u = [leaves |-> {c}, splits |-> {}]
                     \/ \E at \in t.leaves : u = Opened(t, at, c, first)
<1>1. PICK B : Shape(h, B) /\ t = Meant(h, B)
  BY DEF Realizes
<1>2. c \notin t.leaves /\ h \in Heaps
  BY <1>1, FoundIs DEF Shape
<1>3. CASE h.root = None
  <2> DEFINE l == NewNode(h)
             one == Allocated(h, l, LeafOf(c))
             f == [n \in {l} |-> LeafOf(c)]
  <2>1. Nodes(h) = {} /\ t.leaves = {}
    BY <1>1, <1>3 DEF Shape, Meant
  <2>2. l \in Node
    <3>1. Cardinality(Window) # 0
      BY WindowAssumption, FS_EmptySet
    <3>2. Cardinality(Window) \in Nat /\ Cardinality(Node) \in Nat /\ Cardinality({}) = 0
      BY WindowAssumption, NodeAssumption, FS_CardinalityType, FS_EmptySet
    <3>3. Cardinality(Nodes(h)) < Cardinality(Node)
      BY <2>1, <3>1, <3>2, NodeAssumption
    <3> QED BY <2>1, <3>3, NewNodeIs
  <2>3. insert(h, c, focused, first) = [one EXCEPT !.root = l]
    BY <1>3 DEF insert
  <2> HIDE DEF l
  <2>4. one = [root |-> h.root, node |-> f]
    <3> DEFINE e == [m \in DOMAIN h.node \cup {l} |-> IF m = l THEN LeafOf(c) ELSE h.node[m]]
    <3>1. one = [h EXCEPT !.node = e]
      BY DEF Allocated
    <3>2. e = f
      BY <2>1 DEF Nodes
    <3> HIDE DEF e, f, one
    <3> QED BY <1>2, <3>1, <3>2, Typed
  <2>5. insert(h, c, focused, first) = Planted(c, l)
    <3> HIDE DEF one, f
    <3>1. [one EXCEPT !.root = l] = [root |-> l, node |-> f]
      BY <2>4
    <3> QED BY <2>3, <3>1 DEF Planted, f
  <2>6. Realizes(Planted(c, l), [leaves |-> {c}, splits |-> {}])
    BY <2>2, PlantedShape DEF Realizes
  <2> QED BY <1>2, <2>1, <2>5, <2>6
<1>4. CASE h.root # None
  <2> DEFINE at == IF find_leaf(h, focused) = None
                   THEN first_leaf(h, h.root) ELSE find_leaf(h, focused)
  <2>1. h.root \in Nodes(h)
    BY <1>1, <1>4 DEF Shape, RootOK
  <2>2. at \in Leaves(h)
    <3>1. first_leaf(h, h.root) \in Leaves(h)
      BY <1>1, <2>1, FirstLeaf DEF IsFirst
    <3>2. find_leaf(h, focused) = None \/ find_leaf(h, focused) \in Leaves(h)
      BY <1>1, FoundIs
    <3> QED BY <3>1, <3>2
  <2>3. insert(h, c, focused, first) = Bisected(h, c, at, first)
    BY <1>4 DEF insert
  <2> HIDE DEF at
  <2>4. c \notin B[h.root] /\ t.leaves = B[h.root]
    BY <1>1, <1>2, <1>4 DEF Meant
  <2>5. PICK W : /\ Shape(Bisected(h, c, at, first), W)
                 /\ Meant(Bisected(h, c, at, first), W)
                      = Opened(Meant(h, B), h.node[at].client, c, first)
    BY <1>1, <2>2, <2>4, BisectedShape
  <2>6. h.node[at].client \in t.leaves
    <3>1. LeafOK(h, B, at) /\ at \in Nodes(h)
      BY <1>1, <2>2 DEF Shape, Leaves
    <3>2. B[at] \subseteq B[h.root]
      BY <1>1, <3>1, HasRoot DEF RootOK
    <3> QED BY <2>4, <3>1, <3>2 DEF LeafOK
  <2>7. Realizes(Bisected(h, c, at, first), Opened(t, h.node[at].client, c, first))
    BY <1>1, <2>5 DEF Realizes
  <2> QED BY <1>2, <2>3, <2>6, <2>7
<1> QED BY <1>3, <1>4

LEMMA RemoveRealizes ==
    ASSUME NEW h, NEW t, Realizes(h, t), NEW c, find_leaf(h, c) # None
    PROVE  /\ Realizes(remove_leaf(h, find_leaf(h, c)), Removed(t, c))
           /\ Removed(t, c) = Kept(t, Window \ {c}) /\ c \in t.leaves
<1>1. PICK B : Shape(h, B) /\ t = Meant(h, B)
  BY DEF Realizes
<1> DEFINE at == find_leaf(h, c)
           g == remove_leaf(h, at)
<1>2. /\ at \in Leaves(h) /\ B[at] = {c} /\ h.root # None /\ c \in t.leaves
  BY <1>1, FoundIs
<1> HIDE DEF at
<1>3. PICK W : Remains(g, W, h, B, c, at)
  BY <1>1, <1>2, RemovedShape
<1> HIDE DEF g
<1>4. t.leaves = B[h.root] /\ B[h.root] \subseteq Window
  <2>1. h.root \in Nodes(h)
    BY <1>1, <1>2 DEF Shape, RootOK
  <2> QED BY <1>1, <1>2, <2>1, Sizes DEF Meant
<1>5. Shape(g, W) /\ \A S : B[h.root] \cap S = B[h.root] \ {c} => Meant(g, W) = Kept(t, S)
  BY <1>1, <1>3 DEF Remains
<1>6. Meant(g, W) = Kept(t, t.leaves \ {c})
  <2>1. B[h.root] \cap (t.leaves \ {c}) = B[h.root] \ {c}
    BY <1>4
  <2> QED BY <1>5, <2>1
<1>7. Meant(g, W) = Kept(t, Window \ {c})
  <2>1. B[h.root] \cap (Window \ {c}) = B[h.root] \ {c}
    BY <1>4
  <2> QED BY <1>5, <2>1
<1>8. Removed(t, c) = Kept(t, t.leaves \ {c})
  BY DEF Removed
<1>9. Realizes(g, Removed(t, c))
  BY <1>5, <1>6, <1>8 DEF Realizes
<1> QED BY <1>2, <1>6, <1>7, <1>8, <1>9 DEF at, g

LEMMA MoveRealizes ==
    ASSUME NEW h, NEW t, Realizes(h, t), NEW a \in Window, NEW b \in Window, a # b,
           find_leaf(h, a) # None, find_leaf(h, b) # None, NEW first \in BOOLEAN
    PROVE  /\ Realizes(move_to_edge(h, a, b, first), Opened(Removed(t, a), b, a, first))
           /\ a \in t.leaves /\ b \in t.leaves
<1> DEFINE g == remove_leaf(h, find_leaf(h, a))
           at == find_leaf(g, b)
<1>1. Realizes(g, Removed(t, a)) /\ a \in t.leaves /\ b \in t.leaves
  BY RemoveRealizes
<1>2. move_to_edge(h, a, b, first) = insert_at_edge(g, a, b, first)
  BY DEF move_to_edge
<1> HIDE DEF g
<1>3. PICK W : Shape(g, W) /\ Removed(t, a) = Meant(g, W)
  BY <1>1 DEF Realizes
<1>4. Removed(t, a).leaves = t.leaves \ {a}
  BY DEF Removed, Kept
<1>5. /\ at \in Leaves(g) /\ at # None /\ g.node[at].client = b /\ g.root # None
  BY <1>1, <1>3, <1>4, FoundIs
<1>6. insert_at_edge(g, a, b, first) = Bisected(g, a, at, first)
  BY <1>5 DEF insert_at_edge
<1> HIDE DEF at
<1>7. a \notin W[g.root]
  BY <1>3, <1>4, <1>5 DEF Meant
<1>8. PICK V : /\ Shape(Bisected(g, a, at, first), V)
               /\ Meant(Bisected(g, a, at, first), V) = Opened(Meant(g, W), b, a, first)
  BY <1>3, <1>5, <1>7, BisectedShape
<1>9. Realizes(Bisected(g, a, at, first), Opened(Removed(t, a), b, a, first))
  BY <1>3, <1>8 DEF Realizes
<1> QED BY <1>1, <1>2, <1>6, <1>9

LEMMA SwapRealizes ==
    ASSUME NEW h, NEW t, Realizes(h, t), NEW a \in Window, NEW b \in Window, a # b,
           find_leaf(h, a) # None, find_leaf(h, b) # None
    PROVE  Realizes(swap(h, a, b), Swapped(t, a, b)) /\ a \in t.leaves /\ b \in t.leaves
<1>1. PICK B : Shape(h, B) /\ t = Meant(h, B)
  BY DEF Realizes
<1> DEFINE W == Exchanged(B, Nodes(h), a, b)
           g == swap(h, a, b)
<1>2. Swapping(h, B, a, b, g, W)
  BY <1>1, SwappedIs
<1> HIDE DEF W, g
<1>3. Shape(g, W) /\ Meant(g, W) = Swapped(t, a, b)
  BY <1>1, <1>2, SwapShape
<1>4. a \in t.leaves /\ b \in t.leaves
  BY <1>1, FoundIs
<1> QED BY <1>3, <1>4 DEF Realizes, g

LEMMA BareRealizes == Realizes(Bare, Empty)
<1> DEFINE B == [n \in {} |-> {}]
<1>1. Shape(Bare, B) /\ Meant(Bare, B) = Empty
  BY BareShape
<1> QED BY <1>1 DEF Realizes

-----------------------------------------------------------------------------
(***************************************************************************)
(* The steps.  Module Tiling has its own copy of module Trees.             *)
(***************************************************************************)
LEMMA SameTrees ==
    /\ Promise!Empty = Empty
    /\ \A t, S : Promise!Kept(t, S) = Kept(t, S)
    /\ \A t, a : Promise!Removed(t, a) = Removed(t, a)
    /\ \A t, a, b, first : Promise!Opened(t, a, b, first) = Opened(t, a, b, first)
    /\ \A t, a, b : Promise!Swapped(t, a, b) = Swapped(t, a, b)
<1>1. Promise!Empty = Empty
  BY DEF Empty, Promise!Empty
<1>2. \A H, a, b : Promise!SwappedIn(H, a, b) = SwappedIn(H, a, b)
  BY DEF SwappedIn, Renamed, Promise!SwappedIn, Promise!Renamed
<1>3. \A t, S : Promise!Kept(t, S) = Kept(t, S)
  BY DEF Kept, Promise!Kept
<1>4. \A t, a : Promise!Removed(t, a) = Removed(t, a)
  BY <1>3 DEF Removed, Promise!Removed
<1>5. \A t, a, b, first : Promise!Opened(t, a, b, first) = Opened(t, a, b, first)
  BY DEF Opened, Grown, Promise!Opened, Promise!Grown
<1>6. \A t, a, b : Promise!Swapped(t, a, b) = Swapped(t, a, b)
  BY <1>2 DEF Swapped, Promise!Swapped
<1> QED BY <1>1, <1>3, <1>4, <1>5, <1>6

LEMMA BecomesIs ==
    ASSUME NEW h, NEW t, Realizes(h, t), Becomes(h)
    PROVE  IInv' /\ meaning' = t
<1>1. PICK B : Shape(h, B) /\ t = Meant(h, B)
  BY DEF Realizes
<1>2. meaning' = t
  BY <1>1, MeaningIs DEF Becomes
<1>3. heap' = h
  <2>1. h = [root |-> h.root, node |-> h.node]
    BY <1>1, Typed DEF Shape
  <2> QED BY <2>1 DEF Becomes, heap
<1> QED BY <1>2, <1>3 DEF IInv

LEMMA InitIInv == Init => IInv /\ Promise!Init
<1> SUFFICES ASSUME Init PROVE IInv /\ Promise!Init
  OBVIOUS
<1>1. heap = Bare
  <2>1. <<>> = [n \in {} |-> LeafOf(None)]
    OBVIOUS
  <2> QED BY <2>1 DEF Init, heap, Bare
<1>2. meaning = Empty
  BY DEF Init
<1> QED BY <1>1, <1>2, BareRealizes, SameTrees DEF IInv, Promise!Init

Step == IInv' /\ Promise!Next

LEMMA InsertStep ==
    ASSUME IInv, NEW c \in Window, NEW focused \in Window \cup {None}, NEW first \in BOOLEAN,
           Insert(c, focused, first)
    PROVE  Step
<1>1. find_leaf(heap, c) = None /\ Becomes(insert(heap, c, focused, first))
  BY DEF Insert, Has
<1>2. PICK u : /\ Realizes(insert(heap, c, focused, first), u) /\ c \notin meaning.leaves
               /\ \/ meaning.leaves = {} /\ u = [leaves |-> {c}, splits |-> {}]
                  \/ \E at \in meaning.leaves : u = Opened(meaning, at, c, first)
  BY <1>1, InsertRealizes DEF IInv
<1>3. IInv' /\ meaning' = u
  BY <1>1, <1>2, BecomesIs
<1>4. Promise!Open(c)
  BY <1>2, <1>3, SameTrees DEF Promise!Open
<1> QED BY <1>3, <1>4 DEF Step, Promise!Next

LEMMA PruneStep ==
    ASSUME IInv, NEW S \in SUBSET Window, Prune(S)
    PROVE  Step
<1>1. Becomes(pruned(heap, S))
  BY DEF Prune
<1>2. Realizes(pruned(heap, S), Kept(meaning, S))
  <2>1. PICK B : Shape(heap, B) /\ meaning = Meant(heap, B)
    BY DEF IInv, Realizes
  <2>2. PICK W : /\ Shape(pruned(heap, S), W)
                 /\ Meant(pruned(heap, S), W) = Kept(meaning, S)
    BY <2>1, PrunedShape
  <2> QED BY <2>2 DEF Realizes
<1>3. IInv' /\ meaning' = Kept(meaning, S)
  BY <1>1, <1>2, BecomesIs
<1> QED BY <1>3, SameTrees DEF Step, Promise!Next, Promise!Keep

LEMMA RemoveStep ==
    ASSUME IInv, NEW c \in Window, RemoveClient(c)
    PROVE  Step
<1>1. find_leaf(heap, c) # None /\ Becomes(remove_leaf(heap, find_leaf(heap, c)))
  BY DEF RemoveClient, Has
<1>2. Realizes(remove_leaf(heap, find_leaf(heap, c)), Kept(meaning, Window \ {c}))
  BY <1>1, RemoveRealizes DEF IInv
<1>3. IInv' /\ meaning' = Kept(meaning, Window \ {c})
  BY <1>1, <1>2, BecomesIs
<1>4. Window \ {c} \in SUBSET Window
  OBVIOUS
<1> QED BY <1>3, <1>4, SameTrees DEF Step, Promise!Next, Promise!Keep

LEMMA MoveStep ==
    ASSUME IInv, NEW a \in Window, NEW b \in Window, NEW first \in BOOLEAN,
           MoveToEdge(a, b, first)
    PROVE  Step
<1>1. /\ a # b /\ find_leaf(heap, a) # None /\ find_leaf(heap, b) # None
      /\ Becomes(move_to_edge(heap, a, b, first))
  BY DEF MoveToEdge, Has
<1>2. /\ Realizes(move_to_edge(heap, a, b, first), Opened(Removed(meaning, a), b, a, first))
      /\ a \in meaning.leaves /\ b \in meaning.leaves
  BY <1>1, MoveRealizes DEF IInv
<1>3. IInv' /\ meaning' = Opened(Removed(meaning, a), b, a, first)
  BY <1>1, <1>2, BecomesIs
<1>4. Promise!Move(a, b)
  BY <1>1, <1>2, <1>3, SameTrees DEF Promise!Move
<1> QED BY <1>3, <1>4 DEF Step, Promise!Next

LEMMA SwapStep ==
    ASSUME IInv, NEW a \in Window, NEW b \in Window, Swap(a, b)
    PROVE  Step
<1>1. /\ a # b /\ find_leaf(heap, a) # None /\ find_leaf(heap, b) # None
      /\ Becomes(swap(heap, a, b))
  BY DEF Swap, Has
<1>2. /\ Realizes(swap(heap, a, b), Swapped(meaning, a, b))
      /\ a \in meaning.leaves /\ b \in meaning.leaves
  BY <1>1, SwapRealizes DEF IInv
<1>3. IInv' /\ meaning' = Swapped(meaning, a, b)
  BY <1>1, <1>2, BecomesIs
<1>4. Promise!Swap(a, b)
  BY <1>2, <1>3, SameTrees DEF Promise!Swap
<1> QED BY <1>3, <1>4 DEF Step, Promise!Next

LEMMA FreeStep ==
    ASSUME IInv, FreeTree
    PROVE  Step
<1>1. Becomes([Freed(heap, DOMAIN node) EXCEPT !.root = None])
  BY DEF FreeTree
<1>2. heap \in Heaps /\ Nodes(heap) \ DOMAIN node = {}
  BY DEF IInv, Realizes, Shape, heap, Nodes
<1>3. [Freed(heap, DOMAIN node) EXCEPT !.root = None] = Bare
  BY <1>2, AllFreed
<1>4. IInv' /\ meaning' = Empty
  BY <1>1, <1>3, BareRealizes, BecomesIs
<1>5. Kept(meaning, {}) = Empty
  <2>1. {r \in {<<s[1] \cap {}, s[2] \cap {}>> : s \in meaning.splits} :
           r[1] # {} /\ r[2] # {}} = {}
    OBVIOUS
  <2> QED BY <2>1 DEF Kept, Empty
<1>6. Promise!Keep({})
  BY <1>4, <1>5, SameTrees DEF Promise!Keep
<1> QED BY <1>4, <1>6 DEF Step, Promise!Next

LEMMA NextStep == IInv /\ Next => Step
BY InsertStep, RemoveStep, PruneStep, MoveStep, SwapStep, FreeStep DEF Next

LEMMA SameStep == IInv /\ UNCHANGED <<root, node, meaning>> => IInv' /\ UNCHANGED meaning
BY DEF IInv, heap

LEMMA Invariance == Spec => []IInv
<1>1. IInv /\ [Next]_<<root, node, meaning>> => IInv'
  BY NextStep, SameStep DEF Step
<1> QED BY InitIInv, <1>1, PTL DEF Spec

(***************************************************************************)
(* The pointers that main.c links, relinks and frees always make a tree,   *)
(* with a window at each leaf, and every node that is not freed hangs from *)
(* its root.                                                               *)
(***************************************************************************)
THEOREM AlwaysLinked == Spec => []Linked
BY Invariance, IsLinked, PTL

(***************************************************************************)
(* Whichever leaves the loop of dwindle removes on its way, it removes     *)
(* those of all windows that do not stay, and no other.                    *)
(***************************************************************************)
THEOREM AlwaysPrunes == Spec => []PrunesExactly
BY Invariance, IsPruned, PTL

(***************************************************************************)
(* The functions on nodes and pointers do what module Tiling promises.     *)
(***************************************************************************)
THEOREM NodesImplement == Spec => Implements
<1>1. IInv /\ [Next]_<<root, node, meaning>> => [Promise!Next]_meaning
  BY NextStep, SameStep DEF Step
<1> QED BY InitIInv, Invariance, <1>1, PTL DEF Spec, Implements, Promise!Spec
=============================================================================
