---------------------------- MODULE DwindleProofs ----------------------------
(***************************************************************************)
(* Theorems about the dwindle layout, for any windows, outputs and tags:   *)
(* every operation on a tree leaves a tree (the first part), so that the   *)
(* trees of module Dwindle stay sound, and arrange puts every tile where   *)
(* its leaf is (the second part).                                          *)
(***************************************************************************)
EXTENDS Dwindle, Loops, FiniteSetTheorems

VARIABLE tree       \* the tree of the abstract specification

Promise == INSTANCE Tiling

-----------------------------------------------------------------------------
Halves(t) == \A s \in t.splits :
    s[1] # {} /\ s[2] # {} /\ s[1] \cap s[2] = {} /\ Area(s) \subseteq t.leaves
Nested(r, s) ==
    r = s \/ Area(r) \cap Area(s) = {}
          \/ (\E i \in {1, 2} : Area(r) \subseteq s[i] \/ Area(s) \subseteq r[i])
Separated(t) == \A v, w \in t.leaves : v # w => \E s \in t.splits : Separates(s, v, w)

LEMMA TreeParts ==
    ASSUME NEW t
    PROVE  IsTree(t) <=> Halves(t) /\ (\A r, s \in t.splits : Nested(r, s)) /\ Separated(t)
  BY DEF IsTree, Halves, Nested, Separated

(***************************************************************************)
(* dwindle_remove: what stays of a tree is a tree.                         *)
(***************************************************************************)
Cut(s, S) == <<s[1] \cap S, s[2] \cap S>>

LEMMA KeptSplits ==
    ASSUME NEW t, NEW S, NEW r \in Kept(t, S).splits
    PROVE  \E s \in t.splits : r = Cut(s, S) /\ r[1] # {} /\ r[2] # {}
  BY DEF Kept, Cut

LEMMA KeptIsTree ==
    ASSUME NEW t, NEW S, IsTree(t)
    PROVE  IsTree(Kept(t, S))
  <1> DEFINE k == Kept(t, S)
  <1>1. Halves(t) /\ (\A r, s \in t.splits : Nested(r, s)) /\ Separated(t)
    BY TreeParts
  <1>2. k.leaves = t.leaves \cap S
    BY DEF Kept
  <1>3. Halves(k)
    <2> SUFFICES ASSUME NEW r \in k.splits
                 PROVE  r[1] # {} /\ r[2] # {} /\ r[1] \cap r[2] = {} /\ Area(r) \subseteq k.leaves
      BY DEF Halves
    <2>1. PICK s \in t.splits : r = Cut(s, S) /\ r[1] # {} /\ r[2] # {}
      BY KeptSplits
    <2>2. s[1] \cap s[2] = {} /\ Area(s) \subseteq t.leaves
      BY <1>1 DEF Halves
    <2>3. r[1] = s[1] \cap S /\ r[2] = s[2] \cap S
      BY <2>1 DEF Cut
    <2> QED
      BY <2>1, <2>2, <2>3, <1>2 DEF Area
  <1>4. ASSUME NEW q \in k.splits, NEW r \in k.splits
        PROVE  Nested(q, r)
    <2>1. PICK u \in t.splits : q = Cut(u, S) /\ q[1] # {} /\ q[2] # {}
      BY KeptSplits
    <2>2. PICK v \in t.splits : r = Cut(v, S) /\ r[1] # {} /\ r[2] # {}
      BY KeptSplits
    <2>3. /\ q[1] = u[1] \cap S /\ q[2] = u[2] \cap S
          /\ r[1] = v[1] \cap S /\ r[2] = v[2] \cap S
      BY <2>1, <2>2 DEF Cut
    <2>4. Nested(u, v)
      BY <1>1
    <2>5. CASE u = v
      BY <2>5, <2>1, <2>2 DEF Nested
    <2>6. CASE Area(u) \cap Area(v) = {}
      BY <2>6, <2>3 DEF Nested, Area
    <2>7. CASE \E i \in {1, 2} : Area(u) \subseteq v[i] \/ Area(v) \subseteq u[i]
      <3>1. PICK i \in {1, 2} : Area(u) \subseteq v[i] \/ Area(v) \subseteq u[i]
        BY <2>7
      <3>2. CASE i = 1
        BY <3>1, <3>2, <2>3 DEF Nested, Area
      <3>3. CASE i = 2
        BY <3>1, <3>3, <2>3 DEF Nested, Area
      <3> QED
        BY <3>1, <3>2, <3>3
    <2> QED
      BY <2>4, <2>5, <2>6, <2>7 DEF Nested
  <1>5. Separated(k)
    <2> SUFFICES ASSUME NEW v \in k.leaves, NEW w \in k.leaves, v # w
                 PROVE  \E s \in k.splits : Separates(s, v, w)
      BY DEF Separated
    <2>1. PICK s \in t.splits : Separates(s, v, w)
      BY <1>1, <1>2 DEF Separated
    <2>2. v \in S /\ w \in S
      BY <1>2
    <2>3. Cut(s, S)[1] = s[1] \cap S /\ Cut(s, S)[2] = s[2] \cap S
      BY DEF Cut
    <2>4. Separates(Cut(s, S), v, w) /\ Cut(s, S)[1] # {} /\ Cut(s, S)[2] # {}
      BY <2>1, <2>2, <2>3 DEF Separates
    <2>5. Cut(s, S) \in k.splits
      BY <2>4 DEF Kept, Cut
    <2> QED
      BY <2>4, <2>5
  <1> QED
    BY <1>3, <1>4, <1>5, TreeParts

(***************************************************************************)
(* dwindle_insert and dwindle_insert_at_edge: a leaf that is split in two  *)
(* leaves a tree.                                                          *)
(***************************************************************************)
GrownSplit(s, at, c) == <<Grown(s[1], at, c), Grown(s[2], at, c)>>
NewSplit(at, c, first) == IF first THEN <<{c}, {at}>> ELSE <<{at}, {c}>>

LEMMA OpenedSplits ==
    ASSUME NEW t, NEW at, NEW c, NEW first,
           NEW r \in Opened(t, at, c, first).splits
    PROVE  r = NewSplit(at, c, first) \/ \E s \in t.splits : r = GrownSplit(s, at, c)
  BY DEF Opened, NewSplit, GrownSplit

LEMMA GrownHalves ==
    ASSUME NEW s, NEW at, NEW c
    PROVE  /\ Area(GrownSplit(s, at, c)) = Grown(Area(s), at, c)
           /\ GrownSplit(s, at, c)[1] = Grown(s[1], at, c)
           /\ GrownSplit(s, at, c)[2] = Grown(s[2], at, c)
  BY DEF Area, GrownSplit, Grown

LEMMA GrownHolds ==
    ASSUME NEW s, NEW at, NEW c
    PROVE  /\ s[1] \subseteq GrownSplit(s, at, c)[1]
           /\ s[2] \subseteq GrownSplit(s, at, c)[2]
           /\ at \in s[1] => c \in GrownSplit(s, at, c)[1]
           /\ at \in s[2] => c \in GrownSplit(s, at, c)[2]
  BY DEF GrownSplit, Grown

LEMMA OpenedIsTree ==
    ASSUME NEW t, NEW at \in t.leaves, NEW c, NEW first \in BOOLEAN, IsTree(t), c \notin t.leaves
    PROVE  IsTree(Opened(t, at, c, first))
  <1> DEFINE o == Opened(t, at, c, first)
             n == NewSplit(at, c, first)
  <1>1. Halves(t) /\ (\A r, s \in t.splits : Nested(r, s)) /\ Separated(t)
    BY TreeParts
  <1>2. o.leaves = t.leaves \cup {c}
    BY DEF Opened
  <1>3. n \in o.splits /\ \A s \in t.splits : GrownSplit(s, at, c) \in o.splits
    BY DEF Opened, NewSplit, GrownSplit
  <1>4. at # c
    OBVIOUS
  <1>5. Halves(o)
    <2> SUFFICES ASSUME NEW r \in o.splits
                 PROVE  r[1] # {} /\ r[2] # {} /\ r[1] \cap r[2] = {} /\ Area(r) \subseteq o.leaves
      BY DEF Halves
    <2>1. CASE r = n
      <3>1. Area(r) = {at, c} /\ r[1] \in {{at}, {c}} /\ r[2] \in {{at}, {c}} \ {r[1]}
        BY <2>1, <1>4 DEF NewSplit, Area
      <3> QED
        BY <3>1, <1>2
    <2>2. ASSUME NEW s \in t.splits, r = GrownSplit(s, at, c)
          PROVE  r[1] # {} /\ r[2] # {} /\ r[1] \cap r[2] = {} /\ Area(r) \subseteq o.leaves
      <3>1. s[1] # {} /\ s[2] # {} /\ s[1] \cap s[2] = {} /\ Area(s) \subseteq t.leaves
        BY <1>1 DEF Halves
      <3>2. c \notin s[1] /\ c \notin s[2]
        BY <3>1 DEF Area
      <3>3. r[1] = Grown(s[1], at, c) /\ r[2] = Grown(s[2], at, c) /\ Area(r) = Grown(Area(s), at, c)
        BY <2>2, GrownHalves
      <3> QED
        BY <3>1, <3>2, <3>3, <1>2 DEF Grown
    <2> QED
      BY <2>1, <2>2, OpenedSplits
  <1>6. ASSUME NEW s \in t.splits
        PROVE  Nested(GrownSplit(s, at, c), n) /\ Nested(n, GrownSplit(s, at, c))
    <2> DEFINE g == GrownSplit(s, at, c)
    <2>1. s[1] \cap s[2] = {} /\ Area(s) \subseteq t.leaves
      BY <1>1 DEF Halves
    <2>2. /\ g[1] = Grown(s[1], at, c) /\ g[2] = Grown(s[2], at, c)
          /\ Area(g) = Grown(Area(s), at, c)
      BY GrownHalves
    <2>3. Area(n) = {at, c}
      BY DEF NewSplit, Area
    <2> HIDE DEF g, n
    <2>4. CASE at \in s[1]
      <3>1. Area(n) \subseteq g[1]
        BY <2>2, <2>3, <2>4 DEF Grown
      <3> QED
        BY <3>1 DEF Nested, g, n
    <2>5. CASE at \in s[2]
      <3>1. Area(n) \subseteq g[2]
        BY <2>2, <2>3, <2>5 DEF Grown
      <3> QED
        BY <3>1 DEF Nested, g, n
    <2>6. CASE at \notin s[1] /\ at \notin s[2]
      <3>1. Area(g) \cap Area(n) = {}
        BY <2>1, <2>2, <2>3, <2>6 DEF Grown, Area
      <3> QED
        BY <3>1 DEF Nested, g, n
    <2> QED
      BY <2>4, <2>5, <2>6
  <1>7. ASSUME NEW u \in t.splits, NEW v \in t.splits
        PROVE  Nested(GrownSplit(u, at, c), GrownSplit(v, at, c))
    <2> DEFINE g == GrownSplit(u, at, c)
               h == GrownSplit(v, at, c)
    <2>1. Area(u) \subseteq t.leaves /\ Area(v) \subseteq t.leaves
      BY <1>1 DEF Halves
    <2>2. /\ Area(g) = Grown(Area(u), at, c) /\ Area(h) = Grown(Area(v), at, c)
          /\ g[1] = Grown(u[1], at, c) /\ g[2] = Grown(u[2], at, c)
          /\ h[1] = Grown(v[1], at, c) /\ h[2] = Grown(v[2], at, c)
      BY GrownHalves
    <2>3. Nested(u, v)
      BY <1>1
    <2>4. CASE u = v
      BY <2>4 DEF Nested
    <2>5. CASE Area(u) \cap Area(v) = {}
      <3>1. Area(g) \cap Area(h) = {}
        BY <2>1, <2>2, <2>5 DEF Grown
      <3> QED
        BY <3>1 DEF Nested
    <2>6. CASE \E i \in {1, 2} : Area(u) \subseteq v[i] \/ Area(v) \subseteq u[i]
      <3>1. PICK i \in {1, 2} : Area(u) \subseteq v[i] \/ Area(v) \subseteq u[i]
        BY <2>6
      <3>2. CASE i = 1
        <4>1. Area(g) \subseteq h[1] \/ Area(h) \subseteq g[1]
          BY <3>1, <3>2, <2>2 DEF Grown
        <4> QED
          BY <4>1 DEF Nested
      <3>3. CASE i = 2
        <4>1. Area(g) \subseteq h[2] \/ Area(h) \subseteq g[2]
          BY <3>1, <3>3, <2>2 DEF Grown
        <4> QED
          BY <4>1 DEF Nested
      <3> QED
        BY <3>1, <3>2, <3>3
    <2> QED
      BY <2>3, <2>4, <2>5, <2>6 DEF Nested
  <1>8. \A q, r \in o.splits : Nested(q, r)
    <2> SUFFICES ASSUME NEW q \in o.splits, NEW r \in o.splits
                 PROVE  Nested(q, r)
      OBVIOUS
    <2>1. q = n \/ \E s \in t.splits : q = GrownSplit(s, at, c)
      BY OpenedSplits
    <2>2. r = n \/ \E s \in t.splits : r = GrownSplit(s, at, c)
      BY OpenedSplits
    <2>3. Nested(n, n)
      BY DEF Nested
    <2> QED
      BY <2>1, <2>2, <2>3, <1>6, <1>7
  <1>9. Separated(o)
    <2> SUFFICES ASSUME NEW v \in o.leaves, NEW w \in o.leaves, v # w
                 PROVE  \E s \in o.splits : Separates(s, v, w)
      BY DEF Separated
    <2>1. ASSUME NEW s \in t.splits, NEW x, NEW y, Separates(s, x, y)
          PROVE  Separates(GrownSplit(s, at, c), x, y)
      BY <2>1, GrownHolds DEF Separates
    <2>2. CASE v # c /\ w # c
      <3>1. PICK s \in t.splits : Separates(s, v, w)
        BY <2>2, <1>1, <1>2 DEF Separated
      <3> QED
        BY <3>1, <2>1, <1>3
    <2>3. ASSUME NEW x \in t.leaves
          PROVE  \E s \in o.splits : Separates(s, x, c) /\ Separates(s, c, x)
      <3>1. CASE x = at
        BY <3>1, <1>3 DEF NewSplit, Separates
      <3>2. CASE x # at
        <4>1. PICK s \in t.splits : Separates(s, x, at)
          BY <3>2, <1>1 DEF Separated
        <4>2. Separates(GrownSplit(s, at, c), x, c) /\ Separates(GrownSplit(s, at, c), c, x)
          BY <4>1, GrownHolds DEF Separates
        <4> QED
          BY <4>2, <1>3
      <3> QED
        BY <3>1, <3>2
    <2> QED
      BY <2>2, <2>3, <1>2
  <1> QED
    BY <1>5, <1>8, <1>9, TreeParts

(***************************************************************************)
(* swapdir and swaptiled: two windows that change places leave a tree.     *)
(***************************************************************************)
SwappedSplit(s, v, w) == <<SwappedIn(s[1], v, w), SwappedIn(s[2], v, w)>>

LEMMA Renaming ==
    ASSUME NEW H, NEW v, NEW w, NEW u
    PROVE  /\ u \in SwappedIn(H, v, w) <=> Renamed(u, v, w) \in H
           /\ Renamed(Renamed(u, v, w), v, w) = u
  BY DEF SwappedIn, Renamed

LEMMA SwappedHalves ==
    ASSUME NEW s, NEW v, NEW w
    PROVE  /\ SwappedSplit(s, v, w)[1] = SwappedIn(s[1], v, w)
           /\ SwappedSplit(s, v, w)[2] = SwappedIn(s[2], v, w)
           /\ Area(SwappedSplit(s, v, w)) = SwappedIn(Area(s), v, w)
  BY DEF SwappedSplit, Area, SwappedIn

LEMMA SwappedSets ==
    ASSUME NEW G, NEW H, NEW v, NEW w
    PROVE  /\ G \subseteq H => SwappedIn(G, v, w) \subseteq SwappedIn(H, v, w)
           /\ G \cap H = {} => SwappedIn(G, v, w) \cap SwappedIn(H, v, w) = {}
           /\ G # {} => SwappedIn(G, v, w) # {}
  <1>1. G \subseteq H => SwappedIn(G, v, w) \subseteq SwappedIn(H, v, w)
    BY DEF SwappedIn
  <1>2. G \cap H = {} => SwappedIn(G, v, w) \cap SwappedIn(H, v, w) = {}
    BY Renaming
  <1>3. G # {} => SwappedIn(G, v, w) # {}
    BY DEF SwappedIn
  <1> QED
    BY <1>1, <1>2, <1>3

LEMMA SwappedIsTree ==
    ASSUME NEW t, NEW a \in t.leaves, NEW b \in t.leaves, IsTree(t)
    PROVE  IsTree(Swapped(t, a, b))
  <1> DEFINE p == Swapped(t, a, b)
  <1>1. Halves(t) /\ (\A r, s \in t.splits : Nested(r, s)) /\ Separated(t)
    BY TreeParts
  <1>2. p.leaves = t.leaves /\ p.splits = {SwappedSplit(s, a, b) : s \in t.splits}
    BY DEF Swapped, SwappedSplit
  <1>3. Halves(p)
    <2> SUFFICES ASSUME NEW s \in t.splits
                 PROVE  LET r == SwappedSplit(s, a, b)
                        IN  r[1] # {} /\ r[2] # {} /\ r[1] \cap r[2] = {} /\ Area(r) \subseteq p.leaves
      BY <1>2 DEF Halves
    <2>1. s[1] # {} /\ s[2] # {} /\ s[1] \cap s[2] = {} /\ Area(s) \subseteq t.leaves
      BY <1>1 DEF Halves
    <2>2. SwappedIn(Area(s), a, b) \subseteq t.leaves
      BY <2>1 DEF SwappedIn, Renamed
    <2> QED
      BY <2>1, <2>2, <1>2, SwappedHalves, SwappedSets
  <1>4. ASSUME NEW u \in t.splits, NEW v \in t.splits
        PROVE  Nested(SwappedSplit(u, a, b), SwappedSplit(v, a, b))
    <2>1. Nested(u, v)
      BY <1>1
    <2>2. CASE u = v
      BY <2>2 DEF Nested
    <2>3. CASE Area(u) \cap Area(v) = {}
      BY <2>3, SwappedHalves, SwappedSets DEF Nested
    <2>4. CASE \E i \in {1, 2} : Area(u) \subseteq v[i] \/ Area(v) \subseteq u[i]
      <3>1. PICK i \in {1, 2} : Area(u) \subseteq v[i] \/ Area(v) \subseteq u[i]
        BY <2>4
      <3>2. CASE i = 1
        BY <3>1, <3>2, SwappedHalves, SwappedSets DEF Nested
      <3>3. CASE i = 2
        BY <3>1, <3>3, SwappedHalves, SwappedSets DEF Nested
      <3> QED
        BY <3>1, <3>2, <3>3
    <2> QED
      BY <2>1, <2>2, <2>3, <2>4 DEF Nested
  <1>5. Separated(p)
    <2> SUFFICES ASSUME NEW v \in p.leaves, NEW w \in p.leaves, v # w
                 PROVE  \E s \in p.splits : Separates(s, v, w)
      BY DEF Separated
    <2>1. /\ Renamed(v, a, b) \in t.leaves /\ Renamed(w, a, b) \in t.leaves
          /\ Renamed(v, a, b) # Renamed(w, a, b)
      BY <1>2 DEF Renamed
    <2>2. PICK s \in t.splits : Separates(s, Renamed(v, a, b), Renamed(w, a, b))
      BY <2>1, <1>1 DEF Separated
    <2>3. Separates(SwappedSplit(s, a, b), v, w)
      BY <2>2, SwappedHalves, Renaming DEF Separates
    <2> QED
      BY <2>3, <1>2
  <1> QED
    BY <1>2, <1>3, <1>4, <1>5, TreeParts

(***************************************************************************)
(* The trees stay trees of windows.                                        *)
(***************************************************************************)
LEMMA TreeType ==
    ASSUME NEW W, NEW t
    PROVE  t \in TreeOf(W) <=> /\ t = [leaves |-> t.leaves, splits |-> t.splits]
                               /\ t.leaves \subseteq W
                               /\ t.splits \subseteq (SUBSET W) \X (SUBSET W)
  BY DEF TreeOf

LEMMA KeptType ==
    ASSUME NEW W, NEW t \in TreeOf(W), NEW S
    PROVE  Kept(t, S) \in TreeOf(W)
  <1>1. t.leaves \subseteq W /\ t.splits \subseteq (SUBSET W) \X (SUBSET W)
    BY DEF TreeOf
  <1>2. \A s \in t.splits : <<s[1] \cap S, s[2] \cap S>> \in (SUBSET W) \X (SUBSET W)
    BY <1>1
  <1> QED
    BY <1>1, <1>2 DEF Kept, TreeOf

LEMMA OpenedType ==
    ASSUME NEW W, NEW t \in TreeOf(W), NEW at \in W, NEW c \in W, NEW first \in BOOLEAN
    PROVE  Opened(t, at, c, first) \in TreeOf(W)
  <1>1. t.leaves \subseteq W /\ t.splits \subseteq (SUBSET W) \X (SUBSET W)
    BY DEF TreeOf
  <1>2. \A s \in t.splits :
            <<Grown(s[1], at, c), Grown(s[2], at, c)>> \in (SUBSET W) \X (SUBSET W)
    BY <1>1 DEF Grown
  <1>3. <<{c}, {at}>> \in (SUBSET W) \X (SUBSET W) /\ <<{at}, {c}>> \in (SUBSET W) \X (SUBSET W)
    OBVIOUS
  <1> QED
    BY <1>1, <1>2, <1>3 DEF Opened, TreeOf

LEMMA SwappedType ==
    ASSUME NEW W, NEW t \in TreeOf(W), NEW a \in W, NEW b \in W
    PROVE  Swapped(t, a, b) \in TreeOf(W)
  <1>1. t.leaves \subseteq W /\ t.splits \subseteq (SUBSET W) \X (SUBSET W)
    BY DEF TreeOf
  <1>2. \A s \in t.splits :
            <<SwappedIn(s[1], a, b), SwappedIn(s[2], a, b)>> \in (SUBSET W) \X (SUBSET W)
    BY <1>1 DEF SwappedIn, Renamed
  <1> QED
    BY <1>1, <1>2 DEF Swapped, TreeOf

LEMMA EmptyIsTree ==
    ASSUME NEW W
    PROVE  Empty \in TreeOf(W) /\ IsTree(Empty)
  BY DEF Empty, IsTree, TreeOf

LEMMA LeafIsTree ==
    ASSUME NEW W, NEW c \in W
    PROVE  LET t == [leaves |-> {c}, splits |-> {}] IN t \in TreeOf(W) /\ IsTree(t)
  BY DEF IsTree, TreeOf

\* Tiling has its own copy of module Trees.
LEMMA SameTrees ==
    /\ \A t : Promise!IsTree(t) <=> IsTree(t)
    /\ \A W : Promise!TreeOf(W) = TreeOf(W)
    /\ \A t, S : Promise!Kept(t, S) = Kept(t, S)
    /\ \A t, a : Promise!Removed(t, a) = Removed(t, a)
    /\ \A t, a, b, first : Promise!Opened(t, a, b, first) = Opened(t, a, b, first)
    /\ \A t, a, b : Promise!Swapped(t, a, b) = Swapped(t, a, b)
<1>1. \A H, a, b : Promise!SwappedIn(H, a, b) = SwappedIn(H, a, b)
  BY DEF SwappedIn, Renamed, Promise!SwappedIn, Promise!Renamed
<1>2. \A t : Promise!IsTree(t) <=> IsTree(t)
  BY DEF IsTree, Area, Separates, Promise!IsTree, Promise!Area, Promise!Separates
<1>3. \A t, S : Promise!Kept(t, S) = Kept(t, S)
  BY DEF Kept, Promise!Kept
<1>4. \A t, a : Promise!Removed(t, a) = Removed(t, a)
  BY <1>3 DEF Removed, Promise!Removed
<1>5. \A t, a, b, first : Promise!Opened(t, a, b, first) = Opened(t, a, b, first)
  BY DEF Opened, Grown, Promise!Opened, Promise!Grown
<1>6. \A t, a, b : Promise!Swapped(t, a, b) = Swapped(t, a, b)
  BY <1>1 DEF Swapped, Promise!Swapped
<1>7. \A W : Promise!TreeOf(W) = TreeOf(W)
  BY DEF TreeOf, Promise!TreeOf
<1> QED BY <1>2, <1>3, <1>4, <1>5, <1>6, <1>7

(***************************************************************************)
(* Whatever windows open, go, change places and move, the dwindle tree of  *)
(* a tag is a binary tree with one leaf for each of its windows.           *)
(***************************************************************************)
THEOREM TreesStayTrees == Promise!Spec => []Promise!Arboreal
<1>1. Promise!Init => Promise!Arboreal
  BY SameTrees, EmptyIsTree DEF Promise!Init, Promise!Empty, Empty, Promise!Arboreal
<1>2. Promise!Arboreal /\ [Promise!Next]_tree => Promise!Arboreal'
  <2> SUFFICES ASSUME Promise!Arboreal, [Promise!Next]_tree
               PROVE  Promise!Arboreal'
    OBVIOUS
  <2>1. tree \in TreeOf(Window) /\ IsTree(tree) /\ tree.leaves \subseteq Window
    BY SameTrees DEF Promise!Arboreal, TreeOf
  <2>2. ASSUME NEW c \in Window, Promise!Open(c)
        PROVE  Promise!Arboreal'
    <3>1. CASE tree' = [leaves |-> {c}, splits |-> {}]
      BY <3>1, SameTrees DEF Promise!Arboreal, IsTree, TreeOf
    <3>2. ASSUME NEW at \in tree.leaves, NEW first \in BOOLEAN, tree' = Opened(tree, at, c, first)
          PROVE  Promise!Arboreal'
      <4>1. c \notin tree.leaves
        BY <2>2 DEF Promise!Open
      <4> QED
        BY <2>1, <3>2, <4>1, OpenedIsTree, OpenedType, SameTrees DEF Promise!Arboreal
    <3> QED
      BY <2>2, <3>1, <3>2, SameTrees DEF Promise!Open
  <2>3. ASSUME NEW S \in SUBSET Window, Promise!Keep(S)
        PROVE  Promise!Arboreal'
    BY <2>1, <2>3, KeptIsTree, KeptType, SameTrees DEF Promise!Keep, Promise!Arboreal
  <2>4. ASSUME NEW a \in Window, NEW b \in Window, Promise!Swap(a, b)
        PROVE  Promise!Arboreal'
    BY <2>1, <2>4, SwappedIsTree, SwappedType, SameTrees DEF Promise!Swap, Promise!Arboreal
  <2>5. ASSUME NEW a \in Window, NEW b \in Window, Promise!Move(a, b)
        PROVE  Promise!Arboreal'
    <3> DEFINE rest == Removed(tree, a)
    <3>1. rest \in TreeOf(Window) /\ IsTree(rest) /\ rest.leaves = tree.leaves \ {a}
      <4>1. rest.leaves = tree.leaves \ {a}
        BY DEF Removed, Kept
      <4> QED
        BY <2>1, <4>1, KeptIsTree, KeptType DEF Removed
    <3>2. PICK first \in BOOLEAN : tree' = Opened(rest, b, a, first)
      BY <2>5, SameTrees DEF Promise!Move
    <3>3. b \in rest.leaves /\ a \notin rest.leaves
      BY <2>5, <3>1 DEF Promise!Move
    <3> QED
      BY <3>1, <3>2, <3>3, OpenedIsTree, OpenedType, SameTrees DEF Promise!Arboreal
  <2>6. CASE UNCHANGED tree
    BY <2>6 DEF Promise!Arboreal
  <2> QED
    BY <2>2, <2>3, <2>4, <2>5, <2>6 DEF Promise!Next
<1> QED
  BY <1>1, <1>2, PTL DEF Promise!Spec

-----------------------------------------------------------------------------
(***************************************************************************)
(* The state of the layout: its type, trees that are trees of mapped       *)
(* windows, and no window in the list twice.                               *)
(***************************************************************************)
Boxes == {Elsewhere} \cup {Box(m, t, c) : m \in Output, t \in TreeOf(Window), c \in Window}

Layouts ==
    [clients : Seq(Window),
     mon : [Window -> Output \cup {None}], tags : [Window -> SUBSET Tag],
     isfloating : SUBSET Window, isfullscreen : SUBSET Window,
     on : SUBSET Output, asleep : SUBSET Output, tiling : SUBSET Output,
     viewed : [Output -> Views],
     root : [Output -> [Tag -> TreeOf(Window)]],
     geom : [Window -> Boxes],
     grabc : Window \cup {None}, target : Window \cup {None}]

Sound(e) ==
    /\ Distinct(e.clients)
    /\ \A m \in Output, t \in Tag :
         IsTree(e.root[m][t]) /\ e.root[m][t].leaves \subseteq Mapped(e)

Good == {e \in Layouts : Sound(e)}

LEMMA CurrentIsTag ==
    ASSUME NEW e \in Layouts, NEW m \in Output
    PROVE  current(e, m) \in Tag
<1>1. e.viewed[m] \in Views
  BY DEF Layouts
<1>2. e.viewed[m] \in SUBSET Nat /\ e.viewed[m] # {} /\ e.viewed[m] \subseteq Tag
  BY <1>1, TagAssumption DEF Views, Tag
<1>3. \E t \in e.viewed[m] : \A u \in e.viewed[m] : t <= u
  BY <1>2, Least
<1>4. current(e, m) \in e.viewed[m]
  BY <1>3 DEF current
<1> QED BY <1>2, <1>4

LEMMA TreeInView ==
    ASSUME NEW e \in Good, NEW m \in Output
    PROVE  /\ Tree(e, m) \in TreeOf(Window)
           /\ IsTree(Tree(e, m))
           /\ Tree(e, m).leaves \subseteq Mapped(e)
<1>1. current(e, m) \in Tag
  BY CurrentIsTag DEF Good
<1>2. e.root \in [Output -> [Tag -> TreeOf(Window)]]
  BY DEF Good, Layouts
<1> QED BY <1>1, <1>2 DEF Good, Sound, Tree

LEMMA MappedWindows ==
    ASSUME NEW e \in Layouts
    PROVE  Mapped(e) \subseteq Window
BY DEF Layouts, Mapped, Range

(***************************************************************************)
(* What can be wrong in the view of an output.  Neat(e, f, m) says that    *)
(* nothing is wrong with f that was not wrong with e, Settled(f, m) that   *)
(* nothing is.                                                             *)
(***************************************************************************)
Laid(e, m) == m \in e.on \cap e.tiling
Still(e, m) == Tiles(e, m) \ {e.grabc}

LeaflessAt(e, m, c) == Laid(e, m) /\ c \in Still(e, m) \ Tree(e, m).leaves

HoleAt(e, m, c) ==
    /\ Laid(e, m) /\ Still(e, m) # {}
    /\ c \in Tree(e, m).leaves \ {e.grabc}
    /\ ~(VISIBLEON(e, c, m) /\ c \notin e.isfloating)

MisplacedAt(e, m, c) ==
    /\ Laid(e, m)
    /\ c \in Still(e, m) \cap Tree(e, m).leaves
    /\ e.geom[c] # Box(m, Tree(e, m), c)

Neat(e, f, m) ==
    \A c \in Window :
        /\ LeaflessAt(f, m, c) => LeaflessAt(e, m, c)
        /\ HoleAt(f, m, c) => HoleAt(e, m, c)
        /\ MisplacedAt(f, m, c) => MisplacedAt(e, m, c)

Settled(f, m) ==
    \A c \in Window : ~LeaflessAt(f, m, c) /\ ~HoleAt(f, m, c) /\ ~MisplacedAt(f, m, c)

LEMMA NeatTwice ==
    ASSUME NEW e, NEW f, NEW g, NEW m, Neat(e, f, m), Neat(f, g, m)
    PROVE  Neat(e, g, m)
BY DEF Neat

LEMMA SettledNeat ==
    ASSUME NEW f, NEW m, Settled(f, m)
    PROVE  \A e : Neat(e, f, m)
BY DEF Neat, Settled

LEMMA SettledStays ==
    ASSUME NEW f, NEW g, NEW m, Settled(f, m), Neat(f, g, m)
    PROVE  Settled(g, m)
BY DEF Neat, Settled

\* An output that is off, or not in this layout, shows no flaw.
LEMMA UnlaidSettled ==
    ASSUME NEW f, NEW m, ~Laid(f, m)
    PROVE  Settled(f, m)
BY DEF Settled, LeaflessAt, HoleAt, MisplacedAt

(***************************************************************************)
(* A step that leaves the windows of an output alone leaves it neat.       *)
(***************************************************************************)
Same(e, f, c) ==
    /\ c \in Mapped(f) <=> c \in Mapped(e)
    /\ f.mon[c] = e.mon[c]
    /\ f.tags[c] = e.tags[c]
    /\ c \in f.isfloating <=> c \in e.isfloating
    /\ c \in f.isfullscreen <=> c \in e.isfullscreen
    /\ f.geom[c] = e.geom[c] \/ c = e.grabc

LEMMA ApartNeat ==
    ASSUME NEW e \in Layouts, NEW f \in Layouts, NEW m \in Output,
           Laid(f, m) => Laid(e, m),
           f.viewed[m] = e.viewed[m],
           f.root[m] = e.root[m],
           f.grabc = e.grabc,
           \A c \in Window : e.mon[c] = m \/ f.mon[c] = m => Same(e, f, c)
    PROVE  Neat(e, f, m)
<1>1. current(f, m) = current(e, m) /\ Tree(f, m) = Tree(e, m)
  BY DEF current, Tree
<1>2. \A c \in Window : VISIBLEON(f, c, m) <=> VISIBLEON(e, c, m)
  BY DEF VISIBLEON, Same
<1>3. Tiles(f, m) = Tiles(e, m)
  BY <1>2, MappedWindows DEF Tiles, VISIBLEON, Same
<1>4. Still(f, m) = Still(e, m)
  BY <1>3 DEF Still
<1>5. \A c \in Still(f, m) : f.geom[c] = e.geom[c]
  BY MappedWindows DEF Still, Tiles, VISIBLEON, Same
<1>6. \A c \in Window : VISIBLEON(e, c, m) => (c \in f.isfloating <=> c \in e.isfloating)
  BY DEF VISIBLEON, Same
<1>7. ASSUME NEW c \in Window PROVE HoleAt(f, m, c) => HoleAt(e, m, c)
  BY <1>1, <1>2, <1>4, <1>6 DEF HoleAt
<1>8. ASSUME NEW c \in Window
      PROVE  /\ LeaflessAt(f, m, c) => LeaflessAt(e, m, c)
             /\ MisplacedAt(f, m, c) => MisplacedAt(e, m, c)
  BY <1>1, <1>4, <1>5 DEF LeaflessAt, MisplacedAt
<1> QED BY <1>7, <1>8 DEF Neat

-----------------------------------------------------------------------------
(***************************************************************************)
(* dwindle.                                                                *)
(***************************************************************************)
\* Nothing but boxes, trees and the preselected window changes.
Relaid(e, f) ==
    /\ f.clients = e.clients /\ f.mon = e.mon /\ f.tags = e.tags
    /\ f.isfloating = e.isfloating /\ f.isfullscreen = e.isfullscreen
    /\ f.on = e.on /\ f.asleep = e.asleep /\ f.tiling = e.tiling
    /\ f.viewed = e.viewed /\ f.grabc = e.grabc

LEMMA RelaidViews ==
    ASSUME NEW e, NEW f, Relaid(e, f)
    PROVE  /\ Mapped(f) = Mapped(e)
           /\ \A m : /\ current(f, m) = current(e, m)
                     /\ \A c : VISIBLEON(f, c, m) <=> VISIBLEON(e, c, m)
                     /\ Tiles(f, m) = Tiles(e, m)
                     /\ Still(f, m) = Still(e, m)
                     /\ Laid(f, m) <=> Laid(e, m)
<1>1. Mapped(f) = Mapped(e)
  BY DEF Relaid, Mapped
<1>2. \A m : current(f, m) = current(e, m)
  BY DEF Relaid, current
<1>3. \A m, c : VISIBLEON(f, c, m) <=> VISIBLEON(e, c, m)
  BY <1>1 DEF Relaid, VISIBLEON
<1>4. \A m : Tiles(f, m) = Tiles(e, m)
  BY <1>1, <1>3 DEF Relaid, Tiles
<1> QED BY <1>1, <1>2, <1>3, <1>4 DEF Relaid, Still, Laid

LEMMA RelaidTwice ==
    ASSUME NEW e, NEW f, NEW g, Relaid(e, f), Relaid(f, g)
    PROVE  Relaid(e, g)
BY DEF Relaid

LEMMA RelaidSound ==
    ASSUME NEW e \in Good, NEW f \in Layouts, Relaid(e, f), f.root = e.root
    PROVE  f \in Good
BY RelaidViews DEF Good, Sound, Relaid

LEMMA RecalcPlaces ==
    ASSUME NEW e \in Layouts, NEW m \in Output, NEW t \in Tag
    PROVE  LET f == recalc(e, m, t)
           IN  /\ f \in Layouts /\ Relaid(e, f) /\ f.root = e.root /\ f.target = e.target
               /\ \A c \in Window :
                    f.geom[c] = IF c \in e.root[m][t].leaves \ e.isfullscreen /\ e.mon[c] # None
                                THEN Box(m, e.root[m][t], c) ELSE e.geom[c]
<1> DEFINE G == [c \in Window |->
                   IF c \in e.root[m][t].leaves \ e.isfullscreen /\ e.mon[c] # None
                   THEN Box(m, e.root[m][t], c) ELSE e.geom[c]]
           f == [e EXCEPT !.geom = G]
<1>1. recalc(e, m, t) = f
  BY DEF recalc
<1>2. e.root[m][t] \in TreeOf(Window) /\ e.geom \in [Window -> Boxes]
  BY DEF Layouts
<1>3. \A c \in Window : Box(m, e.root[m][t], c) \in Boxes
  BY <1>2 DEF Boxes
<1>4. G \in [Window -> Boxes]
  BY <1>2, <1>3
<1> HIDE DEF G
<1>5. f \in Layouts /\ f.geom = G
  BY <1>4 DEF Layouts
<1>6. Relaid(e, f) /\ f.root = e.root /\ f.target = e.target
  BY DEF Layouts, Relaid
<1> QED BY <1>1, <1>5, <1>6 DEF G

LEMMA OpeningsAreTrees ==
    ASSUME NEW u \in TreeOf(Window), IsTree(u), NEW c \in Window, c \notin u.leaves,
           NEW v \in Openings(u, c)
    PROVE  v \in TreeOf(Window) /\ IsTree(v) /\ v.leaves = u.leaves \cup {c}
<1>1. CASE u.leaves = {}
  <2>1. v = [leaves |-> {c}, splits |-> {}]
    BY <1>1 DEF Openings
  <2> QED BY <1>1, <2>1, LeafIsTree
<1>2. CASE u.leaves # {}
  <2>1. PICK at \in u.leaves, first \in BOOLEAN : v = Opened(u, at, c, first)
    BY <1>2 DEF Openings
  <2>2. at \in Window
    BY DEF TreeOf
  <2>3. v.leaves = u.leaves \cup {c}
    BY <2>1 DEF Opened
  <2> QED BY <2>1, <2>2, <2>3, OpenedIsTree, OpenedType
<1> QED BY <1>1, <1>2

\* Even where the window has a leaf already, what opens has the type of a tree.
LEMMA OpeningsType ==
    ASSUME NEW u \in TreeOf(Window), NEW c \in Window
    PROVE  Openings(u, c) \subseteq TreeOf(Window)
<1>1. [leaves |-> {c}, splits |-> {}] \in TreeOf(Window)
  BY LeafIsTree
<1>2. \A at \in u.leaves, first \in BOOLEAN : Opened(u, at, c, first) \in TreeOf(Window)
  BY OpenedType DEF TreeOf
<1> QED BY <1>1, <1>2 DEF Openings

(***************************************************************************)
(* The loop of dwindle gives a leaf to each tile that has none, and to no  *)
(* window twice, because the list has each window once.                    *)
(***************************************************************************)
Staying(e, m) ==
    {c \in Mapped(e) : c = e.grabc \/ (VISIBLEON(e, c, m) /\ c \notin e.isfloating)}
Pruned(e, m) == Kept(Tree(e, m), Staying(e, m))
Lacking(e, m) == Still(e, m) \ Pruned(e, m).leaves

TreeSets == SUBSET TreeOf(Window)

LEMMA TreesLoop ==
    ASSUME NEW s \in TreeSets, NEW n \in Nat, NEW G \in [(1..n) \X TreeSets -> TreeSets]
    PROVE  \E f \in [0..n -> TreeSets] :
               f[0] = s /\ \A i \in 1..n : f[i] = G[<<i, f[i - 1]>>]
BY LoopExists

LEMMA DwindleRuns ==
    ASSUME NEW e \in Layouts, NEW m \in Output
    PROVE  \E opened :
             /\ opened[0] = {Pruned(e, m)}
             /\ \A i \in 1..Len(e.clients) :
                  opened[i] = IF e.clients[i] \in Lacking(e, m)
                              THEN UNION {Openings(u, e.clients[i]) : u \in opened[i - 1]}
                              ELSE opened[i - 1]
             /\ dwindle(e, m) =
                  IF Still(e, m) = {} THEN {e}
                  ELSE {recalc([e EXCEPT !.root[m][current(e, m)] = u], m, current(e, m)) :
                          u \in opened[Len(e.clients)]}
<1> DEFINE n     == Len(e.clients)
           tiles == Tiles(e, m) \ {e.grabc}
           stay  == {c \in Mapped(e) : c = e.grabc \/ (VISIBLEON(e, c, m) /\ c \notin e.isfloating)}
           t     == current(e, m)
           kept  == Kept(e.root[m][t], stay)
           opened[i \in 0..n] ==
               IF i = 0 THEN {kept}
               ELSE IF e.clients[i] \in tiles \ kept.leaves
                    THEN UNION {Openings(u, e.clients[i]) : u \in opened[i - 1]}
                    ELSE opened[i - 1]
           G == [p \in (1..n) \X TreeSets |->
                   IF e.clients[p[1]] \in tiles \ kept.leaves
                   THEN UNION {Openings(u, e.clients[p[1]]) : u \in p[2]} ELSE p[2]]
<1>1. n \in Nat /\ \A i \in 1..n : e.clients[i] \in Window
  BY DEF Layouts
<1>2. kept = Pruned(e, m) /\ tiles = Still(e, m) /\ tiles \ kept.leaves = Lacking(e, m)
  BY DEF Pruned, Staying, Tree, Still, Lacking
<1>3. kept \in TreeOf(Window)
  <2>1. e.root[m][t] \in TreeOf(Window)
    BY CurrentIsTag DEF Layouts
  <2> HIDE DEF t, stay
  <2> QED BY <2>1, KeptType
<1> HIDE DEF kept, tiles
<1>4. ASSUME NEW U \in TreeSets, NEW c \in Window PROVE UNION {Openings(u, c) : u \in U} \in TreeSets
  BY OpeningsType DEF TreeSets
<1>5. G \in [(1..n) \X TreeSets -> TreeSets]
  <2> HIDE DEF n
  <2> QED BY <1>1, <1>4
<1>6. {kept} \in TreeSets
  BY <1>3 DEF TreeSets
<1>7. PICK f \in [0..n -> TreeSets] : f[0] = {kept} /\ \A i \in 1..n : f[i] = G[<<i, f[i - 1]>>]
  <2> HIDE DEF G, n
  <2> QED BY <1>1, <1>5, <1>6, TreesLoop
<1>8. ASSUME NEW i \in 1..n
      PROVE  f[i] = IF e.clients[i] \in tiles \ kept.leaves
                    THEN UNION {Openings(u, e.clients[i]) : u \in f[i - 1]} ELSE f[i - 1]
  <2>1. <<i, f[i - 1]>> \in (1..n) \X TreeSets
    <3> HIDE DEF G, n
    <3>1. i - 1 \in 0..n
      BY <1>1
    <3> QED BY <3>1
  <2>2. G[<<i, f[i - 1]>>] = IF e.clients[i] \in tiles \ kept.leaves
                             THEN UNION {Openings(u, e.clients[i]) : u \in f[i - 1]}
                             ELSE f[i - 1]
    BY <2>1
  <2> QED BY <1>7, <2>2
<1>9. f = [i \in 0..n |->
             IF i = 0 THEN {kept}
             ELSE IF e.clients[i] \in tiles \ kept.leaves
                  THEN UNION {Openings(u, e.clients[i]) : u \in f[i - 1]} ELSE f[i - 1]]
  <2> HIDE DEF G, n
  <2>1. DOMAIN f = 0..n /\ f[0] = {kept}
    BY <1>7
  <2>2. \A i \in 0..n : i = 0 \/ i \in 1..n
    BY <1>1
  <2> QED BY <1>7, <1>8, <2>1, <2>2
<1>10. opened = [i \in 0..n |->
                   IF i = 0 THEN {kept}
                   ELSE IF e.clients[i] \in tiles \ kept.leaves
                        THEN UNION {Openings(u, e.clients[i]) : u \in opened[i - 1]}
                        ELSE opened[i - 1]]
  BY <1>9
<1>11. dwindle(e, m) = IF tiles = {} THEN {e}
                       ELSE {recalc([e EXCEPT !.root[m][t] = u], m, t) : u \in opened[n]}
  BY DEF dwindle, opened, tiles, kept
<1> HIDE DEF opened, t
<1>12. /\ opened[0] = {kept}
       /\ \A i \in 1..n :
            opened[i] = IF e.clients[i] \in tiles \ kept.leaves
                        THEN UNION {Openings(u, e.clients[i]) : u \in opened[i - 1]}
                        ELSE opened[i - 1]
  <2>1. 0 \in 0..n /\ \A i \in 1..n : i \in 0..n /\ i # 0
    BY <1>1
  <2> HIDE DEF n
  <2> QED BY <1>10, <2>1
<1> QED BY <1>2, <1>11, <1>12 DEF t

\* The tiles that have got a leaf after i rounds.
Served(e, m, i) == {e.clients[j] : j \in 1..i} \cap Lacking(e, m)

LEMMA DwindleServes ==
    ASSUME NEW e \in Good, NEW m \in Output, NEW f \in dwindle(e, m), Still(e, m) # {}
    PROVE  \E u \in TreeOf(Window) :
             /\ IsTree(u)
             /\ u.leaves = Pruned(e, m).leaves \cup Still(e, m)
             /\ f = recalc([e EXCEPT !.root[m][current(e, m)] = u], m, current(e, m))
<1> DEFINE n == Len(e.clients)
           T(i) == {u \in TreeOf(Window) :
                      IsTree(u) /\ u.leaves = Pruned(e, m).leaves \cup Served(e, m, i)}
           S == [i \in 0..n |-> SUBSET T(i)]
<1>1. /\ n \in Nat /\ DOMAIN e.clients = 1..n /\ Distinct(e.clients)
      /\ \A i \in 1..n : e.clients[i] \in Window
  BY DEF Good, Sound, Layouts
<1>2. PICK opened :
             /\ opened[0] = {Pruned(e, m)}
             /\ \A i \in 1..n :
                  opened[i] = IF e.clients[i] \in Lacking(e, m)
                              THEN UNION {Openings(u, e.clients[i]) : u \in opened[i - 1]}
                              ELSE opened[i - 1]
             /\ dwindle(e, m) =
                  IF Still(e, m) = {} THEN {e}
                  ELSE {recalc([e EXCEPT !.root[m][current(e, m)] = u], m, current(e, m)) :
                          u \in opened[n]}
  BY DwindleRuns DEF Good
<1>3. opened[0] \in S[0]
  <2>1. Pruned(e, m) \in TreeOf(Window) /\ IsTree(Pruned(e, m))
    BY TreeInView, KeptIsTree, KeptType DEF Pruned
  <2>2. Served(e, m, 0) = {}
    BY DEF Served
  <2>3. Pruned(e, m) \in T(0)
    BY <2>1, <2>2
  <2> QED BY <1>1, <1>2, <2>3
<1>4. ASSUME NEW i \in 1..n, opened[i - 1] \in S[i - 1]
      PROVE  opened[i] \in S[i]
  <2> DEFINE c == e.clients[i]
  <2>1. i \in 0..n /\ i - 1 \in 0..n /\ opened[i - 1] \subseteq T(i - 1)
    BY <1>1, <1>4
  <2>2. {e.clients[j] : j \in 1..i} = {e.clients[j] : j \in 1..(i - 1)} \cup {c}
    BY <1>1
  <2>3. c \notin {e.clients[j] : j \in 1..(i - 1)}
    BY <1>1 DEF Distinct
  <2>4. CASE c \in Lacking(e, m)
    <3>1. Served(e, m, i) = Served(e, m, i - 1) \cup {c}
      BY <2>2, <2>4 DEF Served
    <3>2. c \notin Pruned(e, m).leaves \cup Served(e, m, i - 1)
      BY <2>3, <2>4 DEF Served, Lacking
    <3>3. ASSUME NEW u \in opened[i - 1], NEW v \in Openings(u, c)
          PROVE  v \in T(i)
      <4>1. u \in TreeOf(Window) /\ IsTree(u) /\ c \in Window
            /\ u.leaves = Pruned(e, m).leaves \cup Served(e, m, i - 1)
        BY <2>1, <1>1
      <4>2. c \notin u.leaves
        BY <4>1, <3>2
      <4>3. v \in TreeOf(Window) /\ IsTree(v) /\ v.leaves = u.leaves \cup {c}
        BY <4>1, <4>2, OpeningsAreTrees
      <4> QED BY <4>1, <4>3, <3>1
    <3>4. opened[i] = UNION {Openings(u, c) : u \in opened[i - 1]}
      BY <1>2, <2>4
    <3> HIDE DEF T
    <3> QED BY <2>1, <3>3, <3>4
  <2>5. CASE c \notin Lacking(e, m)
    <3>1. Served(e, m, i) = Served(e, m, i - 1)
      BY <2>2, <2>5 DEF Served
    <3>2. opened[i] = opened[i - 1]
      BY <1>2, <2>5
    <3> QED BY <2>1, <3>1, <3>2
  <2> QED BY <2>4, <2>5
<1>5. opened[n] \in S[n]
  <2> HIDE DEF S, n
  <2> QED BY <1>1, <1>3, <1>4, LoopProgress
<1>6. Served(e, m, n) = Lacking(e, m)
  <2>1. Mapped(e) = {e.clients[j] : j \in 1..n}
    BY <1>1 DEF Mapped, Range
  <2>2. Lacking(e, m) \subseteq Mapped(e)
    BY DEF Lacking, Still, Tiles
  <2> QED BY <2>1, <2>2 DEF Served
<1>7. PICK u \in opened[n] :
        f = recalc([e EXCEPT !.root[m][current(e, m)] = u], m, current(e, m))
  BY <1>2
<1>8. u \in T(n)
  BY <1>1, <1>5, <1>7
<1>9. Pruned(e, m).leaves \cup Lacking(e, m) = Pruned(e, m).leaves \cup Still(e, m)
  BY DEF Lacking
<1> QED BY <1>6, <1>7, <1>8, <1>9

(***************************************************************************)
(* A step that lays out output m: it is settled, the others stay as neat.  *)
(***************************************************************************)
LaysOut(e, f, m) ==
    /\ f \in Good
    /\ Relaid(e, f)
    /\ Settled(f, m)
    /\ \A k \in Output \ {m} : Neat(e, f, k)

LEMMA DwindleLaysOut ==
    ASSUME NEW e \in Good, NEW m \in Output, NEW f \in dwindle(e, m)
    PROVE  LaysOut(e, f, m)
<1> DEFINE t == current(e, m)
<1>1. e \in Layouts /\ t \in Tag
  BY CurrentIsTag DEF Good
<1>2. CASE Still(e, m) = {}
  <2>1. f = e
    <3>1. dwindle(e, m) = {e}
      BY <1>1, <1>2, DwindleRuns
    <3> QED BY <3>1
  <2>2. Settled(e, m)
    BY <1>2 DEF Settled, LeaflessAt, HoleAt, MisplacedAt
  <2> QED BY <2>1, <2>2 DEF LaysOut, Relaid, Neat
<1>3. CASE Still(e, m) # {}
  <2>1. PICK u \in TreeOf(Window) :
          /\ IsTree(u)
          /\ u.leaves = Pruned(e, m).leaves \cup Still(e, m)
          /\ f = recalc([e EXCEPT !.root[m][t] = u], m, t)
    BY <1>3, DwindleServes
  <2> DEFINE g == [e EXCEPT !.root[m][t] = u]
  <2> HIDE DEF t
  <2>2. /\ g \in Layouts /\ Relaid(e, g) /\ g.geom = e.geom
        /\ g.root[m][t] = u
        /\ \A k \in Output, s \in Tag :
             g.root[k][s] = IF k = m /\ s = t THEN u ELSE e.root[k][s]
        /\ \A k \in Output \ {m} : g.root[k] = e.root[k]
    BY <1>1, <2>1 DEF Layouts, Relaid
  <2> HIDE DEF g
  <2>3. /\ f \in Layouts /\ Relaid(g, f) /\ f.root = g.root
        /\ \A c \in Window :
             f.geom[c] = IF c \in u.leaves \ e.isfullscreen /\ e.mon[c] # None
                         THEN Box(m, u, c) ELSE e.geom[c]
    <3>1. f = recalc(g, m, t)
      BY <2>1 DEF g
    <3>2. g.isfullscreen = e.isfullscreen /\ g.mon = e.mon
      BY <2>2 DEF Relaid
    <3> QED BY <3>1, <3>2, <1>1, <2>2, RecalcPlaces
  <2>4. Relaid(e, f)
    BY <2>2, <2>3, RelaidTwice
  <2>5. current(f, m) = t /\ Tree(f, m) = u
    <3>1. current(f, m) = t
      BY <2>4, RelaidViews DEF t
    <3> QED BY <3>1, <2>2, <2>3 DEF Tree
  <2>6. u.leaves \subseteq Staying(e, m) \cup Still(e, m)
    BY <2>1 DEF Pruned, Kept
  <2>7. u.leaves \subseteq Mapped(e)
    BY <2>6 DEF Staying, Still, Tiles
  <2>8. f \in Good
    <3>1. Mapped(f) = Mapped(e) /\ f.clients = e.clients
      BY <2>4, RelaidViews DEF Relaid
    <3>2. ASSUME NEW k \in Output, NEW s \in Tag
          PROVE  IsTree(f.root[k][s]) /\ f.root[k][s].leaves \subseteq Mapped(f)
      <4>1. IsTree(e.root[k][s]) /\ e.root[k][s].leaves \subseteq Mapped(e)
        BY DEF Good, Sound
      <4>2. f.root[k][s] = u \/ f.root[k][s] = e.root[k][s]
        BY <2>2, <2>3
      <4> QED BY <4>1, <4>2, <2>1, <2>7, <3>1
    <3> QED BY <2>3, <3>1, <3>2 DEF Good, Sound
  <2>9. Settled(f, m)
    <3>1. /\ Still(f, m) = Still(e, m) /\ f.grabc = e.grabc /\ f.isfloating = e.isfloating
          /\ \A c : VISIBLEON(f, c, m) <=> VISIBLEON(e, c, m)
      BY <2>4, RelaidViews DEF Relaid
    <3>2. ASSUME NEW c \in Window PROVE ~LeaflessAt(f, m, c)
      BY <3>1, <2>1, <2>5 DEF LeaflessAt
    <3>3. ASSUME NEW c \in Window PROVE ~HoleAt(f, m, c)
      BY <3>1, <2>5, <2>6 DEF HoleAt, Staying, Still, Tiles
    <3>4. ASSUME NEW c \in Window PROVE ~MisplacedAt(f, m, c)
      <4>1. c \in Still(e, m) => c \notin e.isfullscreen /\ e.mon[c] = m
        BY DEF Still, Tiles, VISIBLEON
      <4> QED BY <4>1, <3>1, <2>3, <2>5, NoneAssumption DEF MisplacedAt
    <3> QED BY <3>2, <3>3, <3>4 DEF Settled
  <2>10. ASSUME NEW k \in Output \ {m} PROVE Neat(e, f, k)
    <3>1. Laid(f, k) => Laid(e, k)
      BY <2>4, RelaidViews
    <3>2. f.viewed[k] = e.viewed[k] /\ f.root[k] = e.root[k] /\ f.grabc = e.grabc
      BY <2>2, <2>3, <2>4 DEF Relaid
    <3>3. ASSUME NEW c \in Window, e.mon[c] = k \/ f.mon[c] = k PROVE Same(e, f, c)
      <4>1. e.mon[c] = k /\ Mapped(f) = Mapped(e)
        BY <2>4, <3>3, RelaidViews DEF Relaid
      <4>2. c \in u.leaves => c = e.grabc
        BY <4>1, <2>6 DEF Staying, Still, Tiles, VISIBLEON
      <4>3. f.geom[c] = e.geom[c] \/ c = e.grabc
        BY <4>2, <2>3
      <4> QED BY <4>1, <4>3, <2>4 DEF Same, Relaid
    <3> QED BY <1>1, <2>3, <3>1, <3>2, <3>3, ApartNeat
  <2> QED BY <2>4, <2>8, <2>9, <2>10 DEF LaysOut
<1> QED BY <1>2, <1>3

(***************************************************************************)
(* arrange, which ends with motionnotify, and arranges nothing on an       *)
(* output that is off.                                                     *)
(***************************************************************************)
LEMMA FollowedIs ==
    ASSUME NEW e \in Good, NEW f \in Followed(e)
    PROVE  /\ f \in Good /\ Relaid(e, f) /\ f.root = e.root
           /\ \A c \in Window : f.geom[c] = e.geom[c] \/ c = e.grabc
<1>1. CASE e.grabc = None
  BY <1>1 DEF Followed, Relaid
<1>2. CASE e.grabc # None
  <2>1. PICK b \in tiled_clients(e) \cup {None} :
          f = [e EXCEPT !.target = b,
                        !.geom[e.grabc] = IF e.mon[e.grabc] = None THEN @ ELSE Elsewhere]
    BY <1>2 DEF Followed
  <2>2. e \in Layouts /\ e.grabc \in Window
    BY <1>2 DEF Good, Layouts
  <2>3. b \in Window \cup {None}
    BY <2>1, <2>2, MappedWindows DEF tiled_clients, Tiles
  <2> DEFINE G == [e.geom EXCEPT ![e.grabc] = IF e.mon[e.grabc] = None THEN @ ELSE Elsewhere]
  <2>4. G \in [Window -> Boxes] /\ \A c \in Window : G[c] = e.geom[c] \/ c = e.grabc
    BY <2>2 DEF Layouts, Boxes
  <2>5. f = [e EXCEPT !.target = b, !.geom = G]
    BY <2>1, <2>2 DEF Layouts
  <2> HIDE DEF G
  <2>6. f \in Layouts /\ Relaid(e, f) /\ f.root = e.root /\ f.geom = G
    BY <2>2, <2>3, <2>4, <2>5 DEF Layouts, Relaid
  <2>7. f \in Good
    BY <2>6, RelaidSound
  <2> QED BY <2>4, <2>6, <2>7
<1> QED BY <1>1, <1>2

LEMMA FollowedNeat ==
    ASSUME NEW e \in Good, NEW f \in Followed(e), NEW m \in Output
    PROVE  Neat(e, f, m)
<1>1. /\ f \in Good /\ Relaid(e, f) /\ f.root = e.root
      /\ \A c \in Window : f.geom[c] = e.geom[c] \/ c = e.grabc
  BY FollowedIs
<1>2. /\ Laid(f, m) => Laid(e, m)
      /\ f.viewed[m] = e.viewed[m] /\ f.root[m] = e.root[m] /\ f.grabc = e.grabc
      /\ \A c \in Window : Same(e, f, c)
  BY <1>1, RelaidViews DEF Relaid, Same
<1> QED BY <1>1, <1>2, ApartNeat DEF Good

LEMMA ArrangeLaysOut ==
    ASSUME NEW e \in Good, NEW m \in Output, NEW f \in arrange(e, m)
    PROVE  LaysOut(e, f, m)
<1>1. CASE m \notin e.on
  BY <1>1, UnlaidSettled DEF arrange, LaysOut, Relaid, Neat, Laid
<1>2. CASE m \in e.on
  <2>1. PICK g \in IF m \in e.tiling THEN dwindle(e, m) ELSE {e} : f \in Followed(g)
    BY <1>2 DEF arrange
  <2>2. LaysOut(e, g, m)
    <3>1. CASE m \in e.tiling
      BY <2>1, <3>1, DwindleLaysOut
    <3>2. CASE m \notin e.tiling
      BY <2>1, <3>2, UnlaidSettled DEF LaysOut, Relaid, Neat, Laid
    <3> QED BY <3>1, <3>2
  <2>3. g \in Good
    BY <2>2 DEF LaysOut
  <2>4. f \in Good /\ Relaid(g, f) /\ \A k \in Output : Neat(g, f, k)
    BY <2>1, <2>3, FollowedIs, FollowedNeat
  <2>5. Relaid(e, f)
    BY <2>2, <2>4, RelaidTwice DEF LaysOut
  <2>6. Settled(f, m)
    BY <2>2, <2>4, SettledStays DEF LaysOut
  <2>7. \A k \in Output \ {m} : Neat(e, f, k)
    BY <2>2, <2>4, NeatTwice DEF LaysOut
  <2> QED BY <2>4, <2>5, <2>6, <2>7 DEF LaysOut
<1> QED BY <1>1, <1>2

-----------------------------------------------------------------------------
(***************************************************************************)
(* What the functions on one window do: the result is sound, and nothing   *)
(* is wrong on any output that was not wrong before.                       *)
(***************************************************************************)
Steady(e, f) ==
    /\ f \in Good
    /\ f.clients = e.clients /\ f.on = e.on /\ f.asleep = e.asleep
    /\ f.tiling = e.tiling /\ f.viewed = e.viewed /\ f.grabc = e.grabc
    /\ \A k \in Output : Neat(e, f, k)

LEMMA SteadySame ==
    ASSUME NEW e \in Good
    PROVE  Steady(e, e)
BY DEF Steady, Neat

LEMMA SteadyTwice ==
    ASSUME NEW e, NEW f, NEW g, Steady(e, f), Steady(f, g)
    PROVE  Steady(e, g)
BY NeatTwice DEF Steady

\* f, which differs from e on output m only, is laid out there.
LEMMA LaidOutSteady ==
    ASSUME NEW e \in Good, NEW f \in Good, NEW g, NEW m \in Output,
           f.clients = e.clients, f.on = e.on, f.asleep = e.asleep,
           f.tiling = e.tiling, f.viewed = e.viewed, f.grabc = e.grabc,
           \A k \in Output \ {m} : Neat(e, f, k),
           LaysOut(f, g, m)
    PROVE  Steady(e, g)
<1>1. ASSUME NEW k \in Output PROVE Neat(e, g, k)
  <2>1. CASE k = m
    BY <2>1, SettledNeat DEF LaysOut
  <2>2. CASE k # m
    BY <2>2, NeatTwice DEF LaysOut
  <2> QED BY <2>1, <2>2
<1> QED BY <1>1 DEF Steady, LaysOut, Relaid

LEMMA ArrangeSteady ==
    ASSUME NEW e \in Good, NEW m \in Output, NEW f \in arrange(e, m)
    PROVE  Steady(e, f)
<1>1. LaysOut(e, f, m)
  BY ArrangeLaysOut
<1> QED BY <1>1, SettledNeat DEF LaysOut, Relaid, Steady

(***************************************************************************)
(* A window changes: what f may differ from e in, if the windows of output *)
(* k other than c are as they were.                                        *)
(***************************************************************************)
LEMMA OneChangedNeat ==
    ASSUME NEW e \in Layouts, NEW f \in Layouts, NEW c \in Window, NEW k \in Output,
           f.clients = e.clients, f.on = e.on, f.tiling = e.tiling,
           f.viewed = e.viewed, f.grabc = e.grabc, f.root = e.root,
           e.mon[c] # k, f.mon[c] # k,
           \A x \in Window \ {c} : Same(e, f, x)
    PROVE  Neat(e, f, k)
<1>1. \A x \in Window : e.mon[x] = k \/ f.mon[x] = k => Same(e, f, x)
  OBVIOUS
<1>2. Laid(f, k) => Laid(e, k)
  BY DEF Laid
<1> QED BY <1>1, <1>2, ApartNeat

LEMMA GoodIf ==
    ASSUME NEW e \in Good, NEW f \in Layouts, f.clients = e.clients, f.root = e.root
    PROVE  f \in Good
BY DEF Good, Sound, Mapped

\* setmon also gives the window its output, and leaves the others theirs.
LEMMA SetmonSteady ==
    ASSUME NEW e \in Good, NEW c \in Window, NEW m \in Output \cup {None},
           NEW T \in SUBSET Tag, NEW f \in setmon(e, c, m, T)
    PROVE  Steady(e, f) /\ f.mon = [e.mon EXCEPT ![c] = m]
<1> DEFINE old  == e.mon[c]
           away == [e EXCEPT !.mon[c] = m]
           left == IF old = None THEN {away} ELSE arrange(away, old)
           come(g) == [g EXCEPT !.tags[c] = IF T = {} THEN g.viewed[m] ELSE T,
                                !.geom[c] = Elsewhere]
<1>1. e \in Layouts /\ old \in Output \cup {None}
  BY DEF Good, Layouts
<1>2. CASE old = m
  <2>1. f = e
    BY <1>2 DEF setmon
  <2>2. e.mon = [e.mon EXCEPT ![c] = m]
    BY <1>1, <1>2 DEF Layouts
  <2> QED BY <2>1, <2>2, SteadySame
<1>3. CASE old # m
  <2>1. /\ away \in Layouts /\ away.mon = [e.mon EXCEPT ![c] = m]
        /\ away.clients = e.clients /\ away.root = e.root /\ away.on = e.on
        /\ away.asleep = e.asleep /\ away.tiling = e.tiling /\ away.viewed = e.viewed
        /\ away.grabc = e.grabc
        /\ away.mon[c] = m /\ \A x \in Window \ {c} : Same(e, away, x)
    BY <1>1 DEF Layouts, Same, Mapped
  <2>2. f \in IF m = None THEN left ELSE Arranged({come(g) : g \in left}, m)
    BY <1>3 DEF setmon
  <2> HIDE DEF away
  <2>3. away \in Good
    BY <2>1, GoodIf
  <2>4. ASSUME NEW k \in Output \ {old, m} PROVE Neat(e, away, k)
    BY <1>1, <2>1, OneChangedNeat
  <2>5. ASSUME NEW g \in left
        PROVE  /\ g \in Good /\ g.mon = away.mon /\ g.clients = e.clients /\ g.on = e.on
               /\ g.asleep = e.asleep /\ g.tiling = e.tiling /\ g.viewed = e.viewed
               /\ g.grabc = e.grabc
               /\ \A k \in Output \ {m} : Neat(e, g, k)
    <3>1. CASE old = None
      <4>1. g = away
        BY <2>5, <3>1
      <4> QED BY <4>1, <3>1, <2>1, <2>3, <2>4, NoneAssumption
    <3>2. CASE old # None
      <4>1. old \in Output /\ LaysOut(away, g, old)
        BY <1>1, <2>3, <2>5, <3>2, ArrangeLaysOut
      <4>2. ASSUME NEW k \in Output \ {m} PROVE Neat(e, g, k)
        <5>1. CASE k = old
          BY <4>1, <5>1, SettledNeat DEF LaysOut
        <5>2. CASE k # old
          BY <4>1, <5>2, <2>4, NeatTwice DEF LaysOut
        <5> QED BY <5>1, <5>2
      <4> QED BY <4>1, <4>2, <2>1 DEF LaysOut, Relaid
    <3> QED BY <3>1, <3>2
  <2>6. CASE m = None
    <3>1. f \in left
      BY <2>2, <2>6
    <3> HIDE DEF left
    <3>2. \A k \in Output : k # m
      BY <2>6, NoneAssumption
    <3> QED BY <3>1, <3>2, <2>1, <2>5 DEF Steady
  <2>7. CASE m # None
    <3>1. m \in Output
      BY <2>7
    <3> HIDE DEF left, come
    <3>2. PICK g \in left : f \in arrange(come(g), m)
      BY <2>2, <2>7 DEF Arranged
    <3>3. /\ g \in Good /\ g.mon = away.mon /\ g.clients = e.clients /\ g.on = e.on
          /\ g.asleep = e.asleep /\ g.tiling = e.tiling /\ g.viewed = e.viewed
          /\ g.grabc = e.grabc
          /\ \A k \in Output \ {m} : Neat(e, g, k)
      BY <2>5
    <3> DEFINE h == come(g)
    <3>4. g.viewed[m] \in SUBSET Tag /\ g \in Layouts
      BY <3>1, <3>3 DEF Good, Layouts, Views
    <3>5. /\ h \in Layouts /\ h.mon = g.mon /\ h.clients = g.clients /\ h.on = g.on
          /\ h.asleep = g.asleep /\ h.tiling = g.tiling /\ h.viewed = g.viewed
          /\ h.grabc = g.grabc /\ h.root = g.root
          /\ \A x \in Window \ {c} : Same(g, h, x)
      <4> DEFINE A == [g.tags EXCEPT ![c] = IF T = {} THEN g.viewed[m] ELSE T]
                 B == [g.geom EXCEPT ![c] = Elsewhere]
      <4>1. A \in [Window -> SUBSET Tag] /\ \A x \in Window \ {c} : A[x] = g.tags[x]
        BY <3>4 DEF Layouts
      <4>2. B \in [Window -> Boxes] /\ \A x \in Window \ {c} : B[x] = g.geom[x]
        BY <3>4 DEF Layouts, Boxes
      <4>3. h = [g EXCEPT !.tags = A, !.geom = B]
        BY <3>4 DEF Layouts, come
      <4> HIDE DEF A, B, h
      <4> QED BY <3>4, <4>1, <4>2, <4>3 DEF Layouts, Same, Mapped
    <3> HIDE DEF h
    <3>6. h \in Good
      BY <3>3, <3>5, GoodIf
    <3>7. ASSUME NEW k \in Output \ {m} PROVE Neat(e, h, k)
      <4>1. Neat(g, h, k)
        <5>1. g.mon[c] # k /\ h.mon[c] # k
          BY <2>1, <3>3, <3>5
        <5> QED BY <3>4, <3>5, <5>1, OneChangedNeat
      <4> QED BY <4>1, <3>3, NeatTwice
    <3>8. LaysOut(h, f, m)
      BY <3>1, <3>2, <3>6, ArrangeLaysOut DEF h
    <3>9. f.mon = h.mon
      BY <3>8 DEF LaysOut, Relaid
    <3>10. Steady(e, f)
      BY <3>1, <3>3, <3>5, <3>6, <3>7, <3>8, LaidOutSteady
    <3> QED BY <2>1, <3>3, <3>5, <3>9, <3>10
  <2> QED BY <2>6, <2>7
<1> QED BY <1>2, <1>3

\* A window changes and its output, if it has one that shows it, is arranged.
LEMMA ChangedSteady ==
    ASSUME NEW e \in Good, NEW g \in Layouts, NEW c \in Window, NEW f,
           g.clients = e.clients, g.on = e.on, g.asleep = e.asleep, g.tiling = e.tiling,
           g.viewed = e.viewed, g.grabc = e.grabc, g.root = e.root, g.mon = e.mon,
           \A x \in Window \ {c} : Same(e, g, x),
           \/ e.mon[c] \notin e.tiling /\ f = g
           \/ e.mon[c] \in Output /\ f \in arrange(g, e.mon[c])
    PROVE  Steady(e, f) /\ f.mon = e.mon
<1>1. g \in Good /\ e \in Layouts
  BY GoodIf DEF Good
<1>2. ASSUME NEW k \in Output, e.mon[c] # k PROVE Neat(e, g, k)
  BY <1>1, <1>2, OneChangedNeat
<1>3. CASE e.mon[c] \notin e.tiling /\ f = g
  <2>1. ASSUME NEW k \in Output, e.mon[c] = k PROVE Neat(e, g, k)
    BY <1>3, <2>1, UnlaidSettled, SettledNeat DEF Laid
  <2> QED BY <1>1, <1>2, <1>3, <2>1 DEF Steady
<1>4. CASE e.mon[c] \in Output /\ f \in arrange(g, e.mon[c])
  <2>1. LaysOut(g, f, e.mon[c])
    BY <1>1, <1>4, ArrangeLaysOut
  <2> QED BY <1>1, <1>2, <1>4, <2>1, LaidOutSteady DEF LaysOut, Relaid
<1> QED BY <1>3, <1>4

LEMMA SetfloatingSteady ==
    ASSUME NEW e \in Good, NEW c \in Window, NEW floating \in BOOLEAN,
           NEW f \in setfloating(e, c, floating)
    PROVE  Steady(e, f) /\ f.mon = e.mon
<1> DEFINE A == IF floating THEN e.isfloating \cup {c} ELSE e.isfloating \ {c}
           g == [e EXCEPT !.isfloating = A]
<1>1. e \in Layouts /\ A \in SUBSET Window /\ \A x \in Window \ {c} : x \in A <=> x \in e.isfloating
  BY DEF Good, Layouts
<1>2. f \in IF e.mon[c] \notin e.tiling THEN {g} ELSE arrange(g, e.mon[c])
  BY DEF setfloating
<1> HIDE DEF A
<1>3. /\ g \in Layouts /\ g.clients = e.clients /\ g.on = e.on /\ g.asleep = e.asleep
      /\ g.tiling = e.tiling /\ g.viewed = e.viewed /\ g.grabc = e.grabc
      /\ g.root = e.root /\ g.mon = e.mon /\ \A x \in Window \ {c} : Same(e, g, x)
  BY <1>1 DEF Layouts, Same, Mapped
<1>4. e.tiling \subseteq Output
  BY <1>1 DEF Layouts
<1> HIDE DEF g
<1>5. \/ e.mon[c] \notin e.tiling /\ f = g
      \/ e.mon[c] \in Output /\ f \in arrange(g, e.mon[c])
  BY <1>2, <1>4
<1> QED BY <1>3, <1>5, ChangedSteady

LEMMA SetfullscreenSteady ==
    ASSUME NEW e \in Good, NEW c \in Window, NEW fullscreen \in BOOLEAN,
           NEW f \in setfullscreen(e, c, fullscreen)
    PROVE  Steady(e, f) /\ f.mon = e.mon
<1> DEFINE A == IF fullscreen THEN e.isfullscreen \cup {c} ELSE e.isfullscreen \ {c}
           B == [e.geom EXCEPT ![c] = IF fullscreen \/ c \in e.isfullscreen THEN Elsewhere ELSE @]
           g == [e EXCEPT !.isfullscreen = A, !.geom = B]
           h == [e EXCEPT !.isfullscreen = A]
<1>1. /\ e \in Layouts /\ A \in SUBSET Window
      /\ \A x \in Window \ {c} : x \in A <=> x \in e.isfullscreen
  BY DEF Good, Layouts
<1>2. B \in [Window -> Boxes] /\ \A x \in Window \ {c} : B[x] = e.geom[x]
  BY <1>1 DEF Layouts, Boxes
<1>3. f \in IF e.mon[c] = None THEN {h} ELSE arrange(g, e.mon[c])
  <2>1. [e EXCEPT !.isfullscreen = IF fullscreen THEN @ \cup {c} ELSE @ \ {c},
                  !.geom[c] = IF fullscreen \/ c \in e.isfullscreen THEN Elsewhere ELSE @] = g
    BY <1>1 DEF Layouts
  <2>2. [g EXCEPT !.geom = e.geom] = h
    BY <1>1 DEF Layouts
  <2> HIDE DEF A, B, h, g
  <2> QED BY <2>1, <2>2 DEF setfullscreen
<1> HIDE DEF A, B
<1>4. /\ g \in Layouts /\ g.clients = e.clients /\ g.on = e.on /\ g.asleep = e.asleep
      /\ g.tiling = e.tiling /\ g.viewed = e.viewed /\ g.grabc = e.grabc
      /\ g.root = e.root /\ g.mon = e.mon /\ \A x \in Window \ {c} : Same(e, g, x)
  BY <1>1, <1>2 DEF Layouts, Same, Mapped
<1>5. /\ h \in Layouts /\ h.clients = e.clients /\ h.on = e.on /\ h.asleep = e.asleep
      /\ h.tiling = e.tiling /\ h.viewed = e.viewed /\ h.grabc = e.grabc
      /\ h.root = e.root /\ h.mon = e.mon /\ \A x \in Window \ {c} : Same(e, h, x)
  BY <1>1 DEF Layouts, Same, Mapped
<1>6. e.tiling \subseteq Output /\ e.mon[c] \in Output \cup {None}
  BY <1>1 DEF Layouts
<1> HIDE DEF g, h
<1>7. CASE e.mon[c] = None
  <2>1. f = h /\ e.mon[c] \notin e.tiling
    BY <1>3, <1>6, <1>7, NoneAssumption
  <2> QED BY <1>5, <2>1, ChangedSteady
<1>8. CASE e.mon[c] # None
  <2>1. e.mon[c] \in Output /\ f \in arrange(g, e.mon[c])
    BY <1>3, <1>6, <1>8
  <2> QED BY <1>4, <2>1, ChangedSteady
<1> QED BY <1>7, <1>8

-----------------------------------------------------------------------------
(***************************************************************************)
(* Loops over windows and outputs.  A loop turns a set of outcomes into    *)
(* another, round by round.                                                *)
(***************************************************************************)
Outcomes == SUBSET Good

LEMMA OutcomesLoop ==
    ASSUME NEW s \in Outcomes, NEW n \in Nat, NEW G \in [(1..n) \X Outcomes -> Outcomes]
    PROVE  \E f \in [0..n -> Outcomes] :
               f[0] = s /\ \A i \in 1..n : f[i] = G[<<i, f[i - 1]>>]
BY LoopExists

\* Only mapped windows have an output.
Placed(e) == \A c \in Window \ Mapped(e) : e.mon[c] = None

Carried(e, f) == Steady(e, f) /\ (Placed(e) => Placed(f))

LEMMA CarriedSame ==
    ASSUME NEW e \in Good
    PROVE  Carried(e, e)
BY SteadySame DEF Carried

LEMMA CarriedTwice ==
    ASSUME NEW e, NEW f, NEW g, Carried(e, f), Carried(f, g)
    PROVE  Carried(e, g)
BY SteadyTwice DEF Carried

LEMMA SetmonCarried ==
    ASSUME NEW e \in Good, NEW c \in Mapped(e), NEW m \in Output \cup {None},
           NEW T \in SUBSET Tag, NEW f \in setmon(e, c, m, T)
    PROVE  Carried(e, f)
<1>1. c \in Window /\ e.mon \in [Window -> Output \cup {None}]
  BY MappedWindows DEF Good, Layouts
<1>2. Steady(e, f) /\ f.mon = [e.mon EXCEPT ![c] = m]
  BY <1>1, SetmonSteady
<1>3. Mapped(f) = Mapped(e)
  BY <1>2 DEF Steady, Mapped
<1> QED BY <1>1, <1>2, <1>3 DEF Carried, Placed

\* A window of the list goes to another output, or stays where it is.
Migrate(f, c, from, to) ==
    IF f.mon[c] = from THEN setmon(f, c, to, f.tags[c]) ELSE {f}

LEMMA MigrateOutcomes ==
    ASSUME NEW f \in Good, NEW c \in Window, NEW from, NEW to \in Output \cup {None}
    PROVE  Migrate(f, c, from, to) \in Outcomes
<1>1. f.tags[c] \in SUBSET Tag
  BY DEF Good, Layouts
<1>2. \A g \in setmon(f, c, to, f.tags[c]) : g \in Good
  BY <1>1, SetmonSteady DEF Steady
<1> QED BY <1>2 DEF Migrate, Outcomes

\* moved is the loop of Migrated.
Migration(e, from, to, moved) ==
    /\ moved[0] = {e}
    /\ \A i \in 1..Len(e.clients) :
         moved[i] = UNION {Migrate(f, e.clients[i], from, to) : f \in moved[i - 1]}
    /\ Migrated(e, from, to) = moved[Len(e.clients)]

LEMMA MigratedRuns ==
    ASSUME NEW e \in Good, NEW from, NEW to \in Output \cup {None}
    PROVE  \E moved : Migration(e, from, to, moved)
<1> DEFINE n == Len(e.clients)
           moved[i \in 0..n] ==
               IF i = 0 THEN {e}
               ELSE UNION {Migrate(f, e.clients[i], from, to) : f \in moved[i - 1]}
           G == [p \in (1..n) \X Outcomes |->
                   UNION {Migrate(f, e.clients[p[1]], from, to) : f \in p[2]}]
<1>1. n \in Nat /\ \A i \in 1..n : e.clients[i] \in Window
  BY DEF Good, Layouts
<1>2. ASSUME NEW U \in Outcomes, NEW c \in Window
      PROVE  UNION {Migrate(f, c, from, to) : f \in U} \in Outcomes
  BY MigrateOutcomes DEF Outcomes
<1>3. G \in [(1..n) \X Outcomes -> Outcomes]
  <2> HIDE DEF n
  <2> QED BY <1>1, <1>2
<1>4. {e} \in Outcomes
  BY DEF Outcomes
<1>5. PICK f \in [0..n -> Outcomes] : f[0] = {e} /\ \A i \in 1..n : f[i] = G[<<i, f[i - 1]>>]
  <2> HIDE DEF G, n
  <2> QED BY <1>1, <1>3, <1>4, OutcomesLoop
<1>6. ASSUME NEW i \in 1..n
      PROVE  f[i] = UNION {Migrate(g, e.clients[i], from, to) : g \in f[i - 1]}
  <2>1. <<i, f[i - 1]>> \in (1..n) \X Outcomes
    <3> HIDE DEF G, n
    <3>1. i - 1 \in 0..n
      BY <1>1
    <3> QED BY <3>1
  <2>2. G[<<i, f[i - 1]>>] = UNION {Migrate(g, e.clients[i], from, to) : g \in f[i - 1]}
    BY <2>1
  <2> QED BY <1>5, <2>2
<1>7. f = [i \in 0..n |->
             IF i = 0 THEN {e} ELSE UNION {Migrate(g, e.clients[i], from, to) : g \in f[i - 1]}]
  <2> HIDE DEF G, n
  <2>1. DOMAIN f = 0..n /\ f[0] = {e}
    BY <1>5
  <2>2. \A i \in 0..n : i = 0 \/ i \in 1..n
    BY <1>1
  <2> QED BY <1>5, <1>6, <2>1, <2>2
<1>8. moved = [i \in 0..n |->
                 IF i = 0 THEN {e}
                 ELSE UNION {Migrate(g, e.clients[i], from, to) : g \in moved[i - 1]}]
  BY <1>7
<1>9. Migrated(e, from, to) = moved[n]
  BY DEF Migrated, Migrate, moved
<1> HIDE DEF moved
<1>10. /\ moved[0] = {e}
       /\ \A i \in 1..n :
            moved[i] = UNION {Migrate(g, e.clients[i], from, to) : g \in moved[i - 1]}
  <2>1. 0 \in 0..n /\ \A i \in 1..n : i \in 0..n /\ i # 0
    BY <1>1
  <2> HIDE DEF n
  <2> QED BY <1>8, <2>1
<1> QED BY <1>9, <1>10 DEF Migration

LEMMA MigratedCarried ==
    ASSUME NEW e \in Good, NEW from, NEW to \in Output \cup {None},
           NEW f \in Migrated(e, from, to)
    PROVE  Carried(e, f)
<1> DEFINE n == Len(e.clients)
           S == SUBSET {g \in Good : Carried(e, g)}
<1>1. n \in Nat /\ \A i \in 1..n : e.clients[i] \in Mapped(e)
  BY DEF Good, Layouts, Mapped, Range
<1>2. PICK moved : Migration(e, from, to, moved)
  BY MigratedRuns
<1>3. moved[0] \in S
  BY <1>2, CarriedSame DEF Migration
<1>4. ASSUME NEW i \in 1..n, moved[i - 1] \in S PROVE moved[i] \in S
  <2> DEFINE c == e.clients[i]
  <2>1. ASSUME NEW g \in moved[i - 1], NEW h \in Migrate(g, c, from, to)
        PROVE  h \in Good /\ Carried(e, h)
    <3>1. g \in Good /\ Carried(e, g)
      BY <1>4
    <3>2. c \in Mapped(g) /\ g.tags[c] \in SUBSET Tag
      <4>1. Mapped(g) = Mapped(e)
        BY <3>1 DEF Carried, Steady, Mapped
      <4> QED BY <1>1, <3>1, <4>1, MappedWindows DEF Good, Layouts
    <3>3. Carried(g, h)
      BY <2>1, <3>1, <3>2, SetmonCarried, CarriedSame DEF Migrate
    <3> QED BY <3>1, <3>3, CarriedTwice DEF Carried, Steady
  <2>2. moved[i] = UNION {Migrate(g, c, from, to) : g \in moved[i - 1]}
    BY <1>2 DEF Migration
  <2> HIDE DEF c
  <2> QED BY <2>1, <2>2
<1>5. moved[n] \in S
  <2> HIDE DEF S, n
  <2> QED BY <1>1, <1>3, <1>4, LoopInvariant
<1> QED BY <1>2, <1>5 DEF Migration


LEMMA MigratedOutcomes ==
    ASSUME NEW e \in Good, NEW from, NEW to \in Output \cup {None}
    PROVE  Migrated(e, from, to) \in Outcomes
BY MigratedCarried DEF Carried, Steady, Outcomes

LEMMA ClosedCarried ==
    ASSUME NEW e \in Good, NEW m, NEW f \in Closed(e, m)
    PROVE  Carried(e, f)
<1>1. PICK to \in e.on \cup e.asleep \cup IF e.on = {} THEN {None} ELSE {} :
        f \in Migrated(e, m, to)
  BY DEF Closed
<1>2. to \in Output \cup {None}
  BY DEF Good, Layouts
<1> QED BY <1>1, <1>2, MigratedCarried

LEMMA ClosedOutcomes ==
    ASSUME NEW e \in Good, NEW m
    PROVE  Closed(e, m) \in Outcomes
BY ClosedCarried DEF Carried, Steady, Outcomes

-----------------------------------------------------------------------------
(***************************************************************************)
(* The windows that mapnotify takes out of fullscreen.                     *)
(***************************************************************************)
Uncover(f, x, c, p, m) ==
    IF x \in f.isfullscreen \ {c, p} /\ f.mon[x] = m /\ f.tags[x] \cap f.tags[c] # {}
    THEN setfullscreen(f, x, FALSE) ELSE {f}

LEMMA UncoverCarried ==
    ASSUME NEW f \in Good, NEW x \in Window, NEW c, NEW p, NEW m,
           NEW g \in Uncover(f, x, c, p, m)
    PROVE  Carried(f, g)
<1>1. CASE g = f
  BY <1>1, CarriedSame
<1>2. CASE g \in setfullscreen(f, x, FALSE)
  <2>1. Steady(f, g) /\ g.mon = f.mon
    BY <1>2, SetfullscreenSteady
  <2> QED BY <2>1 DEF Carried, Placed, Steady, Mapped
<1> QED BY <1>1, <1>2 DEF Uncover

UncoverAll(U, x, c, p, m) == UNION {Uncover(f, x, c, p, m) : f \in U}

LEMMA UncoverOutcomes ==
    ASSUME NEW U \in Outcomes, NEW x \in Window, NEW c, NEW p, NEW m
    PROVE  UncoverAll(U, x, c, p, m) \in Outcomes
BY UncoverCarried DEF Carried, Steady, Outcomes, UncoverAll

Covering(e, c, under) == IF e.mon[c] = None THEN under ELSE e.mon[c]

\* done is the loop of Uncovered.
Uncovering(e, c, p, under, done) ==
    /\ done[0] = {e}
    /\ \A i \in 1..Len(e.clients) :
         done[i] = UncoverAll(done[i - 1], e.clients[i], c, p, Covering(e, c, under))
    /\ Uncovered(e, c, p, under) = done[Len(e.clients)]

LEMMA UncoveredRuns ==
    ASSUME NEW e \in Good, NEW c, NEW p, NEW under
    PROVE  \E done : Uncovering(e, c, p, under, done)
<1> DEFINE n == Len(e.clients)
           m == Covering(e, c, under)
           done[i \in 0..n] ==
               IF i = 0 THEN {e} ELSE UncoverAll(done[i - 1], e.clients[i], c, p, m)
           G == [q \in (1..n) \X Outcomes |-> UncoverAll(q[2], e.clients[q[1]], c, p, m)]
<1>1. n \in Nat /\ \A i \in 1..n : e.clients[i] \in Window
  BY DEF Good, Layouts
<1>2. G \in [(1..n) \X Outcomes -> Outcomes]
  <2> HIDE DEF n, m
  <2> QED BY <1>1, UncoverOutcomes
<1>3. {e} \in Outcomes
  BY DEF Outcomes
<1>4. PICK f \in [0..n -> Outcomes] : f[0] = {e} /\ \A i \in 1..n : f[i] = G[<<i, f[i - 1]>>]
  <2> HIDE DEF G, n
  <2> QED BY <1>1, <1>2, <1>3, OutcomesLoop
<1>5. ASSUME NEW i \in 1..n
      PROVE  f[i] = UncoverAll(f[i - 1], e.clients[i], c, p, m)
  <2>1. <<i, f[i - 1]>> \in (1..n) \X Outcomes
    <3> HIDE DEF G, n
    <3>1. i - 1 \in 0..n
      BY <1>1
    <3> QED BY <3>1
  <2>2. G[<<i, f[i - 1]>>] = UncoverAll(f[i - 1], e.clients[i], c, p, m)
    BY <2>1
  <2> QED BY <1>4, <2>2
<1>6. f = [i \in 0..n |->
             IF i = 0 THEN {e} ELSE UncoverAll(f[i - 1], e.clients[i], c, p, m)]
  <2> HIDE DEF G, n, m
  <2>1. DOMAIN f = 0..n /\ f[0] = {e}
    BY <1>4
  <2>2. \A i \in 0..n : i = 0 \/ i \in 1..n
    BY <1>1
  <2> QED BY <1>4, <1>5, <2>1, <2>2
<1>7. done = [i \in 0..n |->
                IF i = 0 THEN {e} ELSE UncoverAll(done[i - 1], e.clients[i], c, p, m)]
  BY <1>6
<1>8. Uncovered(e, c, p, under) = done[n]
  BY DEF Uncovered, Uncover, UncoverAll, Covering, done
<1> HIDE DEF done
<1>9. /\ done[0] = {e}
      /\ \A i \in 1..n : done[i] = UncoverAll(done[i - 1], e.clients[i], c, p, m)
  <2>1. 0 \in 0..n /\ \A i \in 1..n : i \in 0..n /\ i # 0
    BY <1>1
  <2> HIDE DEF n, m
  <2> QED BY <1>7, <2>1
<1> QED BY <1>8, <1>9 DEF Uncovering

LEMMA UncoveredCarried ==
    ASSUME NEW e \in Good, NEW c, NEW p, NEW under, NEW f \in Uncovered(e, c, p, under)
    PROVE  Carried(e, f)
<1> DEFINE n == Len(e.clients)
           S == SUBSET {g \in Good : Carried(e, g)}
<1>1. n \in Nat /\ \A i \in 1..n : e.clients[i] \in Window
  BY DEF Good, Layouts
<1>2. PICK done : Uncovering(e, c, p, under, done)
  BY UncoveredRuns
<1>3. done[0] \in S
  BY <1>2, CarriedSame DEF Uncovering
<1>4. ASSUME NEW i \in 1..n, done[i - 1] \in S PROVE done[i] \in S
  <2> DEFINE x == e.clients[i]
             m == Covering(e, c, under)
  <2>1. ASSUME NEW g \in done[i - 1], NEW h \in Uncover(g, x, c, p, m)
        PROVE  h \in Good /\ Carried(e, h)
    <3>1. g \in Good /\ Carried(e, g)
      BY <1>4
    <3>2. Carried(g, h)
      BY <1>1, <2>1, <3>1, UncoverCarried
    <3> QED BY <3>1, <3>2, CarriedTwice DEF Carried, Steady
  <2>2. done[i] = UNION {Uncover(g, x, c, p, m) : g \in done[i - 1]}
    BY <1>2 DEF Uncovering, UncoverAll
  <2> HIDE DEF x, m
  <2> QED BY <2>1, <2>2
<1>5. done[n] \in S
  <2> HIDE DEF S, n
  <2> QED BY <1>1, <1>3, <1>4, LoopInvariant
<1> QED BY <1>2, <1>5 DEF Uncovering


-----------------------------------------------------------------------------
(***************************************************************************)
(* updatemons leaves every output settled, as it arranges all of them.     *)
(***************************************************************************)
CloseIn(e, order, i, U) ==
    IF order[i] \in e.on \cup e.asleep THEN U ELSE UNION {Closed(f, order[i]) : f \in U}

LEMMA CloseOutcomes ==
    ASSUME NEW e, NEW order, NEW i, NEW U \in Outcomes
    PROVE  CloseIn(e, order, i, U) \in Outcomes
BY ClosedOutcomes DEF Outcomes, CloseIn

LEMMA ArrangedOutcomes ==
    ASSUME NEW U \in Outcomes, NEW m \in Output
    PROVE  Arranged(U, m) \in Outcomes
BY ArrangeSteady DEF Outcomes, Arranged, Steady

Adopting(e) == e.on \cup IF e.on = {} \/ e.asleep # {} THEN {None} ELSE {}

\* closed and done are the loops of Updated.
Updating(e, order, closed, done) ==
    LET n == Cardinality(Output)
    IN  /\ closed[0] = {e}
        /\ \A i \in 1..n : closed[i] = CloseIn(e, order, i, closed[i - 1])
        /\ done[0] = closed[n]
        /\ \A i \in 1..n : done[i] = Arranged(done[i - 1], order[i])
        /\ Updated(e, order) =
             UNION {UNION {Migrated(f, None, to) : to \in Adopting(e)} : f \in done[n]}

LEMMA UpdatedRuns ==
    ASSUME NEW e \in Good, NEW order \in Orders
    PROVE  \E closed, done : Updating(e, order, closed, done)
<1> DEFINE n == Cardinality(Output)
           closed[i \in 0..n] == IF i = 0 THEN {e} ELSE CloseIn(e, order, i, closed[i - 1])
           done[i \in 0..n] ==
               IF i = 0 THEN closed[n] ELSE Arranged(done[i - 1], order[i])
           G == [q \in (1..n) \X Outcomes |-> CloseIn(e, order, q[1], q[2])]
           H == [q \in (1..n) \X Outcomes |-> Arranged(q[2], order[q[1]])]
<1>1. n \in Nat /\ \A i \in 1..n : order[i] \in Output
  <2>1. n \in Nat
    BY OutputAssumption, FS_CardinalityType
  <2> QED BY <2>1 DEF Orders
<1> HIDE DEF n
<1>2. G \in [(1..n) \X Outcomes -> Outcomes]
  BY CloseOutcomes
<1>3. H \in [(1..n) \X Outcomes -> Outcomes]
  BY <1>1, ArrangedOutcomes
<1>4. {e} \in Outcomes
  BY DEF Outcomes
<1>5. PICK f \in [0..n -> Outcomes] : f[0] = {e} /\ \A i \in 1..n : f[i] = G[<<i, f[i - 1]>>]
  <2> HIDE DEF G
  <2> QED BY <1>1, <1>2, <1>4, OutcomesLoop
<1>6. ASSUME NEW i \in 1..n PROVE f[i] = CloseIn(e, order, i, f[i - 1])
  <2>1. <<i, f[i - 1]>> \in (1..n) \X Outcomes
    <3> HIDE DEF G, n
    <3>1. i - 1 \in 0..n
      BY <1>1
    <3> QED BY <3>1
  <2>2. G[<<i, f[i - 1]>>] = CloseIn(e, order, i, f[i - 1])
    BY <2>1
  <2> QED BY <1>5, <2>2
<1>7. f = [i \in 0..n |-> IF i = 0 THEN {e} ELSE CloseIn(e, order, i, f[i - 1])]
  <2> HIDE DEF G
  <2>1. DOMAIN f = 0..n /\ f[0] = {e}
    BY <1>5
  <2>2. \A i \in 0..n : i = 0 \/ i \in 1..n
    BY <1>1
  <2> QED BY <1>5, <1>6, <2>1, <2>2
<1>8. closed = [i \in 0..n |-> IF i = 0 THEN {e} ELSE CloseIn(e, order, i, closed[i - 1])]
  BY <1>7
<1>9. /\ closed[0] = {e}
      /\ \A i \in 1..n : closed[i] = CloseIn(e, order, i, closed[i - 1])
  <2>1. 0 \in 0..n /\ \A i \in 1..n : i \in 0..n /\ i # 0
    BY <1>1
  <2> HIDE DEF closed
  <2> QED BY <1>8, <2>1
<1>10. closed[n] \in Outcomes
  <2> HIDE DEF closed
  <2>1. ASSUME NEW i \in 1..n, closed[i - 1] \in Outcomes PROVE closed[i] \in Outcomes
    BY <1>9, <2>1, CloseOutcomes
  <2>2. closed[0] \in Outcomes
    BY <1>4, <1>9
  <2> QED BY <1>1, <2>1, <2>2, LoopInvariant
<1>11. PICK g \in [0..n -> Outcomes] :
         g[0] = closed[n] /\ \A i \in 1..n : g[i] = H[<<i, g[i - 1]>>]
  <2> HIDE DEF H, closed
  <2> QED BY <1>1, <1>3, <1>10, OutcomesLoop
<1>12. ASSUME NEW i \in 1..n PROVE g[i] = Arranged(g[i - 1], order[i])
  <2> HIDE DEF closed
  <2>1. <<i, g[i - 1]>> \in (1..n) \X Outcomes
    BY <1>1
  <2>2. H[<<i, g[i - 1]>>] = Arranged(g[i - 1], order[i])
    BY <2>1
  <2> QED BY <1>11, <2>2
<1>13. g = [i \in 0..n |-> IF i = 0 THEN closed[n] ELSE Arranged(g[i - 1], order[i])]
  <2> HIDE DEF H, closed
  <2>1. DOMAIN g = 0..n /\ g[0] = closed[n]
    BY <1>11
  <2>2. \A i \in 0..n : i = 0 \/ i \in 1..n
    BY <1>1
  <2> QED BY <1>11, <1>12, <2>1, <2>2
<1>14. done = [i \in 0..n |-> IF i = 0 THEN closed[n] ELSE Arranged(done[i - 1], order[i])]
  <2> HIDE DEF closed
  <2> QED BY <1>13
<1>15. /\ done[0] = closed[n]
       /\ \A i \in 1..n : done[i] = Arranged(done[i - 1], order[i])
  <2>1. 0 \in 0..n /\ \A i \in 1..n : i \in 0..n /\ i # 0
    BY <1>1
  <2> HIDE DEF closed, done
  <2> QED BY <1>14, <2>1
<1>16. Updated(e, order) =
         UNION {UNION {Migrated(g_1, None, to) : to \in Adopting(e)} : g_1 \in done[n]}
  BY DEF Updated, CloseIn, Adopting, n
<1> HIDE DEF closed, done
<1> QED BY <1>9, <1>15, <1>16 DEF Updating, n

LEMMA UpdatedSettles ==
    ASSUME NEW e \in Good, NEW f \in updatemons(e)
    PROVE  Carried(e, f) /\ \A k \in Output : Settled(f, k)
<1> DEFINE n == Cardinality(Output)
<1>1. PICK order \in Orders : f \in Updated(e, order)
  BY DEF updatemons
<1>2. n \in Nat /\ (\A i \in 1..n : order[i] \in Output) /\ \A k \in Output : \E i \in 1..n : order[i] = k
  <2>1. n \in Nat
    BY OutputAssumption, FS_CardinalityType
  <2> QED BY <2>1 DEF Orders, Range
<1>3. PICK closed, done : Updating(e, order, closed, done)
  BY UpdatedRuns
<1> HIDE DEF n
<1> DEFINE S == SUBSET {g \in Good : Carried(e, g)}
           R == [i \in 0..n |->
                   SUBSET {g \in Good : Carried(e, g) /\ \A j \in 1..i : Settled(g, order[j])}]
<1>4. closed[n] \in S
  <2>1. closed[0] \in S
    BY <1>3, CarriedSame DEF Updating
  <2>2. ASSUME NEW i \in 1..n, closed[i - 1] \in S PROVE closed[i] \in S
    <3>1. ASSUME NEW g \in closed[i - 1], NEW h \in Closed(g, order[i])
          PROVE  h \in Good /\ Carried(e, h)
      <4>1. g \in Good /\ Carried(e, g)
        BY <2>2
      <4> QED BY <4>1, ClosedCarried, CarriedTwice DEF Carried, Steady
    <3>2. closed[i] = CloseIn(e, order, i, closed[i - 1])
      BY <1>3 DEF Updating, n
    <3> QED BY <2>2, <3>1, <3>2 DEF CloseIn
  <2> HIDE DEF S
  <2> QED BY <1>2, <2>1, <2>2, LoopInvariant
<1>5. done[n] \in R[n]
  <2>1. done[0] \in R[0]
    BY <1>2, <1>3, <1>4 DEF Updating, n
  <2>2. ASSUME NEW i \in 1..n, done[i - 1] \in R[i - 1] PROVE done[i] \in R[i]
    <3>1. /\ R[i - 1] = SUBSET {g \in Good : Carried(e, g) /\ \A j \in 1..(i - 1) : Settled(g, order[j])}
          /\ R[i] = SUBSET {g \in Good : Carried(e, g) /\ \A j \in 1..i : Settled(g, order[j])}
      BY <1>2
    <3> HIDE DEF R
    <3>2. ASSUME NEW g \in done[i - 1], NEW h \in arrange(g, order[i])
          PROVE  h \in Good /\ Carried(e, h) /\ \A j \in 1..i : Settled(h, order[j])
      <4>1. g \in Good /\ Carried(e, g) /\ \A j \in 1..(i - 1) : Settled(g, order[j])
        BY <2>2, <3>1
      <4>2. order[i] \in Output /\ LaysOut(g, h, order[i]) /\ Steady(g, h)
        BY <1>2, <4>1, <3>2, ArrangeLaysOut, ArrangeSteady
      <4>3. Carried(g, h)
        BY <4>2 DEF Carried, Placed, Steady, Mapped, LaysOut, Relaid
      <4>4. ASSUME NEW j \in 1..i PROVE Settled(h, order[j])
        <5>1. CASE j = i
          BY <4>2, <5>1 DEF LaysOut
        <5>2. CASE j # i
          <6>1. j \in 1..(i - 1) /\ order[j] \in Output
            BY <1>2, <5>2
          <6> QED BY <4>1, <4>2, <6>1, SettledStays DEF Steady
        <5> QED BY <5>1, <5>2
      <4> QED BY <4>1, <4>2, <4>3, <4>4, CarriedTwice DEF LaysOut
    <3>3. done[i] = UNION {arrange(g, order[i]) : g \in done[i - 1]}
      BY <1>3 DEF Updating, n, Arranged
    <3> QED BY <3>1, <3>2, <3>3
  <2> HIDE DEF R
  <2> QED BY <1>2, <2>1, <2>2, LoopProgress
<1>6. PICK g \in done[n], to \in Adopting(e) : f \in Migrated(g, None, to)
  BY <1>1, <1>3 DEF Updating, n
<1>7. g \in Good /\ Carried(e, g) /\ \A k \in Output : Settled(g, k)
  <2>1. R[n] = SUBSET {g_1 \in Good : Carried(e, g_1) /\ \A j \in 1..n : Settled(g_1, order[j])}
    BY <1>2
  <2> HIDE DEF R
  <2> QED BY <1>2, <1>5, <1>6, <2>1
<1>8. to \in Output \cup {None}
  BY DEF Adopting, Good, Layouts
<1>9. Carried(g, f)
  BY <1>6, <1>7, <1>8, MigratedCarried
<1> QED BY <1>7, <1>9, CarriedTwice, SettledStays DEF Carried, Steady


-----------------------------------------------------------------------------
(***************************************************************************)
(* The steps.  Every one ends in Becomes, which keeps the boxes of the     *)
(* tiles that are shown, and so all that can be misplaced.                 *)
(***************************************************************************)
Shaded(e) == [e EXCEPT !.geom = [c \in Window |-> IF Shown(e, c) THEN @[c] ELSE Elsewhere]]

LEMMA ShadedNeat ==
    ASSUME NEW e \in Good
    PROVE  /\ Shaded(e) \in Good /\ Relaid(e, Shaded(e))
           /\ \A k \in Output : Neat(e, Shaded(e), k)
<1> DEFINE G == [c \in Window |-> IF Shown(e, c) THEN e.geom[c] ELSE Elsewhere]
           f == [e EXCEPT !.geom = G]
<1>1. e \in Layouts
  BY DEF Good
<1>2. Shaded(e) = f
  BY DEF Shaded
<1>3. G \in [Window -> Boxes] /\ \A c \in Window : Shown(e, c) => G[c] = e.geom[c]
  BY <1>1 DEF Layouts, Boxes
<1> HIDE DEF G
<1>4. f \in Layouts /\ Relaid(e, f) /\ f.root = e.root /\ f.geom = G
  BY <1>1, <1>3 DEF Layouts, Relaid
<1> HIDE DEF f
<1>5. f \in Good
  BY <1>4, RelaidSound
<1>6. ASSUME NEW k \in Output PROVE Neat(e, f, k)
  <2>1. /\ current(f, k) = current(e, k) /\ Still(f, k) = Still(e, k)
        /\ Laid(f, k) <=> Laid(e, k)
        /\ \A c : VISIBLEON(f, c, k) <=> VISIBLEON(e, c, k)
        /\ Tree(f, k) = Tree(e, k)
    BY <1>4, RelaidViews DEF Tree
  <2>2. \A c \in Still(e, k) : Laid(e, k) => f.geom[c] = e.geom[c]
    BY <1>1, <1>3, <1>4, MappedWindows DEF Shown, Still, Laid, Tiles
  <2> QED BY <1>4, <2>1, <2>2 DEF Neat, LeaflessAt, HoleAt, MisplacedAt, Relaid
<1> QED BY <1>2, <1>4, <1>5, <1>6

LEMMA BecomesOne ==
    ASSUME NEW E, Becomes(E)
    PROVE  \E e \in E : d' = Shaded(e)
BY DEF Becomes, Shaded

LEMMA BecomesAny ==
    ASSUME NEW E, Becomes(E)
    PROVE  \E e \in E : Becomes({e})
BY DEF Becomes

\* What is wrong with a window is wrong with it on some output.
LEMMA FlawsAreAt ==
    ASSUME NEW e \in Good, NEW c \in Window
    PROVE  /\ Leafless(e, c) <=> \E m \in Output : LeaflessAt(e, m, c)
           /\ Hole(e, c) <=> \E m \in Output : HoleAt(e, m, c)
           /\ Misplaced(e, c) <=> \E m \in Output : MisplacedAt(e, m, c)
<1>1. e.on \subseteq Output
  BY DEF Good, Layouts
<1>2. Leafless(e, c) <=> \E m \in Output : LeaflessAt(e, m, c)
  BY <1>1 DEF Leafless, LeaflessAt, Laid, Still
<1>3. Hole(e, c) <=> \E m \in Output : HoleAt(e, m, c)
  BY <1>1 DEF Hole, HoleAt, Laid, Still
<1>4. Misplaced(e, c) <=> \E m \in Output : MisplacedAt(e, m, c)
  BY <1>1 DEF Misplaced, MisplacedAt, Laid, Still
<1> QED BY <1>2, <1>3, <1>4

(***************************************************************************)
(* The inductive invariant: the state is sound, and a window that is not   *)
(* mapped has no output, so that it cannot disturb one when it is mapped.  *)
(***************************************************************************)
IInv == d \in Good /\ Placed(d)

\* What LeavesAreTiles and TilesAreInPlace say of a window.
InPlace(c) ==
    /\ Leafless(d', c) => Leafless(d, c) \/ (Dropped /\ c = d.grabc)
    /\ Hole(d', c) => Hole(d, c) \/ Dropped
    /\ Misplaced(d', c) =>
         \/ Misplaced(d, c) \/ HoleBeside(c) \/ Astray(c)
         \/ Dropped /\ (c = d.grabc \/ SharedElsewhere(d.grabc, c))

Step == IInv' /\ \A c \in Window : InPlace(c)

\* A step after which nothing is wrong that was not.
LEMMA NeatStep ==
    ASSUME IInv, NEW E, Becomes(E),
           \A e \in E : e \in Good /\ Placed(e) /\ \A k \in Output : Neat(d, e, k)
    PROVE  Step
<1>1. PICK e \in E : d' = Shaded(e)
  BY BecomesOne
<1>2. e \in Good /\ Placed(e) /\ \A k \in Output : Neat(d, e, k)
  OBVIOUS
<1>3. d' \in Good /\ Relaid(e, d') /\ \A k \in Output : Neat(d, d', k)
  BY <1>1, <1>2, ShadedNeat, NeatTwice
<1>4. Placed(d')
  BY <1>2, <1>3, RelaidViews DEF Placed, Relaid
<1>5. \A c \in Window, k \in Output :
        /\ LeaflessAt(d', k, c) => LeaflessAt(d, k, c)
        /\ HoleAt(d', k, c) => HoleAt(d, k, c)
        /\ MisplacedAt(d', k, c) => MisplacedAt(d, k, c)
  BY <1>3 DEF Neat
<1> QED BY <1>3, <1>4, <1>5, FlawsAreAt DEF Step, IInv, InPlace

LEMMA CarriedStep ==
    ASSUME IInv, NEW E, Becomes(E), \A e \in E : Carried(d, e)
    PROVE  Step
BY NeatStep DEF Carried, Steady, IInv

\* A step that changes f to e on one output, which is then laid out.
LEMMA LaidOutStep ==
    ASSUME IInv, NEW m \in Output, NEW f \in Good, Placed(f),
           \A k \in Output \ {m} : Neat(d, f, k),
           Becomes(arrange(f, m))
    PROVE  Step
<1>1. ASSUME NEW e \in arrange(f, m)
      PROVE  e \in Good /\ Placed(e) /\ \A k \in Output : Neat(d, e, k)
  <2>1. LaysOut(f, e, m)
    BY ArrangeLaysOut
  <2>2. Placed(e)
    BY <2>1, RelaidViews DEF LaysOut, Placed, Relaid
  <2>3. ASSUME NEW k \in Output PROVE Neat(d, e, k)
    <3>1. CASE k = m
      BY <2>1, <3>1, SettledNeat DEF LaysOut
    <3>2. CASE k # m
      BY <2>1, <3>2, NeatTwice DEF LaysOut
    <3> QED BY <3>1, <3>2
  <2> QED BY <2>1, <2>2, <2>3 DEF LaysOut
<1> QED BY <1>1, NeatStep


LEMMA ViewStep ==
    ASSUME IInv, NEW m \in Output, view(m)
    PROVE  Step
<1>1. PICK T \in Views \ {d.viewed[m]} : Becomes(arrange([d EXCEPT !.viewed[m] = T], m))
  BY DEF view
<1> DEFINE f == [d EXCEPT !.viewed[m] = T]
           V == [d.viewed EXCEPT ![m] = T]
<1>2. d \in Layouts /\ f = [d EXCEPT !.viewed = V]
  BY DEF IInv, Good, Layouts
<1>3. V \in [Output -> Views] /\ \A k \in Output \ {m} : V[k] = d.viewed[k]
  BY <1>2 DEF Layouts
<1> HIDE DEF V
<1>4. /\ f \in Layouts /\ f.clients = d.clients /\ f.root = d.root /\ f.mon = d.mon
      /\ f.viewed = V /\ f.grabc = d.grabc /\ f.on = d.on /\ f.tiling = d.tiling
      /\ \A x \in Window : Same(d, f, x)
  BY <1>2, <1>3 DEF Layouts, Same, Mapped
<1> HIDE DEF f
<1>5. f \in Good /\ Placed(f)
  BY <1>4, GoodIf DEF IInv, Placed, Mapped
<1>6. \A k \in Output \ {m} : Neat(d, f, k)
  BY <1>2, <1>3, <1>4, ApartNeat DEF Laid
<1> QED BY <1>1, <1>5, <1>6, LaidOutStep DEF f

LEMMA SetlayoutStep ==
    ASSUME IInv, NEW m \in Output, setlayout(m)
    PROVE  Step
<1> DEFINE T == IF m \in d.tiling THEN d.tiling \ {m} ELSE d.tiling \cup {m}
           f == [d EXCEPT !.tiling = T]
<1>1. d \in Layouts /\ Becomes(arrange(f, m))
  BY DEF IInv, Good, setlayout
<1>2. T \in SUBSET Output /\ \A k \in Output \ {m} : k \in T <=> k \in d.tiling
  BY <1>1 DEF Layouts
<1> HIDE DEF T
<1>3. /\ f \in Layouts /\ f.clients = d.clients /\ f.root = d.root /\ f.mon = d.mon
      /\ f.viewed = d.viewed /\ f.grabc = d.grabc /\ f.on = d.on /\ f.tiling = T
      /\ \A x \in Window : Same(d, f, x)
  BY <1>1, <1>2 DEF Layouts, Same, Mapped
<1> HIDE DEF f
<1>4. f \in Good /\ Placed(f)
  BY <1>3, GoodIf DEF IInv, Placed, Mapped
<1>5. \A k \in Output \ {m} : Neat(d, f, k)
  BY <1>1, <1>2, <1>3, ApartNeat DEF Laid
<1> QED BY <1>1, <1>4, <1>5, LaidOutStep

LEMMA ToggleFloatingStep ==
    ASSUME IInv, NEW c \in Window, ToggleFloating(c)
    PROVE  Step
<1>1. Becomes(setfloating(d, c, c \notin d.isfloating))
  BY DEF ToggleFloating
<1>2. \A e \in setfloating(d, c, c \notin d.isfloating) : Steady(d, e) /\ e.mon = d.mon
  BY SetfloatingSteady DEF IInv
<1>3. \A e \in setfloating(d, c, c \notin d.isfloating) : Carried(d, e)
  BY <1>2 DEF Carried, Steady, Placed, Mapped
<1> QED BY <1>1, <1>3, CarriedStep

LEMMA ToggleFullscreenStep ==
    ASSUME IInv, NEW c \in Window, ToggleFullscreen(c)
    PROVE  Step
<1>1. Becomes(setfullscreen(d, c, c \notin d.isfullscreen))
  BY DEF ToggleFullscreen
<1>2. \A e \in setfullscreen(d, c, c \notin d.isfullscreen) : Steady(d, e) /\ e.mon = d.mon
  BY SetfullscreenSteady DEF IInv
<1>3. \A e \in setfullscreen(d, c, c \notin d.isfullscreen) : Carried(d, e)
  BY <1>2 DEF Carried, Steady, Placed, Mapped
<1> QED BY <1>1, <1>3, CarriedStep

LEMMA SetMonStep ==
    ASSUME IInv, NEW c \in Window, SetMon(c)
    PROVE  Step
<1>1. PICK m \in d.on \cup d.asleep : c \in Mapped(d) /\ Becomes(setmon(d, c, m, {}))
  BY DEF SetMon
<1>2. m \in Output \cup {None} /\ {} \in SUBSET Tag
  BY DEF IInv, Good, Layouts
<1>3. \A e \in setmon(d, c, m, {}) : Carried(d, e)
  BY <1>1, <1>2, SetmonCarried DEF IInv
<1> QED BY <1>1, <1>3, CarriedStep

\* A configuration: outputs go on, off or to sleep.
LEMMA UpdatedStep ==
    ASSUME IInv, NEW f \in Layouts, Becomes(updatemons(f)),
           f.clients = d.clients, f.root = d.root, f.mon = d.mon
    PROVE  Step
<1>1. f \in Good /\ Placed(f)
  BY GoodIf DEF IInv, Placed, Mapped
<1>2. ASSUME NEW e \in updatemons(f)
      PROVE  e \in Good /\ Placed(e) /\ \A k \in Output : Neat(d, e, k)
  BY <1>1, UpdatedSettles, SettledNeat DEF Carried, Steady
<1> QED BY <1>2, NeatStep

LEMMA SwitchStep ==
    ASSUME IInv, NEW m \in Output, SwitchOn(m) \/ Sleep(m) \/ SwitchOff(m)
    PROVE  Step
<1>1. d \in Layouts
  BY DEF IInv, Good
<1>2. CASE SwitchOn(m)
  <2> DEFINE f == [d EXCEPT !.on = @ \cup {m}, !.asleep = @ \ {m}]
  <2>1. f \in Layouts /\ f.clients = d.clients /\ f.root = d.root /\ f.mon = d.mon
    BY <1>1 DEF Layouts
  <2> QED BY <1>2, <2>1, UpdatedStep DEF SwitchOn
<1>3. CASE Sleep(m)
  <2> DEFINE f == [d EXCEPT !.on = @ \ {m}, !.asleep = @ \cup {m}]
  <2>1. f \in Layouts /\ f.clients = d.clients /\ f.root = d.root /\ f.mon = d.mon
    BY <1>1 DEF Layouts
  <2> QED BY <1>3, <2>1, UpdatedStep DEF Sleep
<1>4. CASE SwitchOff(m)
  <2> DEFINE f == [d EXCEPT !.on = @ \ {m}, !.asleep = @ \ {m}]
  <2>1. f \in Layouts /\ f.clients = d.clients /\ f.root = d.root /\ f.mon = d.mon
    BY <1>1 DEF Layouts
  <2> QED BY <1>4, <2>1, UpdatedStep DEF SwitchOff
<1> QED BY <1>2, <1>3, <1>4

LEMMA UnplugStep ==
    ASSUME IInv, NEW m \in Output, Unplug(m)
    PROVE  Step
<1> DEFINE off == [d EXCEPT !.on = @ \ {m}, !.asleep = @ \ {m}]
           E == IF m \in d.on \cup d.asleep THEN updatemons(off) ELSE Closed(off, m)
           new(e) == [e EXCEPT !.root[m] = [t \in Tag |-> Empty], !.viewed[m] = {1},
                               !.tiling = @ \cup {m}]
<1>1. d \in Layouts /\ Becomes({new(e) : e \in E})
  BY DEF IInv, Good, Unplug
<1>2. off \in Layouts /\ off.clients = d.clients /\ off.root = d.root /\ off.mon = d.mon
  BY <1>1 DEF Layouts
<1>3. off.on = d.on \ {m} /\ off = [d EXCEPT !.on = off.on, !.asleep = d.asleep \ {m}]
  BY <1>1 DEF Layouts
<1> HIDE DEF off
<1>4. m \notin off.on
  BY <1>3
<1>5. ASSUME m \notin d.on \cup d.asleep PROVE off = d
  <2>1. off.on = d.on /\ d.asleep \ {m} = d.asleep
    BY <1>3, <1>5
  <2>2. [d EXCEPT !.on = d.on, !.asleep = d.asleep] = d
    BY <1>1 DEF Layouts
  <2> HIDE DEF E, new
  <2> QED BY <1>3, <2>1, <2>2
<1>6. off \in Good /\ Placed(off)
  BY <1>2, GoodIf DEF IInv, Placed, Mapped
<1>7. ASSUME NEW e \in E
      PROVE  /\ e \in Good /\ Placed(e) /\ m \notin e.on
             /\ \A k \in Output : Neat(d, e, k)
  <2>1. CASE m \in d.on \cup d.asleep
    <3>1. Carried(off, e) /\ \A k \in Output : Settled(e, k)
      BY <1>6, <1>7, <2>1, UpdatedSettles
    <3> QED BY <1>4, <1>6, <3>1, SettledNeat DEF Carried, Steady
  <2>2. CASE m \notin d.on \cup d.asleep
    <3>1. Carried(off, e)
      BY <1>6, <1>7, <2>2, ClosedCarried
    <3> QED BY <1>4, <1>5, <1>6, <2>2, <3>1 DEF Carried, Steady
  <2> QED BY <2>1, <2>2
<1>8. ASSUME NEW e \in E
      PROVE  new(e) \in Good /\ Placed(new(e)) /\ \A k \in Output : Neat(d, new(e), k)
  <2> DEFINE f == new(e)
             A == [e.root EXCEPT ![m] = [t \in Tag |-> Empty]]
             V == [e.viewed EXCEPT ![m] = {1}]
  <2>1. e \in Good /\ e \in Layouts /\ Placed(e) /\ m \notin e.on
    BY <1>7 DEF Good
  <2>2. Empty \in TreeOf(Window) /\ IsTree(Empty) /\ Empty.leaves = {}
    BY EmptyIsTree DEF Empty
  <2>3. /\ A \in [Output -> [Tag -> TreeOf(Window)]]
        /\ \A k \in Output \ {m} : A[k] = e.root[k]
        /\ \A t \in Tag : A[m][t] = Empty
    BY <2>1, <2>2 DEF Layouts
  <2>4. V \in [Output -> Views] /\ \A k \in Output \ {m} : V[k] = e.viewed[k]
    <3>1. {1} \in Views
      BY TagAssumption DEF Views, Tag
    <3> QED BY <2>1, <3>1 DEF Layouts
  <2>5. f = [e EXCEPT !.root = A, !.viewed = V, !.tiling = @ \cup {m}]
    BY <2>1 DEF Layouts
  <2> HIDE DEF A, V, f
  <2>6. /\ f \in Layouts /\ f.clients = e.clients /\ f.root = A /\ f.mon = e.mon
        /\ f.viewed = V /\ f.grabc = e.grabc /\ f.on = e.on /\ f.tiling = e.tiling \cup {m}
        /\ \A x \in Window : Same(e, f, x)
    BY <2>1, <2>3, <2>4, <2>5 DEF Layouts, Same, Mapped
  <2>7. f \in Good
    <3>1. Mapped(f) = Mapped(e)
      BY <2>6 DEF Mapped
    <3>2. ASSUME NEW k \in Output, NEW t \in Tag
          PROVE  IsTree(f.root[k][t]) /\ f.root[k][t].leaves \subseteq Mapped(f)
      BY <2>1, <2>2, <2>3, <2>6, <3>1 DEF Good, Sound
    <3> QED BY <2>1, <2>6, <3>2 DEF Good, Sound
  <2>8. ASSUME NEW k \in Output PROVE Neat(d, f, k)
    <3>1. CASE k = m
      BY <2>1, <2>6, <3>1, UnlaidSettled, SettledNeat DEF Laid
    <3>2. CASE k # m
      <4>1. Neat(e, f, k)
        BY <2>1, <2>3, <2>4, <2>6, <3>2, ApartNeat DEF Laid
      <4> QED BY <1>7, <4>1, NeatTwice
    <3> QED BY <3>1, <3>2
  <2>9. Placed(f)
    BY <2>1, <2>6 DEF Placed, Mapped
  <2> QED BY <2>7, <2>8, <2>9 DEF f
<1> HIDE DEF E, new
<1>9. \A f \in {new(e) : e \in E} : f \in Good /\ Placed(f) /\ \A k \in Output : Neat(d, f, k)
  BY <1>8
<1> QED BY <1>1, <1>9, NeatStep


LEMMA MapNotifyStep ==
    ASSUME IInv, NEW c \in Window, MapNotify(c)
    PROVE  Step
<1>1. PICK floating \in BOOLEAN, fullscreen \in BOOLEAN, m \in Output \cup {None},
           T \in SUBSET Tag, old \in SUBSET Tag, p \in Mapped(d) \cup {None},
           under \in d.asleep \cup {None} :
         /\ IF p = None THEN m = None => d.on = {}
            ELSE floating /\ m = d.mon[p] /\ T = d.tags[p]
         /\ IF m = None THEN T = {} \/ p # None ELSE old = {} /\ under = None
         /\ LET new == [d EXCEPT !.clients = <<c>> \o @, !.tags[c] = old,
                          !.isfloating = IF floating THEN @ \cup {c} ELSE @,
                          !.isfullscreen = IF fullscreen THEN @ \cup {c} ELSE @]
            IN  Becomes(UNION {Uncovered(e, c, p, under) : e \in setmon(new, c, m, T)})
  BY Zenon DEF MapNotify
<1> DEFINE A == [d.tags EXCEPT ![c] = old]
           F == IF floating THEN d.isfloating \cup {c} ELSE d.isfloating
           S == IF fullscreen THEN d.isfullscreen \cup {c} ELSE d.isfullscreen
           list == <<c>> \o d.clients
           new == [d EXCEPT !.clients = list, !.tags = A, !.isfloating = F, !.isfullscreen = S]
<1>2. d \in Layouts /\ d \in Good /\ Placed(d) /\ c \notin Mapped(d)
  BY DEF IInv, Good, MapNotify
<1>3. Becomes(UNION {Uncovered(e, c, p, under) : e \in setmon(new, c, m, T)})
  <2>1. [d EXCEPT !.clients = <<c>> \o @, !.tags[c] = old,
                  !.isfloating = IF floating THEN @ \cup {c} ELSE @,
                  !.isfullscreen = IF fullscreen THEN @ \cup {c} ELSE @] = new
    BY <1>2 DEF Layouts
  <2> HIDE DEF new
  <2> QED BY <1>1, <2>1
<1>4. list \in Seq(Window) /\ Distinct(list) /\ Range(list) = {c} \cup Mapped(d)
  <2>1. Members(d.clients) = Mapped(d) /\ Members(list) = Range(list)
    BY DEF Members, Mapped, Range
  <2>2. d.clients \in Seq(Window) /\ Distinct(d.clients)
    BY <1>2 DEF Layouts, Good, Sound
  <2> QED BY <1>2, <2>1, <2>2, Prepended
<1>5. /\ A \in [Window -> SUBSET Tag] /\ F \in SUBSET Window /\ S \in SUBSET Window
      /\ \A x \in Window \ {c} :
           A[x] = d.tags[x] /\ (x \in F <=> x \in d.isfloating) /\ (x \in S <=> x \in d.isfullscreen)
  BY <1>2 DEF Layouts
<1> HIDE DEF A, F, S, list
<1>6. /\ new \in Layouts /\ new.clients = list /\ new.root = d.root /\ new.mon = d.mon
      /\ new.viewed = d.viewed /\ new.grabc = d.grabc /\ new.on = d.on /\ new.tiling = d.tiling
      /\ new.geom = d.geom /\ new.tags = A /\ new.isfloating = F /\ new.isfullscreen = S
  BY <1>2, <1>4, <1>5 DEF Layouts
<1> HIDE DEF new
<1>7. Mapped(new) = {c} \cup Mapped(d)
  BY <1>4, <1>6 DEF Mapped
<1>8. new \in Good
  <2>1. ASSUME NEW k \in Output, NEW t \in Tag
        PROVE  IsTree(new.root[k][t]) /\ new.root[k][t].leaves \subseteq Mapped(new)
    BY <1>2, <1>6, <1>7 DEF Good, Sound
  <2> QED BY <1>4, <1>6, <2>1 DEF Good, Sound
<1>9. d.mon[c] = None
  BY <1>2 DEF Placed
<1>10. ASSUME NEW k \in Output PROVE Neat(d, new, k)
  <2>1. \A x \in Window \ {c} : Same(d, new, x)
    BY <1>5, <1>6, <1>7 DEF Same
  <2>2. \A x \in Window : d.mon[x] = k \/ new.mon[x] = k => Same(d, new, x)
    BY <1>6, <1>9, <2>1, NoneAssumption
  <2> QED BY <1>2, <1>6, <2>2, ApartNeat DEF Laid
<1>11. Placed(new)
  BY <1>2, <1>6, <1>7 DEF Placed
<1>12. ASSUME NEW e \in setmon(new, c, m, T), NEW f \in Uncovered(e, c, p, under)
       PROVE  f \in Good /\ Placed(f) /\ \A k \in Output : Neat(d, f, k)
  <2>1. Carried(new, e)
    BY <1>7, <1>8, SetmonCarried
  <2>2. Carried(e, f)
    BY <2>1, UncoveredCarried DEF Carried, Steady
  <2>3. Carried(new, f)
    BY <2>1, <2>2, CarriedTwice
  <2> QED BY <1>10, <1>11, <2>3, NeatTwice DEF Carried, Steady
<1>13. \A f \in UNION {Uncovered(e, c, p, under) : e \in setmon(new, c, m, T)} :
         f \in Good /\ Placed(f) /\ \A k \in Output : Neat(d, f, k)
  BY <1>12
<1> QED BY <1>3, <1>13, NeatStep

LEMMA DragTileStep ==
    ASSUME IInv, NEW c \in Window, DragTile(c)
    PROVE  Step
<1> DEFINE G == [d.geom EXCEPT ![c] = Elsewhere]
           f == [d EXCEPT !.grabc = c, !.geom = G]
<1>1. d \in Layouts /\ d \in Good /\ Placed(d) /\ d.grabc = None
  BY DEF IInv, Good, DragTile
<1>2. Becomes({f})
  <2>1. [d EXCEPT !.grabc = c, !.geom[c] = Elsewhere] = f
    BY <1>1 DEF Layouts
  <2> HIDE DEF f
  <2> QED BY <2>1 DEF DragTile
<1>3. G \in [Window -> Boxes] /\ \A x \in Window \ {c} : G[x] = d.geom[x]
  BY <1>1 DEF Layouts, Boxes
<1> HIDE DEF G
<1>4. /\ f \in Layouts /\ f.clients = d.clients /\ f.root = d.root /\ f.mon = d.mon
      /\ f.tags = d.tags /\ f.isfloating = d.isfloating /\ f.isfullscreen = d.isfullscreen
      /\ f.viewed = d.viewed /\ f.grabc = c /\ f.on = d.on /\ f.tiling = d.tiling /\ f.geom = G
  BY <1>1, <1>3 DEF Layouts
<1> HIDE DEF f
<1>5. f \in Good /\ Placed(f)
  BY <1>1, <1>4, GoodIf DEF Placed, Mapped
<1>6. ASSUME NEW k \in Output PROVE Neat(d, f, k)
  <2>1. Mapped(f) = Mapped(d)
    BY <1>4 DEF Mapped
  <2>2. \A x : VISIBLEON(f, x, k) <=> VISIBLEON(d, x, k)
    BY <1>4, <2>1 DEF VISIBLEON
  <2>3. Tiles(f, k) = Tiles(d, k)
    BY <1>4, <2>1, <2>2 DEF Tiles
  <2>4. /\ Still(f, k) = Still(d, k) \ {c} /\ Tree(f, k) = Tree(d, k)
        /\ Laid(f, k) <=> Laid(d, k)
    <3>1. Still(d, k) = Tiles(d, k)
      BY <1>1, NoneAssumption, MappedWindows DEF Still, Tiles
    <3> QED BY <1>4, <2>3, <3>1 DEF Still, Laid, Tree, current
  <2>5. ASSUME NEW x \in Window
        PROVE  /\ LeaflessAt(f, k, x) => LeaflessAt(d, k, x)
               /\ HoleAt(f, k, x) => HoleAt(d, k, x)
    BY <1>1, <1>4, <2>2, <2>4, NoneAssumption DEF LeaflessAt, HoleAt
  <2>6. ASSUME NEW x \in Window
        PROVE  MisplacedAt(f, k, x) => MisplacedAt(d, k, x)
    BY <1>3, <1>4, <2>4 DEF MisplacedAt
  <2> QED BY <2>5, <2>6 DEF Neat
<1> QED BY <1>2, <1>5, <1>6, NeatStep

LEMMA MotionStep ==
    ASSUME IInv, Motion
    PROVE  Step
<1>1. ASSUME NEW f \in Followed(d)
      PROVE  f \in Good /\ Placed(f) /\ \A k \in Output : Neat(d, f, k)
  <2>1. f \in Good /\ Relaid(d, f)
    BY FollowedIs DEF IInv
  <2> QED BY <2>1, FollowedNeat, RelaidViews DEF IInv, Placed, Relaid
<1> QED BY <1>1, NeatStep DEF Motion


-----------------------------------------------------------------------------
(***************************************************************************)
(* A window leaves all trees.  Only the output that it is on is laid out,  *)
(* so that another, where it still had a leaf, may show tiles that are not *)
(* where their leaves are.                                                 *)
(***************************************************************************)
LEMMA KeptAll ==
    ASSUME NEW W, NEW t \in TreeOf(W), IsTree(t), NEW c, c \notin t.leaves
    PROVE  Removed(t, c) = t
<1>1. t.leaves \ {c} = t.leaves /\ t.leaves \cap t.leaves = t.leaves
  OBVIOUS
<1>2. t = [leaves |-> t.leaves, splits |-> t.splits] /\ t.splits \subseteq (SUBSET W) \X (SUBSET W)
  BY DEF TreeOf
<1>3. ASSUME NEW s \in t.splits
      PROVE  <<s[1] \cap t.leaves, s[2] \cap t.leaves>> = s /\ s[1] # {} /\ s[2] # {}
  <2>1. s = <<s[1], s[2]>> /\ s[1] # {} /\ s[2] # {} /\ Area(s) \subseteq t.leaves
    BY <1>2 DEF IsTree
  <2>2. s[1] \cap t.leaves = s[1] /\ s[2] \cap t.leaves = s[2]
    BY <2>1 DEF Area
  <2> QED BY <2>1, <2>2
<1>4. {<<s[1] \cap t.leaves, s[2] \cap t.leaves>> : s \in t.splits} = t.splits
  BY <1>3
<1>5. {r \in t.splits : r[1] # {} /\ r[2] # {}} = t.splits
  BY <1>3
<1> QED BY <1>1, <1>2, <1>4, <1>5 DEF Removed, Kept

Forgotten(e, f, c) ==
    /\ f.viewed = e.viewed /\ f.on = e.on /\ f.tiling = e.tiling
    /\ \A m \in Output, t \in Tag : f.root[m][t] = Removed(e.root[m][t], c)
    /\ f.grabc = e.grabc \/ (e.grabc = c /\ f.grabc = None)
    /\ f.mon[c] = e.mon[c] \/ f.mon[c] = None
    /\ \A x \in Window \ {c} : Same(e, f, x)

LEMMA ForgottenSound ==
    ASSUME NEW e \in Good, NEW c \in Window, NEW f \in Layouts, Forgotten(e, f, c),
           Distinct(f.clients)
    PROVE  f \in Good
<1>1. ASSUME NEW m \in Output, NEW t \in Tag
      PROVE  IsTree(f.root[m][t]) /\ f.root[m][t].leaves \subseteq Mapped(f)
  <2>1. /\ IsTree(e.root[m][t]) /\ e.root[m][t].leaves \subseteq Mapped(e)
        /\ f.root[m][t] = Removed(e.root[m][t], c)
    BY DEF Good, Sound, Forgotten
  <2>2. IsTree(f.root[m][t]) /\ f.root[m][t].leaves \subseteq e.root[m][t].leaves \ {c}
    <3>1. IsTree(f.root[m][t])
      BY <2>1, KeptIsTree DEF Removed
    <3> QED BY <2>1, <3>1 DEF Removed, Kept
  <2>3. \A x \in Mapped(e) \ {c} : x \in Mapped(f)
    <3>1. Mapped(e) \subseteq Window
      BY MappedWindows DEF Good
    <3>2. \A x \in Window \ {c} : x \in Mapped(f) <=> x \in Mapped(e)
      BY DEF Forgotten, Same
    <3> QED BY <3>1, <3>2
  <2> QED BY <2>1, <2>2, <2>3
<1> QED BY <1>1 DEF Good, Sound

LEMMA RemovedType ==
    ASSUME NEW e \in Good, NEW c
    PROVE  /\ remove_client(e, c) = [e EXCEPT !.root = remove_client(e, c).root]
           /\ remove_client(e, c).root \in [Output -> [Tag -> TreeOf(Window)]]
           /\ \A m \in Output, t \in Tag :
                remove_client(e, c).root[m][t] = Removed(e.root[m][t], c)
<1> DEFINE R == [m \in Output |-> [t \in Tag |-> Removed(e.root[m][t], c)]]
<1>1. remove_client(e, c) = [e EXCEPT !.root = R] /\ e \in Layouts
  BY DEF remove_client, Good
<1>2. \A m \in Output, t \in Tag : Removed(e.root[m][t], c) \in TreeOf(Window)
  BY <1>1, KeptType DEF Layouts, Removed
<1>3. R \in [Output -> [Tag -> TreeOf(Window)]]
  BY <1>2
<1>4. \A m \in Output, t \in Tag : R[m][t] = Removed(e.root[m][t], c)
  OBVIOUS
<1> HIDE DEF R
<1>5. remove_client(e, c).root = R
  BY <1>1 DEF Layouts
<1> QED BY <1>1, <1>3, <1>4, <1>5

\* Where the window still had a leaf on an output that it is not on.
LEMMA ForgottenNeat ==
    ASSUME NEW e \in Good, NEW c \in Window, NEW f \in Layouts, Forgotten(e, f, c),
           NEW k \in Output, e.mon[c] # k, NEW x \in Window
    PROVE  /\ LeaflessAt(f, k, x) => LeaflessAt(e, k, x)
           /\ HoleAt(f, k, x) => HoleAt(e, k, x)
           /\ MisplacedAt(f, k, x) =>
                \/ MisplacedAt(e, k, x)
                \/ Laid(e, k) /\ x \in Still(e, k) /\ c \in Tree(e, k).leaves
<1>1. /\ f.viewed = e.viewed /\ f.on = e.on /\ f.tiling = e.tiling
      /\ \A y \in Window \ {c} : Same(e, f, y)
  BY DEF Forgotten
<1>2. current(f, k) = current(e, k) /\ current(e, k) \in Tag
  BY <1>1, CurrentIsTag DEF current, Good
<1>3. Tree(f, k) = Removed(Tree(e, k), c)
  BY <1>2 DEF Tree, Forgotten
<1>4. Tree(f, k).leaves = Tree(e, k).leaves \ {c}
  BY <1>3 DEF Removed, Kept
<1>5. ~VISIBLEON(f, c, k) /\ ~VISIBLEON(e, c, k)
  BY NoneAssumption DEF Forgotten, VISIBLEON
<1>6. \A y \in Window : VISIBLEON(f, y, k) <=> VISIBLEON(e, y, k)
  BY <1>1, <1>5 DEF VISIBLEON, Same
<1>7. Tiles(f, k) = Tiles(e, k) /\ c \notin Tiles(e, k)
  <2>1. \A y \in Window \ {c} : y \in Tiles(f, k) <=> y \in Tiles(e, k)
    BY <1>1, <1>6 DEF Tiles, Same
  <2>2. Tiles(f, k) \subseteq Window /\ Tiles(e, k) \subseteq Window
    BY MappedWindows DEF Tiles, Good
  <2>3. c \notin Tiles(f, k) /\ c \notin Tiles(e, k)
    BY <1>5 DEF Tiles
  <2> QED BY <2>1, <2>2, <2>3
<1>8. Still(f, k) = Still(e, k)
  <2>1. Tiles(e, k) \subseteq Window
    BY MappedWindows DEF Tiles, Good
  <2> QED BY <1>7, <2>1, NoneAssumption DEF Still, Forgotten
<1>9. Laid(f, k) <=> Laid(e, k)
  BY <1>1 DEF Laid
<1>10. LeaflessAt(f, k, x) => LeaflessAt(e, k, x)
  BY <1>4, <1>7, <1>8, <1>9 DEF LeaflessAt, Still
<1>11. HoleAt(f, k, x) => HoleAt(e, k, x)
  <2>1. x # c => (x = f.grabc <=> x = e.grabc)
    BY NoneAssumption DEF Forgotten
  <2>2. x # c => (x \in f.isfloating <=> x \in e.isfloating)
    BY <1>1 DEF Same
  <2> QED BY <1>4, <1>6, <1>8, <1>9, <2>1, <2>2 DEF HoleAt
<1>12. ASSUME MisplacedAt(f, k, x), c \notin Tree(e, k).leaves
       PROVE  MisplacedAt(e, k, x)
  <2>1. Tree(f, k) = Tree(e, k)
    BY <1>3, <1>12, TreeInView, KeptAll
  <2>2. x # c /\ x # e.grabc
    BY <1>7, <1>8, <1>12 DEF MisplacedAt, Still
  <2>3. f.geom[x] = e.geom[x]
    BY <1>1, <2>2 DEF Same
  <2> QED BY <1>8, <1>9, <1>12, <2>1, <2>3 DEF MisplacedAt
<1> QED BY <1>8, <1>9, <1>10, <1>11, <1>12 DEF MisplacedAt

LEMMA ForgottenStep ==
    ASSUME IInv, NEW c \in Window, NEW f \in Layouts, Forgotten(d, f, c), NEW E, Becomes(E),
           \A e \in E :
             /\ e \in Good /\ Placed(e)
             /\ \A k \in Output : IF k = d.mon[c] THEN Settled(e, k) ELSE Neat(f, e, k)
    PROVE  Step
<1>1. PICK e \in E : d' = Shaded(e)
  BY BecomesOne
<1>2. /\ e \in Good /\ Placed(e)
      /\ \A k \in Output : IF k = d.mon[c] THEN Settled(e, k) ELSE Neat(f, e, k)
  OBVIOUS
<1>3. d' \in Good /\ Relaid(e, d') /\ \A k \in Output : Neat(e, d', k)
  BY <1>1, <1>2, ShadedNeat
<1>4. Placed(d')
  BY <1>2, <1>3, RelaidViews DEF Placed, Relaid
<1>5. ASSUME NEW k \in Output, NEW x \in Window
      PROVE  /\ LeaflessAt(d', k, x) => LeaflessAt(d, k, x)
             /\ HoleAt(d', k, x) => HoleAt(d, k, x)
             /\ MisplacedAt(d', k, x) => MisplacedAt(d, k, x) \/ HoleBeside(x)
  <2>1. CASE k = d.mon[c]
    <3>1. Settled(d', k)
      BY <1>2, <1>3, <2>1, SettledStays
    <3> QED BY <3>1 DEF Settled
  <2>2. CASE k # d.mon[c]
    <3>1. Neat(f, d', k)
      BY <1>2, <1>3, <2>2, NeatTwice
    <3>2. ASSUME Laid(d, k), x \in Still(d, k), c \in Tree(d, k).leaves
          PROVE  HoleBeside(x)
      <4>1. d.mon[x] = k
        BY <3>2 DEF Still, Tiles, VISIBLEON
      <4>2. c # d.grabc => HoleAt(d, k, c)
        BY <2>2, <3>2 DEF HoleAt, VISIBLEON
      <4>3. Hole(d, c) \/ (c = d.grabc /\ d.mon[c] # k)
        BY <2>2, <4>2, FlawsAreAt DEF IInv
      <4> QED BY <3>2, <4>1, <4>3 DEF HoleBeside
    <3> QED BY <2>2, <3>1, <3>2, ForgottenNeat DEF Neat, IInv
  <2> QED BY <2>1, <2>2
<1> QED BY <1>3, <1>4, <1>5, FlawsAreAt DEF Step, IInv, InPlace

LEMMA SettagsStep ==
    ASSUME IInv, NEW c \in Window, settags(c)
    PROVE  Step
<1>1. PICK T \in Views :
        Becomes(arrange([remove_client(d, c) EXCEPT !.tags[c] = T], d.mon[c]))
  BY DEF settags
<1> DEFINE A == [d.tags EXCEPT ![c] = T]
           R == remove_client(d, c).root
           f == [remove_client(d, c) EXCEPT !.tags[c] = T]
<1>2. d \in Layouts /\ d \in Good /\ Placed(d) /\ d.mon[c] \in Output
  BY DEF IInv, Good, Layouts, settags
<1>3. /\ remove_client(d, c) = [d EXCEPT !.root = R]
      /\ R \in [Output -> [Tag -> TreeOf(Window)]]
      /\ \A m \in Output, t \in Tag : R[m][t] = Removed(d.root[m][t], c)
  BY <1>2, RemovedType
<1> HIDE DEF R
<1>4. A \in [Window -> SUBSET Tag] /\ \A x \in Window \ {c} : A[x] = d.tags[x]
  BY <1>2 DEF Layouts, Views
<1>5. f = [d EXCEPT !.root = R, !.tags = A]
  BY <1>2, <1>3 DEF Layouts
<1> HIDE DEF A, f
<1>6. /\ f \in Layouts /\ f.clients = d.clients /\ f.root = R /\ f.mon = d.mon
      /\ f.tags = A /\ f.isfloating = d.isfloating /\ f.isfullscreen = d.isfullscreen
      /\ f.viewed = d.viewed /\ f.grabc = d.grabc /\ f.on = d.on /\ f.tiling = d.tiling
      /\ f.geom = d.geom
  BY <1>2, <1>3, <1>4, <1>5 DEF Layouts
<1>7. Forgotten(d, f, c)
  BY <1>3, <1>4, <1>6 DEF Forgotten, Same, Mapped
<1>8. f \in Good /\ Placed(f)
  BY <1>2, <1>6, <1>7, ForgottenSound DEF Good, Sound, Placed, Mapped
<1>9. ASSUME NEW e \in arrange(f, d.mon[c])
      PROVE  /\ e \in Good /\ Placed(e)
             /\ \A k \in Output : IF k = d.mon[c] THEN Settled(e, k) ELSE Neat(f, e, k)
  <2>1. LaysOut(f, e, d.mon[c])
    BY <1>2, <1>8, ArrangeLaysOut
  <2> QED BY <1>8, <2>1, RelaidViews DEF LaysOut, Placed, Relaid
<1>10. Becomes(arrange(f, d.mon[c]))
  BY <1>1 DEF f
<1> QED BY <1>6, <1>7, <1>9, <1>10, ForgottenStep


LEMMA UnmapNotifyStep ==
    ASSUME IInv, NEW c \in Window, UnmapNotify(c)
    PROVE  Step
<1> DEFINE p == CHOOSE i \in DOMAIN d.clients : d.clients[i] = c
           list == RemoveAt(d.clients, p)
           R == remove_client(d, c).root
           A == [d.tags EXCEPT ![c] = {}]
           b == IF d.grabc = c THEN None ELSE d.target
           g == IF d.grabc = c THEN None ELSE d.grabc
           M == [d.mon EXCEPT ![c] = None]
           e == [d EXCEPT !.root = R, !.clients = list, !.isfloating = @ \ {c},
                          !.isfullscreen = @ \ {c}, !.tags = A, !.target = b, !.grabc = g]
           f == [e EXCEPT !.mon[c] = None]
<1>1. d \in Layouts /\ d \in Good /\ Placed(d) /\ c \in Mapped(d)
  BY DEF IInv, Good, UnmapNotify
<1>2. /\ remove_client(d, c) = [d EXCEPT !.root = R]
      /\ R \in [Output -> [Tag -> TreeOf(Window)]]
      /\ \A m \in Output, t \in Tag : R[m][t] = Removed(d.root[m][t], c)
  BY <1>1, RemovedType
<1> HIDE DEF R
<1>3. Becomes(UNION {Followed(h) : h \in setmon(e, c, None, {})})
  <2> DEFINE x == [remove_client(d, c) EXCEPT
                    !.clients = RemoveAt(@, CHOOSE i \in DOMAIN @ : @[i] = c),
                    !.isfloating = @ \ {c}, !.isfullscreen = @ \ {c}, !.tags[c] = {},
                    !.target = IF d.grabc = c THEN None ELSE @,
                    !.grabc = IF @ = c THEN None ELSE @]
  <2>1. Becomes(UNION {Followed(h) : h \in setmon(x, c, None, {})})
    BY DEF UnmapNotify
  <2>2. x = e
    BY <1>1, <1>2 DEF Layouts
  <2> HIDE DEF x, e
  <2> QED BY <2>1, <2>2
<1>4. list \in Seq(Window) /\ Distinct(list) /\ Range(list) = Mapped(d) \ {c}
  <2>1. d.clients \in Seq(Window) /\ Distinct(d.clients)
    BY <1>1 DEF Layouts, Good, Sound
  <2>2. p \in DOMAIN d.clients /\ d.clients[p] = c
    BY <1>1 DEF Mapped, Range
  <2>3. list = SubSeq(d.clients, 1, p - 1) \o SubSeq(d.clients, p + 1, Len(d.clients))
    BY DEF RemoveAt
  <2>4. Members(d.clients) = Mapped(d) /\ Members(list) = Range(list)
    BY DEF Members, Mapped, Range
  <2> HIDE DEF p, list
  <2> QED BY <2>1, <2>2, <2>3, <2>4, CutOut
<1> HIDE DEF list, p
<1>5. /\ A \in [Window -> SUBSET Tag] /\ \A x \in Window \ {c} : A[x] = d.tags[x]
      /\ M \in [Window -> Output \cup {None}] /\ \A x \in Window \ {c} : M[x] = d.mon[x]
      /\ M[c] = None
  BY <1>1 DEF Layouts
<1>6. /\ b \in Window \cup {None} /\ g \in Window \cup {None}
      /\ g = d.grabc \/ (d.grabc = c /\ g = None)
  BY <1>1 DEF Layouts
<1> HIDE DEF A, b, g
<1>7. /\ e \in Layouts /\ f = [e EXCEPT !.mon = M] /\ e.mon = d.mon
      /\ e.on = d.on /\ e.asleep = d.asleep
  BY <1>1, <1>2, <1>4, <1>5, <1>6 DEF Layouts
<1>8. /\ e.clients = list /\ e.root = R /\ e.tags = A
      /\ e.isfloating = d.isfloating \ {c} /\ e.isfullscreen = d.isfullscreen \ {c}
      /\ e.viewed = d.viewed /\ e.grabc = g /\ e.tiling = d.tiling /\ e.geom = d.geom
  BY <1>1 DEF Layouts
<1> HIDE DEF M, e
<1>9. /\ f \in Layouts /\ f.clients = list /\ f.root = R /\ f.mon = M /\ f.tags = A
      /\ f.isfloating = d.isfloating \ {c} /\ f.isfullscreen = d.isfullscreen \ {c}
      /\ f.viewed = d.viewed /\ f.grabc = g /\ f.on = d.on /\ f.tiling = d.tiling
      /\ f.geom = d.geom
  BY <1>5, <1>7, <1>8 DEF Layouts
<1>10. d.mon[c] = None => f = e
  BY <1>1, <1>7 DEF Layouts, M
<1>11. setmon(e, c, None, {}) = IF d.mon[c] = None THEN {f} ELSE arrange(f, d.mon[c])
  BY <1>7, <1>10 DEF setmon
<1> HIDE DEF f
<1>12. Forgotten(d, f, c)
  BY <1>2, <1>4, <1>5, <1>6, <1>9 DEF Forgotten, Same, Mapped
<1>13. f \in Good
  BY <1>1, <1>4, <1>9, <1>12, ForgottenSound
<1>14. Placed(f)
  BY <1>1, <1>4, <1>5, <1>9 DEF Placed, Mapped
<1>15. ASSUME NEW h \in setmon(e, c, None, {})
       PROVE  /\ h \in Good /\ Placed(h)
              /\ \A k \in Output : IF k = d.mon[c] THEN Settled(h, k) ELSE Neat(f, h, k)
  <2>1. CASE d.mon[c] = None
    <3>1. h = f
      BY <1>11, <1>15, <2>1
    <3> QED BY <1>13, <1>14, <2>1, <3>1, NoneAssumption DEF Neat
  <2>2. CASE d.mon[c] # None
    <3>1. d.mon[c] \in Output /\ h \in arrange(f, d.mon[c])
      BY <1>1, <1>11, <1>15, <2>2 DEF Layouts
    <3>2. LaysOut(f, h, d.mon[c])
      BY <1>13, <3>1, ArrangeLaysOut
    <3> QED BY <1>14, <3>2, RelaidViews DEF LaysOut, Placed, Relaid
  <2> QED BY <2>1, <2>2
<1>16. ASSUME NEW h \in setmon(e, c, None, {}), NEW j \in Followed(h)
       PROVE  /\ j \in Good /\ Placed(j)
              /\ \A k \in Output : IF k = d.mon[c] THEN Settled(j, k) ELSE Neat(f, j, k)
  <2>1. /\ h \in Good /\ Placed(h)
        /\ \A k \in Output : IF k = d.mon[c] THEN Settled(h, k) ELSE Neat(f, h, k)
    BY <1>15
  <2>2. j \in Good /\ Relaid(h, j) /\ \A k \in Output : Neat(h, j, k)
    BY <2>1, FollowedIs, FollowedNeat
  <2>3. Placed(j)
    BY <2>1, <2>2, RelaidViews DEF Placed, Relaid
  <2> QED BY <2>1, <2>2, <2>3, SettledStays, NeatTwice
<1>17. \A j \in UNION {Followed(h) : h \in setmon(e, c, None, {})} :
         /\ j \in Good /\ Placed(j)
         /\ \A k \in Output : IF k = d.mon[c] THEN Settled(j, k) ELSE Neat(f, j, k)
  BY <1>16
<1> QED BY <1>3, <1>9, <1>12, <1>17, ForgottenStep


-----------------------------------------------------------------------------
(***************************************************************************)
(* A tree is replaced by one with the same leaves, and laid out: only its  *)
(* windows can be misplaced by that, on outputs that do not show it.       *)
(***************************************************************************)
Replanted(e, m, t, u) == recalc([e EXCEPT !.root[m][t] = u], m, t)

Shuffled(e, f) ==
    /\ f \in Good /\ Relaid(e, f)
    /\ \A k \in Output, s \in Tag : f.root[k][s].leaves = e.root[k][s].leaves

LEMMA ReplantedIs ==
    ASSUME NEW e \in Good, NEW m \in Output, NEW t \in Tag, NEW u \in TreeOf(Window),
           IsTree(u), u.leaves = e.root[m][t].leaves
    PROVE  /\ Shuffled(e, Replanted(e, m, t, u))
           /\ \A k \in Output, x \in Window :
                MisplacedAt(Replanted(e, m, t, u), k, x) =>
                  \/ MisplacedAt(e, k, x)
                  \/ x \in u.leaves /\ ~(k = m /\ t = current(e, m))
<1> DEFINE g == [e EXCEPT !.root[m][t] = u]
           f == Replanted(e, m, t, u)
<1>1. e \in Layouts
  BY DEF Good
<1>2. /\ g \in Layouts /\ Relaid(e, g) /\ g.geom = e.geom
      /\ g.root[m][t] = u
      /\ \A k \in Output, s \in Tag :
           g.root[k][s] = IF k = m /\ s = t THEN u ELSE e.root[k][s]
  BY <1>1 DEF Layouts, Relaid
<1>3. f = recalc(g, m, t)
  BY DEF Replanted
<1> HIDE DEF g, f
<1>4. /\ f \in Layouts /\ Relaid(g, f) /\ f.root = g.root
      /\ \A c \in Window :
           f.geom[c] = IF c \in u.leaves \ e.isfullscreen /\ e.mon[c] # None
                       THEN Box(m, u, c) ELSE e.geom[c]
  <2>1. g.isfullscreen = e.isfullscreen /\ g.mon = e.mon
    BY <1>2 DEF Relaid
  <2> QED BY <1>2, <1>3, <2>1, RecalcPlaces
<1>5. Relaid(e, f)
  BY <1>2, <1>4, RelaidTwice
<1>6. \A k \in Output, s \in Tag : f.root[k][s].leaves = e.root[k][s].leaves
  BY <1>2, <1>4
<1>7. f \in Good
  <2>1. Mapped(f) = Mapped(e) /\ f.clients = e.clients
    BY <1>5, RelaidViews DEF Relaid
  <2>2. ASSUME NEW k \in Output, NEW s \in Tag
        PROVE  IsTree(f.root[k][s]) /\ f.root[k][s].leaves \subseteq Mapped(f)
    <3>1. IsTree(e.root[k][s]) /\ e.root[k][s].leaves \subseteq Mapped(e)
      BY DEF Good, Sound
    <3>2. f.root[k][s] = u \/ f.root[k][s] = e.root[k][s]
      BY <1>2, <1>4
    <3>3. IsTree(f.root[k][s])
      BY <3>1, <3>2
    <3> QED BY <3>1, <3>3, <1>6, <2>1
  <2> QED BY <1>4, <2>1, <2>2 DEF Good, Sound
<1>8. ASSUME NEW k \in Output, NEW x \in Window, MisplacedAt(f, k, x),
             (k = m /\ t = current(e, m)) \/ x \notin u.leaves
      PROVE  MisplacedAt(e, k, x)
  <2>1. /\ Laid(e, k) /\ x \in Still(e, k) /\ x \in Tree(f, k).leaves
        /\ f.geom[x] # Box(k, Tree(f, k), x)
    BY <1>5, <1>8, RelaidViews DEF MisplacedAt
  <2>2. current(f, k) = current(e, k) /\ current(e, k) \in Tag
    BY <1>1, <1>5, CurrentIsTag, RelaidViews
  <2>3. x \notin e.isfullscreen /\ e.mon[x] # None
    BY <2>1, NoneAssumption DEF Still, Tiles, VISIBLEON
  <2>4. CASE k = m /\ t = current(e, m)
    <3>1. Tree(f, k) = u
      BY <1>2, <1>4, <2>2, <2>4 DEF Tree
    <3> QED BY <1>4, <2>1, <2>3, <2>4, <3>1
  <2>5. CASE x \notin u.leaves
    <3>1. ~(k = m /\ current(e, k) = t)
      BY <1>2, <1>4, <2>1, <2>2, <2>5 DEF Tree
    <3>2. Tree(f, k) = Tree(e, k)
      BY <1>2, <1>4, <2>2, <3>1 DEF Tree
    <3>3. f.geom[x] = e.geom[x]
      BY <1>4, <2>5
    <3> QED BY <2>1, <3>2, <3>3 DEF MisplacedAt
  <2> QED BY <1>8, <2>4, <2>5
<1> QED BY <1>5, <1>6, <1>7, <1>8 DEF Shuffled, f

LEMMA ShuffledViews ==
    ASSUME NEW e \in Good, NEW f, Shuffled(e, f), NEW k \in Output, NEW x
    PROVE  /\ LeaflessAt(f, k, x) <=> LeaflessAt(e, k, x)
           /\ HoleAt(f, k, x) <=> HoleAt(e, k, x)
<1>1. /\ current(f, k) = current(e, k) /\ Still(f, k) = Still(e, k)
      /\ Laid(f, k) <=> Laid(e, k)
      /\ VISIBLEON(f, x, k) <=> VISIBLEON(e, x, k)
      /\ f.grabc = e.grabc /\ f.isfloating = e.isfloating
  BY RelaidViews DEF Shuffled, Relaid
<1>2. Tree(f, k).leaves = Tree(e, k).leaves
  BY <1>1, CurrentIsTag DEF Tree, Shuffled, Good
<1> QED BY <1>1, <1>2 DEF LeaflessAt, HoleAt

\* swapdir of two tiles.
LEMMA SwapdirStep ==
    ASSUME IInv, NEW m \in Output, swapdir(m)
    PROVE  Step
<1> DEFINE t == current(d, m)
<1>1. PICK a \in Tiles(d, m), b \in Tiles(d, m) :
        /\ a # b
        /\ \/ /\ m \in d.tiling /\ {a, b} \subseteq Tree(d, m).leaves
              /\ Becomes({recalc([d EXCEPT !.root[m][t] = Swapped(@, a, b)], m, t)})
           \/ /\ m \notin d.tiling
              /\ Becomes({[d EXCEPT !.geom[a] = d.geom[b], !.geom[b] = d.geom[a]]})
  BY Zenon DEF swapdir
<1>2. /\ d \in Layouts /\ d \in Good /\ Placed(d) /\ t \in Tag
      /\ a \in Window /\ b \in Window /\ d.mon[a] = m /\ d.mon[b] = m
  BY CurrentIsTag, MappedWindows DEF IInv, Good, Tiles, VISIBLEON
<1>3. CASE /\ m \in d.tiling /\ {a, b} \subseteq Tree(d, m).leaves
           /\ Becomes({recalc([d EXCEPT !.root[m][t] = Swapped(@, a, b)], m, t)})
  <2> DEFINE u == Swapped(Tree(d, m), a, b)
             f == Replanted(d, m, t, u)
  <2>1. Becomes({f})
    <3>1. [d EXCEPT !.root[m][t] = Swapped(@, a, b)] = [d EXCEPT !.root[m][t] = u]
      BY <1>2 DEF Layouts, Tree
    <3> HIDE DEF t, u
    <3> QED BY <1>3, <3>1 DEF Replanted
  <2>2. u \in TreeOf(Window) /\ IsTree(u) /\ u.leaves = d.root[m][t].leaves
    <3>1. Tree(d, m) \in TreeOf(Window) /\ IsTree(Tree(d, m))
      BY <1>2, TreeInView
    <3>2. u \in TreeOf(Window) /\ IsTree(u)
      BY <1>2, <1>3, <3>1, SwappedIsTree, SwappedType
    <3>3. u.leaves = Tree(d, m).leaves
      BY DEF Swapped
    <3> QED BY <3>2, <3>3 DEF Tree
  <2> HIDE DEF t, u
  <2>3. /\ Shuffled(d, f)
        /\ \A k \in Output, x \in Window :
             MisplacedAt(f, k, x) =>
               \/ MisplacedAt(d, k, x)
               \/ x \in u.leaves /\ ~(k = m /\ t = current(d, m))
    BY <1>2, <2>2, ReplantedIs
  <2> HIDE DEF f
  <2>4. d' = Shaded(f)
    BY <2>1, BecomesOne
  <2>5. d' \in Good /\ Relaid(f, d') /\ \A k \in Output : Neat(f, d', k)
    BY <2>3, <2>4, ShadedNeat DEF Shuffled
  <2>6. Placed(d')
    BY <1>2, <2>3, <2>5, RelaidViews DEF Shuffled, Placed, Relaid
  <2>7. ASSUME NEW k \in Output, NEW x \in Window
        PROVE  /\ LeaflessAt(d', k, x) => LeaflessAt(d, k, x)
               /\ HoleAt(d', k, x) => HoleAt(d, k, x)
    BY <1>2, <2>3, <2>5, ShuffledViews DEF Neat
  <2>8. ASSUME NEW k \in Output, NEW x \in Window, MisplacedAt(d', k, x)
        PROVE  MisplacedAt(d, k, x) \/ Astray(x)
    <3>1. MisplacedAt(f, k, x)
      BY <2>5, <2>8 DEF Neat
    <3>2. CASE x \in u.leaves /\ ~(k = m /\ t = current(d, m))
      <4>1. d.mon[x] = k
        <5>1. x \in Still(d, k)
          BY <2>3, <3>1, RelaidViews DEF MisplacedAt, Shuffled
        <5> QED BY <5>1 DEF Still, Tiles, VISIBLEON
      <4>2. x \in Tree(d, m).leaves /\ k # m
        BY <2>2, <3>2 DEF Tree, t
      <4>3. CASE m \in d.on
        <5>1. a # d.grabc \/ b # d.grabc
          BY <1>1
        <5>2. Still(d, m) # {}
          BY <5>1 DEF Still
        <5>3. x # d.grabc
          BY <2>3, <3>1 DEF MisplacedAt, Still, Shuffled, Relaid
        <5>4. HoleAt(d, m, x)
          BY <1>3, <4>1, <4>2, <4>3, <5>2, <5>3 DEF HoleAt, Laid, VISIBLEON
        <5> QED BY <1>2, <5>4, FlawsAreAt DEF Astray
      <4> QED BY <4>1, <4>2, <4>3 DEF Astray
    <3> QED BY <2>3, <3>1, <3>2
  <2> QED BY <1>2, <2>5, <2>6, <2>7, <2>8, FlawsAreAt DEF Step, IInv, InPlace
<1>4. CASE /\ m \notin d.tiling
           /\ Becomes({[d EXCEPT !.geom[a] = d.geom[b], !.geom[b] = d.geom[a]]})
  <2> DEFINE G == [d.geom EXCEPT ![a] = d.geom[b], ![b] = d.geom[a]]
             f == [d EXCEPT !.geom = G]
  <2>1. Becomes({f})
    <3>1. [d EXCEPT !.geom[a] = d.geom[b], !.geom[b] = d.geom[a]] = f
      BY <1>2 DEF Layouts
    <3> HIDE DEF f
    <3> QED BY <1>4, <3>1
  <2>2. G \in [Window -> Boxes] /\ \A x \in Window \ {a, b} : G[x] = d.geom[x]
    BY <1>2 DEF Layouts
  <2> HIDE DEF G
  <2>3. f \in Layouts /\ Relaid(d, f) /\ f.root = d.root /\ f.geom = G
    BY <1>2, <2>2 DEF Layouts, Relaid
  <2> HIDE DEF f
  <2>4. f \in Good /\ Placed(f)
    BY <1>2, <2>3, RelaidSound, RelaidViews DEF Placed, Relaid
  <2>5. ASSUME NEW k \in Output PROVE Neat(d, f, k)
    <3>1. CASE k = m
      BY <1>4, <2>3, <3>1, UnlaidSettled, SettledNeat DEF Laid, Relaid
    <3>2. CASE k # m
      <4>1. ASSUME NEW x \in Window, d.mon[x] = k \/ f.mon[x] = k PROVE Same(d, f, x)
        BY <1>2, <2>2, <2>3, <3>2, <4>1 DEF Same, Relaid, Mapped
      <4> QED BY <1>2, <2>3, <4>1, ApartNeat DEF Laid, Relaid
    <3> QED BY <3>1, <3>2
  <2> QED BY <2>1, <2>4, <2>5, NeatStep
<1> QED BY <1>1, <1>3, <1>4


-----------------------------------------------------------------------------
(***************************************************************************)
(* The drops: only the window that is dropped may lose its place, or one   *)
(* that shares a tree with it that is not in the view of both.             *)
(***************************************************************************)
Fair(f) ==
    \A k \in Output, x \in Window \ {d.grabc} :
        /\ LeaflessAt(f, k, x) => LeaflessAt(d, k, x)
        /\ MisplacedAt(f, k, x) => MisplacedAt(d, k, x) \/ SharedElsewhere(d.grabc, x)

LEMMA FairIf ==
    ASSUME IInv, NEW f, Shuffled(d, f),
           \A k \in Output, x \in Window \ {d.grabc} :
             MisplacedAt(f, k, x) => MisplacedAt(d, k, x) \/ SharedElsewhere(d.grabc, x)
    PROVE  Fair(f)
BY ShuffledViews DEF Fair, IInv

LEMMA FairSame ==
    ASSUME IInv
    PROVE  Shuffled(d, d) /\ Fair(d)
BY DEF IInv, Shuffled, Relaid, Fair

LEMMA DroppedStep ==
    ASSUME IInv, d.grabc # None, NEW f \in Good, Relaid(d, f), Fair(f),
           NEW b \in Window \cup {None}, Becomes({[f EXCEPT !.grabc = None, !.target = b]})
    PROVE  Step
<1> DEFINE a == d.grabc
           g == [f EXCEPT !.grabc = None, !.target = b]
<1>1. d \in Layouts /\ f \in Layouts /\ a \in Window /\ f.grabc = a
  BY DEF IInv, Good, Layouts, Relaid
<1>2. /\ g \in Layouts /\ g.clients = f.clients /\ g.root = f.root /\ g.mon = f.mon
      /\ g.tags = f.tags /\ g.isfloating = f.isfloating /\ g.isfullscreen = f.isfullscreen
      /\ g.viewed = f.viewed /\ g.grabc = None /\ g.on = f.on /\ g.tiling = f.tiling
      /\ g.geom = f.geom
  BY <1>1 DEF Layouts
<1>3. Becomes({g})
  OBVIOUS
<1> HIDE DEF g
<1>4. d' = Shaded(g)
  BY <1>3, BecomesOne
<1>5. g \in Good /\ Placed(g)
  <2>1. g \in Good
    BY <1>2, GoodIf
  <2>2. Placed(f)
    BY RelaidViews DEF IInv, Placed, Relaid
  <2> QED BY <1>2, <2>1, <2>2 DEF Placed, Mapped
<1>6. d' \in Good /\ Relaid(g, d') /\ \A k \in Output : Neat(g, d', k)
  BY <1>4, <1>5, ShadedNeat
<1>7. Placed(d')
  BY <1>5, <1>6, RelaidViews DEF Placed, Relaid
<1>8. Dropped
  BY <1>2, <1>6 DEF Dropped, Relaid
<1>9. ASSUME NEW k \in Output, NEW x \in Window \ {a}
      PROVE  /\ LeaflessAt(g, k, x) => LeaflessAt(f, k, x)
             /\ MisplacedAt(g, k, x) => MisplacedAt(f, k, x)
  <2>1. Mapped(g) = Mapped(f)
    BY <1>2 DEF Mapped
  <2>2. \A y : VISIBLEON(g, y, k) <=> VISIBLEON(f, y, k)
    BY <1>2, <2>1 DEF VISIBLEON
  <2>3. Tiles(g, k) = Tiles(f, k)
    BY <1>2, <2>1, <2>2 DEF Tiles
  <2>4. /\ x \in Still(g, k) <=> x \in Still(f, k)
        /\ Tree(g, k) = Tree(f, k) /\ (Laid(g, k) <=> Laid(f, k))
    BY <1>1, <1>2, <2>3, NoneAssumption DEF Still, Laid, Tree, current
  <2> QED BY <1>2, <2>4 DEF LeaflessAt, MisplacedAt
<1>10. ASSUME NEW k \in Output, NEW x \in Window \ {a}
       PROVE  /\ LeaflessAt(d', k, x) => LeaflessAt(d, k, x)
              /\ MisplacedAt(d', k, x) => MisplacedAt(d, k, x) \/ SharedElsewhere(a, x)
  BY <1>6, <1>9 DEF Neat, Fair
<1>11. ASSUME NEW x \in Window PROVE InPlace(x)
  <2>1. CASE x = a
    BY <1>8, <2>1 DEF InPlace
  <2>2. CASE x # a
    BY <1>6, <1>8, <1>10, <2>2, FlawsAreAt DEF InPlace, IInv
  <2> QED BY <2>1, <2>2
<1> QED BY <1>6, <1>7, <1>11 DEF Step, IInv

LEMMA ReleaseLockedStep ==
    ASSUME IInv, ReleaseLocked
    PROVE  Step
<1>1. d \in Layouts /\ d \in Good /\ d.grabc # None /\ d.target \in Window \cup {None}
  BY DEF IInv, Good, Layouts, ReleaseLocked
<1>2. [d EXCEPT !.grabc = None] = [d EXCEPT !.grabc = None, !.target = d.target]
  BY <1>1 DEF Layouts
<1>3. Becomes({[d EXCEPT !.grabc = None, !.target = d.target]})
  BY <1>2 DEF ReleaseLocked
<1>4. Relaid(d, d) /\ Fair(d)
  BY DEF Relaid, Fair
<1> QED BY <1>1, <1>3, <1>4, DroppedStep

\* One tree that holds the window dropped is planted anew.
LEMMA ReplantedFair ==
    ASSUME IInv, d.grabc # None, NEW f, Shuffled(d, f), Fair(f),
           NEW m \in Output, NEW t \in Tag, NEW u \in TreeOf(Window),
           IsTree(u), u.leaves = f.root[m][t].leaves, d.grabc \in u.leaves
    PROVE  Shuffled(d, Replanted(f, m, t, u)) /\ Fair(Replanted(f, m, t, u))
<1> DEFINE g == Replanted(f, m, t, u)
           a == d.grabc
<1>1. /\ d \in Good /\ f \in Good /\ Relaid(d, f)
      /\ u.leaves = d.root[m][t].leaves
  BY DEF IInv, Shuffled
<1>2. /\ Shuffled(f, g)
      /\ \A k \in Output, x \in Window :
           MisplacedAt(g, k, x) =>
             \/ MisplacedAt(f, k, x)
             \/ x \in u.leaves /\ ~(k = m /\ t = current(f, m))
  BY <1>1, ReplantedIs
<1> HIDE DEF g
<1>3. Shuffled(d, g)
  BY <1>2, RelaidTwice DEF Shuffled
<1>4. ASSUME NEW k \in Output, NEW x \in Window \ {a}, MisplacedAt(g, k, x)
      PROVE  MisplacedAt(d, k, x) \/ SharedElsewhere(a, x)
  <2>1. CASE MisplacedAt(f, k, x)
    BY <2>1 DEF Fair
  <2>2. CASE x \in u.leaves /\ ~(k = m /\ t = current(f, m))
    <3>1. x \in Still(d, k)
      BY <1>3, <1>4, RelaidViews DEF MisplacedAt, Shuffled
    <3>2. d.mon[x] = k
      BY <3>1 DEF Still, Tiles, VISIBLEON
    <3>3. current(f, m) = current(d, m)
      BY <1>1, RelaidViews
    <3>4. {a, x} \subseteq d.root[m][t].leaves /\ (t = current(d, m) => m # d.mon[x])
      BY <1>1, <2>2, <3>2, <3>3
    <3> QED BY <3>4 DEF SharedElsewhere
  <2> QED BY <1>2, <1>4, <2>1, <2>2
<1> QED BY <1>3, <1>4, FairIf DEF g


\* swaptiled runs through all trees.
PlaceAt(order, i) == <<order[((i - 1) \div TAGCOUNT) + 1], ((i - 1) % TAGCOUNT) + 1>>

SwapIn(f, m, t, a, b) ==
    IF {a, b} \subseteq f.root[m][t].leaves
    THEN recalc([f EXCEPT !.root[m][t] = Swapped(@, a, b)], m, t) ELSE f

SwapNext(f, order, i, a, b) == SwapIn(f, PlaceAt(order, i)[1], PlaceAt(order, i)[2], a, b)

LEMMA RowOf ==
    ASSUME NEW T \in Nat \ {0}, NEW n \in Nat, NEW i \in 1..(n * T)
    PROVE  ((i - 1) \div T) + 1 \in 1..n
<1> DEFINE q == (i - 1) \div T
<1>1. n * T \in Nat /\ i - 1 \in Nat /\ i - 1 < n * T
  OBVIOUS
<1>2. q \in Nat /\ q * T <= i - 1
  BY <1>1
<1>3. q < n
  <2> HIDE DEF q
  <2>1. CASE q >= n
    <3>1. (q - n) * T >= 0
      BY <1>2, <2>1
    <3>2. (q - n) * T = q * T - n * T /\ q * T \in Nat
      BY <1>2, <2>1
    <3> QED BY <1>1, <1>2, <3>1, <3>2
  <2> QED BY <2>1, <1>2
<1> QED BY <1>2, <1>3

LEMMA PlaceAtType ==
    ASSUME NEW order \in Orders
    PROVE  /\ Len(order) * TAGCOUNT \in Nat
           /\ \A i \in 1..(Len(order) * TAGCOUNT) :
                PlaceAt(order, i)[1] \in Output /\ PlaceAt(order, i)[2] \in Tag
<1> DEFINE n == Cardinality(Output)
<1>1. n \in Nat /\ TAGCOUNT \in Nat \ {0}
  BY OutputAssumption, TagAssumption, FS_CardinalityType
<1>2. order \in [1..n -> Output]
  BY DEF Orders
<1> HIDE DEF n
<1>3. Len(order) = n
  BY <1>1, <1>2
<1>4. Len(order) * TAGCOUNT \in Nat
  BY <1>1, <1>3
<1>5. ASSUME NEW i \in 1..(Len(order) * TAGCOUNT)
      PROVE  PlaceAt(order, i)[1] \in Output /\ PlaceAt(order, i)[2] \in Tag
  <2>1. ((i - 1) \div TAGCOUNT) + 1 \in 1..n
    BY <1>1, <1>3, RowOf
  <2>2. i \in Nat \ {0}
    BY <1>4
  <2>3. ((i - 1) % TAGCOUNT) + 1 \in 1..TAGCOUNT
    BY <1>1, <2>2
  <2> QED BY <1>2, <2>1, <2>3 DEF PlaceAt, Tag
<1> QED BY <1>4, <1>5

LEMMA SwapInIs ==
    ASSUME NEW f \in Good, NEW m \in Output, NEW t \in Tag, NEW a \in Window, NEW b \in Window
    PROVE  \/ SwapIn(f, m, t, a, b) = f
           \/ \E u \in TreeOf(Window) :
                /\ IsTree(u) /\ u.leaves = f.root[m][t].leaves /\ a \in u.leaves
                /\ SwapIn(f, m, t, a, b) = Replanted(f, m, t, u)
<1> DEFINE u == Swapped(f.root[m][t], a, b)
<1>1. CASE {a, b} \subseteq f.root[m][t].leaves
  <2>1. f \in Layouts /\ f.root[m][t] \in TreeOf(Window) /\ IsTree(f.root[m][t])
    BY DEF Good, Sound, Layouts
  <2>2. u \in TreeOf(Window) /\ IsTree(u)
    BY <1>1, <2>1, SwappedIsTree, SwappedType
  <2>3. u.leaves = f.root[m][t].leaves
    BY DEF Swapped
  <2>4. [f EXCEPT !.root[m][t] = Swapped(@, a, b)] = [f EXCEPT !.root[m][t] = u]
    BY <2>1 DEF Layouts
  <2> HIDE DEF u
  <2>5. SwapIn(f, m, t, a, b) = Replanted(f, m, t, u)
    BY <1>1, <2>4 DEF SwapIn, Replanted
  <2> QED BY <1>1, <2>2, <2>3, <2>5
<1>2. CASE ~({a, b} \subseteq f.root[m][t].leaves)
  BY <1>2 DEF SwapIn
<1> QED BY <1>1, <1>2

LEMMA SwapInGood ==
    ASSUME NEW f \in Good, NEW m \in Output, NEW t \in Tag, NEW a \in Window, NEW b \in Window
    PROVE  SwapIn(f, m, t, a, b) \in Good
BY SwapInIs, ReplantedIs DEF Shuffled

LEMMA GoodLoop ==
    ASSUME NEW s \in Good, NEW n \in Nat, NEW G \in [(1..n) \X Good -> Good]
    PROVE  \E f \in [0..n -> Good] :
               f[0] = s /\ \A i \in 1..n : f[i] = G[<<i, f[i - 1]>>]
BY LoopExists

\* run is the loop of swaptiled.
Swapping(e, a, b, order, run) ==
    /\ run[0] = e
    /\ \A i \in 1..(Len(order) * TAGCOUNT) : run[i] = SwapNext(run[i - 1], order, i, a, b)
    /\ swaptiled(e, a, b, order) = run[Len(order) * TAGCOUNT]

LEMMA SwaptiledRuns ==
    ASSUME NEW e \in Good, NEW a \in Window, NEW b \in Window, NEW order \in Orders
    PROVE  \E run : Swapping(e, a, b, order, run)
<1> DEFINE n == Len(order) * TAGCOUNT
           run[i \in 0..n] == IF i = 0 THEN e ELSE SwapNext(run[i - 1], order, i, a, b)
           G == [q \in (1..n) \X Good |-> SwapNext(q[2], order, q[1], a, b)]
<1>1. n \in Nat /\ \A i \in 1..n : PlaceAt(order, i)[1] \in Output /\ PlaceAt(order, i)[2] \in Tag
  BY PlaceAtType
<1> HIDE DEF n
<1>2. \A f \in Good, i \in 1..n : SwapNext(f, order, i, a, b) \in Good
  BY <1>1, SwapInGood DEF SwapNext
<1>3. G \in [(1..n) \X Good -> Good]
  BY <1>2
<1>4. PICK f \in [0..n -> Good] : f[0] = e /\ \A i \in 1..n : f[i] = G[<<i, f[i - 1]>>]
  <2> HIDE DEF G
  <2> QED BY <1>1, <1>3, GoodLoop
<1>5. ASSUME NEW i \in 1..n PROVE f[i] = SwapNext(f[i - 1], order, i, a, b)
  <2>1. <<i, f[i - 1]>> \in (1..n) \X Good
    BY <1>1
  <2>2. G[<<i, f[i - 1]>>] = SwapNext(f[i - 1], order, i, a, b)
    BY <2>1
  <2> QED BY <1>4, <2>2
<1>6. f = [i \in 0..n |-> IF i = 0 THEN e ELSE SwapNext(f[i - 1], order, i, a, b)]
  <2> HIDE DEF G
  <2>1. DOMAIN f = 0..n /\ f[0] = e
    BY <1>4
  <2>2. \A i \in 0..n : i = 0 \/ i \in 1..n
    BY <1>1
  <2> QED BY <1>4, <1>5, <2>1, <2>2
<1>7. run = [i \in 0..n |-> IF i = 0 THEN e ELSE SwapNext(run[i - 1], order, i, a, b)]
  BY <1>6
<1>8. swaptiled(e, a, b, order) = run[n]
  BY DEF swaptiled, SwapNext, SwapIn, PlaceAt, run, n
<1> HIDE DEF run
<1>9. run[0] = e /\ \A i \in 1..n : run[i] = SwapNext(run[i - 1], order, i, a, b)
  <2>1. 0 \in 0..n /\ \A i \in 1..n : i \in 0..n /\ i # 0
    BY <1>1
  <2> QED BY <1>7, <2>1
<1> QED BY <1>8, <1>9 DEF Swapping, n

LEMMA SwaptiledFair ==
    ASSUME IInv, d.grabc # None, NEW b \in Window, NEW order \in Orders
    PROVE  Shuffled(d, swaptiled(d, d.grabc, b, order)) /\ Fair(swaptiled(d, d.grabc, b, order))
<1> DEFINE a == d.grabc
           n == Len(order) * TAGCOUNT
           S == {f \in Good : Shuffled(d, f) /\ Fair(f)}
<1>1. n \in Nat /\ \A i \in 1..n : PlaceAt(order, i)[1] \in Output /\ PlaceAt(order, i)[2] \in Tag
  BY PlaceAtType
<1>2. d \in Good /\ a \in Window
  BY DEF IInv, Good, Layouts
<1>3. PICK run : Swapping(d, a, b, order, run)
  BY <1>2, SwaptiledRuns
<1>4. run[0] \in S
  BY <1>2, <1>3 DEF Swapping, Shuffled, Relaid, Fair
<1>5. ASSUME NEW i \in 1..n, run[i - 1] \in S PROVE run[i] \in S
  <2> DEFINE f == run[i - 1]
             m == PlaceAt(order, i)[1]
             t == PlaceAt(order, i)[2]
  <2>1. f \in Good /\ Shuffled(d, f) /\ Fair(f) /\ m \in Output /\ t \in Tag
    BY <1>1, <1>5
  <2>2. run[i] = SwapIn(f, m, t, a, b)
    BY <1>3 DEF Swapping, SwapNext
  <2> HIDE DEF f, m, t
  <2>3. CASE run[i] = f
    BY <2>1, <2>3
  <2>4. CASE \E u \in TreeOf(Window) :
               /\ IsTree(u) /\ u.leaves = f.root[m][t].leaves /\ a \in u.leaves
               /\ run[i] = Replanted(f, m, t, u)
    <3>1. Shuffled(d, run[i]) /\ Fair(run[i])
      BY <2>1, <2>4, ReplantedFair
    <3> QED BY <3>1 DEF Shuffled
  <2> QED BY <1>2, <2>1, <2>2, <2>3, <2>4, SwapInIs
<1>6. run[n] \in S
  <2> HIDE DEF S, n
  <2> QED BY <1>1, <1>4, <1>5, LoopInvariant
<1> QED BY <1>3, <1>6 DEF Swapping


LEMMA MoveToEdgeFair ==
    ASSUME IInv, d.grabc # None, NEW b \in Window, b # d.grabc, d.mon[b] \in Output,
           NEW first \in BOOLEAN
    PROVE  /\ Shuffled(d, move_to_edge(d, d.grabc, b, first))
           /\ Fair(move_to_edge(d, d.grabc, b, first))
<1> DEFINE a == d.grabc
           m == d.mon[b]
           t == current(d, m)
           u == Opened(Removed(Tree(d, m), a), b, a, first)
<1>1. d \in Good /\ d \in Layouts /\ a \in Window /\ t \in Tag
  BY CurrentIsTag DEF IInv, Good, Layouts
<1>2. Shuffled(d, d) /\ Fair(d)
  BY FairSame
<1>3. CASE ~({a, b} \subseteq Tree(d, m).leaves)
  <2>1. move_to_edge(d, a, b, first) = d
    BY <1>3 DEF move_to_edge
  <2> QED BY <1>2, <2>1
<1>4. CASE {a, b} \subseteq Tree(d, m).leaves
  <2>1. Tree(d, m) \in TreeOf(Window) /\ IsTree(Tree(d, m))
    BY <1>1, TreeInView
  <2> DEFINE r == Removed(Tree(d, m), a)
  <2>2. r \in TreeOf(Window) /\ IsTree(r)
    BY <2>1, KeptIsTree, KeptType DEF Removed
  <2>3. r.leaves = Tree(d, m).leaves \ {a}
    BY DEF Removed, Kept
  <2>4. b \in r.leaves /\ a \notin r.leaves
    BY <1>4, <2>3
  <2>5. u \in TreeOf(Window) /\ IsTree(u)
    <3> HIDE DEF r
    <3>1. Opened(r, b, a, first) \in TreeOf(Window) /\ IsTree(Opened(r, b, a, first))
      BY <1>1, <2>2, <2>4, OpenedIsTree, OpenedType
    <3> QED BY <3>1 DEF r
  <2>6. u.leaves = Tree(d, m).leaves /\ a \in u.leaves
    <3>1. u.leaves = r.leaves \cup {a}
      BY DEF Opened
    <3> HIDE DEF r, u
    <3> QED BY <1>4, <2>3, <3>1
  <2>7. [d EXCEPT !.root[m][t] = Opened(Removed(@, a), b, a, first)] = [d EXCEPT !.root[m][t] = u]
    BY <1>1 DEF Layouts, Tree
  <2> HIDE DEF u
  <2>8. move_to_edge(d, a, b, first) = Replanted(d, m, t, u)
    BY <1>4, <2>7 DEF move_to_edge, Replanted
  <2>9. u.leaves = d.root[m][t].leaves
    BY <2>6 DEF Tree
  <2> HIDE DEF t
  <2> QED BY <1>1, <1>2, <2>5, <2>6, <2>8, <2>9, ReplantedFair
<1> QED BY <1>3, <1>4

LEMMA DropTileStep ==
    ASSUME IInv, DropTile
    PROVE  Step
<1> DEFINE a == d.grabc
           b == d.target
           back == {Elsewhere} \cup {Box(m, Tree(d, m), a) :
                                       m \in {m \in {d.mon[a]} \cap Output : a \in Tree(d, m).leaves}}
           free(e) == [e EXCEPT !.grabc = None, !.target = None]
<1>1. d \in Good /\ d \in Layouts /\ a # None /\ a \in Window /\ b \in Window \cup {None}
  BY DEF IInv, Good, Layouts, DropTile
<1>2. ASSUME NEW f, Becomes({free(f)}), Shuffled(d, f), Fair(f) PROVE Step
  BY <1>1, <1>2, DroppedStep DEF Shuffled
<1>3. \/ /\ b # None /\ d.mon[b] # None
         /\ \E first \in BOOLEAN :
              Becomes({free(IF a = b THEN d ELSE move_to_edge(d, a, b, first))})
      \/ \E w \in tiled_clients(d), order \in Orders : Becomes({free(swaptiled(d, a, w, order))})
      \/ \E box \in back : Becomes({free([d EXCEPT !.geom[a] = box])})
  <2>1. Becomes({free([d EXCEPT !.geom[a] = box]) : box \in back}) =>
          \E box \in back : Becomes({free([d EXCEPT !.geom[a] = box])})
    <3> DEFINE g(box) == free([d EXCEPT !.geom[a] = box])
    <3> HIDE DEF back, g
    <3>1. Becomes({g(box) : box \in back}) => \E box \in back : Becomes({g(box)})
      BY BecomesAny
    <3> QED BY <3>1 DEF g
  <2> HIDE DEF back, free
  <2> QED BY <2>1, Zenon DEF DropTile, free, back
<1>4. CASE /\ b # None /\ d.mon[b] # None
           /\ \E first \in BOOLEAN :
                Becomes({free(IF a = b THEN d ELSE move_to_edge(d, a, b, first))})
  <2>1. PICK first \in BOOLEAN :
          Becomes({free(IF a = b THEN d ELSE move_to_edge(d, a, b, first))})
    BY <1>4
  <2> HIDE DEF free
  <2>2. CASE a = b
    <3>1. Shuffled(d, d) /\ Fair(d)
      BY FairSame
    <3>2. (IF a = b THEN d ELSE move_to_edge(d, a, b, first)) = d
      BY <2>2
    <3>3. Becomes({free(d)})
      BY <2>1, <3>2
    <3> QED BY <1>2, <3>1, <3>3
  <2>3. CASE a # b
    <3>1. b \in Window /\ d.mon[b] \in Output
      BY <1>1, <1>4 DEF Layouts
    <3>2. /\ Becomes({free(move_to_edge(d, a, b, first))})
          /\ Shuffled(d, move_to_edge(d, a, b, first)) /\ Fair(move_to_edge(d, a, b, first))
      BY <1>1, <2>1, <2>3, <3>1, MoveToEdgeFair
    <3> QED BY <1>2, <3>2
  <2> QED BY <2>2, <2>3
<1>5. CASE \E w \in tiled_clients(d), order \in Orders : Becomes({free(swaptiled(d, a, w, order))})
  <2> HIDE DEF free
  <2>1. PICK w \in tiled_clients(d), order \in Orders : Becomes({free(swaptiled(d, a, w, order))})
    BY <1>5
  <2>2. w \in Window
    BY <1>1, MappedWindows DEF tiled_clients, Tiles
  <2>3. Shuffled(d, swaptiled(d, a, w, order)) /\ Fair(swaptiled(d, a, w, order))
    BY <1>1, <2>2, SwaptiledFair
  <2> QED BY <1>2, <2>1, <2>3
<1>6. CASE \E box \in back : Becomes({free([d EXCEPT !.geom[a] = box])})
  <2> HIDE DEF free, back
  <2>1. PICK box \in back : Becomes({free([d EXCEPT !.geom[a] = box])})
    BY <1>6
  <2>2. box \in Boxes
    <3>1. \A m \in Output : Box(m, Tree(d, m), a) \in Boxes
      BY <1>1, TreeInView DEF Boxes
    <3> QED BY <2>1, <3>1 DEF back, Boxes
  <2> DEFINE G == [d.geom EXCEPT ![a] = box]
             f == [d EXCEPT !.geom = G]
  <2>3. f = [d EXCEPT !.geom[a] = box]
    BY <1>1 DEF Layouts
  <2>4. G \in [Window -> Boxes] /\ \A x \in Window \ {a} : G[x] = d.geom[x]
    BY <1>1, <2>2 DEF Layouts
  <2> HIDE DEF G
  <2>5. f \in Layouts /\ Relaid(d, f) /\ f.root = d.root /\ f.geom = G
    BY <1>1, <2>4 DEF Layouts, Relaid
  <2> HIDE DEF f
  <2>6. Shuffled(d, f)
    BY <1>1, <2>5, RelaidSound DEF Shuffled
  <2>7. ASSUME NEW k \in Output, NEW x \in Window \ {a}, MisplacedAt(f, k, x)
        PROVE  MisplacedAt(d, k, x)
    <3>1. /\ Still(f, k) = Still(d, k) /\ current(f, k) = current(d, k)
          /\ Laid(f, k) <=> Laid(d, k)
      BY <2>5, RelaidViews
    <3> QED BY <2>4, <2>5, <2>7, <3>1 DEF MisplacedAt, Tree
  <2>8. Fair(f)
    BY <2>6, <2>7, FairIf
  <2> QED BY <1>2, <2>1, <2>3, <2>6, <2>8
<1> QED BY <1>3, <1>4, <1>5, <1>6

-----------------------------------------------------------------------------
LEMMA InitIInv == Init => IInv
<1> SUFFICES ASSUME Init PROVE IInv
  OBVIOUS
<1>1. Empty \in TreeOf(Window) /\ IsTree(Empty) /\ Empty.leaves = {}
  BY EmptyIsTree DEF Empty
<1>2. {1} \in Views
  BY TagAssumption DEF Views, Tag
<1>3. Elsewhere \in Boxes
  BY DEF Boxes
<1>4. <<>> \in Seq(Window) /\ Distinct(<<>>)
  BY DEF Distinct
<1>5. d \in Layouts
  BY <1>1, <1>2, <1>3, <1>4 DEF Init, Layouts
<1>6. Sound(d)
  BY <1>1, <1>4 DEF Init, Sound
<1>7. Placed(d)
  BY DEF Init, Placed
<1> QED BY <1>5, <1>6, <1>7 DEF IInv, Good

LEMMA NextStep == IInv /\ Next => Step
<1> SUFFICES ASSUME IInv, Next PROVE Step
  OBVIOUS
<1>1. ASSUME NEW c \in Window,
             \/ MapNotify(c) \/ UnmapNotify(c) \/ settags(c) \/ ToggleFloating(c)
             \/ ToggleFullscreen(c) \/ SetMon(c) \/ DragTile(c)
      PROVE  Step
  BY <1>1, MapNotifyStep, UnmapNotifyStep, SettagsStep, ToggleFloatingStep,
     ToggleFullscreenStep, SetMonStep, DragTileStep
<1>2. ASSUME NEW m \in Output,
             \/ view(m) \/ setlayout(m) \/ swapdir(m)
             \/ SwitchOn(m) \/ Sleep(m) \/ SwitchOff(m) \/ Unplug(m)
      PROVE  Step
  BY <1>2, ViewStep, SetlayoutStep, SwapdirStep, SwitchStep, UnplugStep
<1>3. ASSUME Motion \/ DropTile \/ ReleaseLocked PROVE Step
  BY <1>3, MotionStep, DropTileStep, ReleaseLockedStep
<1> QED BY <1>1, <1>2, <1>3 DEF Next

LEMMA Invariance == Spec => []IInv
<1>1. IInv /\ UNCHANGED d => IInv'
  BY DEF IInv, Good, Layouts, Sound, Placed, Mapped
<1>2. IInv /\ [Next]_d => IInv'
  BY <1>1, NextStep DEF Step
<1> QED BY InitIInv, <1>2, PTL DEF Spec

(***************************************************************************)
(* No tree of any output and tag is broken, or names a window that is not  *)
(* mapped: dwindle_remove_client, called by unmapnotify, leaves none.      *)
(***************************************************************************)
THEOREM TreesStaySound == Spec => []TreesAreSound
<1>1. IInv => TreesAreSound
  BY DEF IInv, Good, Sound, TreesAreSound
<1> QED BY <1>1, Invariance, PTL

(***************************************************************************)
(* No handler of main.c that ends in arrange leaves a tile without a leaf, *)
(* or a hole among the tiles; only a drop may.                             *)
(***************************************************************************)
THEOREM LeavesStayTiles == Spec => LeavesAreTiles
<1> DEFINE Leaves == \A c \in Window :
             /\ Leafless(d', c) => Leafless(d, c) \/ (Dropped /\ c = d.grabc)
             /\ Hole(d', c) => Hole(d, c) \/ Dropped
<1>1. IInv /\ Next => Leaves
  BY NextStep DEF Step, InPlace
<1>2. IInv /\ [Next]_d => [Leaves]_d
  BY <1>1
<1> QED BY <1>2, Invariance, PTL DEF Spec, LeavesAreTiles

(***************************************************************************)
(* Every tile stays where its leaf is, but for the cases that the property *)
(* names: what a handler changes in a tree, it lays out.                   *)
(***************************************************************************)
THEOREM TilesStayInPlace == Spec => TilesAreInPlace
<1> DEFINE Places == \A c \in Window : Misplaced(d', c) =>
             \/ Misplaced(d, c) \/ HoleBeside(c) \/ Astray(c)
             \/ Dropped /\ (c = d.grabc \/ SharedElsewhere(d.grabc, c))
<1>1. IInv /\ Next => Places
  BY NextStep DEF Step, InPlace
<1>2. IInv /\ [Next]_d => [Places]_d
  BY <1>1
<1> QED BY <1>2, Invariance, PTL DEF Spec, TilesAreInPlace
=============================================================================
