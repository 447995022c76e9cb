------------------------------- MODULE Trees -------------------------------
(***************************************************************************)
(* Ordered binary trees of windows, without nodes and pointers.  An inner  *)
(* node is a split <<L, R>>: the sets of windows in its left (or upper)    *)
(* and right (or lower) half.  The splits determine the tree.              *)
(***************************************************************************)
EXTENDS Integers, FiniteSets

Empty == [leaves |-> {}, splits |-> {}]

Area(s) == s[1] \cup s[2]
Separates(s, v, w) == (v \in s[1] /\ w \in s[2]) \/ (w \in s[1] /\ v \in s[2])

\* Halves are not empty, areas are nested or disjoint, one split is between two leaves.
IsTree(t) ==
    /\ \A s \in t.splits :
         s[1] # {} /\ s[2] # {} /\ s[1] \cap s[2] = {} /\ Area(s) \subseteq t.leaves
    /\ \A r, s \in t.splits :
         r = s \/ Area(r) \cap Area(s) = {}
               \/ (\E i \in {1, 2} : Area(r) \subseteq s[i] \/ Area(s) \subseteq r[i])
    /\ \A v, w \in t.leaves : v # w => \E s \in t.splits : Separates(s, v, w)

TreeOf(W) == [leaves : SUBSET W, splits : SUBSET ((SUBSET W) \X (SUBSET W))]

\* Leaf at is split in two; the window c gets the first half or the second.
Grown(H, at, c) == IF at \in H THEN H \cup {c} ELSE H
Opened(t, at, c, first) ==
    [leaves |-> t.leaves \cup {c},
     splits |-> {<<Grown(s[1], at, c), Grown(s[2], at, c)>> : s \in t.splits}
                    \cup {IF first THEN <<{c}, {at}>> ELSE <<{at}, {c}>>}]

\* Only the windows of S stay; the sibling of a leaf that goes takes its parent's place.
Kept(t, S) ==
    [leaves |-> t.leaves \cap S,
     splits |-> {r \in {<<s[1] \cap S, s[2] \cap S>> : s \in t.splits} :
                    r[1] # {} /\ r[2] # {}}]
Removed(t, c) == Kept(t, t.leaves \ {c})

\* Windows v and w change places.
Renamed(u, v, w) == IF u = v THEN w ELSE IF u = w THEN v ELSE u
SwappedIn(H, v, w) == {Renamed(u, v, w) : u \in H}
Swapped(t, v, w) ==
    [leaves |-> t.leaves,
     splits |-> {<<SwappedIn(s[1], v, w), SwappedIn(s[2], v, w)>> : s \in t.splits}]

\* Where a leaf is: in which half of each area around it, from the outermost area inwards.
Place(t, c) ==
    LET around == {s \in t.splits : c \in Area(s)}
        depth(s) == Cardinality({r \in around : Area(s) \subseteq Area(r)})
    IN  {<<depth(s), c \in s[1]>> : s \in around}
=============================================================================
