------------------------------- MODULE Tiling -------------------------------
(***************************************************************************)
(* What the dwindle tree of a tag promises: windows open beside a leaf,    *)
(* leave, change places or move next to another leaf, all the others stay  *)
(* where they are relative to each other, and it remains a tree.           *)
(***************************************************************************)
EXTENDS Trees

CONSTANT Window

VARIABLE tree

Open(c) ==
    /\ c \notin tree.leaves
    /\ \/ tree.leaves = {} /\ tree' = [leaves |-> {c}, splits |-> {}]
       \/ \E at \in tree.leaves, first \in BOOLEAN : tree' = Opened(tree, at, c, first)

Keep(S) == tree' = Kept(tree, S)

Swap(a, b) ==
    /\ {a, b} \subseteq tree.leaves
    /\ tree' = Swapped(tree, a, b)

Move(a, b) ==
    /\ {a, b} \subseteq tree.leaves /\ a # b
    /\ \E first \in BOOLEAN : tree' = Opened(Removed(tree, a), b, a, first)

Init == tree = Empty

Next ==
    \/ \E c \in Window : Open(c)
    \/ \E S \in SUBSET Window : Keep(S)
    \/ \E a, b \in Window : Swap(a, b) \/ Move(a, b)

Spec == Init /\ [][Next]_tree

(***************************************************************************)
(* The splits of the leaves always make a tree.                            *)
(***************************************************************************)
Arboreal == tree \in TreeOf(Window) /\ IsTree(tree)
=============================================================================
