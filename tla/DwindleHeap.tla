---------------------------- MODULE DwindleHeap ----------------------------
(***************************************************************************)
(* One dwindle tree as main.c builds it: nodes on the heap with pointers   *)
(* to their children and their parent.  A heap h is the root pointer and   *)
(* the contents of the nodes that are allocated.  Boxes and split ratios   *)
(* are left out; which half a window gets (the cursor decides) and which   *)
(* edge it is dropped on are inputs.                                       *)
(***************************************************************************)
EXTENDS Trees, Sequences, SequencesExt

CONSTANTS
    Window,     \* clients
    Node,       \* addresses
    None        \* NULL

ASSUME NoneAssumption == None \notin Window \cup Node
ASSUME WindowAssumption == IsFiniteSet(Window)
\* Memory for the nodes of one tree: without it ecalloc ends the program.
ASSUME NodeAssumption ==
    IsFiniteSet(Node) /\ Cardinality(Node) >= 2 * Cardinality(Window) - 1

VARIABLES
    root, node,     \* the root pointer, and the contents of each allocated address
    meaning         \* the tree of splits that they mean, which no action reads

heap == [root |-> root, node |-> node]

LeafOf(c) == [is_node |-> FALSE, client |-> c, parent |-> None, children |-> <<>>]

\* dwindle_new_node returns any address that is not in use.
NewNode(h) == CHOOSE n \in Node : n \notin DOMAIN h.node
Allocated(h, n, content) ==
    [h EXCEPT !.node = [m \in DOMAIN @ \cup {n} |-> IF m = n THEN content ELSE @[m]]]
Freed(h, N) == [h EXCEPT !.node = [n \in DOMAIN @ \ N |-> @[n]]]

\* The leaf of a window among the nodes below n: the first child's comes first.
find_leaf(h, c) ==
    LET found[n \in DOMAIN h.node] ==
            IF h.node[n].is_node
            THEN IF found[h.node[n].children[1]] # None
                 THEN found[h.node[n].children[1]] ELSE found[h.node[n].children[2]]
            ELSE IF h.node[n].client = c THEN n ELSE None
    IN  IF h.root = None THEN None ELSE found[h.root]

first_leaf(h, from) ==
    LET down[n \in DOMAIN h.node] ==
            IF h.node[n].is_node THEN down[h.node[n].children[1]] ELSE n
    IN  IF from = None THEN None ELSE down[from]

IsSecond(h, n) == h.node[n].parent # None /\ h.node[h.node[n].parent].children[2] = n

\* A freed leaf has no successor that can be relied on: None stands for it.
next_leaf(h, leaf) ==
    LET up[n \in DOMAIN h.node] == IF IsSecond(h, n) THEN up[h.node[n].parent] ELSE n
    IN  IF leaf \notin DOMAIN h.node \/ h.node[up[leaf]].parent = None
        THEN None
        ELSE first_leaf(h, h.node[h.node[up[leaf]].parent].children[2])

\* Mutant: the first child pointer is overwritten, whichever names old.
RelinkedFirst(h, parent, old, new) ==
    IF parent = None THEN [h EXCEPT !.root = new]
    ELSE [h EXCEPT !.node[parent].children[1] = new]

\* The child pointer of parent, or the root pointer, that names old comes to name new.
Relinked(h, parent, old, new) ==
    IF parent = None THEN [h EXCEPT !.root = new]
    ELSE IF h.node[parent].children[1] = old
    THEN [h EXCEPT !.node[parent].children[1] = new]
    ELSE [h EXCEPT !.node[parent].children[2] = new]

-----------------------------------------------------------------------------
\* A leaf for c and an inner node for it and the leaf at take the place of at.
Bisected(h, c, at, first) ==
    LET leaf   == NewNode(h)
        one    == Allocated(h, leaf, LeafOf(c))
        inner  == NewNode(one)
        above  == h.node[at].parent
        halves == IF first THEN <<leaf, at>> ELSE <<at, leaf>>
        two    == Allocated(one, inner, [is_node |-> TRUE, client |-> None,
                                         parent |-> above, children |-> halves])
    IN  Relinked([two EXCEPT !.node[at].parent = inner, !.node[leaf].parent = inner],
                 above, at, inner)

insert(h, c, focused, first) ==
    LET leaf == NewNode(h)
        at   == IF find_leaf(h, focused) = None
                THEN first_leaf(h, h.root) ELSE find_leaf(h, focused)
    IN  IF h.root = None
        THEN [Allocated(h, leaf, LeafOf(c)) EXCEPT !.root = leaf]
        ELSE Bisected(h, c, at, first)

insert_at_edge(h, c, target, first) ==
    IF find_leaf(h, target) = None THEN h ELSE Bisected(h, c, find_leaf(h, target), first)

\* Mutant: the sibling keeps pointing to the parent that is freed.
remove_leafUnlinked(h, leaf) ==
    LET parent  == h.node[leaf].parent
        sibling == h.node[parent].children[IF h.node[parent].children[1] = leaf THEN 2 ELSE 1]
    IN  IF leaf = None THEN h
        ELSE IF parent = None THEN [Freed(h, {leaf}) EXCEPT !.root = None]
        ELSE Freed(Relinked(h, h.node[parent].parent, parent, sibling), {leaf, parent})

remove_leaf(h, leaf) ==
    LET parent  == h.node[leaf].parent
        above   == h.node[parent].parent
        sibling == h.node[parent].children[IF h.node[parent].children[1] = leaf THEN 2 ELSE 1]
    IN  IF leaf = None THEN h
        ELSE IF parent = None THEN [Freed(h, {leaf}) EXCEPT !.root = None]
        ELSE Freed(Relinked([h EXCEPT !.node[sibling].parent = above], above, parent, sibling),
                   {leaf, parent})

\* Mutant: the successor is looked up after the removal.
RoundLate(r, S) ==
    LET h == r.heap
        after == IF h.node[r.leaf].client \in S THEN h ELSE remove_leaf(h, r.leaf)
    IN  IF r.leaf = None THEN r ELSE [heap |-> after, leaf |-> next_leaf(after, r.leaf)]

\* One round of the loop of dwindle: the leaf of a window that is not in S goes.
Round(r, S) ==
    LET h == r.heap
        after == IF h.node[r.leaf].client \in S THEN h ELSE remove_leaf(h, r.leaf)
    IN  IF r.leaf = None THEN r ELSE [heap |-> after, leaf |-> next_leaf(h, r.leaf)]

pruned(h, S) ==
    LET run[i \in 0..Cardinality(Window)] ==
            IF i = 0 THEN [heap |-> h, leaf |-> first_leaf(h, h.root)] ELSE Round(run[i - 1], S)
    IN  run[Cardinality(Window)].heap

move_to_edge(h, a, b, first) == insert_at_edge(remove_leaf(h, find_leaf(h, a)), a, b, first)

swap(h, a, b) ==
    [h EXCEPT !.node[find_leaf(h, a)].client = b, !.node[find_leaf(h, b)].client = a]

-----------------------------------------------------------------------------
\* The tree of splits that the pointers mean.
MeaningOf(h) ==
    LET below[n \in DOMAIN h.node] ==
            IF h.node[n].is_node THEN UNION {below[m] : m \in Range(h.node[n].children)}
            ELSE {h.node[n].client}
        halves(n) == <<below[h.node[n].children[1]], below[h.node[n].children[2]]>>
    IN  [leaves |-> IF h.root = None THEN {} ELSE below[h.root],
         splits |-> {halves(n) : n \in {m \in DOMAIN h.node : h.node[m].is_node}}]

Becomes(h) == root' = h.root /\ node' = h.node /\ meaning' = MeaningOf(h)

Init == root = None /\ node = <<>> /\ meaning = Empty

\* A command on a window without a leaf changes nothing and is left out.
Has(c) == find_leaf(heap, c) # None

Insert(c, focused, first) ==
    ~Has(c) /\ Becomes(insert(heap, c, focused, first))
Prune(S) == Becomes(pruned(heap, S))

RemoveClient(c) == Has(c) /\ Becomes(remove_leaf(heap, find_leaf(heap, c)))
MoveToEdge(a, b, first) ==
    a # b /\ Has(a) /\ Has(b) /\ Becomes(move_to_edge(heap, a, b, first))
Swap(a, b) == a # b /\ Has(a) /\ Has(b) /\ Becomes(swap(heap, a, b))
FreeTree == Becomes([Freed(heap, DOMAIN node) EXCEPT !.root = None])

Next ==
    \/ \E c \in Window, focused \in Window \cup {None}, first \in BOOLEAN :
            Insert(c, focused, first)
    \/ \E c \in Window : RemoveClient(c)
    \/ \E S \in SUBSET Window : Prune(S)
    \/ \E a, b \in Window, first \in BOOLEAN : MoveToEdge(a, b, first)
    \/ \E a, b \in Window : Swap(a, b)
    \/ FreeTree

Spec == Init /\ [][Next]_<<root, node, meaning>>

-----------------------------------------------------------------------------
Hanging ==
    LET hangs[k \in 0..Cardinality(Node)] ==
            IF k = 0 THEN {root} \ {None}
            ELSE hangs[k - 1] \cup UNION {Range(node[n].children) : n \in hangs[k - 1]}
    IN  hangs[Cardinality(Node)]

(***************************************************************************)
(* The pointers make sense: children and parents name each other, every    *)
(* inner node has two children and every leaf a window.  Nothing leaks:    *)
(* every node that is allocated hangs from the root.                       *)
(***************************************************************************)
Linked ==
    /\ root = None \/ (root \in DOMAIN node /\ node[root].parent = None)
    /\ \A n \in DOMAIN node :
         IF node[n].is_node
         THEN \A i \in {1, 2} : LET child == node[n].children[i]
                                IN  child \in DOMAIN node /\ node[child].parent = n
         ELSE node[n].client \in Window
    /\ DOMAIN node = Hanging

(***************************************************************************)
(* Each function does to the tree that the pointers mean what module       *)
(* Tiling promises: the nodes implement the tree of splits.                *)
(***************************************************************************)
Promise == INSTANCE Tiling WITH tree <- meaning

Implements == Promise!Spec

(***************************************************************************)
(* "Find the successor before removal promotes and frees the parent": the  *)
(* loop of dwindle visits every leaf, whichever of them it removes on the  *)
(* way, and removes the leaves of all windows outside S and no other.      *)
(***************************************************************************)
PrunesExactly ==
    \A S \in SUBSET Window : MeaningOf(pruned(heap, S)) = Kept(meaning, S)
=============================================================================
