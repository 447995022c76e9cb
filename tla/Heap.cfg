SPECIFICATION Spec
CONSTANTS
    Window = {w1, w2, w3, w4}
    Node = {n1, n2, n3, n4, n5, n6, n7}
    None = None
SYMMETRY AnyWindow
INVARIANTS
    Linked
    PrunesExactly
PROPERTIES
    Implements
