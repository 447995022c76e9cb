SPECIFICATION Spec
CONSTANTS
    Window = {w1, w2}
    Output = {o1}
    TAGCOUNT = 1
    None = None
SYMMETRY AnyWindow
INVARIANTS
    DragEnds
