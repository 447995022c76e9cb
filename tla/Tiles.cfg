SPECIFICATION Spec
CONSTANTS
    Window = {w1, w2}
    Output = {o1}
    TAGCOUNT = 2
    None = None
SYMMETRY AnyWindow
INVARIANTS
    TreesAreSound
PROPERTIES
    LeavesAreTiles
    TilesAreInPlace
