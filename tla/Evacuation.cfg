SPECIFICATION Spec
CONSTANTS
    Client = {w1, w2}
    Monitor = {m1, m2, m3}
    l1 = l1
    l2 = l2
    Stack <- NoLayers
    Locker = {}
    NoWin = NoWin
    OldSurface = OldSurface
    NoMon = NoMon
    NoLock = NoLock
    TAGCOUNT = 1
    Animations = FALSE
    MoveBound = FALSE
    Outcomes = {TRUE}
    RuleTags <- NoRule
SYMMETRY Symmetry
CHECK_DEADLOCK FALSE
INVARIANTS
    ListsAgree
PROPERTIES
    Evacuated
    Adopted
    PluggingMovesNothing
