SPECIFICATION Spec
CONSTANTS
    Client = {w1, w2}
    Monitor = {m1}
    l1 = l1
    l2 = l2
    Stack <- NoLayers
    Locker = {}
    NoWin = NoWin
    OldSurface = OldSurface
    NoMon = NoMon
    NoLock = NoLock
    TAGCOUNT = 2
    Animations = TRUE
    MoveBound = TRUE
    Outcomes = {TRUE}
    RuleTags <- SomeRules
SYMMETRY Symmetry
CHECK_DEADLOCK FALSE
INVARIANTS
    TypeOK
    ShownIsVisible
    TagsNonEmpty
PROPERTIES
    KeyboardFollowsView
    OutputsKeepTags
