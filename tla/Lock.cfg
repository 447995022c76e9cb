SPECIFICATION Spec
CONSTANTS
    Client = {w1}
    Monitor = {m1, m2}
    l1 = l1
    l2 = l2
    Stack <- OneLayer
    Locker = {k1, k2}
    NoWin = NoWin
    OldSurface = OldSurface
    NoMon = NoMon
    NoLock = NoLock
    TAGCOUNT = 1
    Animations = FALSE
    MoveBound = FALSE
    Outcomes = {TRUE, FALSE}
    RuleTags <- NoRule
SYMMETRY Symmetry
CHECK_DEADLOCK FALSE
INVARIANTS
    LiveMonitors
    LockHolds
    LayoutIsUsable
PROPERTIES
    LockedKeyboard
    LockOwnership
    SleepKeepsWindows
