SPECIFICATION Spec
CONSTANTS
    Key = {j, k}
    VtKeys = {k}
    Window = {v, w}
    LockSurface = LockSurface
    None = None
    Kinds <- TwoKinds
    Buttons = 2
INVARIANTS
    RunsWhatIsHeld
    OneConstraint
    ConstraintIsFocused
PROPERTIES
    HeldButtonHoldsFocus
    RepeatEndsInLock
