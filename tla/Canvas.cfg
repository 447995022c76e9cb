SPECIFICATION Spec
CONSTANTS
    Client = {w1}
    Monitor = {m1, m2}
    NoMon = NoMon
    TAGCOUNT = 2
    Scopes <- BothScopes
    m1 = m1
    m2 = m2
INVARIANTS
    TypeOK
PROPERTIES
    FloatingSurvivesCanvas
    BoxesKeepCoordinates
    FullscreenKeepsSpot
    LayersFollowState
