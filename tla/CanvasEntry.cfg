SPECIFICATION Spec
CONSTANTS
    Client = {w1}
    Monitor = {m1, m2}
    NoMon = NoMon
    TAGCOUNT = 2
    Scopes <- TagsOfOne
    m1 = m1
    m2 = m2
PROPERTIES
    EntryTakesPositions
