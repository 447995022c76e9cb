SPECIFICATION Spec
CONSTANTS
    Dir = {home, away}
    Home = home
    Own = Own
    NoDir = NoDir
    Good <- GoodTexts
    Bad <- BadTexts
INVARIANTS
    UpToDate
    CallbacksHaveState
PROPERTIES
    ChangesAreLoaded
