\* Turns may all have returned.
SPECIFICATION Spec
CONSTANTS
    Turns = {t1, t2, t3, t4}
    None = None
SYMMETRY AnyTurn
INVARIANTS
    StopReaches
    NeverStuck
    FactsAreOwn
    UserHearsOwn
CHECK_DEADLOCK FALSE
