SPECIFICATION LiveSpec
CONSTANTS
    Calls = {c1, c2, c3}
    FailureThreshold = 2
    SuccessThreshold = 3
    ResetTimeout = 2
INVARIANTS
    NotWedged
    ProbesBounded
PROPERTIES
    OpenIsTested
    TestPeriodEnds
