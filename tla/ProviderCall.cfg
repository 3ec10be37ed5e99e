\* A breaker can end up refusing for good: then nothing but the clock moves.
SPECIFICATION Spec
CONSTANTS
    Calls = {c1, c2}
    FailureThreshold = 2
    SuccessThreshold = 2
    ResetTimeout = 2
PROPERTIES
    UsesBreaker
    StopIsNoEvidence
CHECK_DEADLOCK FALSE
