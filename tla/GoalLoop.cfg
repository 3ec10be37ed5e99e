\* A goal that is over, and one that waits, stop.
SPECIFICATION Spec
CONSTANTS
    Files = {f1}
    PlanSizes = {1}
    MaxRetry = 1
    MaxReplan = 1
    MaxCycles = 2
    Milestones = 2
    MaxSupplements = 1
    MaxResumes = 1
    MaxCrashes = 1
INVARIANTS
    TypeOK
    OutcomeRecorded
    ReplansBounded
PROPERTIES
    LoopEnds
CHECK_DEADLOCK FALSE
