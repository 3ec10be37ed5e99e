SPECIFICATION LiveSpec
CONSTANTS
    Callbacks = {c1, c2}
    MaxTxns = 2
    MaxGoals = 2
    MaxMishaps = 1
INVARIANTS
    OneLoopPerGoal
    PendingIsOpen
    WaitingGoalHasRequest
PROPERTIES
    RefusedNeverRuns
    StepIsOneUnit
    ApprovedGoalContinues
CHECK_DEADLOCK FALSE
