\* A turn that returned stops.
SPECIFICATION Spec
CONSTANTS
    Budgets = {1, 2}
    ToolBudget = 2
    MaxBudget = 2
    EditsAllowed = 1
    EditsStop = 3
    BlocksStop = 2
    FailuresStop = 2
    MaxCalls = 2
INVARIANTS
    StepsBounded
    FsmFollows
    OneRequestAfterStop
    NothingRunsUnasked
PROPERTIES
    TurnEnds
CHECK_DEADLOCK FALSE
