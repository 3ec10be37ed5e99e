\* A JSON call that is blocked leaves the state machine in EXECUTING_TOOL.
SPECIFICATION Spec
CONSTANTS
    Budgets = {1, 2}
    ToolBudget = 2
    MaxBudget = 2
    EditsAllowed = 1
    EditsStop = 3
    BlocksStop = 2
    FailuresStop = 2
    MaxCalls = 2
INVARIANT NeverThrows
CHECK_DEADLOCK FALSE
