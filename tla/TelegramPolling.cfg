\* All lives may be over.
SPECIFICATION Spec
CONSTANTS
    MaxLives = 3
    MaxUp = 2
    MaxRetries = 1
    MaxErrors = 2
INVARIANTS
    OnePoller
PROPERTIES
    Reconnects
CHECK_DEADLOCK FALSE
