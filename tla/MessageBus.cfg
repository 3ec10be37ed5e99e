SPECIFICATION BusSpec
CONSTANTS
    MaxMessages = 4
    MaxCopies = 2
    MaxPending = 2
INVARIANTS
    BusTypeOK
    HandedOnce
PROPERTIES
    DiscardedStaysOut
    EveryTextSettles
\* The users may have nothing more to say.
CHECK_DEADLOCK FALSE
