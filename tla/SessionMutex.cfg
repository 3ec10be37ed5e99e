SPECIFICATION MutexLiveSpec
CONSTANTS
    MaxOps = 4
    MayTimeOut = TRUE
    MayClean = TRUE
INVARIANTS
    BeginsInTurn
PROPERTIES
    EveryOpEnds
\* Every operation is over and none calls again: the bound.
CHECK_DEADLOCK FALSE
