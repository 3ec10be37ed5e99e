SPECIFICATION Spec
CONSTANTS
    MaxMessages = 6
    Writers = 2
    SaveEvery = 3
    MaxUncompressed = 2
    MaxContext = 1
    MaxCrashes = 1
    MaxCloses = 1
    MaxCompactions = 1
    Windows = {}
INVARIANTS
    TypeOK
    NumbersGrow
    NothingHidden
    RecordedIsKept
\* Every message is recorded: the bound.
CHECK_DEADLOCK FALSE
