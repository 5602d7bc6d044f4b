SPECIFICATION Spec
CONSTANTS
    Calls = {c1, c2}
    Handles = {h1, h2, h3}
    Host = "worker-threads"
    Options <- MCOptions
    InitialOptions <- MCInitial
    Undefined = Undefined
SYMMETRY MCSymmetry
CHECK_DEADLOCK FALSE
INVARIANTS
    TypeOK
    WaitingHeldOnce
    WatchdogGuards
    IdleMembers
    OptionsBind
    OldestIsRunning
    CleanResults
PROPERTIES
    Promises
