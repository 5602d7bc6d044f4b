SPECIFICATION FairSpec
CONSTANTS
    Calls = {c1, c2}
    Handles = {h1, h2}
    Host = "web-worker"
    Options <- MCTimeouts
    InitialOptions <- MCSingle
    Undefined = Undefined
CHECK_DEADLOCK FALSE
PROPERTIES
    CallsSettle
    QuietPoolEmpties
