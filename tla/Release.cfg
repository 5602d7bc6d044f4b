SPECIFICATION Spec
CONSTANTS
    core = core
    app = app
    Order <- MCOrder
    Deps <- MCDeps
    Beginnings <- MCBeginnings
    Bumps = {0, 1, 2}
    MaxCommits = 2
    MaxFaults = 1
CHECK_DEADLOCK FALSE
INVARIANTS
    RecordIsTrue
    Installable
PROPERTIES
    VersionsRise
    Settled
