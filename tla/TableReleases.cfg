SPECIFICATION Spec
CONSTANTS
    byDate = byDate
    byTag = byTag
    plain = plain
    unique = unique
    NoStore = NoStore
    Names = {byDate, byTag}
    Shapes = {plain, unique}
    Releases <- MCReleases
    InitialStores <- MCInitialStores
INVARIANT TypeOK Settled RowsMigrated
PROPERTY RaisingIsExact OldCodeChangesNothing
