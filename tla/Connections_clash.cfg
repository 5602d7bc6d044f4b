SPECIFICATION FairSpec
CONSTANTS
    left = left
    right = right
    orders = orders
    items = items
    c1 = c1
    c2 = c2
    c3 = c3
    byDate = byDate
    plain = plain
    unique = unique
    NoStore = NoStore
    None = None
    Tabs = {left, right}
    Names = {byDate}
    Shapes = {plain, unique}
    Tables = {orders, items}
    Definition <- Clash
    Declared <- LateItems
    Calls = {c2, c3}
    TabOf <- OneEach
    TableOf <- OneOfEach
    Openers = {1, 2, 3, 4}
    Operations = {"close", "drop", "delete"}
    MaxOperations = 1
INVARIANT ConnectionsOwned
PROPERTY CallsSettle
CHECK_DEADLOCK FALSE
