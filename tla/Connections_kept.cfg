SPECIFICATION Spec
CONSTANTS
    left = left
    right = right
    orders = orders
    items = items
    c1 = c1
    c2 = c2
    c3 = c3
    byDate = byDate
    plain = plain
    unique = unique
    NoStore = NoStore
    None = None
    Tabs = {left, right}
    Names = {}
    Shapes = {}
    Tables = {orders, items}
    Definition <- TwoTables
    Declared <- LateItems
    Calls = {c1, c2, c3}
    TabOf <- CallTab
    TableOf <- CallTable
    Openers = {1, 2, 3, 4}
    Operations = {}
    MaxOperations = 0
INVARIANT KeptIsOpen
CHECK_DEADLOCK FALSE
