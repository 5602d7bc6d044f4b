SPECIFICATION Spec
CONSTANTS
    placed = placed
    stock = stock
    mail = mail
    l1 = l1
    l2 = l2
    l3 = l3
    s1 = s1
    s2 = s2
    None = None
    Names = {placed}
    Subscriptions = {l1, l2, l3}
    ReceiverOf <- MCReceivers
    Sends = {s1, s2}
    BatchOf <- MCBatchOf
INVARIANT OneListenerEach SettledIsQuiet
PROPERTY KeepsTheRules
CHECK_DEADLOCK FALSE
