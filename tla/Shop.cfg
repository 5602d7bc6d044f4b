SPECIFICATION Spec
CONSTANTS
    customer = customer
    card = card
    transfer = transfer
    quantity = quantity
    address = address
    cancel = cancel
    discard = discard
    confirm = confirm
    confirmAll = confirmAll
    dispatch = dispatch
    deliver = deliver
    None = None
    again = again
    Requests = {card, transfer, quantity, address, cancel, discard, confirm, confirmAll, dispatch, deliver}
    Redeliveries = {again}
    Overlap = 2
    Budget = 5
    Input <- MCInput
    Campaigns <- MCCampaigns
INVARIANT MoneyBacksGoods ParcelFitsOrder AgreeWhenApart
PROPERTY NothingRevives
CHECK_DEADLOCK FALSE
