--------------------------------- MODULE MCShop ---------------------------------
(* A customer, the staff, and the two ways to pay, for TLC.                        *)
EXTENDS Shop, TLC

CONSTANTS customer, card, transfer, quantity, address, cancel, discard, confirm, confirmAll,
          dispatch, deliver, again

Spain  == [country |-> "ES"]
France == [country |-> "FR"]

MCCampaigns == [spring |-> [percentOff |-> 10, active |-> TRUE]]

\* A second unit exceeds the limit of the card, or of a transfer.
Basket(method, price) ==
    [op |-> "PlaceOrder", actor |-> customer, customerId |-> customer,
     lines |-> <<[sku |-> "LAMP", quantity |-> 1, unitPrice |-> price]>>,
     shippingAddress |-> Spain, couponCodes |-> <<"spring">>, giftWrap |-> FALSE,
     paymentMethod |-> method]

MCInput ==
    card       :> Basket("card", 30000)
 @@ transfer   :> Basket("transfer", 300000)
 @@ quantity   :> [op |-> "ChangeOrderLineQuantity", lineNumber |-> 1, quantity |-> 2]
 @@ address    :> [op |-> "ChangeShippingAddress", address |-> France]
 @@ cancel     :> [op |-> "CancelOrder", actor |-> customer]
 @@ discard    :> [op |-> "DiscardCancelledOrder", role |-> "admin"]
 @@ confirm    :> [op |-> "ConfirmTransferReceived", role |-> "treasury", received |-> 270000]
 @@ confirmAll :> [op |-> "ConfirmTransferReceived", role |-> "treasury", received |-> 540000]
 @@ dispatch   :> [op |-> "DispatchShipment", role |-> "warehouse",
                   trackingNumber |-> "AB123456789ES"]
 @@ deliver    :> [op |-> "DeliverShipment", role |-> "warehouse"]
===============================================================================
