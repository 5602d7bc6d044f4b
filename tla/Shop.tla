---------------------------------- MODULE Shop ----------------------------------
(***************************************************************************)
(* The example shop (packages/ddd/example): three contexts that only talk  *)
(* through events.  A use case loads an aggregate, changes the copy, saves *)
(* it if nobody saved in between, and publishes what was recorded; the     *)
(* reactions that this calls do the same, one after another, before its    *)
(* publish returns.  So a request is an agenda of tasks, and requests      *)
(* interleave at each of their awaits.                                     *)
(*                                                                         *)
(* Orders do not share anything, so there is one.                          *)
(***************************************************************************)
EXTENDS Shipment

CONSTANTS
    Requests,       \* calls of the controllers
    Input,          \* what each asks for
    Redeliveries,   \* of events: each hands one that was published to a listener again
    Overlap,        \* bounds: the calls that may run at once, and in all
    Budget

\* What a controller asks for; the other operations are reactions to events.
UseCases == {"PlaceOrder", "ChangeOrderLineQuantity", "ChangeShippingAddress", "CancelOrder",
             "DiscardCancelledOrder", "ConfirmTransferReceived", "DispatchShipment",
             "DeliverShipment"}

ASSUME ShopAssumption ==
    /\ Requests \cap Redeliveries = {}
    /\ Overlap \in Nat \ {0} /\ Budget \in Nat
    /\ Requests \subseteq DOMAIN Input
    /\ \A r \in Requests : Input[r].op \in UseCases

VARIABLES
    traffic,    \* how many calls run at once
    orders,     \* the row of each repository, with its version
    payments,
    shipments,
    summary,    \* of the order, in the read model
    applied,    \* the events that the projection has seen
    published,  \* history: the events
    call        \* what each request, and each redelivery, is doing

stores == <<orders, payments, shipments, summary, applied>>
vars   == <<traffic, orders, payments, shipments, summary, applied, published, call>>

Calls    == Requests \cup Redeliveries
Absent   == [version |-> 0, data |-> None]
Unread   == [version |-> 0 - 1, data |-> None]
NoCall   == [phase |-> "unsent", agenda |-> <<>>, read |-> Unread, attempt |-> 1]
Ended(phase) == [phase |-> phase, agenda |-> <<>>, read |-> Unread, attempt |-> 1]

Quiet == \A c \in Calls : call[c].phase # "running"

-------------------------------------------------------------------------------
(* The use cases and the reactions of sales: what each does with the row it    *)
(* found, if any, given its input or the event.                                *)

SalesOps == {"PlaceOrder", "ChangeOrderLineQuantity", "ChangeShippingAddress", "CancelOrder",
             "DiscardCancelledOrder", "MarkOrderPaid", "CancelUnpaidOrder", "MarkOrderShipped",
             "MarkOrderDelivered"}

\* The value objects of the input refuse it, or the role of the actor does.
PlaceOrderRefuses(input) ==
    \/ ~CouponsAllowed(input.couponCodes)
    \/ \E i \in DOMAIN input.lines : input.lines[i].quantity \notin 1 .. 99
    \/ input.actor # input.customerId
ChangeOrderLineQuantityRefuses(input) == input.quantity \notin 1 .. 99
DiscardCancelledOrderRefuses(input)   == input.role # "admin"

PlaceOrder(input) ==
    IF CouponsKnown(input.couponCodes) THEN NewOrder(input) ELSE Threw
ChangeOrderLineQuantity(found, input) ==
    IF found = Absent THEN Threw
    ELSE ChangeLineQuantity(found.data, input.lineNumber, input.quantity)
ChangeOrderAddress(found, input) ==
    IF found = Absent THEN Threw ELSE ChangeShippingAddress(found.data, input.address)
CancelOrder(found, input) ==
    IF found = Absent THEN Threw ELSE Cancel(found.data, input.actor)
DiscardCancelledOrder(found) ==
    IF found = Absent \/ ~Discardable(found.data) THEN Threw ELSE Removes

MarkOrderPaidOnPaymentCaptured(found, body) ==
    IF found = Absent THEN Returned ELSE MarkPaid(found.data, body.paymentId)
CancelUnpaidOrderOnPaymentRejected(found, body) ==
    IF found = Absent THEN Returned ELSE CancelForRejectedPayment(found.data, body.reason)
MarkOrderShippedOnShipmentDispatched(found, body) ==
    IF found = Absent THEN Returned ELSE MarkShipped(found.data, body.trackingNumber)
MarkOrderDeliveredOnShipmentDelivered(found) ==
    IF found = Absent THEN Returned ELSE MarkDelivered(found.data)

Sales(op, found, given) ==
    CASE op = "PlaceOrder"              -> PlaceOrder(given)
      [] op = "ChangeOrderLineQuantity" -> ChangeOrderLineQuantity(found, given)
      [] op = "ChangeShippingAddress"   -> ChangeOrderAddress(found, given)
      [] op = "CancelOrder"             -> CancelOrder(found, given)
      [] op = "DiscardCancelledOrder"   -> DiscardCancelledOrder(found)
      [] op = "MarkOrderPaid"           -> MarkOrderPaidOnPaymentCaptured(found, given)
      [] op = "CancelUnpaidOrder"       -> CancelUnpaidOrderOnPaymentRejected(found, given)
      [] op = "MarkOrderShipped"        -> MarkOrderShippedOnShipmentDispatched(found, given)
      [] op = "MarkOrderDelivered"      -> MarkOrderDeliveredOnShipmentDelivered(found)

-------------------------------------------------------------------------------
(* Those of payments and of shipping.                                          *)

PaymentsOps == {"ConfirmTransferReceived", "RequestPayment", "AdjustPaymentAmount",
                "SettleCancelledOrderPayment"}

ConfirmTransferReceivedRefuses(input) == input.role # "treasury"

ConfirmTransferReceived(found, input) ==
    IF found = Absent THEN Threw ELSE ConfirmTransfer(found.data, input.received)
RequestPaymentOnOrderCreated(found, body) ==
    IF found # Absent THEN Returned
    ELSE LET pending == PendingPayment(body.total, body.paymentMethod)
         IN  Process(pending, <<PaymentCreated(pending)>>)
AdjustPaymentAmountOnOrderLineQuantityChanged(found, body) ==
    IF found = Absent THEN Returned ELSE AdjustAmount(found.data, body.total)
SettleCancelledOrderPaymentOnOrderCancelled(found) ==
    IF found = Absent THEN Returned ELSE SettleForCancelledOrder(found.data)

Payments(op, found, given) ==
    CASE op = "ConfirmTransferReceived" -> ConfirmTransferReceived(found, given)
      [] op = "RequestPayment"          -> RequestPaymentOnOrderCreated(found, given)
      [] op = "AdjustPaymentAmount"     ->
            AdjustPaymentAmountOnOrderLineQuantityChanged(found, given)
      [] op = "SettleCancelledOrderPayment" ->
            SettleCancelledOrderPaymentOnOrderCancelled(found)

ShippingOps == {"DispatchShipment", "DeliverShipment", "PrepareShipment", "CancelShipment"}

DispatchShipmentRefuses(input) == input.role # "warehouse"
DeliverShipmentRefuses(input)  == input.role # "warehouse"

DispatchShipment(found, input) ==
    IF found = Absent THEN Threw ELSE Dispatch(found.data, input.trackingNumber)
DeliverShipmentUseCase(found) ==
    IF found = Absent THEN Threw ELSE DeliverShipment(found.data)
PrepareShipmentOnOrderPaid(found, body) ==
    IF found # Absent THEN Returned ELSE NewShipment(body.address, body.items, body.giftWrap)
CancelShipmentOnOrderCancelled(found) ==
    IF found = Absent THEN Returned ELSE CancelForCancelledOrder(found.data)

Shipping(op, found, given) ==
    CASE op = "DispatchShipment" -> DispatchShipment(found, given)
      [] op = "DeliverShipment"  -> DeliverShipmentUseCase(found)
      [] op = "PrepareShipment"  -> PrepareShipmentOnOrderPaid(found, given)
      [] op = "CancelShipment"   -> CancelShipmentOnOrderCancelled(found)

-------------------------------------------------------------------------------
(* The read model of sales: what each event changes in the summary.            *)

SummaryOps == {"OpenOrderSummary", "UpdateOrderSummaryTotal", "MarkOrderSummaryPaid",
               "MarkOrderSummaryCancelled", "MarkOrderSummaryShipped",
               "MarkOrderSummaryDelivered"}

UnknownSummary ==
    [customerId |-> None, status |-> "unknown", total |-> None, items |-> 0,
     trackingNumber |-> None]

OpenOrderSummary(row, body) ==
    [row EXCEPT !.customerId = body.customerId, !.status = "pending_payment",
                !.total = body.total, !.items = Units(body.lines)]
UpdateOrderSummaryTotal(row, body)   == [row EXCEPT !.total = body.total]
MarkOrderSummaryPaid(row, body)      ==
    [row EXCEPT !.status = "paid", !.items = Units(body.items)]
MarkOrderSummaryCancelled(row)       == [row EXCEPT !.status = "cancelled"]
MarkOrderSummaryShipped(row, body)   ==
    [row EXCEPT !.status = "shipped", !.trackingNumber = body.trackingNumber]
MarkOrderSummaryDelivered(row)       == [row EXCEPT !.status = "delivered"]

Summarised(op, row, body) ==
    CASE op = "OpenOrderSummary"          -> OpenOrderSummary(row, body)
      [] op = "UpdateOrderSummaryTotal"   -> UpdateOrderSummaryTotal(row, body)
      [] op = "MarkOrderSummaryPaid"      -> MarkOrderSummaryPaid(row, body)
      [] op = "MarkOrderSummaryCancelled" -> MarkOrderSummaryCancelled(row)
      [] op = "MarkOrderSummaryShipped"   -> MarkOrderSummaryShipped(row, body)
      [] op = "MarkOrderSummaryDelivered" -> MarkOrderSummaryDelivered(row)

-------------------------------------------------------------------------------
(* Who listens, in the order of the subscriptions, and what the registry of    *)
(* each context keeps of an event.                                             *)

SalesListeners(name) ==
    CASE name = "order.created"               -> <<"OpenOrderSummary">>
      [] name = "order.line_quantity_changed" -> <<"UpdateOrderSummaryTotal">>
      [] name = "order.paid"                  -> <<"MarkOrderSummaryPaid">>
      [] name = "order.cancelled"             -> <<"MarkOrderSummaryCancelled">>
      [] name = "order.shipped"               -> <<"MarkOrderSummaryShipped">>
      [] name = "order.delivered"             -> <<"MarkOrderSummaryDelivered">>
      [] name = "payment.captured"            -> <<"MarkOrderPaid">>
      [] name = "payment.rejected"            -> <<"CancelUnpaidOrder">>
      [] name = "shipment.dispatched"         -> <<"MarkOrderShipped">>
      [] name = "shipment.delivered"          -> <<"MarkOrderDelivered">>
      [] OTHER                                -> <<>>
PaymentsListeners(name) ==
    CASE name = "order.created"               -> <<"RequestPayment">>
      [] name = "order.line_quantity_changed" -> <<"AdjustPaymentAmount">>
      [] name = "order.cancelled"             -> <<"SettleCancelledOrderPayment">>
      [] OTHER                                -> <<>>
ShippingListeners(name) ==
    CASE name = "order.paid"      -> <<"PrepareShipment">>
      [] name = "order.cancelled" -> <<"CancelShipment">>
      [] OTHER                    -> <<>>

\* The contexts start in this order, and the channel is serial.
Listeners(name) == SalesListeners(name) \o PaymentsListeners(name) \o ShippingListeners(name)

Keeps(body, fields) == [f \in DOMAIN body \cap fields |-> body[f]]
SalesHears(body) ==
    Keeps(body, {"customerId", "lines", "total", "paymentMethod", "freeShipping", "lineNumber",
                 "quantity", "address", "paymentId", "items", "giftWrap", "reason", "wasPaid",
                 "trackingNumber", "carrier", "amount"})
PaymentsHears(body) == Keeps(body, {"total", "paymentMethod"})
ShippingHears(body) == Keeps(body, {"address", "items", "giftWrap"})

Given(op, event) ==
    IF op \in PaymentsOps THEN PaymentsHears(event.body)
    ELSE IF op \in ShippingOps THEN ShippingHears(event.body)
    ELSE SalesHears(event.body)

\* The tasks that a batch of events makes: first all of the first event.
Reactions(events) ==
    FlattenSeq([i \in DOMAIN events |->
        LET ls == Listeners(events[i].name)
        IN  [j \in DOMAIN ls |-> [op |-> ls[j], event |-> events[i]]]])

-------------------------------------------------------------------------------
(* A repository: save and remove check the version of the copy, which is 0 for *)
(* a new aggregate and for a row that is not there.                            *)

\* Mutant: the last one to save wins.
StoredAlways(row, copy) == TRUE
Stored(row, copy)       == row.version = copy.version

\* What an outcome makes of the row, and how it ends for the caller.
Kept(row, copy, outcome) ==
    IF outcome.does \in {"throw", "return"} THEN [row |-> row, end |-> outcome.does]
    ELSE IF ~Stored(row, copy) THEN [row |-> row, end |-> "conflict"]
    ELSE IF outcome.does = "remove" THEN [row |-> Absent, end |-> "return"]
    ELSE [row |-> [version |-> copy.version + 1, data |-> outcome.to], end |-> "return"]

-------------------------------------------------------------------------------
(* The life of a call.                                                         *)

Running(c, ops) == call[c].phase = "running" /\ Head(call[c].agenda).op \in ops
Task(c)         == Head(call[c].agenda)

\* A request carries its input where a reaction has its event.
InputOf(c) == IF Task(c).op \in UseCases THEN Input[c] ELSE Given(Task(c).op, Task(c).event)

Began(task) == [phase |-> "running", agenda |-> <<task>>, read |-> Unread, attempt |-> 1]

Refused(input) ==
    \/ input.op = "PlaceOrder" /\ PlaceOrderRefuses(input)
    \/ input.op = "ChangeOrderLineQuantity" /\ ChangeOrderLineQuantityRefuses(input)
    \/ input.op = "DiscardCancelledOrder" /\ DiscardCancelledOrderRefuses(input)
    \/ input.op = "ConfirmTransferReceived" /\ ConfirmTransferReceivedRefuses(input)
    \/ input.op = "DispatchShipment" /\ DispatchShipmentRefuses(input)
    \/ input.op = "DeliverShipment" /\ DeliverShipmentRefuses(input)

\* The ids of an order that is being placed are not known before its summary is.
OrderIsKnown == summary # Absent

Unplaced == \A c \in Requests : Input[c].op = "PlaceOrder" => call[c].phase = "unsent"

MayBegin ==
    /\ Cardinality({c \in Calls : call[c].phase = "running"}) < traffic
    /\ Cardinality({c \in Calls : call[c].phase # "unsent"}) < Budget

Begin(c) ==
    /\ c \in Requests /\ call[c].phase = "unsent" /\ MayBegin
    /\ IF Input[c].op = "PlaceOrder" THEN Unplaced ELSE OrderIsKnown
    /\ call' = [call EXCEPT ![c] =
                  IF Refused(Input[c]) THEN Ended("rejected")
                  ELSE Began([op |-> Input[c].op, event |-> None])]
    /\ UNCHANGED <<traffic, stores, published>>

\* A channel that delivers at least once hands an event to one of its listeners again.
Redeliver(c) ==
    /\ c \in Redeliveries /\ call[c].phase = "unsent" /\ MayBegin
    /\ \E e \in published : \E i \in DOMAIN Listeners(e.name) :
        call' = [call EXCEPT ![c] = Began([op |-> Listeners(e.name)[i], event |-> e])]
    /\ UNCHANGED <<traffic, stores, published>>

\* findById.  PlaceOrder looks up its coupons instead.
Found(op) ==
    IF op = "PlaceOrder" THEN Absent
    ELSE IF op \in SalesOps THEN orders
    ELSE IF op \in PaymentsOps THEN payments
    ELSE shipments

Load(c) ==
    /\ Running(c, SalesOps \cup PaymentsOps \cup ShippingOps)
    /\ call[c].read = Unread
    /\ call' = [call EXCEPT ![c].read = Found(Task(c).op)]
    /\ UNCHANGED <<traffic, stores, published>>

\* The tasks go on with the reactions to the events; a failure rejects all that awaits
\* it, and ChangeShippingAddress tries a conflict again, three times in all.
Attempts == 3
Retries(c, end) ==
    end = "conflict" /\ Task(c).op = "ChangeShippingAddress" /\ call[c].attempt < Attempts
Continued(c, end, events) ==
    LET agenda == Reactions(events) \o Tail(call[c].agenda)
    IN  IF end = "return"
        THEN IF agenda = <<>> THEN Ended("resolved")
             ELSE [call[c] EXCEPT !.agenda = agenda, !.read = Unread]
        ELSE IF Retries(c, end)
        THEN [call[c] EXCEPT !.read = Unread, !.attempt = @ + 1]
        ELSE Ended("rejected")

\* The events get their ids: a call publishes one of each name.
Stamped(c, events) ==
    [i \in DOMAIN events |-> [name |-> events[i].name, by |-> c, body |-> events[i].body]]

Go(c, outcome, kept) ==
    LET events == IF kept.end = "return" THEN Stamped(c, outcome.events) ELSE <<>>
    IN  /\ published' = published \cup Range(events)
        /\ call' = [call EXCEPT ![c] = Continued(c, kept.end, events)]

SalesStep(c) ==
    /\ Running(c, SalesOps) /\ call[c].read # Unread
    /\ LET outcome == Sales(Task(c).op, call[c].read, InputOf(c))
           kept    == Kept(orders, call[c].read, outcome)
       IN  orders' = kept.row /\ Go(c, outcome, kept)
    /\ UNCHANGED <<traffic, payments, shipments, summary, applied>>

PaymentsStep(c) ==
    /\ Running(c, PaymentsOps) /\ call[c].read # Unread
    /\ LET outcome == Payments(Task(c).op, call[c].read, InputOf(c))
           kept    == Kept(payments, call[c].read, outcome)
       IN  payments' = kept.row /\ Go(c, outcome, kept)
    /\ UNCHANGED <<traffic, orders, shipments, summary, applied>>

ShippingStep(c) ==
    /\ Running(c, ShippingOps) /\ call[c].read # Unread
    /\ LET outcome == Shipping(Task(c).op, call[c].read, InputOf(c))
           kept    == Kept(shipments, call[c].read, outcome)
       IN  shipments' = kept.row /\ Go(c, outcome, kept)
    /\ UNCHANGED <<traffic, orders, payments, summary, applied>>

\* The projection asks whether it has seen the event, reads the summary, writes it.
EventId(c) == <<Task(c).event.name, Task(c).event.by>>

\* Mutant: an event is applied as often as it comes.
SkipsNothing(c) == FALSE
HasApplied(c)   == EventId(c) \in applied

AskApplied(c) ==
    /\ Running(c, SummaryOps) /\ call[c].read = Unread
    /\ call' = [call EXCEPT ![c] = IF HasApplied(c) THEN Continued(c, "return", <<>>)
                                   ELSE [@ EXCEPT !.read = Absent]]
    /\ UNCHANGED <<traffic, stores, published>>

FindSummary(c) ==
    /\ Running(c, SummaryOps) /\ call[c].read = Absent
    /\ call' = [call EXCEPT ![c].read =
                  [version |-> 1, data |-> IF summary = Absent THEN UnknownSummary ELSE summary]]
    /\ UNCHANGED <<traffic, stores, published>>

SaveSummary(c) ==
    /\ Running(c, SummaryOps) /\ call[c].read.version = 1
    /\ summary' = Summarised(Task(c).op, call[c].read.data, InputOf(c))
    /\ applied' = applied \cup {EventId(c)}
    /\ call' = [call EXCEPT ![c] = Continued(c, "return", <<>>)]
    /\ UNCHANGED <<traffic, orders, payments, shipments, published>>

-------------------------------------------------------------------------------
Init ==
    /\ traffic \in 1 .. Overlap
    /\ orders = Absent /\ payments = Absent /\ shipments = Absent
    /\ summary = Absent
    /\ applied = {}
    /\ published = {}
    /\ call = [c \in Calls |-> NoCall]

Next ==
    \E c \in Calls :
        \/ Begin(c) \/ Redeliver(c)
        \/ Load(c) \/ SalesStep(c) \/ PaymentsStep(c) \/ ShippingStep(c)
        \/ AskApplied(c) \/ FindSummary(c) \/ SaveSummary(c)

Spec == Init /\ [][Next]_vars
-------------------------------------------------------------------------------
Phases == {"unsent", "running", "resolved", "rejected"}
IsRow(row, status) ==
    \/ row = Absent
    \/ row.version \in Nat \ {0} /\ row.data.status \in status

TypeOK ==
    /\ traffic \in 1 .. Overlap
    /\ IsRow(orders, OrderStatus)
    /\ IsRow(payments, PaymentStatus \ {"pending"})
    /\ IsRow(shipments, ShipmentStatus)
    /\ DOMAIN call = Calls
    /\ \A c \in Calls :
        /\ call[c].phase \in Phases
        /\ call[c].phase = "running" <=> call[c].agenda # <<>>
        /\ call[c].attempt \in 1 .. Attempts

OrderIs(status)    == orders # Absent /\ orders.data.status \in status
PaymentIs(status)  == payments # Absent /\ payments.data.status \in status
ShipmentIs(status) == shipments # Absent /\ shipments.data.status \in status

\* Whatever overlaps and whatever is delivered twice, the shop prepares nothing that was
\* not paid, holds the money of an order that is on its way, and gives it back only for
\* an order that was cancelled: the three contexts agree on this through events alone.
MoneyBacksGoods ==
    /\ OrderIs({"paid", "shipped", "delivered"}) => PaymentIs({"captured"})
    /\ ShipmentIs(ShipmentStatus) => PaymentIs({"captured", "refunded"})
    /\ PaymentIs({"refunded", "voided"}) => orders = Absent \/ OrderIs({"cancelled"})

\* The parcel goes where the order says, with what it says, although the address and the
\* quantities may be changed while the payment is being captured: the event that makes
\* the shipment cannot be older than the order.
ShipsTheOrder ==
    shipments # Absent /\ orders # Absent =>
        /\ shipments.data.address = orders.data.shippingAddress
        /\ shipments.data.contents = Items(orders.data.lines)

\* The order is not ahead of its parcel.
OrderFollowsParcel ==
    /\ OrderIs({"shipped"}) => ShipmentIs({"dispatched", "delivered"})
    /\ OrderIs({"delivered"}) => ShipmentIs({"delivered"})

\* Order and parcel fit together, in what they say and in how far they are.
ParcelFitsOrder == TypeOK /\ ShipsTheOrder /\ OrderFollowsParcel

\* No aggregate goes back: an update that was computed on a copy that is out of date, and
\* an event that comes late or twice, never revive what has ended.
Forward(row, next, moves) ==
    row # Absent /\ next # Absent /\ row.data.status # next.data.status =>
        <<row.data.status, next.data.status>> \in moves
OrderMoves ==
    {<<"pending_payment", "paid">>, <<"pending_payment", "cancelled">>, <<"paid", "cancelled">>,
     <<"paid", "shipped">>, <<"shipped", "delivered">>}
PaymentMoves ==
    {<<"awaiting_transfer", "captured">>, <<"awaiting_transfer", "rejected">>,
     <<"awaiting_transfer", "voided">>, <<"captured", "refunded">>}
ShipmentMoves ==
    {<<"preparing", "dispatched">>, <<"dispatched", "delivered">>, <<"preparing", "cancelled">>}
OnlyForward ==
    /\ Forward(orders, orders', OrderMoves)
    /\ Forward(payments, payments', PaymentMoves)
    /\ Forward(shipments, shipments', ShipmentMoves)
    /\ orders # Absent /\ orders' = Absent => OrderIs({"cancelled"})
NothingRevives == [][OnlyForward]_stores

\* When requests do not overlap the contexts agree whenever none runs: the customer is
\* asked for the total of the order, a cancelled order keeps no money and no parcel, and
\* the summary tells the truth.  Not so when they overlap, or when a change of quantity is
\* told again after a later one.
NothingAgain == \A c \in Redeliveries : call[c].phase = "unsent"
AgreeWhenApart ==
    traffic = 1 /\ Quiet /\ orders # Absent =>
        /\ summary # Absent /\ summary.status = orders.data.status
        /\ summary.total = Total(orders.data)
        /\ NothingAgain /\ PaymentIs({"awaiting_transfer", "captured"}) =>
             payments.data.amount = Total(orders.data)
        /\ OrderIs({"cancelled"}) => /\ ~PaymentIs({"awaiting_transfer", "captured"})
                                    /\ ~ShipmentIs({"preparing", "dispatched", "delivered"})
===============================================================================
