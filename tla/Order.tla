--------------------------------- MODULE Order ---------------------------------
(***************************************************************************)
(* The Order aggregate of the example shop (packages/ddd/example, context  *)
(* sales): what each of its methods does to an order, the events that it   *)
(* records, and the prices behind them.  A method is an operator whose     *)
(* value is what its caller has to do next: it throws, or it changes the   *)
(* aggregate and hands over the events.                                    *)
(***************************************************************************)
EXTENDS Integers, Sequences, SequencesExt

CONSTANTS
    Campaigns,  \* the coupon codes of the catalog, with their percentOff and active
    None

ASSUME CampaignsAssumption ==
    \A code \in DOMAIN Campaigns : /\ Campaigns[code].percentOff \in Int
                                   /\ Campaigns[code].active \in BOOLEAN

OrderStatus   == {"pending_payment", "paid", "shipped", "delivered", "cancelled"}
PaymentMethod == {"card", "transfer"}
SalesRoles    == {"admin", "support"}

MaxLines      == 20
MaxTotalCents == 1000000
MaxDiscount   == 50

\* What a use case or a method comes to.
Threw             == [does |-> "throw", events |-> <<>>]
Returned          == [does |-> "return", events |-> <<>>]
Saves(to, events) == [does |-> "save", to |-> to, events |-> events]
Removes           == [does |-> "remove", events |-> <<>>]

-------------------------------------------------------------------------------
(* Money, in cents of one currency, and the prices.                            *)

LessPercent(cents, percent) == cents - (cents * percent) \div 100

\* The catalog finds a code if its campaign is active; its discount must be a
\* DiscountPercent.
IsDiscountPercent(percent) == percent \in 0 .. 50
DiscountOf(code) ==
    IF code \in DOMAIN Campaigns /\ Campaigns[code].active
    THEN Campaigns[code].percentOff ELSE None
CouponsAllowed(codes) == Len(codes) <= 3 /\ IsInjective(codes)
CouponsKnown(codes) ==
    \A i \in DOMAIN codes : DiscountOf(codes[i]) # None /\ IsDiscountPercent(DiscountOf(codes[i]))
DiscountFor(codes) ==
    LET percent == FoldLeft(LAMBDA sum, code : sum + DiscountOf(code), 0, codes)
    IN  IF percent < MaxDiscount THEN percent ELSE MaxDiscount

LineSubtotal(line) == line.unitPrice * line.quantity
Subtotal(lines)    == FoldLeft(LAMBDA sum, line : sum + LineSubtotal(line), 0, lines)
Total(order)       == LessPercent(Subtotal(order.lines), order.discount)
Units(items)       == FoldLeft(LAMBDA sum, item : sum + item.quantity, 0, items)
Items(lines) ==
    [i \in DOMAIN lines |-> [sku |-> lines[i].sku, quantity |-> lines[i].quantity]]

AssertTotal(order)    == Total(order) # 0 /\ Total(order) < MaxTotalCents + 1
DistinctSkus(lines)   == \A i, j \in DOMAIN lines : lines[i].sku = lines[j].sku => i = j
ContainsSku(lines, s) == \E i \in DOMAIN lines : lines[i].sku = s
FreeShippingEligible(lines) ==
    /\ Subtotal(lines) >= 5000 \/ ContainsSku(lines, "PREMIUM-PASS")
    /\ ~ContainsSku(lines, "GIFT-CARD")

-------------------------------------------------------------------------------
(* The events.                                                                 *)

OrderCreated(order) ==
    [name |-> "order.created",
     body |-> [customerId |-> order.customerId, lines |-> order.lines,
               total |-> Total(order), paymentMethod |-> order.paymentMethod,
               freeShipping |-> FreeShippingEligible(order.lines)]]
OrderLineQuantityChanged(order, lineNumber) ==
    [name |-> "order.line_quantity_changed",
     body |-> [lineNumber |-> lineNumber, quantity |-> order.lines[lineNumber].quantity,
               total |-> Total(order)]]
OrderShippingAddressChanged(order) ==
    [name |-> "order.shipping_address_changed", body |-> [address |-> order.shippingAddress]]
OrderPaid(order) ==
    [name |-> "order.paid",
     body |-> [paymentId |-> order.paymentReference, address |-> order.shippingAddress,
               items |-> Items(order.lines), giftWrap |-> order.giftWrap]]
OrderCancelled(reason, wasPaid) ==
    [name |-> "order.cancelled", body |-> [reason |-> reason, wasPaid |-> wasPaid]]
OrderShipped(trackingNumber) ==
    [name |-> "order.shipped", body |-> [trackingNumber |-> trackingNumber]]
OrderDelivered == [name |-> "order.delivered", body |-> [delivered |-> TRUE]]

-------------------------------------------------------------------------------
(* The methods.                                                                *)

IsIn(order, status) == order.status = status
Modifiable(order)   == IsIn(order, "pending_payment")
MoveTo(it, status)  == [it EXCEPT !.status = status]

\* create.  The lines have passed Quantity and Money.
NewOrder(request) ==
    LET order == [status |-> "pending_payment", customerId |-> request.customerId,
                  lines |-> request.lines, shippingAddress |-> request.shippingAddress,
                  giftWrap |-> request.giftWrap, paymentMethod |-> request.paymentMethod,
                  discount |-> DiscountFor(request.couponCodes), paymentReference |-> None]
    IN  IF /\ Len(request.lines) \in 1 .. MaxLines
           /\ DistinctSkus(request.lines)
           /\ AssertTotal(order)
        THEN Saves(order, <<OrderCreated(order)>>)
        ELSE Threw

\* changeLineQuantity.  A total out of range undoes the change and throws.
ChangeLineQuantity(order, lineNumber, quantity) ==
    IF ~Modifiable(order) \/ lineNumber \notin DOMAIN order.lines THEN Threw
    ELSE LET changed == [order EXCEPT !.lines[lineNumber].quantity = quantity]
         IN  IF AssertTotal(changed)
             THEN Saves(changed, <<OrderLineQuantityChanged(changed, lineNumber)>>)
             ELSE Threw

\* changeShippingAddress: to the same one, nothing changes.  Mutant: at any time.
ChangeAnyShippingAddress(order, address) ==
    LET changed == [order EXCEPT !.shippingAddress = address]
    IN  Saves(changed, <<OrderShippingAddressChanged(changed)>>)
ChangeShippingAddress(order, address) ==
    IF ~Modifiable(order) THEN Threw
    ELSE IF address = order.shippingAddress THEN Saves(order, <<>>)
    ELSE LET changed == [order EXCEPT !.shippingAddress = address]
         IN  Saves(changed, <<OrderShippingAddressChanged(changed)>>)

Cancelled(order, reason) ==
    Saves(MoveTo(order, "cancelled"),
          <<OrderCancelled(reason, IsIn(order, "paid"))>>)

\* cancel, by its owner, until it ships.
Cancel(order, requester) ==
    IF requester # order.customerId \/ order.status \notin {"pending_payment", "paid"} THEN Threw
    ELSE Cancelled(order, "cancelled_by_customer")

\* The reactions return silently when they do not apply.
CancelForRejectedPayment(order, reason) ==
    IF IsIn(order, "pending_payment") THEN Cancelled(order, reason) ELSE Saves(order, <<>>)

\* Mutant: it becomes paid whatever it was.
AlwaysMarkPaid(order, payment) ==
    LET paid == [MoveTo(order, "paid") EXCEPT !.paymentReference = payment]
    IN  Saves(paid, <<OrderPaid(paid)>>)
MarkPaid(order, payment) ==
    IF ~IsIn(order, "pending_payment") THEN Saves(order, <<>>)
    ELSE LET paid == [MoveTo(order, "paid") EXCEPT !.paymentReference = payment]
         IN  Saves(paid, <<OrderPaid(paid)>>)

MarkShipped(order, trackingNumber) ==
    IF ~IsIn(order, "paid") THEN Saves(order, <<>>)
    ELSE Saves(MoveTo(order, "shipped"), <<OrderShipped(trackingNumber)>>)

MarkDelivered(order) ==
    IF ~IsIn(order, "shipped") THEN Saves(order, <<>>)
    ELSE Saves(MoveTo(order, "delivered"), <<OrderDelivered>>)

Discardable(order) == IsIn(order, "cancelled")
===============================================================================
