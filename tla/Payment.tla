-------------------------------- MODULE Payment --------------------------------
(* The Payment aggregate of the example shop (context payments): its methods,  *)
(* with the events that they record, in the manner of the module Order.        *)
EXTENDS Order

PaymentStatus == {"pending", "awaiting_transfer", "captured", "rejected", "refunded", "voided"}
PaymentRoles  == {"treasury", "support"}
RejectionCode == {"limit_exceeded", "amount_mismatch"}

LimitCents == [method \in PaymentMethod |-> IF method = "card" THEN 50000 ELSE 500000]

-------------------------------------------------------------------------------
(* The events.                                                                 *)

PaymentCreated(payment) ==
    [name |-> "payment.created", body |-> [amount |-> payment.amount, method |-> payment.method]]
PaymentAwaitingTransfer(payment) ==
    [name |-> "payment.awaiting_transfer", body |-> [amount |-> payment.amount]]
PaymentCaptured(payment) ==
    [name |-> "payment.captured",
     body |-> [paymentId |-> "forOrder", amount |-> payment.amount]]
PaymentRejected(payment) ==
    [name |-> "payment.rejected",
     body |-> [amount |-> payment.amount, reason |-> payment.rejection]]
PaymentAmountAdjusted(payment) ==
    [name |-> "payment.amount_adjusted", body |-> [amount |-> payment.amount]]
PaymentRefunded(payment) ==
    [name |-> "payment.refunded", body |-> [amount |-> payment.amount]]
PaymentVoided == [name |-> "payment.voided", body |-> [voided |-> TRUE]]

-------------------------------------------------------------------------------
(* The methods.                                                                *)

ExceedsLimit(payment) == payment.amount >= LimitCents[payment.method] + 1

\* before: the events recorded by the same call.
AwaitTransfer(payment, before) ==
    LET waiting == MoveTo(payment, "awaiting_transfer")
    IN  Saves(waiting, Append(before, PaymentAwaitingTransfer(waiting)))
Capture(payment, before) ==
    LET captured == MoveTo(payment, "captured")
    IN  Saves(captured, Append(before, PaymentCaptured(captured)))
Reject(payment, code, before) ==
    LET rejected == [MoveTo(payment, "rejected") EXCEPT !.rejection = code]
    IN  Saves(rejected, Append(before, PaymentRejected(rejected)))

\* create, whose PENDING no row ever holds: process follows.
PendingPayment(amount, method) ==
    [status |-> "pending", amount |-> amount, method |-> method, rejection |-> None]
Process(payment, before) ==
    IF payment.status # "pending" THEN Saves(payment, before)
    ELSE IF ExceedsLimit(payment) THEN Reject(payment, "limit_exceeded", before)
    ELSE IF payment.method = "card" THEN Capture(payment, before)
    ELSE AwaitTransfer(payment, before)

ConfirmTransfer(payment, received) ==
    IF payment.status # "awaiting_transfer" THEN Threw
    ELSE IF received = payment.amount THEN Capture(payment, <<>>)
    ELSE Reject(payment, "amount_mismatch", <<>>)

AdjustAmount(payment, amount) ==
    IF payment.status # "awaiting_transfer" \/ amount = payment.amount THEN Saves(payment, <<>>)
    ELSE LET adjusted == [payment EXCEPT !.amount = amount]
         IN  Saves(adjusted, <<PaymentAmountAdjusted(adjusted)>>)

SettleForCancelledOrder(payment) ==
    IF payment.status = "captured"
    THEN Saves(MoveTo(payment, "refunded"), <<PaymentRefunded(payment)>>)
    ELSE IF payment.status = "awaiting_transfer"
    THEN Saves(MoveTo(payment, "voided"), <<PaymentVoided>>)
    ELSE Saves(payment, <<>>)
===============================================================================
