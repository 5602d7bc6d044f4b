------------------------------ MODULE Shop_proofs ------------------------------
(***************************************************************************)
(* Proofs about the example shop, for any calls, inputs and campaigns.     *)
(*                                                                         *)
(* The contexts only know each other through events, so the invariant says *)
(* what each event means: which rows there must be because it was told,    *)
(* and which events must have been told because a row is as it is.  It     *)
(* also says that a copy with the version of the row is the row, which is  *)
(* why a save never writes what was computed on something else.            *)
(*                                                                         *)
(* When requests do not overlap it says more: whatever the contexts differ *)
(* in has a task that waits and makes it good.                             *)
(***************************************************************************)
EXTENDS Shop, FiniteSetTheorems, SequenceTheorems, TLAPS

\* What may stand on an agenda: the reactions of the listeners of these events.
Ops == SalesOps \cup PaymentsOps \cup ShippingOps \cup SummaryOps
Heard(events) ==
    {task \in [op : Ops, event : events] : task.op \in Range(Listeners(task.event.name))}
Asked(c) == [op |-> Input[c].op, event |-> None]

\* A call that runs has reactions before it, or is a request at its first task.
CallOK(c, it, events) ==
    /\ DOMAIN it = {"phase", "agenda", "read", "attempt"}
    /\ it.phase \in Phases
    /\ it.attempt \in 1 .. Attempts
    /\ it.phase # "running" => it.agenda = <<>>
    /\ it.phase = "running" =>
         \/ it.agenda \in Seq(Heard(events)) /\ it.agenda # <<>>
         \/ c \in Requests /\ it.agenda = <<Asked(c)>>
CallsOK == DOMAIN call = Calls /\ \A c \in Calls : CallOK(c, call[c], published)

\* The fields that each context works on.
OrderFields    == {"status", "lines", "shippingAddress", "discount"}
PaymentFields  == {"status", "amount"}
ShipmentFields == {"status", "address", "contents"}
FieldsFor(op) ==
    IF op \in SalesOps THEN OrderFields
    ELSE IF op \in PaymentsOps THEN PaymentFields
    ELSE ShipmentFields

\* A copy that was read is the row as it is, if the row still has its version.
Copied(op, row, copy) ==
    \/ copy = Unread \/ copy = Absent
    \/ /\ copy.version \in Nat \ {0} /\ FieldsFor(op) \subseteq DOMAIN copy.data
       /\ row = Absent => op \in SalesOps \ {"PlaceOrder"}
       /\ row # Absent => /\ copy.version <= row.version
                          /\ copy.version = row.version => copy = row
CopyOK(it) ==
    it.phase = "running" /\ Head(it.agenda).op \notin SummaryOps =>
        Copied(Head(it.agenda).op, Found(Head(it.agenda).op), it.read)
CopiesOK == \A c \in Calls : CopyOK(call[c])

\* One order is placed, and nothing happens before it is.
Placing(c) == call[c].phase = "running" /\ Task(c).op = "PlaceOrder"
Placer(c)  == c \in Requests /\ Input[c].op = "PlaceOrder" /\ call[c].phase # "unsent"
PlacedOnce ==
    /\ \A c, d \in Calls : Placer(c) /\ Placer(d) => c = d
    /\ \A c \in Calls : call[c].phase = "running" => (Placing(c) <=> published = {})
    /\ published # {} => \E c \in Calls : Placer(c)
NothingBefore ==
    published = {} => orders = Absent /\ payments = Absent /\ shipments = Absent
                      /\ summary = Absent

\* A row is not there, or has a version and these fields.
RowOK(row, status, fields) ==
    row = Absent \/ /\ row.version \in Nat \ {0}
                    /\ fields \subseteq DOMAIN row.data
                    /\ row.data.status \in status
RowsOK == /\ RowOK(orders, OrderStatus, OrderFields)
          /\ RowOK(payments, PaymentStatus \ {"pending"}, PaymentFields)
          /\ RowOK(shipments, ShipmentStatus, ShipmentFields)

\* What an event that was told means for the rows, and a row for the events.
Told(name) == \E e \in published : e.name = name
OrderBacked ==
    /\ OrderIs({"paid", "shipped", "delivered"}) \/ Told("order.paid") => Told("payment.captured")
    /\ OrderIs({"shipped", "delivered"}) => Told("shipment.dispatched")
    /\ OrderIs({"delivered"}) => Told("shipment.delivered")
    /\ Told("order.cancelled") => orders = Absent \/ OrderIs({"cancelled"})
PaymentBacked ==
    /\ Told("payment.captured") => PaymentIs({"captured", "refunded"})
    /\ PaymentIs({"refunded", "voided"}) => Told("order.cancelled")
ShipmentBacked ==
    /\ shipments # Absent => Told("order.paid")
    /\ Told("shipment.dispatched") => ShipmentIs({"dispatched", "delivered"})
    /\ Told("shipment.delivered") => ShipmentIs({"delivered"})
PaidAsTold ==
    \A e \in published : e.name = "order.paid" =>
        /\ {"address", "items"} \subseteq DOMAIN e.body
        /\ orders # Absent =>
             /\ orders.data.status # "pending_payment"
             /\ e.body.address = orders.data.shippingAddress
             /\ e.body.items = Items(orders.data.lines)

\* What the rows and the events say together.
Backed == /\ RowsOK /\ NothingBefore
          /\ OrderBacked /\ PaymentBacked /\ ShipmentBacked /\ PaidAsTold /\ ShipsTheOrder
ShopInv == traffic \in 1 .. Overlap /\ CallsOK /\ CopiesOK /\ PlacedOnce /\ Backed

-------------------------------------------------------------------------------
(* Sequences of tasks.                                                         *)

\* FlattenSeq of one sequence is that sequence: the batches of events are short.
LEMMA FlattenOne ==
    ASSUME NEW s
    PROVE  FlattenSeq(<<s>>) = s
<1> DEFINE seqs == <<s>>
<1>1. Len(seqs) = 1 /\ seqs[1] = s
  OBVIOUS
<1> HIDE DEF seqs
<1> DEFINE ok(f) == f = [i \in 1..Len(seqs) |-> IF i = 1 THEN seqs[i] ELSE f[i-1] \o seqs[i]]
<1>2. ok([i \in 1..1 |-> s])
  BY <1>1
<1>3. ok(CHOOSE f : ok(f))
  BY <1>2
<1> QED
  BY <1>1, <1>3 DEF FlattenSeq, seqs

\* FlattenSeq of two sequences puts the second behind the first.
LEMMA FlattenTwo ==
    ASSUME NEW s, NEW t
    PROVE  FlattenSeq(<<s, t>>) = s \o t
<1> DEFINE seqs == <<s, t>>
           both == [i \in 1..2 |-> IF i = 1 THEN s ELSE s \o t]
<1>1. Len(seqs) = 2 /\ seqs[1] = s /\ seqs[2] = t
  OBVIOUS
<1>2. both[1] = s /\ both[2] = s \o t
  OBVIOUS
<1> HIDE DEF seqs
<1> DEFINE next(f) == [i \in 1..Len(seqs) |-> IF i = 1 THEN seqs[i] ELSE f[i-1] \o seqs[i]]
           ok(f)   == f = next(f)
           found   == CHOOSE f : ok(f)
<1>3. DOMAIN next(both) = 1..2
  BY <1>1
<1>4. ASSUME NEW i \in 1..2 PROVE next(both)[i] = both[i]
  <2>1. CASE i = 1
    BY <1>1, <1>2, <2>1
  <2>2. CASE i = 2
    BY <1>1, <1>2, <2>2
  <2> QED
    BY <2>1, <2>2
<1>5. ok(both)
  BY <1>3, <1>4
<1>6. ok(found)
  BY <1>5
<1> HIDE DEF found
<1>7. found[1] = s /\ found[2] = found[1] \o t
  BY <1>1, <1>6
<1>8. FlattenSeq(seqs) = found[Len(seqs)]
  BY <1>1 DEF FlattenSeq, found
<1>9. FlattenSeq(seqs) = s \o t
  BY <1>1, <1>7, <1>8
<1> QED
  BY <1>9 DEF seqs

\* A concatenation holds nothing but the elements of its parts.
LEMMA RangeConcat ==
    ASSUME NEW S, NEW s \in Seq(S), NEW t \in Seq(S)
    PROVE  Range(s \o t) \subseteq Range(s) \cup Range(t)
<1> SUFFICES ASSUME NEW i \in DOMAIN (s \o t)
             PROVE  (s \o t)[i] \in Range(s) \cup Range(t)
  BY DEF Range
<1>1. i \in 1 .. Len(s) + Len(t) /\ (s \o t)[i] = IF i <= Len(s) THEN s[i] ELSE t[i - Len(s)]
  BY ConcatProperties
<1>2. CASE i <= Len(s)
  BY <1>1, <1>2 DEF Range
<1>3. CASE ~(i <= Len(s))
  <2>1. i - Len(s) \in DOMAIN t
    BY <1>1, <1>3
  <2> QED
    BY <1>1, <1>3, <2>1 DEF Range
<1> QED
  BY <1>2, <1>3

\* The events that the reactions of the aggregates answer.
Answers(op, name) ==
    /\ op \notin UseCases
    /\ op = "MarkOrderPaid" => name = "payment.captured"
    /\ op = "MarkOrderShipped" => name = "shipment.dispatched"
    /\ op = "MarkOrderDelivered" => name = "shipment.delivered"
    /\ op = "SettleCancelledOrderPayment" => name = "order.cancelled"
    /\ op = "PrepareShipment" => name = "order.paid"

\* The sequence of one element has that element.
LEMMA RangeOne ==
    ASSUME NEW l
    PROVE  Range(<<l>>) = {l}
BY DEF Range

\* The empty sequence has no element.
LEMMA RangeNone == Range(<<>>) = {}
BY DEF Range

\* The listeners of sales react to the events they are registered for.
LEMMA SalesListens ==
    ASSUME NEW name
    PROVE  /\ SalesListeners(name) \in Seq(Ops)
           /\ \A op \in Range(SalesListeners(name)) : Answers(op, name)
<1>1. SalesListeners(name) \in
        {<<>>, <<"OpenOrderSummary">>, <<"UpdateOrderSummaryTotal">>,
         <<"MarkOrderSummaryPaid">>, <<"MarkOrderSummaryCancelled">>,
         <<"MarkOrderSummaryShipped">>, <<"MarkOrderSummaryDelivered">>,
         <<"MarkOrderPaid">>, <<"CancelUnpaidOrder">>, <<"MarkOrderShipped">>,
         <<"MarkOrderDelivered">>}
  BY DEF SalesListeners
<1>2. /\ SalesListeners(name) = <<"MarkOrderPaid">> => name = "payment.captured"
      /\ SalesListeners(name) = <<"MarkOrderShipped">> => name = "shipment.dispatched"
      /\ SalesListeners(name) = <<"MarkOrderDelivered">> => name = "shipment.delivered"
  BY DEF SalesListeners
<1>3. ASSUME NEW op \in Range(SalesListeners(name)) PROVE Answers(op, name)
  <2>1. SalesListeners(name) = <<op>> /\ op # "PlaceOrder"
    BY <1>1, <1>3, RangeOne, RangeNone
  <2> QED
    BY <1>1, <1>2, <2>1 DEF Answers, UseCases
<1>4. {<<>>, <<"OpenOrderSummary">>, <<"UpdateOrderSummaryTotal">>,
      <<"MarkOrderSummaryPaid">>, <<"MarkOrderSummaryCancelled">>,
      <<"MarkOrderSummaryShipped">>, <<"MarkOrderSummaryDelivered">>,
      <<"MarkOrderPaid">>, <<"CancelUnpaidOrder">>, <<"MarkOrderShipped">>,
      <<"MarkOrderDelivered">>} \subseteq Seq(Ops)
  BY DEF Ops, SalesOps, PaymentsOps, ShippingOps, SummaryOps
<1>5. SalesListeners(name) \in Seq(Ops)
  BY ONLY <1>1, <1>4
<1> QED
  BY <1>3, <1>5

\* So do those of payments,
LEMMA PaymentsListens ==
    ASSUME NEW name
    PROVE  /\ PaymentsListeners(name) \in Seq(Ops)
           /\ \A op \in Range(PaymentsListeners(name)) : Answers(op, name)
<1>1. PaymentsListeners(name) \in
        {<<>>, <<"RequestPayment">>, <<"AdjustPaymentAmount">>,
         <<"SettleCancelledOrderPayment">>}
  BY DEF PaymentsListeners
<1>2. /\ PaymentsListeners(name) = <<"SettleCancelledOrderPayment">> => name = "order.cancelled"
  BY DEF PaymentsListeners
<1>3. ASSUME NEW op \in Range(PaymentsListeners(name)) PROVE Answers(op, name)
  <2>1. PaymentsListeners(name) = <<op>> /\ op # "PlaceOrder"
    BY <1>1, <1>3, RangeOne, RangeNone
  <2> QED
    BY <1>1, <1>2, <2>1 DEF Answers, UseCases
<1>4. {<<>>, <<"RequestPayment">>, <<"AdjustPaymentAmount">>,
      <<"SettleCancelledOrderPayment">>} \subseteq Seq(Ops)
  BY DEF Ops, SalesOps, PaymentsOps, ShippingOps, SummaryOps
<1>5. PaymentsListeners(name) \in Seq(Ops)
  BY ONLY <1>1, <1>4
<1> QED
  BY <1>3, <1>5

\* those of shipping,
LEMMA ShippingListens ==
    ASSUME NEW name
    PROVE  /\ ShippingListeners(name) \in Seq(Ops)
           /\ \A op \in Range(ShippingListeners(name)) : Answers(op, name)
<1>1. ShippingListeners(name) \in
        {<<>>, <<"PrepareShipment">>, <<"CancelShipment">>}
  BY DEF ShippingListeners
<1>2. /\ ShippingListeners(name) = <<"PrepareShipment">> => name = "order.paid"
  BY DEF ShippingListeners
<1>3. ASSUME NEW op \in Range(ShippingListeners(name)) PROVE Answers(op, name)
  <2>1. ShippingListeners(name) = <<op>> /\ op # "PlaceOrder"
    BY <1>1, <1>3, RangeOne, RangeNone
  <2> QED
    BY <1>1, <1>2, <2>1 DEF Answers, UseCases
<1>4. {<<>>, <<"PrepareShipment">>, <<"CancelShipment">>} \subseteq Seq(Ops)
  BY DEF Ops, SalesOps, PaymentsOps, ShippingOps, SummaryOps
<1>5. ShippingListeners(name) \in Seq(Ops)
  BY ONLY <1>1, <1>4
<1> QED
  BY <1>3, <1>5

\* and all the listeners of an event together.
LEMMA Listens ==
    ASSUME NEW name
    PROVE  /\ Listeners(name) \in Seq(Ops)
           /\ \A op \in Range(Listeners(name)) : Answers(op, name)
<1> DEFINE sales == SalesListeners(name)
           payments2 == PaymentsListeners(name)
           shipping == ShippingListeners(name)
<1>1. sales \in Seq(Ops) /\ payments2 \in Seq(Ops) /\ shipping \in Seq(Ops)
  BY SalesListens, PaymentsListens, ShippingListens
<1>2. \A op \in Range(sales) \cup Range(payments2) \cup Range(shipping) : Answers(op, name)
  BY SalesListens, PaymentsListens, ShippingListens
<1>3. Listeners(name) = (sales \o payments2) \o shipping
  BY DEF Listeners
<1> HIDE DEF sales, payments2, shipping
<1>4. sales \o payments2 \in Seq(Ops)
  BY <1>1
<1>5. Range(sales \o payments2) \subseteq Range(sales) \cup Range(payments2)
  BY <1>1, RangeConcat
<1>6. Range((sales \o payments2) \o shipping)
        \subseteq Range(sales \o payments2) \cup Range(shipping)
  BY <1>1, <1>4, RangeConcat
<1>7. (sales \o payments2) \o shipping \in Seq(Ops)
  BY <1>1, <1>4
<1> QED
  BY <1>2, <1>3, <1>5, <1>6, <1>7

\* What is put on an agenda for up to two events are reactions to these events.
LEMMA ReactionsHeard ==
    ASSUME NEW S, NEW events \in Seq(S), Len(events) \in {0, 1, 2}
    PROVE  Reactions(events) \in Seq(Heard(S))
<1> DEFINE batch(e) ==
             [j \in DOMAIN Listeners(e.name) |-> [op |-> Listeners(e.name)[j], event |-> e]]
           batches  == [i \in DOMAIN events |-> batch(events[i])]
<1>1. ASSUME NEW e \in S PROVE batch(e) \in Seq(Heard(S))
  <2> DEFINE ls == Listeners(e.name)
  <2>1. ls \in Seq(Ops)
    BY Listens
  <2> HIDE DEF ls
  <2>2. ASSUME NEW j \in 1 .. Len(ls) PROVE [op |-> ls[j], event |-> e] \in Heard(S)
    <3>1. ls[j] \in Range(ls) /\ ls[j] \in Ops
      BY <2>1, LenProperties DEF Range
    <3> QED
      BY <3>1 DEF Heard, ls
  <2>3. [j \in 1 .. Len(ls) |-> [op |-> ls[j], event |-> e]] \in Seq(Heard(S))
    BY <2>1, <2>2
  <2> QED
    BY <2>1, <2>3 DEF ls
<1>2. Reactions(events) = FlattenSeq(batches)
  BY DEF Reactions
<1>3. events = <<>> \/ Len(events) = 1 \/ Len(events) = 2
  <2>1. events # <<>> => Len(events) # 0
    BY EmptySeq
  <2> QED
    BY <2>1
<1>4. CASE events = <<>>
  <2>1. batches = <<>>
    BY <1>4
  <2>2. FlattenSeq(batches) = <<>>
    BY <2>1 DEF FlattenSeq
  <2> QED
    BY <1>2, <2>2, EmptySeq
<1>5. CASE Len(events) = 1
  <2>1. events[1] \in S /\ DOMAIN events = 1 .. 1
    <3>1. DOMAIN events = 1 .. Len(events)
      BY LenProperties
    <3>2. 1 \in 1 .. Len(events)
      BY <1>5
    <3>3. events[1] \in S
      BY <3>2, ElementOfSeq
    <3> QED
      BY <1>5, <3>1, <3>3
  <2> HIDE DEF batch
  <2>2. batches = <<batch(events[1])>>
    BY <2>1
  <2>3. FlattenSeq(batches) = batch(events[1])
    BY <2>2, FlattenOne
  <2> QED
    BY <1>1, <1>2, <2>1, <2>3
<1>6. CASE Len(events) = 2
  <2>1. DOMAIN events = 1 .. 2
    BY <1>6, LenProperties
  <2>2. events[1] \in S /\ events[2] \in S
    BY <1>6, ElementOfSeq
  <2> HIDE DEF batch
  <2>3. batches = <<batch(events[1]), batch(events[2])>>
    BY <2>1
  <2>4. FlattenSeq(batches) = batch(events[1]) \o batch(events[2])
    BY <2>3, FlattenTwo
  <2>5. batch(events[1]) \in Seq(Heard(S)) /\ batch(events[2]) \in Seq(Heard(S))
    BY <1>1, <2>2
  <2> DEFINE one == batch(events[1])
             two == batch(events[2])
  <2> HIDE DEF one, two
  <2>6. one \o two \in Seq(Heard(S))
    BY <2>5, ConcatProperties DEF one, two
  <2> QED
    BY <1>2, <2>4, <2>6 DEF one, two
<1> QED
  BY <1>3, <1>4, <1>5, <1>6

-------------------------------------------------------------------------------
(* The calls.                                                                  *)

\* More events leave more to react to,
LEMMA HeardGrows ==
    ASSUME NEW S, NEW T, S \subseteq T
    PROVE  Heard(S) \subseteq Heard(T)
BY DEF Heard

\* so a call stays as it may be when others publish.
LEMMA CallGrows ==
    ASSUME NEW S, NEW T, S \subseteq T, NEW c, NEW it, CallOK(c, it, S)
    PROVE  CallOK(c, it, T)
<1>1. it.agenda \in Seq(Heard(S)) => it.agenda \in Seq(Heard(T))
  BY HeardGrows, SeqMonotonic
<1> QED
  BY <1>1 DEF CallOK

\* A call that runs has a task.
LEMMA RunningAgenda ==
    ASSUME NEW c, NEW it, NEW S, CallOK(c, it, S), it.phase = "running"
    PROVE  it.agenda # <<>>
<1>1. it.agenda # <<>> \/ it.agenda = <<Asked(c)>>
  BY DEF CallOK
<1>2. <<Asked(c)>> # <<>>
  OBVIOUS
<1> QED
  BY <1>1, <1>2

\* What a task of an agenda can be.
IsReaction(task) ==
    /\ task.event \in published
    /\ Answers(task.op, task.event.name)
\* The task of a call is a reaction to a published event or what its request asks for.
LEMMA TaskKnown ==
    ASSUME CallsOK, NEW c \in Calls, call[c].phase = "running"
    PROVE  /\ Tail(call[c].agenda) \in Seq(Heard(published))
           /\ \/ IsReaction(Task(c))
              \/ c \in Requests /\ Task(c).op = Input[c].op /\ Task(c).op \in UseCases
<1>1. CASE call[c].agenda \in Seq(Heard(published)) /\ call[c].agenda # <<>>
  <2>1. Head(call[c].agenda) \in Heard(published)
    BY <1>1, HeadTailProperties
  <2>2. Tail(call[c].agenda) \in Seq(Heard(published))
    BY <1>1, HeadTailProperties
  <2>3. IsReaction(Head(call[c].agenda))
    BY <2>1, Listens DEF Heard, IsReaction
  <2> QED
    BY <2>2, <2>3 DEF Task
<1>2. CASE c \in Requests /\ call[c].agenda = <<Asked(c)>>
  <2>1. Head(call[c].agenda) = Asked(c) /\ Tail(call[c].agenda) = <<>>
    BY <1>2
  <2>2. Asked(c).op = Input[c].op /\ Input[c].op \in UseCases
    BY <1>2, ShopAssumption DEF Asked
  <2> QED
    BY <1>2, <2>1, <2>2, EmptySeq DEF Task
<1> QED
  BY <1>1, <1>2 DEF CallsOK, CallOK

\* A call that has ended, or is dropped, is as it may be.
LEMMA EndedOK ==
    ASSUME NEW c, NEW S, NEW phase \in Phases \ {"running"}
    PROVE  CallOK(c, Ended(phase), S) /\ Ended(phase).phase = phase
BY DEF CallOK, Ended, Attempts

\* A call that goes on: with the reactions to what it published, with the rest of its
\* agenda, or with the task that it tries again.
Goes(c) ==
    /\ call[c].phase = "running"
    /\ published \subseteq published'
    /\ call' = [call EXCEPT ![c] = call'[c]]
    /\ CallOK(c, call'[c], published')
    /\ call'[c].phase # "unsent"
    /\ call'[c].phase = "running" =>
         /\ call'[c].read = Unread
         /\ \/ call'[c].agenda \in Seq(Heard(published'))
            \/ call'[c].agenda = call[c].agenda /\ Task(c).op = "ChangeShippingAddress"

\* A task that ends with up to two events leaves its call going on or ended.
LEMMA ContinuedGoes ==
    ASSUME CallsOK, NEW c \in Calls, call[c].phase = "running", NEW end,
           published \subseteq published',
           NEW events \in Seq(published'), Len(events) \in {0, 1, 2},
           call' = [call EXCEPT ![c] = Continued(c, end, events)]
    PROVE  Goes(c)
<1> DEFINE agenda == Reactions(events) \o Tail(call[c].agenda)
           it     == Continued(c, end, events)
<1>1. call'[c] = it
  BY DEF CallsOK
<1>2. agenda \in Seq(Heard(published'))
  <2>1. Reactions(events) \in Seq(Heard(published'))
    BY ReactionsHeard
  <2>2. Tail(call[c].agenda) \in Seq(Heard(published'))
    BY TaskKnown, HeardGrows, SeqMonotonic
  <2> QED
    BY <2>1, <2>2, ConcatProperties
<1>3. CallOK(c, call[c], published)
  BY DEF CallsOK
<1> SUFFICES /\ CallOK(c, it, published')
             /\ it.phase # "unsent"
             /\ it.phase = "running" =>
                  /\ it.read = Unread
                  /\ \/ it.agenda \in Seq(Heard(published'))
                     \/ it.agenda = call[c].agenda /\ Task(c).op = "ChangeShippingAddress"
  BY <1>1 DEF Goes
<1>4. CASE end = "return" /\ agenda # <<>>
  <2>1. it = [call[c] EXCEPT !.agenda = agenda, !.read = Unread]
    BY <1>4 DEF Continued
  <2> HIDE DEF agenda, it
  <2>2. /\ it.phase = "running" /\ it.agenda = agenda /\ it.read = Unread
        /\ it.attempt = call[c].attempt /\ DOMAIN it = DOMAIN call[c]
    BY <1>3, <2>1 DEF CallOK
  <2> QED
    BY <1>2, <1>3, <1>4, <2>2 DEF CallOK
<1>5. CASE end # "return" /\ Retries(c, end)
  <2>1. it = [call[c] EXCEPT !.read = Unread, !.attempt = @ + 1]
    BY <1>5 DEF Continued
  <2> HIDE DEF agenda, it
  <2>2. /\ it.phase = "running" /\ it.agenda = call[c].agenda /\ it.read = Unread
        /\ it.attempt = call[c].attempt + 1 /\ DOMAIN it = DOMAIN call[c]
    BY <1>3, <2>1 DEF CallOK
  <2>3. it.attempt \in 1 .. Attempts
    BY <1>3, <1>5, <2>2 DEF CallOK, Retries, Attempts
  <2>4. CallOK(c, [call[c] EXCEPT !.read = Unread, !.attempt = @ + 1], published)
    BY <1>3, <2>1, <2>2, <2>3 DEF CallOK
  <2>5. CallOK(c, it, published')
    BY <2>1, <2>4, CallGrows
  <2> QED
    BY <1>5, <2>2, <2>5 DEF Retries
<1>6. CASE \/ end = "return" /\ agenda = <<>>
           \/ end # "return" /\ ~Retries(c, end)
  <2>1. it = Ended("resolved") \/ it = Ended("rejected")
    BY <1>6 DEF Continued
  <2>2. "resolved" \in Phases \ {"running"} /\ "rejected" \in Phases \ {"running"}
    BY DEF Phases
  <2> QED
    BY <2>1, <2>2, EndedOK
<1> QED
  BY <1>4, <1>5, <1>6

\* A call that goes on leaves every call as it may be.
LEMMA GoesCalls ==
    ASSUME CallsOK, NEW c \in Calls, Goes(c)
    PROVE  CallsOK'
<1>1. DOMAIN call' = Calls
  BY DEF CallsOK, Goes
<1>2. ASSUME NEW d \in Calls PROVE CallOK(d, call'[d], published')
  <2>1. CASE d = c
    BY <2>1 DEF Goes
  <2>2. CASE d # c
    <3>1. call'[d] = call[d] /\ CallOK(d, call[d], published)
      BY <2>2 DEF CallsOK, Goes
    <3> QED
      BY <3>1, CallGrows DEF Goes
  <2> QED
    BY <2>1, <2>2
<1>3. CallsOK' <=> DOMAIN call' = Calls /\ \A d \in Calls : CallOK(d, call'[d], published')
  BY DEF CallsOK, CallOK, Calls, Asked, Heard
<1> QED
  BY <1>1, <1>2, <1>3

\* Only a request places an order.
LEMMA PlacingIsPlacer ==
    ASSUME CallsOK, NEW c \in Calls, Placing(c)
    PROVE  Placer(c)
<1>1. Task(c).op \in UseCases
  BY DEF Placing, UseCases
<1>2. ~IsReaction(Task(c))
  BY <1>1 DEF IsReaction, Answers
<1> QED
  BY <1>2, TaskKnown DEF Placing, Placer

\* No reaction places an order, and there is none before an event.
LEMMA HeardTask ==
    ASSUME NEW S, NEW agenda \in Seq(Heard(S)), agenda # <<>>
    PROVE  Head(agenda).op # "PlaceOrder" /\ S # {}
<1>1. Head(agenda) \in Heard(S)
  BY HeadTailProperties
<1>2. Answers(Head(agenda).op, Head(agenda).event.name) /\ S # {}
  BY <1>1, Listens DEF Heard
<1> QED
  BY <1>2 DEF Answers, UseCases

\* A call that goes on places no second order.
LEMMA GoesOnce ==
    ASSUME CallsOK, PlacedOnce, NEW c \in Calls, Goes(c)
    PROVE  PlacedOnce'
<1>1. ASSUME NEW d \in Calls PROVE Placer(d)' <=> Placer(d)
  <2>1. (call'[d].phase # "unsent") <=> (call[d].phase # "unsent")
    BY DEF Goes, CallsOK
  <2> QED
    BY <2>1 DEF Placer
<1>2. published' # {} => \E d \in Calls : Placer(d)
  <2>1. CASE published # {}
    BY <2>1 DEF PlacedOnce
  <2>2. CASE published = {}
    BY <2>2, PlacingIsPlacer DEF PlacedOnce, Goes
  <2> QED
    BY <2>1, <2>2
<1>3. ASSUME NEW d \in Calls, call'[d].phase = "running"
      PROVE  Placing(d)' <=> published' = {}
  <2>1. CASE d = c
    <3>1. CASE call'[c].agenda \in Seq(Heard(published'))
      <4>1. call'[c].agenda # <<>>
        BY <1>3, <2>1, RunningAgenda DEF Goes
      <4> QED
        BY <2>1, <3>1, <4>1, HeardTask DEF Placing, Task
    <3>2. CASE call'[c].agenda = call[c].agenda /\ Task(c).op = "ChangeShippingAddress"
      BY <2>1, <3>2 DEF Placing, Task, PlacedOnce, Goes
    <3> QED
      BY <1>3, <2>1, <3>1, <3>2 DEF Goes
  <2>2. CASE d # c
    <3>1. call'[d] = call[d]
      BY <2>2 DEF Goes, CallsOK
    <3>2. Placing(d)' <=> Placing(d)
      BY <3>1 DEF Placing, Task
    <3>3. Placing(d) <=> published = {}
      BY <1>3, <3>1 DEF PlacedOnce
    <3>4. published' = {} => published = {}
      BY DEF Goes
    <3>5. ASSUME published = {} PROVE d = c
      <4>1. Placing(d) /\ Placing(c)
        BY <1>3, <3>1, <3>5 DEF PlacedOnce, Goes
      <4> QED
        BY <4>1, PlacingIsPlacer DEF PlacedOnce
    <3> QED
      BY <2>2, <3>2, <3>3, <3>4, <3>5
  <2> QED
    BY <2>1, <2>2
<1> QED
  BY <1>1, <1>2, <1>3 DEF PlacedOnce

-------------------------------------------------------------------------------
(* What an outcome publishes, and what becomes of the row.                     *)

Stamp(c, e) == [name |-> e.name, by |-> c, body |-> e.body]

\* The events of a call carry its name: for none,
LEMMA StampedNone ==
    ASSUME NEW c
    PROVE  Stamped(c, <<>>) = <<>>
BY DEF Stamped

\* for one,
LEMMA StampedOne ==
    ASSUME NEW c, NEW e
    PROVE  Stamped(c, <<e>>) = <<Stamp(c, e)>>
BY DEF Stamped, Stamp

\* and for two of them.
LEMMA StampedTwo ==
    ASSUME NEW c, NEW e, NEW f
    PROVE  Stamped(c, <<e, f>>) = <<Stamp(c, e), Stamp(c, f)>>
BY DEF Stamped, Stamp

\* A call that publishes nothing, one event or two, goes on.
LEMMA GoSilent ==
    ASSUME CallsOK, NEW c \in Calls, call[c].phase = "running", NEW outcome, NEW kept,
           Go(c, outcome, kept), outcome.events = <<>> \/ kept.end # "return"
    PROVE  Goes(c) /\ published' = published
<1> DEFINE events == IF kept.end = "return" THEN Stamped(c, outcome.events) ELSE <<>>
<1>1. events = <<>>
  BY StampedNone
<1>2. /\ published' = published \cup Range(events)
      /\ call' = [call EXCEPT ![c] = Continued(c, kept.end, events)]
  BY DEF Go
<1> HIDE DEF events
<1>3. published' = published
  BY <1>1, <1>2, RangeNone
<1>4. events \in Seq(published') /\ Len(events) \in {0, 1, 2}
  BY <1>1, EmptySeq
<1> QED
  BY <1>2, <1>3, <1>4, ContinuedGoes

\* A save with one event publishes just that event.
LEMMA GoTelling ==
    ASSUME CallsOK, NEW c \in Calls, call[c].phase = "running", NEW outcome, NEW kept,
           Go(c, outcome, kept), kept.end = "return", NEW e, outcome.events = <<e>>
    PROVE  Goes(c) /\ published' = published \cup {Stamp(c, e)}
<1> DEFINE events == Stamped(c, outcome.events)
<1>1. events = <<Stamp(c, e)>>
  BY StampedOne
<1>2. /\ published' = published \cup Range(events)
      /\ call' = [call EXCEPT ![c] = Continued(c, kept.end, events)]
  BY DEF Go
<1> HIDE DEF events
<1>3. published' = published \cup {Stamp(c, e)}
  BY <1>1, <1>2, RangeOne
<1>4. events \in Seq(published') /\ Len(events) \in {0, 1, 2}
  BY <1>1, <1>3
<1> QED
  BY <1>2, <1>3, <1>4, ContinuedGoes

\* A save with two events publishes both.
LEMMA GoTellingTwice ==
    ASSUME CallsOK, NEW c \in Calls, call[c].phase = "running", NEW outcome, NEW kept,
           Go(c, outcome, kept), kept.end = "return", NEW e, NEW f, outcome.events = <<e, f>>
    PROVE  Goes(c) /\ published' = published \cup {Stamp(c, e), Stamp(c, f)}
<1> DEFINE events == Stamped(c, outcome.events)
<1>1. events = <<Stamp(c, e), Stamp(c, f)>>
  BY StampedTwo
<1>2. /\ published' = published \cup Range(events)
      /\ call' = [call EXCEPT ![c] = Continued(c, kept.end, events)]
  BY DEF Go
<1> HIDE DEF events
<1>3. Range(events) = {Stamp(c, e), Stamp(c, f)}
  BY <1>1 DEF Range
<1>4. events \in Seq(published') /\ Len(events) \in {0, 1, 2}
  BY <1>1, <1>2, <1>3
<1> QED
  BY <1>2, <1>3, <1>4, ContinuedGoes

\* A save or a remove that is not a conflict was computed on the row itself.
LEMMA KeptOnTheRow ==
    ASSUME NEW op, NEW row, NEW copy, NEW outcome, NEW kept,
           row = Absent \/ row.version \in Nat \ {0},
           copy # Unread, Copied(op, row, copy),
           kept = Kept(row, copy, outcome)
    PROVE  \/ kept.row = row /\ kept.end # "return"
           \/ kept.row = row /\ outcome.does \in {"throw", "return"}
           \/ /\ copy = row /\ outcome.does \notin {"throw", "return"} /\ kept.end = "return"
              /\ kept.row = IF outcome.does = "remove" THEN Absent
                            ELSE [version |-> row.version + 1, data |-> outcome.to]
<1>1. Stored(row, copy) => copy = row
  BY DEF Stored, Copied, Absent
<1> QED
  BY <1>1 DEF Kept

-------------------------------------------------------------------------------
(* Sales.                                                                      *)

Silently(outcome) == outcome.does \in {"throw", "return"} /\ outcome.events = <<>>

\* What a save makes of an order, and what it tells.
SameParcel(order, to) ==
    /\ to.lines = order.lines /\ to.discount = order.discount
    /\ to.shippingAddress = order.shippingAddress
Prices(to, e) == "total" \in DOMAIN e.body /\ e.body.total = Total(to)
OrderTo(op, order, to, e) ==
    /\ OrderFields \subseteq DOMAIN to
    /\ \/ /\ op = "ChangeOrderLineQuantity"
          /\ order.status = "pending_payment" /\ to.status = "pending_payment"
          /\ e.name = "order.line_quantity_changed" /\ Prices(to, e)
          /\ DOMAIN to.lines = DOMAIN order.lines
       \/ /\ op = "ChangeShippingAddress"
          /\ order.status = "pending_payment" /\ to.status = "pending_payment"
          /\ e.name = "order.shipping_address_changed"
          /\ to.lines = order.lines /\ to.discount = order.discount
       \/ /\ op \in {"CancelOrder", "CancelUnpaidOrder"}
          /\ order.status \in {"pending_payment", "paid"} /\ to.status = "cancelled"
          /\ e.name = "order.cancelled" /\ SameParcel(order, to)
       \/ /\ op = "MarkOrderPaid" /\ order.status = "pending_payment" /\ to.status = "paid"
          /\ e.name = "order.paid" /\ e.body = OrderPaid(to).body /\ SameParcel(order, to)
       \/ /\ op = "MarkOrderShipped" /\ order.status = "paid" /\ to.status = "shipped"
          /\ e.name = "order.shipped" /\ SameParcel(order, to)
       \/ /\ op = "MarkOrderDelivered" /\ order.status = "shipped" /\ to.status = "delivered"
          /\ e.name = "order.delivered" /\ SameParcel(order, to)
\* A reaction that does not apply to the order leaves it alone.
OrderLeft(op, order) ==
    /\ op = "MarkOrderPaid" => order.status # "pending_payment"
    /\ op = "MarkOrderShipped" => order.status # "paid"
OrderSaved(op, order, outcome) ==
    /\ outcome.does = "save"
    /\ \/ outcome.to = order /\ outcome.events = <<>> /\ OrderLeft(op, order)
       \/ \E e : outcome.events = <<e>> /\ OrderTo(op, order, outcome.to, e)
OrderPlaced(op, outcome) ==
    /\ op = "PlaceOrder" /\ outcome.does = "save"
    /\ OrderFields \subseteq DOMAIN outcome.to /\ outcome.to.status = "pending_payment"
    /\ DOMAIN outcome.to.lines # {}
    /\ \E e : /\ outcome.events = <<e>> /\ e.name = "order.created"
             /\ Prices(outcome.to, e)

\* The parts of an outcome that saves.
LEMMA Saved ==
    ASSUME NEW to, NEW events
    PROVE  /\ Saves(to, events).does = "save" /\ Saves(to, events).to = to
           /\ Saves(to, events).events = events
BY DEF Saves

\* To throw and to return without a change tell nobody.
LEMMA SilentOutcomes == Silently(Threw) /\ Silently(Returned)
BY DEF Silently, Threw, Returned

\* What each method of an order leaves: a cancellation,
LEMMA CancelledSaves ==
    ASSUME NEW op, NEW order, OrderFields \subseteq DOMAIN order,
           op \in {"CancelOrder", "CancelUnpaidOrder"},
           order.status \in {"pending_payment", "paid"}, NEW reason
    PROVE  OrderSaved(op, order, Cancelled(order, reason))
<1> DEFINE to == MoveTo(order, "cancelled")
           e == OrderCancelled(reason, IsIn(order, "paid"))
<1>1. OrderFields \subseteq DOMAIN to /\ to.status = "cancelled" /\ SameParcel(order, to)
  BY DEF MoveTo, OrderFields, SameParcel
<1>2. e.name = "order.cancelled"
  BY DEF OrderCancelled
<1>3. Cancelled(order, reason) = Saves(to, <<e>>)
  BY DEF Cancelled
<1> HIDE DEF to, e
<1>4. OrderTo(op, order, to, e)
  BY <1>1, <1>2 DEF OrderTo
<1> QED
  BY <1>3, <1>4, Saved DEF OrderSaved

\* a change of a quantity,
LEMMA SaleOfChange ==
    ASSUME NEW order, OrderFields \subseteq DOMAIN order, NEW line, NEW quantity,
           NEW outcome, outcome = ChangeLineQuantity(order, line, quantity)
    PROVE  Silently(outcome) \/ OrderSaved("ChangeOrderLineQuantity", order, outcome)
<1> DEFINE to == [order EXCEPT !.lines[line].quantity = quantity]
           e == OrderLineQuantityChanged(to, line)
<1>1. CASE outcome = Threw
  BY <1>1, SilentOutcomes
<1>2. CASE Modifiable(order) /\ outcome = Saves(to, <<e>>)
  <2>1. /\ OrderFields \subseteq DOMAIN to /\ to.status = order.status
        /\ DOMAIN to.lines = DOMAIN order.lines
    BY DEF OrderFields
  <2>2. e.name = "order.line_quantity_changed" /\ Prices(to, e)
    BY DEF OrderLineQuantityChanged, Prices
  <2> HIDE DEF to, e
  <2>3. OrderTo("ChangeOrderLineQuantity", order, to, e)
    BY <1>2, <2>1, <2>2 DEF OrderTo, Modifiable, IsIn
  <2> QED
    BY <1>2, <2>3, Saved DEF OrderSaved
<1> QED
  BY <1>1, <1>2 DEF ChangeLineQuantity

\* a change of the address,
LEMMA SaleOfAddress ==
    ASSUME NEW order, OrderFields \subseteq DOMAIN order, NEW address,
           NEW outcome, outcome = ChangeShippingAddress(order, address)
    PROVE  Silently(outcome) \/ OrderSaved("ChangeShippingAddress", order, outcome)
<1> DEFINE to == [order EXCEPT !.shippingAddress = address]
           e == OrderShippingAddressChanged(to)
<1>1. CASE outcome = Threw
  BY <1>1, SilentOutcomes
<1>2. CASE outcome = Saves(order, <<>>)
  BY <1>2, Saved DEF OrderSaved, OrderLeft
<1>3. CASE Modifiable(order) /\ outcome = Saves(to, <<e>>)
  <2>1. /\ OrderFields \subseteq DOMAIN to /\ to.status = order.status
        /\ to.lines = order.lines /\ to.discount = order.discount
    BY DEF OrderFields
  <2>2. e.name = "order.shipping_address_changed"
    BY DEF OrderShippingAddressChanged
  <2> HIDE DEF to, e
  <2>3. OrderTo("ChangeShippingAddress", order, to, e)
    BY <1>3, <2>1, <2>2 DEF OrderTo, Modifiable, IsIn
  <2> QED
    BY <1>3, <2>3, Saved DEF OrderSaved
<1> QED
  BY <1>1, <1>2, <1>3 DEF ChangeShippingAddress

\* the payment of the order,
LEMMA SaleOfPayment ==
    ASSUME NEW order, OrderFields \subseteq DOMAIN order, NEW payment,
           NEW outcome, outcome = MarkPaid(order, payment)
    PROVE  OrderSaved("MarkOrderPaid", order, outcome)
<1> DEFINE to == [MoveTo(order, "paid") EXCEPT !.paymentReference = payment]
           e == OrderPaid(to)
<1>1. CASE ~IsIn(order, "pending_payment") /\ outcome = Saves(order, <<>>)
  BY <1>1, Saved DEF OrderSaved, OrderLeft, IsIn
<1>2. CASE IsIn(order, "pending_payment") /\ outcome = Saves(to, <<e>>)
  <2>1. OrderFields \subseteq DOMAIN to /\ to.status = "paid" /\ SameParcel(order, to)
    BY DEF OrderFields, MoveTo, SameParcel
  <2>2. e.name = "order.paid" /\ e.body = OrderPaid(to).body
    BY DEF OrderPaid
  <2> HIDE DEF to, e
  <2>3. OrderTo("MarkOrderPaid", order, to, e)
    BY <1>2, <2>1, <2>2 DEF OrderTo, IsIn
  <2> QED
    BY <1>2, <2>3, Saved DEF OrderSaved
<1> QED
  BY <1>1, <1>2 DEF MarkPaid

\* its dispatch,
LEMMA SaleOfShipping ==
    ASSUME NEW order, OrderFields \subseteq DOMAIN order, NEW trackingNumber,
           NEW outcome, outcome = MarkShipped(order, trackingNumber)
    PROVE  OrderSaved("MarkOrderShipped", order, outcome)
<1> DEFINE to == MoveTo(order, "shipped")
           e == OrderShipped(trackingNumber)
<1>1. CASE ~IsIn(order, "paid") /\ outcome = Saves(order, <<>>)
  BY <1>1, Saved DEF OrderSaved, OrderLeft, IsIn
<1>2. CASE IsIn(order, "paid") /\ outcome = Saves(to, <<e>>)
  <2>1. OrderFields \subseteq DOMAIN to /\ to.status = "shipped" /\ SameParcel(order, to)
    BY DEF OrderFields, MoveTo, SameParcel
  <2>2. e.name = "order.shipped"
    BY DEF OrderShipped
  <2> HIDE DEF to, e
  <2>3. OrderTo("MarkOrderShipped", order, to, e)
    BY <1>2, <2>1, <2>2 DEF OrderTo, IsIn
  <2> QED
    BY <1>2, <2>3, Saved DEF OrderSaved
<1> QED
  BY <1>1, <1>2 DEF MarkShipped

\* its delivery,
LEMMA SaleOfDelivery ==
    ASSUME NEW order, OrderFields \subseteq DOMAIN order,
           NEW outcome, outcome = MarkDelivered(order)
    PROVE  OrderSaved("MarkOrderDelivered", order, outcome)
<1> DEFINE to == MoveTo(order, "delivered")
           e == OrderDelivered
<1>1. CASE outcome = Saves(order, <<>>)
  BY <1>1, Saved DEF OrderSaved, OrderLeft
<1>2. CASE IsIn(order, "shipped") /\ outcome = Saves(to, <<e>>)
  <2>1. OrderFields \subseteq DOMAIN to /\ to.status = "delivered" /\ SameParcel(order, to)
    BY DEF OrderFields, MoveTo, SameParcel
  <2>2. e.name = "order.delivered"
    BY DEF OrderDelivered
  <2> HIDE DEF to, e
  <2>3. OrderTo("MarkOrderDelivered", order, to, e)
    BY <1>2, <2>1, <2>2 DEF OrderTo, IsIn
  <2> QED
    BY <1>2, <2>3, Saved DEF OrderSaved
<1> QED
  BY <1>1, <1>2 DEF MarkDelivered

\* (what has no index has no length)
LEMMA NoIndex ==
    ASSUME NEW s, DOMAIN s = {}
    PROVE  Len(s) = 0
OBVIOUS

\* and the order that is placed.
LEMMA SaleOfOrder ==
    ASSUME NEW given, NEW outcome, outcome = PlaceOrder(given)
    PROVE  Silently(outcome) \/ OrderPlaced("PlaceOrder", outcome)
<1>1. CASE outcome = Threw
  BY <1>1, SilentOutcomes
<1>2. CASE outcome # Threw
  <2>1. PICK order : /\ outcome = Saves(order, <<OrderCreated(order)>>)
                     /\ OrderFields \subseteq DOMAIN order /\ order.status = "pending_payment"
                     /\ order.lines = given.lines /\ Len(given.lines) \in 1 .. MaxLines
    BY <1>2 DEF PlaceOrder, NewOrder, OrderFields
  <2>2. OrderCreated(order).name = "order.created" /\ Prices(order, OrderCreated(order))
    BY DEF OrderCreated, Prices
  <2>3. DOMAIN order.lines # {}
    <3> DEFINE lines == given.lines
    <3>1. Len(lines) \in 1 .. MaxLines /\ order.lines = lines
      BY <2>1
    <3> HIDE DEF lines
    <3>2. Len(lines) # 0
      <4> DEFINE n == Len(lines)
      <4>1. n \in 1 .. MaxLines
        BY <3>1
      <4> HIDE DEF n
      <4>2. n # 0
        BY <4>1 DEF MaxLines
      <4> QED
        BY <4>2 DEF n
    <3>3. DOMAIN lines # {}
      BY ONLY <3>2, NoIndex
    <3> QED
      BY <3>1, <3>3
  <2> QED
    BY <2>1, <2>2, <2>3, Saved DEF OrderPlaced
<1> QED
  BY <1>1, <1>2

\* Whatever the task, an outcome of sales is one of these.
SalesOutcome(op, found, outcome) ==
    \/ Silently(outcome) /\ (op \in {"MarkOrderPaid", "MarkOrderShipped"} => found = Absent)
    \/ OrderPlaced(op, outcome)
    \/ found # Absent /\ outcome = Removes /\ found.data.status = "cancelled"
    \/ found # Absent /\ OrderSaved(op, found.data, outcome)

\* So every use case and reaction of sales has one of these outcomes,
LEMMA SalesOutcomes ==
    ASSUME NEW op \in SalesOps, NEW found, NEW given,
           found = Absent \/ OrderFields \subseteq DOMAIN found.data,
           NEW outcome, outcome = Sales(op, found, given)
    PROVE  SalesOutcome(op, found, outcome)
<1>1. CASE op = "PlaceOrder"
  <2>1. outcome = PlaceOrder(given)
    BY <1>1 DEF Sales
  <2> QED
    BY <1>1, <2>1, SaleOfOrder DEF SalesOutcome
<1>2. CASE op = "ChangeOrderLineQuantity"
  <2>1. outcome = ChangeOrderLineQuantity(found, given)
    BY <1>2 DEF Sales
  <2> QED
    BY <1>2, <2>1, SaleOfChange, SilentOutcomes DEF SalesOutcome, ChangeOrderLineQuantity
<1>3. CASE op = "ChangeShippingAddress"
  <2>1. outcome = ChangeOrderAddress(found, given)
    BY <1>3 DEF Sales
  <2> QED
    BY <1>3, <2>1, SaleOfAddress, SilentOutcomes DEF SalesOutcome, ChangeOrderAddress
<1>4. CASE op = "CancelOrder"
  <2>1. outcome = CancelOrder(found, given)
    BY <1>4 DEF Sales
  <2> QED
    BY <1>4, <2>1, CancelledSaves, SilentOutcomes DEF SalesOutcome, CancelOrder, Cancel
<1>5. CASE op = "DiscardCancelledOrder"
  <2>1. outcome = DiscardCancelledOrder(found)
    BY <1>5 DEF Sales
  <2> QED
    BY <1>5, <2>1, SilentOutcomes
    DEF SalesOutcome, DiscardCancelledOrder, Discardable, IsIn
<1>6. CASE op = "MarkOrderPaid"
  <2>1. outcome = MarkOrderPaidOnPaymentCaptured(found, given)
    BY <1>6 DEF Sales
  <2> QED
    BY <1>6, <2>1, SaleOfPayment, SilentOutcomes
    DEF SalesOutcome, MarkOrderPaidOnPaymentCaptured
<1>7. CASE op = "CancelUnpaidOrder"
  <2>1. outcome = CancelUnpaidOrderOnPaymentRejected(found, given)
    BY <1>7 DEF Sales
  <2>2. CASE found = Absent
    BY <2>1, <2>2, SilentOutcomes DEF SalesOutcome, CancelUnpaidOrderOnPaymentRejected
  <2>3. CASE found # Absent
    <3>1. outcome = CancelForRejectedPayment(found.data, given.reason)
      BY <2>1, <2>3 DEF CancelUnpaidOrderOnPaymentRejected
    <3>2. CASE IsIn(found.data, "pending_payment")
      <4>1. outcome = Cancelled(found.data, given.reason)
        BY <3>1, <3>2 DEF CancelForRejectedPayment
      <4> QED
        BY <1>7, <2>3, <3>2, <4>1, CancelledSaves DEF SalesOutcome, IsIn
    <3>3. CASE ~IsIn(found.data, "pending_payment")
      <4>1. outcome = Saves(found.data, <<>>)
        BY <3>1, <3>3 DEF CancelForRejectedPayment
      <4> QED
        BY <1>7, <2>3, <4>1, Saved DEF SalesOutcome, OrderSaved, OrderLeft
    <3> QED
      BY <3>2, <3>3
  <2> QED
    BY <2>2, <2>3
<1>8. CASE op = "MarkOrderShipped"
  <2>1. outcome = MarkOrderShippedOnShipmentDispatched(found, given)
    BY <1>8 DEF Sales
  <2> QED
    BY <1>8, <2>1, SaleOfShipping, SilentOutcomes
    DEF SalesOutcome, MarkOrderShippedOnShipmentDispatched
<1>9. CASE op = "MarkOrderDelivered"
  <2>1. outcome = MarkOrderDeliveredOnShipmentDelivered(found)
    BY <1>9 DEF Sales
  <2> QED
    BY <1>9, <2>1, SaleOfDelivery, SilentOutcomes
    DEF SalesOutcome, MarkOrderDeliveredOnShipmentDelivered
<1> QED
  BY <1>1, <1>2, <1>3, <1>4, <1>5, <1>6, <1>7, <1>8, <1>9 DEF SalesOps

\* What a step of sales does to the order and to what was told.
OrderMoved(op) ==
    \/ orders' = orders /\ published' = published
    \/ /\ orders # Absent /\ published' = published
       /\ orders'.version = orders.version + 1 /\ orders'.data = orders.data
    \/ /\ orders # Absent /\ published' = published
       /\ orders.data.status = "cancelled" /\ orders' = Absent
    \/ /\ op = "PlaceOrder" /\ orders = Absent
       /\ OrderFields \subseteq DOMAIN orders'.data /\ orders'.data.status = "pending_payment"
       /\ orders'.version = 1
       /\ \E e : published' = published \cup {e} /\ e.name = "order.created"
    \/ /\ orders # Absent /\ orders'.version = orders.version + 1
       /\ \E e : published' = published \cup {e} /\ OrderTo(op, orders.data, orders'.data, e)

\* and a step of sales writes the order it read, in that way, or changes nothing.
LEMMA SalesTurn ==
    ASSUME CallsOK, CopiesOK, RowsOK, NEW c \in Calls, SalesStep(c)
    PROVE  Goes(c) /\ OrderMoved(Task(c).op)
<1> DEFINE op      == Task(c).op
           copy    == call[c].read
           outcome == Sales(op, copy, InputOf(c))
           kept    == Kept(orders, copy, outcome)
<1>1. /\ call[c].phase = "running" /\ op \in SalesOps /\ copy # Unread
      /\ orders' = kept.row /\ Go(c, outcome, kept)
  BY DEF SalesStep, Running, Task
<1>2. op \notin SummaryOps
  BY <1>1 DEF SalesOps, SummaryOps
<1>3. Copied(op, Found(op), copy)
  BY <1>1, <1>2 DEF CopiesOK, CopyOK, Task
<1>4. Copied(op, orders, copy)
  BY <1>1, <1>3 DEF Copied, Found
<1>5. orders = Absent \/ orders.version \in Nat \ {0}
  BY DEF RowsOK, RowOK
<1> HIDE DEF op, copy, outcome, kept
<1>6. \/ kept.row = orders /\ kept.end # "return"
      \/ kept.row = orders /\ outcome.does \in {"throw", "return"}
      \/ /\ copy = orders /\ outcome.does \notin {"throw", "return"} /\ kept.end = "return"
         /\ kept.row = IF outcome.does = "remove" THEN Absent
                       ELSE [version |-> orders.version + 1, data |-> outcome.to]
  BY <1>1, <1>4, <1>5, KeptOnTheRow DEF kept
<1>7. SalesOutcome(op, copy, outcome)
  <2>1. copy = Absent \/ OrderFields \subseteq DOMAIN copy.data
    BY <1>1, <1>4 DEF Copied, FieldsFor
  <2> QED
    BY <1>1, <2>1, SalesOutcomes DEF outcome
<1>8. CASE kept.row = orders /\ kept.end # "return"
  BY <1>1, <1>8, GoSilent DEF OrderMoved
<1>9. CASE kept.row = orders /\ outcome.does \in {"throw", "return"}
  <2>1. outcome.events = <<>>
    BY <1>7, <1>9 DEF SalesOutcome, Silently, OrderPlaced, OrderSaved, Removes
  <2> QED
    BY <1>1, <1>9, <2>1, GoSilent DEF OrderMoved
<1>10. CASE /\ copy = orders /\ outcome.does \notin {"throw", "return"} /\ kept.end = "return"
            /\ kept.row = IF outcome.does = "remove" THEN Absent
                          ELSE [version |-> orders.version + 1, data |-> outcome.to]
  <2>1. CASE OrderPlaced(op, outcome)
    <3>1. orders = Absent
      BY <1>1, <1>3, <1>10, <2>1 DEF Copied, Found, OrderPlaced
    <3>2. orders' = [version |-> 1, data |-> outcome.to]
      BY <1>1, <1>10, <2>1, <3>1 DEF OrderPlaced, Absent
    <3>3. PICK e : outcome.events = <<e>> /\ e.name = "order.created"
      BY <2>1 DEF OrderPlaced
    <3>4. Goes(c) /\ published' = published \cup {Stamp(c, e)}
      BY <1>1, <1>10, <3>3, GoTelling
    <3>5. Stamp(c, e).name = "order.created"
      BY <3>3 DEF Stamp
    <3> QED
      BY <2>1, <3>1, <3>2, <3>4, <3>5 DEF OrderMoved, OrderPlaced, op
  <2>2. CASE copy # Absent /\ outcome = Removes /\ copy.data.status = "cancelled"
    <3>1. outcome.does = "remove" /\ outcome.events = <<>>
      BY <2>2 DEF Removes
    <3>2. Goes(c) /\ published' = published
      BY <1>1, <3>1, GoSilent
    <3> QED
      BY <1>1, <1>10, <2>2, <3>1, <3>2 DEF OrderMoved
  <2>3. CASE copy # Absent /\ OrderSaved(op, copy.data, outcome)
    <3>1. orders # Absent /\ orders' = [version |-> orders.version + 1, data |-> outcome.to]
      BY <1>1, <1>10, <2>3 DEF OrderSaved
    <3>2. CASE outcome.to = orders.data /\ outcome.events = <<>>
      <4>1. Goes(c) /\ published' = published
        BY <1>1, <3>2, GoSilent
      <4> QED
        BY <3>1, <3>2, <4>1 DEF OrderMoved
    <3>3. CASE \E e : outcome.events = <<e>> /\ OrderTo(op, orders.data, outcome.to, e)
      <4>1. PICK e : outcome.events = <<e>> /\ OrderTo(op, orders.data, outcome.to, e)
        BY <3>3
      <4>2. Goes(c) /\ published' = published \cup {Stamp(c, e)}
        BY <1>1, <1>10, <4>1, GoTelling
      <4>3. OrderTo(op, orders.data, outcome.to, Stamp(c, e))
        BY <4>1 DEF OrderTo, Stamp, Prices
      <4> QED
        BY <3>1, <4>2, <4>3 DEF OrderMoved, op
    <3> QED
      BY <1>10, <2>3, <3>2, <3>3 DEF OrderSaved
  <2> QED
    BY <1>7, <1>10, <2>1, <2>2, <2>3 DEF SalesOutcome, Silently
<1> QED
  BY <1>6, <1>8, <1>9, <1>10

-------------------------------------------------------------------------------
(* Payments.                                                                   *)

\* What a save makes of a payment, and what it tells.
PaymentTo(op, given, payment, to, e) ==
    /\ PaymentFields \subseteq DOMAIN to
    /\ \/ /\ op = "AdjustPaymentAmount" /\ payment.status = "awaiting_transfer"
          /\ to.status = "awaiting_transfer" /\ to.amount = given.total
          /\ e.name = "payment.amount_adjusted"
       \/ /\ op = "ConfirmTransferReceived" /\ payment.status = "awaiting_transfer"
          /\ to.amount = payment.amount
          /\ \/ to.status = "captured" /\ e.name = "payment.captured"
             \/ to.status = "rejected" /\ e.name = "payment.rejected"
       \/ /\ op = "SettleCancelledOrderPayment"
          /\ \/ /\ payment.status = "captured"
                /\ to.status = "refunded" /\ e.name = "payment.refunded"
             \/ /\ payment.status = "awaiting_transfer"
                /\ to.status = "voided" /\ e.name = "payment.voided"
\* A reaction that does not apply to the payment leaves it alone.
PaymentLeft(op, given, payment) ==
    /\ op = "AdjustPaymentAmount" =>
         payment.status # "awaiting_transfer" \/ payment.amount = given.total
    /\ op = "SettleCancelledOrderPayment" =>
         payment.status \notin {"captured", "awaiting_transfer"}
PaymentSaved(op, given, payment, outcome) ==
    /\ outcome.does = "save"
    /\ \/ outcome.to = payment /\ outcome.events = <<>> /\ PaymentLeft(op, given, payment)
       \/ \E e : outcome.events = <<e>> /\ PaymentTo(op, given, payment, outcome.to, e)
\* A new one is processed at once.
NewPayment(given, to, e, f) ==
    /\ PaymentFields \subseteq DOMAIN to
    /\ to.amount = given.total
    /\ e.name = "payment.created"
    /\ \/ to.status = "captured" /\ f.name = "payment.captured"
       \/ to.status = "rejected" /\ f.name = "payment.rejected"
       \/ to.status = "awaiting_transfer" /\ f.name = "payment.awaiting_transfer"
PaymentMade(op, given, outcome) ==
    /\ op = "RequestPayment" /\ outcome.does = "save"
    /\ \E e, f : outcome.events = <<e, f>> /\ NewPayment(given, outcome.to, e, f)

\* The events of a payment that is requested are two.
LEMMA AppendOne ==
    ASSUME NEW e, NEW f
    PROVE  Append(<<e>>, f) = <<e, f>>
<1> DEFINE s == Append(<<e>>, f)
           t == <<e, f>>
<1>1. <<e>> \in Seq({e, f}) /\ Len(<<e>>) = 1
  OBVIOUS
<1>2. s \in Seq({e, f}) /\ Len(s) = 2 /\ s[1] = e /\ s[2] = f
  BY <1>1, AppendProperties
<1>3. t \in Seq({e, f}) /\ Len(t) = 2 /\ t[1] = e /\ t[2] = f
  OBVIOUS
<1> HIDE DEF s, t
<1>4. \A i \in 1 .. Len(s) : s[i] = t[i]
  BY <1>2, <1>3
<1>5. s = t
  BY <1>2, <1>3, <1>4, SeqEqual
<1> QED
  BY <1>5 DEF s, t

\* What each method of a payment leaves: the payment that is requested,
LEMMA PaymentOfOrder ==
    ASSUME NEW given, NEW pending,
           pending = PendingPayment(given.total, given.paymentMethod),
           NEW outcome, outcome = Process(pending, <<PaymentCreated(pending)>>)
    PROVE  PaymentMade("RequestPayment", given, outcome)
<1> DEFINE e == PaymentCreated(pending)
           captured == MoveTo(pending, "captured")
           waiting == MoveTo(pending, "awaiting_transfer")
           rejected == [MoveTo(pending, "rejected") EXCEPT !.rejection = "limit_exceeded"]
<1>1. /\ pending.status = "pending" /\ pending.amount = given.total
      /\ DOMAIN pending = {"status", "amount", "method", "rejection"}
  BY DEF PendingPayment
<1>2. e.name = "payment.created"
  BY DEF PaymentCreated
<1>3. /\ PaymentFields \subseteq DOMAIN captured /\ captured.status = "captured"
      /\ PaymentFields \subseteq DOMAIN waiting /\ waiting.status = "awaiting_transfer"
      /\ PaymentFields \subseteq DOMAIN rejected /\ rejected.status = "rejected"
      /\ captured.amount = given.total /\ waiting.amount = given.total
      /\ rejected.amount = given.total
  BY <1>1 DEF MoveTo, PaymentFields
<1>4. /\ PaymentCaptured(captured).name = "payment.captured"
      /\ PaymentAwaitingTransfer(waiting).name = "payment.awaiting_transfer"
      /\ PaymentRejected(rejected).name = "payment.rejected"
  BY DEF PaymentCaptured, PaymentAwaitingTransfer, PaymentRejected
<1>5. \/ outcome = Saves(captured, <<e, PaymentCaptured(captured)>>)
      \/ outcome = Saves(waiting, <<e, PaymentAwaitingTransfer(waiting)>>)
      \/ outcome = Saves(rejected, <<e, PaymentRejected(rejected)>>)
  <2> DEFINE before == <<e>>
  <2>1. /\ Append(before, PaymentCaptured(captured)) = <<e, PaymentCaptured(captured)>>
        /\ Append(before, PaymentAwaitingTransfer(waiting))
             = <<e, PaymentAwaitingTransfer(waiting)>>
        /\ Append(before, PaymentRejected(rejected)) = <<e, PaymentRejected(rejected)>>
    BY ONLY AppendOne
  <2> HIDE DEF before, e
  <2>2. outcome \in {Reject(pending, "limit_exceeded", before), Capture(pending, before),
                     AwaitTransfer(pending, before)}
    BY <1>1 DEF Process, before, e
  <2>3. /\ Reject(pending, "limit_exceeded", before)
             = Saves(rejected, Append(before, PaymentRejected(rejected)))
        /\ Capture(pending, before) = Saves(captured, Append(before, PaymentCaptured(captured)))
        /\ AwaitTransfer(pending, before)
             = Saves(waiting, Append(before, PaymentAwaitingTransfer(waiting)))
    BY DEF Reject, Capture, AwaitTransfer
  <2> HIDE DEF captured, waiting, rejected
  <2> QED
    BY <2>1, <2>2, <2>3
<1> HIDE DEF e, captured, waiting, rejected
<1>6. /\ NewPayment(given, captured, e, PaymentCaptured(captured))
      /\ NewPayment(given, waiting, e, PaymentAwaitingTransfer(waiting))
      /\ NewPayment(given, rejected, e, PaymentRejected(rejected))
  BY <1>2, <1>3, <1>4 DEF NewPayment
<1> QED
  BY <1>5, <1>6, Saved DEF PaymentMade

\* the transfer that came,
LEMMA PaymentOfTransfer ==
    ASSUME NEW given, NEW payment, PaymentFields \subseteq DOMAIN payment,
           NEW outcome, outcome = ConfirmTransfer(payment, given.received)
    PROVE  Silently(outcome) \/ PaymentSaved("ConfirmTransferReceived", given, payment, outcome)
<1> DEFINE captured == MoveTo(payment, "captured")
           rejected == [MoveTo(payment, "rejected") EXCEPT !.rejection = "amount_mismatch"]
<1>1. CASE outcome = Threw
  BY <1>1, SilentOutcomes
<1>2. CASE outcome # Threw
  <2>1. /\ PaymentFields \subseteq DOMAIN captured /\ captured.status = "captured"
        /\ PaymentFields \subseteq DOMAIN rejected /\ rejected.status = "rejected"
        /\ captured.amount = payment.amount /\ rejected.amount = payment.amount
    BY DEF MoveTo, PaymentFields
  <2>2. /\ PaymentCaptured(captured).name = "payment.captured"
        /\ PaymentRejected(rejected).name = "payment.rejected"
    BY DEF PaymentCaptured, PaymentRejected
  <2>3. payment.status = "awaiting_transfer"
    BY <1>2 DEF ConfirmTransfer
  <2>4. \/ outcome = Saves(captured, <<PaymentCaptured(captured)>>)
        \/ outcome = Saves(rejected, <<PaymentRejected(rejected)>>)
    BY <1>2 DEF ConfirmTransfer, Capture, Reject
  <2> HIDE DEF captured, rejected
  <2> DEFINE op == "ConfirmTransferReceived"
  <2>5. /\ PaymentTo(op, given, payment, captured, PaymentCaptured(captured))
        /\ PaymentTo(op, given, payment, rejected, PaymentRejected(rejected))
    BY <2>1, <2>2, <2>3 DEF PaymentTo
  <2> QED
    BY <2>4, <2>5, Saved DEF PaymentSaved
<1> QED
  BY <1>1, <1>2

\* a new amount,
LEMMA PaymentOfAmount ==
    ASSUME NEW given, NEW payment, PaymentFields \subseteq DOMAIN payment,
           NEW outcome, outcome = AdjustAmount(payment, given.total)
    PROVE  PaymentSaved("AdjustPaymentAmount", given, payment, outcome)
<1> DEFINE to == [payment EXCEPT !.amount = given.total]
           e == PaymentAmountAdjusted(to)
<1>1. CASE payment.status # "awaiting_transfer" \/ given.total = payment.amount
  <2>1. outcome = Saves(payment, <<>>)
    BY <1>1 DEF AdjustAmount
  <2> QED
    BY <1>1, <2>1, Saved DEF PaymentSaved, PaymentLeft
<1>2. CASE payment.status = "awaiting_transfer" /\ given.total # payment.amount
  <2>1. /\ PaymentFields \subseteq DOMAIN to /\ to.status = payment.status
        /\ to.amount = given.total
    BY DEF PaymentFields
  <2>2. e.name = "payment.amount_adjusted"
    BY DEF PaymentAmountAdjusted
  <2>3. outcome = Saves(to, <<e>>)
    BY <1>2 DEF AdjustAmount
  <2> HIDE DEF to, e
  <2>4. PaymentTo("AdjustPaymentAmount", given, payment, to, e)
    BY <1>2, <2>1, <2>2 DEF PaymentTo
  <2> QED
    BY <2>3, <2>4, Saved DEF PaymentSaved
<1> QED
  BY <1>1, <1>2

\* and the refund or the end of the payment of a cancelled order.
LEMMA PaymentOfCancellation ==
    ASSUME NEW given, NEW payment, PaymentFields \subseteq DOMAIN payment,
           NEW outcome, outcome = SettleForCancelledOrder(payment)
    PROVE  PaymentSaved("SettleCancelledOrderPayment", given, payment, outcome)
<1> DEFINE op == "SettleCancelledOrderPayment"
           refunded == MoveTo(payment, "refunded")
           voided == MoveTo(payment, "voided")
<1>1. /\ PaymentFields \subseteq DOMAIN refunded /\ refunded.status = "refunded"
      /\ PaymentFields \subseteq DOMAIN voided /\ voided.status = "voided"
  BY DEF MoveTo, PaymentFields
<1>2. /\ PaymentRefunded(payment).name = "payment.refunded"
      /\ PaymentVoided.name = "payment.voided"
  BY DEF PaymentRefunded, PaymentVoided
<1>3. CASE payment.status = "captured"
  <2>1. outcome = Saves(refunded, <<PaymentRefunded(payment)>>)
    BY <1>3 DEF SettleForCancelledOrder
  <2> HIDE DEF refunded
  <2>2. PaymentTo(op, given, payment, refunded, PaymentRefunded(payment))
    BY <1>1, <1>2, <1>3 DEF PaymentTo
  <2> QED
    BY <2>1, <2>2, Saved DEF PaymentSaved
<1>4. CASE payment.status = "awaiting_transfer"
  <2>1. outcome = Saves(voided, <<PaymentVoided>>)
    BY <1>4 DEF SettleForCancelledOrder
  <2> HIDE DEF voided
  <2>2. PaymentTo(op, given, payment, voided, PaymentVoided)
    BY <1>1, <1>2, <1>4 DEF PaymentTo
  <2> QED
    BY <2>1, <2>2, Saved DEF PaymentSaved
<1>5. CASE payment.status \notin {"captured", "awaiting_transfer"}
  <2>1. outcome = Saves(payment, <<>>)
    BY <1>5 DEF SettleForCancelledOrder
  <2> QED
    BY <1>5, <2>1, Saved DEF PaymentSaved, PaymentLeft
<1> QED
  BY <1>3, <1>4, <1>5

PaymentsOutcome(op, found, given, outcome) ==
    \/ /\ Silently(outcome)
       /\ op = "RequestPayment" => found # Absent
       /\ op \in {"AdjustPaymentAmount", "SettleCancelledOrderPayment"} => found = Absent
    \/ found = Absent /\ PaymentMade(op, given, outcome)
    \/ found # Absent /\ PaymentSaved(op, given, found.data, outcome)

\* So every use case and reaction of payments has one of these outcomes,
LEMMA PaymentsOutcomes ==
    ASSUME NEW op \in PaymentsOps, NEW found, NEW given,
           found = Absent \/ PaymentFields \subseteq DOMAIN found.data,
           NEW outcome, outcome = Payments(op, found, given)
    PROVE  PaymentsOutcome(op, found, given, outcome)
<1>1. CASE op = "ConfirmTransferReceived"
  <2>1. outcome = ConfirmTransferReceived(found, given)
    BY <1>1 DEF Payments
  <2> QED
    BY <1>1, <2>1, PaymentOfTransfer, SilentOutcomes DEF PaymentsOutcome, ConfirmTransferReceived
<1>2. CASE op = "RequestPayment"
  <2>1. outcome = RequestPaymentOnOrderCreated(found, given)
    BY <1>2 DEF Payments
  <2> QED
    BY <1>2, <2>1, PaymentOfOrder, SilentOutcomes
    DEF PaymentsOutcome, RequestPaymentOnOrderCreated
<1>3. CASE op = "AdjustPaymentAmount"
  <2>1. outcome = AdjustPaymentAmountOnOrderLineQuantityChanged(found, given)
    BY <1>3 DEF Payments
  <2> QED
    BY <1>3, <2>1, PaymentOfAmount, SilentOutcomes
    DEF PaymentsOutcome, AdjustPaymentAmountOnOrderLineQuantityChanged
<1>4. CASE op = "SettleCancelledOrderPayment"
  <2>1. outcome = SettleCancelledOrderPaymentOnOrderCancelled(found)
    BY <1>4 DEF Payments
  <2> QED
    BY <1>4, <2>1, PaymentOfCancellation, SilentOutcomes
    DEF PaymentsOutcome, SettleCancelledOrderPaymentOnOrderCancelled
<1> QED
  BY <1>1, <1>2, <1>3, <1>4 DEF PaymentsOps

\* What a step of payments does to the payment and to what was told.
PaymentMoved(op, given) ==
    \/ payments' = payments /\ published' = published
    \/ /\ payments # Absent /\ published' = published
       /\ payments'.version = payments.version + 1 /\ payments'.data = payments.data
    \/ /\ payments = Absent /\ payments'.version = 1
       /\ \E e, f : published' = published \cup {e, f} /\ NewPayment(given, payments'.data, e, f)
    \/ /\ payments # Absent /\ payments'.version = payments.version + 1
       /\ \E e : /\ published' = published \cup {e}
                 /\ PaymentTo(op, given, payments.data, payments'.data, e)

\* and a step of payments writes the payment it read, in that way, or changes nothing.
LEMMA PaymentsTurn ==
    ASSUME CallsOK, CopiesOK, RowsOK, NEW c \in Calls, PaymentsStep(c)
    PROVE  Goes(c) /\ PaymentMoved(Task(c).op, InputOf(c))
<1> DEFINE op      == Task(c).op
           copy    == call[c].read
           given   == InputOf(c)
           outcome == Payments(op, copy, given)
           kept    == Kept(payments, copy, outcome)
<1>1. /\ call[c].phase = "running" /\ op \in PaymentsOps /\ copy # Unread
      /\ payments' = kept.row /\ Go(c, outcome, kept)
  BY DEF PaymentsStep, Running, Task
<1>2. op \notin SummaryOps /\ op \notin SalesOps /\ op # "PlaceOrder"
  BY <1>1 DEF PaymentsOps, SummaryOps, SalesOps
<1>3. Copied(op, payments, copy)
  BY <1>1, <1>2 DEF CopiesOK, CopyOK, Task, Found
<1>4. payments = Absent \/ payments.version \in Nat \ {0}
  BY DEF RowsOK, RowOK
<1> HIDE DEF op, copy, given, outcome, kept
<1>5. \/ kept.row = payments /\ kept.end # "return"
      \/ kept.row = payments /\ outcome.does \in {"throw", "return"}
      \/ /\ copy = payments /\ outcome.does \notin {"throw", "return"} /\ kept.end = "return"
         /\ kept.row = IF outcome.does = "remove" THEN Absent
                       ELSE [version |-> payments.version + 1, data |-> outcome.to]
  BY <1>1, <1>3, <1>4, KeptOnTheRow DEF kept
<1>6. PaymentsOutcome(op, copy, given, outcome)
  <2>1. copy = Absent \/ PaymentFields \subseteq DOMAIN copy.data
    BY <1>1, <1>2, <1>3 DEF Copied, FieldsFor
  <2> QED
    BY <1>1, <2>1, PaymentsOutcomes DEF outcome
<1>7. CASE kept.row = payments /\ kept.end # "return"
  BY <1>1, <1>7, GoSilent DEF PaymentMoved
<1>8. CASE kept.row = payments /\ outcome.does \in {"throw", "return"}
  <2>1. outcome.events = <<>>
    BY <1>6, <1>8 DEF PaymentsOutcome, Silently, PaymentMade, PaymentSaved
  <2> QED
    BY <1>1, <1>8, <2>1, GoSilent DEF PaymentMoved
<1>9. CASE /\ copy = payments /\ outcome.does \notin {"throw", "return"} /\ kept.end = "return"
           /\ kept.row = IF outcome.does = "remove" THEN Absent
                         ELSE [version |-> payments.version + 1, data |-> outcome.to]
  <2>1. payments' = [version |-> payments.version + 1, data |-> outcome.to]
    BY <1>1, <1>6, <1>9 DEF PaymentsOutcome, Silently, PaymentMade, PaymentSaved
  <2>2. CASE copy = Absent /\ PaymentMade(op, given, outcome)
    <3>1. payments = Absent /\ payments'.version = 1 /\ payments'.data = outcome.to
      BY <1>9, <2>1, <2>2 DEF Absent
    <3>2. PICK e, f : outcome.events = <<e, f>> /\ NewPayment(given, outcome.to, e, f)
      BY <2>2 DEF PaymentMade
    <3>3. Goes(c) /\ published' = published \cup {Stamp(c, e), Stamp(c, f)}
      BY <1>1, <1>9, <3>2, GoTellingTwice
    <3>4. NewPayment(given, outcome.to, Stamp(c, e), Stamp(c, f))
      BY <3>2 DEF NewPayment, Stamp
    <3> QED
      BY <3>1, <3>3, <3>4 DEF PaymentMoved, op, given
  <2>3. CASE copy # Absent /\ PaymentSaved(op, given, copy.data, outcome)
    <3>1. payments # Absent
      BY <1>9, <2>3
    <3>2. CASE outcome.to = payments.data /\ outcome.events = <<>>
      <4>1. Goes(c) /\ published' = published
        BY <1>1, <3>2, GoSilent
      <4> QED
        BY <2>1, <3>1, <3>2, <4>1 DEF PaymentMoved
    <3>3. CASE \E e : outcome.events = <<e>> /\ PaymentTo(op, given, payments.data, outcome.to, e)
      <4>1. PICK e : outcome.events = <<e>> /\ PaymentTo(op, given, payments.data, outcome.to, e)
        BY <3>3
      <4>2. Goes(c) /\ published' = published \cup {Stamp(c, e)}
        BY <1>1, <1>9, <4>1, GoTelling
      <4>3. PaymentTo(op, given, payments.data, outcome.to, Stamp(c, e))
        BY <4>1 DEF PaymentTo, Stamp
      <4> QED
        BY <2>1, <3>1, <4>2, <4>3 DEF PaymentMoved, op, given
    <3> QED
      BY <1>9, <2>3, <3>2, <3>3 DEF PaymentSaved
  <2> QED
    BY <1>6, <1>9, <2>2, <2>3 DEF PaymentsOutcome, Silently
<1> QED
  BY <1>5, <1>7, <1>8, <1>9

-------------------------------------------------------------------------------
(* Shipping.                                                                   *)

\* What a save makes of a shipment, and what it tells.
ShipmentTo(op, shipment, to, e) ==
    /\ ShipmentFields \subseteq DOMAIN to
    /\ to.address = shipment.address /\ to.contents = shipment.contents
    /\ \/ /\ op = "DispatchShipment"
          /\ shipment.status = "preparing" /\ to.status = "dispatched"
          /\ e.name = "shipment.dispatched"
       \/ /\ op = "DeliverShipment"
          /\ shipment.status = "dispatched" /\ to.status = "delivered"
          /\ e.name = "shipment.delivered"
       \/ /\ op = "CancelShipment"
          /\ shipment.status = "preparing" /\ to.status = "cancelled"
          /\ e.name = "shipment.cancelled"
\* A reaction that does not apply to the shipment leaves it alone.
ShipmentLeft(op, shipment) == op = "CancelShipment" => shipment.status # "preparing"
ShipmentSaved(op, shipment, outcome) ==
    /\ outcome.does = "save"
    /\ \/ outcome.to = shipment /\ outcome.events = <<>> /\ ShipmentLeft(op, shipment)
       \/ \E e : outcome.events = <<e>> /\ ShipmentTo(op, shipment, outcome.to, e)
ShipmentFor(given, to) ==
    /\ ShipmentFields \subseteq DOMAIN to /\ to.status = "preparing"
    /\ to.address = given.address /\ to.contents = given.items
ShipmentMade(op, given, outcome) ==
    /\ op = "PrepareShipment" /\ outcome.does = "save"
    /\ ShipmentFor(given, outcome.to)
    /\ \E e : outcome.events = <<e>> /\ e.name = "shipment.created"

\* What each method of a shipment leaves: the shipment that is prepared,
LEMMA ShipmentOfOrder ==
    ASSUME NEW given, NEW outcome,
           outcome = NewShipment(given.address, given.items, given.giftWrap)
    PROVE  \/ Silently(outcome) /\ given.items = <<>>
           \/ ShipmentMade("PrepareShipment", given, outcome)
<1>1. CASE given.items = <<>>
  BY <1>1, SilentOutcomes DEF NewShipment
<1>2. CASE given.items # <<>>
  <2>1. PICK to : /\ outcome = Saves(to, <<ShipmentCreated(to)>>)
                  /\ ShipmentFor(given, to)
    BY <1>2 DEF NewShipment, ShipmentFor, ShipmentFields
  <2>2. ShipmentCreated(to).name = "shipment.created"
    BY DEF ShipmentCreated
  <2> QED
    BY <2>1, <2>2, Saved DEF ShipmentMade
<1> QED
  BY <1>1, <1>2

\* its dispatch,
LEMMA ShipmentOfDispatch ==
    ASSUME NEW shipment, ShipmentFields \subseteq DOMAIN shipment, NEW number,
           NEW outcome, outcome = Dispatch(shipment, number)
    PROVE  Silently(outcome) \/ ShipmentSaved("DispatchShipment", shipment, outcome)
<1> DEFINE to == [shipment EXCEPT !.status = "dispatched", !.trackingNumber = number]
           e == ShipmentDispatched(to)
<1>1. CASE outcome = Threw
  BY <1>1, SilentOutcomes
<1>2. CASE shipment.status = "preparing" /\ outcome = Saves(to, <<e>>)
  <2>1. /\ ShipmentFields \subseteq DOMAIN to /\ to.status = "dispatched"
        /\ to.address = shipment.address /\ to.contents = shipment.contents
    BY DEF ShipmentFields
  <2>2. e.name = "shipment.dispatched"
    BY DEF ShipmentDispatched
  <2> HIDE DEF to, e
  <2>3. ShipmentTo("DispatchShipment", shipment, to, e)
    BY <1>2, <2>1, <2>2 DEF ShipmentTo
  <2> QED
    BY <1>2, <2>3, Saved DEF ShipmentSaved
<1> QED
  BY <1>1, <1>2 DEF Dispatch

\* its delivery,
LEMMA ShipmentOfDelivery ==
    ASSUME NEW shipment, ShipmentFields \subseteq DOMAIN shipment,
           NEW outcome, outcome = DeliverShipment(shipment)
    PROVE  Silently(outcome) \/ ShipmentSaved("DeliverShipment", shipment, outcome)
<1> DEFINE to == [shipment EXCEPT !.status = "delivered"]
           e == ShipmentDelivered
<1>1. CASE outcome = Threw
  BY <1>1, SilentOutcomes
<1>2. CASE shipment.status = "dispatched" /\ outcome = Saves(to, <<e>>)
  <2>1. /\ ShipmentFields \subseteq DOMAIN to /\ to.status = "delivered"
        /\ to.address = shipment.address /\ to.contents = shipment.contents
    BY DEF ShipmentFields
  <2>2. e.name = "shipment.delivered"
    BY DEF ShipmentDelivered
  <2> HIDE DEF to, e
  <2>3. ShipmentTo("DeliverShipment", shipment, to, e)
    BY <1>2, <2>1, <2>2 DEF ShipmentTo
  <2> QED
    BY <1>2, <2>3, Saved DEF ShipmentSaved
<1> QED
  BY <1>1, <1>2 DEF DeliverShipment

\* and its end with the order.
LEMMA ShipmentOfCancellation ==
    ASSUME NEW shipment, ShipmentFields \subseteq DOMAIN shipment,
           NEW outcome, outcome = CancelForCancelledOrder(shipment)
    PROVE  ShipmentSaved("CancelShipment", shipment, outcome)
<1> DEFINE to == [shipment EXCEPT !.status = "cancelled"]
           e == ShipmentCancelled
<1>1. CASE shipment.status # "preparing" /\ outcome = Saves(shipment, <<>>)
  BY <1>1, Saved DEF ShipmentSaved, ShipmentLeft
<1>2. CASE shipment.status = "preparing" /\ outcome = Saves(to, <<e>>)
  <2>1. /\ ShipmentFields \subseteq DOMAIN to /\ to.status = "cancelled"
        /\ to.address = shipment.address /\ to.contents = shipment.contents
    BY DEF ShipmentFields
  <2>2. e.name = "shipment.cancelled"
    BY DEF ShipmentCancelled
  <2> HIDE DEF to, e
  <2>3. ShipmentTo("CancelShipment", shipment, to, e)
    BY <1>2, <2>1, <2>2 DEF ShipmentTo
  <2> QED
    BY <1>2, <2>3, Saved DEF ShipmentSaved
<1> QED
  BY <1>1, <1>2 DEF CancelForCancelledOrder

ShippingOutcome(op, found, given, outcome) ==
    \/ /\ Silently(outcome)
       /\ op = "PrepareShipment" => found # Absent \/ given.items = <<>>
       /\ op = "CancelShipment" => found = Absent
    \/ found = Absent /\ ShipmentMade(op, given, outcome)
    \/ found # Absent /\ ShipmentSaved(op, found.data, outcome)

\* So every use case and reaction of shipping has one of these outcomes,
LEMMA ShippingOutcomes ==
    ASSUME NEW op \in ShippingOps, NEW found, NEW given,
           found = Absent \/ ShipmentFields \subseteq DOMAIN found.data,
           NEW outcome, outcome = Shipping(op, found, given)
    PROVE  ShippingOutcome(op, found, given, outcome)
<1>1. CASE op = "DispatchShipment"
  <2>1. outcome = DispatchShipment(found, given)
    BY <1>1 DEF Shipping
  <2> QED
    BY <1>1, <2>1, ShipmentOfDispatch, SilentOutcomes DEF ShippingOutcome, DispatchShipment
<1>2. CASE op = "DeliverShipment"
  <2>1. outcome = DeliverShipmentUseCase(found)
    BY <1>2 DEF Shipping
  <2> QED
    BY <1>2, <2>1, ShipmentOfDelivery, SilentOutcomes DEF ShippingOutcome, DeliverShipmentUseCase
<1>3. CASE op = "PrepareShipment"
  <2>1. outcome = PrepareShipmentOnOrderPaid(found, given)
    BY <1>3 DEF Shipping
  <2> QED
    BY <1>3, <2>1, ShipmentOfOrder, SilentOutcomes
    DEF ShippingOutcome, PrepareShipmentOnOrderPaid
<1>4. CASE op = "CancelShipment"
  <2>1. outcome = CancelShipmentOnOrderCancelled(found)
    BY <1>4 DEF Shipping
  <2> QED
    BY <1>4, <2>1, ShipmentOfCancellation, SilentOutcomes
    DEF ShippingOutcome, CancelShipmentOnOrderCancelled
<1> QED
  BY <1>1, <1>2, <1>3, <1>4 DEF ShippingOps

\* What a step of shipping does to the shipment and to what was told.
ShipmentMoved(op, given) ==
    \/ shipments' = shipments /\ published' = published
    \/ /\ shipments # Absent /\ published' = published
       /\ shipments'.version = shipments.version + 1 /\ shipments'.data = shipments.data
    \/ /\ op = "PrepareShipment" /\ shipments = Absent /\ shipments'.version = 1
       /\ ShipmentFor(given, shipments'.data)
       /\ \E e : published' = published \cup {e} /\ e.name = "shipment.created"
    \/ /\ shipments # Absent /\ shipments'.version = shipments.version + 1
       /\ \E e : /\ published' = published \cup {e}
                 /\ ShipmentTo(op, shipments.data, shipments'.data, e)

\* and a step of shipping writes the shipment it read, in that way, or changes nothing.
LEMMA ShippingTurn ==
    ASSUME CallsOK, CopiesOK, RowsOK, NEW c \in Calls, ShippingStep(c)
    PROVE  Goes(c) /\ ShipmentMoved(Task(c).op, InputOf(c))
<1> DEFINE op      == Task(c).op
           copy    == call[c].read
           given   == InputOf(c)
           outcome == Shipping(op, copy, given)
           kept    == Kept(shipments, copy, outcome)
<1>1. /\ call[c].phase = "running" /\ op \in ShippingOps /\ copy # Unread
      /\ shipments' = kept.row /\ Go(c, outcome, kept)
  BY DEF ShippingStep, Running, Task
<1>2. op \notin SummaryOps /\ op \notin SalesOps /\ op \notin PaymentsOps /\ op # "PlaceOrder"
  BY <1>1 DEF PaymentsOps, SummaryOps, SalesOps, ShippingOps
<1>3. Copied(op, shipments, copy)
  BY <1>1, <1>2 DEF CopiesOK, CopyOK, Task, Found
<1>4. shipments = Absent \/ shipments.version \in Nat \ {0}
  BY DEF RowsOK, RowOK
<1> HIDE DEF op, copy, given, outcome, kept
<1>5. \/ kept.row = shipments /\ kept.end # "return"
      \/ kept.row = shipments /\ outcome.does \in {"throw", "return"}
      \/ /\ copy = shipments /\ outcome.does \notin {"throw", "return"} /\ kept.end = "return"
         /\ kept.row = IF outcome.does = "remove" THEN Absent
                       ELSE [version |-> shipments.version + 1, data |-> outcome.to]
  BY <1>1, <1>3, <1>4, KeptOnTheRow DEF kept
<1>6. ShippingOutcome(op, copy, given, outcome)
  <2>1. copy = Absent \/ ShipmentFields \subseteq DOMAIN copy.data
    BY <1>1, <1>2, <1>3 DEF Copied, FieldsFor
  <2> QED
    BY <1>1, <2>1, ShippingOutcomes DEF outcome
<1>7. CASE kept.row = shipments /\ kept.end # "return"
  BY <1>1, <1>7, GoSilent DEF ShipmentMoved
<1>8. CASE kept.row = shipments /\ outcome.does \in {"throw", "return"}
  <2>1. outcome.events = <<>>
    BY <1>6, <1>8 DEF ShippingOutcome, Silently, ShipmentMade, ShipmentSaved
  <2> QED
    BY <1>1, <1>8, <2>1, GoSilent DEF ShipmentMoved
<1>9. CASE /\ copy = shipments /\ outcome.does \notin {"throw", "return"} /\ kept.end = "return"
           /\ kept.row = IF outcome.does = "remove" THEN Absent
                         ELSE [version |-> shipments.version + 1, data |-> outcome.to]
  <2>1. shipments' = [version |-> shipments.version + 1, data |-> outcome.to]
    BY <1>1, <1>6, <1>9 DEF ShippingOutcome, Silently, ShipmentMade, ShipmentSaved
  <2>2. CASE copy = Absent /\ ShipmentMade(op, given, outcome)
    <3>1. shipments = Absent /\ shipments'.version = 1 /\ shipments'.data = outcome.to
      BY <1>9, <2>1, <2>2 DEF Absent
    <3>2. PICK e : outcome.events = <<e>> /\ e.name = "shipment.created"
      BY <2>2 DEF ShipmentMade
    <3>3. Goes(c) /\ published' = published \cup {Stamp(c, e)}
      BY <1>1, <1>9, <3>2, GoTelling
    <3>4. Stamp(c, e).name = "shipment.created"
      BY <3>2 DEF Stamp
    <3> QED
      BY <2>2, <3>1, <3>3, <3>4 DEF ShipmentMoved, ShipmentMade, op, given
  <2>3. CASE copy # Absent /\ ShipmentSaved(op, copy.data, outcome)
    <3>1. shipments # Absent
      BY <1>9, <2>3
    <3>2. CASE outcome.to = shipments.data /\ outcome.events = <<>>
      <4>1. Goes(c) /\ published' = published
        BY <1>1, <3>2, GoSilent
      <4> QED
        BY <2>1, <3>1, <3>2, <4>1 DEF ShipmentMoved
    <3>3. CASE \E e : outcome.events = <<e>> /\ ShipmentTo(op, shipments.data, outcome.to, e)
      <4>1. PICK e : outcome.events = <<e>> /\ ShipmentTo(op, shipments.data, outcome.to, e)
        BY <3>3
      <4>2. Goes(c) /\ published' = published \cup {Stamp(c, e)}
        BY <1>1, <1>9, <4>1, GoTelling
      <4>3. ShipmentTo(op, shipments.data, outcome.to, Stamp(c, e))
        BY <4>1 DEF ShipmentTo, Stamp
      <4> QED
        BY <2>1, <3>1, <4>2, <4>3 DEF ShipmentMoved, op
    <3> QED
      BY <1>9, <2>3, <3>2, <3>3 DEF ShipmentSaved
  <2> QED
    BY <1>6, <1>9, <2>2, <2>3 DEF ShippingOutcome, Silently
<1> QED
  BY <1>5, <1>7, <1>8, <1>9

-------------------------------------------------------------------------------
(* The rows and the events.                                                    *)

\* A reaction runs because its event was told.
LEMMA TaskTold ==
    ASSUME CallsOK, NEW c \in Calls, call[c].phase = "running"
    PROVE  /\ Task(c).op = "MarkOrderPaid" => Told("payment.captured")
           /\ Task(c).op = "MarkOrderShipped" => Told("shipment.dispatched")
           /\ Task(c).op = "MarkOrderDelivered" => Told("shipment.delivered")
           /\ Task(c).op = "SettleCancelledOrderPayment" => Told("order.cancelled")
           /\ Task(c).op = "PrepareShipment" =>
                Task(c).event \in published /\ Task(c).event.name = "order.paid"
BY TaskKnown DEF IsReaction, Answers, Told, UseCases

\* An event more has been told,
LEMMA ToldThen ==
    ASSUME NEW e, published' = published \cup {e}, NEW name
    PROVE  Told(name)' <=> Told(name) \/ e.name = name
BY DEF Told

\* or none.
LEMMA ToldSame ==
    ASSUME published' = published, NEW name
    PROVE  Told(name)' <=> Told(name)
BY DEF Told

\* A step of sales.
LEMMA SalesBacks ==
    ASSUME CallsOK, CopiesOK, PlacedOnce, Backed, NEW c \in Calls, SalesStep(c)
    PROVE  Backed'
<1> DEFINE op == Task(c).op
<1>1. OrderMoved(op) /\ UNCHANGED <<payments, shipments, summary>>
  BY SalesTurn DEF SalesStep, Backed
<1>2. call[c].phase = "running"
  BY DEF SalesStep, Running
<1>3. op = "PlaceOrder" <=> published = {}
  BY <1>2 DEF PlacedOnce, Placing
<1>4. /\ op = "MarkOrderPaid" => Told("payment.captured")
      /\ op = "MarkOrderShipped" => Told("shipment.dispatched")
      /\ op = "MarkOrderDelivered" => Told("shipment.delivered")
  BY <1>2, TaskTold
<1> HIDE DEF op
<1> USE DEF Absent
<1>5. CASE orders' = orders /\ published' = published
  BY <1>1, <1>5 DEF Backed, RowsOK, RowOK, NothingBefore, OrderBacked, PaymentBacked,
     ShipmentBacked, PaidAsTold, ShipsTheOrder, OrderIs, PaymentIs, ShipmentIs, Told
<1>6. CASE /\ orders # Absent /\ published' = published
           /\ orders'.version = orders.version + 1 /\ orders'.data = orders.data
  <2>1. orders.version \in Nat \ {0} /\ orders' # Absent /\ orders'.version \in Nat \ {0}
    BY <1>6 DEF Backed, RowsOK, RowOK
  <2>2. RowsOK' /\ NothingBefore'
    BY <1>1, <1>6, <2>1 DEF Backed, RowsOK, RowOK, NothingBefore
  <2>3. OrderBacked'
    BY <1>6, <2>1, ToldSame DEF Backed, OrderBacked, OrderIs
  <2>4. PaymentBacked' /\ ShipmentBacked'
    BY <1>1, <1>6, ToldSame DEF Backed, PaymentBacked, ShipmentBacked, PaymentIs, ShipmentIs
  <2>5. PaidAsTold' /\ ShipsTheOrder'
    BY <1>1, <1>6, <2>1 DEF Backed, PaidAsTold, ShipsTheOrder
  <2> QED
    BY <2>2, <2>3, <2>4, <2>5 DEF Backed
<1>7. CASE /\ orders # Absent /\ published' = published
           /\ orders.data.status = "cancelled" /\ orders' = Absent
  <2>1. RowsOK' /\ NothingBefore'
    BY <1>1, <1>7 DEF Backed, RowsOK, RowOK, NothingBefore
  <2>2. OrderBacked'
    BY <1>7, ToldSame DEF Backed, OrderBacked, OrderIs
  <2>3. PaymentBacked' /\ ShipmentBacked'
    BY <1>1, <1>7, ToldSame DEF Backed, PaymentBacked, ShipmentBacked, PaymentIs, ShipmentIs
  <2>4. PaidAsTold' /\ ShipsTheOrder'
    BY <1>1, <1>7 DEF Backed, PaidAsTold, ShipsTheOrder
  <2> QED
    BY <2>1, <2>2, <2>3, <2>4 DEF Backed
<1>8. CASE /\ op = "PlaceOrder" /\ orders = Absent
           /\ OrderFields \subseteq DOMAIN orders'.data
           /\ orders'.data.status = "pending_payment" /\ orders'.version = 1
           /\ \E e : published' = published \cup {e} /\ e.name = "order.created"
  <2>1. PICK e : published' = published \cup {e} /\ e.name = "order.created"
    BY <1>8
  <2>2. published = {} /\ payments = Absent /\ shipments = Absent /\ orders' # Absent
    BY <1>3, <1>8 DEF Backed, NothingBefore
  <2>3. RowsOK' /\ NothingBefore'
    BY <1>1, <1>8, <2>1, <2>2 DEF RowsOK, RowOK, NothingBefore, OrderStatus
  <2>4. \A name : Told(name)' <=> name = "order.created"
    BY <2>1, <2>2, ToldThen DEF Told
  <2>5. OrderBacked' /\ PaymentBacked' /\ ShipmentBacked'
    BY <1>1, <1>8, <2>2, <2>4
    DEF OrderBacked, PaymentBacked, ShipmentBacked, OrderIs, PaymentIs, ShipmentIs
  <2>6. PaidAsTold' /\ ShipsTheOrder'
    BY <1>1, <2>1, <2>2 DEF PaidAsTold, ShipsTheOrder
  <2> QED
    BY <2>3, <2>5, <2>6 DEF Backed
<1>9. CASE /\ orders # Absent /\ orders'.version = orders.version + 1
           /\ \E e : published' = published \cup {e} /\ OrderTo(op, orders.data, orders'.data, e)
  <2>1. PICK e : published' = published \cup {e} /\ OrderTo(op, orders.data, orders'.data, e)
    BY <1>9
  <2>2. orders.version \in Nat \ {0} /\ orders' # Absent /\ orders'.version \in Nat \ {0}
    BY <1>9 DEF Backed, RowsOK, RowOK
  <2>3. RowsOK' /\ NothingBefore'
    BY <1>1, <2>1, <2>2 DEF Backed, RowsOK, RowOK, NothingBefore, OrderStatus, OrderTo
  <2>4. \A name : Told(name)' <=> Told(name) \/ e.name = name
    BY <2>1, ToldThen
  <2>5. OrderBacked'
    BY <1>4, <1>9, <2>1, <2>2, <2>4 DEF Backed, OrderBacked, OrderIs, OrderTo
  <2>6. PaymentBacked' /\ ShipmentBacked'
    BY <1>1, <2>1, <2>4
    DEF Backed, PaymentBacked, ShipmentBacked, PaymentIs, ShipmentIs, OrderTo
  <2>7. PaidAsTold'
    <3> SUFFICES ASSUME NEW x \in published', x.name = "order.paid"
                 PROVE  /\ {"address", "items"} \subseteq DOMAIN x.body
                        /\ orders'.data.status # "pending_payment"
                        /\ x.body.address = orders'.data.shippingAddress
                        /\ x.body.items = Items(orders'.data.lines)
      BY DEF PaidAsTold
    <3>1. CASE x \in published
      <4>1. /\ {"address", "items"} \subseteq DOMAIN x.body
            /\ orders.data.status # "pending_payment"
            /\ x.body.address = orders.data.shippingAddress
            /\ x.body.items = Items(orders.data.lines)
        BY <1>9, <3>1 DEF Backed, PaidAsTold
      <4> QED
        BY <2>1, <4>1 DEF OrderTo, SameParcel
    <3>2. CASE x = e
      <4>1. x.body = OrderPaid(orders'.data).body /\ orders'.data.status = "paid"
        BY <2>1, <3>2 DEF OrderTo
      <4> QED
        BY <4>1 DEF OrderPaid
    <3> QED
      BY <2>1, <3>1, <3>2
  <2>8. ShipsTheOrder'
    <3> SUFFICES ASSUME shipments # Absent
                 PROVE  /\ shipments.data.address = orders'.data.shippingAddress
                        /\ shipments.data.contents = Items(orders'.data.lines)
      BY <1>1 DEF ShipsTheOrder
    <3>1. PICK x \in published : x.name = "order.paid"
      BY DEF Backed, ShipmentBacked, Told
    <3>2. orders.data.status # "pending_payment"
      BY <1>9, <3>1 DEF Backed, PaidAsTold
    <3> QED
      BY <1>9, <2>1, <3>2 DEF Backed, ShipsTheOrder, OrderTo, SameParcel
  <2> QED
    BY <2>3, <2>5, <2>6, <2>7, <2>8 DEF Backed
<1> QED
  BY <1>1, <1>5, <1>6, <1>7, <1>8, <1>9 DEF OrderMoved

\* A step of payments.
LEMMA PaymentsBack ==
    ASSUME CallsOK, CopiesOK, PlacedOnce, Backed, NEW c \in Calls, PaymentsStep(c)
    PROVE  Backed'
<1> DEFINE op == Task(c).op
<1>1. PaymentMoved(op, InputOf(c)) /\ UNCHANGED <<orders, shipments, summary>>
  BY PaymentsTurn DEF PaymentsStep, Backed
<1>2. published # {}
  <2>1. op \in PaymentsOps /\ call[c].phase = "running"
    BY DEF PaymentsStep, Running, Task
  <2> QED
    BY <2>1 DEF PlacedOnce, Placing, PaymentsOps
<1>3. op = "SettleCancelledOrderPayment" => Told("order.cancelled")
  BY TaskTold DEF PaymentsStep, Running
<1> HIDE DEF op
<1> USE DEF Absent
<1>4. CASE payments' = payments /\ published' = published
  BY <1>1, <1>4 DEF Backed, RowsOK, RowOK, NothingBefore, OrderBacked, PaymentBacked,
     ShipmentBacked, PaidAsTold, ShipsTheOrder, OrderIs, PaymentIs, ShipmentIs, Told
<1>5. CASE /\ payments # Absent /\ published' = published
           /\ payments'.version = payments.version + 1 /\ payments'.data = payments.data
  <2>1. payments.version \in Nat \ {0} /\ payments' # Absent
        /\ payments'.version \in Nat \ {0}
    BY <1>5 DEF Backed, RowsOK, RowOK
  <2>2. RowsOK' /\ NothingBefore'
    BY <1>1, <1>2, <1>5, <2>1 DEF Backed, RowsOK, RowOK, NothingBefore
  <2>3. OrderBacked' /\ PaymentBacked' /\ ShipmentBacked'
    BY <1>1, <1>5, <2>1, ToldSame
    DEF Backed, OrderBacked, PaymentBacked, ShipmentBacked, OrderIs, PaymentIs, ShipmentIs
  <2>4. PaidAsTold' /\ ShipsTheOrder'
    BY <1>1, <1>5 DEF Backed, PaidAsTold, ShipsTheOrder
  <2> QED
    BY <2>2, <2>3, <2>4 DEF Backed
<1>6. CASE /\ payments = Absent /\ payments'.version = 1
           /\ \E e, f : /\ published' = published \cup {e, f}
                        /\ NewPayment(InputOf(c), payments'.data, e, f)
  <2>1. PICK e, f : /\ published' = published \cup {e, f}
                    /\ NewPayment(InputOf(c), payments'.data, e, f)
    BY <1>6
  <2>2. RowsOK' /\ NothingBefore'
    BY <1>1, <1>2, <1>6, <2>1
    DEF Backed, RowsOK, RowOK, NothingBefore, NewPayment, PaymentStatus
  <2>3. \A name : Told(name)' <=> Told(name) \/ e.name = name \/ f.name = name
    BY <2>1 DEF Told
  <2>4. OrderBacked' /\ ShipmentBacked'
    BY <1>1, <2>1, <2>3
    DEF Backed, OrderBacked, ShipmentBacked, OrderIs, ShipmentIs, NewPayment
  <2>5. PaymentBacked'
    BY <1>6, <2>1, <2>3 DEF Backed, PaymentBacked, PaymentIs, NewPayment
  <2>6. PaidAsTold' /\ ShipsTheOrder'
    BY <1>1, <2>1 DEF Backed, PaidAsTold, ShipsTheOrder, NewPayment
  <2> QED
    BY <2>2, <2>4, <2>5, <2>6 DEF Backed
<1>7. CASE /\ payments # Absent /\ payments'.version = payments.version + 1
           /\ \E e : /\ published' = published \cup {e}
                     /\ PaymentTo(op, InputOf(c), payments.data, payments'.data, e)
  <2>1. PICK e : /\ published' = published \cup {e}
                 /\ PaymentTo(op, InputOf(c), payments.data, payments'.data, e)
    BY <1>7
  <2>2. payments.version \in Nat \ {0} /\ payments' # Absent
        /\ payments'.version \in Nat \ {0}
    BY <1>7 DEF Backed, RowsOK, RowOK
  <2>3. RowsOK' /\ NothingBefore'
    BY <1>1, <1>2, <1>7, <2>1, <2>2
    DEF Backed, RowsOK, RowOK, NothingBefore, PaymentTo, PaymentStatus
  <2>4. \A name : Told(name)' <=> Told(name) \/ e.name = name
    BY <2>1, ToldThen
  <2>5. OrderBacked' /\ ShipmentBacked'
    BY <1>1, <2>1, <2>4
    DEF Backed, OrderBacked, ShipmentBacked, OrderIs, ShipmentIs, PaymentTo
  <2>6. PaymentBacked'
    BY <1>3, <1>7, <2>1, <2>2, <2>4 DEF Backed, PaymentBacked, PaymentIs, PaymentTo
  <2>7. PaidAsTold' /\ ShipsTheOrder'
    BY <1>1, <2>1 DEF Backed, PaidAsTold, ShipsTheOrder, PaymentTo
  <2> QED
    BY <2>3, <2>5, <2>6, <2>7 DEF Backed
<1> QED
  BY <1>1, <1>4, <1>5, <1>6, <1>7 DEF PaymentMoved

\* A step of shipping.
LEMMA ShippingBacks ==
    ASSUME CallsOK, CopiesOK, PlacedOnce, Backed, NEW c \in Calls, ShippingStep(c)
    PROVE  Backed'
<1> DEFINE op == Task(c).op
<1>1. ShipmentMoved(op, InputOf(c)) /\ UNCHANGED <<orders, payments, summary>>
  BY ShippingTurn DEF ShippingStep, Backed
<1>2. published # {}
  <2>1. op \in ShippingOps /\ call[c].phase = "running"
    BY DEF ShippingStep, Running, Task
  <2> QED
    BY <2>1 DEF PlacedOnce, Placing, ShippingOps
<1>3. op = "PrepareShipment" =>
        Task(c).event \in published /\ Task(c).event.name = "order.paid"
  BY TaskTold DEF ShippingStep, Running
<1> USE DEF Absent
<1>4. CASE shipments' = shipments /\ published' = published
  BY <1>1, <1>4 DEF Backed, RowsOK, RowOK, NothingBefore, OrderBacked, PaymentBacked,
     ShipmentBacked, PaidAsTold, ShipsTheOrder, OrderIs, PaymentIs, ShipmentIs, Told
<1>5. CASE /\ shipments # Absent /\ published' = published
           /\ shipments'.version = shipments.version + 1 /\ shipments'.data = shipments.data
  <2>1. shipments.version \in Nat \ {0} /\ shipments' # Absent
        /\ shipments'.version \in Nat \ {0}
    BY <1>5 DEF Backed, RowsOK, RowOK
  <2>2. RowsOK' /\ NothingBefore'
    BY <1>1, <1>2, <1>5, <2>1 DEF Backed, RowsOK, RowOK, NothingBefore
  <2>3. OrderBacked' /\ PaymentBacked' /\ ShipmentBacked'
    BY <1>1, <1>5, <2>1, ToldSame
    DEF Backed, OrderBacked, PaymentBacked, ShipmentBacked, OrderIs, PaymentIs, ShipmentIs
  <2>4. PaidAsTold' /\ ShipsTheOrder'
    BY <1>1, <1>5 DEF Backed, PaidAsTold, ShipsTheOrder
  <2> QED
    BY <2>2, <2>3, <2>4 DEF Backed
<1>6. CASE /\ op = "PrepareShipment" /\ shipments = Absent /\ shipments'.version = 1
           /\ ShipmentFor(InputOf(c), shipments'.data)
           /\ \E e : published' = published \cup {e} /\ e.name = "shipment.created"
  <2>1. PICK e : published' = published \cup {e} /\ e.name = "shipment.created"
    BY <1>6
  <2>2. RowsOK' /\ NothingBefore'
    BY <1>1, <1>2, <1>6, <2>1
    DEF Backed, RowsOK, RowOK, NothingBefore, ShipmentFor, ShipmentStatus
  <2>3. \A name : Told(name)' <=> Told(name) \/ e.name = name
    BY <2>1, ToldThen
  <2>4. Told("order.paid")
    BY <1>3, <1>6 DEF Told
  <2>5. OrderBacked' /\ PaymentBacked'
    BY <1>1, <2>1, <2>3 DEF Backed, OrderBacked, PaymentBacked, OrderIs, PaymentIs
  <2>6. ShipmentBacked'
    BY <1>6, <2>1, <2>3, <2>4 DEF Backed, ShipmentBacked, ShipmentIs
  <2>7. PaidAsTold'
    BY <1>1, <2>1 DEF Backed, PaidAsTold
  <2>8. ShipsTheOrder'
    <3> DEFINE body == Task(c).event.body
    <3>1. /\ {"address", "items"} \subseteq DOMAIN body
          /\ orders # Absent => /\ body.address = orders.data.shippingAddress
                                /\ body.items = Items(orders.data.lines)
      BY <1>3, <1>6 DEF Backed, PaidAsTold
    <3>2. InputOf(c) = ShippingHears(body)
      BY <1>6 DEF InputOf, UseCases, Given, PaymentsOps, ShippingOps
    <3> HIDE DEF body
    <3>3. InputOf(c).address = body.address /\ InputOf(c).items = body.items
      BY <3>1, <3>2 DEF ShippingHears, Keeps
    <3> QED
      BY <1>1, <1>6, <3>1, <3>3 DEF ShipsTheOrder, ShipmentFor
  <2> QED
    BY <2>2, <2>5, <2>6, <2>7, <2>8 DEF Backed
<1>7. CASE /\ shipments # Absent /\ shipments'.version = shipments.version + 1
           /\ \E e : /\ published' = published \cup {e}
                     /\ ShipmentTo(op, shipments.data, shipments'.data, e)
  <2>1. PICK e : /\ published' = published \cup {e}
                 /\ ShipmentTo(op, shipments.data, shipments'.data, e)
    BY <1>7
  <2>2. shipments.version \in Nat \ {0} /\ shipments' # Absent
        /\ shipments'.version \in Nat \ {0}
    BY <1>7 DEF Backed, RowsOK, RowOK
  <2>3. RowsOK' /\ NothingBefore'
    BY <1>1, <1>2, <1>7, <2>1, <2>2
    DEF Backed, RowsOK, RowOK, NothingBefore, ShipmentTo, ShipmentStatus
  <2>4. \A name : Told(name)' <=> Told(name) \/ e.name = name
    BY <2>1, ToldThen
  <2>5. OrderBacked' /\ PaymentBacked'
    BY <1>1, <2>1, <2>4
    DEF Backed, OrderBacked, PaymentBacked, OrderIs, PaymentIs, ShipmentTo
  <2>6. ShipmentBacked'
    BY <1>7, <2>1, <2>2, <2>4 DEF Backed, ShipmentBacked, ShipmentIs, ShipmentTo
  <2>7. PaidAsTold' /\ ShipsTheOrder'
    BY <1>1, <1>7, <2>1 DEF Backed, PaidAsTold, ShipsTheOrder, ShipmentTo
  <2> QED
    BY <2>3, <2>5, <2>6, <2>7 DEF Backed
<1> QED
  BY <1>1, <1>4, <1>5, <1>6, <1>7 DEF ShipmentMoved

\* The other steps change no row but the summary, and tell nothing.
LEMMA BackedStays ==
    ASSUME Backed, UNCHANGED <<orders, payments, shipments, published>>,
           summary' = summary \/ published # {}
    PROVE  Backed'
BY DEF Backed, RowsOK, RowOK, NothingBefore, OrderBacked, PaymentBacked, ShipmentBacked,
   PaidAsTold, ShipsTheOrder, OrderIs, PaymentIs, ShipmentIs, Told

-------------------------------------------------------------------------------
(* The copies.                                                                 *)

\* The version of a row rises whenever it is saved; only an order is removed, and none
\* comes after the first.
Raised(row, next) ==
    \/ next = row
    \/ row = Absent
    \/ next # Absent /\ next.version = row.version + 1
RowsRise ==
    /\ \/ Raised(orders, orders') /\ (orders = Absent /\ orders' # Absent => published = {})
       \/ orders' = Absent
    /\ Raised(payments, payments') /\ Raised(shipments, shipments')

\* A step that writes a row raises its version, so the copies of before are outdated.
LEMMA CopiesMove ==
    ASSUME CallsOK, CopiesOK, PlacedOnce, RowsOK, RowsRise, NEW c \in Calls, Goes(c)
    PROVE  CopiesOK'
<1> SUFFICES ASSUME NEW d \in Calls, call'[d].phase = "running",
                    NEW op, op = Head(call'[d].agenda).op, op \notin SummaryOps
             PROVE  Copied(op, Found(op)', call'[d].read)
  BY DEF CopiesOK, CopyOK, Copied, Found
<1>1. CASE d = c
  BY <1>1 DEF Goes, Copied
<1>2. CASE d # c
  <2> DEFINE copy == call'[d].read
  <2>1. call'[d] = call[d]
    BY <1>2 DEF Goes, CallsOK
  <2>2. Copied(op, Found(op), copy)
    BY <2>1 DEF CopiesOK, CopyOK
  <2>3. published = {} => op = "PlaceOrder"
    BY <2>1 DEF PlacedOnce, Placing, Task
  <2> HIDE DEF copy
  <2>4. CASE op = "PlaceOrder"
    BY <2>2, <2>4 DEF Found, copy
  <2>5. CASE op # "PlaceOrder" /\ op \in SalesOps
    <3>1. Found(op) = orders /\ Found(op)' = orders'
      BY <2>5 DEF Found
    <3>2. orders = Absent \/ orders.version \in Nat \ {0}
      BY DEF RowsOK, RowOK
    <3>3. Copied(op, orders', copy)
      BY <2>2, <2>3, <2>5, <3>1, <3>2 DEF Copied, RowsRise, Raised
    <3> QED
      BY <3>1, <3>3 DEF copy
  <2>6. CASE op \notin SalesOps /\ op \in PaymentsOps
    <3>1. Found(op) = payments /\ Found(op)' = payments'
      BY <2>6 DEF Found, SalesOps
    <3>2. payments = Absent \/ payments.version \in Nat \ {0}
      BY DEF RowsOK, RowOK
    <3>3. Copied(op, payments', copy)
      BY <2>2, <2>6, <3>1, <3>2 DEF Copied, RowsRise, Raised
    <3> QED
      BY <3>1, <3>3 DEF copy
  <2>7. CASE op \notin SalesOps /\ op \notin PaymentsOps
    <3>1. Found(op) = shipments /\ Found(op)' = shipments'
      BY <2>7 DEF Found, SalesOps
    <3>2. shipments = Absent \/ shipments.version \in Nat \ {0}
      BY DEF RowsOK, RowOK
    <3>3. Copied(op, shipments', copy)
      BY <2>2, <2>7, <3>1, <3>2 DEF Copied, RowsRise, Raised
    <3> QED
      BY <3>1, <3>3 DEF copy
  <2> QED
    BY <2>4, <2>5, <2>6, <2>7
<1> QED
  BY <1>1, <1>2

\* A call that only reads.
Reads(c, copy) ==
    /\ call[c].phase = "running"
    /\ call' = [call EXCEPT ![c].read = copy]
    /\ UNCHANGED <<orders, payments, shipments, summary, published>>

\* A step that only reads keeps what is said of the calls, if it reads the row,
LEMMA ReadsKeep ==
    ASSUME CallsOK, CopiesOK, PlacedOnce, NEW c \in Calls, NEW copy, Reads(c, copy),
           Task(c).op \in SummaryOps \/ Copied(Task(c).op, Found(Task(c).op), copy)
    PROVE  CallsOK' /\ CopiesOK' /\ PlacedOnce'
<1>1. DOMAIN call' = Calls
  BY DEF CallsOK, Reads
<1>2. \A d \in Calls : d # c => call'[d] = call[d]
  BY DEF CallsOK, Reads
<1>3. call'[c] = [call[c] EXCEPT !.read = copy]
  BY DEF CallsOK, Reads
<1>4. CallOK(c, call[c], published)
  BY DEF CallsOK
<1>5. /\ DOMAIN call'[c] = DOMAIN call[c]
      /\ call'[c].phase = call[c].phase /\ call'[c].agenda = call[c].agenda
      /\ call'[c].attempt = call[c].attempt /\ call'[c].read = copy
  BY <1>3, <1>4 DEF CallOK
<1>6. CallsOK'
  <2>1. \A d \in Calls : CallOK(d, call'[d], published)
    <3>1. CallOK(c, call'[c], published)
      BY <1>4, <1>5 DEF CallOK
    <3> QED
      BY <1>2, <3>1 DEF CallsOK
  <2>2. CallsOK' <=> DOMAIN call' = Calls /\ \A d \in Calls : CallOK(d, call'[d], published')
    BY DEF CallsOK, CallOK, Calls, Asked, Heard
  <2> QED
    BY <1>1, <2>1, <2>2 DEF Reads
<1>7. \A op : Found(op)' = Found(op)
  BY DEF Found, Reads
<1>8. CopiesOK'
  <2> SUFFICES ASSUME NEW d \in Calls, call'[d].phase = "running",
                      NEW op, op = Head(call'[d].agenda).op, op \notin SummaryOps
               PROVE  Copied(op, Found(op)', call'[d].read)
    BY DEF CopiesOK, CopyOK, Copied, Found
  <2>1. CASE d = c
    BY <1>5, <1>7, <2>1 DEF Task
  <2>2. CASE d # c
    BY <1>2, <1>7, <2>2 DEF CopiesOK, CopyOK
  <2> QED
    BY <2>1, <2>2
<1>9. PlacedOnce'
  <2>1. \A d \in Calls : /\ call'[d].phase = call[d].phase
                         /\ call'[d].agenda = call[d].agenda
    BY <1>2, <1>5
  <2>2. \A d \in Calls : (Placer(d)' <=> Placer(d)) /\ (Placing(d)' <=> Placing(d))
    BY <2>1 DEF Placer, Placing, Task
  <2> QED
    BY <2>1, <2>2 DEF PlacedOnce, Reads
<1> QED
  BY <1>6, <1>8, <1>9

-------------------------------------------------------------------------------
(* The steps.                                                                  *)

\* A call that was unsent: it has been refused, or has its first task before it.
Starts(c) ==
    /\ call[c].phase = "unsent"
    /\ call' = [call EXCEPT ![c] = call'[c]]
    /\ UNCHANGED <<orders, payments, shipments, summary, published>>
    /\ CallOK(c, call'[c], published)
    /\ call'[c].phase # "unsent"
    /\ call'[c].phase = "running" => /\ call'[c].read = Unread
                                     /\ Placing(c)' <=> published = {}
    /\ c \in Requests /\ Input[c].op = "PlaceOrder" => \A d \in Calls : ~Placer(d)
    /\ published = {} => c \in Requests /\ Input[c].op = "PlaceOrder"

\* as does one that starts or drops a call,
LEMMA StartsKeep ==
    ASSUME CallsOK, CopiesOK, PlacedOnce, NEW c \in Calls, Starts(c)
    PROVE  CallsOK' /\ CopiesOK' /\ PlacedOnce'
<1>1. DOMAIN call' = Calls /\ \A d \in Calls : d # c => call'[d] = call[d]
  BY DEF CallsOK, Starts
<1>2. CallsOK'
  <2>1. \A d \in Calls : CallOK(d, call'[d], published)
    BY <1>1 DEF CallsOK, Starts
  <2>2. CallsOK' <=> DOMAIN call' = Calls /\ \A d \in Calls : CallOK(d, call'[d], published')
    BY DEF CallsOK, CallOK, Calls, Asked, Heard
  <2> QED
    BY <1>1, <2>1, <2>2 DEF Starts
<1>3. \A op : Found(op)' = Found(op)
  BY DEF Found, Starts
<1>4. CopiesOK'
  <2> SUFFICES ASSUME NEW d \in Calls, call'[d].phase = "running",
                      NEW op, op = Head(call'[d].agenda).op, op \notin SummaryOps
               PROVE  Copied(op, Found(op)', call'[d].read)
    BY DEF CopiesOK, CopyOK, Copied, Found
  <2>1. CASE d = c
    BY <2>1 DEF Starts, Copied
  <2>2. CASE d # c
    BY <1>1, <1>3, <2>2 DEF CopiesOK, CopyOK
  <2> QED
    BY <2>1, <2>2
<1>5. PlacedOnce'
  <2>1. \A d \in Calls : d # c => (Placer(d)' <=> Placer(d)) /\ (Placing(d)' <=> Placing(d))
    BY <1>1 DEF Placer, Placing, Task
  <2>2. Placer(c)' <=> c \in Requests /\ Input[c].op = "PlaceOrder"
    BY DEF Placer, Starts
  <2>3. \A d, e \in Calls : Placer(d)' /\ Placer(e)' => d = e
    BY <2>1, <2>2 DEF PlacedOnce, Starts
  <2>4. \A d \in Calls : call'[d].phase = "running" => (Placing(d)' <=> published = {})
    BY <1>1, <2>1 DEF PlacedOnce, Starts
  <2>5. published # {} => \E d \in Calls : Placer(d)'
    <3> SUFFICES ASSUME published # {} PROVE \E d \in Calls : Placer(d)'
      OBVIOUS
    <3>1. PICK d \in Calls : Placer(d)
      BY DEF PlacedOnce
    <3> QED
      BY <2>1, <3>1 DEF Starts, Placer
  <2> QED
    BY <2>3, <2>4, <2>5 DEF PlacedOnce, Starts
<1> QED
  BY <1>2, <1>4, <1>5

\* so does the start of a request,
LEMMA BeginKeeps ==
    ASSUME CallsOK, CopiesOK, PlacedOnce, NothingBefore, NEW c \in Calls, Begin(c)
    PROVE  CallsOK' /\ CopiesOK' /\ PlacedOnce'
<1> DEFINE it == IF Refused(Input[c]) THEN Ended("rejected") ELSE Began(Asked(c))
<1>1. /\ c \in Requests /\ call[c].phase = "unsent"
      /\ call' = [call EXCEPT ![c] = it] /\ call'[c] = it
      /\ UNCHANGED <<orders, payments, shipments, summary, published>>
  BY DEF Begin, Asked, CallsOK, stores
<1>2. CallOK(c, it, published) /\ it.phase # "unsent"
  <2>1. "rejected" \in Phases \ {"running"}
    BY DEF Phases
  <2>2. CallOK(c, Ended("rejected"), published) /\ Ended("rejected").phase # "unsent"
    BY <2>1, EndedOK
  <2>3. CallOK(c, Began(Asked(c)), published) /\ Began(Asked(c)).phase # "unsent"
    BY <1>1 DEF CallOK, Began, Attempts, Phases
  <2> QED
    BY <2>2, <2>3
<1>3. it.phase = "running" => it = Began(Asked(c))
  BY DEF Ended
<1>4. Began(Asked(c)).read = Unread /\ Head(Began(Asked(c)).agenda).op = Input[c].op
  BY DEF Began, Asked
<1>5. Input[c].op = "PlaceOrder" => \A d \in Calls : ~Placer(d)
  BY DEF Begin, Unplaced, Placer
<1>6. Input[c].op # "PlaceOrder" => published # {}
  BY DEF Begin, OrderIsKnown, NothingBefore
<1>7. Input[c].op = "PlaceOrder" => published = {}
  BY <1>5 DEF PlacedOnce
<1> HIDE DEF it
<1>8. it.phase = "running" => (Placing(c)' <=> published = {})
  BY <1>1, <1>3, <1>4, <1>6, <1>7 DEF Placing, Task
<1>9. it.phase = "running" => it.read = Unread
  BY <1>3, <1>4
<1>10. call'[c].phase = "running" =>
         /\ call'[c].read = Unread
         /\ Placing(c)' <=> published = {}
  BY <1>1, <1>8, <1>9
<1>11. call' = [call EXCEPT ![c] = call'[c]] /\ CallOK(c, call'[c], published)
       /\ call'[c].phase # "unsent"
  BY <1>1, <1>2
<1>12. published = {} => c \in Requests /\ Input[c].op = "PlaceOrder"
  BY <1>1, <1>6
<1>13. Starts(c)
  BY <1>1, <1>5, <1>10, <1>11, <1>12 DEF Starts
<1> QED
  BY <1>13, StartsKeep

\* and the start of a delivery of an event that was delivered before.
LEMMA RedeliverKeeps ==
    ASSUME CallsOK, CopiesOK, PlacedOnce, NEW c \in Calls, Redeliver(c)
    PROVE  CallsOK' /\ CopiesOK' /\ PlacedOnce'
<1>0. PICK e \in published : \E i \in DOMAIN Listeners(e.name) :
        call' = [call EXCEPT ![c] = Began([op |-> Listeners(e.name)[i], event |-> e])]
  BY DEF Redeliver
<1>1. PICK i \in DOMAIN Listeners(e.name) :
        call' = [call EXCEPT ![c] = Began([op |-> Listeners(e.name)[i], event |-> e])]
  BY <1>0
<1> DEFINE task == [op |-> Listeners(e.name)[i], event |-> e]
           it   == Began(task)
<1>2. task \in Heard(published) /\ task.op # "PlaceOrder"
  <2>1. Listeners(e.name)[i] \in Range(Listeners(e.name))
    BY DEF Range
  <2>2. Listeners(e.name)[i] \in Ops
    BY Listens, LenProperties
  <2>3. Listeners(e.name)[i] \notin UseCases
    BY <2>1, Listens DEF Answers
  <2> QED
    BY <2>1, <2>2, <2>3 DEF Heard, UseCases
<1>3. /\ c \notin Requests /\ call[c].phase = "unsent" /\ published # {}
      /\ call' = [call EXCEPT ![c] = it] /\ call'[c] = it
      /\ UNCHANGED <<orders, payments, shipments, summary, published>>
  BY <1>1, ShopAssumption DEF Redeliver, CallsOK, stores
<1> HIDE DEF task
<1>4. /\ it.phase = "running" /\ it.agenda = <<task>> /\ it.read = Unread
      /\ it.attempt = 1 /\ DOMAIN it = {"phase", "agenda", "read", "attempt"}
  BY DEF Began
<1>5. CallOK(c, it, published)
  <2>1. <<task>> \in Seq(Heard(published)) /\ <<task>> # <<>>
    BY <1>2
  <2> QED
    BY <1>4, <2>1 DEF CallOK, Attempts, Phases
<1> HIDE DEF it
<1>6. ~Placing(c)'
  BY <1>2, <1>3, <1>4 DEF Placing, Task
<1>7. Starts(c)
  BY <1>3, <1>4, <1>5, <1>6 DEF Starts
<1> QED
  BY <1>7, StartsKeep

\* A summary step that ends its task.
LEMMA SummaryGoes ==
    ASSUME CallsOK, NEW c \in Calls, call[c].phase = "running", published' = published,
           call' = [call EXCEPT ![c] = Continued(c, "return", <<>>)]
    PROVE  Goes(c)
<1> DEFINE none == <<>>
<1>1. none \in Seq(published') /\ Len(none) \in {0, 1, 2}
  BY EmptySeq
<1>2. call' = [call EXCEPT ![c] = Continued(c, "return", none)]
  OBVIOUS
<1> HIDE DEF none
<1> QED
  BY <1>1, <1>2, ContinuedGoes

\* What is read of a context is a copy of its row.
LEMMA FoundCopied ==
    ASSUME RowsOK, NEW op \in SalesOps \cup PaymentsOps \cup ShippingOps
    PROVE  Copied(op, Found(op), Found(op))
<1>1. ASSUME NEW row, row = Absent \/ (/\ row.version \in Nat \ {0}
                                       /\ FieldsFor(op) \subseteq DOMAIN row.data)
      PROVE  Copied(op, row, row)
  <2>1. row # Absent => row.version <= row.version
    BY <1>1
  <2> QED
    BY <1>1, <2>1 DEF Copied
<1>2. CASE op = "PlaceOrder"
  BY <1>1, <1>2 DEF Found
<1>3. CASE op \in SalesOps /\ op # "PlaceOrder"
  BY <1>1, <1>3 DEF RowsOK, RowOK, Found, FieldsFor
<1>4. CASE op \in PaymentsOps
  <2>1. op \notin SalesOps /\ op # "PlaceOrder"
    BY <1>4 DEF SalesOps, PaymentsOps
  <2> QED
    BY <1>1, <1>4, <2>1 DEF RowsOK, RowOK, Found, FieldsFor
<1>5. CASE op \in ShippingOps
  <2>1. op \notin SalesOps \cup PaymentsOps /\ op # "PlaceOrder"
    BY <1>5 DEF SalesOps, PaymentsOps, ShippingOps
  <2> QED
    BY <1>1, <2>1 DEF RowsOK, RowOK, Found, FieldsFor
<1> QED
  BY <1>2, <1>3, <1>4, <1>5

\* What the events say, what the copies are, and where each call is, is kept by every step.
LEMMA ShopStep ==
    ASSUME ShopInv, NEW c \in Calls,
           \/ Begin(c) \/ Redeliver(c) \/ Load(c) \/ SalesStep(c) \/ PaymentsStep(c)
           \/ ShippingStep(c) \/ AskApplied(c) \/ FindSummary(c) \/ SaveSummary(c)
    PROVE  ShopInv'
<1> USE DEF ShopInv
<1>1. CASE Begin(c)
  <2>1. UNCHANGED <<traffic, orders, payments, shipments, summary, published>>
    BY <1>1 DEF Begin, stores
  <2> QED
    BY <1>1, <2>1, BeginKeeps, BackedStays DEF Backed
<1>2. CASE Redeliver(c)
  <2>1. UNCHANGED <<traffic, orders, payments, shipments, summary, published>>
    BY <1>2 DEF Redeliver, stores
  <2> QED
    BY <1>2, <2>1, RedeliverKeeps, BackedStays
<1>3. CASE Load(c)
  <2>1. /\ Reads(c, Found(Task(c).op)) /\ traffic' = traffic
    BY <1>3 DEF Load, Running, Reads, stores
  <2>2. Task(c).op \in SalesOps \cup PaymentsOps \cup ShippingOps
    BY <1>3 DEF Load, Running, Task
  <2>3. RowsOK
    BY DEF Backed
  <2>4. Copied(Task(c).op, Found(Task(c).op), Found(Task(c).op))
    BY <2>2, <2>3, FoundCopied
  <2> QED
    BY <2>1, <2>4, ReadsKeep, BackedStays DEF Reads
<1>4. CASE SalesStep(c)
  <2>1. Goes(c) /\ OrderMoved(Task(c).op) /\ UNCHANGED <<traffic, payments, shipments>>
    BY <1>4, SalesTurn DEF Backed, SalesStep
  <2>2. Task(c).op = "PlaceOrder" => published = {}
    BY <1>4 DEF PlacedOnce, Placing, SalesStep, Running
  <2>3. orders = Absent \/ orders.version \in Nat \ {0}
    BY DEF Backed, RowsOK, RowOK
  <2>4. RowsRise
    BY <2>1, <2>2, <2>3 DEF OrderMoved, RowsRise, Raised, Absent
  <2> QED
    BY <1>4, <2>1, <2>4, SalesBacks, GoesCalls, GoesOnce, CopiesMove DEF Backed
<1>5. CASE PaymentsStep(c)
  <2>1. Goes(c) /\ PaymentMoved(Task(c).op, InputOf(c)) /\ UNCHANGED <<traffic, orders, shipments>>
    BY <1>5, PaymentsTurn DEF Backed, PaymentsStep
  <2>2. payments = Absent \/ payments.version \in Nat \ {0}
    BY DEF Backed, RowsOK, RowOK
  <2>3. RowsRise
    BY <2>1, <2>2 DEF PaymentMoved, RowsRise, Raised, Absent
  <2> QED
    BY <1>5, <2>1, <2>3, PaymentsBack, GoesCalls, GoesOnce, CopiesMove DEF Backed
<1>6. CASE ShippingStep(c)
  <2>1. Goes(c) /\ ShipmentMoved(Task(c).op, InputOf(c)) /\ UNCHANGED <<traffic, orders, payments>>
    BY <1>6, ShippingTurn DEF Backed, ShippingStep
  <2>2. shipments = Absent \/ shipments.version \in Nat \ {0}
    BY DEF Backed, RowsOK, RowOK
  <2>3. RowsRise
    BY <2>1, <2>2 DEF ShipmentMoved, RowsRise, Raised, Absent
  <2> QED
    BY <1>6, <2>1, <2>3, ShippingBacks, GoesCalls, GoesOnce, CopiesMove DEF Backed
<1>7. CASE AskApplied(c)
  <2>1. /\ call[c].phase = "running" /\ Task(c).op \in SummaryOps
        /\ UNCHANGED <<traffic, orders, payments, shipments, summary, published>>
    BY <1>7 DEF AskApplied, Running, Task, stores
  <2>2. CASE HasApplied(c)
    <3>1. Goes(c)
      BY <1>7, <2>1, <2>2, SummaryGoes DEF AskApplied
    <3>2. RowsRise
      BY <2>1 DEF RowsRise, Raised
    <3> QED
      BY <2>1, <3>1, <3>2, GoesCalls, GoesOnce, CopiesMove, BackedStays DEF Backed
  <2>3. CASE ~HasApplied(c)
    <3>1. Reads(c, Absent)
      BY <1>7, <2>1, <2>3 DEF AskApplied, Reads
    <3> QED
      BY <2>1, <3>1, ReadsKeep, BackedStays
  <2> QED
    BY <2>2, <2>3
<1>8. CASE FindSummary(c)
  <2>1. /\ call[c].phase = "running" /\ Task(c).op \in SummaryOps
        /\ UNCHANGED <<traffic, orders, payments, shipments, summary, published>>
    BY <1>8 DEF FindSummary, Running, Task, stores
  <2>2. PICK copy : call' = [call EXCEPT ![c].read = copy]
    BY <1>8 DEF FindSummary
  <2>3. Reads(c, copy)
    BY <2>1, <2>2 DEF Reads
  <2> QED
    BY <2>1, <2>3, ReadsKeep, BackedStays
<1>9. CASE SaveSummary(c)
  <2>1. /\ call[c].phase = "running" /\ Task(c).op \in SummaryOps
        /\ UNCHANGED <<traffic, orders, payments, shipments, published>>
    BY <1>9 DEF SaveSummary, Running, Task
  <2>2. Goes(c)
    BY <1>9, <2>1, SummaryGoes DEF SaveSummary
  <2>3. RowsRise
    BY <2>1 DEF RowsRise, Raised
  <2>4. published # {}
    BY <2>1 DEF PlacedOnce, Placing, SummaryOps
  <2> QED
    BY <2>1, <2>2, <2>3, <2>4, GoesCalls, GoesOnce, CopiesMove, BackedStays DEF Backed
<1> QED
  BY <1>1, <1>2, <1>3, <1>4, <1>5, <1>6, <1>7, <1>8, <1>9

\* The invariant holds before the first call.
LEMMA ShopStarts ==
    ASSUME Init
    PROVE  ShopInv
<1> USE DEF Init, Absent
<1>1. CallsOK
  <2>1. DOMAIN call = Calls /\ \A c \in Calls : call[c] = NoCall
    OBVIOUS
  <2>2. \A c : CallOK(c, NoCall, published)
    BY DEF CallOK, NoCall, Phases, Attempts
  <2> QED
    BY <2>1, <2>2 DEF CallsOK
<1>2. CopiesOK /\ PlacedOnce
  BY DEF CopiesOK, CopyOK, PlacedOnce, Placing, Placer, NoCall
<1>3. Backed
  BY DEF Backed, RowsOK, RowOK, NothingBefore, OrderBacked, PaymentBacked, ShipmentBacked,
     PaidAsTold, ShipsTheOrder, OrderIs, PaymentIs, ShipmentIs, Told
<1> QED
  BY <1>1, <1>2, <1>3 DEF ShopInv

\* The invariant is one.
THEOREM ShopHolds == Spec => []ShopInv
<1>1. Init => ShopInv
  BY ShopStarts
<1>2. ShopInv /\ [Next]_vars => ShopInv'
  <2> SUFFICES ASSUME ShopInv, [Next]_vars PROVE ShopInv'
    OBVIOUS
  <2>1. CASE Next
    BY <2>1, ShopStep DEF Next
  <2>2. CASE UNCHANGED vars
    <3>1. CallsOK' /\ CopiesOK' /\ PlacedOnce'
      BY <2>2 DEF vars, ShopInv, CallsOK, CallOK, CopiesOK, CopyOK, Copied, Found, PlacedOnce,
         Placing, Placer, Task
    <3> QED
      BY <2>2, <3>1, BackedStays DEF vars, ShopInv
  <2> QED
    BY <2>1, <2>2
<1> QED
  BY <1>1, <1>2, PTL DEF Spec

-------------------------------------------------------------------------------
(* What follows.                                                               *)

\* Whatever overlaps and is delivered twice: an order that is paid, shipped or delivered
\* has its money captured, a shipment was paid for, and money goes back only for an order
\* that was cancelled.  The event that tells of the one says what the other is.
THEOREM MoneyFollowsGoods == Spec => []MoneyBacksGoods
<1>1. ShopInv => MoneyBacksGoods
  BY DEF ShopInv, Backed, OrderBacked, PaymentBacked, ShipmentBacked, MoneyBacksGoods,
     OrderIs, PaymentIs, ShipmentIs
<1> QED
  BY <1>1, ShopHolds, PTL

\* The rows have their type, the parcel goes where the order says with what it says, and
\* the order is not ahead of its parcel.
THEOREM ParcelsFitOrders == Spec => []ParcelFitsOrder
<1>1. ShopInv => TypeOK
  <2> SUFFICES ASSUME ShopInv PROVE TypeOK
    OBVIOUS
  <2>1. ASSUME NEW c \in Calls
        PROVE  /\ call[c].phase \in Phases
               /\ call[c].phase = "running" <=> call[c].agenda # <<>>
               /\ call[c].attempt \in 1 .. Attempts
    <3>1. CallOK(c, call[c], published)
      BY DEF ShopInv, CallsOK
    <3> QED
      BY <3>1, RunningAgenda DEF CallOK
  <2>2. IsRow(orders, OrderStatus) /\ IsRow(payments, PaymentStatus \ {"pending"})
        /\ IsRow(shipments, ShipmentStatus)
    BY DEF ShopInv, Backed, RowsOK, RowOK, IsRow
  <2> QED
    BY <2>1, <2>2 DEF TypeOK, ShopInv, CallsOK
<1>2. ShopInv => ShipsTheOrder /\ OrderFollowsParcel
  BY DEF ShopInv, Backed, OrderBacked, ShipmentBacked, OrderFollowsParcel, OrderIs, ShipmentIs
<1>3. ShopInv => ParcelFitsOrder
  BY <1>1, <1>2 DEF ParcelFitsOrder
<1> QED
  BY <1>3, ShopHolds, PTL

\* No step takes an aggregate back to a status that it left, nor removes an order that is
\* not cancelled: what a save writes was computed on the row that it replaces.
THEOREM NothingIsRevived == Spec => NothingRevives
<1>1. ASSUME ShopInv, Next PROVE OnlyForward
  <2>1. PICK c \in Calls :
          \/ Begin(c) \/ Redeliver(c) \/ Load(c) \/ SalesStep(c) \/ PaymentsStep(c)
          \/ ShippingStep(c) \/ AskApplied(c) \/ FindSummary(c) \/ SaveSummary(c)
    BY <1>1 DEF Next
  <2>2. CASE UNCHANGED <<orders, payments, shipments>>
    BY <2>2 DEF OnlyForward, Forward
  <2>3. CASE SalesStep(c)
    <3>1. OrderMoved(Task(c).op) /\ UNCHANGED <<payments, shipments>>
      BY <1>1, <2>3, SalesTurn DEF ShopInv, Backed, SalesStep
    <3>2. Forward(orders, orders', OrderMoves)
      BY <3>1 DEF OrderMoved, OrderTo, Forward, OrderMoves
    <3>3. orders # Absent /\ orders' = Absent => OrderIs({"cancelled"})
      <4>1. orders # Absent => orders.version \in Nat \ {0}
        BY <1>1 DEF ShopInv, Backed, RowsOK, RowOK
      <4> QED
        BY <3>1, <4>1 DEF OrderMoved, OrderIs, Absent
    <3> QED
      BY <3>1, <3>2, <3>3 DEF OnlyForward, Forward
  <2>4. CASE PaymentsStep(c)
    <3>1. PaymentMoved(Task(c).op, InputOf(c)) /\ UNCHANGED <<orders, shipments>>
      BY <1>1, <2>4, PaymentsTurn DEF ShopInv, Backed, PaymentsStep
    <3>2. Forward(payments, payments', PaymentMoves)
      BY <3>1 DEF PaymentMoved, PaymentTo, Forward, PaymentMoves
    <3> QED
      BY <3>1, <3>2 DEF OnlyForward, Forward
  <2>5. CASE ShippingStep(c)
    <3>1. ShipmentMoved(Task(c).op, InputOf(c)) /\ UNCHANGED <<orders, payments>>
      BY <1>1, <2>5, ShippingTurn DEF ShopInv, Backed, ShippingStep
    <3>2. Forward(shipments, shipments', ShipmentMoves)
      BY <3>1 DEF ShipmentMoved, ShipmentTo, Forward, ShipmentMoves
    <3> QED
      BY <3>1, <3>2 DEF OnlyForward, Forward
  <2> QED
    BY <2>1, <2>2, <2>3, <2>4, <2>5
    DEF Begin, Redeliver, Load, AskApplied, FindSummary, SaveSummary, stores
<1>2. ShopInv /\ [Next]_vars => [OnlyForward]_stores
  BY <1>1 DEF vars, stores
<1> QED
  BY <1>2, ShopHolds, PTL DEF Spec, NothingRevives

-------------------------------------------------------------------------------
(* When requests do not overlap: what the contexts still owe each other.       *)

\* The tasks that wait, of all the calls.
DueIn(calls) == UNION {Range(calls[c].agenda) : c \in Calls}
Due          == DueIn(call)
Owed(op)     == \E task \in Due : task.op = op

\* One call runs at a time,
Alone ==
    /\ IsFiniteSet({c \in Calls : call[c].phase # "unsent"})
    /\ \A c, d \in Calls : call[c].phase = "running" /\ call[d].phase = "running" => c = d

\* before it are the tasks for one event, or what is left of them, or a single one,
To(op, event) == [op |-> op, event |-> event]
Line(agenda) ==
    LET event == Head(agenda).event
    IN  \/ agenda = <<Head(agenda)>>
        \/ agenda = <<To("OpenOrderSummary", event), To("RequestPayment", event)>>
        \/ agenda = <<To("UpdateOrderSummaryTotal", event), To("AdjustPaymentAmount", event)>>
        \/ agenda = <<To("MarkOrderSummaryPaid", event), To("PrepareShipment", event)>>
        \/ agenda = <<To("MarkOrderSummaryCancelled", event),
                      To("SettleCancelledOrderPayment", event), To("CancelShipment", event)>>
        \/ agenda = <<To("SettleCancelledOrderPayment", event), To("CancelShipment", event)>>

\* and what it has read is as it was read.
Id(task) == <<task.event.name, task.event.by>>
Shown    == IF summary = Absent THEN UnknownSummary ELSE summary
Fresh(task, copy) ==
    \/ copy = Unread
    \/ task.op \notin SummaryOps /\ copy = Found(task.op)
    \/ /\ task.op \in SummaryOps /\ Id(task) \notin applied
       /\ copy \in {Absent, [version |-> 1, data |-> Shown]}
InTurn == \A c \in Calls : call[c].phase = "running" =>
             Line(call[c].agenda) /\ Fresh(Task(c), call[c].read)

\* A request has told nothing before its first task is done; the summary was told of each
\* event that it is applied of, and of the others it is told next.
NotYet(c) ==
    \/ call[c].phase = "unsent"
    \/ call[c].phase = "running" /\ Task(c).op \in UseCases
Projected ==
    /\ \A c \in Calls : NotYet(c) => \A e \in published : e.by # c
    /\ \A id \in applied : \E e \in published : id = <<e.name, e.by>>
    /\ \A e \in published : \A op \in SummaryOps \cap Range(Listeners(e.name)) :
         <<e.name, e.by>> \in applied \/ To(op, e) \in Due

\* The order has lines, and is where its last events say.
OrderFollows ==
    /\ orders # Absent => DOMAIN orders.data.lines # {}
    /\ Told("order.shipped") => orders = Absent \/ OrderIs({"shipped", "delivered"})
    /\ Told("order.delivered") => orders = Absent \/ OrderIs({"delivered"})

\* The summary says what the order is, or will when it is told.
Says(row) == row.status = orders.data.status /\ row.total = Total(orders.data)
SummaryFields == {"customerId", "status", "total", "items", "trackingNumber"}
SummaryFollows ==
    /\ summary # Absent => SummaryFields \subseteq DOMAIN summary
    /\ orders # Absent =>
         \/ /\ summary # Absent /\ Says(summary)
            /\ \A task \in Due : task.op \in SummaryOps => Id(task) \in applied
         \/ \E task \in Due :
              /\ task.op \in SummaryOps /\ Id(task) \notin applied
              /\ Says(Summarised(task.op, Shown, SalesHears(task.event.body)))

\* The payment is of the order, or will be.
Asks(task) == PaymentsHears(task.event.body).total = Total(orders.data)
PaymentFollows ==
    orders # Absent =>
      /\ payments = Absent =>
           /\ OrderIs({"pending_payment"})
           /\ \E task \in Due : task.op = "RequestPayment" /\ Asks(task)
      /\ NothingAgain =>
           /\ \A task \in Due : task.op = "AdjustPaymentAmount" => Asks(task)
           /\ PaymentIs({"captured"}) => payments.data.amount = Total(orders.data)
           /\ PaymentIs({"awaiting_transfer"}) =>
                payments.data.amount = Total(orders.data) \/ Owed("AdjustPaymentAmount")
      /\ PaymentIs({"captured"}) /\ OrderIs({"pending_payment"}) => Owed("MarkOrderPaid")
      /\ OrderIs({"cancelled"}) /\ PaymentIs({"captured", "awaiting_transfer"}) =>
           Owed("SettleCancelledOrderPayment")

\* The parcel is of the order, or will be.
ParcelFollows ==
    orders # Absent =>
      /\ Told("order.paid") /\ shipments = Absent => OrderIs({"paid"}) /\ Owed("PrepareShipment")
      /\ OrderIs({"cancelled"}) /\ ShipmentIs({"preparing"}) => Owed("CancelShipment")
      /\ ShipmentIs({"dispatched", "delivered"}) =>
           \/ OrderIs({"shipped", "delivered"})
           \/ OrderIs({"paid"}) /\ Owed("MarkOrderShipped")

Apart    == /\ Alone /\ InTurn /\ Projected
            /\ OrderFollows /\ SummaryFollows /\ PaymentFollows /\ ParcelFollows
ApartInv == traffic = 1 => Apart

-------------------------------------------------------------------------------
(* The tasks that an event makes, and what is left of them.                    *)

\* Two short sequences in one,
LEMMA ConcatTwo ==
    ASSUME NEW a, NEW b
    PROVE  <<a>> \o <<b>> = <<a, b>>
<1> DEFINE s == <<a>>
           t == <<b>>
           u == <<a, b>>
           v == s \o t
<1>1. /\ s \in Seq({a, b}) /\ Len(s) = 1 /\ s[1] = a
      /\ t \in Seq({a, b}) /\ Len(t) = 1 /\ t[1] = b
      /\ u \in Seq({a, b}) /\ Len(u) = 2 /\ u[1] = a /\ u[2] = b
  OBVIOUS
<1> HIDE DEF s, t, u
<1>2. v \in Seq({a, b}) /\ Len(v) = 2 /\ v[1] = a /\ v[2] = b
  <2>1. /\ v \in Seq({a, b}) /\ Len(v) = Len(s) + Len(t)
        /\ \A i \in 1 .. Len(s) + Len(t) : v[i] = IF i <= Len(s) THEN s[i] ELSE t[i - Len(s)]
    BY <1>1, ConcatProperties
  <2> HIDE DEF v
  <2> QED
    BY <1>1, <2>1
<1> HIDE DEF v
<1>3. \A i \in 1 .. Len(v) : v[i] = u[i]
  BY <1>1, <1>2
<1>4. v = u
  BY <1>1, <1>2, <1>3, SeqEqual
<1> QED
  BY <1>4 DEF s, t, u, v

\* and three.
LEMMA ConcatThree ==
    ASSUME NEW a, NEW b, NEW c
    PROVE  <<a, b>> \o <<c>> = <<a, b, c>>
<1> DEFINE s == <<a, b>>
           t == <<c>>
           u == <<a, b, c>>
           v == s \o t
<1>1. /\ s \in Seq({a, b, c}) /\ Len(s) = 2 /\ s[1] = a /\ s[2] = b
      /\ t \in Seq({a, b, c}) /\ Len(t) = 1 /\ t[1] = c
      /\ u \in Seq({a, b, c}) /\ Len(u) = 3 /\ u[1] = a /\ u[2] = b /\ u[3] = c
  OBVIOUS
<1> HIDE DEF s, t, u
<1>2. v \in Seq({a, b, c}) /\ Len(v) = 3 /\ v[1] = a /\ v[2] = b /\ v[3] = c
  <2>1. /\ v \in Seq({a, b, c}) /\ Len(v) = Len(s) + Len(t)
        /\ \A i \in 1 .. Len(s) + Len(t) : v[i] = IF i <= Len(s) THEN s[i] ELSE t[i - Len(s)]
    BY <1>1, ConcatProperties
  <2> HIDE DEF v
  <2> QED
    BY <1>1, <2>1
<1> HIDE DEF v
<1>3. \A i \in 1 .. Len(v) : v[i] = u[i]
  BY <1>1, <1>2
<1>4. v = u
  BY <1>1, <1>2, <1>3, SeqEqual
<1> QED
  BY <1>4 DEF s, t, u, v

\* The elements of two,
LEMMA RangeTwo ==
    ASSUME NEW a, NEW b
    PROVE  Range(<<a, b>>) = {a, b}
BY DEF Range

\* and of three.
LEMMA RangeThree ==
    ASSUME NEW a, NEW b, NEW c
    PROVE  Range(<<a, b, c>>) = {a, b, c}
BY DEF Range

\* Who hears an event, of all the contexts, in their order.
LEMMA ListenersAre ==
    ASSUME NEW name
    PROVE  Listeners(name) =
             CASE name = "order.created" -> <<"OpenOrderSummary", "RequestPayment">>
               [] name = "order.line_quantity_changed" ->
                    <<"UpdateOrderSummaryTotal", "AdjustPaymentAmount">>
               [] name = "order.paid" -> <<"MarkOrderSummaryPaid", "PrepareShipment">>
               [] name = "order.cancelled" ->
                    <<"MarkOrderSummaryCancelled", "SettleCancelledOrderPayment",
                      "CancelShipment">>
               [] name = "order.shipped"       -> <<"MarkOrderSummaryShipped">>
               [] name = "order.delivered"     -> <<"MarkOrderSummaryDelivered">>
               [] name = "payment.captured"    -> <<"MarkOrderPaid">>
               [] name = "payment.rejected"    -> <<"CancelUnpaidOrder">>
               [] name = "shipment.dispatched" -> <<"MarkOrderShipped">>
               [] name = "shipment.delivered"  -> <<"MarkOrderDelivered">>
               [] OTHER                        -> <<>>
<1> DEFINE sales == SalesListeners(name)
           pays  == PaymentsListeners(name)
           ships == ShippingListeners(name)
<1>1. Listeners(name) = (sales \o pays) \o ships
  BY DEF Listeners
<1>2. ASSUME NEW s PROVE <<>> \o <<>> = <<>> /\ <<s>> \o <<>> = <<s>>
  OBVIOUS
<1>3. CASE name = "order.created"
  <2>1. sales = <<"OpenOrderSummary">> /\ pays = <<"RequestPayment">> /\ ships = <<>>
    BY <1>3 DEF SalesListeners, PaymentsListeners, ShippingListeners
  <2>2. sales \o pays = <<"OpenOrderSummary", "RequestPayment">>
    BY <2>1, ConcatTwo
  <2>3. Listeners(name) = <<"OpenOrderSummary", "RequestPayment">>
    BY <1>1, <2>1, <2>2
  <2> QED
    BY <1>3, <2>3
<1>4. CASE name = "order.line_quantity_changed"
  <2>1. /\ sales = <<"UpdateOrderSummaryTotal">> /\ pays = <<"AdjustPaymentAmount">>
        /\ ships = <<>>
    BY <1>4 DEF SalesListeners, PaymentsListeners, ShippingListeners
  <2>2. sales \o pays = <<"UpdateOrderSummaryTotal", "AdjustPaymentAmount">>
    BY <2>1, ConcatTwo
  <2>3. Listeners(name) = <<"UpdateOrderSummaryTotal", "AdjustPaymentAmount">>
    BY <1>1, <2>1, <2>2
  <2> QED
    BY <1>4, <2>3
<1>5. CASE name = "order.paid"
  <2>1. sales = <<"MarkOrderSummaryPaid">> /\ pays = <<>> /\ ships = <<"PrepareShipment">>
    BY <1>5 DEF SalesListeners, PaymentsListeners, ShippingListeners
  <2>2. sales \o pays = <<"MarkOrderSummaryPaid">>
    BY <1>2, <2>1
  <2>3. Listeners(name) = <<"MarkOrderSummaryPaid", "PrepareShipment">>
    BY <1>1, <2>1, <2>2, ConcatTwo
  <2> QED
    BY <1>5, <2>3
<1>6. CASE name = "order.cancelled"
  <2>1. /\ sales = <<"MarkOrderSummaryCancelled">>
        /\ pays = <<"SettleCancelledOrderPayment">> /\ ships = <<"CancelShipment">>
    BY <1>6 DEF SalesListeners, PaymentsListeners, ShippingListeners
  <2>2. sales \o pays = <<"MarkOrderSummaryCancelled", "SettleCancelledOrderPayment">>
    BY <2>1, ConcatTwo
  <2>3. Listeners(name) = <<"MarkOrderSummaryCancelled", "SettleCancelledOrderPayment",
                            "CancelShipment">>
    BY <1>1, <2>1, <2>2, ConcatThree
  <2> QED
    BY <1>6, <2>3
<1>7. CASE name \notin {"order.created", "order.line_quantity_changed", "order.paid",
                        "order.cancelled"}
  <2>1. pays = <<>> /\ ships = <<>>
    BY <1>7 DEF PaymentsListeners, ShippingListeners
  <2>2. sales = CASE name = "order.shipped"       -> <<"MarkOrderSummaryShipped">>
                  [] name = "order.delivered"     -> <<"MarkOrderSummaryDelivered">>
                  [] name = "payment.captured"    -> <<"MarkOrderPaid">>
                  [] name = "payment.rejected"    -> <<"CancelUnpaidOrder">>
                  [] name = "shipment.dispatched" -> <<"MarkOrderShipped">>
                  [] name = "shipment.delivered"  -> <<"MarkOrderDelivered">>
                  [] OTHER                        -> <<>>
    BY <1>7 DEF SalesListeners
  <2>3. sales \in Seq(Ops)
    BY SalesListens
  <2> HIDE DEF sales
  <2>4. Listeners(name) = sales
    BY <1>1, <2>1, <2>3
  <2> QED
    BY <1>7, <2>2, <2>4
<1> QED
  BY <1>3, <1>4, <1>5, <1>6, <1>7

\* The set of those who hear it.
Hearers(name) ==
    CASE name = "order.created" -> {"OpenOrderSummary", "RequestPayment"}
      [] name = "order.line_quantity_changed" ->
           {"UpdateOrderSummaryTotal", "AdjustPaymentAmount"}
      [] name = "order.paid" -> {"MarkOrderSummaryPaid", "PrepareShipment"}
      [] name = "order.cancelled" ->
           {"MarkOrderSummaryCancelled", "SettleCancelledOrderPayment", "CancelShipment"}
      [] name = "order.shipped"       -> {"MarkOrderSummaryShipped"}
      [] name = "order.delivered"     -> {"MarkOrderSummaryDelivered"}
      [] name = "payment.captured"    -> {"MarkOrderPaid"}
      [] name = "payment.rejected"    -> {"CancelUnpaidOrder"}
      [] name = "shipment.dispatched" -> {"MarkOrderShipped"}
      [] name = "shipment.delivered"  -> {"MarkOrderDelivered"}
      [] OTHER                        -> {}
\* What is left of an agenda begins with a reaction.
Lined(next) == next # <<>> => Line(next) /\ Head(next).op \notin UseCases

\* The tasks for one event are of those who hear it, and are a line;
LEMMA TasksFor ==
    ASSUME NEW e
    PROVE  /\ Range(Listeners(e.name)) = Hearers(e.name)
           /\ Range(Reactions(<<e>>)) = {To(op, e) : op \in Hearers(e.name)}
           /\ Lined(Reactions(<<e>>))
           /\ Reactions(<<e>>) \in Seq(Heard({e}))
           /\ Hearers(e.name) = {} => Reactions(<<e>>) = <<>>
<1> DEFINE name == e.name
           ls == Listeners(name)
           tasks == [j \in DOMAIN ls |-> To(ls[j], e)]
<1>1. Reactions(<<e>>) = tasks
  <2> DEFINE events == <<e>>
             batch(f) ==
               [j \in DOMAIN Listeners(f.name) |-> [op |-> Listeners(f.name)[j], event |-> f]]
             batches == [i \in DOMAIN events |-> batch(events[i])]
  <2>1. DOMAIN events = 1 .. 1 /\ events[1] = e
    OBVIOUS
  <2>2. Reactions(events) = FlattenSeq(batches)
    BY DEF Reactions
  <2> HIDE DEF events, batch
  <2>3. batches = <<batch(e)>>
    BY <2>1
  <2>4. Reactions(events) = batch(e)
    BY <2>2, <2>3, FlattenOne
  <2> QED
    BY <2>4 DEF batch, events, To
<1>2. Reactions(<<e>>) \in Seq(Heard({e}))
  <2> DEFINE events == <<e>>
  <2>1. events \in Seq({e}) /\ Len(events) \in {0, 1, 2}
    OBVIOUS
  <2> HIDE DEF events
  <2>2. Reactions(events) \in Seq(Heard({e}))
    BY <2>1, ReactionsHeard
  <2> QED
    BY <2>2 DEF events
<1>3. \/ ls = <<>> /\ Hearers(name) = {}
      \/ \E a : ls = <<a>> /\ a \notin UseCases /\ Hearers(name) = {a}
      \/ \E a, b : /\ ls = <<a, b>> /\ a \notin UseCases /\ Hearers(name) = {a, b}
                   /\ <<a, b>> \in {<<"OpenOrderSummary", "RequestPayment">>,
                                    <<"UpdateOrderSummaryTotal", "AdjustPaymentAmount">>,
                                    <<"MarkOrderSummaryPaid", "PrepareShipment">>}
      \/ /\ ls = <<"MarkOrderSummaryCancelled", "SettleCancelledOrderPayment",
                   "CancelShipment">>
         /\ Hearers(name) = {"MarkOrderSummaryCancelled", "SettleCancelledOrderPayment",
                             "CancelShipment"}
  <2> HIDE DEF name, ls
  <2>1. ls = Listeners(name)
    BY DEF ls
  <2>2. CASE name = "order.created"
    BY <2>1, <2>2, ListenersAre DEF Hearers, UseCases
  <2>3. CASE name = "order.line_quantity_changed"
    BY <2>1, <2>3, ListenersAre DEF Hearers, UseCases
  <2>4. CASE name = "order.paid"
    BY <2>1, <2>4, ListenersAre DEF Hearers, UseCases
  <2>5. CASE name = "order.cancelled"
    BY <2>1, <2>5, ListenersAre DEF Hearers
  <2>6. CASE name \in {"order.shipped", "order.delivered", "payment.captured",
                       "payment.rejected", "shipment.dispatched", "shipment.delivered"}
    BY <2>1, <2>6, ListenersAre DEF Hearers, UseCases
  <2>7. CASE name \notin {"order.created", "order.line_quantity_changed", "order.paid",
                          "order.cancelled", "order.shipped", "order.delivered",
                          "payment.captured", "payment.rejected", "shipment.dispatched",
                          "shipment.delivered"}
    BY <2>1, <2>7, ListenersAre DEF Hearers
  <2> QED
    BY <2>2, <2>3, <2>4, <2>5, <2>6, <2>7
<1> HIDE DEF name, ls
<1>4. SUFFICES /\ Range(ls) = Hearers(name)
               /\ Range(tasks) = {To(op, e) : op \in Hearers(name)}
               /\ Lined(tasks)
               /\ Hearers(name) = {} => tasks = <<>>
  BY <1>1, <1>2 DEF name, ls
<1>5. CASE ls = <<>> /\ Hearers(name) = {}
  <2>1. tasks = <<>>
    BY <1>5
  <2> QED
    BY <1>5, <2>1, RangeNone DEF Lined
<1>6. CASE \E a : ls = <<a>> /\ a \notin UseCases /\ Hearers(name) = {a}
  <2>1. PICK a : ls = <<a>> /\ a \notin UseCases /\ Hearers(name) = {a}
    BY <1>6
  <2>2. tasks = <<To(a, e)>> /\ To(a, e).op = a
    BY <2>1 DEF To
  <2>3. Head(tasks) = To(a, e)
    BY <2>2
  <2>4. Lined(tasks)
    BY <2>1, <2>2, <2>3 DEF Lined, Line
  <2> QED
    BY <2>1, <2>2, <2>4, RangeOne
<1>7. CASE \E a, b : /\ ls = <<a, b>> /\ a \notin UseCases /\ Hearers(name) = {a, b}
                     /\ <<a, b>> \in {<<"OpenOrderSummary", "RequestPayment">>,
                                      <<"UpdateOrderSummaryTotal", "AdjustPaymentAmount">>,
                                      <<"MarkOrderSummaryPaid", "PrepareShipment">>}
  <2>1. PICK a, b : /\ ls = <<a, b>> /\ a \notin UseCases /\ Hearers(name) = {a, b}
                    /\ <<a, b>> \in {<<"OpenOrderSummary", "RequestPayment">>,
                                     <<"UpdateOrderSummaryTotal", "AdjustPaymentAmount">>,
                                     <<"MarkOrderSummaryPaid", "PrepareShipment">>}
    BY <1>7
  <2>2. /\ tasks = <<To(a, e), To(b, e)>>
        /\ To(a, e).op = a /\ To(a, e).event = e
    BY <2>1 DEF To
  <2>3. Head(tasks) = To(a, e)
    BY <2>2
  <2>4. Line(tasks)
    BY <2>1, <2>2, <2>3 DEF Line
  <2>5. Range(ls) = {a, b} /\ Range(tasks) = {To(a, e), To(b, e)}
    BY <2>1, <2>2, RangeTwo
  <2> QED
    BY <2>1, <2>2, <2>3, <2>4, <2>5 DEF Lined
<1>8. CASE /\ ls = <<"MarkOrderSummaryCancelled", "SettleCancelledOrderPayment",
                     "CancelShipment">>
           /\ Hearers(name) = {"MarkOrderSummaryCancelled", "SettleCancelledOrderPayment",
                               "CancelShipment"}
  <2> DEFINE a == "MarkOrderSummaryCancelled"
             b == "SettleCancelledOrderPayment"
             d == "CancelShipment"
  <2>1. /\ tasks = <<To(a, e), To(b, e), To(d, e)>>
        /\ To(a, e).op = a /\ To(a, e).event = e
    BY <1>8 DEF To
  <2>2. Head(tasks) = To(a, e)
    BY <2>1
  <2>3. Line(tasks) /\ a \notin UseCases
    BY <2>1, <2>2 DEF Line, UseCases
  <2>4. Range(ls) = {a, b, d} /\ Range(tasks) = {To(a, e), To(b, e), To(d, e)}
    BY <1>8, <2>1, RangeThree
  <2> QED
    BY <1>8, <2>1, <2>2, <2>3, <2>4 DEF Lined
<1> QED
  BY <1>3, <1>5, <1>6, <1>7, <1>8

\* What follows the first task of an agenda.
Followers == {"RequestPayment", "AdjustPaymentAmount", "PrepareShipment",
              "SettleCancelledOrderPayment", "CancelShipment"}
\* Behind the first task of a line are reactions of payments and of shipping, if any,
LEMMA LineTail ==
    ASSUME NEW agenda, Line(agenda)
    PROVE  LET task == Head(agenda)
               rest == Tail(agenda)
           IN  /\ Range(agenda) = {task} \cup Range(rest)
               /\ Lined(rest)
               /\ \A s \in Range(rest) : s.op \in Followers
               /\ task.op \notin SummaryOps \cup {"SettleCancelledOrderPayment"} => rest = <<>>
               /\ task.op = "SettleCancelledOrderPayment" =>
                    rest = <<>> \/ rest = <<To("CancelShipment", task.event)>>
<1> DEFINE e == Head(agenda).event
<1>1. CASE agenda = <<Head(agenda)>>
  <2> DEFINE a == Head(agenda)
  <2>1. agenda = <<a>>
    BY <1>1
  <2> HIDE DEF a
  <2>2. Head(agenda) = a /\ Tail(agenda) = <<>>
    BY <2>1
  <2> QED
    BY <2>1, <2>2, RangeOne, RangeNone DEF Lined
<1>2. CASE \E x, y : /\ agenda = <<To(x, e), To(y, e)>>
                     /\ <<x, y>> \in {<<"OpenOrderSummary", "RequestPayment">>,
                                      <<"UpdateOrderSummaryTotal", "AdjustPaymentAmount">>,
                                      <<"MarkOrderSummaryPaid", "PrepareShipment">>,
                                      <<"SettleCancelledOrderPayment", "CancelShipment">>}
  <2>1. PICK x, y : /\ agenda = <<To(x, e), To(y, e)>>
                    /\ <<x, y>> \in {<<"OpenOrderSummary", "RequestPayment">>,
                                     <<"UpdateOrderSummaryTotal", "AdjustPaymentAmount">>,
                                     <<"MarkOrderSummaryPaid", "PrepareShipment">>,
                                     <<"SettleCancelledOrderPayment", "CancelShipment">>}
    BY <1>2
  <2>2. /\ x \in SummaryOps \cup {"SettleCancelledOrderPayment"}
        /\ y \in Followers /\ y \notin UseCases
        /\ x = "SettleCancelledOrderPayment" => y = "CancelShipment"
    BY <2>1 DEF SummaryOps, Followers, UseCases
  <2> HIDE DEF e
  <2>3. Head(agenda) = To(x, e) /\ Tail(agenda) = <<To(y, e)>>
    BY <2>1
  <2>4. /\ To(x, e).op = x /\ To(x, e).event = e /\ To(y, e).op = y
    BY DEF To
  <2>5. Range(agenda) = {To(x, e), To(y, e)} /\ Range(Tail(agenda)) = {To(y, e)}
    BY <2>1, <2>3, RangeOne, RangeTwo
  <2>6. Line(<<To(y, e)>>) /\ Head(<<To(y, e)>>) = To(y, e)
    BY DEF Line
  <2>7. Lined(Tail(agenda))
    BY <2>2, <2>3, <2>4, <2>6 DEF Lined
  <2> QED
    BY <2>2, <2>3, <2>4, <2>5, <2>7
<1>3. CASE agenda = <<To("MarkOrderSummaryCancelled", e), To("SettleCancelledOrderPayment", e),
                      To("CancelShipment", e)>>
  <2> DEFINE a == To("MarkOrderSummaryCancelled", e)
             b == To("SettleCancelledOrderPayment", e)
             d == To("CancelShipment", e)
  <2>1. agenda = <<a, b, d>>
    BY <1>3
  <2>2. /\ a.op = "MarkOrderSummaryCancelled"
        /\ b.op = "SettleCancelledOrderPayment" /\ b.event = e
        /\ d.op = "CancelShipment"
    BY DEF To
  <2> HIDE DEF a, e
  <2>3. /\ Head(agenda) = a /\ Tail(agenda) = <<b, d>>
        /\ Head(<<b, d>>) = b
    BY <2>1
  <2>4. Line(<<b, d>>)
    BY <2>2, <2>3 DEF Line
  <2> HIDE DEF b, d
  <2>5. Range(agenda) = {a, b, d} /\ Range(Tail(agenda)) = {b, d}
    BY <2>1, <2>3, RangeTwo, RangeThree
  <2>6. Lined(Tail(agenda))
    BY <2>2, <2>3, <2>4 DEF Lined, UseCases
  <2> QED
    BY <2>2, <2>3, <2>5, <2>6 DEF Followers, SummaryOps
<1> QED
  BY <1>1, <1>2, <1>3 DEF Line

-------------------------------------------------------------------------------
(* What is due.                                                                *)

\* A call that does not run has nothing before it.
LEMMA IdleAgenda ==
    ASSUME CallsOK, NEW c \in Calls, call[c].phase # "running"
    PROVE  Range(call[c].agenda) = {}
BY RangeNone DEF CallsOK, CallOK

\* What is due is the agenda of the call that runs,
LEMMA DueNow ==
    ASSUME CallsOK, Alone, NEW c \in Calls, call[c].phase = "running"
    PROVE  Due = Range(call[c].agenda)
<1>1. \A d \in Calls : d # c => Range(call[d].agenda) = {}
  BY IdleAgenda DEF Alone
<1> QED
  BY <1>1 DEF Due, DueIn

\* and nothing when none runs.
LEMMA DueNone ==
    ASSUME CallsOK, \A c \in Calls : call[c].phase # "running"
    PROVE  Due = {}
BY IdleAgenda DEF Due, DueIn

\* A call that goes on with the tasks of next, or has ended.
Hands(c, next) ==
    /\ call[c].phase = "running"
    /\ call' = [call EXCEPT ![c] = call'[c]]
    /\ call'[c].agenda = next
    /\ call'[c].phase \in {"running", "resolved", "rejected"}
    /\ call'[c].phase = "running" => next # <<>> /\ call'[c].read = Unread

\* A task that returns hands over to the reactions and the rest of the agenda,
LEMMA HandsReturn ==
    ASSUME CallsOK, NEW c \in Calls, call[c].phase = "running", NEW events,
           call' = [call EXCEPT ![c] = Continued(c, "return", events)]
    PROVE  Hands(c, Reactions(events) \o Tail(call[c].agenda))
<1> DEFINE next == Reactions(events) \o Tail(call[c].agenda)
           it   == Continued(c, "return", events)
<1>1. call'[c] = it /\ call' = [call EXCEPT ![c] = call'[c]]
  BY DEF CallsOK
<1>2. CallOK(c, call[c], published)
  BY DEF CallsOK
<1>3. it = IF next = <<>> THEN Ended("resolved")
           ELSE [call[c] EXCEPT !.agenda = next, !.read = Unread]
  BY DEF Continued
<1> HIDE DEF next, it
<1>4. CASE next = <<>>
  <2>1. it.agenda = <<>> /\ it.phase = "resolved"
    BY <1>3, <1>4 DEF Ended
  <2> QED
    BY <1>1, <1>4, <2>1 DEF Hands, next
<1>5. CASE next # <<>>
  <2>1. it.agenda = next /\ it.read = Unread /\ it.phase = "running"
    BY <1>2, <1>3, <1>5 DEF CallOK
  <2> QED
    BY <1>1, <1>5, <2>1 DEF Hands, next
<1> QED
  BY <1>4, <1>5

\* and one that throws to none.
LEMMA HandsThrow ==
    ASSUME CallsOK, NEW c \in Calls, call[c].phase = "running", NEW events,
           call' = [call EXCEPT ![c] = Continued(c, "throw", events)]
    PROVE  Hands(c, <<>>)
<1>1. Continued(c, "throw", events) = Ended("rejected")
  BY DEF Continued, Retries
<1>2. call'[c] = Ended("rejected") /\ call' = [call EXCEPT ![c] = call'[c]]
  BY <1>1 DEF CallsOK
<1>3. call'[c].agenda = <<>> /\ call'[c].phase = "rejected"
  BY <1>2 DEF Ended
<1> QED
  BY <1>2, <1>3 DEF Hands

\* When the one call that runs goes on, it is still the one.
LEMMA HandsOver ==
    ASSUME CallsOK, Alone, NEW c \in Calls, NEW next, Hands(c, next), Lined(next)
    PROVE  /\ Alone' /\ InTurn' /\ Due' = Range(next)
           /\ ~NotYet(c)' /\ \A d \in Calls : NotYet(d)' => NotYet(d)
           /\ NothingAgain' => NothingAgain
<1>1. /\ DOMAIN call' = Calls /\ \A d \in Calls : d # c => call'[d] = call[d]
      /\ \A d \in Calls : d # c => call[d].phase # "running"
  BY DEF CallsOK, Hands, Alone
<1>2. {d \in Calls : call'[d].phase # "unsent"} = {d \in Calls : call[d].phase # "unsent"}
  BY <1>1 DEF Hands
<1>3. Alone'
  BY <1>1, <1>2 DEF Alone, Calls
<1>4. InTurn'
  <2> SUFFICES ASSUME NEW d \in Calls, call'[d].phase = "running"
               PROVE  Line(call'[d].agenda) /\ call'[d].read = Unread
    BY DEF InTurn, Fresh, Task, Calls
  <2> QED
    BY <1>1 DEF Hands, Lined
<1>5. Due' = Range(next)
  <2>1. \A d \in Calls : d # c => Range(call'[d].agenda) = {}
    BY <1>1, IdleAgenda
  <2>2. call'[c].agenda = next
    BY DEF Hands
  <2> QED
    BY <2>1, <2>2 DEF Due, DueIn, Calls
<1>6. ~NotYet(c)' /\ \A d \in Calls : NotYet(d)' => NotYet(d)
  BY <1>1 DEF NotYet, Hands, Lined, Task
<1>7. NothingAgain' => NothingAgain
  BY <1>1 DEF NothingAgain, Hands, Calls
<1> QED
  BY <1>3, <1>4, <1>5, <1>6, <1>7

\* What is due is the first task of the call that runs, and what is behind it.
LEMMA OwnTasks ==
    ASSUME CallsOK, Alone, InTurn, NEW c \in Calls, call[c].phase = "running"
    PROVE  LET rest == Tail(call[c].agenda)
           IN  /\ Due = {Task(c)} \cup Range(rest)
               /\ Lined(rest) /\ rest \in Seq(Heard(published))
               /\ \A s \in Range(rest) : s.op \in Followers
               /\ Task(c).op \notin SummaryOps \cup {"SettleCancelledOrderPayment"} =>
                    rest = <<>>
               /\ Task(c).op = "SettleCancelledOrderPayment" =>
                    rest = <<>> \/ rest = <<To("CancelShipment", Task(c).event)>>
<1>1. Line(call[c].agenda)
  BY DEF InTurn
<1>2. Due = Range(call[c].agenda)
  BY DueNow
<1> QED
  BY <1>1, <1>2, LineTail, TaskKnown DEF Task

\* How a task of a context can end: it tells nothing,
Returns(c) == published' = published /\ Hands(c, Tail(call[c].agenda))
Passes(c)  == Returns(c) \/ (published' = published /\ Hands(c, <<>>))
\* or an event, or two.
Tells(c, e) ==
    /\ e.by = c
    /\ published' = published \cup {e}
    /\ Hands(c, Reactions(<<e>>) \o Tail(call[c].agenda))
TellsTwo(c, e, f) ==
    /\ e.by = c /\ f.by = c
    /\ published' = published \cup {e, f}
    /\ Hands(c, Reactions(<<e, f>>) \o Tail(call[c].agenda))

\* No event, no tasks.
LEMMA ReactionsNone == Reactions(<<>>) = <<>>
<1> DEFINE events == <<>>
           batches == [i \in DOMAIN events |->
                         [j \in DOMAIN Listeners(events[i].name) |->
                            [op |-> Listeners(events[i].name)[j], event |-> events[i]]]]
<1>1. batches = <<>>
  OBVIOUS
<1>2. FlattenSeq(batches) = <<>>
  BY <1>1 DEF FlattenSeq
<1> QED
  BY <1>2 DEF Reactions

\* The tasks for two events are those for the one and for the other.
LEMMA ReactionsTwo ==
    ASSUME NEW e, NEW f
    PROVE  Reactions(<<e, f>>) = Reactions(<<e>>) \o Reactions(<<f>>)
<1> DEFINE batch(x) ==
             [j \in DOMAIN Listeners(x.name) |-> [op |-> Listeners(x.name)[j], event |-> x]]
           of(events) == [i \in DOMAIN events |-> batch(events[i])]
<1>1. \A events : Reactions(events) = FlattenSeq(of(events))
  BY DEF Reactions
<1>2. /\ DOMAIN <<e>> = 1 .. 1 /\ DOMAIN <<f>> = 1 .. 1 /\ DOMAIN <<e, f>> = 1 .. 2
      /\ <<e>>[1] = e /\ <<f>>[1] = f /\ <<e, f>>[1] = e /\ <<e, f>>[2] = f
  OBVIOUS
<1> HIDE DEF batch
<1>3. of(<<e>>) = <<batch(e)>> /\ of(<<f>>) = <<batch(f)>>
  BY <1>2
<1>4. of(<<e, f>>) = <<batch(e), batch(f)>>
  BY <1>2
<1> HIDE DEF of
<1>5. /\ FlattenSeq(of(<<e>>)) = batch(e) /\ FlattenSeq(of(<<f>>)) = batch(f)
  BY <1>3, FlattenOne
<1>6. FlattenSeq(of(<<e, f>>)) = batch(e) \o batch(f)
  BY <1>4, FlattenTwo
<1> QED
  BY <1>1, <1>5, <1>6

\* When it read the row, there is no conflict: a task ends in one of these ways.
LEMMA GoAlone ==
    ASSUME CallsOK, NEW c \in Calls, call[c].phase = "running", NEW row, NEW outcome,
           Go(c, outcome, Kept(row, row, outcome))
    PROVE  /\ Silently(outcome) => Passes(c)
           /\ outcome.does \in {"save", "remove"} =>
                /\ outcome.events = <<>> => Returns(c)
                /\ \A e : outcome.events = <<e>> => Tells(c, Stamp(c, e))
                /\ \A e, f : outcome.events = <<e, f>> =>
                               TellsTwo(c, Stamp(c, e), Stamp(c, f))
<1> DEFINE kept == Kept(row, row, outcome)
           told == Stamped(c, outcome.events)
           rest == Tail(call[c].agenda)
<1>1. /\ outcome.does \in {"throw", "return"} => kept.end = outcome.does
      /\ outcome.does \in {"save", "remove"} => kept.end = "return"
  BY DEF Kept, Stored
<1>2. kept.end = "return" =>
        /\ published' = published \cup Range(told)
        /\ Hands(c, Reactions(told) \o rest)
  BY HandsReturn DEF Go
<1>3. kept.end = "throw" => published' = published /\ Hands(c, <<>>)
  <2> SUFFICES ASSUME kept.end = "throw" PROVE published' = published /\ Hands(c, <<>>)
    OBVIOUS
  <2>1. published' = published \cup Range(<<>>)
    BY DEF Go
  <2>2. Hands(c, <<>>)
    BY HandsThrow DEF Go
  <2> QED
    BY <2>1, <2>2, RangeNone
<1>4. ASSUME outcome.events = <<>>, kept.end = "return" PROVE Returns(c)
  <2>1. told = <<>>
    BY <1>4, StampedNone
  <2>2. rest \in Seq(Heard(published))
    BY TaskKnown
  <2> HIDE DEF told, rest
  <2>3. Reactions(told) = <<>> /\ Range(told) = {}
    BY <2>1, ReactionsNone, RangeNone
  <2>4. Reactions(told) \o rest = rest
    BY <2>2, <2>3
  <2> QED
    BY <1>2, <1>4, <2>3, <2>4 DEF Returns, rest
<1>5. ASSUME NEW e, outcome.events = <<e>>, kept.end = "return"
      PROVE  Tells(c, Stamp(c, e))
  <2>1. told = <<Stamp(c, e)>> /\ Stamp(c, e).by = c
    BY <1>5, StampedOne DEF Stamp
  <2> HIDE DEF told
  <2>2. Range(told) = {Stamp(c, e)}
    BY <2>1, RangeOne
  <2> QED
    BY <1>2, <1>5, <2>1, <2>2 DEF Tells
<1>6. ASSUME NEW e, NEW f, outcome.events = <<e, f>>, kept.end = "return"
      PROVE  TellsTwo(c, Stamp(c, e), Stamp(c, f))
  <2>1. told = <<Stamp(c, e), Stamp(c, f)>> /\ Stamp(c, e).by = c /\ Stamp(c, f).by = c
    BY <1>6, StampedTwo DEF Stamp
  <2> HIDE DEF told
  <2>2. Range(told) = {Stamp(c, e), Stamp(c, f)}
    BY <2>1, RangeTwo
  <2> QED
    BY <1>2, <1>6, <2>1, <2>2 DEF TellsTwo
<1> QED
  BY <1>1, <1>3, <1>4, <1>5, <1>6 DEF Silently, Passes

\* The call that runs is still the one, it has not lost an event for the summary, and it
\* tells no event again.
Onward == Alone' /\ InTurn' /\ Projected' /\ (NothingAgain' => NothingAgain)

\* When a context tells something, the summary is told next.
LEMMA GoesOnward ==
    ASSUME CallsOK, Alone, InTurn, Projected, NEW c \in Calls, Task(c).op \notin SummaryOps,
           applied' = applied, NEW new, published' = published \cup new,
           \A e \in new : e.by = c,
           NEW next, Hands(c, next), Lined(next),
           \A e \in new : \A op \in SummaryOps \cap Range(Listeners(e.name)) :
             To(op, e) \in Range(next)
    PROVE  Onward /\ Due' = Range(next)
<1>1. /\ Alone' /\ InTurn' /\ Due' = Range(next)
      /\ ~NotYet(c)' /\ \A d \in Calls : NotYet(d)' => NotYet(d)
      /\ NothingAgain' => NothingAgain
  BY HandsOver
<1>2. \A task \in Due : task.op \notin SummaryOps
  BY OwnTasks DEF Hands, Followers, SummaryOps
<1>3. ASSUME NEW d \in Calls, NotYet(d)', NEW e \in published' PROVE e.by # d
  BY <1>1, <1>3 DEF Projected
<1>4. ASSUME NEW id \in applied' PROVE \E e \in published' : id = <<e.name, e.by>>
  BY <1>4 DEF Projected
<1>5. ASSUME NEW e \in published', NEW op \in SummaryOps \cap Range(Listeners(e.name))
      PROVE  <<e.name, e.by>> \in applied' \/ To(op, e) \in Due'
  <2>1. CASE e \in new
    BY <1>1, <2>1
  <2>2. CASE e \in published
    <3>1. To(op, e) \notin Due
      BY <1>2 DEF To
    <3> QED
      BY <2>2, <3>1 DEF Projected
  <2> QED
    BY <2>1, <2>2
<1> HIDE DEF Projected
<1>6. Projected'
  BY <1>3, <1>4, <1>5 DEF Projected, Calls
<1> QED
  BY <1>1, <1>6 DEF Onward

\* So it is when it tells nothing,
LEMMA PassesOnward ==
    ASSUME CallsOK, Alone, InTurn, Projected, NEW c \in Calls, Task(c).op \notin SummaryOps,
           applied' = applied, Passes(c)
    PROVE  /\ Onward
           /\ Due' \subseteq Range(Tail(call[c].agenda))
           /\ Returns(c) => Due' = Range(Tail(call[c].agenda))
<1> DEFINE rest == Tail(call[c].agenda)
<1>1. Lined(rest) /\ Lined(<<>>) /\ published' = published \cup {}
  BY OwnTasks DEF Passes, Returns, Hands, Lined
<1> DEFINE new == {}
<1>2. ASSUME NEW next, Hands(c, next), Lined(next) PROVE Onward /\ Due' = Range(next)
  <2>1. /\ published' = published \cup new
        /\ \A e \in new : e.by = c
        /\ \A e \in new : \A op \in SummaryOps \cap Range(Listeners(e.name)) :
             To(op, e) \in Range(next)
    BY <1>1
  <2> HIDE DEF new
  <2> QED
    BY ONLY CallsOK, Alone, InTurn, Projected, c \in Calls, Task(c).op \notin SummaryOps,
       applied' = applied, <1>2, <2>1, GoesOnward
<1>3. ASSUME Hands(c, <<>>) PROVE Onward /\ Due' = {}
  <2> DEFINE none == <<>>
  <2>1. Hands(c, none) /\ Lined(none) /\ Range(none) = {}
    BY <1>1, <1>3, RangeNone
  <2> HIDE DEF none
  <2> QED
    BY <1>2, <2>1
<1>4. Returns(c) => Onward /\ Due' = Range(rest)
  BY <1>1, <1>2 DEF Returns
<1> HIDE DEF rest
<1>5. Passes(c) => Returns(c) \/ Hands(c, <<>>)
  BY DEF Passes
<1> QED
  BY <1>3, <1>4, <1>5 DEF rest

\* one event,
LEMMA TellsOnward ==
    ASSUME CallsOK, Alone, InTurn, Projected, NEW c \in Calls, Task(c).op \notin SummaryOps,
           applied' = applied, NEW e, Tells(c, e),
           Tail(call[c].agenda) = <<>> \/ Hearers(e.name) = {}
    PROVE  /\ Onward
           /\ Due' = {To(op, e) : op \in Hearers(e.name)} \cup Range(Tail(call[c].agenda))
<1> DEFINE rest == Tail(call[c].agenda)
           next == Reactions(<<e>>) \o rest
<1>1. /\ Lined(rest) /\ rest \in Seq(Heard(published))
      /\ Hands(c, next) /\ published' = published \cup {e} /\ e.by = c
  BY OwnTasks DEF Tells, Hands
<1>2. /\ Range(Listeners(e.name)) = Hearers(e.name)
      /\ Range(Reactions(<<e>>)) = {To(op, e) : op \in Hearers(e.name)}
      /\ Lined(Reactions(<<e>>)) /\ Reactions(<<e>>) \in Seq(Heard({e}))
      /\ Hearers(e.name) = {} => Reactions(<<e>>) = <<>>
  BY TasksFor
<1>3. /\ Lined(next)
      /\ Range(next) = {To(op, e) : op \in Hearers(e.name)} \cup Range(rest)
  <2> DEFINE first == Reactions(<<e>>)
  <2>1. /\ first \in Seq(Heard({e})) /\ rest \in Seq(Heard(published))
        /\ rest = <<>> \/ first = <<>>
        /\ Lined(first) /\ Lined(rest)
        /\ Range(first) = {To(op, e) : op \in Hearers(e.name)}
    BY <1>1, <1>2
  <2> HIDE DEF first, rest
  <2>2. \/ first \o rest = first /\ rest = <<>>
        \/ first \o rest = rest /\ first = <<>>
    BY <2>1
  <2>3. Lined(first \o rest) /\ Range(first \o rest) = Range(first) \cup Range(rest)
    BY <2>1, <2>2, RangeNone
  <2> QED
    BY <2>1, <2>3 DEF first
<1> HIDE DEF next
<1> DEFINE new == {e}
<1>4. /\ published' = published \cup new
      /\ \A x \in new : x.by = c
      /\ \A x \in new : \A op \in SummaryOps \cap Range(Listeners(x.name)) :
           To(op, x) \in Range(next)
  BY <1>1, <1>2, <1>3
<1> HIDE DEF new
<1>5. Onward /\ Due' = Range(next)
  BY ONLY CallsOK, Alone, InTurn, Projected, c \in Calls, Task(c).op \notin SummaryOps,
     applied' = applied, <1>1, <1>3, <1>4, GoesOnward
<1> QED
  BY <1>3, <1>5

\* and two of which none hears the first.
LEMMA TellsTwoOnward ==
    ASSUME CallsOK, Alone, InTurn, Projected, NEW c \in Calls, Task(c).op \notin SummaryOps,
           applied' = applied, NEW e, NEW f, TellsTwo(c, e, f),
           Tail(call[c].agenda) = <<>>, Hearers(e.name) = {}
    PROVE  Onward /\ Due' = {To(op, f) : op \in Hearers(f.name)}
<1> DEFINE next == Reactions(<<f>>)
<1>1. /\ Range(Listeners(e.name)) = {} /\ Range(Listeners(f.name)) = Hearers(f.name)
      /\ Range(next) = {To(op, f) : op \in Hearers(f.name)}
      /\ Lined(next) /\ next \in Seq(Heard({f}))
      /\ Reactions(<<e>>) = <<>>
  BY TasksFor
<1>2. Reactions(<<e, f>>) = Reactions(<<e>>) \o next
  BY ReactionsTwo
<1> HIDE DEF next
<1>3. Reactions(<<e, f>>) \o Tail(call[c].agenda) = next
  <2>1. <<>> \o next = next /\ next \o <<>> = next
    BY <1>1
  <2> QED
    BY <1>1, <1>2, <2>1
<1>4. Hands(c, next) /\ published' = published \cup {e, f}
  BY <1>3 DEF TellsTwo
<1> DEFINE new == {e, f}
<1>5. /\ published' = published \cup new
      /\ \A x \in new : x.by = c
      /\ \A x \in new : \A op \in SummaryOps \cap Range(Listeners(x.name)) :
           To(op, x) \in Range(next)
  BY <1>1, <1>4 DEF TellsTwo
<1> HIDE DEF new
<1>6. Onward /\ Due' = Range(next)
  BY ONLY CallsOK, Alone, InTurn, Projected, c \in Calls, Task(c).op \notin SummaryOps,
     applied' = applied, <1>1, <1>4, <1>5, GoesOnward
<1> QED
  BY <1>1, <1>6

-------------------------------------------------------------------------------
(* What a task of each context does to its row, when it runs alone.            *)

\* A context keeps the fields that it has registered.
LEMMA FieldKept ==
    ASSUME NEW body, NEW fields, NEW field \in fields, field \in DOMAIN body
    PROVE  Keeps(body, fields)[field] = body[field]
BY DEF Keeps

\* The total reaches the summary and the payment.
LEMMA TotalKept ==
    ASSUME NEW body, "total" \in DOMAIN body
    PROVE  SalesHears(body).total = body.total /\ PaymentsHears(body).total = body.total
BY FieldKept DEF SalesHears, PaymentsHears

\* What the summary says after an event,
Summarises(op, row, body, to) ==
    /\ to.status = CASE op = "OpenOrderSummary"          -> "pending_payment"
                     [] op = "UpdateOrderSummaryTotal"   -> row.status
                     [] op = "MarkOrderSummaryPaid"      -> "paid"
                     [] op = "MarkOrderSummaryCancelled" -> "cancelled"
                     [] op = "MarkOrderSummaryShipped"   -> "shipped"
                     [] op = "MarkOrderSummaryDelivered" -> "delivered"
    /\ to.total = IF op \in {"OpenOrderSummary", "UpdateOrderSummaryTotal"} THEN body.total
                  ELSE row.total

\* and it has the same fields.
LEMMA SummaryTold ==
    ASSUME NEW op \in SummaryOps, NEW row, SummaryFields \subseteq DOMAIN row, NEW body
    PROVE  /\ SummaryFields \subseteq DOMAIN Summarised(op, row, body)
           /\ Summarises(op, row, body, Summarised(op, row, body))
<1> DEFINE to == Summarised(op, row, body)
<1>1. CASE op = "OpenOrderSummary"
  <2>1. to = OpenOrderSummary(row, body)
    BY <1>1 DEF Summarised
  <2> QED
    BY <1>1, <2>1 DEF OpenOrderSummary, Summarises, SummaryFields
<1>2. CASE op = "UpdateOrderSummaryTotal"
  <2>1. to = UpdateOrderSummaryTotal(row, body)
    BY <1>2 DEF Summarised
  <2> QED
    BY <1>2, <2>1 DEF UpdateOrderSummaryTotal, Summarises, SummaryFields
<1>3. CASE op = "MarkOrderSummaryPaid"
  <2>1. to = MarkOrderSummaryPaid(row, body)
    BY <1>3 DEF Summarised
  <2> QED
    BY <1>3, <2>1 DEF MarkOrderSummaryPaid, Summarises, SummaryFields
<1>4. CASE op = "MarkOrderSummaryCancelled"
  <2>1. to = MarkOrderSummaryCancelled(row)
    BY <1>4 DEF Summarised
  <2> QED
    BY <1>4, <2>1 DEF MarkOrderSummaryCancelled, Summarises, SummaryFields
<1>5. CASE op = "MarkOrderSummaryShipped"
  <2>1. to = MarkOrderSummaryShipped(row, body)
    BY <1>5 DEF Summarised
  <2> QED
    BY <1>5, <2>1 DEF MarkOrderSummaryShipped, Summarises, SummaryFields
<1>6. CASE op = "MarkOrderSummaryDelivered"
  <2>1. to = MarkOrderSummaryDelivered(row)
    BY <1>6 DEF Summarised
  <2> QED
    BY <1>6, <2>1 DEF MarkOrderSummaryDelivered, Summarises, SummaryFields
<1> QED
  BY <1>1, <1>2, <1>3, <1>4, <1>5, <1>6 DEF SummaryOps

\* A task of a context works on the row as it is.
LEMMA ReadNow ==
    ASSUME InTurn, NEW c \in Calls, call[c].phase = "running",
           Task(c).op \in SalesOps \cup PaymentsOps \cup ShippingOps,
           call[c].read # Unread
    PROVE  call[c].read = Found(Task(c).op)
BY DEF InTurn, Fresh, SalesOps, PaymentsOps, ShippingOps, SummaryOps

\* A row that is saved is there.
LEMMA SavedThere ==
    ASSUME NEW row, row = Absent \/ row.version \in Nat \ {0}, NEW outcome,
           outcome.does = "save"
    PROVE  /\ Kept(row, row, outcome).row # Absent
           /\ Kept(row, row, outcome).row.data = outcome.to
BY DEF Kept, Stored, Absent

\* Sales leaves the order, or a cancelled one is gone; places it, or moves it and tells.
Sold(c, op) ==
    \/ /\ Passes(c)
       /\ orders' # Absent =>
            orders # Absent /\ orders'.data = orders.data /\ OrderLeft(op, orders.data)
    \/ /\ op = "PlaceOrder" /\ orders = Absent /\ orders' # Absent
       /\ orders'.data.status = "pending_payment" /\ DOMAIN orders'.data.lines # {}
       /\ \E e : Tells(c, e) /\ e.name = "order.created" /\ Prices(orders'.data, e)
    \/ /\ orders # Absent /\ orders' # Absent
       /\ \E e : Tells(c, e) /\ OrderTo(op, orders.data, orders'.data, e)

\* A step of sales.
LEMMA SaleApart ==
    ASSUME ShopInv, InTurn, NEW c \in Calls, SalesStep(c)
    PROVE  Sold(c, Task(c).op)
<1> DEFINE op      == Task(c).op
           outcome == Sales(op, orders, InputOf(c))
           kept    == Kept(orders, orders, outcome)
<1>1. call[c].phase = "running" /\ op \in SalesOps /\ call[c].read # Unread
  BY DEF SalesStep, Running, Task
<1>2. orders = Absent \/ (orders.version \in Nat \ {0} /\ OrderFields \subseteq DOMAIN orders.data)
  BY DEF ShopInv, Backed, RowsOK, RowOK
<1>3. call[c].read = orders /\ (op = "PlaceOrder" => orders = Absent)
  <2>1. op = "PlaceOrder" => orders = Absent
    BY <1>1 DEF ShopInv, PlacedOnce, Placing, Backed, NothingBefore
  <2> QED
    BY <1>1, <2>1, ReadNow DEF Found
<1>4. orders' = kept.row /\ Go(c, outcome, kept)
  BY <1>3 DEF SalesStep
<1>5. SalesOutcome(op, orders, outcome)
  BY <1>1, <1>2, SalesOutcomes
<1> HIDE DEF op, outcome, kept
<1>6. /\ Silently(outcome) => Passes(c)
      /\ outcome.does \in {"save", "remove"} =>
           /\ outcome.events = <<>> => Returns(c)
           /\ \A e : outcome.events = <<e>> => Tells(c, Stamp(c, e))
  BY <1>1, <1>4, GoAlone DEF kept, ShopInv
<1>7. outcome.does = "save" => orders' # Absent /\ orders'.data = outcome.to
  BY <1>2, <1>4, SavedThere DEF kept
<1>8. CASE Silently(outcome) /\ (op \in {"MarkOrderPaid", "MarkOrderShipped"} => orders = Absent)
  <2>1. orders' = orders
    BY <1>4, <1>8 DEF kept, Kept, Silently
  <2> QED
    BY <1>6, <1>8, <2>1 DEF Sold, OrderLeft, op
<1>9. CASE OrderPlaced(op, outcome)
  <2>1. PICK e : outcome.events = <<e>> /\ e.name = "order.created" /\ Prices(outcome.to, e)
    BY <1>9 DEF OrderPlaced
  <2>2. Tells(c, Stamp(c, e)) /\ orders' # Absent /\ orders'.data = outcome.to
    BY <1>6, <1>7, <1>9, <2>1 DEF OrderPlaced
  <2>3. Stamp(c, e).name = "order.created" /\ Prices(orders'.data, Stamp(c, e))
    BY <2>1, <2>2 DEF Stamp, Prices
  <2> QED
    BY <1>3, <1>9, <2>2, <2>3 DEF Sold, OrderPlaced, op
<1>10. CASE orders # Absent /\ outcome = Removes /\ orders.data.status = "cancelled"
  <2>1. outcome.does = "remove" /\ outcome.events = <<>>
    BY <1>10 DEF Removes
  <2>2. orders' = Absent
    BY <1>4, <2>1 DEF kept, Kept, Stored
  <2> QED
    BY <1>6, <2>1, <2>2 DEF Sold, Passes
<1>11. CASE orders # Absent /\ OrderSaved(op, orders.data, outcome)
  <2>1. outcome.does = "save" /\ orders' # Absent /\ orders'.data = outcome.to
    BY <1>7, <1>11 DEF OrderSaved
  <2>2. CASE outcome.to = orders.data /\ outcome.events = <<>> /\ OrderLeft(op, orders.data)
    BY <1>6, <1>11, <2>1, <2>2 DEF Sold, Passes, op
  <2>3. CASE \E e : outcome.events = <<e>> /\ OrderTo(op, orders.data, outcome.to, e)
    <3>1. PICK e : outcome.events = <<e>> /\ OrderTo(op, orders.data, outcome.to, e)
      BY <2>3
    <3>2. OrderTo(op, orders.data, outcome.to, Stamp(c, e))
      BY <3>1 DEF OrderTo, Stamp, Prices
    <3> QED
      BY <1>6, <1>11, <2>1, <3>1, <3>2 DEF Sold, op
  <2> QED
    BY <1>11, <2>2, <2>3 DEF OrderSaved
<1> QED
  BY <1>5, <1>8, <1>9, <1>10, <1>11 DEF SalesOutcome

\* Payments leaves the payment, makes one, or moves it and tells.
Paid(c, op, given) ==
    \/ /\ Passes(c) /\ payments' = payments
       /\ op = "RequestPayment" => payments # Absent
       /\ op \in {"AdjustPaymentAmount", "SettleCancelledOrderPayment"} => payments = Absent
    \/ /\ Returns(c) /\ payments # Absent /\ payments' # Absent
       /\ payments'.data = payments.data /\ PaymentLeft(op, given, payments.data)
    \/ /\ op = "RequestPayment" /\ payments = Absent /\ payments' # Absent
       /\ \E e, f : TellsTwo(c, e, f) /\ NewPayment(given, payments'.data, e, f)
    \/ /\ payments # Absent /\ payments' # Absent
       /\ \E e : Tells(c, e) /\ PaymentTo(op, given, payments.data, payments'.data, e)

\* A step of payments.
LEMMA PaymentApart ==
    ASSUME ShopInv, InTurn, NEW c \in Calls, PaymentsStep(c)
    PROVE  Paid(c, Task(c).op, InputOf(c))
<1> DEFINE op      == Task(c).op
           given   == InputOf(c)
           outcome == Payments(op, payments, given)
           kept    == Kept(payments, payments, outcome)
<1>1. call[c].phase = "running" /\ op \in PaymentsOps /\ call[c].read # Unread
  BY DEF PaymentsStep, Running, Task
<1>2. \/ payments = Absent
      \/ payments.version \in Nat \ {0} /\ PaymentFields \subseteq DOMAIN payments.data
  BY DEF ShopInv, Backed, RowsOK, RowOK
<1>3. call[c].read = payments
  BY <1>1, ReadNow DEF Found, PaymentsOps, SalesOps
<1>4. payments' = kept.row /\ Go(c, outcome, kept)
  BY <1>3 DEF PaymentsStep
<1>5. PaymentsOutcome(op, payments, given, outcome)
  BY <1>1, <1>2, PaymentsOutcomes
<1> HIDE DEF op, given, outcome, kept
<1>6. /\ Silently(outcome) => Passes(c)
      /\ outcome.does \in {"save", "remove"} =>
           /\ outcome.events = <<>> => Returns(c)
           /\ \A e : outcome.events = <<e>> => Tells(c, Stamp(c, e))
           /\ \A e, f : outcome.events = <<e, f>> => TellsTwo(c, Stamp(c, e), Stamp(c, f))
  BY <1>1, <1>4, GoAlone DEF kept, ShopInv
<1>7. outcome.does = "save" => payments' # Absent /\ payments'.data = outcome.to
  BY <1>2, <1>4, SavedThere DEF kept
<1>8. CASE /\ Silently(outcome)
           /\ op = "RequestPayment" => payments # Absent
           /\ op \in {"AdjustPaymentAmount", "SettleCancelledOrderPayment"} => payments = Absent
  <2>1. payments' = payments
    BY <1>4, <1>8 DEF kept, Kept, Silently
  <2> QED
    BY <1>6, <1>8, <2>1 DEF Paid, op
<1>9. CASE payments = Absent /\ PaymentMade(op, given, outcome)
  <2>1. PICK e, f : outcome.events = <<e, f>> /\ NewPayment(given, outcome.to, e, f)
    BY <1>9 DEF PaymentMade
  <2>2. TellsTwo(c, Stamp(c, e), Stamp(c, f)) /\ payments' # Absent /\ payments'.data = outcome.to
    BY <1>6, <1>7, <1>9, <2>1 DEF PaymentMade
  <2>3. NewPayment(given, outcome.to, Stamp(c, e), Stamp(c, f))
    BY <2>1 DEF NewPayment, Stamp
  <2> QED
    BY <1>9, <2>2, <2>3 DEF Paid, PaymentMade, op, given
<1>10. CASE payments # Absent /\ PaymentSaved(op, given, payments.data, outcome)
  <2>1. outcome.does = "save" /\ payments' # Absent /\ payments'.data = outcome.to
    BY <1>7, <1>10 DEF PaymentSaved
  <2>2. CASE /\ outcome.to = payments.data /\ outcome.events = <<>>
             /\ PaymentLeft(op, given, payments.data)
    BY <1>6, <1>10, <2>1, <2>2 DEF Paid, op, given
  <2>3. CASE \E e : outcome.events = <<e>> /\ PaymentTo(op, given, payments.data, outcome.to, e)
    <3>1. PICK e : outcome.events = <<e>> /\ PaymentTo(op, given, payments.data, outcome.to, e)
      BY <2>3
    <3>2. PaymentTo(op, given, payments.data, outcome.to, Stamp(c, e))
      BY <3>1 DEF PaymentTo, Stamp
    <3> QED
      BY <1>6, <1>10, <2>1, <3>1, <3>2 DEF Paid, op, given
  <2> QED
    BY <1>10, <2>2, <2>3 DEF PaymentSaved
<1> QED
  BY <1>5, <1>8, <1>9, <1>10 DEF PaymentsOutcome

\* Shipping leaves the shipment, makes one, or moves it and tells.
Shipped(c, op, given) ==
    \/ /\ Passes(c) /\ shipments' = shipments
       /\ op = "PrepareShipment" => shipments # Absent \/ given.items = <<>>
       /\ op = "CancelShipment" => shipments = Absent
    \/ /\ Returns(c) /\ shipments # Absent /\ shipments' # Absent
       /\ shipments'.data = shipments.data /\ ShipmentLeft(op, shipments.data)
    \/ /\ op = "PrepareShipment" /\ shipments = Absent /\ shipments' # Absent
       /\ shipments'.data.status = "preparing"
       /\ \E e : Tells(c, e) /\ e.name = "shipment.created"
    \/ /\ shipments # Absent /\ shipments' # Absent
       /\ \E e : Tells(c, e) /\ ShipmentTo(op, shipments.data, shipments'.data, e)

\* A step of shipping.
LEMMA ShipmentApart ==
    ASSUME ShopInv, InTurn, NEW c \in Calls, ShippingStep(c)
    PROVE  Shipped(c, Task(c).op, InputOf(c))
<1> DEFINE op      == Task(c).op
           given   == InputOf(c)
           outcome == Shipping(op, shipments, given)
           kept    == Kept(shipments, shipments, outcome)
<1>1. call[c].phase = "running" /\ op \in ShippingOps /\ call[c].read # Unread
  BY DEF ShippingStep, Running, Task
<1>2. \/ shipments = Absent
      \/ shipments.version \in Nat \ {0} /\ ShipmentFields \subseteq DOMAIN shipments.data
  BY DEF ShopInv, Backed, RowsOK, RowOK
<1>3. call[c].read = shipments
  BY <1>1, ReadNow DEF Found, ShippingOps, PaymentsOps, SalesOps
<1>4. shipments' = kept.row /\ Go(c, outcome, kept)
  BY <1>3 DEF ShippingStep
<1>5. ShippingOutcome(op, shipments, given, outcome)
  BY <1>1, <1>2, ShippingOutcomes
<1> HIDE DEF op, given, outcome, kept
<1>6. /\ Silently(outcome) => Passes(c)
      /\ outcome.does \in {"save", "remove"} =>
           /\ outcome.events = <<>> => Returns(c)
           /\ \A e : outcome.events = <<e>> => Tells(c, Stamp(c, e))
  BY <1>1, <1>4, GoAlone DEF kept, ShopInv
<1>7. outcome.does = "save" => shipments' # Absent /\ shipments'.data = outcome.to
  BY <1>2, <1>4, SavedThere DEF kept
<1>8. CASE /\ Silently(outcome)
           /\ op = "PrepareShipment" => shipments # Absent \/ given.items = <<>>
           /\ op = "CancelShipment" => shipments = Absent
  <2>1. shipments' = shipments
    BY <1>4, <1>8 DEF kept, Kept, Silently
  <2> QED
    BY <1>6, <1>8, <2>1 DEF Shipped, op, given
<1>9. CASE shipments = Absent /\ ShipmentMade(op, given, outcome)
  <2>1. PICK e : outcome.events = <<e>> /\ e.name = "shipment.created"
    BY <1>9 DEF ShipmentMade
  <2>2. Tells(c, Stamp(c, e)) /\ shipments' # Absent /\ shipments'.data = outcome.to
    BY <1>6, <1>7, <1>9, <2>1 DEF ShipmentMade
  <2>3. Stamp(c, e).name = "shipment.created"
    BY <2>1 DEF Stamp
  <2> QED
    BY <1>9, <2>2, <2>3 DEF Shipped, ShipmentMade, ShipmentFor, op
<1>10. CASE shipments # Absent /\ ShipmentSaved(op, shipments.data, outcome)
  <2>1. outcome.does = "save" /\ shipments' # Absent /\ shipments'.data = outcome.to
    BY <1>7, <1>10 DEF ShipmentSaved
  <2>2. CASE /\ outcome.to = shipments.data /\ outcome.events = <<>>
             /\ ShipmentLeft(op, shipments.data)
    BY <1>6, <1>10, <2>1, <2>2 DEF Shipped, op
  <2>3. CASE \E e : outcome.events = <<e>> /\ ShipmentTo(op, shipments.data, outcome.to, e)
    <3>1. PICK e : outcome.events = <<e>> /\ ShipmentTo(op, shipments.data, outcome.to, e)
      BY <2>3
    <3>2. ShipmentTo(op, shipments.data, outcome.to, Stamp(c, e))
      BY <3>1 DEF ShipmentTo, Stamp
    <3> QED
      BY <1>6, <1>10, <2>1, <3>1, <3>2 DEF Shipped, op
  <2> QED
    BY <1>10, <2>2, <2>3 DEF ShipmentSaved
<1> QED
  BY <1>5, <1>8, <1>9, <1>10 DEF ShippingOutcome

-------------------------------------------------------------------------------
(* Sales, when requests do not overlap.                                        *)

\* While sales works nothing else is owed: summary, payment and parcel say what the order
\* is, but for what this task is to do.
LEMMA SalesSettled ==
    ASSUME ShopInv, Apart, NEW c \in Calls, SalesStep(c)
    PROVE  LET op == Task(c).op
           IN  /\ call[c].phase = "running" /\ op \in SalesOps
               /\ Due = {Task(c)} /\ Tail(call[c].agenda) = <<>>
               /\ orders # Absent =>
                    /\ summary # Absent /\ Says(summary)
                    /\ payments # Absent
                    /\ NothingAgain /\ PaymentIs({"captured", "awaiting_transfer"}) =>
                         payments.data.amount = Total(orders.data)
                    /\ PaymentIs({"captured"}) /\ OrderIs({"pending_payment"}) =>
                         op = "MarkOrderPaid"
                    /\ OrderIs({"cancelled"}) =>
                         ~PaymentIs({"captured", "awaiting_transfer"}) /\ ~ShipmentIs({"preparing"})
                    /\ Told("order.paid") => shipments # Absent
                    /\ ShipmentIs({"dispatched", "delivered"}) =>
                         \/ OrderIs({"shipped", "delivered"})
                         \/ OrderIs({"paid"}) /\ op = "MarkOrderShipped"
<1> DEFINE op == Task(c).op
<1>1. call[c].phase = "running" /\ op \in SalesOps
  BY DEF SalesStep, Running, Task
<1>2. Due = {Task(c)} /\ Tail(call[c].agenda) = <<>>
  <2>1. op \notin SummaryOps \cup {"SettleCancelledOrderPayment"}
    BY <1>1 DEF SalesOps, SummaryOps
  <2>2. Tail(call[c].agenda) = <<>> /\ Due = {Task(c)} \cup Range(Tail(call[c].agenda))
    BY <1>1, <2>1, OwnTasks DEF ShopInv, Apart
  <2> QED
    BY <2>2, RangeNone
<1>3. \A o : Owed(o) <=> o = op
  BY <1>2 DEF Owed
<1>4. \A task \in Due : task.op \in SalesOps
  BY <1>1, <1>2
<1>5. orders # Absent => summary # Absent /\ Says(summary)
  BY <1>4 DEF Apart, SummaryFollows, SalesOps, SummaryOps
<1>6. orders # Absent => payments # Absent
  BY <1>4 DEF Apart, PaymentFollows, SalesOps
<1>7. ~Owed("AdjustPaymentAmount") /\ ~Owed("SettleCancelledOrderPayment")
      /\ ~Owed("PrepareShipment") /\ ~Owed("CancelShipment")
  BY <1>1, <1>3 DEF SalesOps
<1>8. orders # Absent =>
        /\ NothingAgain /\ PaymentIs({"captured", "awaiting_transfer"}) =>
             payments.data.amount = Total(orders.data)
        /\ PaymentIs({"captured"}) /\ OrderIs({"pending_payment"}) => op = "MarkOrderPaid"
        /\ OrderIs({"cancelled"}) => ~PaymentIs({"captured", "awaiting_transfer"})
  BY <1>3, <1>7 DEF Apart, PaymentFollows, PaymentIs
<1>9. orders # Absent =>
        /\ OrderIs({"cancelled"}) => ~ShipmentIs({"preparing"})
        /\ Told("order.paid") => shipments # Absent
        /\ ShipmentIs({"dispatched", "delivered"}) =>
             \/ OrderIs({"shipped", "delivered"})
             \/ OrderIs({"paid"}) /\ op = "MarkOrderShipped"
  BY <1>3, <1>7 DEF Apart, ParcelFollows
<1> QED
  BY <1>1, <1>2, <1>5, <1>6, <1>8, <1>9

\* A task tells the summary no event that it was told before.
LEMMA ToldOnce ==
    ASSUME ShopInv, Apart, NEW c \in Calls, call[c].phase = "running", NEW e, e.by = c,
           orders # Absent, NEW to, OrderTo(Task(c).op, orders.data, to, e)
    PROVE  Id([event |-> e]) \notin applied
<1>1. CASE Task(c).op \in UseCases
  <2>1. \A x \in published : x.by # c
    BY <1>1 DEF Apart, Projected, NotYet
  <2> QED
    BY <2>1 DEF Apart, Projected, Id
<1>2. CASE Task(c).op \notin UseCases
  <2>1. Task(c).op \notin {"ChangeOrderLineQuantity", "ChangeShippingAddress", "CancelOrder"}
    BY <1>2 DEF UseCases
  <2>2. /\ Told("order.paid") => orders.data.status # "pending_payment"
        /\ Told("order.cancelled") => orders.data.status = "cancelled"
        /\ Told("order.shipped") => orders.data.status \in {"shipped", "delivered"}
        /\ Told("order.delivered") => orders.data.status = "delivered"
    BY DEF ShopInv, Backed, OrderBacked, PaidAsTold, Apart, OrderFollows, OrderIs, Told
  <2>3. ~Told(e.name)
    BY <2>1, <2>2 DEF OrderTo
  <2> QED
    BY <2>3 DEF Apart, Projected, Id, Told
<1> QED
  BY <1>1, <1>2

\* If the order is left as it is, or is removed, all is still settled.
LEMMA SalesLeaves ==
    ASSUME ShopInv, Apart, NEW c \in Calls, SalesStep(c), Passes(c),
           orders' # Absent =>
             orders # Absent /\ orders'.data = orders.data /\ OrderLeft(Task(c).op, orders.data)
    PROVE  Apart'
<1> DEFINE op == Task(c).op
<1>1. /\ UNCHANGED <<payments, shipments, summary, applied>> /\ published' = published
      /\ call[c].phase = "running"
  BY DEF SalesStep, Passes, Returns, Running
<1>2. op \notin SummaryOps
  BY SalesSettled DEF SalesOps, SummaryOps
<1>3. Onward /\ Due' = {}
  <2>1. Onward /\ Due' \subseteq Range(Tail(call[c].agenda))
    BY <1>1, <1>2, PassesOnward DEF ShopInv, Apart
  <2> QED
    BY <2>1, SalesSettled, RangeNone
<1>4. CASE orders' = Absent
  <2>1. summary # Absent => SummaryFields \subseteq DOMAIN summary
    BY DEF Apart, SummaryFollows
  <2> QED
    BY <1>1, <1>3, <1>4, <2>1
    DEF Apart, Onward, OrderFollows, SummaryFollows, PaymentFollows, ParcelFollows
<1>5. CASE orders' # Absent
  <2>1. orders # Absent /\ orders'.data = orders.data /\ OrderLeft(op, orders.data)
    BY <1>5
  <2>2. OrderFollows'
    BY <1>1, <2>1, ToldSame DEF Apart, OrderFollows, OrderIs
  <2>3. SummaryFollows'
    BY <1>1, <1>3, <2>1, SalesSettled DEF Apart, SummaryFollows, Says
  <2>4. PaymentFollows'
    <3>1. payments # Absent /\ (NothingAgain' => NothingAgain)
      BY <1>3, <2>1, SalesSettled DEF Onward
    <3>2. /\ NothingAgain /\ PaymentIs({"captured", "awaiting_transfer"}) =>
               payments.data.amount = Total(orders.data)
          /\ ~(PaymentIs({"captured"}) /\ OrderIs({"pending_payment"}))
          /\ OrderIs({"cancelled"}) => ~PaymentIs({"captured", "awaiting_transfer"})
      BY <2>1, SalesSettled DEF OrderLeft, OrderIs
    <3> QED
      BY <1>1, <1>3, <1>5, <2>1, <3>1, <3>2 DEF PaymentFollows, PaymentIs, OrderIs
  <2>5. ParcelFollows'
    <3>1. /\ OrderIs({"cancelled"}) => ~ShipmentIs({"preparing"})
          /\ Told("order.paid") => shipments # Absent
          /\ ShipmentIs({"dispatched", "delivered"}) => OrderIs({"shipped", "delivered"})
      BY <2>1, SalesSettled DEF OrderLeft, OrderIs
    <3> QED
      BY <1>1, <1>3, <1>5, <2>1, <3>1, ToldSame DEF ParcelFollows, ShipmentIs, OrderIs
  <2> QED
    BY <1>3, <2>2, <2>3, <2>4, <2>5 DEF Apart, Onward
<1> QED
  BY <1>4, <1>5

\* If it is placed, the summary and the payment are told next.
LEMMA SalesPlaces ==
    ASSUME ShopInv, Apart, NEW c \in Calls, SalesStep(c), Task(c).op = "PlaceOrder",
           orders' # Absent, orders'.data.status = "pending_payment",
           DOMAIN orders'.data.lines # {},
           NEW e, Tells(c, e), e.name = "order.created", Prices(orders'.data, e)
    PROVE  Apart'
<1>1. /\ UNCHANGED <<payments, shipments, summary, applied>>
      /\ published' = published \cup {e} /\ call[c].phase = "running"
  BY DEF SalesStep, Tells, Running
<1>2. published = {} /\ payments = Absent /\ shipments = Absent /\ summary = Absent
  BY <1>1 DEF ShopInv, PlacedOnce, Placing, Backed, NothingBefore
<1>3. applied = {}
  BY <1>2 DEF Apart, Projected
<1>4. /\ Onward
      /\ Due' = {To("OpenOrderSummary", e), To("RequestPayment", e)}
  <2>1. Task(c).op \notin SummaryOps /\ Hearers(e.name) = {"OpenOrderSummary", "RequestPayment"}
    BY DEF SummaryOps, Hearers
  <2>2. Range(Tail(call[c].agenda)) = {} /\ Tail(call[c].agenda) = <<>>
    BY SalesSettled, RangeNone
  <2>3. /\ Onward
        /\ Due' = {To(op, e) : op \in Hearers(e.name)} \cup Range(Tail(call[c].agenda))
    BY <1>1, <2>1, <2>2, TellsOnward DEF ShopInv, Apart
  <2> QED
    BY <2>1, <2>2, <2>3
<1>5. \A name : Told(name)' <=> name = "order.created"
  BY <1>1, <1>2 DEF Told
<1>6. OrderFollows'
  BY <1>5 DEF OrderFollows
<1>7. /\ To("OpenOrderSummary", e).op = "OpenOrderSummary" /\ To("OpenOrderSummary", e).event = e
      /\ To("RequestPayment", e).op = "RequestPayment" /\ To("RequestPayment", e).event = e
  BY DEF To
<1>8. SummaryFollows'
  <2> DEFINE task == To("OpenOrderSummary", e)
             to   == Summarised(task.op, UnknownSummary, SalesHears(e.body))
  <2>1. task \in Due' /\ task.op \in SummaryOps /\ Id(task) \notin applied'
    BY <1>1, <1>3, <1>4, <1>7 DEF SummaryOps
  <2>2. SummaryFields \subseteq DOMAIN UnknownSummary
    BY DEF SummaryFields, UnknownSummary
  <2>3. Summarises("OpenOrderSummary", UnknownSummary, SalesHears(e.body), to)
    BY <1>7, <2>1, <2>2, SummaryTold
  <2>4. SalesHears(e.body).total = Total(orders'.data)
    BY TotalKept DEF Prices
  <2>5. to.status = orders'.data.status /\ to.total = Total(orders'.data)
    BY <2>3, <2>4 DEF Summarises
  <2>6. Shown' = UnknownSummary
    BY <1>1, <1>2 DEF Shown
  <2> HIDE DEF to
  <2>7. Says(Summarised(task.op, Shown, SalesHears(task.event.body)))'
    BY <1>7, <2>5, <2>6 DEF Says, to
  <2> QED
    BY <1>1, <1>2, <2>1, <2>7 DEF SummaryFollows, Id
<1>9. PaymentFollows'
  <2>1. PaymentsHears(e.body).total = Total(orders'.data)
    BY TotalKept DEF Prices
  <2> QED
    BY <1>1, <1>2, <1>4, <1>7, <2>1 DEF PaymentFollows, PaymentIs, OrderIs, Asks
<1>10. ParcelFollows'
  BY <1>1, <1>2, <1>5 DEF ParcelFollows, ShipmentIs
<1> QED
  BY <1>4, <1>6, <1>8, <1>9, <1>10 DEF Apart, Onward

\* What becomes of the summary when it is told of the event of an order that moves.
LEMMA SummaryToldNext ==
    ASSUME ShopInv, Apart, NEW c \in Calls, SalesStep(c), orders # Absent, orders' # Absent,
           NEW e, e.by = c, OrderTo(Task(c).op, orders.data, orders'.data, e),
           NEW op \in SummaryOps, To(op, e) \in Due',
           \A row : row.status = orders.data.status /\ row.total = Total(orders.data) =>
             \A to : Summarises(op, row, SalesHears(e.body), to) =>
               to.status = orders'.data.status /\ to.total = Total(orders'.data)
    PROVE  SummaryFollows'
<1> DEFINE task == To(op, e)
           to   == Summarised(op, summary, SalesHears(e.body))
<1>1. task.op = op /\ task.event = e /\ UNCHANGED <<summary, applied>>
  BY DEF To, SalesStep
<1>2. summary # Absent /\ Says(summary) /\ SummaryFields \subseteq DOMAIN summary
  BY SalesSettled DEF Apart, SummaryFollows
<1>3. Summarises(op, summary, SalesHears(e.body), to)
  BY <1>2, SummaryTold
<1>4. to.status = orders'.data.status /\ to.total = Total(orders'.data)
  BY <1>2, <1>3 DEF Says
<1>5. Id(task) \notin applied
  <2>1. call[c].phase = "running"
    BY SalesSettled
  <2> QED
    BY <1>1, <2>1, ToldOnce DEF Id
<1>6. Shown' = summary
  BY <1>1, <1>2 DEF Shown
<1> HIDE DEF to
<1>7. Says(Summarised(task.op, Shown, SalesHears(task.event.body)))'
  BY <1>1, <1>4, <1>6 DEF Says, to
<1> HIDE DEF task
<1>8. \E t \in Due' : /\ t.op \in SummaryOps /\ Id(t) \notin applied'
                      /\ Says(Summarised(t.op, Shown, SalesHears(t.event.body)))'
  BY <1>1, <1>5, <1>7 DEF task, Id
<1> QED
  BY <1>1, <1>2, <1>8 DEF SummaryFollows, Id

\* If it moves, they and shipping are told what they have to know.
LEMMA SalesMoves ==
    ASSUME ShopInv, Apart, NEW c \in Calls, SalesStep(c), orders # Absent, orders' # Absent,
           NEW e, Tells(c, e), OrderTo(Task(c).op, orders.data, orders'.data, e)
    PROVE  Apart'
<1> DEFINE op == Task(c).op
<1>1. /\ UNCHANGED <<payments, shipments, summary, applied>>
      /\ published' = published \cup {e} /\ call[c].phase = "running" /\ e.by = c
  BY DEF SalesStep, Tells, Running
<1>2. Onward /\ Due' = {To(o, e) : o \in Hearers(e.name)}
  <2>1. op \notin SummaryOps
    BY SalesSettled DEF SalesOps, SummaryOps
  <2>2. Range(Tail(call[c].agenda)) = {} /\ Tail(call[c].agenda) = <<>>
    BY SalesSettled, RangeNone
  <2>3. /\ Onward
        /\ Due' = {To(o, e) : o \in Hearers(e.name)} \cup Range(Tail(call[c].agenda))
    BY <1>1, <2>1, <2>2, TellsOnward DEF ShopInv, Apart
  <2> QED
    BY <2>2, <2>3
<1>3. /\ summary # Absent /\ Says(summary) /\ payments # Absent
      /\ NothingAgain' => NothingAgain
      /\ NothingAgain /\ PaymentIs({"captured", "awaiting_transfer"}) =>
           payments.data.amount = Total(orders.data)
      /\ PaymentIs({"captured"}) /\ OrderIs({"pending_payment"}) => op = "MarkOrderPaid"
      /\ Told("order.paid") => shipments # Absent /\ ~OrderIs({"pending_payment"})
      /\ ShipmentIs({"dispatched", "delivered"}) =>
           \/ OrderIs({"shipped", "delivered"})
           \/ OrderIs({"paid"}) /\ op = "MarkOrderShipped"
  <2>1. Told("order.paid") => ~OrderIs({"pending_payment"})
    BY DEF ShopInv, Backed, PaidAsTold, Told, OrderIs
  <2> QED
    BY <1>2, <2>1, SalesSettled DEF Onward
<1>4. /\ DOMAIN orders.data.lines # {}
      /\ Told("order.shipped") => OrderIs({"shipped", "delivered"})
      /\ Told("order.delivered") => OrderIs({"delivered"})
  BY DEF Apart, OrderFollows
<1>5. \A name : Told(name)' <=> Told(name) \/ e.name = name
  BY <1>1, ToldThen
<1>6. \A o : To(o, e).op = o /\ To(o, e).event = e
  BY DEF To
<1>7. OrderFollows'
  BY <1>4, <1>5 DEF OrderFollows, OrderIs, OrderTo, SameParcel
<1> HIDE DEF op
<1>8. CASE op = "ChangeOrderLineQuantity"
  <2>1. /\ orders.data.status = "pending_payment" /\ orders'.data.status = "pending_payment"
        /\ e.name = "order.line_quantity_changed" /\ Prices(orders'.data, e)
    BY <1>8 DEF OrderTo, op
  <2>2. Due' = {To("UpdateOrderSummaryTotal", e), To("AdjustPaymentAmount", e)}
    BY <1>2, <2>1 DEF Hearers
  <2>3. /\ SalesHears(e.body).total = Total(orders'.data)
        /\ PaymentsHears(e.body).total = Total(orders'.data)
    BY <2>1, TotalKept DEF Prices
  <2>4. SummaryFollows'
    <3>1. "UpdateOrderSummaryTotal" \in SummaryOps
          /\ To("UpdateOrderSummaryTotal", e) \in Due'
      BY <2>2 DEF SummaryOps
    <3>2. \A row : row.status = orders.data.status /\ row.total = Total(orders.data) =>
             \A to : Summarises("UpdateOrderSummaryTotal", row, SalesHears(e.body), to) =>
               to.status = orders'.data.status /\ to.total = Total(orders'.data)
      BY <2>1, <2>3 DEF Summarises
    <3> QED
      BY <1>1, <3>1, <3>2, SummaryToldNext
  <2>5. PaymentFollows'
    <3>1. /\ \A task \in Due' : task.op = "AdjustPaymentAmount" => Asks(task)'
          /\ Owed("AdjustPaymentAmount")'
      BY <1>6, <2>2, <2>3 DEF Asks, Owed
    <3>2. ~PaymentIs({"captured"})
      BY <1>3, <1>8, <2>1 DEF OrderIs
    <3> QED
      BY <1>1, <1>3, <2>1, <3>1, <3>2 DEF PaymentFollows, PaymentIs, OrderIs
  <2>6. ParcelFollows'
    BY <1>1, <1>3, <1>5, <2>1 DEF ParcelFollows, ShipmentIs, OrderIs
  <2> QED
    BY <1>2, <1>7, <2>4, <2>5, <2>6 DEF Apart, Onward
<1>9. CASE op = "ChangeShippingAddress"
  <2>1. /\ orders.data.status = "pending_payment" /\ orders'.data.status = "pending_payment"
        /\ e.name = "order.shipping_address_changed"
        /\ Total(orders'.data) = Total(orders.data)
    BY <1>9 DEF OrderTo, Total, op
  <2>2. Due' = {}
    BY <1>2, <2>1 DEF Hearers
  <2>3. SummaryFollows'
    BY <1>1, <1>3, <2>1, <2>2 DEF Apart, SummaryFollows, Says
  <2>4. PaymentFollows'
    <3>1. ~PaymentIs({"captured"})
      BY <1>3, <1>9, <2>1 DEF OrderIs
    <3> QED
      BY <1>1, <1>3, <2>1, <2>2, <3>1 DEF PaymentFollows, PaymentIs, OrderIs
  <2>5. ParcelFollows'
    BY <1>1, <1>3, <1>5, <2>1 DEF ParcelFollows, ShipmentIs, OrderIs
  <2> QED
    BY <1>2, <1>7, <2>3, <2>4, <2>5 DEF Apart, Onward
<1>10. CASE op \in {"CancelOrder", "CancelUnpaidOrder"}
  <2>1. /\ orders.data.status \in {"pending_payment", "paid"}
        /\ orders'.data.status = "cancelled" /\ e.name = "order.cancelled"
        /\ Total(orders'.data) = Total(orders.data)
    BY <1>10 DEF OrderTo, SameParcel, Total, op
  <2>2. Due' = {To("MarkOrderSummaryCancelled", e), To("SettleCancelledOrderPayment", e),
                To("CancelShipment", e)}
    BY <1>2, <2>1 DEF Hearers
  <2>3. SummaryFollows'
    <3>1. "MarkOrderSummaryCancelled" \in SummaryOps
          /\ To("MarkOrderSummaryCancelled", e) \in Due'
      BY <2>2 DEF SummaryOps
    <3>2. \A row : row.status = orders.data.status /\ row.total = Total(orders.data) =>
             \A to : Summarises("MarkOrderSummaryCancelled", row, SalesHears(e.body), to) =>
               to.status = orders'.data.status /\ to.total = Total(orders'.data)
      BY <2>1 DEF Summarises
    <3> QED
      BY <1>1, <3>1, <3>2, SummaryToldNext
  <2>4. Owed("SettleCancelledOrderPayment")' /\ Owed("CancelShipment")'
        /\ \A task \in Due' : task.op # "AdjustPaymentAmount"
    BY <1>6, <2>2 DEF Owed
  <2>5. PaymentFollows'
    BY <1>1, <1>3, <2>1, <2>4 DEF PaymentFollows, PaymentIs, OrderIs
  <2>6. ParcelFollows'
    BY <1>1, <1>3, <1>5, <1>10, <2>1, <2>4 DEF ParcelFollows, ShipmentIs, OrderIs
  <2> QED
    BY <1>2, <1>7, <2>3, <2>5, <2>6 DEF Apart, Onward
<1>11. CASE op = "MarkOrderPaid"
  <2>1. /\ orders.data.status = "pending_payment" /\ orders'.data.status = "paid"
        /\ e.name = "order.paid" /\ Total(orders'.data) = Total(orders.data)
    BY <1>11 DEF OrderTo, SameParcel, Total, op
  <2>2. Due' = {To("MarkOrderSummaryPaid", e), To("PrepareShipment", e)}
    BY <1>2, <2>1 DEF Hearers
  <2>3. SummaryFollows'
    <3>1. "MarkOrderSummaryPaid" \in SummaryOps /\ To("MarkOrderSummaryPaid", e) \in Due'
      BY <2>2 DEF SummaryOps
    <3>2. \A row : row.status = orders.data.status /\ row.total = Total(orders.data) =>
             \A to : Summarises("MarkOrderSummaryPaid", row, SalesHears(e.body), to) =>
               to.status = orders'.data.status /\ to.total = Total(orders'.data)
      BY <2>1 DEF Summarises
    <3> QED
      BY <1>1, <3>1, <3>2, SummaryToldNext
  <2>4. Owed("PrepareShipment")' /\ \A task \in Due' : task.op # "AdjustPaymentAmount"
    BY <1>6, <2>2 DEF Owed
  <2>5. PaymentFollows'
    BY <1>1, <1>3, <2>1, <2>4 DEF PaymentFollows, PaymentIs, OrderIs
  <2>6. ParcelFollows'
    BY <1>1, <1>3, <1>5, <1>11, <2>1, <2>4 DEF ParcelFollows, ShipmentIs, OrderIs
  <2> QED
    BY <1>2, <1>7, <2>3, <2>5, <2>6 DEF Apart, Onward
<1>12. CASE op \in {"MarkOrderShipped", "MarkOrderDelivered"}
  <2>1. \/ /\ orders.data.status = "paid" /\ orders'.data.status = "shipped"
           /\ e.name = "order.shipped"
        \/ /\ orders.data.status = "shipped" /\ orders'.data.status = "delivered"
           /\ e.name = "order.delivered"
    BY <1>12 DEF OrderTo, op
  <2>2. Total(orders'.data) = Total(orders.data)
    BY <1>12 DEF OrderTo, SameParcel, Total, op
  <2>3. PICK o : /\ o \in {"MarkOrderSummaryShipped", "MarkOrderSummaryDelivered"}
                 /\ Due' = {To(o, e)}
                 /\ (o = "MarkOrderSummaryShipped" <=> orders'.data.status = "shipped")
    BY <1>2, <2>1 DEF Hearers
  <2>4. SummaryFollows'
    <3>1. o \in SummaryOps /\ To(o, e) \in Due'
      BY <2>3 DEF SummaryOps
    <3>2. \A row : row.status = orders.data.status /\ row.total = Total(orders.data) =>
             \A to : Summarises(o, row, SalesHears(e.body), to) =>
               to.status = orders'.data.status /\ to.total = Total(orders'.data)
      BY <2>1, <2>2, <2>3 DEF Summarises
    <3> QED
      BY <1>1, <3>1, <3>2, SummaryToldNext
  <2>5. \A task \in Due' : task.op # "AdjustPaymentAmount"
    BY <1>6, <2>3
  <2>6. PaymentFollows'
    BY <1>1, <1>3, <2>1, <2>2, <2>5 DEF PaymentFollows, PaymentIs, OrderIs
  <2>7. ParcelFollows'
    BY <1>1, <1>3, <1>5, <2>1 DEF ParcelFollows, ShipmentIs, OrderIs
  <2> QED
    BY <1>2, <1>7, <2>4, <2>6, <2>7 DEF Apart, Onward
<1> QED
  BY <1>8, <1>9, <1>10, <1>11, <1>12 DEF OrderTo, op

\* So a step of sales keeps it.
LEMMA SalesApart ==
    ASSUME ShopInv, Apart, NEW c \in Calls, SalesStep(c)
    PROVE  Apart'
<1>1. Sold(c, Task(c).op)
  BY SaleApart DEF Apart
<1> QED
  BY <1>1, SalesLeaves, SalesPlaces, SalesMoves DEF Sold

-------------------------------------------------------------------------------
(* Payments and shipping, when requests do not overlap.                        *)

\* The tasks that other contexts wait for, when payments works.
LEMMA PaymentsSettled ==
    ASSUME ShopInv, Apart, NEW c \in Calls, PaymentsStep(c)
    PROVE  LET op   == Task(c).op
               rest == Tail(call[c].agenda)
           IN  /\ call[c].phase = "running" /\ op \in PaymentsOps /\ op \notin SummaryOps
               /\ Due = {Task(c)} \cup Range(rest)
               /\ \A task \in Range(rest) : task.op = "CancelShipment"
               /\ rest = <<>> \/ op = "SettleCancelledOrderPayment"
               /\ orders # Absent =>
                    /\ summary # Absent /\ Says(summary)
                    /\ payments = Absent => OrderIs({"pending_payment"}) /\ op = "RequestPayment"
                    /\ payments = Absent => Asks(Task(c))
                    /\ NothingAgain =>
                         /\ op = "AdjustPaymentAmount" => Asks(Task(c))
                         /\ PaymentIs({"captured"}) => payments.data.amount = Total(orders.data)
                         /\ PaymentIs({"awaiting_transfer"}) =>
                              \/ payments.data.amount = Total(orders.data)
                              \/ op = "AdjustPaymentAmount"
                    /\ ~(PaymentIs({"captured"}) /\ OrderIs({"pending_payment"}))
                    /\ OrderIs({"cancelled"}) /\ PaymentIs({"captured", "awaiting_transfer"}) =>
                         op = "SettleCancelledOrderPayment"
<1> DEFINE op   == Task(c).op
           rest == Tail(call[c].agenda)
<1>1. call[c].phase = "running" /\ op \in PaymentsOps /\ op \notin SummaryOps
  BY DEF PaymentsStep, Running, Task, PaymentsOps, SummaryOps
<1>2. Due = {Task(c)} \cup Range(rest) /\ (rest = <<>> \/ op = "SettleCancelledOrderPayment")
  BY <1>1, OwnTasks DEF ShopInv, Apart
<1>3. \A task \in Range(rest) : task.op = "CancelShipment"
  <2>1. op = "SettleCancelledOrderPayment" =>
          rest = <<>> \/ rest = <<To("CancelShipment", Task(c).event)>>
    BY <1>1, OwnTasks DEF ShopInv, Apart
  <2>2. Range(rest) \subseteq {To("CancelShipment", Task(c).event)}
    BY <1>2, <2>1, RangeNone, RangeOne
  <2> QED
    BY <2>2 DEF To
<1> HIDE DEF op, rest
<1>4. \A o \in PaymentsOps \cup SalesOps : Owed(o) <=> o = op
  BY <1>1, <1>2, <1>3 DEF Owed, op, PaymentsOps, SalesOps
<1>5. /\ Owed("AdjustPaymentAmount") => op = "AdjustPaymentAmount"
      /\ Owed("SettleCancelledOrderPayment") => op = "SettleCancelledOrderPayment"
      /\ ~Owed("MarkOrderPaid")
  BY <1>1, <1>4 DEF PaymentsOps, SalesOps
<1>6. orders # Absent => summary # Absent /\ Says(summary)
  <2>1. \A task \in Due : task.op \notin SummaryOps
    BY <1>1, <1>2, <1>3 DEF op, SummaryOps
  <2> QED
    BY <2>1 DEF Apart, SummaryFollows
<1>7. orders # Absent /\ payments = Absent =>
        OrderIs({"pending_payment"}) /\ op = "RequestPayment" /\ Asks(Task(c))
  BY <1>2, <1>3 DEF Apart, PaymentFollows, op
<1>8. orders # Absent =>
        /\ NothingAgain =>
             /\ op = "AdjustPaymentAmount" => Asks(Task(c))
             /\ PaymentIs({"captured"}) => payments.data.amount = Total(orders.data)
             /\ PaymentIs({"awaiting_transfer"}) =>
                  \/ payments.data.amount = Total(orders.data)
                  \/ op = "AdjustPaymentAmount"
        /\ ~(PaymentIs({"captured"}) /\ OrderIs({"pending_payment"}))
        /\ OrderIs({"cancelled"}) /\ PaymentIs({"captured", "awaiting_transfer"}) =>
             op = "SettleCancelledOrderPayment"
  BY <1>2, <1>5 DEF Apart, PaymentFollows, op
<1> QED
  BY <1>1, <1>2, <1>3, <1>6, <1>7, <1>8 DEF op, rest

\* What payments tells changes nothing for the order, its summary and its parcel.
LEMMA PaymentsElsewhere ==
    ASSUME ShopInv, Apart, NEW c \in Calls, PaymentsStep(c),
           NEW new, published' = published \cup new,
           \A e \in new : e.name \notin {"order.paid", "order.shipped", "order.delivered"},
           \A task \in Due' : task.op \notin SummaryOps,
           orders = Absent \/ Range(Tail(call[c].agenda)) \subseteq Due'
    PROVE  OrderFollows' /\ SummaryFollows' /\ ParcelFollows'
<1>1. UNCHANGED <<orders, shipments, summary, applied>>
  BY DEF PaymentsStep
<1>2. \A name \in {"order.paid", "order.shipped", "order.delivered"} : Told(name)' <=> Told(name)
  BY DEF Told
<1>3. OrderFollows'
  BY <1>1, <1>2 DEF Apart, OrderFollows, OrderIs
<1>4. SummaryFollows'
  BY <1>1, PaymentsSettled DEF Apart, SummaryFollows, Says
<1>5. ASSUME NEW op \in {"PrepareShipment", "CancelShipment", "MarkOrderShipped"}, Owed(op),
             orders # Absent
      PROVE  Owed(op)'
  BY <1>5, PaymentsSettled DEF Owed, PaymentsOps
<1>6. ParcelFollows'
  BY <1>1, <1>2, <1>5 DEF Apart, ParcelFollows, OrderIs, ShipmentIs
<1> QED
  BY <1>3, <1>4, <1>6

\* A step of payments that leaves the payment as it is,
LEMMA PaymentsLeave ==
    ASSUME ShopInv, Apart, NEW c \in Calls, PaymentsStep(c), Passes(c),
           orders # Absent =>
             /\ Returns(c) \/ Task(c).op # "SettleCancelledOrderPayment"
             /\ payments # Absent /\ payments' # Absent /\ payments'.data = payments.data
             /\ PaymentLeft(Task(c).op, InputOf(c), payments.data)
    PROVE  Apart'
<1> DEFINE op   == Task(c).op
           rest == Tail(call[c].agenda)
<1>1. /\ UNCHANGED <<orders, shipments, summary, applied>> /\ published' = published
      /\ call[c].phase = "running"
  BY DEF PaymentsStep, Passes, Returns, Running
<1>2. Onward /\ Due' \subseteq Range(rest) /\ (Returns(c) => Due' = Range(rest))
  BY <1>1, PassesOnward, PaymentsSettled DEF ShopInv, Apart
<1>3. \A task \in Due' : task.op = "CancelShipment"
  BY <1>2, PaymentsSettled
<1>4. OrderFollows' /\ SummaryFollows' /\ ParcelFollows'
  <2> DEFINE new == {}
  <2>1. /\ published' = published \cup new
        /\ \A e \in new : e.name \notin {"order.paid", "order.shipped", "order.delivered"}
    BY <1>1
  <2>2. \A task \in Due' : task.op \notin SummaryOps
    BY <1>3 DEF SummaryOps
  <2>3. orders = Absent \/ Range(rest) \subseteq Due'
    BY <1>2, PaymentsSettled, RangeNone
  <2> HIDE DEF new
  <2> QED
    BY <2>1, <2>2, <2>3, PaymentsElsewhere
<1>5. PaymentFollows'
  <2> SUFFICES ASSUME orders # Absent PROVE PaymentFollows'
    BY <1>1 DEF PaymentFollows
  <2>1. /\ payments # Absent /\ payments' # Absent /\ payments'.data = payments.data
        /\ PaymentLeft(op, InputOf(c), payments.data)
    OBVIOUS
  <2>2. NothingAgain' => NothingAgain
    BY <1>2 DEF Onward
  <2>3. op = "AdjustPaymentAmount" /\ Asks(Task(c)) => InputOf(c).total = Total(orders.data)
    BY DEF InputOf, Given, Asks, UseCases, PaymentsOps
  <2> HIDE DEF op
  <2>4. /\ NothingAgain /\ PaymentIs({"captured", "awaiting_transfer"}) =>
             payments.data.amount = Total(orders.data)
        /\ ~(PaymentIs({"captured"}) /\ OrderIs({"pending_payment"}))
        /\ OrderIs({"cancelled"}) => ~PaymentIs({"captured", "awaiting_transfer"})
    BY <2>1, <2>3, PaymentsSettled DEF PaymentLeft, PaymentIs, op
  <2> QED
    BY <1>1, <1>3, <2>1, <2>2, <2>4 DEF PaymentFollows, PaymentIs, OrderIs
<1> QED
  BY <1>2, <1>4, <1>5 DEF Apart, Onward

\* one that asks for it, for the total that the order has,
LEMMA PaymentsMake ==
    ASSUME ShopInv, Apart, NEW c \in Calls, PaymentsStep(c), Task(c).op = "RequestPayment",
           payments = Absent, payments' # Absent,
           NEW e, NEW f, TellsTwo(c, e, f), NewPayment(InputOf(c), payments'.data, e, f)
    PROVE  Apart'
<1>1. /\ UNCHANGED <<orders, shipments, summary, applied>>
      /\ published' = published \cup {e, f} /\ call[c].phase = "running"
  BY DEF PaymentsStep, TellsTwo, Running
<1>2. /\ e.name = "payment.created"
      /\ f.name \in {"payment.captured", "payment.rejected", "payment.awaiting_transfer"}
  BY DEF NewPayment
<1>3. Tail(call[c].agenda) = <<>> /\ Task(c).op \notin SummaryOps
  BY PaymentsSettled
<1>4. Onward /\ Due' = {To(op, f) : op \in Hearers(f.name)}
  <2>1. Hearers(e.name) = {}
    BY <1>2 DEF Hearers
  <2> QED
    BY <1>1, <1>3, <2>1, TellsTwoOnward DEF ShopInv, Apart
<1>5. /\ \A task \in Due' : task.op \in {"MarkOrderPaid", "CancelUnpaidOrder"}
      /\ f.name = "payment.captured" => Owed("MarkOrderPaid")'
  <2>1. /\ Hearers(f.name) \subseteq {"MarkOrderPaid", "CancelUnpaidOrder"}
        /\ f.name = "payment.captured" => "MarkOrderPaid" \in Hearers(f.name)
    BY <1>2 DEF Hearers
  <2>2. \A o : To(o, f).op = o
    BY DEF To
  <2> QED
    BY <1>4, <2>1, <2>2 DEF Owed
<1>6. OrderFollows' /\ SummaryFollows' /\ ParcelFollows'
  <2> DEFINE new == {e, f}
  <2>1. /\ published' = published \cup new
        /\ \A x \in new : x.name \notin {"order.paid", "order.shipped", "order.delivered"}
    BY <1>1, <1>2
  <2>2. \A task \in Due' : task.op \notin SummaryOps
    BY <1>5 DEF SummaryOps
  <2>3. Range(Tail(call[c].agenda)) \subseteq Due'
    BY <1>3, RangeNone
  <2> HIDE DEF new
  <2> QED
    BY <2>1, <2>2, <2>3, PaymentsElsewhere
<1>7. PaymentFollows'
  <2> SUFFICES ASSUME orders # Absent PROVE PaymentFollows'
    BY <1>1 DEF PaymentFollows
  <2>1. InputOf(c).total = Total(orders.data) /\ OrderIs({"pending_payment"})
    BY PaymentsSettled DEF InputOf, Given, Asks, UseCases, PaymentsOps
  <2>2. /\ payments'.data.amount = Total(orders.data)
        /\ payments'.data.status = "captured" => Owed("MarkOrderPaid")'
    BY <1>5, <2>1 DEF NewPayment
  <2> QED
    BY <1>1, <1>5, <2>1, <2>2 DEF PaymentFollows, PaymentIs, OrderIs
<1> QED
  BY <1>4, <1>6, <1>7 DEF Apart, Onward

\* and one that moves it: sales is told when the money has come.
LEMMA PaymentsMove ==
    ASSUME ShopInv, Apart, NEW c \in Calls, PaymentsStep(c),
           payments # Absent, payments' # Absent,
           NEW e, Tells(c, e), PaymentTo(Task(c).op, InputOf(c), payments.data, payments'.data, e)
    PROVE  Apart'
<1> DEFINE op   == Task(c).op
           rest == Tail(call[c].agenda)
<1>1. /\ UNCHANGED <<orders, shipments, summary, applied>>
      /\ published' = published \cup {e} /\ call[c].phase = "running"
  BY DEF PaymentsStep, Tells, Running
<1>2. /\ op \notin SummaryOps
      /\ rest = <<>> \/ op = "SettleCancelledOrderPayment"
      /\ \A task \in Range(rest) : task.op = "CancelShipment"
  BY PaymentsSettled
<1>3. /\ e.name \in {"payment.amount_adjusted", "payment.captured", "payment.rejected",
                     "payment.refunded", "payment.voided"}
      /\ op = "SettleCancelledOrderPayment" => e.name \in {"payment.refunded", "payment.voided"}
  BY DEF PaymentTo
<1>4. Onward /\ Due' = {To(o, e) : o \in Hearers(e.name)} \cup Range(rest)
  <2>1. rest = <<>> \/ Hearers(e.name) = {}
    BY <1>2, <1>3 DEF Hearers
  <2> QED
    BY <1>1, <1>2, <2>1, TellsOnward DEF ShopInv, Apart
<1>5. /\ \A task \in Due' :
           task.op \in {"MarkOrderPaid", "CancelUnpaidOrder", "CancelShipment"}
      /\ e.name = "payment.captured" => Owed("MarkOrderPaid")'
  <2>1. /\ Hearers(e.name) \subseteq {"MarkOrderPaid", "CancelUnpaidOrder"}
        /\ e.name = "payment.captured" => "MarkOrderPaid" \in Hearers(e.name)
    BY <1>3 DEF Hearers
  <2>2. \A o : To(o, e).op = o
    BY DEF To
  <2> QED
    BY <1>2, <1>4, <2>1, <2>2 DEF Owed
<1>6. OrderFollows' /\ SummaryFollows' /\ ParcelFollows'
  <2> DEFINE new == {e}
  <2>1. /\ published' = published \cup new
        /\ \A x \in new : x.name \notin {"order.paid", "order.shipped", "order.delivered"}
    BY <1>1, <1>3
  <2>2. \A task \in Due' : task.op \notin SummaryOps
    BY <1>5 DEF SummaryOps
  <2>3. Range(rest) \subseteq Due'
    BY <1>4
  <2> HIDE DEF new
  <2> QED
    BY <2>1, <2>2, <2>3, PaymentsElsewhere
<1>7. PaymentFollows'
  <2> SUFFICES ASSUME orders # Absent PROVE PaymentFollows'
    BY <1>1 DEF PaymentFollows
  <2>1. NothingAgain' => NothingAgain
    BY <1>4 DEF Onward
  <2>2. op = "AdjustPaymentAmount" /\ Asks(Task(c)) => InputOf(c).total = Total(orders.data)
    BY DEF InputOf, Given, Asks, UseCases, PaymentsOps
  <2> HIDE DEF op
  <2>3. /\ NothingAgain /\ payments'.data.status \in {"captured", "awaiting_transfer"} =>
             payments'.data.amount = Total(orders.data)
        /\ payments'.data.status = "captured" => Owed("MarkOrderPaid")'
        /\ OrderIs({"cancelled"}) =>
             payments'.data.status \notin {"captured", "awaiting_transfer"}
    BY <1>5, <2>2, PaymentsSettled DEF PaymentTo, PaymentIs, op
  <2> QED
    BY <1>1, <1>5, <2>1, <2>3 DEF PaymentFollows, PaymentIs, OrderIs
<1> QED
  BY <1>4, <1>6, <1>7 DEF Apart, Onward

\* So a step of payments keeps it.
LEMMA PaymentsApart ==
    ASSUME ShopInv, Apart, NEW c \in Calls, PaymentsStep(c)
    PROVE  Apart'
<1> DEFINE op == Task(c).op
<1>1. Paid(c, op, InputOf(c))
  BY PaymentApart DEF Apart
<1>2. CASE /\ Passes(c) /\ payments' = payments
           /\ op = "RequestPayment" => payments # Absent
           /\ op \in {"AdjustPaymentAmount", "SettleCancelledOrderPayment"} => payments = Absent
  <2>1. orders # Absent =>
          /\ payments # Absent
          /\ op \notin {"AdjustPaymentAmount", "SettleCancelledOrderPayment"}
    BY <1>2, PaymentsSettled
  <2>2. op \notin {"AdjustPaymentAmount", "SettleCancelledOrderPayment"} =>
          PaymentLeft(op, InputOf(c), payments.data)
    BY DEF PaymentLeft
  <2> QED
    BY <1>2, <2>1, <2>2, PaymentsLeave
<1>3. CASE /\ Returns(c) /\ payments # Absent /\ payments' # Absent
           /\ payments'.data = payments.data /\ PaymentLeft(op, InputOf(c), payments.data)
  BY <1>3, PaymentsLeave DEF Passes
<1> QED
  BY <1>1, <1>2, <1>3, PaymentsMake, PaymentsMove DEF Paid

\* What other contexts wait for, when shipping works: for nothing.
LEMMA ShippingSettled ==
    ASSUME ShopInv, Apart, NEW c \in Calls, ShippingStep(c)
    PROVE  LET op == Task(c).op
           IN  /\ call[c].phase = "running" /\ op \in ShippingOps /\ op \notin SummaryOps
               /\ Due = {Task(c)} /\ Tail(call[c].agenda) = <<>>
               /\ orders # Absent =>
                    /\ summary # Absent /\ Says(summary) /\ payments # Absent
                    /\ NothingAgain /\ PaymentIs({"captured", "awaiting_transfer"}) =>
                         payments.data.amount = Total(orders.data)
                    /\ ~(PaymentIs({"captured"}) /\ OrderIs({"pending_payment"}))
                    /\ OrderIs({"cancelled"}) => ~PaymentIs({"captured", "awaiting_transfer"})
                    /\ Told("order.paid") /\ shipments = Absent =>
                         OrderIs({"paid"}) /\ op = "PrepareShipment"
                    /\ OrderIs({"cancelled"}) /\ ShipmentIs({"preparing"}) =>
                         op = "CancelShipment"
                    /\ ShipmentIs({"dispatched", "delivered"}) => OrderIs({"shipped", "delivered"})
<1> DEFINE op == Task(c).op
<1>1. call[c].phase = "running" /\ op \in ShippingOps /\ op \notin SummaryOps
  BY DEF ShippingStep, Running, Task, ShippingOps, SummaryOps
<1>2. Due = {Task(c)} /\ Tail(call[c].agenda) = <<>>
  <2>1. op \notin SummaryOps \cup {"SettleCancelledOrderPayment"}
    BY <1>1 DEF ShippingOps
  <2>2. Tail(call[c].agenda) = <<>> /\ Due = {Task(c)} \cup Range(Tail(call[c].agenda))
    BY <1>1, <2>1, OwnTasks DEF ShopInv, Apart
  <2> QED
    BY <2>2, RangeNone
<1>3. \A o : Owed(o) <=> o = op
  BY <1>2 DEF Owed
<1>4. /\ \A task \in Due : task.op \notin SummaryOps \cup PaymentsOps
      /\ \A o \in PaymentsOps \cup SalesOps : ~Owed(o)
  BY <1>1, <1>2, <1>3 DEF SalesOps, PaymentsOps, ShippingOps, SummaryOps
<1>5. orders # Absent => summary # Absent /\ Says(summary)
  BY <1>4 DEF Apart, SummaryFollows
<1>6. orders # Absent =>
        /\ payments # Absent
        /\ NothingAgain /\ PaymentIs({"captured", "awaiting_transfer"}) =>
             payments.data.amount = Total(orders.data)
        /\ ~(PaymentIs({"captured"}) /\ OrderIs({"pending_payment"}))
        /\ OrderIs({"cancelled"}) => ~PaymentIs({"captured", "awaiting_transfer"})
  BY <1>4 DEF Apart, PaymentFollows, PaymentIs, PaymentsOps, SalesOps
<1>7. orders # Absent =>
        /\ Told("order.paid") /\ shipments = Absent => OrderIs({"paid"}) /\ op = "PrepareShipment"
        /\ OrderIs({"cancelled"}) /\ ShipmentIs({"preparing"}) => op = "CancelShipment"
        /\ ShipmentIs({"dispatched", "delivered"}) => OrderIs({"shipped", "delivered"})
  BY <1>3, <1>4 DEF Apart, ParcelFollows, SalesOps
<1> QED
  BY <1>1, <1>2, <1>5, <1>6, <1>7

\* What shipping tells changes nothing for the order, its summary and its payment.
LEMMA ShippingElsewhere ==
    ASSUME ShopInv, Apart, NEW c \in Calls, ShippingStep(c), Onward,
           NEW new, published' = published \cup new,
           \A e \in new : e.name \notin {"order.paid", "order.shipped", "order.delivered"},
           \A task \in Due' : task.op \in {"MarkOrderShipped", "MarkOrderDelivered"}
    PROVE  /\ OrderFollows' /\ SummaryFollows' /\ PaymentFollows'
           /\ Told("order.paid")' <=> Told("order.paid")
<1>1. UNCHANGED <<orders, payments, summary, applied>>
  BY DEF ShippingStep
<1>2. \A name \in {"order.paid", "order.shipped", "order.delivered"} : Told(name)' <=> Told(name)
  BY DEF Told
<1>3. OrderFollows'
  BY <1>1, <1>2 DEF Apart, OrderFollows, OrderIs
<1>4. SummaryFollows'
  BY <1>1, ShippingSettled DEF Apart, SummaryFollows, Says, SummaryOps
<1>5. PaymentFollows'
  <2>1. NothingAgain' => NothingAgain
    BY DEF Onward
  <2> QED
    BY <1>1, <2>1, ShippingSettled DEF PaymentFollows, PaymentIs, OrderIs
<1> QED
  BY <1>2, <1>3, <1>4, <1>5

\* A step of shipping that leaves the shipment as it is,
LEMMA ShippingLeaves ==
    ASSUME ShopInv, Apart, NEW c \in Calls, ShippingStep(c), Passes(c),
           orders # Absent =>
             \/ /\ shipments # Absent /\ shipments' # Absent
                /\ shipments'.data = shipments.data
                /\ ShipmentLeft(Task(c).op, shipments.data)
             \/ shipments = Absent /\ shipments' = Absent /\ Task(c).op # "PrepareShipment"
    PROVE  Apart'
<1> DEFINE op == Task(c).op
<1>1. /\ UNCHANGED <<orders, applied>> /\ published' = published /\ call[c].phase = "running"
  BY DEF ShippingStep, Passes, Returns, Running
<1>2. Onward /\ Due' = {}
  <2>1. Onward /\ Due' \subseteq Range(Tail(call[c].agenda))
    BY <1>1, PassesOnward, ShippingSettled DEF ShopInv, Apart
  <2> QED
    BY <2>1, ShippingSettled, RangeNone
<1>3. /\ OrderFollows' /\ SummaryFollows' /\ PaymentFollows'
      /\ Told("order.paid")' <=> Told("order.paid")
  <2> DEFINE new == {}
  <2>1. /\ published' = published \cup new
        /\ \A e \in new : e.name \notin {"order.paid", "order.shipped", "order.delivered"}
    BY <1>1
  <2> HIDE DEF new
  <2> QED
    BY <1>2, <2>1, ShippingElsewhere
<1>4. ParcelFollows'
  <2> SUFFICES ASSUME orders # Absent PROVE ParcelFollows'
    BY <1>1 DEF ParcelFollows
  <2>1. \/ /\ shipments # Absent /\ shipments' # Absent /\ shipments'.data = shipments.data
           /\ ShipmentLeft(op, shipments.data)
        \/ shipments = Absent /\ shipments' = Absent /\ op # "PrepareShipment"
    OBVIOUS
  <2>2. /\ ~(Told("order.paid") /\ shipments = Absent)
        /\ ~(OrderIs({"cancelled"}) /\ ShipmentIs({"preparing"}))
        /\ ShipmentIs({"dispatched", "delivered"}) => OrderIs({"shipped", "delivered"})
    BY <2>1, ShippingSettled DEF ShipmentLeft, ShipmentIs
  <2> QED
    BY <1>1, <1>3, <2>1, <2>2 DEF ParcelFollows, OrderIs, ShipmentIs
<1> QED
  BY <1>2, <1>3, <1>4 DEF Apart, Onward

\* one that prepares it,
LEMMA ShippingPrepares ==
    ASSUME ShopInv, Apart, NEW c \in Calls, ShippingStep(c), Task(c).op = "PrepareShipment",
           shipments = Absent, shipments' # Absent, shipments'.data.status = "preparing",
           NEW e, Tells(c, e), e.name = "shipment.created"
    PROVE  Apart'
<1>1. /\ UNCHANGED <<orders, applied>> /\ published' = published \cup {e}
      /\ call[c].phase = "running"
  BY DEF ShippingStep, Tells, Running
<1>2. Onward /\ Due' = {}
  <2>1. Hearers(e.name) = {} /\ Tail(call[c].agenda) = <<>> /\ Task(c).op \notin SummaryOps
    BY ShippingSettled DEF Hearers
  <2>2. /\ Onward
        /\ Due' = {To(o, e) : o \in Hearers(e.name)} \cup Range(Tail(call[c].agenda))
    BY <1>1, <2>1, TellsOnward DEF ShopInv, Apart
  <2> QED
    BY <2>1, <2>2, RangeNone
<1>3. /\ OrderFollows' /\ SummaryFollows' /\ PaymentFollows'
      /\ Told("order.paid")' <=> Told("order.paid")
  <2> DEFINE new == {e}
  <2>1. /\ published' = published \cup new
        /\ \A x \in new : x.name \notin {"order.paid", "order.shipped", "order.delivered"}
    BY <1>1
  <2> HIDE DEF new
  <2> QED
    BY <1>2, <2>1, ShippingElsewhere
<1>4. ParcelFollows'
  <2>1. Told("order.paid")
    BY <1>1, TaskTold DEF ShopInv, Told
  <2>2. orders # Absent => OrderIs({"paid"})
    BY <2>1, ShippingSettled
  <2> QED
    BY <1>1, <2>2 DEF ParcelFollows, OrderIs, ShipmentIs
<1> QED
  BY <1>2, <1>3, <1>4 DEF Apart, Onward

\* and one that moves it: sales is told when it leaves and when it arrives.
LEMMA ShippingMoves ==
    ASSUME ShopInv, Apart, NEW c \in Calls, ShippingStep(c),
           shipments # Absent, shipments' # Absent,
           NEW e, Tells(c, e), ShipmentTo(Task(c).op, shipments.data, shipments'.data, e)
    PROVE  Apart'
<1> DEFINE op == Task(c).op
<1>1. /\ UNCHANGED <<orders, applied>> /\ published' = published \cup {e}
      /\ call[c].phase = "running"
  BY DEF ShippingStep, Tells, Running
<1>2. e.name \in {"shipment.dispatched", "shipment.delivered", "shipment.cancelled"}
  BY DEF ShipmentTo
<1>3. Onward /\ Due' = {To(o, e) : o \in Hearers(e.name)}
  <2>1. Range(Tail(call[c].agenda)) = {} /\ Tail(call[c].agenda) = <<>> /\ op \notin SummaryOps
    BY ShippingSettled, RangeNone
  <2>2. /\ Onward
        /\ Due' = {To(o, e) : o \in Hearers(e.name)} \cup Range(Tail(call[c].agenda))
    BY <1>1, <2>1, TellsOnward DEF ShopInv, Apart
  <2> QED
    BY <2>1, <2>2
<1>4. /\ \A task \in Due' : task.op \in {"MarkOrderShipped", "MarkOrderDelivered"}
      /\ e.name = "shipment.dispatched" => Owed("MarkOrderShipped")'
  <2>1. /\ Hearers(e.name) \subseteq {"MarkOrderShipped", "MarkOrderDelivered"}
        /\ e.name = "shipment.dispatched" => "MarkOrderShipped" \in Hearers(e.name)
    BY <1>2 DEF Hearers
  <2>2. \A o : To(o, e).op = o
    BY DEF To
  <2> QED
    BY <1>3, <2>1, <2>2 DEF Owed
<1>5. /\ OrderFollows' /\ SummaryFollows' /\ PaymentFollows'
      /\ Told("order.paid")' <=> Told("order.paid")
  <2> DEFINE new == {e}
  <2>1. /\ published' = published \cup new
        /\ \A x \in new : x.name \notin {"order.paid", "order.shipped", "order.delivered"}
    BY <1>1, <1>2
  <2> HIDE DEF new
  <2> QED
    BY <1>3, <1>4, <2>1, ShippingElsewhere
<1>6. ParcelFollows'
  <2> SUFFICES ASSUME orders # Absent PROVE ParcelFollows'
    BY <1>1 DEF ParcelFollows
  <2>1. ~OrderIs({"pending_payment"}) /\ orders.data.status \in OrderStatus
    BY DEF ShopInv, Backed, RowsOK, RowOK, ShipmentBacked, PaidAsTold, Told, OrderIs
  <2>2. /\ shipments'.data.status = "dispatched" =>
             \/ OrderIs({"shipped", "delivered"})
             \/ OrderIs({"paid"}) /\ Owed("MarkOrderShipped")'
        /\ shipments'.data.status = "delivered" => OrderIs({"shipped", "delivered"})
        /\ shipments'.data.status # "preparing"
    BY <1>4, <2>1, ShippingSettled DEF ShipmentTo, ShipmentIs, OrderIs, OrderStatus
  <2> QED
    BY <1>1, <2>2 DEF ParcelFollows, OrderIs, ShipmentIs
<1> QED
  BY <1>3, <1>5, <1>6 DEF Apart, Onward

\* The event that a shipment is prepared for has the lines of the order.
LEMMA ItemsTold ==
    ASSUME ShopInv, Apart, NEW c \in Calls, call[c].phase = "running",
           Task(c).op = "PrepareShipment", orders # Absent
    PROVE  InputOf(c).items # <<>>
<1> DEFINE body == Task(c).event.body
<1>1. "items" \in DOMAIN body /\ body.items = Items(orders.data.lines)
  BY TaskTold DEF ShopInv, Backed, PaidAsTold
<1>2. DOMAIN Items(orders.data.lines) # {}
  BY DEF Apart, OrderFollows, Items
<1>3. InputOf(c) = ShippingHears(body)
  BY DEF InputOf, Given, UseCases, PaymentsOps, ShippingOps
<1>4. ShippingHears(body).items = body.items
  BY <1>1, FieldKept DEF ShippingHears
<1> QED
  BY <1>1, <1>2, <1>3, <1>4

\* So a step of shipping keeps it.
LEMMA ShippingApart ==
    ASSUME ShopInv, Apart, NEW c \in Calls, ShippingStep(c)
    PROVE  Apart'
<1> DEFINE op == Task(c).op
<1>1. Shipped(c, op, InputOf(c))
  BY ShipmentApart DEF Apart
<1>2. CASE /\ Passes(c) /\ shipments' = shipments
           /\ op = "PrepareShipment" => shipments # Absent \/ InputOf(c).items = <<>>
           /\ op = "CancelShipment" => shipments = Absent
  <2>1. orders # Absent /\ op = "PrepareShipment" => shipments # Absent
    BY <1>2, ItemsTold, ShippingSettled
  <2>2. op # "CancelShipment" => ShipmentLeft(op, shipments.data)
    BY DEF ShipmentLeft
  <2> QED
    BY <1>2, <2>1, <2>2, ShippingLeaves
<1>3. CASE /\ Returns(c) /\ shipments # Absent /\ shipments' # Absent
           /\ shipments'.data = shipments.data /\ ShipmentLeft(op, shipments.data)
  BY <1>3, ShippingLeaves DEF Passes
<1> QED
  BY <1>1, <1>2, <1>3, ShippingPrepares, ShippingMoves DEF Shipped

-------------------------------------------------------------------------------
(* The summary, when requests do not overlap, and the calls that begin.        *)

\* A step that only reads keeps it.
LEMMA ReadsApart ==
    ASSUME ShopInv, Apart, NEW c \in Calls, NEW copy, Reads(c, copy), applied' = applied,
           Fresh(Task(c), copy)
    PROVE  Apart'
<1>1. /\ UNCHANGED <<orders, payments, shipments, summary, applied, published>>
      /\ DOMAIN call = Calls
      /\ \A d \in Calls : DOMAIN call[d] = {"phase", "agenda", "read", "attempt"}
  BY DEF Reads, ShopInv, CallsOK, CallOK
<1>2. /\ \A d \in Calls : call'[d].phase = call[d].phase /\ call'[d].agenda = call[d].agenda
      /\ \A d \in Calls : d # c => call'[d].read = call[d].read
      /\ call'[c].read = copy
  BY <1>1 DEF Reads
<1>3. Due' = Due
  BY <1>2 DEF Due, DueIn, Calls
<1>4. \A op : Owed(op)' <=> Owed(op)
  BY <1>3 DEF Owed
<1>5. \A name : Told(name)' <=> Told(name)
  BY <1>1 DEF Told
<1>6. Alone'
  <2>1. {d \in Calls : call'[d].phase # "unsent"} = {d \in Calls : call[d].phase # "unsent"}
    BY <1>2
  <2> QED
    BY <1>2, <2>1 DEF Apart, Alone, Calls
<1>7. InTurn'
  <2> SUFFICES ASSUME NEW d \in Calls, call'[d].phase = "running"
               PROVE  Line(call'[d].agenda) /\ Fresh(Task(d), call'[d].read)
    BY <1>1, <1>2 DEF InTurn, Task, Fresh, Found, Shown, Calls
  <2>1. Line(call[d].agenda) /\ Fresh(Task(d), call[d].read)
    BY <1>2 DEF Apart, InTurn
  <2> QED
    BY <1>2, <2>1
<1>8. Projected'
  <2>1. \A d \in Calls : NotYet(d)' <=> NotYet(d)
    BY <1>2 DEF NotYet, Task
  <2> QED
    BY <1>1, <1>3, <2>1 DEF Apart, Projected, Calls
<1>9. OrderFollows'
  BY <1>1, <1>5 DEF Apart, OrderFollows, OrderIs
<1>10. SummaryFollows'
  BY <1>1, <1>3 DEF Apart, SummaryFollows, Says, Shown
<1>11. PaymentFollows'
  <2>1. NothingAgain' <=> NothingAgain
    BY <1>2 DEF NothingAgain, Calls
  <2> QED
    BY <1>1, <1>3, <1>4, <2>1 DEF Apart, PaymentFollows, PaymentIs, OrderIs, Asks
<1>12. ParcelFollows'
  BY <1>1, <1>4, <1>5 DEF Apart, ParcelFollows, ShipmentIs, OrderIs
<1> QED
  BY <1>6, <1>7, <1>8, <1>9, <1>10, <1>11, <1>12 DEF Apart

\* When the summary has been told of an event, the rest is still owed.
LEMMA SummaryDone ==
    ASSUME ShopInv, Apart, NEW c \in Calls, call[c].phase = "running", Task(c).op \in SummaryOps,
           call' = [call EXCEPT ![c] = Continued(c, "return", <<>>)],
           UNCHANGED <<orders, payments, shipments, published>>,
           applied' = applied \cup {Id(Task(c))}
    PROVE  /\ Alone' /\ InTurn' /\ Projected' /\ OrderFollows' /\ PaymentFollows' /\ ParcelFollows'
           /\ Due = {Task(c)} \cup Due' /\ \A task \in Due' : task.op \notin SummaryOps
<1> DEFINE rest == Tail(call[c].agenda)
<1>1. /\ Due = {Task(c)} \cup Range(rest) /\ Lined(rest)
      /\ rest \in Seq(Heard(published))
      /\ \A s \in Range(rest) : s.op \in Followers
  BY OwnTasks DEF ShopInv, Apart
<1>2. Hands(c, rest)
  <2>1. Reactions(<<>>) \o rest = rest
    BY <1>1, ReactionsNone
  <2> HIDE DEF rest
  <2>2. Hands(c, Reactions(<<>>) \o rest)
    BY HandsReturn DEF ShopInv, rest
  <2> QED
    BY <2>1, <2>2
<1>3. /\ Alone' /\ InTurn' /\ Due' = Range(rest)
      /\ ~NotYet(c)' /\ \A d \in Calls : NotYet(d)' => NotYet(d)
      /\ NothingAgain' => NothingAgain
  BY <1>1, <1>2, HandsOver DEF ShopInv, Apart
<1> HIDE DEF rest
<1>4. Due = {Task(c)} \cup Due' /\ \A task \in Due' : task.op \notin SummaryOps
  BY <1>1, <1>3 DEF Followers, SummaryOps
<1>5. \A op : op \notin SummaryOps => (Owed(op)' <=> Owed(op))
  BY <1>4 DEF Owed
<1>6. /\ Owed("AdjustPaymentAmount")' <=> Owed("AdjustPaymentAmount")
      /\ Owed("MarkOrderPaid")' <=> Owed("MarkOrderPaid")
      /\ Owed("SettleCancelledOrderPayment")' <=> Owed("SettleCancelledOrderPayment")
      /\ Owed("PrepareShipment")' <=> Owed("PrepareShipment")
      /\ Owed("CancelShipment")' <=> Owed("CancelShipment")
      /\ Owed("MarkOrderShipped")' <=> Owed("MarkOrderShipped")
  BY <1>5 DEF SummaryOps
<1>7. \A name : Told(name)' <=> Told(name)
  BY DEF Told
<1>8. OrderFollows'
  BY <1>7 DEF Apart, OrderFollows, OrderIs
<1>9. PaymentFollows'
  <2> SUFFICES ASSUME orders # Absent PROVE PaymentFollows'
    BY DEF PaymentFollows
  <2>1. payments = Absent =>
          /\ OrderIs({"pending_payment"})
          /\ \E task \in Due' : task.op = "RequestPayment" /\ Asks(task)
    BY <1>4 DEF Apart, PaymentFollows, SummaryOps
  <2>2. NothingAgain => \A task \in Due' : task.op = "AdjustPaymentAmount" => Asks(task)
    BY <1>4 DEF Apart, PaymentFollows
  <2> QED
    BY <1>3, <1>6, <2>1, <2>2 DEF Apart, PaymentFollows, PaymentIs, OrderIs, Asks
<1>10. ParcelFollows'
  BY <1>6, <1>7 DEF Apart, ParcelFollows, ShipmentIs, OrderIs
<1>11. Projected'
  <2>1. \A d \in Calls : NotYet(d)' => \A e \in published' : e.by # d
    BY <1>3 DEF Apart, Projected
  <2>2. Task(c).event \in published
    BY TaskKnown DEF ShopInv, IsReaction, SummaryOps, UseCases
  <2>3. \A id \in applied' : \E e \in published' : id = <<e.name, e.by>>
    BY <2>2 DEF Apart, Projected, Id
  <2>4. ASSUME NEW e \in published', NEW op \in SummaryOps \cap Range(Listeners(e.name))
        PROVE  <<e.name, e.by>> \in applied' \/ To(op, e) \in Due'
    <3>1. <<e.name, e.by>> \in applied \/ To(op, e) \in Due
      BY <2>4 DEF Apart, Projected
    <3>2. To(op, e) = Task(c) => Id(Task(c)) = <<e.name, e.by>>
      BY DEF To, Id
    <3> QED
      BY <1>4, <3>1, <3>2
  <2> HIDE DEF Projected
  <2> QED
    BY <2>1, <2>3, <2>4 DEF Projected, Calls
<1> QED
  BY <1>3, <1>4, <1>8, <1>9, <1>10, <1>11

\* It is told once of each event: one that it was told of before changes nothing,
LEMMA AskAppliedApart ==
    ASSUME ShopInv, Apart, NEW c \in Calls, AskApplied(c)
    PROVE  Apart'
<1>1. /\ call[c].phase = "running" /\ Task(c).op \in SummaryOps
      /\ UNCHANGED <<orders, payments, shipments, summary, applied, published>>
  BY DEF AskApplied, Running, Task, stores
<1>2. CASE HasApplied(c)
  <2>1. Id(Task(c)) \in applied /\ applied' = applied \cup {Id(Task(c))}
    BY <1>1, <1>2 DEF HasApplied, EventId, Id
  <2>2. call' = [call EXCEPT ![c] = Continued(c, "return", <<>>)]
    BY <1>2 DEF AskApplied
  <2>3. /\ Alone' /\ InTurn' /\ Projected' /\ OrderFollows' /\ PaymentFollows' /\ ParcelFollows'
        /\ Due = {Task(c)} \cup Due' /\ \A task \in Due' : task.op \notin SummaryOps
    BY <1>1, <2>1, <2>2, SummaryDone
  <2>4. SummaryFollows'
    BY <1>1, <2>1, <2>3 DEF Apart, SummaryFollows, Says
  <2> QED
    BY <2>3, <2>4 DEF Apart
<1>3. CASE ~HasApplied(c)
  <2>1. Reads(c, Absent)
    BY <1>1, <1>3 DEF AskApplied, Reads
  <2>2. Fresh(Task(c), Absent)
    BY <1>1, <1>3 DEF Fresh, HasApplied, EventId, Id
  <2> QED
    BY <1>1, <2>1, <2>2, ReadsApart
<1> QED
  BY <1>2, <1>3

\* the others are put on what it says,
LEMMA FindSummaryApart ==
    ASSUME ShopInv, Apart, NEW c \in Calls, FindSummary(c)
    PROVE  Apart'
<1> DEFINE copy == [version |-> 1, data |-> Shown]
<1>1. /\ call[c].phase = "running" /\ Task(c).op \in SummaryOps /\ call[c].read = Absent
      /\ UNCHANGED <<orders, payments, shipments, summary, applied, published>>
      /\ call' = [call EXCEPT ![c].read = copy]
  BY DEF FindSummary, Running, Task, stores, Shown
<1>2. Id(Task(c)) \notin applied
  BY <1>1 DEF Apart, InTurn, Fresh, Absent, Unread
<1>3. Reads(c, copy) /\ Fresh(Task(c), copy)
  BY <1>1, <1>2 DEF Reads, Fresh
<1> HIDE DEF copy
<1> QED
  BY <1>1, <1>3, ReadsApart

\* and after that it tells the truth.
LEMMA SaveSummaryApart ==
    ASSUME ShopInv, Apart, NEW c \in Calls, SaveSummary(c)
    PROVE  Apart'
<1> DEFINE task == Task(c)
<1>1. /\ call[c].phase = "running" /\ task.op \in SummaryOps /\ call[c].read.version = 1
      /\ call' = [call EXCEPT ![c] = Continued(c, "return", <<>>)]
      /\ applied' = applied \cup {Id(task)}
      /\ UNCHANGED <<orders, payments, shipments, published>>
  BY DEF SaveSummary, Running, Task, EventId, Id
<1>2. call[c].read.data = Shown /\ Id(task) \notin applied
  BY <1>1 DEF Apart, InTurn, Fresh, Absent, Unread
<1>3. InputOf(c) = SalesHears(task.event.body)
  BY <1>1 DEF InputOf, Given, UseCases, SummaryOps, PaymentsOps, ShippingOps
<1>4. summary' = Summarised(task.op, Shown, SalesHears(task.event.body))
  BY <1>2, <1>3 DEF SaveSummary
<1>5. SummaryFields \subseteq DOMAIN Shown
  BY DEF Apart, SummaryFollows, Shown, UnknownSummary, SummaryFields
<1>6. SummaryFields \subseteq DOMAIN summary'
  BY <1>1, <1>4, <1>5, SummaryTold
<1>7. summary' # Absent
  BY <1>6 DEF Absent, SummaryFields
<1>8. /\ Alone' /\ InTurn' /\ Projected' /\ OrderFollows' /\ PaymentFollows' /\ ParcelFollows'
      /\ Due = {task} \cup Due' /\ \A t \in Due' : t.op \notin SummaryOps
  BY <1>1, SummaryDone
<1> HIDE DEF task
<1>9. orders # Absent => Says(summary)'
  BY <1>1, <1>2, <1>4, <1>8 DEF Apart, SummaryFollows, Says
<1>10. SummaryFollows'
  BY <1>1, <1>6, <1>7, <1>8, <1>9 DEF SummaryFollows
<1> QED
  BY <1>8, <1>10 DEF Apart

\* A call may begin only when none runs, so nothing is owed.
LEMMA NoneRuns ==
    ASSUME ShopInv, Apart, traffic = 1, MayBegin
    PROVE  (\A c \in Calls : call[c].phase # "running") /\ Due = {}
<1> DEFINE running == {c \in Calls : call[c].phase = "running"}
           begun   == {c \in Calls : call[c].phase # "unsent"}
<1>1. running \subseteq begun /\ IsFiniteSet(begun)
  BY DEF Apart, Alone
<1>2. Cardinality(running) < 1
  BY DEF MayBegin
<1> HIDE DEF running, begun
<1>3. IsFiniteSet(running)
  BY <1>1, FS_Subset
<1>4. Cardinality(running) = 0
  BY <1>2, <1>3, FS_CardinalityType
<1>5. running = {}
  BY <1>3, <1>4, FS_EmptySet
<1>6. \A c \in Calls : call[c].phase # "running"
  BY <1>5 DEF running
<1> QED
  BY <1>6, DueNone DEF ShopInv

\* When a call begins with a single task, or is refused, nothing more is owed.
LEMMA BeginsApart ==
    ASSUME ShopInv, Apart, traffic = 1, MayBegin,
           NEW c \in Calls, call[c].phase = "unsent",
           NEW it, call' = [call EXCEPT ![c] = it], it.phase \in {"running", "rejected"},
           NEW task, it.agenda = <<>> \/ it.agenda = <<task>>,
           it.phase = "running" => it.agenda = <<task>> /\ it.read = Unread,
           task.op \in SummaryOps => Id(task) \in applied,
           task.op = "AdjustPaymentAmount" => c \in Redeliveries,
           UNCHANGED <<orders, payments, shipments, summary, applied, published>>
    PROVE  Apart'
<1>1. DOMAIN call' = Calls /\ call'[c] = it /\ \A d \in Calls : d # c => call'[d] = call[d]
  BY DEF ShopInv, CallsOK
<1>2. /\ \A d \in Calls : call[d].phase # "running"
      /\ Due = {}
  BY NoneRuns
<1>3. Due' \subseteq {task}
  <2>1. \A d \in Calls : Range(call[d].agenda) = {}
    BY <1>2 DEF Due, DueIn
  <2>2. Range(it.agenda) \subseteq {task}
    BY RangeNone, RangeOne
  <2>3. \A d \in Calls : Range(call'[d].agenda) \subseteq {task}
    BY <1>1, <2>1, <2>2
  <2> QED
    BY <2>3 DEF Due, DueIn, Calls
<1>4. Alone'
  <2> DEFINE begun == {d \in Calls : call[d].phase # "unsent"}
             next  == {d \in Calls : call'[d].phase # "unsent"}
  <2>1. next = begun \cup {c} /\ IsFiniteSet(begun)
    BY <1>1 DEF Apart, Alone
  <2>2. IsFiniteSet(begun \cup {c})
    BY <2>1, FS_AddElement
  <2> HIDE DEF begun
  <2>3. IsFiniteSet(next)
    BY <2>1, <2>2
  <2> QED
    BY <1>1, <1>2, <2>3 DEF Alone, Calls
<1>5. InTurn'
  <2> SUFFICES ASSUME NEW d \in Calls, call'[d].phase = "running"
               PROVE  Line(call'[d].agenda) /\ call'[d].read = Unread
    BY DEF InTurn, Fresh, Task, Calls
  <2>1. call'[d].agenda = <<task>> /\ call'[d].read = Unread
    BY <1>1, <1>2
  <2>2. Line(<<task>>)
    BY DEF Line
  <2> QED
    BY <2>1, <2>2
<1>6. Projected'
  <2>1. \A d \in Calls : NotYet(d)' => NotYet(d)
    BY <1>1 DEF NotYet, Task
  <2> QED
    BY <1>2, <2>1 DEF Apart, Projected, Calls
<1>7. NothingAgain' => NothingAgain /\ c \notin Redeliveries
  BY <1>1 DEF NothingAgain, Calls
<1>8. \A op : ~Owed(op)
  BY <1>2 DEF Owed
<1>9. \A name : Told(name)' <=> Told(name)
  BY DEF Told
<1>10. OrderFollows'
  BY <1>9 DEF Apart, OrderFollows, OrderIs
<1>11. SummaryFollows'
  BY <1>2, <1>3 DEF Apart, SummaryFollows, Says
<1>12. PaymentFollows'
  <2>1. orders # Absent => payments # Absent
    BY <1>2 DEF Apart, PaymentFollows
  <2>2. NothingAgain' => \A t \in Due' : t.op # "AdjustPaymentAmount"
    BY <1>3, <1>7
  <2> QED
    BY <1>7, <1>8, <2>1, <2>2 DEF Apart, PaymentFollows, PaymentIs, OrderIs
<1>13. ParcelFollows'
  BY <1>8, <1>9 DEF Apart, ParcelFollows, ShipmentIs, OrderIs
<1> QED
  BY <1>4, <1>5, <1>6, <1>10, <1>11, <1>12, <1>13 DEF Apart

\* So it is with a request,
LEMMA BeginApart ==
    ASSUME ShopInv, Apart, traffic = 1, NEW c \in Calls, Begin(c)
    PROVE  Apart'
<1> DEFINE task == Asked(c)
           it   == IF Refused(Input[c]) THEN Ended("rejected") ELSE Began(task)
<1>1. /\ c \in Requests /\ call[c].phase = "unsent" /\ MayBegin
      /\ call' = [call EXCEPT ![c] = it]
      /\ UNCHANGED <<orders, payments, shipments, summary, applied, published>>
  BY DEF Begin, Asked, stores
<1>2. /\ it.phase \in {"running", "rejected"}
      /\ it.agenda = <<>> \/ it.agenda = <<task>>
      /\ it.phase = "running" => it.agenda = <<task>> /\ it.read = Unread
  BY DEF Ended, Began
<1>3. task.op \notin SummaryOps /\ task.op # "AdjustPaymentAmount"
  BY <1>1, ShopAssumption DEF Asked, UseCases, SummaryOps
<1> HIDE DEF it, task
<1> QED
  BY <1>1, <1>2, <1>3, BeginsApart

\* and with an event that is delivered again, which the summary has been told of.
LEMMA RedeliverApart ==
    ASSUME ShopInv, Apart, traffic = 1, NEW c \in Calls, Redeliver(c)
    PROVE  Apart'
<1>0. PICK e \in published : \E i \in DOMAIN Listeners(e.name) :
        call' = [call EXCEPT ![c] = Began([op |-> Listeners(e.name)[i], event |-> e])]
  BY DEF Redeliver
<1>1. PICK i \in DOMAIN Listeners(e.name) :
        call' = [call EXCEPT ![c] = Began([op |-> Listeners(e.name)[i], event |-> e])]
  BY <1>0
<1> DEFINE op   == Listeners(e.name)[i]
           task == To(op, e)
           it   == Began(task)
<1>2. /\ c \in Redeliveries /\ call[c].phase = "unsent" /\ MayBegin
      /\ call' = [call EXCEPT ![c] = it]
      /\ UNCHANGED <<orders, payments, shipments, summary, applied, published>>
  BY <1>1 DEF Redeliver, stores, To
<1>3. it.phase = "running" /\ it.agenda = <<task>> /\ it.read = Unread
  BY DEF Began
<1>4. task.op \in SummaryOps => Id(task) \in applied
  <2>1. Due = {}
    BY <1>2, NoneRuns
  <2>2. op \in Range(Listeners(e.name))
    BY DEF Range
  <2>3. task.op = op /\ Id(task) = <<e.name, e.by>>
    BY DEF To, Id
  <2> QED
    BY <2>1, <2>2, <2>3 DEF Apart, Projected
<1> HIDE DEF it, task
<1> QED
  BY <1>2, <1>3, <1>4, BeginsApart

\* Every step keeps it,
LEMMA ApartStep ==
    ASSUME ShopInv, Apart, traffic = 1, NEW c \in Calls,
           \/ Begin(c) \/ Redeliver(c) \/ Load(c) \/ SalesStep(c) \/ PaymentsStep(c)
           \/ ShippingStep(c) \/ AskApplied(c) \/ FindSummary(c) \/ SaveSummary(c)
    PROVE  Apart'
<1>1. CASE Load(c)
  <2>1. /\ Reads(c, Found(Task(c).op)) /\ applied' = applied
        /\ Task(c).op \in SalesOps \cup PaymentsOps \cup ShippingOps
    BY <1>1 DEF Load, Running, Reads, Task, stores
  <2>2. Fresh(Task(c), Found(Task(c).op))
    BY <2>1 DEF Fresh, SalesOps, PaymentsOps, ShippingOps, SummaryOps
  <2> QED
    BY <2>1, <2>2, ReadsApart
<1> QED
  BY <1>1, BeginApart, RedeliverApart, SalesApart, PaymentsApart, ShippingApart,
     AskAppliedApart, FindSummaryApart, SaveSummaryApart

\* and before the first call nothing is owed.
LEMMA ApartStarts ==
    ASSUME Init
    PROVE  Apart
<1> USE DEF Init, Absent
<1>1. \A c \in Calls : call[c].phase = "unsent" /\ call[c].agenda = <<>>
  BY DEF NoCall
<1>2. Due = {}
  BY <1>1, RangeNone DEF Due, DueIn
<1>3. Alone
  <2>1. {c \in Calls : call[c].phase # "unsent"} = {}
    BY <1>1
  <2> QED
    BY <1>1, <2>1, FS_EmptySet DEF Alone
<1>4. InTurn /\ Projected
  BY <1>1 DEF InTurn, Projected
<1>5. OrderFollows /\ SummaryFollows /\ PaymentFollows /\ ParcelFollows
  BY DEF OrderFollows, SummaryFollows, PaymentFollows, ParcelFollows, Told
<1> QED
  BY <1>3, <1>4, <1>5 DEF Apart

\* When requests do not overlap, each thing in which the contexts may differ for a moment is
\* owed by a task that waits.
THEOREM ApartHolds == Spec => []ApartInv
<1>1. Init => ApartInv
  BY ApartStarts DEF ApartInv
<1>2. ShopInv /\ ApartInv /\ [Next]_vars => ApartInv'
  <2> SUFFICES ASSUME ShopInv, ApartInv, [Next]_vars, traffic' = 1 PROVE Apart'
    BY DEF ApartInv
  <2>1. CASE Next
    <3>1. PICK c \in Calls :
            \/ Begin(c) \/ Redeliver(c) \/ Load(c) \/ SalesStep(c) \/ PaymentsStep(c)
            \/ ShippingStep(c) \/ AskApplied(c) \/ FindSummary(c) \/ SaveSummary(c)
      BY <2>1 DEF Next
    <3>2. traffic = 1
      BY <3>1 DEF Begin, Redeliver, Load, SalesStep, PaymentsStep, ShippingStep, AskApplied,
         FindSummary, SaveSummary
    <3> QED
      BY <3>1, <3>2, ApartStep DEF ApartInv
  <2>2. CASE UNCHANGED vars
    <3>1. Apart /\ UNCHANGED <<orders, payments, shipments, summary, applied, published, call>>
      BY <2>2 DEF vars, ApartInv
    <3>2. Alone' /\ InTurn' /\ Projected'
      BY <3>1 DEF Apart, Alone, InTurn, Fresh, Found, Shown, Task, Projected, NotYet, Due, DueIn,
         Calls
    <3>3. Due' = Due /\ (NothingAgain' <=> NothingAgain)
      BY <3>1 DEF Due, DueIn, NothingAgain, Calls
    <3>4. OrderFollows' /\ SummaryFollows' /\ PaymentFollows' /\ ParcelFollows'
      BY <3>1, <3>3 DEF Apart, OrderFollows, SummaryFollows, PaymentFollows, ParcelFollows, Told,
         Owed, Says, Shown, Asks, OrderIs, PaymentIs, ShipmentIs
    <3> QED
      BY <3>2, <3>4 DEF Apart
  <2> QED
    BY <2>1, <2>2
<1> QED
  BY <1>1, <1>2, ShopHolds, PTL DEF Spec

\* So when none runs the contexts agree: the summary tells the truth, the customer is asked for
\* the total of the order, and a cancelled order keeps no money and no parcel.
THEOREM ContextsAgree == Spec => []AgreeWhenApart
<1>1. ShopInv /\ ApartInv => AgreeWhenApart
  <2> SUFFICES ASSUME ShopInv, ApartInv, traffic = 1, Quiet, orders # Absent
               PROVE  /\ summary # Absent /\ summary.status = orders.data.status
                      /\ summary.total = Total(orders.data)
                      /\ NothingAgain /\ PaymentIs({"awaiting_transfer", "captured"}) =>
                           payments.data.amount = Total(orders.data)
                      /\ OrderIs({"cancelled"}) =>
                           /\ ~PaymentIs({"awaiting_transfer", "captured"})
                           /\ ~ShipmentIs({"preparing", "dispatched", "delivered"})
    BY DEF AgreeWhenApart
  <2>1. Apart /\ Due = {}
    BY DueNone DEF ApartInv, Quiet, ShopInv
  <2>2. \A op : ~Owed(op)
    BY <2>1 DEF Owed
  <2>3. summary # Absent /\ Says(summary)
    BY <2>1 DEF Apart, SummaryFollows
  <2>4. /\ NothingAgain /\ PaymentIs({"awaiting_transfer", "captured"}) =>
             payments.data.amount = Total(orders.data)
        /\ OrderIs({"cancelled"}) => ~PaymentIs({"awaiting_transfer", "captured"})
    BY <2>1, <2>2 DEF Apart, PaymentFollows, PaymentIs
  <2>5. OrderIs({"cancelled"}) => ~ShipmentIs({"preparing", "dispatched", "delivered"})
    BY <2>1, <2>2 DEF Apart, ParcelFollows, ShipmentIs, OrderIs
  <2> QED
    BY <2>3, <2>4, <2>5 DEF Says
<1> QED
  BY <1>1, ShopHolds, ApartHolds, PTL
===============================================================================
