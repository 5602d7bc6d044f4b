------------------------------- MODULE Shipment --------------------------------
(* The Shipment aggregate of the example shop (context shipping), in the       *)
(* manner of the module Order.                                                 *)
EXTENDS Payment

ShipmentStatus == {"preparing", "dispatched", "delivered", "cancelled"}
ShippingRoles  == {"warehouse", "support"}
Carrier        == {"seur", "dhl"}

HomeCountry == "ES"

\* The days until the delivery that is expected.
CarrierFor(address)      == IF address.country = HomeCountry THEN "seur" ELSE "dhl"
ExpectedDelivery(address) == IF address.country = HomeCountry THEN 2 ELSE 5

-------------------------------------------------------------------------------
ShipmentCreated(shipment) ==
    [name |-> "shipment.created",
     body |-> [carrier |-> shipment.carrier, expectedDelivery |-> shipment.expectedDelivery]]
ShipmentDispatched(shipment) ==
    [name |-> "shipment.dispatched",
     body |-> [trackingNumber |-> shipment.trackingNumber, carrier |-> shipment.carrier]]
ShipmentDelivered == [name |-> "shipment.delivered", body |-> [delivered |-> TRUE]]
ShipmentCancelled == [name |-> "shipment.cancelled", body |-> [cancelled |-> TRUE]]

-------------------------------------------------------------------------------
NewShipment(address, contents, giftWrap) ==
    LET shipment == [status |-> "preparing", address |-> address, contents |-> contents,
                     carrier |-> CarrierFor(address),
                     carrierLabel |-> [service |-> IF giftWrap THEN "gift" ELSE "standard",
                                       units |-> Units(contents)],
                     expectedDelivery |-> ExpectedDelivery(address), trackingNumber |-> None]
    IN  IF contents # <<>> THEN Saves(shipment, <<ShipmentCreated(shipment)>>) ELSE Threw

Dispatch(shipment, trackingNumber) ==
    IF shipment.status # "preparing" \/ trackingNumber = None THEN Threw
    ELSE LET dispatched == [shipment EXCEPT !.status = "dispatched",
                                            !.trackingNumber = trackingNumber]
         IN  Saves(dispatched, <<ShipmentDispatched(dispatched)>>)

DeliverShipment(shipment) ==
    IF shipment.status # "dispatched" THEN Threw
    ELSE Saves([shipment EXCEPT !.status = "delivered"], <<ShipmentDelivered>>)

CancelForCancelledOrder(shipment) ==
    IF shipment.status # "preparing" THEN Saves(shipment, <<>>)
    ELSE Saves([shipment EXCEPT !.status = "cancelled"], <<ShipmentCancelled>>)
===============================================================================
