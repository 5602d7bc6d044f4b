---------------------------- MODULE MCEventChannel ----------------------------
(* A consumer that may close and receive again, and others beside it, for TLC. *)
EXTENDS EventChannel, TLC

CONSTANTS placed, stock, mail, l1, l2, l3, s1, s2

At(name, consumer) == [name |-> name, consumer |-> consumer]

MCReceivers == l1 :> At(placed, stock) @@ l2 :> At(placed, stock) @@ l3 :> At(placed, mail)

MCBatchOf == s1 :> <<placed, placed>> @@ s2 :> <<placed>>
===============================================================================
