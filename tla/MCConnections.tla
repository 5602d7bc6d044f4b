---------------------------- MODULE MCConnections -----------------------------
(***************************************************************************)
(* Two tabs with different releases for TLC.  The names of the tables and  *)
(* of the calls are model values.                                          *)
(***************************************************************************)
EXTENDS Connections, TLC

CONSTANTS left, right, orders, items, c1, c2, c3, byDate, plain, unique

At(v) == [version |-> v, indexes |-> <<>>]

\* left has the older orders and the newer items, which it declares later.
TwoTables ==
    left  :> (orders :> At(1) @@ items :> At(2)) @@
    right :> (orders :> At(2) @@ items :> At(1))
LateItems == left :> {orders} @@ right :> {orders, items}
CallTab   == c1 :> left   @@ c2 :> left  @@ c3 :> right
CallTable == c1 :> orders @@ c2 :> items @@ c3 :> orders

\* right has the newer orders, and indexes the items differently without raising
\* their version.
Clash ==
    left  :> (orders :> At(1) @@ items :> [version |-> 1, indexes |-> byDate :> plain]) @@
    right :> (orders :> At(2) @@ items :> [version |-> 1, indexes |-> byDate :> unique])

\* Two tables of left, which the code of right does not have and may drop.
OnlyLeft   == left :> {orders} @@ right :> {}
TwoCalls   == c1 :> left @@ c2 :> left
BothTables == c1 :> orders @@ c2 :> items

\* left calls its two tables, right calls one.
OneEach    == c2 :> left @@ c3 :> right
OneOfEach  == c2 :> items @@ c3 :> orders
===============================================================================
