---------------------------- MODULE MCTableReleases ----------------------------
(***************************************************************************)
(* Releases of one table for TLC: four versions of its data, the second    *)
(* with three releases that only differ in their indexes.                  *)
(***************************************************************************)
EXTENDS TableReleases, TLC

CONSTANTS byDate, byTag, plain, unique

First   == [version |-> 1, indexes |-> (byDate :> plain)]
Second  == [version |-> 2, indexes |-> (byDate :> unique)]
Added   == [version |-> 2, indexes |-> (byDate :> unique) @@ (byTag :> plain)]
Changed == [version |-> 2, indexes |-> (byTag :> unique)]
Third   == [version |-> 3, indexes |-> (byTag :> unique)]
Fourth  == [version |-> 4, indexes |-> <<>>]

MCReleases == {First, Second, Added, Changed, Third, Fourth}

\* A new browser, a store that other code left without a recorded version, with an
\* index more or with one of another shape, and a store of another key.
OldRow == [shape |-> 1, stale |-> FALSE]
Found(isKeyed, found) ==
    [keyed |-> isKeyed, indexes |-> found, recorded |-> 0, rows |-> {OldRow}]

MCInitialStores ==
    {NoStore, Found(TRUE, byTag :> plain), Found(TRUE, byDate :> unique),
     Found(FALSE, byDate :> plain)}
===============================================================================
