----------------------------- MODULE TableReleases -----------------------------
(***************************************************************************)
(* One table through the releases of a program.  Pages of several releases *)
(* are open at once (an old tab); each open of the database upgrades the   *)
(* table to what its release declares (TableSchema), in any order; between *)
(* upgrades the pages write rows.                                          *)
(***************************************************************************)
EXTENDS TableSchema

CONSTANTS
    Releases,       \* the definitions of the table in the releases
    InitialStores   \* what the browser may hold before any of them

\* The versions that may be recorded for the table.
Versions == {0} \cup {table.version : table \in Releases}

ASSUME ReleasesAssumption ==
    /\ Releases \subseteq Definitions
    /\ InitialStores \subseteq {found \in Stores : found.recorded \in Versions}
                                \cup {NoStore}

VARIABLES
    store,      \* the store of the table, or NoStore
    open        \* the releases with a page that has opened the table

vars == <<store, open>>

Init == store \in InitialStores /\ open = {}

\* A page opens the database, and its upgrade commits.  The other pages close their
\* connection and open it again by themselves.
Open(table) ==
    /\ ~Mismatch(table, store)
    /\ store' = Upgraded(table, store)
    /\ open' = open \cup {table}

\* A write verifies the table on its connection first.
Insert(table) ==
    /\ table \in open
    /\ ~Mismatch(table, store)
    /\ ~Pending(table, store)
    /\ store' = [store EXCEPT !.rows = @ \cup
                    {[shape |-> table.version, stale |-> IsOlder(table, store)]}]
    /\ UNCHANGED open

\* The last page of a release goes away.
Leave(table) ==
    /\ table \in open
    /\ open' = open \ {table}
    /\ UNCHANGED store

\* drop, from a page whose code does not declare the table: the store and its
\* recorded version go, and every page has to open the table anew.
Drop ==
    /\ store # NoStore
    /\ store' = NoStore
    /\ open' = {}

Next ==
    \/ \E table \in Releases : Open(table) \/ Insert(table) \/ Leave(table)
    \/ Drop

Spec == Init /\ [][Next]_vars

-------------------------------------------------------------------------------
\* The version recorded for the table is one that a release declares, or none.
TypeOK ==
    /\ store \in Stores \cup {NoStore}
    /\ store # NoStore => store.recorded \in Versions
    /\ open \subseteq Releases

\* Releases do not fight: whatever the others did since, a page that has opened the
\* table finds nothing to upgrade in it and no mismatch when it opens it again, so
\* the database never rises its version back and forth between two tabs.
Settled ==
    open # {} =>
        /\ store # NoStore
        /\ \A table \in open : ~Mismatch(table, store) /\ ~Pending(table, store)

\* A release that raises the version of the data leaves exactly its indexes: the
\* inspector then finds no difference; and a page that has the table open is never
\* shown one but the indexes that other releases of its version added, unless newer
\* code has the data.
RaisingIsExact ==
    [][/\ \A table \in Releases :
            (Open(table) /\ store # NoStore /\ table.version > Current(store))
                => Differences(table, store') = {}
       /\ \A table \in open' :
            Differences(table, store') \subseteq {"extra_index"}
                \/ IsOlder(table, store')]_vars

\* Code older than the data never changes the table by opening it.
OldCodeChangesNothing ==
    [][\A table \in Releases :
        (Open(table) /\ store # NoStore /\ table.version < Current(store))
            => store' = store]_vars

\* The rows of any older version reach the version of the data, except those that
\* code older than the data wrote.
RowsMigrated ==
    store # NoStore =>
        \A row \in store.rows : ~row.stale => row.shape = Current(store)
===============================================================================
