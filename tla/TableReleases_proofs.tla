------------------------- MODULE TableReleases_proofs --------------------------
(***************************************************************************)
(* Proofs about TableReleases: for any set of releases and any store found *)
(* in the browser, the releases that share a table do not fight over it.   *)
(***************************************************************************)
EXTENDS TableReleases, TableSchema_proofs

SettledInv ==
    /\ TypeOK
    /\ \A table \in open : UpToDate(table, store)

-------------------------------------------------------------------------------
LEMMA InitSettledInv == Init => SettledInv
BY ReleasesAssumption DEF Init, SettledInv, TypeOK

LEMMA NextSettledInv == SettledInv /\ [Next]_vars => SettledInv'
<1> SUFFICES ASSUME SettledInv, [Next]_vars
             PROVE  SettledInv'
  OBVIOUS
<1> USE DEF SettledInv
<1>1. ASSUME NEW table \in Releases, Open(table)
      PROVE  SettledInv'
  <2>1. table \in Definitions /\ store \in Stores \cup {NoStore} /\ ~Mismatch(table, store)
    BY <1>1, ReleasesAssumption DEF TypeOK, Open
  <2>2. /\ store' \in Stores
        /\ UpToDate(table, store')
        /\ store'.recorded = table.version \/ store' = store
    BY <1>1, <2>1, UpgradeServes DEF Open
  <2>3. TypeOK'
    BY <1>1, <2>2 DEF TypeOK, Open, Versions
  <2>4. ASSUME NEW other \in open
        PROVE  UpToDate(other, store')
    <3>1. store \in Stores /\ UpToDate(other, store) /\ other \in Definitions
      BY <2>1, <2>4, ReleasesAssumption DEF TypeOK, UpToDate
    <3> QED BY <1>1, <2>1, <3>1, UpgradeKeepsServed DEF Open
  <2> QED BY <1>1, <2>2, <2>3, <2>4 DEF Open
<1>2. ASSUME NEW table \in Releases, Insert(table)
      PROVE  SettledInv'
  <2>1. store \in Stores /\ table.version \in Nat
    BY <1>2, ReleasesAssumption DEF TypeOK, UpToDate, Insert, Definitions
  <2>2. /\ store' \in Stores
        /\ store'.keyed = store.keyed
        /\ store'.indexes = store.indexes
        /\ store'.recorded = store.recorded
    <3>1. [shape |-> table.version, stale |-> IsOlder(table, store)] \in Rows
      BY <2>1 DEF Rows, IsOlder
    <3> QED BY <1>2, <2>1, <3>1 DEF Insert, Stores
  <2>3. store # NoStore /\ store' # NoStore
    BY <2>1, <2>2, NoStoreAssumption
  <2> QED BY <1>2, <2>2, <2>3 DEF TypeOK, UpToDate, Insert
<1>3. ASSUME NEW table \in Releases, Leave(table)
      PROVE  SettledInv'
  BY <1>3 DEF Leave, TypeOK
<1>4. CASE Drop
  BY <1>4 DEF Drop, TypeOK
<1>5. CASE UNCHANGED vars
  BY <1>5 DEF vars, TypeOK
<1> QED BY <1>1, <1>2, <1>3, <1>4, <1>5 DEF Next

\* Type correctness, for any releases and any stores found in the browser.
THEOREM TypeCorrect == Spec => []TypeOK
<1>1. SettledInv => TypeOK
  BY DEF SettledInv
<1> QED BY InitSettledInv, NextSettledInv, <1>1, PTL DEF Spec

\* Releases do not fight over a table: a page that has opened it never finds work in
\* it again, whatever releases open it in the meantime.
THEOREM ReleasesSettle == Spec => []Settled
<1>1. SettledInv => Settled
  <2> SUFFICES ASSUME SettledInv, NEW table \in open
               PROVE  store # NoStore /\ ~Mismatch(table, store) /\ ~Pending(table, store)
    BY DEF Settled
  <2>1. table \in Definitions /\ store \in Stores /\ UpToDate(table, store)
    BY ReleasesAssumption DEF SettledInv, TypeOK, UpToDate
  <2> QED BY <2>1, UpToDateIsSettled DEF UpToDate
<1> QED BY InitSettledInv, NextSettledInv, <1>1, PTL DEF Spec

-------------------------------------------------------------------------------
\* The rows of a store are of the version of its data, but for those of older code.
RowsFit(s) == \A row \in s.rows : ~row.stale => row.shape = Current(s)

\* An upgrade brings the rows to the version it records.
LEMMA UpgradeMigrates ==
    ASSUME NEW table \in Definitions, NEW s \in Stores \cup {NoStore},
           s # NoStore => RowsFit(s)
    PROVE  RowsFit(Upgraded(table, s))
<1> DEFINE P == Plan(table, s)
<1>1. table.version \in Nat \ {0}
  BY DEF Definitions
<1>2. CASE s = NoStore
  <2>1. P.create /\ HasWork(P)
    BY <1>2 DEF Plan, CreatePlan, HasWork
  <2>2. Upgraded(table, s) = Created(table, P)
    BY <2>1 DEF Upgraded
  <2> HIDE DEF P
  <2> QED BY <2>2 DEF Created, RowsFit
<1>3. CASE s # NoStore /\ ~HasWork(P)
  BY <1>3 DEF Upgraded
<1>4. CASE s # NoStore /\ HasWork(P)
  <2>1. ~IsOlder(table, s) /\ s \in Stores
    BY <1>4 DEF Plan, HasWork, IdlePlan
  <2>2. P = IF table.version = Current(s) THEN KeepPlan(table, s) ELSE RaisePlan(table, s)
    BY <1>4, <2>1 DEF Plan
  <2>3. ~P.create
    BY <2>2 DEF KeepPlan, RaisePlan
  <2>4. /\ table.version = Current(s) => P.migrateFrom = 0
        /\ table.version # Current(s) => P.migrateFrom = Current(s)
    BY <2>2 DEF KeepPlan, RaisePlan
  <2>5. Upgraded(table, s) = Altered(table, s, P)
    BY <1>4, <2>3 DEF Upgraded
  <2>6. Current(s) # 0 /\ s.rows \subseteq Rows
    BY <2>1 DEF Current, Stores
  <2> HIDE DEF P
  <2>7. Current(Altered(table, s, P)) = table.version
    BY <1>1, <2>1 DEF Altered, Recorded, Current, Stores
  <2>8. CASE table.version = Current(s)
    <3>1. Altered(table, s, P).rows = s.rows
      BY <2>1, <2>4, <2>8 DEF Altered, Stores
    <3> QED BY <1>4, <2>5, <2>7, <2>8, <3>1 DEF RowsFit
  <2>9. CASE table.version # Current(s)
    <3>1. Altered(table, s, P).rows = {Migrated(row, Current(s), table.version) : row \in s.rows}
      BY <2>1, <2>4, <2>6, <2>9 DEF Altered, Stores
    <3>2. ASSUME NEW row \in s.rows, ~Migrated(row, Current(s), table.version).stale
          PROVE  Migrated(row, Current(s), table.version).shape = table.version
      <4>1. row \in Rows
        BY <2>6
      <4>2. ~row.stale
        BY <3>2, <4>1 DEF Migrated, Rows
      <4>3. row.shape = Current(s)
        BY <1>4, <4>2 DEF RowsFit
      <4> QED BY <4>1, <4>3 DEF Migrated, Rows
    <3> QED BY <2>5, <2>7, <3>1, <3>2 DEF RowsFit
  <2> QED BY <2>8, <2>9
<1> QED BY <1>2, <1>3, <1>4

\* The rows of every older version reach the version of the data, whatever releases
\* open the table and write in it, if those that the first of them finds are of the
\* version of their data: they were written for version 1, that no store recorded.
THEOREM RowsAreMigrated ==
    ASSUME \A found \in InitialStores : found # NoStore => RowsFit(found)
    PROVE  Spec => []RowsMigrated
<1>1. Init => RowsMigrated
  BY DEF Init, RowsMigrated, RowsFit
<1>2. SettledInv /\ RowsMigrated /\ [Next]_vars => RowsMigrated'
  <2> SUFFICES ASSUME SettledInv, RowsMigrated, [Next]_vars, store' # NoStore
               PROVE  RowsFit(store')
    BY DEF RowsMigrated, RowsFit
  <2>1. store \in Stores \cup {NoStore} /\ (store # NoStore => RowsFit(store))
    BY DEF SettledInv, TypeOK, RowsMigrated, RowsFit
  <2>2. ASSUME NEW table \in Releases, Open(table)
        PROVE  RowsFit(store')
    BY <2>1, <2>2, UpgradeMigrates, ReleasesAssumption DEF Open
  <2>3. ASSUME NEW table \in Releases, Insert(table)
        PROVE  RowsFit(store')
    <3> DEFINE new == [shape |-> table.version, stale |-> IsOlder(table, store)]
    <3>1. /\ store \in Stores /\ store # NoStore /\ RowsFit(store)
          /\ table.version \in Nat \ {0}
      BY <2>1, <2>3, ReleasesAssumption, NoStoreAssumption
      DEF SettledInv, UpToDate, Insert, Definitions
    <3>2. ~new.stale => new.shape = Current(store)
      <4> SUFFICES ASSUME ~IsOlder(table, store), table.version # Current(store)
                   PROVE  FALSE
        OBVIOUS
      <4>1. Plan(table, store) = RaisePlan(table, store)
        BY <3>1 DEF Plan
      <4> QED BY <2>3, <4>1 DEF Insert, Pending, HasWork, RaisePlan
    <3>3. store'.rows = store.rows \cup {new} /\ Current(store') = Current(store)
      BY <2>3, <3>1 DEF Insert, Stores, Current
    <3> HIDE DEF new
    <3> QED BY <3>1, <3>2, <3>3 DEF RowsFit
  <2>4. CASE UNCHANGED store
    BY <2>1, <2>4
  <2> QED BY <2>2, <2>3, <2>4 DEF Next, Leave, Drop, vars
<1> QED BY InitSettledInv, NextSettledInv, <1>1, <1>2, PTL DEF Spec

-------------------------------------------------------------------------------
\* A release that raises the version leaves its indexes and no others.
LEMMA RaisesExactly ==
    ASSUME NEW table \in Definitions, NEW s \in Stores, s # NoStore, ~Mismatch(table, s),
           table.version > Current(s)
    PROVE  Differences(table, Upgraded(table, s)) = {}
<1> DEFINE P == Plan(table, s)
           I == AppliedIndexes(table, s.indexes, P)
           T == table.indexes
<1>1. s.keyed /\ Current(s) \in Nat /\ table.version \in Nat
  BY DEF Mismatch, Stores, Current, Definitions
<1>2. P = RaisePlan(table, s)
  BY <1>1 DEF Plan, IsOlder
<1>3. /\ HasWork(P) /\ ~P.create
      /\ P.drop = ExtraIndexes(table, s) \cup ChangedIndexes(table, s)
      /\ P.add = MissingIndexes(table, s) \cup ChangedIndexes(table, s)
  BY <1>2 DEF RaisePlan, HasWork
<1>4. Upgraded(table, s) = Altered(table, s, P)
  BY <1>3 DEF Upgraded
<1>5. DOMAIN I = DOMAIN T
  <2>1. DOMAIN I = (DOMAIN s.indexes \ P.drop) \cup P.add
    BY DEF AppliedIndexes
  <2> HIDE DEF P, I
  <2> QED BY <1>3, <2>1 DEF ExtraIndexes, MissingIndexes, ChangedIndexes
<1>6. \A n \in DOMAIN T : I[n] = T[n]
  <2> SUFFICES ASSUME NEW n \in DOMAIN T
               PROVE  I[n] = T[n]
    OBVIOUS
  <2>1. n \in DOMAIN I
    BY <1>5
  <2>2. n \in P.add \/ s.indexes[n] = T[n]
    <3> HIDE DEF P
    <3> QED BY <1>3 DEF MissingIndexes, ChangedIndexes
  <2> HIDE DEF P
  <2> QED BY <2>1, <2>2 DEF AppliedIndexes
<1>7. /\ Upgraded(table, s).keyed
      /\ Upgraded(table, s).indexes = I
      /\ Upgraded(table, s) # NoStore
  <2>1. Altered(table, s, P).keyed /\ Altered(table, s, P).indexes = I
    <3> HIDE DEF P
    <3> QED BY <1>1 DEF Altered, Stores
  <2> HIDE DEF P, I
  <2> QED BY <1>4, <2>1, UpgradeServes DEF UpToDate
<1> HIDE DEF P, I
<1> QED BY <1>5, <1>6, <1>7
        DEF Differences, MissingIndexes, ExtraIndexes, ChangedIndexes

\* A release that is served differs by indexes it does not declare, at most, unless
\* newer code has the data.
LEMMA ServedDiffers ==
    ASSUME NEW table \in Definitions, NEW s \in Stores, UpToDate(table, s)
    PROVE  Differences(table, s) \subseteq {"extra_index"} \/ IsOlder(table, s)
<1>1. /\ s # NoStore /\ s.keyed /\ s.recorded \in Nat /\ table.version \in Nat \ {0}
      /\ table.version <= s.recorded /\ Current(s) = s.recorded
  BY DEF UpToDate, Stores, Definitions, Current
<1>2. CASE table.version = s.recorded
  <2>1. MissingIndexes(table, s) = {} /\ ChangedIndexes(table, s) = {}
    BY <1>2 DEF UpToDate, MissingIndexes, ChangedIndexes
  <2> QED BY <1>1, <2>1 DEF Differences
<1>3. CASE table.version # s.recorded
  BY <1>1, <1>3 DEF IsOlder
<1> QED BY <1>2, <1>3

\* A release that raises the version leaves exactly its indexes, and a page is never
\* shown a difference but indexes that others added, whatever the releases are.
THEOREM RaisesAreExact == Spec => RaisingIsExact
<1>1. SettledInv /\ SettledInv' /\ [Next]_vars =>
        [/\ \A table \in Releases :
              (Open(table) /\ store # NoStore /\ table.version > Current(store))
                  => Differences(table, store') = {}
         /\ \A table \in open' :
              Differences(table, store') \subseteq {"extra_index"}
                  \/ IsOlder(table, store')]_vars
  <2> SUFFICES ASSUME SettledInv, SettledInv'
               PROVE  /\ \A table \in Releases :
                           (Open(table) /\ store # NoStore /\ table.version > Current(store))
                               => Differences(table, store') = {}
                      /\ \A table \in open' :
                           Differences(table, store') \subseteq {"extra_index"}
                               \/ IsOlder(table, store')
    OBVIOUS
  <2>1. ASSUME NEW table \in Releases, Open(table), store # NoStore,
               table.version > Current(store)
        PROVE  Differences(table, store') = {}
    <3>1. table \in Definitions /\ store \in Stores
      BY <2>1, ReleasesAssumption DEF SettledInv, TypeOK
    <3> QED BY <2>1, <3>1, RaisesExactly DEF Open
  <2>2. ASSUME NEW table \in open'
        PROVE  Differences(table, store') \subseteq {"extra_index"} \/ IsOlder(table, store')
    <3>1. table \in Definitions /\ store' \in Stores /\ UpToDate(table, store')
      BY ReleasesAssumption DEF SettledInv, TypeOK, UpToDate
    <3> QED BY <3>1, ServedDiffers
  <2> QED BY <2>1, <2>2
<1> QED BY InitSettledInv, NextSettledInv, <1>1, PTL DEF Spec, RaisingIsExact

\* Code older than the data never changes the table by opening it.
THEOREM OldCodeIsHarmless == Spec => OldCodeChangesNothing
<1>1. ASSUME NEW table \in Releases, Open(table), store # NoStore,
             table.version < Current(store)
      PROVE  store' = store
  <2>1. ~HasWork(Plan(table, store))
    BY <1>1 DEF Plan, IsOlder, IdlePlan, HasWork
  <2> QED BY <1>1, <2>1 DEF Open, Upgraded
<1>2. [Next]_vars =>
        [\A table \in Releases :
           (Open(table) /\ store # NoStore /\ table.version < Current(store))
               => store' = store]_vars
  BY <1>1
<1> QED BY <1>2, PTL DEF Spec, OldCodeChangesNothing
===============================================================================
