-------------------------- MODULE TableSchema_proofs ---------------------------
(***************************************************************************)
(* Lemmas about the upgrade of a table, for any definition and any store:  *)
(* what a release finds after its upgrade, and that no upgrade of another  *)
(* release takes it back.                                                  *)
(***************************************************************************)
EXTENDS TableSchema, TLAPS

\* What an upgrade leaves to a release, and no upgrade of another one takes back: the
\* data are not older than the release, and at its version every index is there.
UpToDate(table, s) ==
    /\ s # NoStore
    /\ s.keyed
    /\ table.version <= s.recorded
    /\ table.version = s.recorded =>
          \A n \in DOMAIN table.indexes :
              n \in DOMAIN s.indexes /\ s.indexes[n] = table.indexes[n]

\* A release that is up to date has nothing to upgrade, and no mismatch.
LEMMA UpToDateIsSettled ==
    ASSUME NEW table \in Definitions, NEW s \in Stores, UpToDate(table, s)
    PROVE  ~Mismatch(table, s) /\ ~Pending(table, s)
<1>1. s.recorded # 0 /\ Current(s) = s.recorded /\ s # NoStore
  BY DEF UpToDate, Definitions, Stores, Current
<1>2. ~Mismatch(table, s)
  BY <1>1 DEF UpToDate, Mismatch, ChangedIndexes
<1>3. CASE table.version < s.recorded
  <2>1. Plan(table, s) = IdlePlan
    BY <1>1, <1>3 DEF Plan, IsOlder
  <2> QED BY <1>2, <2>1 DEF Pending, HasWork, IdlePlan
<1>4. CASE table.version = s.recorded
  <2>1. MissingIndexes(table, s) = {}
    BY <1>4 DEF UpToDate, MissingIndexes
  <2>2. ~IsOlder(table, s)
    BY <1>1, <1>4 DEF IsOlder, Definitions, Stores
  <2>3. Plan(table, s) = KeepPlan(table, s)
    BY <1>1, <1>4, <2>2 DEF Plan
  <2>4. (s.recorded = 0) = FALSE
    BY <1>1
  <2>5. Plan(table, s) = IdlePlan
    BY <2>1, <2>3, <2>4, Zenon DEF KeepPlan, IdlePlan
  <2> QED BY <1>2, <2>5 DEF Pending, HasWork, IdlePlan
<1> QED BY <1>3, <1>4 DEF UpToDate, Definitions, Stores

LEMMA IndexSetsDef ==
    ASSUME NEW some \in SUBSET Names, NEW f \in [some -> Shapes]
    PROVE  f \in IndexSets
BY DEF IndexSets

LEMMA IndexSetsElim ==
    ASSUME NEW f \in IndexSets
    PROVE  /\ DOMAIN f \subseteq Names
           /\ f = [n \in DOMAIN f |-> f[n]]
           /\ \A n \in DOMAIN f : f[n] \in Shapes
BY DEF IndexSets

\* The indexes after a plan that only adds declared ones are index sets.
LEMMA AppliedTyped ==
    ASSUME NEW table \in Definitions, NEW indexes, DOMAIN indexes \subseteq Names,
           \A n \in DOMAIN indexes : indexes[n] \in Shapes,
           NEW plan, plan.add \subseteq DOMAIN table.indexes
    PROVE  AppliedIndexes(table, indexes, plan) \in IndexSets
<1> DEFINE D == (DOMAIN indexes \ plan.drop) \cup plan.add
<1>1. table.indexes \in IndexSets
  BY DEF Definitions
<1>2. D \in SUBSET Names
  BY <1>1, IndexSetsElim
<1>3. \A n \in D : (IF n \in plan.add THEN table.indexes[n] ELSE indexes[n]) \in Shapes
  BY <1>1, IndexSetsElim
<1>4. AppliedIndexes(table, indexes, plan) \in [D -> Shapes]
  BY <1>3 DEF AppliedIndexes
<1> HIDE DEF D
<1> QED BY <1>2, <1>4, IndexSetsDef

\* A release whose upgrade commits is up to date with what the upgrade leaves.
LEMMA UpgradeServes ==
    ASSUME NEW table \in Definitions, NEW s \in Stores \cup {NoStore},
           ~Mismatch(table, s)
    PROVE  /\ Upgraded(table, s) \in Stores
           /\ UpToDate(table, Upgraded(table, s))
           /\ \/ Upgraded(table, s).recorded = table.version
              \/ Upgraded(table, s) = s
<1> DEFINE T == table.indexes
<1>1. /\ table.version \in Nat \ {0}
      /\ DOMAIN T \subseteq Names
      /\ \A n \in DOMAIN T : T[n] \in Shapes
      /\ T \in IndexSets
  BY IndexSetsElim DEF Definitions
<1>2. CASE s = NoStore
  <2> DEFINE P == CreatePlan(table)
             I == AppliedIndexes(table, <<>>, P)
  <2>1. Plan(table, s) = P /\ HasWork(P) /\ P.create /\ P.add = DOMAIN T /\ P.drop = {}
    BY <1>2 DEF Plan, CreatePlan, HasWork
  <2>2. Upgraded(table, s) = Created(table, P)
    BY <2>1 DEF Upgraded
  <2>3. I \in IndexSets
    <3>1. DOMAIN <<>> = {}
      OBVIOUS
    <3> HIDE DEF P
    <3> QED BY <2>1, <3>1, AppliedTyped
  <2>4. I = T
    <3>1. I = [n \in DOMAIN T |-> T[n]]
      BY <2>1 DEF AppliedIndexes
    <3> QED BY <1>1, <3>1, IndexSetsElim
  <2>5. Created(table, P) = [keyed |-> TRUE, indexes |-> T, recorded |-> table.version,
                             rows |-> {}]
    BY <2>4 DEF Created, Recorded
  <2>6. Created(table, P) \in Stores
    BY <1>1, <2>5 DEF Stores
  <2> HIDE DEF P, I
  <2>7. /\ Created(table, P) # NoStore
        /\ Created(table, P).keyed
        /\ Created(table, P).indexes = T
        /\ Created(table, P).recorded = table.version
    <3>1. Created(table, P) # NoStore
      BY <2>6, NoStoreAssumption
    <3>2. Created(table, P).keyed
      BY <2>5
    <3>3. Created(table, P).indexes = T
      BY <2>5
    <3>4. Created(table, P).recorded = table.version
      BY <2>5
    <3> QED BY <3>1, <3>2, <3>3, <3>4
  <2> QED BY <1>1, <2>2, <2>6, <2>7 DEF UpToDate
<1>3. CASE s # NoStore
  <2> DEFINE P == Plan(table, s)
  <2>0. s \in Stores /\ s.keyed /\ s.recorded \in Nat /\ s.indexes \in IndexSets
    BY <1>3 DEF Mismatch, Stores
  <2>1. /\ P.add \subseteq DOMAIN T
        /\ ~P.create
    BY <1>3 DEF Plan, RaisePlan, KeepPlan, IdlePlan, MissingIndexes, ChangedIndexes
  <2>2. P.add \subseteq DOMAIN T => AppliedIndexes(table, s.indexes, P) \in IndexSets
    BY <2>0, IndexSetsElim, AppliedTyped
  <2>3. CASE ~HasWork(P)
    <3>1. Upgraded(table, s) = s
      BY <2>3 DEF Upgraded
    <3>2. CASE IsOlder(table, s)
      BY <1>1, <1>3, <2>0, <3>1, <3>2 DEF IsOlder, Current, UpToDate
    <3>3. CASE ~IsOlder(table, s) /\ table.version = Current(s)
      <4>1. P = KeepPlan(table, s)
        BY <1>3, <3>3 DEF Plan
      <4>2. P.add = MissingIndexes(table, s) /\ P.record = (s.recorded = 0)
        BY <4>1 DEF KeepPlan
      <4>3. MissingIndexes(table, s) = {} /\ s.recorded # 0
        BY <2>3, <4>2 DEF HasWork
      <4>4. ChangedIndexes(table, s) = {}
        BY <1>3, <3>3 DEF Mismatch
      <4>5. table.version = s.recorded
        BY <3>3, <4>3 DEF Current
      <4> HIDE DEF P
      <4> QED
        BY <1>3, <2>0, <3>1, <4>3, <4>4, <4>5 DEF UpToDate, MissingIndexes, ChangedIndexes
    <3>4. CASE ~IsOlder(table, s) /\ table.version # Current(s)
      <4>1. P.migrateFrom = Current(s)
        BY <1>3, <3>4 DEF Plan, RaisePlan
      <4> QED BY <2>0, <2>3, <4>1 DEF HasWork, Current
    <3> QED BY <2>0, <3>1, <3>2, <3>3, <3>4
  <2>4. CASE HasWork(P)
    <3>1. Upgraded(table, s) = Altered(table, s, P)
      BY <2>1, <2>4 DEF Upgraded
    <3>2. ~IsOlder(table, s)
      BY <1>3, <2>4 DEF Plan, HasWork, IdlePlan
    <3> DEFINE I == AppliedIndexes(table, s.indexes, P)
    <3>3. /\ Altered(table, s, P).keyed
          /\ Altered(table, s, P).indexes = I
          /\ Altered(table, s, P).recorded = table.version
          /\ Altered(table, s, P) \in Stores
      <4>1. \A row \in Rows : Migrated(row, P.migrateFrom, table.version) \in Rows
        BY <1>1 DEF Migrated, Rows, Garbled
      <4>2. s.rows \in SUBSET Rows
        BY <2>0 DEF Stores
      <4>3. I \in IndexSets
        BY <2>1, <2>2
      <4> HIDE DEF P, I
      <4> QED BY <1>1, <2>0, <4>1, <4>2, <4>3 DEF Altered, Recorded, Stores, I
    <3>4. \A n \in DOMAIN T : n \in DOMAIN I /\ I[n] = T[n]
      <4> SUFFICES ASSUME NEW n \in DOMAIN T
                   PROVE  n \in DOMAIN I /\ I[n] = T[n]
        OBVIOUS
      <4>1. n \in P.add \/ (n \in DOMAIN s.indexes /\ n \notin P.drop
                              /\ s.indexes[n] = T[n])
        <5>1. CASE table.version = Current(s)
          BY <1>3, <3>2, <5>1
          DEF Plan, KeepPlan, MissingIndexes, ChangedIndexes, Mismatch
        <5>2. CASE table.version # Current(s)
          BY <1>3, <3>2, <5>2
          DEF Plan, RaisePlan, MissingIndexes, ChangedIndexes, ExtraIndexes
        <5> QED BY <5>1, <5>2
      <4> HIDE DEF P
      <4> QED BY <4>1 DEF AppliedIndexes
    <3> HIDE DEF I, P
    <3>5. Altered(table, s, P) # NoStore
      BY <3>3, NoStoreAssumption
    <3> QED BY <1>1, <3>1, <3>3, <3>4, <3>5 DEF UpToDate
  <2> QED BY <2>3, <2>4
<1> QED BY <1>2, <1>3

\* An upgrade takes nothing back from a release that is up to date.
LEMMA UpgradeKeepsServed ==
    ASSUME NEW table \in Definitions, NEW other \in Definitions, NEW s \in Stores,
           ~Mismatch(table, s), UpToDate(other, s)
    PROVE  UpToDate(other, Upgraded(table, s))
<1> DEFINE P == Plan(table, s)
           I == AppliedIndexes(table, s.indexes, P)
<1>1. /\ table.version \in Nat \ {0} /\ other.version \in Nat \ {0}
      /\ s.recorded \in Nat /\ s # NoStore
      /\ s.recorded # 0
      /\ Current(s) = s.recorded
  BY DEF Definitions, Stores, UpToDate, Current
<1>2. CASE ~HasWork(P)
  BY <1>2 DEF Upgraded
<1>3. CASE HasWork(P)
  <2>1. ~IsOlder(table, s)
    BY <1>1, <1>3 DEF Plan, HasWork, IdlePlan
  <2>2. ~P.create
    BY <1>1, <2>1 DEF Plan, KeepPlan, RaisePlan
  <2>3. Upgraded(table, s) = Altered(table, s, P)
    BY <1>3, <2>2 DEF Upgraded
  <2>4. /\ Altered(table, s, P).keyed
        /\ Altered(table, s, P).indexes = I
        /\ Altered(table, s, P).recorded = table.version
    <3> HIDE DEF P
    <3> QED BY DEF Altered, Recorded, Stores, UpToDate
  <2>5. Altered(table, s, P) # NoStore
    BY <2>3, UpgradeServes DEF UpToDate
  <2>6. CASE table.version = s.recorded
    <3>1. P.drop = {} /\ P.add = MissingIndexes(table, s)
      BY <1>1, <2>1, <2>6 DEF Plan, KeepPlan
    <3> HIDE DEF P
    <3>2. \A n \in DOMAIN s.indexes : n \in DOMAIN I /\ I[n] = s.indexes[n]
      BY <3>1 DEF AppliedIndexes, MissingIndexes
    <3> HIDE DEF I
    <3> QED BY <2>3, <2>4, <2>5, <2>6, <3>2 DEF UpToDate
  <2>7. CASE table.version # s.recorded
    <3>1. other.version < table.version
      BY <1>1, <2>1, <2>7 DEF IsOlder, UpToDate
    <3> HIDE DEF P, I
    <3> QED BY <1>1, <2>3, <2>4, <2>5, <3>1 DEF UpToDate
  <2> QED BY <2>6, <2>7
<1> QED BY <1>2, <1>3

\* An upgrade with work to do changes the store.
LEMMA PendingChanges ==
    ASSUME NEW table \in Definitions, NEW s \in Stores \cup {NoStore},
           ~Mismatch(table, s), Pending(table, s)
    PROVE  Upgraded(table, s) # s
<1> SUFFICES ASSUME Upgraded(table, s) = s PROVE FALSE
  OBVIOUS
<1>1. s \in Stores /\ UpToDate(table, s)
  BY UpgradeServes
<1> QED BY <1>1, UpToDateIsSettled
===============================================================================
