------------------------------ MODULE TableSchema ------------------------------
(***************************************************************************)
(* What the upgrade of a database does to one table: IndexedDbSchema of    *)
(* packages/ddd (infrastructure/indexeddb/indexed-db-schema.ts) and the    *)
(* body of the loop of IndexedDbConnections.upgrade.                       *)
(*                                                                         *)
(* A release of the program declares a table with a version and indexes;   *)
(* the browser holds a store with the indexes and rows that the releases   *)
(* before it left.                                                         *)
(***************************************************************************)
EXTENDS Naturals

CONSTANTS
    Names,     \* names of indexes
    Shapes,    \* what an index may be: its key path, unique and multiEntry
    NoStore    \* the database has no store with the name of the table

\* Some names of indexes, each with its shape.
IndexSets == UNION {[some -> Shapes] : some \in SUBSET Names}

\* IndexedDbTableDefinition.  definitionOf refuses a version below 1, and one with
\* a migration missing: a table at version v has the migrations 2 to v.
Definitions == [version : Nat \ {0}, indexes : IndexSets]

\* A row is told by the version of the code whose shape it has, and by whether code
\* older than the data of the table wrote it.  Garbled is the shape a migration
\* makes of a row it was not written for.
Garbled == 0
Rows    == [shape : Nat, stale : BOOLEAN]

\* A store: whether its key is "id" without autoIncrement, its indexes, its rows,
\* and the version recorded for it in the store of the versions (0: none).
Stores == [keyed    : BOOLEAN,
           indexes  : IndexSets,
           recorded : Nat,
           rows     : SUBSET Rows]

ASSUME NoStoreAssumption == NoStore \notin Stores

Current(store) == IF store.recorded = 0 THEN 1 ELSE store.recorded

-------------------------------------------------------------------------------
(* compare: the names that differ between a definition and a store.            *)

MissingIndexes(table, store) == DOMAIN table.indexes \ DOMAIN store.indexes
ExtraIndexes(table, store)   == DOMAIN store.indexes \ DOMAIN table.indexes
ChangedIndexes(table, store) ==
    {n \in DOMAIN table.indexes \cap DOMAIN store.indexes :
        table.indexes[n] # store.indexes[n]}

\* What compare reports, to plan and to the inspector of a database.
Differences(table, store) ==
    IF store = NoStore THEN {"missing_store"}
    ELSE {kind \in {"key_path", "missing_index", "extra_index", "index_definition"} :
            \/ kind = "key_path" /\ ~store.keyed
            \/ kind = "missing_index" /\ MissingIndexes(table, store) # {}
            \/ kind = "extra_index" /\ ExtraIndexes(table, store) # {}
            \/ kind = "index_definition" /\ ChangedIndexes(table, store) # {}}

-------------------------------------------------------------------------------
(* plan.  A table of another key, or an index changed without raising the      *)
(* version, is a schema_mismatch.                                              *)

Mismatch(table, store) ==
    /\ store # NoStore
    /\ \/ ~store.keyed
       \/ table.version = Current(store) /\ ChangedIndexes(table, store) # {}

IdlePlan == [create |-> FALSE, drop |-> {}, add |-> {}, migrateFrom |-> 0,
             record |-> FALSE]

\* The plan when the data are of an older version: the indexes become exactly those
\* declared.  Mutants: the indexes no longer declared stay; those of another shape
\* are not built again.
RaisePlanKeepsExtra(table, store) ==
    [create |-> FALSE, drop |-> ChangedIndexes(table, store),
     add |-> MissingIndexes(table, store) \cup ChangedIndexes(table, store),
     migrateFrom |-> Current(store), record |-> TRUE]

RaisePlanKeepsChanged(table, store) ==
    [create |-> FALSE, drop |-> ExtraIndexes(table, store),
     add |-> MissingIndexes(table, store),
     migrateFrom |-> Current(store), record |-> TRUE]

RaisePlan(table, store) ==
    [create |-> FALSE,
     drop   |-> ExtraIndexes(table, store) \cup ChangedIndexes(table, store),
     add    |-> MissingIndexes(table, store) \cup ChangedIndexes(table, store),
     migrateFrom |-> Current(store),
     record |-> TRUE]

\* Code older than the data leaves the table alone.  Mutant: it does not look.
IsOlderNever(table, store) == FALSE
IsOlder(table, store)      == table.version < Current(store)

\* A new table, and one whose data are of the version of the code.
CreatePlan(table) ==
    [create |-> TRUE, drop |-> {}, add |-> DOMAIN table.indexes,
     migrateFrom |-> 0, record |-> TRUE]
KeepPlan(table, store) ==
    [create |-> FALSE, drop |-> {}, add |-> MissingIndexes(table, store),
     migrateFrom |-> 0, record |-> store.recorded = 0]

Plan(table, store) ==
    IF store = NoStore THEN CreatePlan(table)
    ELSE IF IsOlder(table, store) THEN IdlePlan
    ELSE IF table.version = Current(store) THEN KeepPlan(table, store)
    ELSE RaisePlan(table, store)

HasWork(plan) ==
    \/ plan.create
    \/ plan.drop # {}
    \/ plan.add # {}
    \/ plan.migrateFrom # 0
    \/ plan.record

-------------------------------------------------------------------------------
(* apply, and the migrations of upgrade.                                       *)

\* The indexes after those of the plan are deleted and created.
AppliedIndexes(table, indexes, plan) ==
    [n \in (DOMAIN indexes \ plan.drop) \cup plan.add |->
        IF n \in plan.add THEN table.indexes[n] ELSE indexes[n]]

\* The migrations after version "from", each over every row before the next one:
\* the first makes sense of rows of version "from" only.  Mutant: the migration to
\* "from" runs again.
MigratedAgain(row, from, to) ==
    [row EXCEPT !.shape = IF @ = from - 1 THEN to ELSE Garbled]
Migrated(row, from, to) ==
    [row EXCEPT !.shape = IF @ = from THEN to ELSE Garbled]

\* The version recorded by a plan with work.  Mutant: the one after it.
RecordedPastLast(table) == table.version + 1
Recorded(table)         == table.version

Created(table, plan) ==
    [keyed |-> TRUE, indexes |-> AppliedIndexes(table, <<>>, plan),
     recorded |-> Recorded(table), rows |-> {}]

Altered(table, store, plan) ==
    [store EXCEPT
        !.indexes  = AppliedIndexes(table, store.indexes, plan),
        !.recorded = Recorded(table),
        !.rows     = IF plan.migrateFrom = 0 THEN @
                     ELSE {Migrated(row, plan.migrateFrom, table.version) : row \in @}]

\* One turn of the loop of upgrade, for a table without mismatch.
Upgraded(table, store) ==
    LET plan == Plan(table, store)
    IN  CASE ~HasWork(plan)               -> store
          [] HasWork(plan) /\ plan.create -> Created(table, plan)
          [] OTHER                        -> Altered(table, store, plan)

\* pending: the open has to raise the version of the database.
Pending(table, store) == HasWork(Plan(table, store))
===============================================================================
