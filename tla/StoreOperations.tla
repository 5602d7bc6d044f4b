-------------------------- MODULE StoreOperations --------------------------
(***************************************************************************)
(* The queries of IndexedDbTable (indexed-db-query.ts,                      *)
(* indexed-db-store-operations.ts): a plan walks the rows of a store, or    *)
(* the entries of one of its indexes, from where the last page ended.       *)
(*                                                                          *)
(* A row has an id, the keys an index files it under (none, one, or several *)
(* when the index is multiEntry) and whether the filter of the query keeps  *)
(* it. A position is <<key, id>>, as the cursor of the browser reports it.  *)
(***************************************************************************)
EXTENDS Integers, Sequences, FiniteSets, SequencesExt

CONSTANTS Ids,        \* ids of rows, which the browser orders
          Keys,       \* keys of the index
          Absent,     \* a table has no row with this id
          None        \* null

(* IndexedDbCursorToken: where a page ended, in which index and direction. *)
Tokens == [at : Nat \X Nat, index : BOOLEAN, forward : BOOLEAN, unique : BOOLEAN]

ASSUME KeysAssumption ==
  /\ Ids \subseteq Nat \ {0} /\ IsFiniteSet(Ids)
  /\ Keys \subseteq Nat \ {0} /\ IsFiniteSet(Keys)
  /\ None \notin Nat \cup (Nat \X Nat) \cup Tokens

Rows == [keys : SUBSET Keys, kept : BOOLEAN]
Tables == [Ids -> Rows \cup {Absent}]

Present(t) == {i \in Ids : t[i] # Absent}

(* More than the entries of any index: limit: null. *)
Unlimited == Cardinality(Ids) * (Cardinality(Keys) + 1) + 1

(* A query that has read nothing yet: limit, offset and range of indexed-db-query.ts. *)
Ranges == [lower : Nat \cup {None}, lowerOpen : BOOLEAN,
           upper : Nat \cup {None}, upperOpen : BOOLEAN]
Queries == [index : BOOLEAN, forward : BOOLEAN, unique : BOOLEAN, filtered : BOOLEAN,
            offset : Nat, limit : 0..Unlimited, range : Ranges, after : {None}]

(* The positions a source holds: the index, or the store itself. *)
Positions(t, index) ==
  IF index THEN UNION {{<<k, i>> : k \in t[i].keys} : i \in Present(t)}
           ELSE {<<i, i>> : i \in Present(t)}

(* A range may have no lower, or no upper, bound. *)
Within(range, key) ==
  /\ \/ range.lower = None
     \/ key > range.lower
     \/ key = range.lower /\ ~range.lowerOpen
  /\ \/ range.upper = None
     \/ key < range.upper
     \/ key = range.upper /\ ~range.upperOpen

Before(plan, p, q) ==
  LET ahead == p[1] < q[1] \/ (p[1] = q[1] /\ p[2] < q[2])
  IN  IF plan.forward THEN ahead ELSE ~ahead /\ p # q

(* In a unique direction a cursor stops at the lowest id of each key. *)
Visits(t, plan, range) ==
  LET inside == {p \in Positions(t, plan.index) : Within(range, p[1])}
  IN  IF plan.unique
      THEN {p \in inside : \A q \in inside : q[1] = p[1] => p[2] <= q[2]}
      ELSE inside

Chosen(t, plan, range) ==
  {p \in Visits(t, plan, range) : plan.filtered => t[p[2]].kept}

InOrder(plan, positions) ==
  [n \in 1..Cardinality(positions) |->
     CHOOSE p \in positions :
       Cardinality({q \in positions : Before(plan, q, p)}) = n - 1]

(* The range that starts at the key of the last position. *)
ResumeRange(plan, from) ==
  LET open == ~plan.index \/ plan.unique
  IN  IF plan.forward
      THEN [plan.range EXCEPT !.lower = from[1], !.lowerOpen = open]
      ELSE [plan.range EXCEPT !.upper = from[1], !.upperOpen = open]

(* A page starts at the position it ended at. *)
IsPastOrAt(plan, p, from) ==
  IF plan.index /\ ~plan.unique
  THEN ~Before(plan, p, from)
  ELSE IF plan.forward THEN p[1] > from[1] ELSE p[1] < from[1]

(* A page starts after every entry with the key it ended at. *)
IsPastKey(plan, p, from) ==
  IF plan.forward THEN p[1] > from[1] ELSE p[1] < from[1]

(* orderAgainst(...) > 0: the cursor is past the last position. *)
IsPast(plan, p, from) ==
  IF plan.index /\ ~plan.unique
  THEN Before(plan, from, p)
  ELSE IF plan.forward THEN p[1] > from[1] ELSE p[1] < from[1]

(* What a scan finds from the last position on. *)
Ahead(t, plan) ==
  IF plan.after = None THEN Chosen(t, plan, plan.range)
  ELSE {p \in Chosen(t, plan, ResumeRange(plan, plan.after)) :
          IsPast(plan, p, plan.after)}

(* items.slice(0, most) *)
UpTo(items, most) == SubSeq(items, 1, IF most < Len(items) THEN most ELSE Len(items))

Scan(t, plan, lookAhead) ==
  LET found == InOrder(plan, Ahead(t, plan))
      rest  == SubSeq(found, plan.offset + 1, Len(found))
      items == UpTo(rest, plan.limit)
  IN  [items |-> items,
       last  |-> IF items = <<>> THEN None ELSE Last(items),
       more  |-> lookAhead /\ plan.limit > 0 /\ Len(rest) > plan.limit]

ReadsInOrder(plan) ==
  /\ plan.after = None /\ plan.offset = 0
  /\ plan.forward /\ ~plan.unique /\ ~plan.filtered /\ plan.limit > 0

(* getAll returns up to "most" rows of the range, in the order of the source. *)
GetAll(t, plan, most) ==
  UpTo(InOrder(plan, Visits(t, plan, plan.range)), most)

(* rows: one getAll when the order of the source is the order of the plan. *)
RowsOf(t, plan, lookAhead) ==
  LET unbounded == plan.limit = Unlimited
      wanted == IF lookAhead /\ ~unbounded THEN plan.limit + 1 ELSE plan.limit
      found == GetAll(t, plan, wanted)
      items == UpTo(found, plan.limit)
      more  == Len(found) > Len(items)
  IN  IF ReadsInOrder(plan) /\ (unbounded \/ ~lookAhead \/ ~plan.index)
      THEN [items |-> items, more |-> more,
            last |-> IF more THEN <<Last(items)[2], Last(items)[2]>> ELSE None]
      ELSE Scan(t, plan, lookAhead)

(* count asks the browser for the entries of a range in every direction. *)
CountEntries(t, plan) ==
  Cardinality({p \in Positions(t, plan.index) :
                 /\ Within(plan.range, p[1])
                 /\ plan.filtered => t[p[2]].kept})

(* count ignores where a page starts and ends. *)
Count(t, plan) == Cardinality(Chosen(t, plan, plan.range))

(* The token of a page: where it ended, in which index and direction. *)
TokenOf(plan, position) ==
  [at |-> position, index |-> plan.index,
   forward |-> plan.forward, unique |-> plan.unique]

(* Only the index is looked at. *)
ContinuesIndex(query, token) == token.index = query.index

(* Whether decode takes a token: one of the same index and direction. *)
Continues(query, token) ==
  /\ token.index = query.index
  /\ token.forward = query.forward /\ token.unique = query.unique

(* IndexedDbQueryPlan.of: the plan of a query, whose after is a token. *)
PlanOf(query) ==
  IF query.after = None THEN query
  ELSE IF Continues(query, query.after)
       THEN [query EXCEPT !.after = query.after.at] ELSE None

(* find: one page, how many there are in all, and where the next one starts. *)
Find(t, plan) ==
  LET slice == RowsOf(t, plan, TRUE)
  IN  [items |-> slice.items, total |-> Count(t, plan),
       next |-> IF slice.more THEN TokenOf(plan, slice.last) ELSE None]

FindOne(t, plan) ==
  LET slice == RowsOf(t, [plan EXCEPT !.limit = 1], FALSE)
  IN  IF slice.items = <<>> THEN None ELSE slice.items[1]

(* The keys of an index, read where ids are wanted. *)
KeysOf(t, plan) ==
  LET items == IF ReadsInOrder(plan) THEN GetAll(t, plan, plan.limit)
                                     ELSE Scan(t, plan, FALSE).items
  IN  [n \in DOMAIN items |-> items[n][1]]

(* ids: one getAllKeys where the order of the source is that of the plan. *)
IdsOf(t, plan) ==
  LET items == IF ReadsInOrder(plan) THEN GetAll(t, plan, plan.limit)
                                     ELSE Scan(t, plan, FALSE).items
  IN  [n \in DOMAIN items |-> items[n][2]]

(* The first and the last key of a source (edges of the inspector). *)
Edges(t, index) ==
  LET keys == {p[1] : p \in Positions(t, index)}
  IN  IF keys = {} THEN [first |-> None, last |-> None]
      ELSE [first |-> Min(keys), last |-> Max(keys)]

(* storeStatistics: the distinct keys are the stops of a unique cursor. *)
StoreStatistics(t, plan) ==
  [records |-> Cardinality(Present(t)), edges |-> Edges(t, FALSE),
   index   |-> [entries |-> Cardinality(Positions(t, TRUE)),
                edges   |-> Edges(t, TRUE),
                distinctKeys |->
                  Cardinality(Visits(t, [plan EXCEPT !.index = TRUE,
                                           !.forward = TRUE, !.unique = TRUE],
                                     [lower |-> None, upper |-> None]))]]

(* sample: the first rows of the store, by getAll. *)
Sample(t, plan, limit) ==
  GetAll(t, [plan EXCEPT !.index = FALSE, !.forward = TRUE, !.unique = FALSE,
               !.range = [lower |-> None, upper |-> None]], limit)

(* deleteWhere skips the offset again after every row it deletes. *)
DeleteNextSkipping(plan, done, n) ==
  LET slice == Scan(done.table, [plan EXCEPT !.after = done.after,
                                   !.limit = 1], FALSE)
  IN  IF done.count = plan.limit \/ slice.items = <<>> THEN done
      ELSE [table |-> [done.table EXCEPT ![slice.last[2]] = Absent],
            after |-> slice.last, offset |-> plan.offset,
            count |-> done.count + 1]

(* deleteWhere: the cursor deletes the row it stands on and goes on in what *)
(* is left, so a row is met once, whatever the number of its entries.       *)
DeleteNext(plan, done, n) ==
  LET slice == Scan(done.table, [plan EXCEPT !.after = done.after,
                                   !.offset = done.offset, !.limit = 1], FALSE)
  IN  IF done.count = plan.limit \/ slice.items = <<>> THEN done
      ELSE [table |-> [done.table EXCEPT ![slice.last[2]] = Absent],
            after |-> slice.last, offset |-> 0, count |-> done.count + 1]

DeleteWhere(t, plan) ==
  LET begun == [table |-> t, after |-> plan.after, offset |-> plan.offset, count |-> 0]
      done[n \in 0..Unlimited] ==
        IF n = 0 THEN begun ELSE DeleteNext(plan, done[n - 1], n)
  IN  done[Unlimited]

=============================================================================
