----------------------------- MODULE PlanQuery -----------------------------
(***************************************************************************)
(* The IndexedDB adapter of a criteria (criteria-adapters,                  *)
(* indexeddb/plan-query.ts, indexed-db-query.ts): one condition every match *)
(* must meet becomes the key range of an index, whose order may also be the *)
(* order asked for.                                                         *)
(***************************************************************************)
EXTENDS FilterNodes

Unbounded == Value("unbounded", 0)

(* FROM_D800: IndexedDB orders texts by code unit, a criteria by code point *)
OrdersLikeCriteria(v) ==
  v.kind # "text" \/ \A n \in DOMAIN v.at : v.at[n] < Surrogates

(* The text after every text with a prefix; null (an empty text) for none.  *)
NextPrefix(prefix) ==
  IF prefix = <<>> \/ Last(prefix) = LastUnit THEN <<>>
  ELSE [prefix EXCEPT ![Len(prefix)] = @ + 1]

NoCandidate == [field |-> <<>>, rank |-> 9]

Candidate(field, rank, lower, upper, lowerOpen, upperOpen) ==
  [field |-> field, rank |-> rank, lower |-> lower, upper |-> upper,
   lowerOpen |-> lowerOpen, upperOpen |-> upperOpen]

CompareCandidate(node) ==
  LET v == node.value
      o == node.operator
  IN  CASE o = "ne" \/ ~IsRangeValue(v) -> NoCandidate
        [] o = "eq" -> Candidate(node.field, 0, v, v, FALSE, FALSE)
        [] ~OrdersLikeCriteria(v) -> NoCandidate
        [] o \in {"gt", "gte"} ->
             Candidate(node.field, 2, v, Unbounded, o = "gt", FALSE)
        [] OTHER -> Candidate(node.field, 2, Unbounded, v, FALSE, o = "lt")

CandidateOf(node) ==
  CASE node.kind = "compare" -> CompareCandidate(node)
    [] node.kind = "between" ->
         IF OrdersLikeCriteria(node.min) /\ OrdersLikeCriteria(node.max)
         THEN Candidate(node.field, 1, node.min, node.max, FALSE, FALSE)
         ELSE NoCandidate
    [] /\ node.kind = "text" /\ node.operator = "startsWith"
       /\ node.caseSensitive /\ NextPrefix(node.value) # <<>> ->
         Candidate(node.field, 1, Text(node.value),
                   Text(NextPrefix(node.value)), FALSE, TRUE)
    [] OTHER -> NoCandidate

(* A range of texts is read in the order of the criteria too. *)
KeepsAnyOrder(c) == TRUE

(* The order of an index is the order asked for, but for ranges of texts. *)
KeepsCriteriaOrder(c) ==
  c.rank = 0 \/ (IF c.lower = Unbounded THEN c.upper ELSE c.lower).kind # "text"

RECURSIVE RequiredNodes(_)
RequiredNodes(filter) ==
  CASE filter.kind = "all" -> <<>>
    [] filter.kind = "and" ->
         FoldLeft(LAMBDA nodes, child : nodes \o RequiredNodes(child),
                  <<>>, filter.filters)
    [] OTHER -> <<filter>>

(* planIndexedDbQuery; indexes are known by their key paths. *)
PlanIndexedDbQuery(criteria, indexes) ==
  LET order == criteria.order
      sortField == IF Len(order) = 1 THEN order[1].field ELSE <<>>
      nodes == RequiredNodes(criteria.filter)
      candidates == SelectSeq([n \in DOMAIN nodes |-> CandidateOf(nodes[n])],
                              LAMBDA c : c.field \in indexes)
      weight(c) == 2 * c.rank + (IF c.field = sortField THEN 0 ELSE 1)
      best == candidates[CHOOSE n \in DOMAIN candidates :
                           \A m \in DOMAIN candidates :
                             \/ weight(candidates[n]) < weight(candidates[m])
                             \/ /\ weight(candidates[n]) = weight(candidates[m])
                                /\ n <= m]
      sortedByIndex == best.field = sortField /\ KeepsCriteriaOrder(best)
  IN  IF candidates = <<>>
      THEN [index |-> <<>>, bounds |-> NoCandidate, forward |-> TRUE,
            presorted |-> order = <<>>]
      ELSE [index |-> best.field, bounds |-> best,
            forward |-> ~(sortedByIndex /\ order[1].direction = "desc"),
            presorted |-> sortedByIndex \/ order = <<>>]

----------------------------------------------------------------------------
(* The browser: which values an index files, in which order.                *)

IdbRank(v) ==
  CASE v.kind = "number" -> 1 [] v.kind = "date" -> 2 [] v.kind = "text" -> 3
    [] OTHER -> 4

RECURSIVE IsKey(_)
IsKey(v) ==
  \/ v.kind \in {"number", "date", "text"}
  \/ v.kind = "list" /\ \A n \in DOMAIN v.at : IsKey(v.at[n])

Itself(unit) == unit

(* Lists come after everything else; how two of them are ordered matters to *)
(* no condition an index is used for.                                       *)
IdbCompare(v, w) ==
  CASE IdbRank(v) # IdbRank(w) -> Sign(IdbRank(v) - IdbRank(w))
    [] v.kind \in {"number", "date"} -> Sign(v.at - w.at)
    [] v.kind = "text" -> CompareUnits(v.at, w.at, Itself)
    [] OTHER -> 0

InBounds(v, bounds) ==
  /\ \/ bounds.lower = Unbounded
     \/ IdbCompare(v, bounds.lower) > 0
     \/ IdbCompare(v, bounds.lower) = 0 /\ ~bounds.lowerOpen
  /\ \/ bounds.upper = Unbounded
     \/ IdbCompare(v, bounds.upper) < 0
     \/ IdbCompare(v, bounds.upper) = 0 /\ ~bounds.upperOpen

(* The records a cursor visits: items are in the order of their ids. *)
Walk(items, plan) ==
  LET key(n) == ReadPath(items[n], plan.index)
      inside == SelectSeq([n \in DOMAIN items |-> n],
                          LAMBDA n : IsKey(key(n)) /\ InBounds(key(n), plan.bounds))
      ahead(m, n) == \/ IdbCompare(key(m), key(n)) < 0
                     \/ IdbCompare(key(m), key(n)) = 0 /\ m < n
      places == SortSeq(inside, LAMBDA m, n :
                                  IF plan.forward THEN ahead(m, n) ELSE ahead(n, m))
  IN  IF plan.index = <<>> THEN items
      ELSE [n \in DOMAIN places |-> items[places[n]]]

(* toIndexedDbQuery, read as its documentation says: the whole filter on    *)
(* every record, then the order when the index did not give it, one page.   *)
SearchIndexedDb(items, criteria, indexes) ==
  LET plan == PlanIndexedDbQuery(criteria, indexes)
      matched == SelectSeq(Walk(items, plan),
                           LAMBDA item : MatchesFilter(item, criteria.filter))
  IN  Page(IF plan.presorted THEN matched ELSE Sorted(matched, criteria.order),
           criteria.pagination)
=============================================================================
