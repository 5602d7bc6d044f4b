-------------------------- MODULE MongoTranslator --------------------------
(***************************************************************************)
(* MongoCriteriaTranslator (criteria-adapters, mongodb/): a filter becomes  *)
(* a query of MongoDB, whose conditions match a list when one of its        *)
(* elements does and walk into the elements of a list, unless they are told *)
(* not to.                                                                  *)
(*                                                                          *)
(* A query is [all: queries], [some: queries], [none: queries], or          *)
(* conditions on a path: [path, tests], a test being <<operator, argument>>.*)
(***************************************************************************)
EXTENDS FilterNodes

NotAList == <<"notList", TRUE>>
IsAList  == <<"list", TRUE>>

On(path, tests) == [op |-> "path", path |-> path, tests |-> tests]
All(queries)  == [op |-> "all", queries |-> queries]
Some(queries) == [op |-> "some", queries |-> queries]
None(queries) == [op |-> "none", queries |-> queries]

(* The paths that must not hold a list for a field to be read by name. *)
ListPrefixes(path) ==
  {SubSeq(path, 1, n) : n \in {n \in 1..(Len(path) - 1) :
                                 path[n + 1] \notin DOMAIN IndexOf}}

Reachable(path, tests) ==
  All({On(prefix, {NotAList}) : prefix \in ListPrefixes(path)}
        \cup {On(path, tests)})

OrUnreachable(path, tests) ==
  Some({On(prefix, {IsAList}) : prefix \in ListPrefixes(path)}
         \cup {Reachable(path, tests)})

(* Conditions on the field alone, whatever is on the way to it. *)
ScalarUnguarded(path, tests) == On(path, tests \cup {NotAList})

Scalar(path, tests) == Reachable(path, tests \cup {NotAList})

RECURSIVE TranslateFilter(_)
TranslateFilter(node) ==
  LET k == node.kind
      f == node.field
      children == {TranslateFilter(node.filters[n]) : n \in DOMAIN node.filters}
      list == {node.values[n] : n \in DOMAIN node.values}
  IN  CASE k = "all" -> All({})
        [] k = "and" -> All(children)
        [] k = "or"  -> Some(children)
        [] k = "not" -> None({TranslateFilter(node.filter)})
        [] k = "compare" ->
             IF node.operator = "ne"
             THEN OrUnreachable(f, {<<"ne", node.value>>, NotAList})
             ELSE Scalar(f, {<<node.operator, node.value>>})
        [] k = "between" -> Scalar(f, {<<"gte", node.min>>, <<"lte", node.max>>})
        [] k = "in"    -> Scalar(f, {<<"in", list>>})
        [] k = "notIn" -> OrUnreachable(f, {<<"nin", list>>, NotAList})
        [] k = "text"  -> Scalar(f, {<<"regex", node>>})
        [] k = "isNull" ->
             IF node.value THEN OrUnreachable(f, {<<"eq", Null>>, NotAList})
                           ELSE Reachable(f, {<<"ne", Null>>})
        [] k = "arrayContains" ->
             Reachable(f, {IsAList, <<IF node.match = "some" THEN "in"
                                                          ELSE "every", list>>})
        [] OTHER -> Reachable(f, IF node.value THEN {<<"empty", TRUE>>}
                                 ELSE {IsAList, <<"notEmpty", TRUE>>})

(* The order upside down. *)
TranslateOrderReversed(order) ==
  [n \in DOMAIN order |-> [path |-> order[n].field,
                           sign |-> IF order[n].direction = "asc" THEN -1 ELSE 1]]

(* 1 and -1; no two parts of an order are about one field. *)
TranslateOrder(order) ==
  [n \in DOMAIN order |-> [path |-> order[n].field,
                           sign |-> IF order[n].direction = "asc" THEN 1 ELSE -1]]

Translate(criteria) ==
  [filter |-> TranslateFilter(criteria.filter),
   sort   |-> TranslateOrder(criteria.order),
   skip   |-> criteria.pagination.offset,
   limit  |-> criteria.pagination.limit]

----------------------------------------------------------------------------
(* MongoDB: the values a path reaches, into the elements of a list too.     *)

RECURSIVE Reached(_, _)
Reached(v, path) ==
  IF path = <<>> THEN {v}
  ELSE LET s == Head(path)
       IN  CASE v.kind = "object" ->
                  IF s \in DOMAIN v.at THEN Reached(v.at[s], Tail(path))
                                       ELSE {Missing}
             [] v.kind = "list" ->
                  LET at == IF s \in DOMAIN IndexOf THEN IndexOf[s] ELSE 0
                      elements == {v.at[n] : n \in DOMAIN v.at}
                  IN  (IF at \in DOMAIN v.at THEN Reached(v.at[at], Tail(path))
                                             ELSE {})
                      \cup UNION {Reached(e, path) :
                                    e \in {e \in elements : e.kind = "object"}}
             [] OTHER -> {Missing}

(* A value and, of a list, its elements. *)
WithElements(v) ==
  {v} \cup (IF v.kind = "list" THEN {v.at[n] : n \in DOMAIN v.at} ELSE {})

Equal(v, target) == IF target = Null THEN IsNullish(v) ELSE v = target

Passes(v, operator, argument) ==
  CASE operator = "eq" -> Equal(v, argument)
    [] operator = "in" -> \E target \in argument : Equal(v, target)
    [] operator = "regex" -> TextMatches(v, argument)
    [] v.kind # argument.kind -> FALSE
    [] operator = "gt"  -> CompareValues(v, argument) > 0
    [] operator = "gte" -> CompareValues(v, argument) >= 0
    [] operator = "lt"  -> CompareValues(v, argument) < 0
    [] OTHER -> CompareValues(v, argument) <= 0

SomePasses(values, operator, argument) ==
  \E v \in UNION {WithElements(w) : w \in values} : Passes(v, operator, argument)

TestPasses(values, test) ==
  LET o == test[1]
  IN  CASE o = "ne"  -> ~SomePasses(values, "eq", test[2])
        [] o = "nin" -> ~SomePasses(values, "in", test[2])
        [] o = "list"     -> \E v \in values : v.kind = "list"
        [] o = "notList"  -> ~\E v \in values : v.kind = "list"
        [] o = "empty"    -> \E v \in values : v.kind = "list" /\ v.at = <<>>
        [] o = "notEmpty" -> ~\E v \in values : v.kind = "list" /\ v.at = <<>>
        [] o = "every" -> \A target \in test[2] :
                            SomePasses(values, "eq", target)
        [] OTHER -> SomePasses(values, o, test[2])

RECURSIVE MongoMatches(_, _)
MongoMatches(item, query) ==
  CASE query.op = "all"  -> \A q \in query.queries : MongoMatches(item, q)
    [] query.op = "some" -> \E q \in query.queries : MongoMatches(item, q)
    [] query.op = "none" -> \A q \in query.queries : ~MongoMatches(item, q)
    [] OTHER -> \A test \in query.tests :
                  TestPasses(Reached(item, query.path), test)

(* Where MongoDB sorts a value among others. *)
BsonRank(v) ==
  CASE IsNullish(v) -> 1 [] v.kind = "number" -> 2 [] v.kind = "text" -> 3
    [] v.kind = "object" -> 4 [] v.kind = "list" -> 5
    [] v.kind = "boolean" -> 6 [] OTHER -> 7

(* Lists and objects are outside: sorted by their parts. *)
SortsPlain(item, path) ==
  /\ Cardinality(Reached(item, path)) = 1
  /\ \A v \in Reached(item, path) : v.kind \notin {"list", "object"}
  /\ \A prefix \in ListPrefixes(path) :
       \A v \in Reached(item, prefix) : v.kind # "list"

SortsBefore(sort, left, right) ==
  LET key(item, n) == CHOOSE v \in Reached(item, sort[n].path) \cup {Missing} :
                        v = Missing => Reached(item, sort[n].path) \subseteq {v}
      compared(n) ==
        LET v == key(left, n)
            w == key(right, n)
        IN  sort[n].sign * IF BsonRank(v) # BsonRank(w)
                           THEN BsonRank(v) - BsonRank(w)
                           ELSE CompareValues(v, w)
      differ == {n \in DOMAIN sort : compared(n) # 0}
  IN  differ # {} /\ compared(CHOOSE n \in differ :
                                \A m \in differ : n <= m) < 0

(* What a collection answers a query with; ties come in any order, here in  *)
(* the order of the collection.                                             *)
SearchMongo(items, query) ==
  LET found == SelectSeq(items, LAMBDA item : MongoMatches(item, query.filter))
      precedes(m, n) ==
        \/ SortsBefore(query.sort, found[m], found[n])
        \/ ~SortsBefore(query.sort, found[n], found[m]) /\ m < n
      places == SortSeq([n \in DOMAIN found |-> n], precedes)
  IN  Page([n \in DOMAIN found |-> found[places[n]]],
           [limit |-> query.limit, offset |-> query.skip])
=============================================================================
