--------------------------- MODULE NormalizeWhere ---------------------------
(***************************************************************************)
(* Criteria.create (criteria-input.ts, normalize-where.ts,                  *)
(* normalize-order.ts, freeze-nodes.ts): from the conditions a caller       *)
(* writes to the nodes of a filter, or an error.                            *)
(*                                                                          *)
(* A where is the sequence of its entries: [kind: field, field, conditions, *)
(* mode], [kind: AND or OR, wheres], [kind: NOT, where]. A plain value is   *)
(* the one condition eq.                                                    *)
(***************************************************************************)
EXTENDS FilterNodes

CONSTANT MaxFilterDepth   \* 64: levels of a filter

ASSUME DepthAssumption == MaxFilterDepth \in Nat \ {0}

Refused == [kind |-> "refused"]    \* a CriteriaError is thrown
Nothing == [kind |-> "all"]        \* null: every document

Combine(nodes) ==
  CASE nodes = <<>>   -> Nothing
    [] Len(nodes) = 1 -> nodes[1]
    [] OTHER          -> [kind |-> "and", filters |-> nodes]

(* One error refuses the whole; conditions that say nothing are left out.   *)
CombineAll(nodes) ==
  IF \E n \in DOMAIN nodes : nodes[n] = Refused THEN Refused
  ELSE Combine(SelectSeq(nodes, LAMBDA node : node # Nothing))

Equality(field, operator, value) ==
  IF value = Null
  THEN [kind |-> "isNull", field |-> field, value |-> operator = "eq"]
  ELSE [kind |-> "compare", field |-> field, operator |-> operator,
        value |-> value]

(* A list of values is never empty. *)
Values(kind, field, values) ==
  IF values = <<>> THEN Refused
  ELSE [kind |-> kind, field |-> field, values |-> values]

ListContains(field, match, values) ==
  IF values = <<>> THEN Refused
  ELSE [kind |-> "arrayContains", field |-> field, match |-> match,
        values |-> values]

TextOperators == {"contains", "startsWith", "endsWith"}

OperatorNode(field, operator, value, sensitive) ==
  CASE operator \in {"eq", "ne"} -> Equality(field, operator, value)
    [] operator \in {"gt", "gte", "lt", "lte"} ->
         [kind |-> "compare", field |-> field, operator |-> operator,
          value |-> value]
    [] operator = "between" ->
         IF Len(value) # 2 THEN Refused
         ELSE [kind |-> "between", field |-> field,
               min |-> value[1], max |-> value[2]]
    [] operator = "in"  -> Values("in", field, value)
    [] operator = "nin" -> Values("notIn", field, value)
    [] operator \in TextOperators ->
         [kind |-> "text", field |-> field, operator |-> operator,
          value |-> value, caseSensitive |-> sensitive]
    [] operator = "isNull"   -> [kind |-> "isNull", field |-> field,
                                 value |-> value]
    [] operator = "has"      -> ListContains(field, "some", <<value>>)
    [] operator = "hasSome"  -> ListContains(field, "some", value)
    [] operator = "hasEvery" -> ListContains(field, "every", value)
    [] OTHER -> [kind |-> "arrayEmpty", field |-> field, value |-> value]

(* A mode needs a text condition to apply to. *)
FieldCondition(entry) ==
  IF /\ entry.mode # "none"
     /\ \A n \in DOMAIN entry.conditions :
          entry.conditions[n].operator \notin TextOperators
  THEN Refused
  ELSE CombineAll([n \in DOMAIN entry.conditions |->
                     OperatorNode(entry.field, entry.conditions[n].operator,
                                  entry.conditions[n].value,
                                  entry.mode # "insensitive")])

(* A child that says nothing is left out of an OR, as it is of an AND. *)
EitherOfTheRest(children) ==
  LET said == SelectSeq(children, LAMBDA child : child # Nothing)
  IN  CASE \E n \in DOMAIN children : children[n] = Refused -> Refused
        [] said = <<>> -> Nothing
        [] Len(said) = 1 -> said[1]
        [] OTHER -> [kind |-> "or", filters |-> said]

(* OR: one child that says nothing matches everything. *)
Either(children) ==
  CASE \E n \in DOMAIN children : children[n] = Refused -> Refused
    [] \E n \in DOMAIN children : children[n] = Nothing -> Nothing
    [] Len(children) = 1 -> children[1]
    [] OTHER -> [kind |-> "or", filters |-> children]

Negate(filter) ==
  IF filter \in {Refused, Nothing} THEN Refused
  ELSE [kind |-> "not", filter |-> filter]

RECURSIVE Normalized(_, _)
Normalized(where, depth) ==
  LET children(entry) == [n \in DOMAIN entry.wheres |->
                            Normalized(entry.wheres[n], depth + 1)]
      node(entry) ==
        CASE entry.kind = "field" -> FieldCondition(entry)
          [] entry.kind = "NOT" -> Negate(Normalized(entry.where, depth + 1))
          [] entry.wheres = <<>> -> Refused
          [] entry.kind = "AND" -> CombineAll(children(entry))
          [] OTHER -> Either(children(entry))
  IN  IF depth > MaxFilterDepth THEN Refused
      ELSE CombineAll([n \in DOMAIN where |-> node(where[n])])

----------------------------------------------------------------------------
(* freezeFilter: whether every node is one a criteria may hold. *)

(* freezeList *)
OneKind(values) ==
  /\ values # <<>>
  /\ \A n \in DOMAIN values :
       IsScalar(values[n]) /\ SameKind(values[n], values[1])

FieldFreezes(node) ==
  CASE node.kind = "compare" ->
         IF node.operator \in {"eq", "ne"} THEN IsScalar(node.value)
                                           ELSE IsRangeValue(node.value)
    [] node.kind = "between" ->
         /\ IsRangeValue(node.min) /\ IsRangeValue(node.max)
         /\ SameKind(node.min, node.max)
         /\ CompareValues(node.min, node.max) <= 0
    [] node.kind \in {"in", "notIn", "arrayContains"} -> OneKind(node.values)
    [] node.kind = "text" -> node.value # <<>>
    [] OTHER -> node.value \in BOOLEAN

RECURSIVE Freezes(_, _)
Freezes(node, depth) ==
  /\ depth <= MaxFilterDepth
  /\ CASE node.kind \in {"and", "or"} ->
            /\ node.filters # <<>>
            /\ \A n \in DOMAIN node.filters :
                 Freezes(node.filters[n], depth + 1)
       [] node.kind = "not" -> Freezes(node.filter, depth + 1)
       [] OTHER -> FieldFreezes(node)

(* freezeOrder: a field is ordered once. *)
OrderFreezes(order) ==
  \A m, n \in DOMAIN order : order[m].field = order[n].field => m = n

(* The order is taken as it comes. *)
FromNodesInAnyOrder(filter, order, pagination) ==
  IF filter = Nothing \/ (filter # Refused /\ Freezes(filter, 1))
  THEN [kind |-> "criteria", filter |-> filter, order |-> order,
        pagination |-> pagination]
  ELSE Refused

(* Criteria.fromNodes *)
FromNodes(filter, order, pagination) ==
  IF /\ filter = Nothing \/ (filter # Refused /\ Freezes(filter, 1))
     /\ OrderFreezes(order)
  THEN [kind |-> "criteria", filter |-> filter, order |-> order,
        pagination |-> pagination]
  ELSE Refused

(* Criteria.create *)
Create(input) ==
  FromNodes(Normalized(input.where, 1), input.orderBy, input.pagination)

(* Criteria.and: a conjunction gets longer, never deeper. *)
AndChildren(node) == IF node.kind = "and" THEN node.filters ELSE <<node>>

And(criteria, where) ==
  LET added == Normalized(where, 1)
  IN  CASE added = Refused -> Refused
        [] added = Nothing -> criteria
        [] OTHER ->
           FromNodes(IF criteria.filter = Nothing THEN added
                     ELSE [kind |-> "and", filters |->
                             AndChildren(criteria.filter) \o AndChildren(added)],
                     criteria.order, criteria.pagination)

OrderBy(criteria, order) ==
  FromNodes(criteria.filter, order, criteria.pagination)

Paginate(criteria, limit, offset) ==
  FromNodes(criteria.filter, criteria.order,
            [limit |-> limit, offset |-> offset])

(* Pages counted from zero. *)
PageFromZero(criteria, page, perPage) ==
  IF page < 1 \/ perPage < 1 THEN Refused
  ELSE Paginate(criteria, perPage, page * perPage)

(* Pages are counted from one. *)
PageOf(criteria, page, perPage) ==
  IF page < 1 \/ perPage < 1 THEN Refused
  ELSE Paginate(criteria, perPage, (page - 1) * perPage)
=============================================================================
