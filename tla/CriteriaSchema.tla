--------------------------- MODULE CriteriaSchema ---------------------------
(***************************************************************************)
(* What a server lets a caller search for (criteria-schema.ts,              *)
(* criteria-limits.ts): the fields, the operators on each, the values they  *)
(* take, how much a filter may hold and how long a page may be.             *)
(***************************************************************************)
EXTENDS CriteriaJson

CONSTANTS
  Fields,         \* field |-> [kind, operators, sortable, makes]
  Spelled,        \* kind |-> what parseInput reads in the texts that spell one
  Limits,         \* [maxDepth, maxNodes, maxListSize, maxTextLength,
                  \*  maxOrderFields, maxUrlLength]
  FieldLength(_), \* the characters of a field,
  UrlLength(_),   \* and of the URL text of a criteria
  MaxLimit,
  DefaultLimit,   \* MaxLimit where the definition gives none
  MaxOffset,
  Tiebreaker      \* a field that ends every order, or <<>>

RangeOperators == {"eq", "ne", "gt", "gte", "lt", "lte", "between", "in",
                   "nin", "isNull"}

OperatorsByKind ==
  [text    |-> RangeOperators \cup TextOperators,
   number  |-> RangeOperators,
   date    |-> RangeOperators,
   boolean |-> {"eq", "ne", "isNull"},
   enum    |-> {"eq", "ne", "in", "nin", "isNull"},
   list    |-> {"has", "hasSome", "hasEvery", "isEmpty", "isNull"}]

(* resolveField *)
FieldsResolve ==
  \A field \in DOMAIN Fields :
    /\ Fields[field].operators \subseteq OperatorsByKind[Fields[field].kind]
    /\ Fields[field].sortable => Fields[field].kind # "list"

(* What defineCriteriaSchema accepts as a definition. *)
WellDefined ==
  /\ FieldsResolve
  /\ Tiebreaker # <<>> => Tiebreaker \in DOMAIN Fields /\ Fields[Tiebreaker].sortable
  /\ DefaultLimit \in 1..MaxLimit /\ MaxOffset \in Nat \ {0}
  /\ \A limit \in DOMAIN Limits : Limits[limit] \in Nat \ {0}
  /\ Limits.maxDepth <= MaxFilterDepth

ASSUME SchemaAssumption == WellDefined

(* The class of a field makes one scalar of each value it takes (of one     *)
(* element, where it is a list), and takes what it made as it is: an        *)
(* identifier in capitals becomes one in small letters, which stays so.     *)
ClassesSettle ==
  \A field \in DOMAIN Fields :
    LET makes == Fields[field].makes
    IN  \A v \in DOMAIN makes :
          /\ IsScalar(v) /\ makes[v] \in DOMAIN makes
          /\ makes[makes[v]] = makes[v]

ASSUME ClassesAssumption == ClassesSettle

(* measure: the nodes of a filter and its depth *)
RECURSIVE NodesOf(_)
NodesOf(node) ==
  CASE node.kind \in {"and", "or"} ->
         1 + FoldLeft(LAMBDA sum, child : sum + NodesOf(child), 0, node.filters)
    [] node.kind = "not" -> 1 + NodesOf(node.filter)
    [] OTHER -> 1

TextFits(v) == v.kind = "text" => Len(v.at) <= Limits.maxTextLength

ListFits(values) ==
  /\ Len(values) <= Limits.maxListSize
  /\ \A n \in DOMAIN values : TextFits(values[n])

FieldFits(node) ==
  /\ FieldLength(node.field) <= Limits.maxTextLength
  /\ CASE node.kind = "compare" -> TextFits(node.value)
       [] node.kind = "text" -> TextFits(Text(node.value))
       [] node.kind = "between" -> ListFits(<<node.min, node.max>>)
       [] node.kind \in {"in", "notIn", "arrayContains"} -> ListFits(node.values)
       [] OTHER -> TRUE

RECURSIVE FitsDepth(_, _)
FitsDepth(node, depth) ==
  /\ depth <= Limits.maxDepth
  /\ CASE node.kind \in {"and", "or"} ->
            \A n \in DOMAIN node.filters : FitsDepth(node.filters[n], depth + 1)
       [] node.kind = "not" -> FitsDepth(node.filter, depth + 1)
       [] OTHER -> FieldFits(node)

WithinLimits(filter, order) ==
  /\ Len(order) <= Limits.maxOrderFields
  /\ \A n \in DOMAIN order : FieldLength(order[n].field) <= Limits.maxTextLength
  /\ filter # Nothing =>
       FitsDepth(filter, 1) /\ NodesOf(filter) <= Limits.maxNodes

(* operatorName: a hasSome of one value has become a has. *)
OperatorName(node) ==
  CASE node.kind \in {"compare", "text"} -> node.operator
    [] node.kind = "notIn" -> "nin"
    [] node.kind = "arrayContains" ->
         IF node.match = "every" THEN "hasEvery"
         ELSE IF Len(node.values) = 1 THEN "has" ELSE "hasSome"
    [] node.kind = "arrayEmpty" -> "isEmpty"
    [] OTHER -> node.kind

Allows(operators, operator) ==
  operator \in operators \/ (operator = "has" /\ "hasSome" \in operators)

(* parseInput: a value of the kind of its field, a text that spells one, an *)
(* instant given as a number. The classes of enums and lists take any value.*)
Parsed(v, kind) ==
  CASE kind \in {"enum", "list", v.kind} -> v
    [] kind = "date" /\ v.kind = "number" -> Date(v.at)
    [] kind \in DOMAIN Spelled /\ v \in DOMAIN Spelled[kind] -> Spelled[kind][v]
    [] OTHER -> Refused

(* coerceScalar, buildValue: what the class of the field makes of a value.  *)
Coerced(v, field) ==
  LET parsed == Parsed(v, Fields[field].kind)
      makes  == Fields[field].makes
  IN  IF parsed \in DOMAIN makes THEN makes[parsed] ELSE Refused

(* The values of a list are taken as they came. *)
TakeList(values, field) == values

CoerceList(values, field) ==
  [n \in DOMAIN values |-> Coerced(values[n], field)]

(* coerceField; a node that holds a refused value is refused by FromNodes.  *)
CoerceField(node) ==
  IF \/ node.field \notin DOMAIN Fields
     \/ ~Allows(Fields[node.field].operators, OperatorName(node))
  THEN Refused
  ELSE CASE node.kind = "compare" ->
              [node EXCEPT !.value = Coerced(@, node.field)]
         [] node.kind = "between" ->
              [node EXCEPT !.min = Coerced(@, node.field),
                           !.max = Coerced(@, node.field)]
         [] node.kind \in {"in", "notIn", "arrayContains"} ->
              [node EXCEPT !.values = CoerceList(@, node.field)]
         [] OTHER -> node

RECURSIVE CoerceFilter(_)
CoerceFilter(node) ==
  LET children == [n \in DOMAIN node.filters |-> CoerceFilter(node.filters[n])]
  IN  CASE node.kind = "all" -> Nothing
        [] node.kind \in {"and", "or"} ->
             IF \E n \in DOMAIN children : children[n] = Refused THEN Refused
             ELSE [node EXCEPT !.filters = children]
        [] node.kind = "not" -> Negate(CoerceFilter(node.filter))
        [] OTHER -> CoerceField(node)

(* A page has a limit, and neither it nor the offset is beyond its maximum. *)
PageAllowed(pagination) ==
  pagination.limit <= MaxLimit /\ pagination.offset <= MaxOffset

(* No limit asked for is no limit. *)
KeepPagination(pagination) == pagination

LimitPagination(pagination) ==
  [pagination EXCEPT !.limit = IF @ = 0 THEN DefaultLimit ELSE @]

WithTiebreaker(order) ==
  IF Tiebreaker = <<>> \/ \E n \in DOMAIN order : order[n].field = Tiebreaker
  THEN order
  ELSE Append(order, [field |-> Tiebreaker, direction |-> "asc"])

Sortable(order) ==
  \A n \in DOMAIN order :
    order[n].field \in DOMAIN Fields /\ Fields[order[n].field].sortable

(* build: what is measured is the filter before its values are made, and    *)
(* the order before it ends with the tiebreaker.                            *)
Build(filter, order, pagination) ==
  IF /\ filter # Refused
     /\ WithinLimits(filter, order) /\ Sortable(order)
     /\ PageAllowed(pagination)
  THEN FromNodes(CoerceFilter(filter), WithTiebreaker(order),
                 LimitPagination(pagination))
  ELSE Refused

(* schema.check(criteria) *)
Check(criteria) ==
  IF criteria = Refused THEN Refused
  ELSE Build(criteria.filter, criteria.order, criteria.pagination)

(* schema.parse(input): nothing is frozen before it is built, so a list may *)
(* mix the texts and the numbers its field reads as one kind.               *)
Parse(input) == Build(Normalized(input.where, 1), input.orderBy, input.pagination)

(* schema.fromUrl(criteria.toUrl()) *)
FromUrl(json) ==
  IF UrlLength(json) > Limits.maxUrlLength THEN Refused ELSE Check(Decode(json))
=============================================================================
