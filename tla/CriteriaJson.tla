---------------------------- MODULE CriteriaJson ----------------------------
(***************************************************************************)
(* A criteria on its way through a URL (criteria-json.ts), and what makes   *)
(* two of them equal (canonical-criteria.ts). A node is a list that starts  *)
(* with its code; a date travels as [d], every other scalar as it is.       *)
(***************************************************************************)
EXTENDS NormalizeWhere

EncodeValue(v) == IF v.kind = "date" THEN Value("d", v.at) ELSE v
DecodeValue(v) == IF v.kind = "d" THEN Date(v.at) ELSE v

EncodeList(values) == [n \in DOMAIN values |-> EncodeValue(values[n])]
DecodeList(values) == [n \in DOMAIN values |-> DecodeValue(values[n])]

Flag(b) == IF b THEN 1 ELSE 0

TextCodes == [contains |-> "ct", startsWith |-> "sw", endsWith |-> "ew"]
TextOperatorOf(code) == CHOOSE o \in TextOperators : TextCodes[o] = code

RECURSIVE EncodeNode(_)
EncodeNode(node) ==
  LET k == node.kind
  IN  CASE k \in {"and", "or"} ->
             <<k, [n \in DOMAIN node.filters |-> EncodeNode(node.filters[n])]>>
        [] k = "not"     -> <<"not", EncodeNode(node.filter)>>
        [] k = "compare" -> <<node.operator, node.field, EncodeValue(node.value)>>
        [] k = "between" -> <<"bt", node.field, EncodeValue(node.min),
                              EncodeValue(node.max)>>
        [] k \in {"in", "notIn"} ->
             <<IF k = "in" THEN "in" ELSE "nin", node.field,
               EncodeList(node.values)>>
        [] k = "text"    -> <<TextCodes[node.operator], node.field, node.value,
                              Flag(node.caseSensitive)>>
        [] k = "arrayContains" ->
             <<IF node.match = "some" THEN "hs" ELSE "he", node.field,
               EncodeList(node.values)>>
        [] OTHER -> <<IF k = "isNull" THEN "nu" ELSE "em", node.field,
                      Flag(node.value)>>

(* encodeCriteria: what is empty is left out; 0 stands for a key left out. *)
Encode(criteria) ==
  [f |-> IF criteria.filter = Nothing THEN <<>> ELSE EncodeNode(criteria.filter),
   o |-> [n \in DOMAIN criteria.order |->
            <<criteria.order[n].field,
              IF criteria.order[n].direction = "asc" THEN 1 ELSE -1>>],
   l |-> criteria.pagination.limit, s |-> criteria.pagination.offset]

RECURSIVE DecodeNode(_, _)
DecodeNode(raw, depth) ==
  LET code == raw[1]
      children == [n \in DOMAIN raw[2] |-> DecodeNode(raw[2][n], depth + 1)]
  IN  CASE depth > MaxFilterDepth -> Refused
        [] code \in {"and", "or"} ->
             IF \E n \in DOMAIN raw[2] : children[n] = Refused THEN Refused
             ELSE [kind |-> code, filters |-> children]
        [] code = "not" -> Negate(DecodeNode(raw[2], depth + 1))
        [] code \in {"eq", "ne", "gt", "gte", "lt", "lte"} ->
             [kind |-> "compare", field |-> raw[2], operator |-> code,
              value |-> DecodeValue(raw[3])]
        [] code = "bt" -> [kind |-> "between", field |-> raw[2],
                           min |-> DecodeValue(raw[3]),
                           max |-> DecodeValue(raw[4])]
        [] code \in {"in", "nin"} ->
             [kind |-> IF code = "in" THEN "in" ELSE "notIn", field |-> raw[2],
              values |-> DecodeList(raw[3])]
        [] code \in {"ct", "sw", "ew"} ->
             [kind |-> "text", field |-> raw[2],
              operator |-> TextOperatorOf(code), value |-> raw[3],
              caseSensitive |-> raw[4] = 1]
        [] code \in {"hs", "he"} ->
             [kind |-> "arrayContains", field |-> raw[2],
              match |-> IF code = "hs" THEN "some" ELSE "every",
              values |-> DecodeList(raw[3])]
        [] OTHER -> [kind |-> IF code = "nu" THEN "isNull" ELSE "arrayEmpty",
                     field |-> raw[2], value |-> raw[3] = 1]

(* decodeCriteria, and Criteria.fromNodes of what it gives *)
Decode(json) ==
  FromNodes(IF json.f = <<>> THEN Nothing ELSE DecodeNode(json.f, 1),
            [n \in DOMAIN json.o |->
               [field |-> json.o[n][1],
                direction |-> IF json.o[n][2] = 1 THEN "asc" ELSE "desc"]],
            [limit |-> json.l, offset |-> json.s])

----------------------------------------------------------------------------
SetCodes == {"in", "nin", "hs", "he"}

(* canonicalNode: the children of an and, or of an or, and the values of a  *)
(* list are a set; nested ands and nested ors are one.                      *)
RECURSIVE CanonicalNode(_)
RECURSIVE ChildTexts(_, _)

(* The ors of an and are taken for ands of it, and the other way round. *)
ChildTextsOfBoth(node, code) ==
  IF node[1] \in {"and", "or"}
  THEN UNION {ChildTexts(node[2][n], code) : n \in DOMAIN node[2]}
  ELSE {CanonicalNode(node)}

ChildTexts(node, code) ==
  IF node[1] = code
  THEN UNION {ChildTexts(node[2][n], code) : n \in DOMAIN node[2]}
  ELSE {CanonicalNode(node)}

CanonicalNode(node) ==
  LET code == node[1]
  IN  CASE code \in {"and", "or"} ->
             LET texts == ChildTexts(node, code)
             IN  IF Cardinality(texts) = 1 THEN CHOOSE text \in texts : TRUE
                                           ELSE <<code, texts>>
        [] code = "not" -> <<"not", CanonicalNode(node[2])>>
        [] code \in SetCodes ->
             <<code, node[2], {node[3][n] : n \in DOMAIN node[3]}>>
        [] OTHER -> node

(* canonicalCriteria of two criteria, compared by equals. *)
CanonicalFilter(filter) ==
  IF filter = Nothing THEN <<>> ELSE CanonicalNode(EncodeNode(filter))

EqualCriteria(c, d) ==
  /\ CanonicalFilter(c.filter) = CanonicalFilter(d.filter)
  /\ Encode(c).o = Encode(d).o
  /\ c.pagination = d.pagination
=============================================================================
