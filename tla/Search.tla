------------------------------- MODULE Search -------------------------------
(***************************************************************************)
(* A search, from the conditions a caller writes to the rows it is given:   *)
(* Criteria.create, and, toUrl and the schema of a server, and the three    *)
(* adapters that answer (packages/ddd/src/shared/criteria,                  *)
(* packages/criteria-adapters).                                             *)
(***************************************************************************)
EXTENDS CriteriaSchema, PlanQuery, MongoTranslator

CONSTANTS
  Documents,   \* what is stored, in the order of the ids
  Indexes,     \* key paths of the store and of its indexes
  Inputs,      \* [where, orderBy, pagination] a caller may write
  Narrowings,  \* wheres a caller may add
  Orders,      \* orders a caller may ask for afterwards
  Pages        \* <<page, rows in it>> a caller may turn to

VARIABLES stage, where, criteria, answer

vars == <<stage, where, criteria, answer>>

(* What a where says once a schema has read it: every value is what the     *)
(* class of its field makes of it.                                          *)
ReadCondition(field, c) ==
  LET read(v) == IF field \in DOMAIN Fields /\ Coerced(v, field) # Refused
                 THEN Coerced(v, field) ELSE v
  IN  CASE c.operator \in {"isNull", "isEmpty"} \cup TextOperators -> c
        [] c.operator \in {"between", "in", "nin", "hasSome", "hasEvery"} ->
             [c EXCEPT !.value = [n \in DOMAIN c.value |-> read(c.value[n])]]
        [] OTHER -> [c EXCEPT !.value = read(@)]

RECURSIVE ReadWhere(_)
ReadWhere(wh) ==
  [n \in DOMAIN wh |->
     CASE wh[n].kind = "field" ->
            [wh[n] EXCEPT !.conditions =
               [m \in DOMAIN @ |-> ReadCondition(wh[n].field, @[m])]]
       [] wh[n].kind = "NOT" -> [wh[n] EXCEPT !.where = ReadWhere(@)]
       [] OTHER -> [wh[n] EXCEPT !.wheres =
                      [m \in DOMAIN @ |-> ReadWhere(@[m])]]]

(* A caller makes a criteria, or a server is sent what a caller wrote.      *)
Init ==
  /\ answer = [memory |-> <<>>, indexedDb |-> <<>>, mongo |-> <<>>]
  /\ \E input \in Inputs :
       \/ stage = "asked" /\ where = <<input.where>> /\ criteria = Create(input)
       \/ /\ stage = "checked" /\ where = <<ReadWhere(input.where)>>
          /\ criteria = Parse(input)

(* criteria.and(where) *)
Narrow ==
  /\ stage = "asked" /\ criteria # Refused
  /\ \E added \in Narrowings :
       /\ criteria' = And(criteria, added)
       /\ where' = Append(where, added)
  /\ stage' = "narrowed"
  /\ UNCHANGED answer

(* criteria.orderBy(order), criteria.page(page, perPage) *)
Rearrange ==
  /\ stage = "asked" /\ criteria # Refused
  /\ \/ \E order \in Orders : criteria' = OrderBy(criteria, order)
     \/ \E page \in Pages : criteria' = PageOf(criteria, page[1], page[2])
  /\ stage' = "narrowed"
  /\ UNCHANGED <<where, answer>>

(* schema.fromUrl(criteria.toUrl()) *)
Send ==
  /\ stage \in {"asked", "narrowed"} /\ criteria # Refused
  /\ criteria' = FromUrl(Encode(criteria))
  /\ where' = [n \in DOMAIN where |-> ReadWhere(where[n])]
  /\ stage' = "checked"
  /\ UNCHANGED answer

Answer ==
  /\ stage # "answered" /\ criteria # Refused
  /\ answer' = [memory |-> SearchMemory(Documents, criteria),
                indexedDb |-> SearchIndexedDb(Documents, criteria, Indexes),
                mongo |-> SearchMongo(Documents, Translate(criteria))]
  /\ stage' = "answered"
  /\ UNCHANGED <<where, criteria>>

Next == Narrow \/ Rearrange \/ Send \/ Answer

Spec == Init /\ [][Next]_vars

----------------------------------------------------------------------------
Items == {Documents[n] : n \in DOMAIN Documents}

Selected(filter) == {item \in Items : MatchesFilter(item, filter)}

Accepted == criteria # Refused

(* A criteria holds only nodes the adapters know, on fields that are        *)
(* ordered once, and its depth is bounded (freeze-nodes.ts:120-157).        *)
TypeOK ==
  Accepted =>
    /\ criteria.filter = Nothing \/ Freezes(criteria.filter, 1)
    /\ OrderFreezes(criteria.order)
    /\ criteria.pagination.limit \in Nat /\ criteria.pagination.offset \in Nat

(* What a where says, condition by condition: everything in it holds, one   *)
(* of the wheres of an OR does, the where of a NOT does not.                *)
RECURSIVE Says(_, _)
Says(wh, item) ==
  \A n \in DOMAIN wh :
    CASE wh[n].kind = "field" ->
           \A m \in DOMAIN wh[n].conditions :
             MatchesFilter(item, OperatorNode(wh[n].field,
                                              wh[n].conditions[m].operator,
                                              wh[n].conditions[m].value,
                                              wh[n].mode # "insensitive"))
      [] wh[n].kind = "AND" -> \A m \in DOMAIN wh[n].wheres :
                                 Says(wh[n].wheres[m], item)
      [] wh[n].kind = "OR"  -> \E m \in DOMAIN wh[n].wheres :
                                 Says(wh[n].wheres[m], item)
      [] OTHER -> ~Says(wh[n].where, item)

(* A criteria, narrowed or not, selects the documents its wheres speak of,  *)
(* conditions that say nothing included; once a schema has checked it, in a *)
(* URL or as it was written, those its wheres speak of with every value     *)
(* made by the class of its field, and no value left as it was sent         *)
(* (normalize-where.ts:140-210, criteria.ts:73-82, criteria-json.ts:39-188, *)
(* criteria-schema.ts:140-179, 250-294).                                    *)
SelectsWhatItSays ==
  Accepted =>
    Selected(criteria.filter) =
      {item \in Items : \A n \in DOMAIN where : Says(where[n], item)}

(* The IndexedDB adapter answers with the rows the memory adapter answers   *)
(* with, in the same order but for rows that tie, and so does the MongoDB   *)
(* adapter where the order is by plain values: which index is read, whether *)
(* its order is trusted and where lists of values other than null are       *)
(* stored changes nothing (plan-query.ts:107-147,                           *)
(* mongo-criteria-translator.ts:59-147).                                    *)
Whole == [limit |-> 0, offset |-> 0]

SameRows(rows) ==
  /\ Len(rows) = Len(answer.memory)
  /\ criteria.pagination = Whole =>
       {rows[n] : n \in DOMAIN rows} = Selected(criteria.filter)

SameOrder(rows) ==
  \A n \in DOMAIN rows :
    CompareBy(criteria.order, rows[n], answer.memory[n]) = 0

IndexedDbAgrees ==
  stage = "answered" =>
    SameRows(answer.indexedDb) /\ SameOrder(answer.indexedDb)

OrderIsPlain ==
  \A n \in DOMAIN criteria.order : \A item \in Selected(criteria.filter) :
    SortsPlain(item, criteria.order[n].field)

MongoAgrees ==
  stage = "answered" =>
    SameRows(answer.mongo) /\ (OrderIsPlain => SameOrder(answer.mongo))

(* The three adapters answer alike. *)
AdaptersAgree == IndexedDbAgrees /\ MongoAgrees

(* The pages of a criteria, one after another. *)
Book(search(_), perPage) ==
  LET pages == (Len(Documents) \div perPage) + 1
  IN  FoldLeft(LAMBDA read, page :
                 read \o search(PageOf(criteria, page, perPage)),
               <<>>, [page \in 1..pages |-> page])

(* To check a checked criteria again changes nothing: it is refused only    *)
(* where the tiebreaker, or a class that makes texts longer, took it beyond *)
(* the limits, which are measured before. Its pages are never longer than   *)
(* the schema allows. With a tiebreaker, its pages of any length, each read *)
(* on its own, hold every selected document once, in one order; whichever   *)
(* adapter reads them, they make up its whole answer                        *)
(* (criteria-schema.ts:283-330, criteria.ts:93-107).                        *)
ChecksAreFinal ==
  stage = "checked" /\ Accepted =>
    LET whole == [criteria EXCEPT !.pagination = Whole]
        memory(c) == SearchMemory(Documents, c)
        indexedDb(c) == SearchIndexedDb(Documents, c, Indexes)
        mongo(c) == SearchMongo(Documents, Translate(c))
    IN  /\ Check(criteria) = IF WithinLimits(criteria.filter, criteria.order)
                             THEN criteria ELSE Refused
        /\ criteria.pagination.limit \in 1..MaxLimit
        /\ Tiebreaker # <<>> =>
             /\ Len(memory(whole)) = Cardinality(Selected(criteria.filter))
             /\ Book(memory, 5) = memory(whole)
             /\ Book(indexedDb, 4) = memory(whole)
             /\ OrderIsPlain => Book(mongo, 6) = mongo(whole)

(* Two filters are equal only if they select the same documents, and a      *)
(* filter equals itself with its children the other way round and one of    *)
(* them twice (canonical-criteria.ts:5-31).                                 *)
RECURSIVE Mirrored(_)
Mirrored(node) ==
  CASE node.kind \in {"and", "or"} ->
         LET children == [n \in DOMAIN node.filters |-> Mirrored(node.filters[n])]
         IN  [node EXCEPT !.filters = Append(Reverse(children), children[1])]
    [] node.kind = "not" -> [node EXCEPT !.filter = Mirrored(@)]
    [] OTHER -> node

EqualSelectAlike ==
  stage \in {"asked", "narrowed"} /\ Accepted =>
    /\ CanonicalFilter(Mirrored(criteria.filter))
         = CanonicalFilter(criteria.filter)
    /\ \A added \in Narrowings :
         LET other == Normalized(added, 1)
         IN  /\ other # Refused
             /\ CanonicalFilter(other) = CanonicalFilter(criteria.filter)
             => Selected(other) = Selected(criteria.filter)

(* A schema makes the same of a criteria that went through a URL as of one  *)
(* it checks where it was made, unless the URL is too long for it           *)
(* (criteria.ts:65-71, criteria-schema.ts:345-351).                         *)
UrlChangesNothing ==
  stage \in {"asked", "narrowed"} /\ Accepted =>
    LET json == Encode(criteria)
    IN  FromUrl(json) = IF UrlLength(json) > Limits.maxUrlLength
                        THEN Refused ELSE Check(criteria)

(* No change of form changes what a criteria selects, but for the values a  *)
(* schema has its classes make.                                             *)
CriteriaKeepTheirMeaning ==
  TypeOK /\ SelectsWhatItSays /\ ChecksAreFinal /\ EqualSelectAlike
    /\ UrlChangesNothing
=============================================================================
