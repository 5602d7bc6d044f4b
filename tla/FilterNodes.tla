---------------------------- MODULE FilterNodes ----------------------------
(***************************************************************************)
(* What a filter of a criteria is, and which documents it matches           *)
(* (filter-node.ts, criteria-value.ts; memory/matches.ts of                 *)
(* criteria-adapters, whose answers every adapter is to give).              *)
(*                                                                          *)
(* A value is [kind, at]: a number or a date at a point, a text of UTF-16   *)
(* code units, a list of values, an object. A field is a path of segments.  *)
(***************************************************************************)
EXTENDS Integers, Sequences, FiniteSets, SequencesExt

Value(kind, at) == [kind |-> kind, at |-> at]
Null    == Value("null", 0)
Missing == Value("missing", 0)
Number(n) == Value("number", n)
Text(units) == Value("text", units)
Bool(b) == Value("boolean", b)
Date(t) == Value("date", t)
List(values) == Value("list", values)
Object(fields) == Value("object", fields)

IsNullish(v) == v.kind \in {"null", "missing"}
IsScalar(v) == v.kind \in {"number", "text", "boolean", "date"}
IsRangeValue(v) == v.kind \in {"number", "text", "date"}

(* rank: values of different kinds are ordered by kind. *)
Rank(v) ==
  CASE IsNullish(v) -> 0
    [] v.kind = "number" -> 1
    [] v.kind = "text" -> 2
    [] v.kind = "boolean" -> 3
    [] v.kind = "date" -> 4
    [] OTHER -> 5

SameKind(v, w) == Rank(v) = Rank(w)

Sign(n) == IF n < 0 THEN -1 ELSE IF n > 0 THEN 1 ELSE 0

(* Code units on a small scale: 0..2 stand below the surrogates, 3 and 4    *)
(* are surrogates (0xD800-0xDFFF), 5 and 6 follow them.                     *)
Surrogates == 3
AfterSurrogates == 5
LastUnit == 6

(* codePointRank: the units of a surrogate pair come after all the others. *)
CodePointRank(unit) ==
  IF unit < Surrogates THEN unit
  ELSE IF unit >= AfterSurrogates
       THEN unit - (AfterSurrogates - Surrogates)
       ELSE unit + (LastUnit + 1 - AfterSurrogates)

(* The units where two texts differ first, or the shorter text first. *)
CompareUnits(left, right, R(_)) ==
  LET both == 1..(IF Len(left) < Len(right) THEN Len(left) ELSE Len(right))
      differ == {n \in both : left[n] # right[n]}
      first == CHOOSE n \in differ : \A m \in differ : n <= m
  IN  IF differ = {} THEN Sign(Len(left) - Len(right))
      ELSE Sign(R(left[first]) - R(right[first]))

CompareText(left, right) == CompareUnits(left, right, CodePointRank)

CompareValues(v, w) ==
  CASE Rank(v) # Rank(w) -> Sign(Rank(v) - Rank(w))
    [] v.kind \in {"number", "date"} -> Sign(v.at - w.at)
    [] v.kind = "text" -> CompareText(v.at, w.at)
    [] v.kind = "boolean" ->
         IF v.at = w.at THEN 0 ELSE IF w.at THEN -1 ELSE 1
    [] OTHER -> 0

(* valuesEqual: === on scalars and null, the same instant for two dates; a  *)
(* stored list or object is never a value of a criteria.                    *)
ValuesEqual(v, target) == v = target

----------------------------------------------------------------------------
(* A list is read by index only. *)
IndexOf == [s \in {"0", "1"} |-> IF s = "0" THEN 1 ELSE 2]

RECURSIVE ReadPath(_, _)
ReadPath(item, path) ==
  IF path = <<>> THEN item
  ELSE LET s == Head(path)
       IN  CASE item.kind = "object" /\ s \in DOMAIN item.at ->
                  ReadPath(item.at[s], Tail(path))
             [] /\ item.kind = "list" /\ s \in DOMAIN IndexOf
                /\ IndexOf[s] \in DOMAIN item.at ->
                  ReadPath(item.at[IndexOf[s]], Tail(path))
             [] OTHER -> Missing

Compares(v, operator, target) ==
  CASE operator = "eq" -> ValuesEqual(v, target)
    [] operator = "ne" -> v.kind # "list" /\ ~ValuesEqual(v, target)
    [] v.kind # target.kind -> FALSE
    [] operator = "gt"  -> CompareValues(v, target) > 0
    [] operator = "gte" -> CompareValues(v, target) >= 0
    [] operator = "lt"  -> CompareValues(v, target) < 0
    [] OTHER -> CompareValues(v, target) <= 0

(* Simple case folding, for a mode of insensitive: 1 and 2 are one letter. *)
Folded(units) == [n \in DOMAIN units |-> IF units[n] = 2 THEN 1 ELSE units[n]]

TextIn(units, operator, part) ==
  CASE operator = "startsWith" -> IsPrefix(part, units)
    [] operator = "endsWith"   -> IsSuffix(part, units)
    [] OTHER -> \E n \in 0..Len(units) :
                  IsPrefix(part, SubSeq(units, n + 1, Len(units)))

TextMatches(v, node) ==
  /\ v.kind = "text"
  /\ IF node.caseSensitive
     THEN TextIn(v.at, node.operator, node.value)
     ELSE TextIn(Folded(v.at), node.operator, Folded(node.value))

SomeEqual(v, values) == \E n \in DOMAIN values : ValuesEqual(v, values[n])

ListHas(v, target) ==
  v.kind = "list" /\ \E n \in DOMAIN v.at : ValuesEqual(v.at[n], target)

RECURSIVE MatchesFilter(_, _)
MatchesFilter(item, node) ==
  CASE node.kind = "all" -> TRUE
    [] node.kind = "and" -> \A n \in DOMAIN node.filters :
                              MatchesFilter(item, node.filters[n])
    [] node.kind = "or"  -> \E n \in DOMAIN node.filters :
                              MatchesFilter(item, node.filters[n])
    [] node.kind = "not" -> ~MatchesFilter(item, node.filter)
    [] OTHER ->
       LET v == ReadPath(item, node.field)
       IN  CASE node.kind = "compare" -> Compares(v, node.operator, node.value)
             [] node.kind = "between" -> /\ Compares(v, "gte", node.min)
                                         /\ Compares(v, "lte", node.max)
             [] node.kind = "in"     -> SomeEqual(v, node.values)
             [] node.kind = "notIn"  -> v.kind # "list"
                                        /\ ~SomeEqual(v, node.values)
             [] node.kind = "text"   -> TextMatches(v, node)
             [] node.kind = "isNull" -> IsNullish(v) = node.value
             [] node.kind = "arrayContains" ->
                  IF node.match = "some"
                  THEN \E n \in DOMAIN node.values : ListHas(v, node.values[n])
                  ELSE \A n \in DOMAIN node.values : ListHas(v, node.values[n])
             [] OTHER -> v.kind = "list" /\ (v.at = <<>>) = node.value

----------------------------------------------------------------------------
(* searchMemory: the matches, in the order of the criteria, one page.       *)

(* compareBy; documents that tie keep the order they came in. *)
CompareBy(order, left, right) ==
  LET results == [n \in DOMAIN order |->
                    LET result == CompareValues(ReadPath(left, order[n].field),
                                                ReadPath(right, order[n].field))
                    IN  IF order[n].direction = "asc" THEN result ELSE -result]
      differ == {n \in DOMAIN order : results[n] # 0}
  IN  IF differ = {} THEN 0
      ELSE results[CHOOSE n \in differ : \A m \in differ : n <= m]

Sorted(items, order) ==
  LET precedes(m, n) ==
        LET result == CompareBy(order, items[m], items[n])
        IN  result < 0 \/ (result = 0 /\ m < n)
      places == SortSeq([n \in DOMAIN items |-> n], precedes)
  IN  [n \in DOMAIN items |-> items[places[n]]]

(* slice(offset, offset + limit); a limit of 0 stands for null. *)
Page(items, pagination) ==
  LET end == IF \/ pagination.limit = 0
                \/ pagination.offset + pagination.limit > Len(items)
             THEN Len(items) ELSE pagination.offset + pagination.limit
  IN  SubSeq(items, pagination.offset + 1, end)

SearchMemory(items, criteria) ==
  LET matched == SelectSeq(items,
                           LAMBDA item : MatchesFilter(item, criteria.filter))
  IN  Page(Sorted(matched, criteria.order), criteria.pagination)
=============================================================================
