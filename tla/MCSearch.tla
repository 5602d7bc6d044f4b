------------------------------ MODULE MCSearch ------------------------------
(* Documents whose field a holds a value of every kind, texts on both sides *)
(* of the surrogates, whose object o is an object, a list or nothing, and   *)
(* whose fields d, e, f and g are of the kind the schema gives them.        *)
EXTENDS Search

id == <<"id">>
a == <<"a">>
b == <<"o", "b">>
first == <<"a", "0">>
d == <<"d">>
e == <<"e">>
f == <<"f">>
g == <<"g">>

t1 == Text(<<1>>)
t2 == Text(<<2>>)
pair == Text(<<1, 3, 4>>)      \* a surrogate pair
high == Text(<<1, 5>>)         \* a unit after the surrogates
long == Text(<<1, 1, 1, 1>>)
yes == Text(<<2, 1, 1>>)       \* 'true',
no == Text(<<2, 1, 2>>)        \* 'false'
dayOne == Text(<<2, 2, 1>>)    \* and two dates
dayTwo == Text(<<2, 2, 2>>)

MCSpelled ==
  [number  |-> t1 :> Number(1) @@ t2 :> Number(2),
   boolean |-> yes :> Bool(TRUE) @@ no :> Bool(FALSE),
   date    |-> dayOne :> Date(1) @@ dayTwo :> Date(2)]

Id(n) == Text(<<n \div 9, (n \div 3) % 3, n % 3>>)
Twos == {n \in 0..26 : n % 3 = 2}   \* ends in 2, or in 6 where it is a capital
Capital(n) == Text(<<n \div 9, (n \div 3) % 3, 6>>)

Doc(n, fields) == Object(("id" :> Id(n)) @@ fields)
With(v) == "a" :> v
D(v) == "d" :> v
E(v) == "e" :> v
F(v) == "f" :> v
G(values) == "g" :> List(values)
O(v) == "o" :> v
B(v) == Object("b" :> v)

MCDocuments ==
  <<Doc(1, With(Number(2)) @@ D(Date(1)) @@ G(<<Number(1), Number(2)>>)),
    Doc(2, With(high) @@ F(Bool(TRUE)) @@ G(<<Number(2)>>)),
    Doc(3, With(Null) @@ D(Null) @@ E(t1)),
    Doc(4, O(B(Number(1))) @@ D(Date(2)) @@ E(t2)),
    Doc(5, With(Number(1)) @@ G(<<>>)), Doc(6, With(pair) @@ F(Bool(FALSE))),
    Doc(7, With(Bool(TRUE))), Doc(8, With(Date(2)) @@ D(Date(1))), Doc(9, With(t2)),
    Doc(10, With(List(<<t1, t2>>))), Doc(11, With(t1)),
    Doc(12, O(List(<<B(Number(1))>>))), Doc(13, With(Number(2)) @@ O(B(Number(2)))),
    Doc(14, O(B(List(<<t1>>)))), Doc(15, With(Date(1))),
    Doc(16, With(List(<<>>))), Doc(17, With(Text(<<1, 2>>)))>>

MCIndexes == {id, a, b, d}

Same(values) == [v \in values |-> v]

(* An identifier has no capitals, a 0 is refused, a list is of numbers.     *)
MCMakes ==
  id :> (Same({Id(n) : n \in 0..26})
         @@ [v \in {Capital(n) : n \in Twos} |->
               Id(CHOOSE n \in Twos : Capital(n) = v)])
  @@ a :> Same({t1, t2, pair, high, long, Text(<<1, 2>>)})
  @@ b :> Same({Number(1), Number(2)})
  @@ d :> Same({Date(1), Date(2)})
  @@ e :> Same({t1, t2})
  @@ f :> Same({Bool(TRUE), Bool(FALSE)})
  @@ g :> (Same({Number(1), Number(2)}) @@ t1 :> Number(1) @@ t2 :> Number(2))

MCKinds == id :> "text" @@ a :> "text" @@ b :> "number" @@ d :> "date"
           @@ e :> "enum" @@ f :> "boolean" @@ g :> "list"

MCFields ==
  [field \in DOMAIN MCKinds |->
     [kind |-> MCKinds[field], sortable |-> field # g, makes |-> MCMakes[field],
      operators |-> OperatorsByKind[MCKinds[field]] \ {"endsWith", "has"}]]

MCLimits == [maxDepth |-> 3, maxNodes |-> 6, maxListSize |-> 2,
             maxTextLength |-> 3, maxOrderFields |-> 2, maxUrlLength |-> 20]

(* Names as long as 'a', 'id' and 'o.b'. *)
MCFieldLength(field) == IF field = id THEN 2 ELSE 2 * Len(field) - 1

(* One character for each code, field and value of the URL. *)
RECURSIVE Letters(_)
Letters(raw) ==
  LET parts == [n \in DOMAIN raw[2] |-> Letters(raw[2][n])]
  IN  CASE raw[1] \in {"and", "or"} -> FoldLeft(+, 2, parts)
        [] raw[1] = "not" -> 1 + Letters(raw[2])
        [] raw[1] \in SetCodes -> 2 + Len(raw[3])
        [] OTHER -> Len(raw)

MCUrlLength(json) ==
  2 + (IF json.f = <<>> THEN 0 ELSE Letters(json.f)) + 2 * Len(json.o)

Field(path, operator, value) ==
  <<[kind |-> "field", field |-> path, mode |-> "none",
     conditions |-> <<[operator |-> operator, value |-> value]>>]>>

TextField(operator, value, mode) ==
  <<[kind |-> "field", field |-> a, mode |-> mode,
     conditions |-> <<[operator |-> operator, value |-> value]>>]>>

(* isNull is not asked of an index of a list: what MongoDB answers for null *)
(* where a list is too short is outside the source, and no test tells.      *)
Scalars == {Number(1), Number(2), t1, t2, pair, high, Bool(TRUE), Date(1)}

Singles ==
  {Field(a, o, v) : o \in {"eq", "ne", "gt", "gte", "lt", "lte"}, v \in Scalars}
  \cup {Field(a, "between", <<v, w>>) : v, w \in {Number(2), t1, pair, high, Date(2)}}
  \cup {Field(p, o, <<v, w>>) : p \in {a, first}, o \in {"in", "nin"},
                                v \in {t1, Number(1)}, w \in {t1, t2}}
  \cup {Field(a, o, <<t1, t2>>) : o \in {"hasSome", "hasEvery"}}
  \cup {TextField(o, units, mode) :
          o \in TextOperators, units \in {<<1>>, <<1, 2>>, <<1, 6>>},
          mode \in {"none", "insensitive"}}
  \cup {Field(p, o, value) : p \in {a, b}, o \in {"isNull", "isEmpty"},
                             value \in BOOLEAN}
  \cup {Field(first, "isEmpty", value) : value \in BOOLEAN}
  \cup {Field(p, o, v) : p \in {b, first}, o \in {"eq", "ne", "has", "lt"},
                         v \in {Number(1), t1}}
  \cup {Field(p, o, <<Number(1)>>) : p \in {b}, o \in {"in", "nin", "hasSome"}}
  \cup {Field(b, "eq", Null), TextField("eq", t1, "insensitive"), Field(a, "in", <<>>)}

(* What a schema reads another way than it is written, refuses, or measures.*)
Read ==
  {Field(b, o, v) : o \in {"gte", "ne"}, v \in {t2, Number(0), high}}
  \cup {Field(b, o, <<t1, Number(2)>>) : o \in {"in", "nin", "between"}}
  \cup {Field(d, o, v) : o \in {"eq", "ne", "lte", "gt"},
                         v \in {Date(1), Number(2), dayTwo, t1}}
  \cup {Field(d, o, <<Number(1), w>>) : o \in {"in", "between"}, w \in {dayTwo, Date(2)}}
  \cup {Field(f, o, v) : o \in {"eq", "ne"}, v \in {Bool(TRUE), no, t1}}
  \cup {Field(g, o, <<v, w>>) : o \in {"hasSome", "hasEvery"},
                                v \in {t1, Number(1)}, w \in {t2, Number(2), high}}
  \cup {Field(g, o, v) : o \in {"has"}, v \in {t2, Number(1), high}}
  \cup {Field(g, o, value) : o \in {"isEmpty", "isNull"}, value \in BOOLEAN}
  \cup {Field(e, o, v) : o \in {"eq", "ne", "lt"}, v \in {t1, high}}
  \cup {Field(e, o, <<t2, v>>) : o \in {"in", "nin"}, v \in {t1, Number(1)}}
  \cup {Field(id, o, v) : o \in {"eq", "ne", "lt"}, v \in {Capital(11), Id(11)}}
  \cup {Field(id, "in", <<Capital(5), Id(7)>>), Field(a, "ne", long),
        Field(a, "in", <<t1, t2, high>>), Field(a, "nin", <<t1, long>>),
        TextField("contains", <<1, 1, 1, 1>>, "none"), Field(e, "eq", Null)}

Few == {Field(a, "gte", t1), Field(a, "ne", t1), Field(b, "eq", Number(1)),
        Field(id, "lt", Capital(14)), <<>>}

Logic(kind, wheres) == <<[kind |-> kind, wheres |-> wheres]>>
Not(w) == <<[kind |-> "NOT", where |-> w]>>

Pairs == {Logic(kind, <<v, w>>) : kind \in {"AND", "OR"}, v, w \in Few}

Nested == {Logic(kind, <<v, w>>) : kind \in {"AND", "OR"},
             v \in {Field(a, "lte", high)},
             w \in {Logic("OR", <<Field(a, "ne", t1), Field(b, "eq", Number(1))>>),
                    Logic("AND", <<Field(a, "ne", t1), Field(b, "eq", Number(1))>>)}}

MCNarrowings == Few \cup Nested \cup {Not(w) : w \in Few}
                \cup {Field(a, "in", <<t1, t2>>), Field(a, "in", <<t2, t1>>),
                      Field(a, "hasSome", <<t1, t2>>)}

By(path, direction) == [field |-> path, direction |-> direction]

MCOrders == {<<By(id, "desc")>>, <<By(a, "desc"), By(id, "asc")>>,
             <<By(b, "asc"), By(b, "desc")>>, <<By(d, "desc"), By(a, "asc")>>}
MCPages == {<<1, 2>>, <<2, 3>>}

MCInputs ==
  [where : Singles, orderBy : {<<By(a, "asc")>>, <<By(a, "desc")>>},
   pagination : {[limit |-> 2, offset |-> 1]}]
  \cup [where : Singles \cup Pairs \cup Nested \cup {Not(w) : w \in Few \cup Nested}
                  \cup {Logic("OR", <<>>), <<Field(a, "ne", t1)[1], Field(b, "ne", Null)[1]>>},
        orderBy : {<<>>}, pagination : {Whole}]
  \cup [where : Read, orderBy : {<<>>, <<By(d, "asc")>>}, pagination : {Whole}]
  \cup [where : Few, orderBy : {<<By(a, "asc"), By(id, "desc")>>,
                                <<By(id, "desc")>>, <<By(first, "asc")>>,
                                <<By(a, "asc"), By(a, "desc")>>,
                                <<By(f, "asc"), By(b, "desc")>>, <<By(g, "asc")>>,
                                <<By(a, "asc"), By(b, "asc"), By(id, "asc")>>},
        pagination : {Whole, [limit |-> 9, offset |-> 0],
                      [limit |-> 3, offset |-> 9]}]
=============================================================================
