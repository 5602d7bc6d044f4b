------------------------ MODULE IndexedDbTable_proofs ------------------------
(***************************************************************************)
(* Proofs about IndexedDbTable, for any table, operations, queries, sizes   *)
(* of batches and number of transactions: what a caller of                  *)
(* IndexedDbTransaction.run is told of its transaction, and which rows an   *)
(* iteration hands out while transactions write.                            *)
(***************************************************************************)
EXTENDS IndexedDbTable, FiniteSetTheorems, SequenceTheorems, WellFoundedInduction, TLAPS

----------------------------------------------------------------------------
(* The queue of requests is a sequence, whatever its requests are. *)

IsSeq(s) == s \in Seq({s[i] : i \in DOMAIN s})

\* Every sequence over a set is one.
LEMMA SequenceIsSeq ==
  ASSUME NEW S, NEW s \in Seq(S) PROVE IsSeq(s)
<1>1. /\ Len(s) \in Nat /\ DOMAIN s = 1..Len(s)
      /\ s = [i \in 1..Len(s) |-> s[i]]
  OBVIOUS
<1>2. s \in [1..Len(s) -> {s[i] : i \in DOMAIN s}]
  BY <1>1
<1> QED BY <1>1, <1>2 DEF IsSeq

\* So is what is left of one, and one after another.
LEMMA TailIsSeq ==
  ASSUME NEW s, IsSeq(s), s # <<>> PROVE IsSeq(Tail(s))
<1>1. Tail(s) \in Seq({s[i] : i \in DOMAIN s})
  BY DEF IsSeq
<1> QED BY <1>1, SequenceIsSeq

LEMMA ConcatIsSeq ==
  ASSUME NEW s, NEW t, IsSeq(s), IsSeq(t)
  PROVE  IsSeq(s \o t) /\ (t # <<>> => s \o t # <<>>)
<1> DEFINE S == {s[i] : i \in DOMAIN s} \cup {t[i] : i \in DOMAIN t}
<1>1. s \in Seq(S) /\ t \in Seq(S)
  <2>1. s \in Seq({s[i] : i \in DOMAIN s}) /\ t \in Seq({t[i] : i \in DOMAIN t})
    BY DEF IsSeq
  <2>2. {s[i] : i \in DOMAIN s} \subseteq S /\ {t[i] : i \in DOMAIN t} \subseteq S
    OBVIOUS
  <2> QED BY <2>1, <2>2
<1> HIDE DEF S
<1>2. s \o t \in Seq(S) /\ Len(s \o t) = Len(s) + Len(t)
  BY <1>1
<1>3. t # <<>> => Len(s \o t) # 0
  BY <1>1, <1>2
<1>4. t # <<>> => s \o t # <<>>
  <2>1. Len(<<>>) = 0
    OBVIOUS
  <2> QED BY <1>3, <2>1
<1>5. IsSeq(s \o t)
  BY <1>2, SequenceIsSeq
<1> QED BY <1>4, <1>5

\* The requests of an operation come in a sequence.
LEMMA RequestsOfIsSeq ==
  ASSUME NEW o \in Operations, NEW awaited PROVE IsSeq(RequestsOf(o, awaited))
<1> DEFINE each(kind) == [n \in 1..Len(o.ids) |->
                            [kind |-> kind, id |-> o.ids[n], row |-> o.row,
                             plan |-> None, awaited |-> awaited]]
           one == [kind |-> o.kind, id |-> None, row |-> None,
                   plan |-> o.plan, awaited |-> awaited]
<1>1. ASSUME NEW kind PROVE IsSeq(each(kind))
  <2>1. Len(o.ids) \in Nat
    BY OperationsAssumption
  <2> DEFINE e == each(kind)
  <2>2. DOMAIN e = 1..Len(o.ids)
    OBVIOUS
  <2>3. e \in [1..Len(o.ids) -> {e[i] : i \in DOMAIN e}]
    BY <2>2
  <2> HIDE DEF e
  <2>4. e \in Seq({e[i] : i \in DOMAIN e})
    BY <2>1, <2>3
  <2>5. IsSeq(e)
    BY <2>4 DEF IsSeq
  <2> QED BY <2>5 DEF e
<1>2. IsSeq(<<one>>)
  <2>1. <<one>> \in Seq({one})
    OBVIOUS
  <2> QED BY <2>1, SequenceIsSeq
<1>3. \/ \E kind \in {"add", "put", "delete", "getKey", "get"} :
           RequestsOf(o, awaited) = each(kind)
      \/ RequestsOf(o, awaited) = <<one>>
  BY Zenon DEF RequestsOf
<1> QED BY <1>1, <1>2, <1>3

\* At most one request follows another.
LEMMA FollowUpIsSeq ==
  ASSUME NEW r, NEW t PROVE IsSeq(FollowUp(r, t))
<1> DEFINE next == [r EXCEPT !.kind = "put", !.row = Patched(r, t)]
<1>1. <<next>> \in Seq({next}) /\ <<>> \in Seq({})
  OBVIOUS
<1>2. FollowUp(r, t) = <<next>> \/ FollowUp(r, t) = <<>>
  BY DEF FollowUp
<1> QED BY <1>1, <1>2, SequenceIsSeq

----------------------------------------------------------------------------
(* The inductive invariant: how far the transaction, its work and its       *)
(* promise may be from each other.                                          *)

Kinds ==
  /\ tx \in {"none", "open", "failing", "aborting", "aborted", "committed"}
  /\ work \in {"none", "running", "awaiting", "elsewhere", "returned", "threw"}
  /\ promise \in {"none", "pending", "resolved", "rejected"}
  /\ completed \in BOOLEAN /\ errored \in BOOLEAN /\ strayed \in BOOLEAN
  /\ active \in BOOLEAN /\ failure \in BOOLEAN
  /\ IsSeq(requests)

\* What a transaction that is not over yet says of the rest.
Underway ==
  /\ promise = "none" => tx = "none"
  /\ tx = "none" => promise \in {"none", "rejected"} /\ work = "none"
  /\ tx \in {"open", "failing"} => promise = "pending" /\ work \notin {"none", "threw"}
  /\ tx = "open" => ~errored
  /\ tx = "aborting" => promise \in {"pending", "rejected"}
  /\ tx # "committed" => rows = before
  /\ work = "elsewhere" => strayed
  /\ work = "awaiting" => requests # <<>>

\* What one that is over says.
Over ==
  /\ completed => tx = "committed"
  /\ tx = "aborted" => promise = "rejected"
  /\ tx = "committed" => /\ ~errored
                         /\ work = "returned" \/ strayed
                         /\ promise = "rejected" => strayed
                         /\ work = "threw" => promise # "pending"
                         /\ completed /\ work = "returned" => promise # "pending"

IInv == Kinds /\ Underway /\ Over /\ ResolvedIsCommitted

\* The invariant holds of a table nobody has used, ...
LEMMA InitHolds == Init => IInv
<1> SUFFICES ASSUME Init PROVE IInv
  OBVIOUS
<1>1. IsSeq(<<>>)
  <2>1. <<>> \in Seq({})
    OBVIOUS
  <2> QED BY <2>1, SequenceIsSeq
<1> QED BY <1>1 DEF Init, TransactionInit, IInv, Kinds, Underway, Over, ResolvedIsCommitted

\* ... of a transaction that begins, ...
LEMMA OpenHolds == IInv /\ (Open \/ OpenFails) => IInv'
<1> SUFFICES ASSUME IInv, Open \/ OpenFails PROVE IInv'
  OBVIOUS
<1>1. IsSeq(<<>>)
  <2>1. <<>> \in Seq({})
    OBVIOUS
  <2> QED BY <2>1, SequenceIsSeq
<1>2. requests' = <<>> /\ IsSeq(requests')
  BY <1>1 DEF Open, OpenFails
<1>3. CASE Open
  BY <1>2, <1>3 DEF Open, IInv, Kinds, Underway, Over, ResolvedIsCommitted
<1>4. CASE OpenFails
  BY <1>2, <1>4 DEF OpenFails, IInv, Kinds, Underway, Over, ResolvedIsCommitted
<1> QED BY <1>3, <1>4

\* ... after each step of the work, ...
LEMMA WorkHolds == IInv /\ Work => IInv'
<1> SUFFICES ASSUME IInv, Work PROVE IInv'
  OBVIOUS
<1> USE DEF IInv, Kinds, Underway, Over, ResolvedIsCommitted
<1>1. ASSUME NEW o \in Operations, NEW awaited \in BOOLEAN, Ask(o, awaited) PROVE IInv'
  <2>1. IsSeq(requests') /\ (RequestsOf(o, awaited) # <<>> => requests' # <<>>)
    BY <1>1, RequestsOfIsSeq, ConcatIsSeq DEF Ask
  <2> QED BY <1>1, <2>1 DEF Ask
<1>2. CASE AwaitElsewhere
  BY <1>2 DEF AwaitElsewhere
<1>3. CASE ComeBack
  BY <1>3 DEF ComeBack, boundVars
<1>4. CASE Return
  BY <1>4 DEF Return, boundVars
<1>5. CASE Throw
  BY <1>5 DEF Throw, boundVars
<1> QED BY <1>1, <1>2, <1>3, <1>4, <1>5 DEF Work

\* Work that goes on awaiting awaits a request that is queued.
LEMMA ResumedAwaits ==
  ASSUME NEW queue, NEW failed, Resumed(queue, failed) = "awaiting"
  PROVE  work = "awaiting" /\ queue # <<>>
<1>1. work = "awaiting" /\ AwaitsOne(queue)
  BY DEF Resumed
<1> QED BY <1>1 DEF AwaitsOne

\* ... and after each of the browser.
LEMMA BrowserHolds == IInv /\ Browser => IInv'
<1> SUFFICES ASSUME IInv, Browser PROVE IInv'
  OBVIOUS
<1> USE DEF IInv, Kinds, Underway, Over, ResolvedIsCommitted, BrowserMayAct, boundVars
<1>1. ASSUME NEW queue, NEW failed, work' = Resumed(queue, failed)
      PROVE  /\ work' = work \/ (work = "awaiting" /\ work' = "running")
             /\ work' = "awaiting" => queue # <<>>
  BY <1>1, ResumedAwaits DEF Resumed
<1>2. CASE Execute
  <2> DEFINE r == Head(requests)
             queue == Tail(requests) \o FollowUp(r, draft)
  <2>1. requests' = queue /\ work' = Resumed(queue, NotFound(r, draft) /\ r.awaited)
    BY <1>2 DEF Execute
  <2>2. IsSeq(queue)
    BY <1>2, TailIsSeq, FollowUpIsSeq, ConcatIsSeq DEF Execute
  <2> HIDE DEF queue, r
  <2>3. /\ work' = work \/ (work = "awaiting" /\ work' = "running")
        /\ work' = "awaiting" => requests' # <<>>
    BY <1>1, <2>1
  <2>4. UNCHANGED <<rows, tx, failure, completed, promise, before, strayed, errored>>
        /\ tx = "open" /\ active' \in BOOLEAN
    BY <1>2 DEF Execute
  <2> QED BY <2>1, <2>2, <2>3, <2>4
<1>3. CASE Fail
  <2>1. /\ requests' = Tail(requests) /\ requests # <<>>
        /\ work' = Resumed(Tail(requests), Head(requests).awaited)
    BY <1>3 DEF Fail
  <2>2. IsSeq(requests')
    BY <2>1, TailIsSeq
  <2>3. /\ work' = work \/ (work = "awaiting" /\ work' = "running")
        /\ work' = "awaiting" => requests' # <<>>
    BY <1>1, <2>1
  <2>4. /\ UNCHANGED <<rows, completed, promise, before, strayed>>
        /\ tx = "open" /\ tx' = "failing" /\ errored' = TRUE
        /\ active' \in BOOLEAN /\ failure' = failure
    BY <1>3 DEF Fail
  <2> QED BY <2>2, <2>3, <2>4
<1>4. CASE OnError
  BY <1>4 DEF OnError
<1>5. CASE AbortAlone
  BY <1>5 DEF AbortAlone
<1>6. CASE AbortRequests
  <2>1. IsSeq(<<>>)
    <3>1. <<>> \in Seq({})
      OBVIOUS
    <3> QED BY <3>1, SequenceIsSeq
  <2>2. requests' = <<>> /\ work' = Resumed(<<>>, TRUE)
    BY <1>6 DEF AbortRequests
  <2>3. /\ work' = work \/ (work = "awaiting" /\ work' = "running")
        /\ work' # "awaiting"
    BY <1>1, <2>2
  <2>4. /\ UNCHANGED <<rows, tx, completed, promise, before, strayed, errored>>
        /\ tx = "aborting" /\ active' \in BOOLEAN /\ failure' \in BOOLEAN
    BY <1>6 DEF AbortRequests
  <2> QED BY <2>1, <2>2, <2>3, <2>4
<1>7. CASE OnAbort
  BY <1>7 DEF OnAbort
<1>8. CASE Commit
  BY <1>8 DEF Commit
<1>9. CASE OnComplete
  BY <1>9 DEF OnComplete
<1> QED BY <1>2, <1>3, <1>4, <1>5, <1>6, <1>7, <1>8, <1>9 DEF Browser

LEMMA StepHolds == IInv /\ [Next]_vars => IInv'
<1> SUFFICES ASSUME IInv, [Next]_vars PROVE IInv'
  OBVIOUS
<1>1. CASE Write
  BY <1>1, OpenHolds, WorkHolds, BrowserHolds DEF Write, TransactionNext
<1>2. CASE UNCHANGED txVars
  BY <1>2 DEF txVars, runVars, IInv, Kinds, Underway, Over, ResolvedIsCommitted
<1>3. CASE ReadBatch \/ LimitReached \/ ReadFails
  BY <1>2, <1>3 DEF ReadBatch, LimitReached, ReadFails
<1>4. CASE UNCHANGED vars
  BY <1>2, <1>4 DEF vars
<1> QED BY <1>1, <1>3, <1>4 DEF Next

----------------------------------------------------------------------------
\* Recursion on a number of turns.

LEMMA Least ==
    ASSUME NEW T, T \subseteq Nat, T # {}
    PROVE  \E x \in T : \A y \in T : x <= y
<1> DEFINE R == OpToRel(<, Nat)
<1>1. IsWellFoundedOn(R, Nat)
  BY NatLessThanWellFounded
<1>2. \A x, y \in Nat : x < y => <<x, y>> \in R
  BY DEF OpToRel
<1> HIDE DEF R
<1>3. PICK x \in T : \A y \in T : <<y, x>> \notin R
  BY <1>1, WFMin
<1>4. ASSUME NEW y \in T PROVE x <= y
  <2>1. x \in Nat /\ y \in Nat
    OBVIOUS
  <2>2. <<y, x>> \notin R
    BY <1>3
  <2>3. ~(y < x)
    BY <1>2, <2>1, <2>2
  <2> QED
    BY <2>1, <2>3
<1> QED
  BY <1>4

LEMMA Induct ==
    ASSUME NEW S, 0 \in S, \A n \in Nat : n \in S => n + 1 \in S
    PROVE  Nat \subseteq S
<1> SUFFICES ASSUME Nat \ S # {} PROVE FALSE
  OBVIOUS
<1>1. PICK x \in Nat \ S : \A y \in Nat \ S : x <= y
  BY Least
<1>2. x # 0 /\ x - 1 \in Nat
  BY <1>1
<1>3. x - 1 \in S
  BY <1>1, <1>2
<1> QED
  BY <1>1, <1>2, <1>3

\* A function that is defined by recursion on the positions of a list exists.
Rules(last, Values) == [1..last -> [Values -> Values]]
HasRun(last, Values, x0, rule) ==
    \E f \in [0..last -> Values] : f[0] = x0 /\ \A i \in 1..last : f[i] = rule[i][f[i - 1]]

LEMMA Recursion ==
    ASSUME NEW last \in Nat, NEW Values, NEW x0 \in Values,
           NEW rule \in Rules(last, Values)
    PROVE  HasRun(last, Values, x0, rule)
<1> DEFINE Good(n, f) == f[0] = x0 /\ \A i \in 1..n : f[i] = rule[i][f[i - 1]]
           S == {n \in Nat : n <= last => \E f \in [0..n -> Values] : Good(n, f)}
<1>1. 0 \in S
  <2>1. [i \in 0..0 |-> x0] \in [0..0 -> Values] /\ Good(0, [i \in 0..0 |-> x0])
    OBVIOUS
  <2> QED
    BY <2>1
<1>2. ASSUME NEW n \in Nat, n \in S PROVE n + 1 \in S
  <2> SUFFICES ASSUME n + 1 <= last PROVE \E f \in [0..n + 1 -> Values] : Good(n + 1, f)
    OBVIOUS
  <2>1. PICK f \in [0..n -> Values] : Good(n, f)
    BY <1>2
  <2> DEFINE y == rule[n + 1][f[n]]
             g == [i \in 0..n + 1 |-> IF i = n + 1 THEN y ELSE f[i]]
  <2>2. n + 1 \in 1..last /\ f[n] \in Values /\ rule \in [1..last -> [Values -> Values]]
    BY DEF Rules
  <2>3. y \in Values
    BY <2>2
  <2> HIDE DEF y
  <2>4. g \in [0..n + 1 -> Values]
    BY <2>3
  <2>5. g[0] = x0
    BY <2>1
  <2>6. ASSUME NEW i \in 1..n + 1 PROVE g[i] = rule[i][g[i - 1]]
    <3>1. CASE i = n + 1
      BY <3>1 DEF y
    <3>2. CASE i # n + 1
      <4>1. i \in 1..n /\ i - 1 \in 0..n /\ i - 1 # n + 1
        BY <3>2
      <4> QED
        BY <2>1, <4>1
    <3> QED
      BY <3>1, <3>2
  <2> QED
    BY <2>4, <2>5, <2>6
<1>3. last \in S
  <2> HIDE DEF S
  <2>1. Nat \subseteq S
    BY <1>1, <1>2, Induct
  <2> QED
    BY <2>1
<1> QED
  BY <1>3 DEF HasRun

----------------------------------------------------------------------------
(* Positions and their order, and sets of positions in that order. *)

Position == Nat \X Nat

Direction(p) == p.forward \in BOOLEAN /\ p.index \in BOOLEAN /\ p.unique \in BOOLEAN
                /\ p.filtered \in BOOLEAN

LEMMA Pairs ==
  ASSUME NEW p \in Position, NEW q \in Position
  PROVE  /\ p[1] \in Nat /\ p[2] \in Nat /\ q[1] \in Nat /\ q[2] \in Nat
         /\ p = q <=> p[1] = q[1] /\ p[2] = q[2]
BY DEF Position

LEMMA BeforeOrders ==
  ASSUME NEW some, Direction(some),
         NEW p \in Position, NEW q \in Position, NEW u \in Position
  PROVE  /\ ~Before(some, p, p)
         /\ p = q \/ Before(some, p, q) \/ Before(some, q, p)
         /\ ~(Before(some, p, q) /\ Before(some, q, p))
         /\ Before(some, p, q) /\ Before(some, q, u) => Before(some, p, u)
<1>1. /\ p[1] \in Nat /\ p[2] \in Nat /\ q[1] \in Nat /\ q[2] \in Nat
      /\ u[1] \in Nat /\ u[2] \in Nat
      /\ p = q <=> p[1] = q[1] /\ p[2] = q[2]
      /\ p = u <=> p[1] = u[1] /\ p[2] = u[2]
      /\ q = u <=> q[1] = u[1] /\ q[2] = u[2]
  BY Pairs
<1>2. CASE some.forward
  BY <1>1, <1>2 DEF Before
<1>3. CASE ~some.forward
  BY <1>1, <1>3 DEF Before
<1> QED BY <1>2, <1>3

Preceding(some, S, p) == {q \in S : Before(some, q, p)}

\* InOrder lists the positions of a finite set, each once, in the order of a plan.
LEMMA InOrderIs ==
  ASSUME NEW some, Direction(some), NEW S, S \subseteq Position, IsFiniteSet(S)
  PROVE  /\ Cardinality(S) \in Nat
         /\ InOrder(some, S) \in [1..Cardinality(S) -> S]
         /\ \A p \in S : \E n \in 1..Cardinality(S) : InOrder(some, S)[n] = p
         /\ \A m, n \in 1..Cardinality(S) :
               m < n => Before(some, InOrder(some, S)[m], InOrder(some, S)[n])
         /\ \A n \in 1..Cardinality(S), p \in S :
               Cardinality(Preceding(some, S, p)) = n - 1 <=> InOrder(some, S)[n] = p
<1> DEFINE N == Cardinality(S)
           preds(p) == {q \in S : Before(some, q, p)}
           r == [p \in S |-> Cardinality(preds(p))]
           T == 0..N - 1
<1>1. N \in Nat
  BY FS_CardinalityType
<1>2. ASSUME NEW p \in S
      PROVE  IsFiniteSet(preds(p)) /\ Cardinality(preds(p)) \in Nat
             /\ preds(p) \subseteq S \ {p} /\ r[p] = Cardinality(preds(p)) /\ r[p] \in T
  <2>1. preds(p) \subseteq S \ {p}
    BY BeforeOrders
  <2>2. IsFiniteSet(S \ {p}) /\ Cardinality(S \ {p}) = N - 1
    BY FS_RemoveElement
  <2> HIDE DEF preds
  <2>3. IsFiniteSet(preds(p)) /\ Cardinality(preds(p)) <= N - 1
    BY <2>1, <2>2, FS_Subset
  <2>4. Cardinality(preds(p)) \in Nat
    BY <2>3, FS_CardinalityType
  <2> QED BY <1>1, <2>1, <2>3, <2>4
<1>3. ASSUME NEW p \in S, NEW q \in S, Before(some, p, q) PROVE r[p] < r[q]
  <2>1. p \in Position /\ q \in Position
    OBVIOUS
  <2>2. p \in preds(q) /\ p \notin preds(p)
    BY <1>3, <2>1, BeforeOrders
  <2>3. preds(p) \subseteq preds(q)
    <3>1. ASSUME NEW x \in S, Before(some, x, p) PROVE Before(some, x, q)
      <4>1. x \in Position
        OBVIOUS
      <4> QED BY <1>3, <2>1, <3>1, <4>1, BeforeOrders
    <3> QED BY <3>1
  <2>4. IsFiniteSet(preds(q)) /\ Cardinality(preds(q)) \in Nat /\ Cardinality(preds(p)) \in Nat
        /\ r[q] = Cardinality(preds(q)) /\ r[p] = Cardinality(preds(p))
    BY <1>2
  <2> HIDE DEF preds, r
  <2>5. Cardinality(preds(p)) <= Cardinality(preds(q))
        /\ (Cardinality(preds(q)) = Cardinality(preds(p)) => preds(q) = preds(p))
    BY <2>3, <2>4, FS_Subset
  <2> QED BY <2>2, <2>4, <2>5
<1>4. \A p, q \in S : r[p] = r[q] => p = q
  <2> SUFFICES ASSUME NEW p \in S, NEW q \in S, r[p] = r[q] PROVE p = q
    OBVIOUS
  <2>1. p \in Position /\ q \in Position
    OBVIOUS
  <2>2. r[p] \in T /\ r[q] \in T
    BY <1>2
  <2>3. ~(r[p] < r[q]) /\ ~(r[q] < r[p])
    BY <1>1, <2>2
  <2>4. ~Before(some, p, q) /\ ~Before(some, q, p)
    BY <1>3, <2>3
  <2> QED BY <2>1, <2>4, BeforeOrders
<1>5. r \in Injection(S, T)
  <2>1. r \in [S -> T]
    BY <1>2
  <2> QED BY <1>4, <2>1 DEF Injection, IsInjective
<1>6. IsFiniteSet(T) /\ Cardinality(T) = N
  <2> DEFINE e == N - 1
  <2>1. 0 \in Int /\ e \in Int /\ T = 0..e
    BY <1>1
  <2>2. N = IF 0 > e THEN 0 ELSE e - 0 + 1
    BY <1>1
  <2> HIDE DEF e, T, N
  <2> QED BY <2>1, <2>2, FS_Interval
<1>7. \A t \in T : \E p \in S : r[p] = t
  <2> HIDE DEF r, T
  <2>1. r \in Surjection(S, T)
    BY <1>5, <1>6, FS_Injection
  <2> QED BY <2>1 DEF Surjection
<1> DEFINE F == InOrder(some, S)
           at(n) == CHOOSE p \in S : Cardinality(preds(p)) = n - 1
<1>8. ASSUME NEW n \in 1..N PROVE at(n) \in S /\ r[at(n)] = n - 1
  <2>1. n - 1 \in T
    BY <1>1
  <2>2. \E p \in S : Cardinality(preds(p)) = n - 1
    BY <1>7, <2>1
  <2>3. at(n) \in S /\ Cardinality(preds(at(n))) = n - 1
    BY <2>2
  <2> QED BY <2>3
<1>9. F = [n \in 1..N |-> at(n)]
  BY DEF InOrder
<1> HIDE DEF F, r, at
<1>10. F \in [1..N -> S] /\ \A n \in 1..N : r[F[n]] = n - 1
  BY <1>8, <1>9
<1>11. ASSUME NEW p \in S PROVE \E n \in 1..N : F[n] = p
  <2>1. r[p] \in T
    BY <1>2
  <2>2. r[p] + 1 \in 1..N
    BY <1>1, <2>1
  <2>3. r[F[r[p] + 1]] = r[p] /\ F[r[p] + 1] \in S
    BY <1>10, <2>1, <2>2
  <2>4. F[r[p] + 1] = p
    BY <1>4, <2>3
  <2> QED BY <2>2, <2>4
<1>12. ASSUME NEW m \in 1..N, NEW n \in 1..N, m < n PROVE Before(some, F[m], F[n])
  <2>1. F[m] \in S /\ F[n] \in S /\ r[F[m]] < r[F[n]]
    BY <1>10, <1>12
  <2>2. F[m] # F[n] /\ ~(r[F[n]] < r[F[m]])
    <3>1. r[F[m]] \in T /\ r[F[n]] \in T
      BY <1>2, <2>1
    <3> QED BY <1>1, <2>1, <3>1
  <2>3. ~Before(some, F[n], F[m])
    BY <1>3, <2>1, <2>2
  <2>4. F[m] \in Position /\ F[n] \in Position
    BY <2>1
  <2> QED BY <2>2, <2>3, <2>4, BeforeOrders
<1>13. ASSUME NEW n \in 1..N, NEW p \in S
       PROVE  Cardinality(Preceding(some, S, p)) = n - 1 <=> F[n] = p
  <2>1. r[p] = Cardinality(Preceding(some, S, p))
    BY DEF r, Preceding
  <2>2. r[F[n]] = n - 1 /\ F[n] \in S
    BY <1>10
  <2> QED BY <1>4, <2>1, <2>2
<1> QED BY <1>1, <1>10, <1>11, <1>12, <1>13 DEF F

----------------------------------------------------------------------------
(* The positions of a source, and those that a plan chooses. *)

LEMMA PositionsAre ==
  ASSUME NEW t \in Tables, NEW index \in BOOLEAN
  PROVE  /\ Positions(t, index) \subseteq Position /\ IsFiniteSet(Positions(t, index))
         /\ Cardinality(Positions(t, index)) \in Nat /\ Unlimited \in Nat
         /\ Cardinality(Positions(t, index)) < Unlimited
         /\ \A p \in Positions(t, index) :
              p[2] \in Present(t) /\ p[1] # 0 /\ (~index => p[1] = p[2])
<1> DEFINE a == Cardinality(Ids)
           b == Cardinality(Keys)
<1>1. /\ IsFiniteSet(Ids) /\ IsFiniteSet(Keys) /\ a \in Nat /\ b \in Nat
      /\ Ids \subseteq Nat /\ Keys \subseteq Nat /\ 0 \notin Ids /\ 0 \notin Keys
  BY FS_CardinalityType, KeysAssumption
<1>2. \A i \in Present(t) : i \in Ids /\ t[i].keys \subseteq Keys
  BY DEF Present, Tables, Rows
<1>3. a * b \in Nat /\ Unlimited = a * b + a + 1 /\ Unlimited \in Nat
  BY <1>1 DEF Unlimited
<1>4. CASE index
  <2>1. \A p \in Positions(t, index) :
          \E i \in Present(t) : \E k \in t[i].keys : p = <<k, i>>
    BY <1>4 DEF Positions
  <2>2. Positions(t, index) \subseteq Keys \X Ids
    BY <1>2, <2>1
  <2>3. IsFiniteSet(Keys \X Ids) /\ Cardinality(Keys \X Ids) = b * a
    BY <1>1, FS_Product
  <2> HIDE DEF a, b
  <2>4. /\ IsFiniteSet(Positions(t, index)) /\ Cardinality(Positions(t, index)) <= b * a
        /\ Cardinality(Positions(t, index)) \in Nat
    BY <2>2, <2>3, FS_Subset, FS_CardinalityType
  <2>5. b * a = a * b
    BY <1>1
  <2>6. Cardinality(Positions(t, index)) < Unlimited
    BY <1>1, <1>3, <2>4, <2>5
  <2>7. ASSUME NEW p \in Positions(t, index)
        PROVE  p[1] # 0 /\ p[2] \in Present(t) /\ p \in Position
    <3>1. PICK i \in Present(t) : \E k \in t[i].keys : p = <<k, i>>
      BY <2>1
    <3>2. PICK k \in t[i].keys : p = <<k, i>>
      BY <3>1
    <3>3. i \in Nat /\ k \in Nat /\ k # 0
      BY <1>1, <1>2
    <3> QED BY <3>2, <3>3 DEF Position
  <2>8. Positions(t, index) \subseteq Position
    BY <2>7
  <2> QED BY <1>3, <1>4, <2>4, <2>6, <2>7, <2>8
<1>5. CASE ~index
  <2> DEFINE f == [i \in Present(t) |-> <<i, i>>]
  <2>1. Present(t) \subseteq Ids /\ Positions(t, index) = {<<i, i>> : i \in Present(t)}
    BY <1>5 DEF Present, Positions
  <2>2. f \in Surjection(Present(t), Positions(t, index))
    BY <2>1 DEF Surjection
  <2> HIDE DEF a, b, f
  <2>3. IsFiniteSet(Present(t)) /\ Cardinality(Present(t)) <= a
    BY <1>1, <2>1, FS_Subset DEF a
  <2>4. Cardinality(Present(t)) \in Nat
    BY <2>3, FS_CardinalityType
  <2>5. /\ IsFiniteSet(Positions(t, index))
        /\ Cardinality(Positions(t, index)) <= Cardinality(Present(t))
    BY <2>2, <2>3, FS_Surjection
  <2>6. Cardinality(Positions(t, index)) \in Nat
    BY <2>5, FS_CardinalityType
  <2>7. Cardinality(Positions(t, index)) < Unlimited
    BY <1>1, <1>3, <2>3, <2>4, <2>5, <2>6
  <2>8. ASSUME NEW p \in Positions(t, index)
        PROVE  p[1] = p[2] /\ p[1] # 0 /\ p[2] \in Present(t) /\ p \in Position
    <3>1. PICK i \in Present(t) : p = <<i, i>>
      BY <2>1
    <3>2. i \in Nat /\ i # 0
      BY <1>1, <2>1
    <3> QED BY <3>1, <3>2 DEF Position
  <2>9. Positions(t, index) \subseteq Position
    BY <2>8
  <2> QED BY <1>3, <1>5, <2>5, <2>6, <2>7, <2>8, <2>9
<1> QED BY <1>4, <1>5

LEMMA ChosenIs ==
  ASSUME NEW t \in Tables, NEW some, Direction(some), NEW range
  PROVE  /\ Chosen(t, some, range) \subseteq Visits(t, some, range)
         /\ Visits(t, some, range) \subseteq Positions(t, some.index)
         /\ Visits(t, some, range) \subseteq Position
         /\ IsFiniteSet(Visits(t, some, range)) /\ IsFiniteSet(Chosen(t, some, range))
         /\ Cardinality(Visits(t, some, range)) \in Nat
         /\ Cardinality(Visits(t, some, range)) < Unlimited
         /\ \A p \in Visits(t, some, range) : Within(range, p[1])
         /\ some.unique => \A p, q \in Visits(t, some, range) : p[1] = q[1] => p = q
         /\ ~some.filtered => Chosen(t, some, range) = Visits(t, some, range)
<1>1. /\ Positions(t, some.index) \subseteq Position
      /\ IsFiniteSet(Positions(t, some.index)) /\ Unlimited \in Nat
      /\ Cardinality(Positions(t, some.index)) \in Nat
      /\ Cardinality(Positions(t, some.index)) < Unlimited
  BY PositionsAre DEF Direction
<1>2. Chosen(t, some, range) \subseteq Visits(t, some, range)
  BY DEF Chosen
<1>3. /\ Visits(t, some, range) \subseteq Positions(t, some.index)
      /\ \A p \in Visits(t, some, range) : Within(range, p[1])
  BY DEF Visits
<1>4. /\ IsFiniteSet(Visits(t, some, range)) /\ Cardinality(Visits(t, some, range)) \in Nat
      /\ Cardinality(Visits(t, some, range)) <= Cardinality(Positions(t, some.index))
  BY <1>1, <1>3, FS_Subset, FS_CardinalityType
<1>5. IsFiniteSet(Chosen(t, some, range))
  BY <1>2, <1>4, FS_Subset
<1>6. ASSUME some.unique, NEW p \in Visits(t, some, range), NEW q \in Visits(t, some, range),
             p[1] = q[1]
      PROVE  p = q
  <2>1. p[2] <= q[2] /\ q[2] <= p[2]
    BY <1>6 DEF Visits
  <2>2. p \in Position /\ q \in Position
    BY <1>1, <1>3
  <2> QED BY <1>6, <2>1, <2>2, Pairs
<1>7. ~some.filtered => Chosen(t, some, range) = Visits(t, some, range)
  BY DEF Chosen
<1> QED BY <1>1, <1>2, <1>3, <1>4, <1>5, <1>6, <1>7

\* To be past a position: for a cursor, and in the order of a plan.
LEMMA PastIsAfter ==
  ASSUME NEW some, Direction(some), NEW p \in Position, NEW q \in Position, NEW u \in Position
  PROVE  /\ IsPast(some, p, q) => Before(some, q, p)
         /\ some.unique /\ IsPast(some, p, q) =>
               IF some.forward THEN q[1] < p[1] ELSE q[1] > p[1]
         /\ IsPast(some, p, q) /\ IsPast(some, q, u) => IsPast(some, p, u)
         /\ ~IsPast(some, p, p)
         /\ ~(IsPast(some, p, q) /\ IsPast(some, q, p))
<1>1. /\ p[1] \in Nat /\ p[2] \in Nat /\ q[1] \in Nat /\ q[2] \in Nat
      /\ u[1] \in Nat /\ u[2] \in Nat /\ (p = q <=> p[1] = q[1] /\ p[2] = q[2])
      /\ (p = u <=> p[1] = u[1] /\ p[2] = u[2]) /\ (q = u <=> q[1] = u[1] /\ q[2] = u[2])
  BY Pairs
<1>2. CASE some.forward
  BY <1>1, <1>2 DEF IsPast, Before
<1>3. CASE ~some.forward
  BY <1>1, <1>3 DEF IsPast, Before
<1> QED BY <1>2, <1>3

LEMMA AfterIsPast ==
  ASSUME NEW t \in Tables, NEW some, Direction(some), NEW range,
         NEW p \in Visits(t, some, range), NEW q \in Visits(t, some, range),
         Before(some, q, p)
  PROVE  IsPast(some, p, q)
<1>1. p \in Position /\ q \in Position
  BY ChosenIs
<1>2. p[1] \in Nat /\ p[2] \in Nat /\ q[1] \in Nat /\ q[2] \in Nat /\ p # q
      /\ (p = q <=> p[1] = q[1] /\ p[2] = q[2])
  BY <1>1, Pairs, BeforeOrders
<1>3. p \in Positions(t, some.index) /\ q \in Positions(t, some.index)
  BY ChosenIs
<1>4. ~some.index => p[1] = p[2] /\ q[1] = q[2]
  BY <1>3, PositionsAre DEF Direction
<1>5. some.unique => p[1] # q[1]
  BY <1>2, ChosenIs
<1>6. CASE some.forward
  BY <1>2, <1>4, <1>5, <1>6 DEF IsPast, Before
<1>7. CASE ~some.forward
  BY <1>2, <1>4, <1>5, <1>7 DEF IsPast, Before
<1> QED BY <1>6, <1>7

----------------------------------------------------------------------------
(* Where a plan that goes on finds the rest, and what a scan gives of it. *)

Plan(some) ==
  /\ Direction(some) /\ some.offset \in Nat /\ some.limit \in Nat
  /\ some.after \in Position \cup {None}
  /\ some.after # None => some.range \in Ranges /\ Within(some.range, some.after[1])

LEMMA ResumesInRange ==
  ASSUME NEW some, Plan(some), some.after # None, NEW p \in Position,
         IsPast(some, p, some.after)
  PROVE  Within(ResumeRange(some, some.after), p[1]) <=> Within(some.range, p[1])
<1> DEFINE a == some.after
           R == ResumeRange(some, a)
           open == ~some.index \/ some.unique
<1>1. /\ a \in Position /\ Within(some.range, a[1]) /\ Direction(some) /\ some.range \in Ranges
      /\ a[1] \in Nat /\ a[2] \in Nat /\ p[1] \in Nat /\ p[2] \in Nat
      /\ None \notin Nat
  BY KeysAssumption, Pairs DEF Plan
<1>2. CASE some.forward
  <2>1. R.lower = a[1] /\ R.lowerOpen = open /\ R.upper = some.range.upper
        /\ R.upperOpen = some.range.upperOpen
    BY <1>1, <1>2 DEF ResumeRange, Ranges
  <2>2. p[1] > a[1] \/ (p[1] = a[1] /\ ~open)
    BY <1>1, <1>2 DEF IsPast, Before, Direction
  <2> HIDE DEF R, a, open
  <2>3. Within(R, p[1]) <=> Within(some.range, p[1])
    BY <1>1, <1>2, <2>1, <2>2 DEF Within, Ranges
  <2> QED BY <2>3 DEF R, a
<1>3. CASE ~some.forward
  <2>1. R.upper = a[1] /\ R.upperOpen = open /\ R.lower = some.range.lower
        /\ R.lowerOpen = some.range.lowerOpen
    BY <1>1, <1>3 DEF ResumeRange, Ranges
  <2>2. p[1] < a[1] \/ (p[1] = a[1] /\ ~open)
    BY <1>1, <1>3 DEF IsPast, Before, Direction
  <2> HIDE DEF R, a, open
  <2>3. Within(R, p[1]) <=> Within(some.range, p[1])
    BY <1>1, <1>3, <2>1, <2>2 DEF Within, Ranges
  <2> QED BY <2>3 DEF R, a
<1> QED BY <1>2, <1>3

LEMMA AheadIs ==
  ASSUME NEW t \in Tables, NEW some, Plan(some)
  PROVE  /\ Ahead(t, some) = {p \in Chosen(t, some, some.range) :
                                some.after # None => IsPast(some, p, some.after)}
         /\ Ahead(t, some) \subseteq Position /\ IsFiniteSet(Ahead(t, some))
         /\ Cardinality(Ahead(t, some)) \in Nat
         /\ Unlimited \in Nat /\ Cardinality(Ahead(t, some)) < Unlimited
<1> DEFINE C == Chosen(t, some, some.range)
           B == {p \in C : some.after # None => IsPast(some, p, some.after)}
<1>1. Direction(some) /\ Unlimited \in Nat
  BY PositionsAre DEF Plan
<1>2. ASSUME some.after = None PROVE Ahead(t, some) = B
  <2>1. Ahead(t, some) = C
    BY <1>2 DEF Ahead
  <2>2. B = C
    BY <1>2
  <2> QED BY <2>1, <2>2
<1>3. ASSUME some.after # None PROVE Ahead(t, some) = B
  <2> DEFINE R == ResumeRange(some, some.after)
  <2>1. ASSUME NEW p \in Position, IsPast(some, p, some.after)
        PROVE  Within(R, p[1]) <=> Within(some.range, p[1])
    BY <1>3, <2>1, ResumesInRange
  <2> HIDE DEF R
  <2>2. ASSUME NEW p, IsPast(some, p, some.after)
        PROVE  p \in Visits(t, some, R) <=> p \in Visits(t, some, some.range)
    <3> DEFINE P == Positions(t, some.index)
    <3>1. P \subseteq Position
      BY <1>1, PositionsAre DEF Direction
    <3>2. SUFFICES ASSUME p \in P
                   PROVE p \in Visits(t, some, R) <=> p \in Visits(t, some, some.range)
      BY DEF Visits
    <3>3. \A q \in P : q[1] = p[1] => (Within(R, q[1]) <=> Within(some.range, q[1]))
      BY <2>1, <2>2, <3>1, <3>2
    <3>4. Within(R, p[1]) <=> Within(some.range, p[1])
      BY <3>2, <3>3
    <3> HIDE DEF P
    <3>5. ASSUME NEW range
          PROVE  p \in Visits(t, some, range) <=>
                   /\ Within(range, p[1])
                   /\ some.unique => \A q \in P : Within(range, q[1]) /\ q[1] = p[1]
                                                   => p[2] <= q[2]
      BY <3>2 DEF Visits, P
    <3> QED BY <3>3, <3>4, <3>5
  <2>3. Ahead(t, some) = {p \in Chosen(t, some, R) : IsPast(some, p, some.after)}
    BY <1>3 DEF Ahead, R
  <2>4. ASSUME NEW p, IsPast(some, p, some.after)
        PROVE  p \in Chosen(t, some, R) <=> p \in C
    BY <2>2, <2>4 DEF Chosen
  <2> HIDE DEF C
  <2>5. B = {p \in C : IsPast(some, p, some.after)}
    BY <1>3
  <2> QED BY <2>3, <2>4, <2>5
<1>4. Ahead(t, some) = B
  BY <1>2, <1>3
<1>5. Ahead(t, some) \subseteq Visits(t, some, some.range)
  BY <1>4 DEF Chosen
<1>6. /\ Visits(t, some, some.range) \subseteq Position
      /\ IsFiniteSet(Visits(t, some, some.range))
      /\ Cardinality(Visits(t, some, some.range)) \in Nat
      /\ Cardinality(Visits(t, some, some.range)) < Unlimited
  BY <1>1, ChosenIs
<1>7. /\ IsFiniteSet(Ahead(t, some))
      /\ Cardinality(Ahead(t, some)) <= Cardinality(Visits(t, some, some.range))
  BY <1>5, <1>6, FS_Subset
<1>8. Cardinality(Ahead(t, some)) \in Nat
  BY <1>7, FS_CardinalityType
<1> QED BY <1>1, <1>4, <1>5, <1>6, <1>7, <1>8

\* The rest of a plan, in its order.
Rest(t, some) == InOrder(some, Ahead(t, some))
Size(t, some) == Cardinality(Ahead(t, some))

LEMMA RestIs ==
  ASSUME NEW t \in Tables, NEW some, Plan(some)
  PROVE  /\ Size(t, some) \in Nat /\ Size(t, some) < Unlimited /\ Unlimited \in Nat
         /\ Rest(t, some) \in Seq(Ahead(t, some)) /\ Len(Rest(t, some)) = Size(t, some)
         /\ \A n \in 1..Size(t, some) : Rest(t, some)[n] \in Ahead(t, some)
         /\ \A p \in Ahead(t, some) : \E n \in 1..Size(t, some) : Rest(t, some)[n] = p
         /\ \A m, n \in 1..Size(t, some) :
               m < n => Before(some, Rest(t, some)[m], Rest(t, some)[n])
<1> DEFINE S == Ahead(t, some)
           N == Cardinality(S)
           F == InOrder(some, S)
<1>1. /\ S \subseteq Position /\ IsFiniteSet(S) /\ N \in Nat /\ N < Unlimited
      /\ Unlimited \in Nat
  BY AheadIs
<1>2. Direction(some)
  BY DEF Plan
<1> HIDE DEF S
<1>3. /\ F \in [1..N -> S]
      /\ \A p \in S : \E n \in 1..N : F[n] = p
      /\ \A m, n \in 1..N : m < n => Before(some, F[m], F[n])
  BY <1>1, <1>2, InOrderIs
<1> HIDE DEF F, N
<1>4. F \in Seq(S) /\ Len(F) = N
  BY <1>1, <1>3
<1> QED BY <1>1, <1>3, <1>4 DEF F, N, S, Rest, Size

LEMMA UpToIs ==
  ASSUME NEW S, NEW s \in Seq(S), NEW most \in Nat
  PROVE  /\ UpTo(s, most) \in Seq(S)
         /\ Len(UpTo(s, most)) = IF most < Len(s) THEN most ELSE Len(s)
         /\ \A i \in 1..Len(UpTo(s, most)) : UpTo(s, most)[i] = s[i]
<1> DEFINE n == IF most < Len(s) THEN most ELSE Len(s)
<1>1. Len(s) \in Nat /\ n \in Nat /\ n <= Len(s) /\ \A i \in 1..n : s[i] \in S
  OBVIOUS
<1> HIDE DEF n
<1>2. /\ SubSeq(s, 1, n) \in Seq(S)
      /\ Len(SubSeq(s, 1, n)) = IF 1 <= n THEN n - 1 + 1 ELSE 0
      /\ \A i \in 1..n - 1 + 1 : SubSeq(s, 1, n)[i] = s[1 + i - 1]
  BY <1>1, SubSeqProperties
<1>3. UpTo(s, most) = SubSeq(s, 1, n)
  BY DEF UpTo, n
<1>4. Len(SubSeq(s, 1, n)) = n /\ \A i \in 1..n : SubSeq(s, 1, n)[i] = s[i]
  BY <1>1, <1>2
<1> QED BY <1>2, <1>3, <1>4 DEF n

\* The rows of a page: those of the rest after the offset, up to the limit.
PageLength(t, some) ==
  IF Size(t, some) <= some.offset THEN 0
  ELSE IF Size(t, some) - some.offset <= some.limit THEN Size(t, some) - some.offset
  ELSE some.limit
IsPage(items, t, some) ==
  /\ items \in Seq(Ahead(t, some)) /\ Len(items) = PageLength(t, some)
  /\ \A i \in 1..PageLength(t, some) : items[i] = Rest(t, some)[some.offset + i]
IsMore(t, some) == some.limit > 0 /\ some.offset + some.limit < Size(t, some)

LEMMA ScanIs ==
  ASSUME NEW t \in Tables, NEW some, Plan(some), NEW lookAhead \in BOOLEAN
  PROVE  LET slice == Scan(t, some, lookAhead)
         IN  /\ IsPage(slice.items, t, some)
             /\ slice.more <=> lookAhead /\ IsMore(t, some)
             /\ slice.more \in BOOLEAN
             /\ slice.last = IF PageLength(t, some) = 0 THEN None
                             ELSE slice.items[PageLength(t, some)]
<1> DEFINE F == Rest(t, some)
           N == Size(t, some)
           A == Ahead(t, some)
           rest == SubSeq(F, some.offset + 1, Len(F))
           items == UpTo(rest, some.limit)
<1>1. /\ N \in Nat /\ F \in Seq(A) /\ Len(F) = N /\ \A i \in 1..N : F[i] \in A
      /\ some.offset \in Nat /\ some.limit \in Nat
  BY RestIs DEF Plan
<1> HIDE DEF F, N, A
<1>2. \A i \in some.offset + 1..N : F[i] \in A
  BY <1>1
<1>3. /\ rest \in Seq(A)
      /\ Len(rest) = IF some.offset + 1 <= N THEN N - (some.offset + 1) + 1 ELSE 0
      /\ \A i \in 1..N - (some.offset + 1) + 1 : rest[i] = F[some.offset + 1 + i - 1]
  <2> DEFINE m == some.offset + 1
  <2>1. m \in Int /\ N \in Int /\ rest = SubSeq(F, m, N)
    BY <1>1
  <2>2. \A i \in m..N : F[i] \in A
    BY <1>2
  <2> HIDE DEF m, rest
  <2>3. /\ SubSeq(F, m, N) \in Seq(A)
        /\ Len(SubSeq(F, m, N)) = IF m <= N THEN N - m + 1 ELSE 0
        /\ \A i \in 1..N - m + 1 : SubSeq(F, m, N)[i] = F[m + i - 1]
    BY <2>1, <2>2, SubSeqProperties
  <2> QED BY <2>1, <2>3 DEF m
<1> HIDE DEF rest
<1>4. /\ Len(rest) = IF N <= some.offset THEN 0 ELSE N - some.offset
      /\ \A i \in 1..Len(rest) : rest[i] = F[some.offset + i]
  <2> DEFINE o == some.offset
  <2>1. o \in Nat /\ N \in Nat
    BY <1>1
  <2> HIDE DEF o
  <2>2. Len(rest) = IF N <= o THEN 0 ELSE N - o
    BY <1>3, <2>1 DEF o
  <2>3. \A i \in 1..Len(rest) : i \in 1..N - (o + 1) + 1 /\ o + 1 + i - 1 = o + i
    BY <2>1, <2>2
  <2> QED BY <1>3, <2>2, <2>3 DEF o
<1>5. /\ items \in Seq(A)
      /\ Len(items) = IF some.limit < Len(rest) THEN some.limit ELSE Len(rest)
      /\ \A i \in 1..Len(items) : items[i] = rest[i]
  BY <1>1, <1>3, UpToIs
<1> HIDE DEF items
<1>6. Len(items) = PageLength(t, some)
  BY <1>1, <1>4, <1>5 DEF PageLength, N
<1>7. \A i \in 1..PageLength(t, some) : items[i] = F[some.offset + i]
  <2>1. Len(items) \in Nat /\ Len(rest) \in Nat /\ Len(items) <= Len(rest)
    BY <1>1, <1>3, <1>5
  <2> QED BY <1>4, <1>5, <1>6, <2>1
<1>8. IsPage(items, t, some)
  BY <1>5, <1>6, <1>7 DEF IsPage, F, A
<1>9. /\ Scan(t, some, lookAhead).items = items
      /\ Scan(t, some, lookAhead).last = IF items = <<>> THEN None ELSE Last(items)
      /\ Scan(t, some, lookAhead).more = (lookAhead /\ some.limit > 0 /\ Len(rest) > some.limit)
  BY DEF Scan, items, rest, F, Rest
<1>10. Last(items) = items[Len(items)] /\ (items = <<>> <=> Len(items) = 0)
  BY <1>5 DEF Last
<1>11. Len(rest) > some.limit <=> some.offset + some.limit < N
  BY <1>1, <1>4
<1> QED BY <1>6, <1>8, <1>9, <1>10, <1>11 DEF IsMore, N

LEMMA GetAllIs ==
  ASSUME NEW t \in Tables, NEW some, Plan(some), ReadsInOrder(some), NEW most \in Nat
  PROVE  GetAll(t, some, most) = UpTo(Rest(t, some), most) /\ some.offset = 0
<1>1. Direction(some) /\ some.after = None /\ ~some.filtered /\ some.offset = 0
  BY DEF Plan, ReadsInOrder
<1>2. Visits(t, some, some.range) = Ahead(t, some)
  BY <1>1, ChosenIs DEF Ahead
<1> QED BY <1>1, <1>2 DEF GetAll, Rest

LEMMA RowsOfIs ==
  ASSUME NEW t \in Tables, NEW some, Plan(some), NEW lookAhead \in BOOLEAN
  PROVE  LET slice == RowsOf(t, some, lookAhead)
         IN  /\ IsPage(slice.items, t, some)
             /\ slice.more <=> lookAhead /\ IsMore(t, some)
             /\ slice.more \in BOOLEAN
             /\ slice.more => slice.last = slice.items[PageLength(t, some)]
<1> DEFINE unbounded == some.limit = Unlimited
           wanted == IF lookAhead /\ ~unbounded THEN some.limit + 1 ELSE some.limit
           found == GetAll(t, some, wanted)
           items == UpTo(found, some.limit)
           more == Len(found) > Len(items)
           quick == ReadsInOrder(some) /\ (unbounded \/ ~lookAhead \/ ~some.index)
           slice == [items |-> items, more |-> more,
                     last |-> IF more THEN <<Last(items)[2], Last(items)[2]>> ELSE None]
           F == Rest(t, some)
           N == Size(t, some)
           A == Ahead(t, some)
<1>1. RowsOf(t, some, lookAhead) = IF quick THEN slice ELSE Scan(t, some, lookAhead)
  BY DEF RowsOf
<1>2. CASE ~quick
  <2>1. RowsOf(t, some, lookAhead) = Scan(t, some, lookAhead)
    BY <1>1, <1>2
  <2>2. IsMore(t, some) => PageLength(t, some) # 0
    <3>1. Size(t, some) \in Nat /\ some.offset \in Nat /\ some.limit \in Nat
      BY RestIs DEF Plan
    <3> QED BY <3>1 DEF IsMore, PageLength
  <2> QED BY <2>1, <2>2, ScanIs
<1>3. CASE quick
  <2>1. /\ N \in Nat /\ N < Unlimited /\ Unlimited \in Nat /\ F \in Seq(A) /\ Len(F) = N
        /\ \A i \in 1..N : F[i] \in A
    BY RestIs
  <2>2. some.limit \in Nat /\ some.limit > 0 /\ wanted \in Nat
        /\ wanted >= some.limit
    BY <1>3, <2>1 DEF Plan, ReadsInOrder
  <2>3. ReadsInOrder(some)
    BY <1>3
  <2> HIDE DEF wanted
  <2>4. found = UpTo(F, wanted) /\ some.offset = 0
    BY <2>2, <2>3, GetAllIs
  <2> HIDE DEF F, N, A, found
  <2>5. /\ found \in Seq(A) /\ Len(found) = IF wanted < N THEN wanted ELSE N
        /\ \A i \in 1..Len(found) : found[i] = F[i]
    BY <2>1, <2>2, <2>4, UpToIs
  <2>6. /\ items \in Seq(A) /\ Len(items) = IF some.limit < Len(found) THEN some.limit
                                                                       ELSE Len(found)
        /\ \A i \in 1..Len(items) : items[i] = found[i]
    BY <2>2, <2>5, UpToIs
  <2> HIDE DEF items
  <2>7. Len(items) = PageLength(t, some)
    BY <2>1, <2>2, <2>4, <2>5, <2>6 DEF PageLength, N
  <2>8. \A i \in 1..PageLength(t, some) : items[i] = F[some.offset + i]
    BY <2>1, <2>2, <2>4, <2>5, <2>6, <2>7
  <2>9. more <=> wanted > some.limit /\ N > some.limit
    BY <2>1, <2>2, <2>5, <2>6
  <2>10. wanted > some.limit <=> lookAhead /\ ~unbounded
    BY <2>2 DEF wanted
  <2>11. more <=> lookAhead /\ IsMore(t, some)
    BY <2>1, <2>2, <2>4, <2>9, <2>10 DEF IsMore, N
  <2>12. ASSUME more PROVE <<Last(items)[2], Last(items)[2]>> = items[PageLength(t, some)]
    <3>1. Len(items) > 0 /\ Last(items) = items[Len(items)]
      BY <2>1, <2>2, <2>5, <2>6, <2>9, <2>12 DEF Last
    <3>2. items[Len(items)] \in A
      BY <2>6, <3>1
    <3>3. ~some.index /\ Direction(some)
      BY <1>3, <2>9, <2>10, <2>12 DEF Plan
    <3>4. A \subseteq Positions(t, some.index) /\ A \subseteq Position
      BY <3>3, AheadIs, ChosenIs DEF A
    <3>5. Last(items) \in Position /\ Last(items)[1] = Last(items)[2]
      BY <3>1, <3>2, <3>3, <3>4, PositionsAre DEF Direction
    <3> QED BY <2>7, <3>1, <3>5 DEF Position
  <2>13. RowsOf(t, some, lookAhead) = slice
    BY <1>1, <1>3
  <2> HIDE DEF more
  <2>14. /\ RowsOf(t, some, lookAhead).items = items
         /\ RowsOf(t, some, lookAhead).more = more
         /\ more => RowsOf(t, some, lookAhead).last = <<Last(items)[2], Last(items)[2]>>
    BY <2>13
  <2>15. more \in BOOLEAN
    BY DEF more
  <2>16. IsPage(items, t, some)
    BY <2>6, <2>7, <2>8 DEF IsPage, A, F
  <2> QED BY <2>11, <2>12, <2>14, <2>15, <2>16
<1> QED BY <1>2, <1>3

----------------------------------------------------------------------------
(* The inductive invariant of the reader: where it is, what it still reads, *)
(* and what it has left behind.                                             *)

HandedOut == {handed[n] : n \in 1..Len(handed)}

\* The rows, and those that the requests which wait would write, have their types.
Writes(r) ==
  /\ r = [kind |-> r.kind, id |-> r.id, row |-> r.row, plan |-> r.plan, awaited |-> r.awaited]
  /\ r.kind \in {"add", "put", "delete", "getKey", "get", "clear", "deleteWhere"}
  /\ r.kind \in {"add", "put", "getKey", "get"} => r.row \in Rows /\ r.id \in Ids
  /\ r.kind = "deleteWhere" => r.plan \in Queries

Typed ==
  /\ rows \in Tables /\ draft \in Tables /\ before \in Tables
  /\ \A n \in DOMAIN requests : Writes(requests[n])

\* The plan is the query, but for where it goes on and how much it still reads.
Asks ==
  /\ query \in Queries /\ batchSize \in Nat \ {0}
  /\ plan = [query EXCEPT !.limit = plan.limit, !.offset = plan.offset, !.after = plan.after]
  /\ plan.limit \in 0..Unlimited /\ plan.offset \in Nat
  /\ plan.after \in Position \cup {None}
  /\ handed \in Seq(Position)
  /\ reader \in {"reading", "done", "failed"}

\* What was chosen all the time is chosen now.
Steady == IsFiniteSet(steady) /\ steady \subseteq Chosen(rows, query, query.range)

\* What the reader has left behind and not handed out.
Behind == {p \in steady : ~IsPast(query, p, plan.after)} \ HandedOut

\* Where a reader is that goes on.
GoesOn ==
  IF plan.after = None
  THEN handed = <<>> /\ plan.offset = query.offset
  ELSE /\ handed # <<>> /\ plan.after = handed[Len(handed)] /\ plan.offset = 0
       /\ Within(query.range, plan.after[1])
       /\ Cardinality(Behind) <= query.offset

Counts == IF query.limit = Unlimited THEN plan.limit = Unlimited
                                     ELSE plan.limit + Len(handed) = query.limit

ReaderInv ==
  /\ Typed /\ Asks /\ Steady
  /\ reader = "reading" => GoesOn /\ Counts
  /\ HandedInOrder /\ NothingLost

----------------------------------------------------------------------------
(* A batch goes on where the one before it ended. *)

\* What is handed out, in the order that HandedInOrder asks for.
Precedes(p, q) ==
  IF query.unique THEN IF query.forward THEN p[1] < q[1] ELSE p[1] > q[1]
                  ELSE Before(query, p, q)

LEMMA PrecedesIs ==
  ASSUME Direction(query), NEW p \in Position, NEW q \in Position, NEW u \in Position
  PROVE  /\ IsPast(query, q, p) => Precedes(p, q)
         /\ Precedes(p, q) /\ Precedes(q, u) => Precedes(p, u)
<1>1. p[1] \in Nat /\ q[1] \in Nat /\ u[1] \in Nat
  BY Pairs
<1>2. IsPast(query, q, p) => Precedes(p, q)
  BY PastIsAfter DEF Precedes
<1>3. Before(query, p, q) /\ Before(query, q, u) => Before(query, p, u)
  BY BeforeOrders
<1>4. Precedes(p, q) /\ Precedes(q, u) => Precedes(p, u)
  BY <1>1, <1>3 DEF Precedes, Direction
<1> QED BY <1>2, <1>4

LEMMA SameDirection ==
  ASSUME NEW some, NEW other, some.index = other.index, some.forward = other.forward,
         some.unique = other.unique, some.filtered = other.filtered
  PROVE  /\ \A p, q : Before(some, p, q) = Before(other, p, q)
         /\ \A p, q : IsPast(some, p, q) = IsPast(other, p, q)
         /\ \A t, range : Visits(t, some, range) = Visits(t, other, range)
         /\ \A t, range : Chosen(t, some, range) = Chosen(t, other, range)
<1>1. \A p, q : Before(some, p, q) = Before(other, p, q)
  BY DEF Before
<1>2. \A p, q : IsPast(some, p, q) = IsPast(other, p, q)
  BY <1>1 DEF IsPast
<1>3. \A t, range : Visits(t, some, range) = Visits(t, other, range)
  BY DEF Visits
<1>4. \A t, range : Chosen(t, some, range) = Chosen(t, other, range)
  BY <1>3 DEF Chosen
<1> QED BY <1>1, <1>2, <1>3, <1>4

LEMMA BatchIs ==
  ASSUME Asks, Typed, GoesOn
  PROVE  /\ Plan(Batch) /\ Direction(query)
         /\ Batch.after = plan.after /\ Batch.offset = plan.offset
         /\ Batch.limit = IF batchSize < plan.limit THEN batchSize ELSE plan.limit
         /\ \A p, q : Before(Batch, p, q) = Before(query, p, q)
         /\ \A p, q : IsPast(Batch, p, q) = IsPast(query, p, q)
         /\ Ahead(rows, Batch) = {p \in Chosen(rows, query, query.range) :
                                    plan.after # None => IsPast(query, p, plan.after)}
         /\ None \notin Position
<1> DEFINE b == Batch
<1>1. /\ b.index = query.index /\ b.forward = query.forward /\ b.unique = query.unique
      /\ b.filtered = query.filtered /\ b.range = query.range
      /\ b.after = plan.after /\ b.offset = plan.offset
      /\ b.limit = IF batchSize < plan.limit THEN batchSize ELSE plan.limit
  BY DEF Asks, Queries, Batch
<1>2. Unlimited \in Nat
  BY PositionsAre DEF Typed
<1>3. Direction(query) /\ Direction(b)
  BY <1>1 DEF Asks, Queries, Direction
<1>4. None \notin Position
  BY KeysAssumption DEF Position
<1>5. Plan(b)
  <2>1. b.limit \in 0..Unlimited
    BY <1>1, <1>2 DEF Asks
  <2>2. b.after # None => Within(b.range, b.after[1])
    BY <1>1 DEF GoesOn
  <2>3. b.range \in Ranges /\ b.offset \in Nat /\ b.after \in Position \cup {None}
    BY <1>1 DEF Asks, Queries
  <2> QED BY <1>3, <2>1, <2>2, <2>3 DEF Plan
<1> HIDE DEF b
<1>6. Ahead(rows, b) = {p \in Chosen(rows, b, b.range) :
                          b.after # None => IsPast(b, p, b.after)}
  BY <1>5, AheadIs DEF Typed
<1>7. /\ \A p, q : Before(b, p, q) = Before(query, p, q)
      /\ \A p, q : IsPast(b, p, q) = IsPast(query, p, q)
      /\ \A t, range : Chosen(t, b, range) = Chosen(t, query, range)
  BY <1>1, SameDirection
<1>8. Ahead(rows, b) = {p \in Chosen(rows, query, query.range) :
                          plan.after # None => IsPast(query, p, plan.after)}
  BY <1>1, <1>6, <1>7
<1> QED BY <1>1, <1>3, <1>4, <1>5, <1>7, <1>8 DEF b

\* A batch that ends at a position, and what it leaves behind and does not hand out.
Ends(items, last) ==
  /\ IsPage(items, rows, Batch)
  /\ IsMore(rows, Batch) => last = items[PageLength(rows, Batch)]

Misses(items, last, missed) ==
  /\ missed \subseteq steady
  /\ \A p \in missed : /\ p \notin HandedOut
                       /\ \A i \in 1..Len(items) : p # items[i]
                       /\ IsMore(rows, Batch) => ~IsPast(query, p, last)

\* The offset has passed over what it misses.
LEMMA BatchMissesLittle ==
  ASSUME Asks, Typed, Steady, GoesOn, plan.limit > 0, NEW items, NEW last, NEW Missed,
         Ends(items, last), Misses(items, last, Missed)
  PROVE  Cardinality(Missed) <= query.offset
<1> DEFINE F == Rest(rows, Batch)
           N == Size(rows, Batch)
           A == Ahead(rows, Batch)
           n == PageLength(rows, Batch)
           o == plan.offset
           more == IsMore(rows, Batch)
           C == Chosen(rows, query, query.range)
<1> USE DEF Ends, Misses
<1>1. /\ Plan(Batch) /\ Direction(query) /\ Batch.offset = o /\ Batch.limit > 0
      /\ Batch.limit \in Nat /\ o \in Nat /\ query.offset \in Nat
      /\ A = {p \in C : plan.after # None => IsPast(query, p, plan.after)}
      /\ rows \in Tables /\ Unlimited \in Nat
  <2>1. rows \in Tables /\ Unlimited \in Nat
    BY PositionsAre DEF Typed
  <2>2. /\ Plan(Batch) /\ Direction(query) /\ Batch.offset = o
        /\ Batch.limit = IF batchSize < plan.limit THEN batchSize ELSE plan.limit
        /\ A = {p \in C : plan.after # None => IsPast(query, p, plan.after)}
    BY BatchIs
  <2>3. /\ batchSize \in Nat /\ batchSize > 0 /\ plan.limit \in Nat
        /\ o \in Nat /\ query.offset \in Nat
    BY <2>1 DEF Asks, Queries
  <2> QED BY <2>1, <2>2, <2>3
<1>2. /\ N \in Nat /\ \A i \in 1..N : F[i] \in A
      /\ \A p \in A : \E i \in 1..N : F[i] = p
      /\ \A i, j \in 1..N : i < j => Before(Batch, F[i], F[j])
  BY <1>1, RestIs
<1>3. A \subseteq Visits(rows, query, query.range)
  BY <1>1, ChosenIs
<1>4. /\ n \in Nat /\ Len(items) = n /\ \A i \in 1..n : items[i] = F[o + i]
      /\ n > 0 => o + n <= N
      /\ more => n > 0
      /\ ~more => N <= o + n \/ N <= o
  BY <1>1, <1>2 DEF IsPage, PageLength, IsMore
<1>5. ASSUME NEW p \in Missed, p \in A PROVE \E j \in 1..o : j <= N /\ p = F[j]
  <2>1. PICK j \in 1..N : F[j] = p
    BY <1>2, <1>5
  <2>2. CASE j <= o
    BY <1>1, <2>1, <2>2
  <2>3. CASE j > o /\ j <= o + n
    <3>1. j - o \in 1..n
      BY <1>1, <1>4, <2>3
    <3>2. items[j - o] = F[o + (j - o)] /\ o + (j - o) = j
      BY <1>1, <1>4, <3>1
    <3>3. p = items[j - o]
      BY <2>1, <3>2
    <3> QED BY <1>4, <1>5, <3>1, <3>3
  <2>4. CASE j > o + n
    <3>1. more /\ n > 0 /\ o + n \in 1..N /\ n \in 1..n
      BY <1>1, <1>2, <1>4, <2>4
    <3>2. last = F[o + n]
      BY <1>4, <3>1
    <3>3. Before(query, last, p)
      BY <1>2, <2>1, <2>4, <3>1, <3>2, BatchIs
    <3>4. last \in Visits(rows, query, query.range) /\ p \in Visits(rows, query, query.range)
      BY <1>2, <1>3, <1>5, <3>1, <3>2
    <3>5. IsPast(query, p, last)
      BY <1>1, <3>3, <3>4, AfterIsPast
    <3> QED BY <1>5, <3>1, <3>5
  <2> QED BY <1>1, <1>2, <1>4, <2>2, <2>3, <2>4
<1>6. Missed \subseteq steady /\ IsFiniteSet(Missed) /\ steady \subseteq C
  BY FS_Subset DEF Steady
<1>7. CASE plan.after = None
  <2>1. Missed \subseteq A /\ o = query.offset
    BY <1>1, <1>6, <1>7 DEF GoesOn
  <2> DEFINE T == {j \in 1..o : j <= N}
             G == {F[j] : j \in T}
             f == [j \in T |-> F[j]]
  <2>2. Missed \subseteq G
    BY <1>5, <2>1
  <2>3. f \in Surjection(T, G)
    BY DEF Surjection
  <2>4. IsFiniteSet(1..o) /\ Cardinality(1..o) = o
    BY <1>1, FS_Interval
  <2>5. T \subseteq 1..o
    OBVIOUS
  <2> HIDE DEF T, G, f
  <2>6. IsFiniteSet(T) /\ Cardinality(T) <= o
    <3> DEFINE I == 1..o
    <3>1. IsFiniteSet(I) /\ T \subseteq I /\ Cardinality(I) = o
      BY <2>4, <2>5
    <3> HIDE DEF I
    <3> QED BY <3>1, FS_Subset
  <2>7. IsFiniteSet(G) /\ Cardinality(G) <= Cardinality(T)
    BY <2>3, <2>6, FS_Surjection
  <2>8. Cardinality(Missed) <= Cardinality(G)
    BY <2>2, <2>7, FS_Subset
  <2>9. Cardinality(Missed) \in Nat /\ Cardinality(G) \in Nat /\ Cardinality(T) \in Nat
    BY <1>6, <2>6, <2>7, FS_CardinalityType
  <2> QED BY <1>1, <2>1, <2>6, <2>7, <2>8, <2>9
<1>8. CASE plan.after # None
  <2>1. o = 0 /\ Cardinality(Behind) <= query.offset
    BY <1>8 DEF GoesOn
  <2>2. ASSUME NEW p \in Missed PROVE p \in Behind
    <3>1. p \notin A
      BY <1>5, <2>1
    <3>2. p \in steady /\ p \notin HandedOut /\ ~IsPast(query, p, plan.after)
      BY <1>1, <1>6, <1>8, <3>1
    <3> QED BY <3>2 DEF Behind
  <2>3. IsFiniteSet(Behind)
    BY FS_Subset DEF Steady, Behind
  <2>4. Cardinality(Missed) <= Cardinality(Behind)
    BY <2>2, <2>3, FS_Subset
  <2>5. Cardinality(Missed) \in Nat /\ Cardinality(Behind) \in Nat
    BY <1>6, <2>3, FS_CardinalityType
  <2> QED BY <1>1, <2>1, <2>4, <2>5
<1> QED BY <1>7, <1>8

\* What is handed out so far, and a batch after it.
LEMMA HandsOn ==
  ASSUME Asks, Typed, GoesOn, HandedInOrder, NEW items, IsPage(items, rows, Batch)
  PROVE  /\ handed \o items \in Seq(Position)
         /\ Len(handed \o items) = Len(handed) + Len(items)
         /\ Len(handed) \in Nat /\ Len(items) \in Nat
         /\ \A i \in 1..Len(handed) : (handed \o items)[i] = handed[i]
         /\ \A i \in 1..Len(items) : (handed \o items)[Len(handed) + i] = items[i]
         /\ \A m, n \in 1..Len(handed \o items) :
               m < n => Precedes((handed \o items)[m], (handed \o items)[n])
<1> DEFINE F == Rest(rows, Batch)
           N == Size(rows, Batch)
           A == Ahead(rows, Batch)
           C == Chosen(rows, query, query.range)
           all == handed \o items
           h == Len(handed)
<1>1. /\ Plan(Batch) /\ Direction(query) /\ rows \in Tables
      /\ A = {p \in C : plan.after # None => IsPast(query, p, plan.after)}
      /\ \A p, q : Before(Batch, p, q) = Before(query, p, q)
  BY BatchIs DEF Typed
<1>2. /\ N \in Nat /\ \A i \in 1..N : F[i] \in A
      /\ \A i, j \in 1..N : i < j => Before(query, F[i], F[j])
  BY <1>1, RestIs
<1>3. A \subseteq Visits(rows, query, query.range) /\ A \subseteq Position
  BY <1>1, ChosenIs
<1>4. items \in Seq(Position) /\ handed \in Seq(Position)
  BY <1>3 DEF IsPage, Asks
<1>5. /\ all \in Seq(Position) /\ Len(all) = h + Len(items)
      /\ h \in Nat /\ Len(items) \in Nat
      /\ \A i \in 1..h : all[i] = handed[i]
      /\ \A i \in 1..Len(items) : all[h + i] = items[i]
  BY <1>4
<1>6. \A i \in 1..Len(items) : items[i] \in A
  BY DEF IsPage
<1>7. ASSUME NEW i \in 1..Len(items), NEW j \in 1..Len(items), i < j
      PROVE  Precedes(items[i], items[j])
  <2> DEFINE o == Batch.offset
  <2>1. /\ o \in Nat /\ items[i] = F[o + i] /\ items[j] = F[o + j]
        /\ o + i \in 1..N /\ o + j \in 1..N /\ o + i < o + j
    <3> DEFINE L == PageLength(rows, Batch)
               limit == Batch.limit
    <3>1. o \in Nat /\ limit \in Nat
      BY <1>1, BatchIs, PositionsAre DEF Plan
    <3>2. L = IF N <= o THEN 0 ELSE IF limit < N - o THEN limit ELSE N - o
      BY <3>1, <1>2 DEF PageLength
    <3>3. Len(items) = L /\ \A k \in 1..L : items[k] = F[o + k]
      BY DEF IsPage
    <3> HIDE DEF L, limit, o, F, N
    <3>4. i \in 1..L /\ j \in 1..L
      BY <3>3
    <3>5. (L \in Nat /\ o + L <= N) \/ L = 0
      BY <1>2, <3>1, <3>2
    <3>6. i \in Nat /\ j \in Nat /\ i >= 1 /\ j >= 1 /\ i <= L /\ j <= L /\ L \in Nat
      BY <1>2, <3>1, <3>2, <3>4
    <3>7. o + i \in 1..N /\ o + j \in 1..N /\ o + i < o + j
      BY <1>2, <1>7, <3>1, <3>5, <3>6
    <3> QED BY <3>1, <3>3, <3>4, <3>7
  <2>2. Before(query, items[i], items[j])
    BY <1>2, <2>1
  <2>3. items[i] \in Visits(rows, query, query.range)
        /\ items[j] \in Visits(rows, query, query.range)
    BY <1>3, <1>6
  <2>4. IsPast(query, items[j], items[i])
    BY <1>1, <2>2, <2>3, AfterIsPast
  <2> QED BY <1>1, <1>3, <1>6, <2>4, PrecedesIs
<1>8. ASSUME NEW i \in 1..h, NEW j \in 1..Len(items) PROVE Precedes(handed[i], items[j])
  <2>1. plan.after # None /\ plan.after = handed[h] /\ h \in 1..h
    BY <1>4, <1>8 DEF GoesOn
  <2>2. IsPast(query, items[j], plan.after)
    BY <1>1, <1>6, <2>1
  <2>3. handed[i] \in Position /\ plan.after \in Position /\ items[j] \in Position
    BY <1>3, <1>4, <1>6, <2>1
  <2>4. Precedes(plan.after, items[j])
    BY <1>1, <2>2, <2>3, PrecedesIs
  <2>5. i = h \/ Precedes(handed[i], plan.after)
    BY <1>5, <2>1 DEF HandedInOrder, Precedes
  <2> QED BY <1>1, <2>1, <2>3, <2>4, <2>5, PrecedesIs
<1>9. ASSUME NEW m \in 1..Len(all), NEW n \in 1..Len(all), m < n
      PROVE  Precedes(all[m], all[n])
  <2>1. CASE n <= h
    <3>1. m \in 1..h /\ n \in 1..h
      BY <1>5, <1>9, <2>1
    <3>2. Precedes(handed[m], handed[n])
      BY <1>9, <3>1 DEF HandedInOrder, Precedes
    <3> QED BY <1>5, <3>1, <3>2
  <2>2. CASE n > h /\ m <= h
    <3>1. m \in 1..h /\ n - h \in 1..Len(items) /\ h + (n - h) = n
      BY <1>5, <1>9, <2>2
    <3>2. all[n] = items[n - h] /\ all[m] = handed[m]
      BY <1>5, <3>1
    <3> QED BY <1>8, <3>1, <3>2
  <2>3. CASE m > h
    <3>1. /\ m - h \in 1..Len(items) /\ n - h \in 1..Len(items) /\ m - h < n - h
          /\ h + (n - h) = n /\ h + (m - h) = m
      BY <1>5, <1>9, <2>3
    <3>2. all[n] = items[n - h] /\ all[m] = items[m - h]
      BY <1>5, <3>1
    <3> QED BY <1>7, <3>1, <3>2
  <2> QED BY <1>5, <2>1, <2>2, <2>3
<1> QED BY <1>5, <1>9

LEMMA ReadBatchKeeps == ReaderInv /\ ReadBatch => ReaderInv'
<1> SUFFICES ASSUME ReaderInv, ReadBatch PROVE ReaderInv'
  OBVIOUS
<1> DEFINE slice == RowsOf(rows, Batch, TRUE)
           items == slice.items
           n == PageLength(rows, Batch)
           more == IsMore(rows, Batch)
           last == slice.last
<1>1. /\ reader = "reading" /\ plan.limit > 0 /\ Typed /\ Asks /\ Steady /\ GoesOn /\ Counts
      /\ HandedInOrder
  BY DEF ReadBatch, ReaderInv
<1>2. /\ handed' = handed \o items
      /\ UNCHANGED <<rows, draft, before, requests, batchSize, steady, query>>
  BY DEF ReadBatch, txVars, runVars
<1>3. /\ IsPage(items, rows, Batch) /\ (slice.more <=> more) /\ slice.more \in BOOLEAN
      /\ more => last = items[n]
  BY <1>1, BatchIs, RowsOfIs DEF Typed
<1>4. /\ slice.more => /\ plan' = [plan EXCEPT !.limit = Remaining(Len(items)),
                                                !.after = last, !.offset = 0]
                       /\ reader' = "reading"
      /\ ~slice.more => reader' = "done" /\ plan' = plan
  BY DEF ReadBatch
<1> HIDE DEF slice, items, last
<1>5. more \in BOOLEAN /\ (more <=> slice.more)
  BY <1>3 DEF IsMore
<1>6. /\ handed' \in Seq(Position) /\ Len(handed') = Len(handed) + Len(items)
      /\ Len(handed) \in Nat /\ Len(items) \in Nat
      /\ \A i \in 1..Len(handed) : handed'[i] = handed[i]
      /\ \A i \in 1..Len(items) : handed'[Len(handed) + i] = items[i]
      /\ \A i, j \in 1..Len(handed') : i < j => Precedes(handed'[i], handed'[j])
  BY <1>1, <1>2, <1>3, HandsOn
<1> DEFINE Missed == {p \in steady : /\ p \notin HandedOut
                                     /\ \A i \in 1..Len(items) : p # items[i]
                                     /\ more => ~IsPast(query, p, last)}
<1>7. Cardinality(Missed) <= query.offset
  <2>1. Asks /\ Typed /\ Steady /\ GoesOn /\ plan.limit > 0
    BY <1>1
  <2>2. Ends(items, last)
    BY <1>3 DEF Ends
  <2>3. Misses(items, last, Missed)
    BY DEF Misses
  <2> HIDE DEF Missed
  <2> QED BY <2>1, <2>2, <2>3, BatchMissesLittle
<1>8. HandedOut' = HandedOut \cup {items[i] : i \in 1..Len(items)}
  <2>1. ASSUME NEW i \in 1..Len(handed')
        PROVE  i \in 1..Len(handed) \/ i - Len(handed) \in 1..Len(items)
    BY <1>6
  <2>2. ASSUME NEW i \in 1..Len(handed'), i - Len(handed) \in 1..Len(items)
        PROVE  handed'[i] = items[i - Len(handed)]
    <3>1. Len(handed) + (i - Len(handed)) = i
      BY <1>6
    <3> QED BY <1>6, <2>2, <3>1
  <2>3. ASSUME NEW i \in 1..Len(items) PROVE Len(handed) + i \in 1..Len(handed')
    BY <1>6
  <2>4. \A i \in 1..Len(handed) : i \in 1..Len(handed')
    BY <1>6
  <2>5. HandedOut' = {handed'[i] : i \in 1..Len(handed')}
    BY DEF HandedOut
  <2>6. ASSUME NEW p \in HandedOut' PROVE p \in HandedOut \cup {items[i] : i \in 1..Len(items)}
    <3>1. PICK i \in 1..Len(handed') : p = handed'[i]
      BY <2>5
    <3>2. CASE i \in 1..Len(handed)
      BY <1>6, <3>1, <3>2 DEF HandedOut
    <3>3. CASE i - Len(handed) \in 1..Len(items)
      BY <2>2, <3>1, <3>3
    <3> QED BY <2>1, <3>2, <3>3
  <2>7. ASSUME NEW i \in 1..Len(handed) PROVE handed[i] \in HandedOut'
    BY <1>6, <2>4, <2>5
  <2>8. ASSUME NEW i \in 1..Len(items) PROVE items[i] \in HandedOut'
    BY <1>6, <2>3, <2>5
  <2> QED BY <2>6, <2>7, <2>8 DEF HandedOut
<1>9. HandedInOrder'
  BY <1>2, <1>6 DEF HandedInOrder, Precedes
<1>10. Typed' /\ Steady'
  BY <1>1, <1>2 DEF Typed, Steady
<1>11. /\ Plan(Batch) /\ Batch.limit \in Nat /\ Batch.limit > 0 /\ Batch.limit <= plan.limit
       /\ plan.limit \in Nat /\ Unlimited \in Nat /\ query.limit \in Nat
       /\ Len(items) = n /\ (more => n = Batch.limit /\ n > 0)
       /\ \A i \in 1..n : items[i] \in Ahead(rows, Batch)
  <2>1. rows \in Tables /\ Unlimited \in Nat
    BY <1>1, PositionsAre DEF Typed
  <2>2. /\ Plan(Batch)
        /\ Batch.limit = IF batchSize < plan.limit THEN batchSize ELSE plan.limit
    BY <1>1, BatchIs
  <2>3. /\ batchSize \in Nat /\ batchSize > 0 /\ plan.limit \in Nat /\ query.limit \in Nat
    BY <1>1, <2>1 DEF Asks, Queries
  <2>4. Batch.limit \in Nat /\ Batch.limit > 0 /\ Batch.limit <= plan.limit
    BY <1>1, <2>2, <2>3
  <2>5. Size(rows, Batch) \in Nat /\ Batch.offset \in Nat
    BY <2>1, <2>2, RestIs DEF Plan
  <2>6. Len(items) = n /\ \A i \in 1..n : items[i] \in Ahead(rows, Batch)
    BY <1>3 DEF IsPage
  <2>7. more => n = Batch.limit
    BY <2>4, <2>5 DEF IsMore, PageLength
  <2> QED BY <2>1, <2>2, <2>3, <2>4, <2>6, <2>7
<1>12. ASSUME more
       PROVE  Asks' /\ GoesOn' /\ Counts' /\ reader' = "reading"
  <2>1. /\ plan'.limit = Remaining(n) /\ plan'.after = last /\ plan'.offset = 0
        /\ plan' = [plan EXCEPT !.limit = Remaining(n), !.after = last, !.offset = 0]
        /\ reader' = "reading"
    BY <1>1, <1>4, <1>5, <1>11, <1>12 DEF Asks, Queries
  <2>2. last = items[n] /\ n \in 1..n /\ last \in Ahead(rows, Batch)
    BY <1>3, <1>6, <1>11, <1>12
  <2>3. last \in Position /\ Within(query.range, last[1]) /\ None \notin Position
    BY <1>1, <2>2, BatchIs, ChosenIs DEF Typed
  <2>4. Remaining(n) \in 0..Unlimited /\ Counts'
    <3>1. /\ n \in Nat /\ n <= plan.limit /\ n > 0 /\ plan.limit <= Unlimited
          /\ Unlimited \in Nat /\ plan.limit \in Nat
      BY <1>1, <1>11, <1>12 DEF Asks
    <3>2. Remaining(n) \in 0..Unlimited
      BY <3>1 DEF Remaining
    <3>3. /\ Len(handed') = Len(handed) + n /\ plan'.limit = Remaining(n) /\ query' = query
          /\ Len(handed) \in Nat /\ query.limit \in Nat
      BY <1>2, <1>6, <1>11, <2>1
    <3>4. query.limit = Unlimited => plan'.limit = Unlimited
      BY <1>1, <3>3 DEF Counts, Remaining
    <3>5. query.limit # Unlimited => plan.limit # Unlimited
      BY <1>1 DEF Counts, Asks, Queries
    <3>6. query.limit # Unlimited => plan'.limit + Len(handed') = query.limit
      BY <1>1, <3>1, <3>3, <3>5 DEF Counts, Remaining
    <3> QED BY <3>2, <3>3, <3>4, <3>6 DEF Counts
  <2>5. Asks'
    <3>1. plan' = [query' EXCEPT !.limit = plan'.limit, !.offset = plan'.offset,
                                 !.after = plan'.after]
      BY <1>1, <1>2, <2>1 DEF Asks, Queries
    <3> QED BY <1>1, <1>2, <1>6, <2>1, <2>3, <2>4, <3>1 DEF Asks
  <2>6. Behind' = Missed
    BY <1>2, <1>8, <1>12, <2>1 DEF Behind
  <2>7. GoesOn'
    <3>1. Len(handed') = Len(handed) + n /\ handed'[Len(handed')] = last /\ handed' # <<>>
      BY <1>6, <1>11, <2>2
    <3> QED BY <1>2, <1>7, <2>1, <2>3, <2>6, <3>1 DEF GoesOn
  <2> QED BY <2>1, <2>4, <2>5, <2>7
<1>13. ASSUME ~more PROVE Asks' /\ reader' = "done" /\ NothingLost'
  <2>1. plan' = plan /\ reader' = "done"
    BY <1>4, <1>5, <1>13
  <2>2. Asks'
    BY <1>1, <1>2, <1>6, <2>1 DEF Asks
  <2>3. (steady \ {handed[k] : k \in 1..Len(handed)})' = Missed
    BY <1>2, <1>8, <1>13 DEF HandedOut
  <2>4. query' = query
    BY <1>2
  <2> HIDE DEF Missed
  <2> QED BY <1>7, <2>1, <2>2, <2>3, <2>4 DEF NothingLost
<1>14. CASE more
  BY <1>9, <1>10, <1>12, <1>14 DEF ReaderInv, NothingLost
<1>15. CASE ~more
  BY <1>9, <1>10, <1>13, <1>15 DEF ReaderInv
<1> QED BY <1>14, <1>15

----------------------------------------------------------------------------
\* What the requests make of a table is a table.

\* The turns of deleteWhere, one after another.
Turn(some) ==
  {d \in [table : Tables, after : Position \cup {None}, offset : Nat, count : Nat] :
     d.after # None => Within(some.range, d.after[1])}

LEMMA UnlimitedIs == Unlimited \in Nat /\ Unlimited >= 1 /\ Unlimited \in 0..Unlimited
<1> DEFINE a == Cardinality(Ids)
           b == Cardinality(Keys)
<1>1. a \in Nat /\ b \in Nat
  BY FS_CardinalityType, KeysAssumption
<1>2. Unlimited = a * (b + 1) + 1
  BY DEF Unlimited
<1> HIDE DEF a, b
<1>3. a * (b + 1) \in Nat
  BY <1>1
<1> QED BY <1>2, <1>3

LEMMA DeleteNextIs ==
  ASSUME NEW some \in Queries, NEW d \in Turn(some), NEW n
  PROVE  DeleteNext(some, d, n) \in Turn(some)
<1> DEFINE p == [some EXCEPT !.after = d.after, !.offset = d.offset, !.limit = 1]
           slice == Scan(d.table, p, FALSE)
           next == [table |-> [d.table EXCEPT ![slice.last[2]] = Absent],
                    after |-> slice.last, offset |-> 0, count |-> d.count + 1]
<1>1. d.table \in Tables /\ Unlimited \in Nat /\ Unlimited >= 1
  BY UnlimitedIs DEF Turn
<1>2. Plan(p) /\ p.range = some.range
  BY <1>1 DEF Plan, Turn, Queries, Direction
<1> HIDE DEF p
<1>3. slice.items # <<>> => slice.last \in Position /\ Within(some.range, slice.last[1])
  <2>1. /\ IsPage(slice.items, d.table, p)
        /\ slice.last = IF PageLength(d.table, p) = 0 THEN None
                        ELSE slice.items[PageLength(d.table, p)]
    BY <1>1, <1>2, ScanIs
  <2>2. Len(slice.items) = PageLength(d.table, p) /\ slice.items \in Seq(Ahead(d.table, p))
    BY <2>1 DEF IsPage
  <2> DEFINE items == slice.items
  <2>5. items \in Seq(Ahead(d.table, p)) /\ slice.last = IF Len(items) = 0 THEN None
                                                         ELSE items[Len(items)]
    BY <2>1, <2>2
  <2> HIDE DEF items
  <2>6. items # <<>> => Len(items) # 0 /\ items[Len(items)] \in Ahead(d.table, p)
    BY <2>5
  <2>3. slice.items # <<>> => slice.last \in Ahead(d.table, p)
    BY <2>5, <2>6 DEF items
  <2>4. /\ Ahead(d.table, p) \subseteq Chosen(d.table, p, p.range)
        /\ Chosen(d.table, p, p.range) \subseteq Visits(d.table, p, p.range)
        /\ Visits(d.table, p, p.range) \subseteq Position
        /\ \A x \in Visits(d.table, p, p.range) : Within(p.range, x[1])
    BY <1>1, <1>2, AheadIs, ChosenIs DEF Plan
  <2> QED BY <1>2, <2>3, <2>4
<1>4. DeleteNext(some, d, n) = d \/ (slice.items # <<>> /\ DeleteNext(some, d, n) = next)
  BY DEF DeleteNext, p
<1> HIDE DEF slice
<1>5. slice.items # <<>> => next \in Turn(some)
  <2> DEFINE left == [d.table EXCEPT ![slice.last[2]] = Absent]
  <2>1. left \in Tables
    BY <1>1 DEF Tables
  <2>2. d.count + 1 \in Nat
    BY DEF Turn
  <2> HIDE DEF left
  <2> QED BY <1>3, <2>1, <2>2 DEF Turn, left
<1> QED BY <1>4, <1>5

LEMMA DeleteWhereRuns ==
  ASSUME NEW t \in Tables, NEW some \in Queries
  PROVE  \E f \in [0..Unlimited -> Turn(some)] :
           /\ f[0] = [table |-> t, after |-> some.after, offset |-> some.offset, count |-> 0]
           /\ \A n \in 1..Unlimited : f[n] = DeleteNext(some, f[n - 1], n)
           /\ DeleteWhere(t, some) = f[Unlimited]
<1> DEFINE U == Unlimited
           begun0 == [table |-> t, after |-> some.after, offset |-> some.offset, count |-> 0]
           Make(g, n) == IF n = 0 THEN begun0 ELSE DeleteNext(some, g[n - 1], n)
           done == CHOOSE g : g = [n \in 0..U |-> Make(g, n)]
           step == [n \in 1..U |-> [d \in Turn(some) |-> DeleteNext(some, d, n)]]
<1>1. U \in Nat
  BY PositionsAre
<1>2. begun0 \in Turn(some)
  BY DEF Turn, Queries
<1>3. step \in Rules(U, Turn(some))
  BY DeleteNextIs DEF Rules
<1>4. PICK f \in [0..U -> Turn(some)] :
        f[0] = begun0 /\ \A n \in 1..U : f[n] = step[n][f[n - 1]]
  <2> HIDE DEF begun0, step, U
  <2>1. HasRun(U, Turn(some), begun0, step)
    BY <1>1, <1>2, <1>3, Recursion
  <2> QED BY <2>1 DEF HasRun
<1>5. \A n \in 1..U : f[n] = DeleteNext(some, f[n - 1], n)
  <2> SUFFICES ASSUME NEW n \in 1..U PROVE f[n] = DeleteNext(some, f[n - 1], n)
    OBVIOUS
  <2>1. n - 1 \in 0..U
    BY <1>1
  <2>2. f[n - 1] \in Turn(some)
    BY <2>1
  <2>3. step[n][f[n - 1]] = DeleteNext(some, f[n - 1], n)
    BY <2>2
  <2> QED BY <1>4, <2>3
<1>6. f = [n \in 0..U |-> Make(f, n)]
  <2> SUFFICES ASSUME NEW n \in 0..U PROVE f[n] = Make(f, n)
    BY Zenon
  <2>1. CASE n = 0
    BY <1>4, <2>1
  <2>2. CASE n # 0
    <3>1. n \in 1..U
      BY <1>1, <2>2
    <3> QED BY <1>5, <2>2, <3>1
  <2> QED BY <2>1, <2>2
<1>7. done = [n \in 0..U |-> Make(done, n)]
  <2> HIDE DEF Make
  <2> QED BY <1>6, Zenon
<1>8. \A n \in 0..U : done[n] = f[n]
  <2> DEFINE S == {n \in Nat : n <= U => done[n] = f[n]}
  <2> HIDE DEF done
  <2>1. 0 \in S
    BY <1>1, <1>4, <1>7
  <2>2. ASSUME NEW n \in Nat, n \in S PROVE n + 1 \in S
    <3> SUFFICES ASSUME n + 1 <= U PROVE done[n + 1] = f[n + 1]
      OBVIOUS
    <3>1. n + 1 \in 1..U /\ n + 1 \in 0..U /\ n + 1 - 1 = n /\ n + 1 # 0 /\ n <= U
      BY <1>1
    <3>2. done[n + 1] = DeleteNext(some, done[n + 1 - 1], n + 1)
      BY <1>7, <3>1
    <3> QED BY <1>5, <2>2, <3>1, <3>2
  <2> HIDE DEF S
  <2>3. Nat \subseteq S
    BY <2>1, <2>2, Induct
  <2> QED BY <1>1, <2>3 DEF S
<1>9. DeleteWhere(t, some) = done[U]
  BY Zenon DEF DeleteWhere
<1> HIDE DEF done
<1>10. U \in 0..U
  BY <1>1
<1> QED BY <1>4, <1>5, <1>8, <1>9, <1>10

LEMMA EffectIs ==
  ASSUME NEW r, Writes(r), NEW t \in Tables PROVE Effect(r, t) \in Tables
<1>1. r.kind = "deleteWhere" => DeleteWhere(t, r.plan).table \in Tables
  <2> SUFFICES ASSUME r.kind = "deleteWhere" PROVE DeleteWhere(t, r.plan).table \in Tables
    OBVIOUS
  <2>1. r.plan \in Queries
    BY DEF Writes
  <2>2. PICK f \in [0..Unlimited -> Turn(r.plan)] : DeleteWhere(t, r.plan) = f[Unlimited]
    BY <2>1, DeleteWhereRuns
  <2>3. DeleteWhere(t, r.plan) \in Turn(r.plan)
    BY <2>2, UnlimitedIs
  <2> QED BY <2>3 DEF Turn
<1>2. CASE r.kind \in {"add", "put"}
  BY <1>2 DEF Writes, Effect, Tables
<1>3. CASE r.kind = "delete"
  BY <1>3 DEF Effect, Tables
<1>4. CASE r.kind = "clear"
  BY <1>4 DEF Effect, Tables
<1>5. CASE r.kind = "deleteWhere"
  BY <1>1, <1>5 DEF Effect
<1>6. CASE r.kind \in {"getKey", "get"}
  BY <1>6 DEF Effect
<1> QED BY <1>2, <1>3, <1>4, <1>5, <1>6 DEF Writes

\* The requests that are queued write rows.
AllWrite(queue) == IsSeq(queue) /\ \A n \in DOMAIN queue : Writes(queue[n])

LEMMA NoneWrites == AllWrite(<<>>)
<1>1. <<>> \in Seq({})
  OBVIOUS
<1>2. IsSeq(<<>>)
  BY <1>1, SequenceIsSeq
<1>3. DOMAIN <<>> = {}
  OBVIOUS
<1> QED BY <1>2, <1>3 DEF AllWrite

LEMMA TailWrites ==
  ASSUME NEW queue, AllWrite(queue), queue # <<>> PROVE AllWrite(Tail(queue)) /\ Writes(Head(queue))
<1> DEFINE S == {queue[n] : n \in DOMAIN queue}
<1>1. queue \in Seq(S) /\ \A r \in S : Writes(r)
  BY DEF AllWrite, IsSeq
<1> HIDE DEF S
<1>2. Tail(queue) \in Seq(S) /\ Head(queue) \in S
  BY <1>1
<1>3. \A n \in DOMAIN Tail(queue) : Tail(queue)[n] \in S
  <2> DEFINE t == Tail(queue)
  <2> HIDE DEF t
  <2>1. t \in Seq(S)
    BY <1>2 DEF t
  <2>2. \A n \in DOMAIN t : t[n] \in S
    BY <2>1
  <2> QED BY <2>2 DEF t
<1> QED BY <1>1, <1>2, <1>3, SequenceIsSeq DEF AllWrite

LEMMA ConcatWrites ==
  ASSUME NEW s, NEW t, AllWrite(s), AllWrite(t) PROVE AllWrite(s \o t)
<1> DEFINE S == {s[n] : n \in DOMAIN s} \cup {t[n] : n \in DOMAIN t}
           u == s \o t
<1>1. s \in Seq(S) /\ t \in Seq(S) /\ \A r \in S : Writes(r)
  <2>1. s \in Seq({s[n] : n \in DOMAIN s}) /\ t \in Seq({t[n] : n \in DOMAIN t})
    BY DEF AllWrite, IsSeq
  <2>2. {s[n] : n \in DOMAIN s} \subseteq S /\ {t[n] : n \in DOMAIN t} \subseteq S
    OBVIOUS
  <2>3. \A r \in S : Writes(r)
    BY DEF AllWrite
  <2> QED BY <2>1, <2>2, <2>3
<1> HIDE DEF S
<1>2. u \in Seq(S)
  BY <1>1
<1> HIDE DEF u
<1>3. \A n \in DOMAIN u : u[n] \in S
  BY <1>2
<1> QED BY <1>1, <1>2, <1>3, SequenceIsSeq DEF AllWrite, u

LEMMA RequestsWrite ==
  ASSUME NEW o \in Operations, NEW awaited PROVE AllWrite(RequestsOf(o, awaited))
<1> DEFINE each(kind) == [n \in 1..Len(o.ids) |->
                            [kind |-> kind, id |-> o.ids[n], row |-> o.row,
                             plan |-> None, awaited |-> awaited]]
           one == [kind |-> o.kind, id |-> None, row |-> None,
                   plan |-> o.plan, awaited |-> awaited]
<1>1. /\ o.kind \in {"insertMany", "putMany", "update", "patch", "deleteMany", "clear",
                     "deleteWhere"}
      /\ o.ids \in Seq(Ids) /\ Len(o.ids) \in Nat
      /\ \A n \in 1..Len(o.ids) : o.ids[n] \in Ids
      /\ o.kind \in {"insertMany", "putMany", "update", "patch"} => o.row \in Rows
      /\ o.kind = "deleteWhere" => o.plan \in Queries
  BY OperationsAssumption
<1>2. ASSUME NEW kind, kind \in {"add", "put", "delete", "getKey", "get"},
             kind \in {"add", "put", "getKey", "get"} => o.row \in Rows
      PROVE  \A n \in DOMAIN each(kind) : Writes(each(kind)[n])
  <2> SUFFICES ASSUME NEW n \in 1..Len(o.ids) PROVE Writes(each(kind)[n])
    OBVIOUS
  <2> DEFINE r == [kind |-> kind, id |-> o.ids[n], row |-> o.row,
                   plan |-> None, awaited |-> awaited]
  <2>1. Writes(r)
    BY <1>1, <1>2 DEF Writes
  <2>2. each(kind)[n] = r
    OBVIOUS
  <2> HIDE DEF r, each
  <2> QED BY <2>1, <2>2
<1>3. ASSUME o.kind \in {"clear", "deleteWhere"}
      PROVE  \A n \in DOMAIN <<one>> : Writes(<<one>>[n])
  <2>1. Writes(one)
    BY <1>1, <1>3 DEF Writes
  <2> HIDE DEF one
  <2> QED BY <2>1
<1>4. /\ o.kind = "insertMany" => RequestsOf(o, awaited) = each("add")
      /\ o.kind = "putMany" => RequestsOf(o, awaited) = each("put")
      /\ o.kind = "deleteMany" => RequestsOf(o, awaited) = each("delete")
      /\ o.kind = "update" => RequestsOf(o, awaited) = each("getKey")
      /\ o.kind = "patch" => RequestsOf(o, awaited) = each("get")
      /\ o.kind \in {"clear", "deleteWhere"} => RequestsOf(o, awaited) = <<one>>
  <2> HIDE DEF one
  <2> QED BY DEF RequestsOf, one
<1> HIDE DEF each, one
<1>5. \A n \in DOMAIN RequestsOf(o, awaited) : Writes(RequestsOf(o, awaited)[n])
  BY <1>1, <1>2, <1>3, <1>4
<1> QED BY <1>5, RequestsOfIsSeq DEF AllWrite

LEMMA FollowUpWrites ==
  ASSUME NEW r, Writes(r), NEW t \in Tables PROVE AllWrite(FollowUp(r, t))
<1> DEFINE next == [r EXCEPT !.kind = "put", !.row = Patched(r, t)]
<1>1. ASSUME r.kind \in {"get", "getKey"}, t[r.id] # Absent PROVE Writes(next)
  <2>1. r.id \in Ids /\ r.row \in Rows /\ t[r.id] \in Rows
    BY <1>1 DEF Writes, Tables
  <2>2. Patched(r, t) \in Rows
    BY <1>1, <2>1 DEF Patched, Rows
  <2>3. next = [kind |-> "put", id |-> r.id, row |-> Patched(r, t), plan |-> r.plan,
                awaited |-> r.awaited]
    <3> DEFINE value == Patched(r, t)
               k == r.kind
               i == r.id
               w == r.row
               p == r.plan
               a == r.awaited
    <3>1. r = [kind |-> k, id |-> i, row |-> w, plan |-> p, awaited |-> a]
      BY DEF Writes
    <3> HIDE DEF value, k, i, w, p, a
    <3>2. r \in [kind : {k}, id : {i}, row : {w}, plan : {p}, awaited : {a}]
      BY <3>1
    <3>3. [r EXCEPT !.kind = "put", !.row = value]
            \in [kind : {"put"}, id : {i}, row : {value}, plan : {p}, awaited : {a}]
      BY <3>2
    <3>4. [r EXCEPT !.kind = "put", !.row = value] =
            [kind |-> "put", id |-> i, row |-> value, plan |-> p, awaited |-> a]
      <4> DEFINE e == [r EXCEPT !.kind = "put", !.row = value]
      <4>1. e \in [kind : {"put"}, id : {i}, row : {value}, plan : {p}, awaited : {a}]
        BY <3>3
      <4> HIDE DEF e
      <4>2. e = [kind |-> "put", id |-> i, row |-> value, plan |-> p, awaited |-> a]
        BY <4>1
      <4> QED BY <4>2 DEF e
    <3> QED BY <3>4 DEF value, i, p, a
  <2> HIDE DEF next
  <2> QED BY <2>1, <2>2, <2>3 DEF Writes
<1>2. CASE r.kind \in {"get", "getKey"} /\ t[r.id] # Absent
  <2>1. FollowUp(r, t) = <<next>> /\ Writes(next)
    BY <1>1, <1>2 DEF FollowUp
  <2> HIDE DEF next
  <2>2. \A n \in DOMAIN FollowUp(r, t) : Writes(FollowUp(r, t)[n])
    BY <2>1
  <2> QED BY <2>2, FollowUpIsSeq DEF AllWrite
<1>3. CASE ~(r.kind \in {"get", "getKey"} /\ t[r.id] # Absent)
  BY <1>3, NoneWrites DEF FollowUp
<1> QED BY <1>2, <1>3

----------------------------------------------------------------------------
(* What is written between two batches. *)

WriteTyped == rows \in Tables /\ draft \in Tables /\ before \in Tables /\ AllWrite(requests)

LEMMA WriteIsTyped == WriteTyped /\ TransactionNext => WriteTyped'
<1> SUFFICES ASSUME WriteTyped, TransactionNext PROVE WriteTyped'
  OBVIOUS
<1> USE DEF WriteTyped
<1>1. CASE Open \/ OpenFails
  BY <1>1, NoneWrites DEF Open, OpenFails
<1>2. ASSUME NEW o \in Operations, NEW awaited \in BOOLEAN, Ask(o, awaited) PROVE WriteTyped'
  <2>1. AllWrite(requests')
    BY <1>2, RequestsWrite, ConcatWrites DEF Ask
  <2> QED BY <1>2, <2>1 DEF Ask
<1>3. CASE AwaitElsewhere \/ ComeBack \/ Return \/ Throw
  BY <1>3 DEF AwaitElsewhere, ComeBack, Return, Throw
<1>4. CASE Execute
  <2> DEFINE r == Head(requests)
  <2>1. /\ requests' = Tail(requests) \o FollowUp(r, draft) /\ draft' = Effect(r, draft)
        /\ requests # <<>> /\ UNCHANGED <<rows, before>>
    BY <1>4 DEF Execute
  <2>2. Writes(r) /\ AllWrite(Tail(requests))
    BY <2>1, TailWrites
  <2> HIDE DEF r
  <2>3. AllWrite(requests')
    BY <2>1, <2>2, FollowUpWrites, ConcatWrites
  <2> QED BY <2>1, <2>2, <2>3, EffectIs
<1>5. CASE Fail
  BY <1>5, TailWrites DEF Fail
<1>6. CASE OnError \/ AbortAlone \/ OnAbort \/ Commit \/ OnComplete
  BY <1>6 DEF OnError, AbortAlone, OnAbort, Commit, OnComplete
<1>7. CASE AbortRequests
  BY <1>7, NoneWrites DEF AbortRequests
<1> QED BY <1>1, <1>2, <1>3, <1>4, <1>5, <1>6, <1>7 DEF TransactionNext, Work, Browser

LEMMA WriteKeeps == ReaderInv /\ IsSeq(requests) /\ Write => ReaderInv'
<1> SUFFICES ASSUME ReaderInv, IsSeq(requests), Write PROVE ReaderInv'
  OBVIOUS
<1>1. Typed /\ Asks /\ Steady /\ (reader = "reading" => GoesOn /\ Counts)
      /\ HandedInOrder /\ NothingLost
  BY DEF ReaderInv
<1>2. /\ TransactionNext /\ steady' = steady \cap Chosen(rows', query, query.range)
      /\ UNCHANGED <<plan, batchSize, reader, handed, query>>
  BY DEF Write, readerVars
<1>3. Typed'
  BY <1>1, <1>2, WriteIsTyped DEF Typed, WriteTyped, AllWrite
<1>4. Asks' /\ Counts' = Counts /\ HandedInOrder'
  BY <1>1, <1>2 DEF Asks, Counts, HandedInOrder
<1>5. IsFiniteSet(steady) /\ steady' \subseteq steady
  BY <1>1, <1>2 DEF Steady
<1>6. Steady'
  <2>1. IsFiniteSet(steady')
    BY <1>5, FS_Subset
  <2> QED BY <1>2, <2>1 DEF Steady
<1>7. ASSUME NEW S, NEW T, IsFiniteSet(T), S \subseteq T, Cardinality(T) <= query.offset
      PROVE  Cardinality(S) <= query.offset
  <2>1. Cardinality(S) <= Cardinality(T) /\ IsFiniteSet(S)
    BY <1>7, FS_Subset
  <2>2. Cardinality(S) \in Nat /\ Cardinality(T) \in Nat /\ query.offset \in Nat
    BY <1>1, <1>7, <2>1, FS_CardinalityType DEF Asks, Queries
  <2> QED BY <1>7, <2>1, <2>2
<1>8. GoesOn => GoesOn'
  <2>1. IsFiniteSet(Behind)
    BY <1>5, FS_Subset DEF Behind
  <2>2. Behind' \subseteq Behind
    BY <1>2, <1>5 DEF Behind, HandedOut
  <2> DEFINE S == Behind'
             T == Behind
  <2>3. Cardinality(T) <= query.offset => Cardinality(S) <= query.offset
    <3> HIDE DEF S, T
    <3> QED BY <1>7, <2>1, <2>2 DEF S, T
  <2>4. Cardinality(Behind') = Cardinality(Behind)'
    OBVIOUS
  <2> QED BY <1>2, <2>3 DEF GoesOn
<1>9. NothingLost'
  <2> DEFINE out == {handed[n] : n \in 1..Len(handed)}
             S == steady' \ out
             T == steady \ out
  <2>1. IsFiniteSet(T) /\ S \subseteq T
    BY <1>5, FS_Subset
  <2> HIDE DEF S, T
  <2>2. Cardinality(T) <= query.offset => Cardinality(S) <= query.offset
    BY <1>7, <2>1
  <2> QED BY <1>1, <1>2, <2>2 DEF NothingLost, S, T
<1> QED BY <1>1, <1>2, <1>3, <1>4, <1>6, <1>8, <1>9 DEF ReaderInv

LEMMA ReaderInit == Init => ReaderInv
<1> SUFFICES ASSUME Init PROVE ReaderInv
  OBVIOUS
<1>1. /\ rows \in Tables /\ draft = rows /\ before = rows /\ requests = <<>>
      /\ query \in Queries /\ plan = query /\ batchSize \in Nat \ {0}
      /\ reader = "reading" /\ handed = <<>> /\ steady = Chosen(rows, query, query.range)
  BY ReaderAssumption DEF Init, TransactionInit
<1>2. Typed
  <2>1. AllWrite(requests)
    BY <1>1, NoneWrites
  <2> QED BY <1>1, <2>1 DEF Typed, AllWrite
<1>3. Asks
  <2>1. /\ query.limit \in 0..Unlimited /\ query.offset \in Nat /\ query.after = None
        /\ query = [query EXCEPT !.limit = query.limit, !.offset = query.offset,
                                 !.after = query.after]
    BY <1>1 DEF Queries
  <2>2. <<>> \in Seq(Position)
    OBVIOUS
  <2> QED BY <1>1, <2>1, <2>2 DEF Asks
<1>4. Steady
  <2>1. Direction(query)
    BY <1>1 DEF Queries, Direction
  <2>2. IsFiniteSet(Chosen(rows, query, query.range))
    BY <1>1, <2>1, ChosenIs
  <2> QED BY <1>1, <2>2 DEF Steady
<1>5. GoesOn /\ Counts
  <2>1. plan.after = None /\ plan.offset = query.offset /\ plan.limit = query.limit
    BY <1>1 DEF Queries
  <2>2. query.limit \in Nat /\ Len(handed) = 0
    BY <1>1, UnlimitedIs DEF Queries
  <2> QED BY <1>1, <2>1, <2>2 DEF GoesOn, Counts
<1>6. HandedInOrder /\ NothingLost
  BY <1>1 DEF HandedInOrder, NothingLost
<1> QED BY <1>2, <1>3, <1>4, <1>5, <1>6 DEF ReaderInv

\* A limit that is reached ends the iteration; so does a transaction that fails.
LEMMA StopKeeps == ReaderInv /\ (LimitReached \/ ReadFails \/ UNCHANGED vars) => ReaderInv'
<1> SUFFICES ASSUME ReaderInv, LimitReached \/ ReadFails \/ UNCHANGED vars PROVE ReaderInv'
  OBVIOUS
<1>1. /\ UNCHANGED <<rows, draft, before, requests, plan, batchSize, handed, steady, query>>
      /\ \/ reader' = reader
         \/ reader' = "failed"
         \/ reader = "reading" /\ plan.limit = 0 /\ reader' = "done"
  BY DEF LimitReached, ReadFails, vars, txVars, runVars, readerVars
<1>2. Typed' /\ Asks' /\ Steady' /\ HandedInOrder'
  BY <1>1 DEF ReaderInv, Typed, Asks, Steady, HandedInOrder
<1>3. CASE reader' = reader
  BY <1>1, <1>2, <1>3 DEF ReaderInv, GoesOn, Behind, HandedOut, Counts, NothingLost
<1>4. CASE reader' = "failed"
  BY <1>2, <1>4 DEF ReaderInv, NothingLost
<1>5. CASE reader = "reading" /\ plan.limit = 0 /\ reader' = "done"
  <2>1. Len(handed) = query.limit
    <3>1. Counts /\ Unlimited >= 1 /\ Unlimited \in Nat /\ Len(handed) \in Nat
          /\ query.limit \in Nat
      BY <1>5, UnlimitedIs DEF ReaderInv, Asks, Queries
    <3> QED BY <1>5, <3>1 DEF Counts
  <2> QED BY <1>1, <1>2, <1>5, <2>1 DEF ReaderInv, NothingLost
<1> QED BY <1>1, <1>3, <1>4, <1>5

LEMMA ReaderStep == ReaderInv /\ IInv /\ [Next]_vars => ReaderInv'
BY ReadBatchKeeps, WriteKeeps, StopKeeps DEF Next, IInv, Kinds

----------------------------------------------------------------------------
\* How the transaction, its work and its promise keep together, always.
THEOREM KeepTogether == Spec => []IInv
BY InitHolds, StepHolds, PTL DEF Spec

\* A promise of run that resolves tells of a transaction that committed with all its
\* requests done, and one that rejects, of a table left as it was: whatever the work
\* asks, awaits and throws, and whenever the browser aborts.
THEOREM EndIsAlwaysTold == Spec => []EndIsTold
<1>1. IInv => EndIsTold
  BY DEF IInv, Underway, Over, EndIsTold, AllOrNothing
<1> QED BY <1>1, KeepTogether, PTL

\* A caller of run is never left waiting by a transaction and a work that are both over,
\* in whichever order they ended.
THEOREM NobodyEverWaits == Spec => []NobodyWaits
<1>1. IInv => NobodyWaits
  BY DEF IInv, Kinds, Underway, Over, NobodyWaits, Ended
<1> QED BY <1>1, KeepTogether, PTL

\* The reader and what is written keep together, always.
THEOREM ReaderKeeps == Spec => []ReaderInv
BY ReaderInit, ReaderStep, KeepTogether, PTL DEF Spec

\* Whatever the rows, the queries and the sizes of the batches, no row is handed out twice
\* for one entry, and rows come in the order of the query, however they are written in
\* between.
THEOREM RowsComeInOrder == Spec => []HandedInOrder
<1>1. ReaderInv => HandedInOrder
  BY DEF ReaderInv
<1> QED BY <1>1, ReaderKeeps, PTL

\* An iteration that ends has handed out every entry that was chosen all the time, but for
\* as many as its offset passes over, or as many rows as its limit.
THEOREM NoRowIsLost == Spec => []NothingLost
<1>1. ReaderInv => NothingLost
  BY DEF ReaderInv
<1> QED BY <1>1, ReaderKeeps, PTL

----------------------------------------------------------------------------
(* What the readers of one transaction answer. *)

\* Two plans that walk alike list alike.
LEMMA SameOrder ==
  ASSUME NEW some, Direction(some), NEW other, Direction(other),
         \A p, q : Before(some, p, q) = Before(other, p, q),
         NEW S, S \subseteq Position, IsFiniteSet(S)
  PROVE  InOrder(some, S) = InOrder(other, S)
<1> DEFINE N == Cardinality(S)
           F == InOrder(some, S)
           G == InOrder(other, S)
<1>1. F \in [1..N -> S] /\ G \in [1..N -> S]
  BY InOrderIs
<1>2. ASSUME NEW n \in 1..N PROVE F[n] = G[n]
  <2>1. G[n] \in S
    BY <1>1
  <2>2. Preceding(some, S, G[n]) = Preceding(other, S, G[n])
    BY DEF Preceding
  <2>3. /\ \A p \in S : Cardinality(Preceding(some, S, p)) = n - 1 <=> F[n] = p
        /\ \A p \in S : Cardinality(Preceding(other, S, p)) = n - 1 <=> G[n] = p
    BY InOrderIs
  <2> HIDE DEF F, G
  <2> QED BY <2>1, <2>2, <2>3
<1> HIDE DEF F, G, N
<1>3. F = [n \in 1..N |-> F[n]] /\ G = [n \in 1..N |-> G[n]]
  BY <1>1
<1>4. F = G
  BY <1>2, <1>3
<1> QED BY <1>4 DEF F, G

\* The ids of a page are those of its rows.
LEMMA IdsOfIs ==
  ASSUME NEW t \in Tables, NEW some, Plan(some)
  PROVE  /\ IdsOf(t, some) \in Seq(Nat) /\ Len(IdsOf(t, some)) = PageLength(t, some)
         /\ \A i \in 1..PageLength(t, some) :
               IdsOf(t, some)[i] = Rest(t, some)[some.offset + i][2]
<1> DEFINE items == IF ReadsInOrder(some) THEN GetAll(t, some, some.limit)
                                          ELSE Scan(t, some, FALSE).items
           L == PageLength(t, some)
<1>1. IsPage(items, t, some)
  <2>1. CASE ~ReadsInOrder(some)
    BY <2>1, ScanIs
  <2>2. CASE ReadsInOrder(some)
    <3> DEFINE A == Ahead(t, some)
               F == Rest(t, some)
               N == Size(t, some)
    <3>1. items = UpTo(F, some.limit) /\ some.offset = 0 /\ some.limit \in Nat
      BY <2>2, GetAllIs DEF Plan
    <3>2. F \in Seq(A) /\ Len(F) = N /\ N \in Nat
      BY RestIs
    <3> HIDE DEF items, F, N, A
    <3>3. /\ items \in Seq(A) /\ Len(items) = IF some.limit < N THEN some.limit ELSE N
          /\ \A i \in 1..Len(items) : items[i] = F[i]
      BY <3>1, <3>2, UpToIs
    <3>4. Len(items) = PageLength(t, some)
      BY <3>1, <3>2, <3>3 DEF PageLength, N
    <3>5. \A i \in 1..PageLength(t, some) : items[i] = F[some.offset + i]
      BY <3>1, <3>3, <3>4
    <3> QED BY <3>3, <3>4, <3>5 DEF IsPage, A, F
  <2> QED BY <2>1, <2>2
<1>2. IdsOf(t, some) = [n \in DOMAIN items |-> items[n][2]]
  BY DEF IdsOf
<1> HIDE DEF items
<1>3. items \in Seq(Position) /\ Len(items) = L /\ L \in Nat
  BY <1>1, AheadIs DEF IsPage
<1>4. DOMAIN items = 1..L /\ \A n \in 1..L : items[n] \in Position
  BY <1>3
<1>5. \A n \in 1..L : items[n][2] \in Nat
  BY <1>4 DEF Position
<1>6. IdsOf(t, some) \in [1..L -> Nat]
  BY <1>2, <1>4, <1>5
<1>7. IdsOf(t, some) \in Seq(Nat) /\ Len(IdsOf(t, some)) = L
  BY <1>3, <1>6
<1>8. \A i \in 1..L : IdsOf(t, some)[i] = items[i][2]
  BY <1>2, <1>4
<1> QED BY <1>1, <1>7, <1>8 DEF IsPage

LEMMA PageLengthIs ==
  ASSUME NEW t \in Tables, NEW some, Plan(some)
  PROVE  PageLength(t, some) \in Nat
BY RestIs DEF PageLength, Plan

\* A page starts a plan that walks as its token says, after the last of its rows.
LEMMA TokensKeepTheirScope ==
  ASSUME Typed, Asks, query.after = None PROVE TokensStayInScope
<1> DEFINE one == [query EXCEPT !.limit = 1]
           token == Find(rows, one).next
           slice == RowsOf(rows, one, TRUE)
<1> SUFFICES ASSUME token # None,
                    NEW index \in BOOLEAN, NEW forward \in BOOLEAN, NEW unique \in BOOLEAN,
                    PlanOf([query EXCEPT !.after = token, !.index = index,
                              !.forward = forward, !.unique = unique]) # None
             PROVE  LET next == PlanOf([query EXCEPT !.after = token, !.index = index,
                                          !.forward = forward, !.unique = unique])
                    IN  \A n \in DOMAIN Find(rows, next).items :
                          Before(query, token.at, Find(rows, next).items[n])
  <2> HIDE DEF token
  <2> QED BY DEF TokensStayInScope, token
<1> DEFINE other == [query EXCEPT !.after = token, !.index = index,
                                  !.forward = forward, !.unique = unique]
           p == PlanOf(other)
<1>1. rows \in Tables /\ query \in Queries /\ Unlimited \in Nat
  BY UnlimitedIs DEF Typed, Asks
<1>2. Plan(one) /\ one.range = query.range /\ Direction(query) /\ Direction(one)
      /\ one.index = query.index /\ one.forward = query.forward /\ one.unique = query.unique
  BY <1>1 DEF Plan, Queries, Direction
<1> HIDE DEF one
<1>3. slice.more /\ token = TokenOf(one, slice.last)
  BY DEF Find
<1>4. slice.last \in Position /\ Within(query.range, slice.last[1])
  <2>1. IsPage(slice.items, rows, one) /\ slice.last = slice.items[PageLength(rows, one)]
        /\ IsMore(rows, one)
    BY <1>1, <1>2, <1>3, RowsOfIs
  <2> DEFINE L == PageLength(rows, one)
             items == slice.items
             A == Ahead(rows, one)
             last == slice.last
  <2>2. L \in Nat /\ L > 0
    <3>1. one.limit \in Nat /\ one.offset \in Nat /\ Size(rows, one) \in Nat
      BY <1>1, <1>2, RestIs DEF Plan
    <3> QED BY <2>1, <3>1 DEF IsMore, PageLength
  <2>4. items \in Seq(A) /\ Len(items) = L /\ last = items[L]
    BY <2>1 DEF IsPage
  <2>5. /\ A \subseteq Visits(rows, query, query.range)
        /\ A \subseteq Position
        /\ \A x \in Visits(rows, query, query.range) : Within(query.range, x[1])
    <3>1. /\ A \subseteq Chosen(rows, one, one.range) /\ A \subseteq Position
          /\ Chosen(rows, one, one.range) \subseteq Visits(rows, one, one.range)
          /\ \A x \in Visits(rows, query, query.range) : Within(query.range, x[1])
      BY <1>1, <1>2, AheadIs, ChosenIs
    <3>2. Visits(rows, one, one.range) = Visits(rows, query, query.range)
      BY <1>2 DEF Visits
    <3> QED BY <3>1, <3>2
  <2> HIDE DEF L, items, A, last
  <2>3. last \in A
    BY <2>2, <2>4
  <2> QED BY <2>3, <2>5 DEF last
<1> HIDE DEF slice
<1>5. /\ token.at = slice.last /\ token.index = query.index
      /\ token.forward = query.forward /\ token.unique = query.unique
  BY <1>2, <1>3 DEF TokenOf
<1> HIDE DEF token
<1>6. other.after = token /\ other.index = index /\ other.forward = forward
      /\ other.unique = unique /\ other.range = query.range
      /\ other = [query EXCEPT !.after = token, !.index = index,
                               !.forward = forward, !.unique = unique]
  BY <1>1 DEF Queries
<1>7. Continues(other, token) /\ p = [other EXCEPT !.after = token.at]
  BY <1>6 DEF PlanOf
<1>8. /\ p.index = query.index /\ p.forward = query.forward /\ p.unique = query.unique
      /\ p.filtered = query.filtered /\ p.range = query.range /\ p.after = slice.last
      /\ p.offset = query.offset /\ p.limit = query.limit
  BY <1>1, <1>5, <1>6, <1>7 DEF Continues, Queries
<1> HIDE DEF p, other
<1>9. Plan(p)
  BY <1>1, <1>4, <1>8 DEF Plan, Queries, Direction
<1>10. ASSUME NEW n \in DOMAIN Find(rows, p).items
       PROVE  Before(query, token.at, Find(rows, p).items[n])
  <2> DEFINE x == Find(rows, p).items[n]
  <2>1. Find(rows, p).items = RowsOf(rows, p, TRUE).items
    BY DEF Find
  <2>2. Find(rows, p).items \in Seq(Ahead(rows, p))
    BY <1>1, <1>9, <2>1, RowsOfIs DEF IsPage
  <2>3. x \in Ahead(rows, p)
    BY <2>2
  <2> HIDE DEF x
  <2>4. p.after # None
    BY <1>4, <1>8, KeysAssumption DEF Position
  <2>5. IsPast(p, x, p.after) /\ x \in Position
    BY <1>1, <1>9, <2>3, <2>4, AheadIs
  <2>6. Before(p, p.after, x)
    BY <1>4, <1>8, <1>9, <2>5, PastIsAfter DEF Plan
  <2>7. Before(query, p.after, x)
    BY <1>8, <2>6, SameDirection
  <2> QED BY <1>5, <1>8, <2>7 DEF x
<1> QED BY <1>10 DEF p, other

----------------------------------------------------------------------------
(* The inspector and a query without bounds. *)

Anywhere == [lower |-> None, upper |-> None]
Whole(index, forward, unique) ==
  [query EXCEPT !.index = index, !.forward = forward, !.unique = unique,
                !.filtered = FALSE, !.offset = 0, !.limit = Unlimited, !.range = Anywhere]

LEMMA WholeIs ==
  ASSUME Asks, Typed, query.after = None,
         NEW index \in BOOLEAN, NEW forward \in BOOLEAN, NEW unique \in BOOLEAN
  PROVE  LET w == Whole(index, forward, unique)
         IN  /\ Plan(w) /\ Direction(w) /\ w.range = Anywhere /\ w.after = None
             /\ w.index = index /\ w.forward = forward /\ w.unique = unique
             /\ w.offset = 0 /\ w.limit = Unlimited
             /\ Chosen(rows, w, w.range) = Visits(rows, w, Anywhere)
             /\ ~unique => Visits(rows, w, Anywhere) = Positions(rows, index)
             /\ IsPage(RowsOf(rows, w, TRUE).items, rows, w)
             /\ PageLength(rows, w) = Size(rows, w) /\ Size(rows, w) \in Nat
             /\ Ahead(rows, w) = Visits(rows, w, Anywhere)
<1> DEFINE w == Whole(index, forward, unique)
<1>1. rows \in Tables /\ query \in Queries /\ Unlimited \in Nat
  BY UnlimitedIs DEF Typed, Asks
<1>2. /\ w.range = Anywhere /\ w.after = None /\ w.index = index /\ w.forward = forward
      /\ w.unique = unique /\ w.offset = 0 /\ w.limit = Unlimited /\ w.filtered = FALSE
  BY <1>1 DEF Queries, Whole
<1> HIDE DEF w
<1>3. Plan(w) /\ Direction(w)
  <2>1. Direction(w)
    BY <1>2 DEF Direction
  <2>2. w.offset \in Nat /\ w.limit \in Nat /\ w.after = None
    BY <1>1, <1>2
  <2> QED BY <2>1, <2>2 DEF Plan
<1>4. Chosen(rows, w, w.range) = Visits(rows, w, Anywhere)
  BY <1>2 DEF Chosen
<1>5. \A k : Within(Anywhere, k)
  BY DEF Within, Anywhere
<1>6. ~unique => Visits(rows, w, Anywhere) = Positions(rows, index)
  BY <1>2, <1>5 DEF Visits
<1>7. IsPage(RowsOf(rows, w, TRUE).items, rows, w)
  BY <1>1, <1>3, RowsOfIs
<1>8. Size(rows, w) \in Nat /\ Size(rows, w) < Unlimited
  BY <1>1, <1>3, RestIs
<1>9. PageLength(rows, w) = Size(rows, w)
  BY <1>1, <1>2, <1>8 DEF PageLength
<1>10. Ahead(rows, w) = Visits(rows, w, Anywhere)
  BY <1>2, <1>4 DEF Ahead
<1> QED BY <1>2, <1>3, <1>4, <1>6, <1>7, <1>8, <1>9, <1>10 DEF w

\* The first row of a query without bounds is at the edge of its source.
LEMMA EdgeIs ==
  ASSUME Asks, Typed, query.after = None, NEW index \in BOOLEAN, NEW forward \in BOOLEAN
  PROVE  LET items == RowsOf(rows, Whole(index, forward, FALSE), TRUE).items
             edges == Edges(rows, index)
         IN  (IF items = <<>> THEN None ELSE items[1][1]) =
               IF forward THEN edges.first ELSE edges.last
<1> DEFINE w == Whole(index, forward, FALSE)
           items == RowsOf(rows, w, TRUE).items
           P == Positions(rows, index)
           keys == {p[1] : p \in P}
           N == Size(rows, w)
           F == Rest(rows, w)
<1>1. /\ Plan(w) /\ w.forward = forward /\ w.offset = 0
      /\ IsPage(items, rows, w) /\ PageLength(rows, w) = N /\ N \in Nat
      /\ Ahead(rows, w) = P /\ rows \in Tables
  <2> HIDE DEF w, items, P, N
  <2>1. /\ Plan(w) /\ w.forward = forward /\ w.offset = 0
        /\ IsPage(RowsOf(rows, w, TRUE).items, rows, w)
        /\ PageLength(rows, w) = Size(rows, w) /\ Size(rows, w) \in Nat
        /\ Ahead(rows, w) = Visits(rows, w, Anywhere)
        /\ Visits(rows, w, Anywhere) = Positions(rows, index)
    BY WholeIs DEF w
  <2> QED BY <2>1 DEF items, P, N, Typed
<1> HIDE DEF w
<1>2. /\ \A n \in 1..N : F[n] \in P
      /\ \A p \in P : \E n \in 1..N : F[n] = p
      /\ \A m, n \in 1..N : m < n => Before(w, F[m], F[n])
  <2> HIDE DEF P
  <2> QED BY <1>1, RestIs
<1>3. P \subseteq Position
  BY <1>1, PositionsAre
<1>4. items \in Seq(P) /\ Len(items) = N /\ \A i \in 1..N : items[i] = F[i]
  <2> HIDE DEF P, items, F, N
  <2>1. F = Rest(rows, w) /\ N = Size(rows, w)
    BY DEF F, N
  <2> QED BY <1>1, <2>1 DEF IsPage
<1>5. Edges(rows, index) = IF keys = {} THEN [first |-> None, last |-> None]
                           ELSE [first |-> Min(keys), last |-> Max(keys)]
  BY DEF Edges
<1> HIDE DEF items, F, N, w, P
<1>6. CASE N = 0
  <2>1. P = {} /\ items = <<>>
    BY <1>2, <1>4, <1>6
  <2>2. keys = {}
    BY <2>1
  <2> QED BY <1>5, <2>1, <2>2 DEF items, w
<1>7. CASE N # 0
  <2> DEFINE k == F[1][1]
  <2>1. 1 \in 1..N /\ items # <<>> /\ items[1] = F[1] /\ F[1] \in P /\ F[1] \in Position
    BY <1>1, <1>2, <1>3, <1>4, <1>7
  <2>2. ASSUME NEW p \in P
        PROVE  k \in Nat /\ p[1] \in Nat /\ (IF forward THEN k <= p[1] ELSE k >= p[1])
    <3>1. PICK n \in 1..N : F[n] = p
      BY <1>2
    <3>2. n = 1 \/ Before(w, F[1], p)
      BY <1>1, <1>2, <2>1, <3>1
    <3>3. p \in Position
      BY <1>3
    <3>4. k \in Nat /\ p[1] \in Nat
      BY <2>1, <3>3, Pairs
    <3>5. CASE n = 1
      BY <3>1, <3>4, <3>5
    <3>6. CASE Before(w, F[1], p)
      BY <1>1, <3>4, <3>6 DEF Before
    <3> QED BY <3>2, <3>4, <3>5, <3>6
  <2>3. k \in keys /\ keys \subseteq Nat /\ keys # {}
    BY <2>1, <2>2
  <2>4. \A y \in keys : IF forward THEN k <= y ELSE k >= y
    BY <2>2
  <2> HIDE DEF k, keys
  <2>5. forward => Min(keys) = k
    <3> SUFFICES ASSUME forward PROVE Min(keys) = k
      OBVIOUS
    <3>1. Min(keys) \in keys /\ \A y \in keys : Min(keys) <= y
      BY <2>3, <2>4 DEF Min
    <3>2. Min(keys) \in Nat /\ k \in Nat /\ Min(keys) <= k /\ k <= Min(keys)
      BY <2>3, <2>4, <3>1
    <3> QED BY <3>2
  <2>6. ~forward => Max(keys) = k
    <3> SUFFICES ASSUME ~forward PROVE Max(keys) = k
      OBVIOUS
    <3>1. Max(keys) \in keys /\ \A y \in keys : Max(keys) >= y
      BY <2>3, <2>4 DEF Max
    <3>2. Max(keys) \in Nat /\ k \in Nat /\ Max(keys) <= k /\ k <= Max(keys)
      BY <2>3, <2>4, <3>1
    <3> QED BY <3>2
  <2>7. Edges(rows, index) = [first |-> Min(keys), last |-> Max(keys)]
    BY <1>5, <2>3 DEF keys
  <2>8. items[1][1] = k
    BY <2>1 DEF k
  <2>9. Edges(rows, index).first = Min(keys) /\ Edges(rows, index).last = Max(keys)
    BY <2>7
  <2>10. (IF items = <<>> THEN None ELSE items[1][1]) =
           IF forward THEN Edges(rows, index).first ELSE Edges(rows, index).last
    BY <2>1, <2>5, <2>6, <2>8, <2>9
  <2> QED BY <2>10 DEF items, w
<1> QED BY <1>1, <1>6, <1>7

\* A sample is the first rows of the store.
LEMMA SampleIs ==
  ASSUME Asks, Typed, query.after = None, NEW limit
  PROVE  Sample(rows, query, limit) =
           UpTo(RowsOf(rows, Whole(FALSE, TRUE, FALSE), TRUE).items, limit)
<1> DEFINE w == Whole(FALSE, TRUE, FALSE)
           s == [query EXCEPT !.index = FALSE, !.forward = TRUE, !.unique = FALSE,
                              !.range = Anywhere]
           items == RowsOf(rows, w, TRUE).items
           F == Rest(rows, w)
           N == Size(rows, w)
           A == Ahead(rows, w)
<1>1. /\ Plan(w) /\ Direction(w) /\ w.index = FALSE /\ w.forward = TRUE /\ w.unique = FALSE
      /\ w.offset = 0 /\ IsPage(items, rows, w) /\ PageLength(rows, w) = N /\ N \in Nat
      /\ A = Visits(rows, w, Anywhere) /\ rows \in Tables /\ query \in Queries
  BY WholeIs DEF Typed, Asks
<1>2. /\ s.index = FALSE /\ s.forward = TRUE /\ s.unique = FALSE /\ s.range = Anywhere
      /\ Direction(s)
  BY <1>1 DEF Queries, Direction
<1>3. Sample(rows, query, limit) = UpTo(InOrder(s, Visits(rows, s, Anywhere)), limit)
  BY <1>2 DEF Sample, GetAll, Anywhere
<1> HIDE DEF s, w
<1>4. Visits(rows, s, Anywhere) = A
  BY <1>1, <1>2 DEF Visits
<1>5. \A p, q : Before(s, p, q) = Before(w, p, q)
  BY <1>1, <1>2 DEF Before
<1>6. InOrder(s, A) = F
  <2>1. A \subseteq Position /\ IsFiniteSet(A)
    BY <1>1, AheadIs
  <2> HIDE DEF A
  <2>2. InOrder(s, A) = InOrder(w, A)
    BY <1>1, <1>2, <1>5, <2>1, SameOrder
  <2> QED BY <2>2 DEF Rest, A
<1>7. items = F
  <2>1. items \in Seq(A) /\ Len(items) = N /\ \A i \in 1..N : items[i] = F[i]
    <3> HIDE DEF A, items, F, N
    <3>1. F = Rest(rows, w) /\ A = Ahead(rows, w)
      BY DEF F, A
    <3> QED BY <1>1, <3>1 DEF IsPage
  <2>2. F \in Seq(A) /\ Len(F) = N
    BY <1>1, RestIs
  <2> HIDE DEF items, F, A, N
  <2>3. items = [i \in 1..N |-> items[i]] /\ F = [i \in 1..N |-> F[i]]
    BY <2>1, <2>2
  <2> QED BY <2>1, <2>3
<1> QED BY <1>3, <1>4, <1>6, <1>7 DEF w

LEMMA InspectorKeeps ==
  ASSUME Asks, Typed, query.after = None PROVE InspectorAgrees
<1> DEFINE seen == StoreStatistics(rows, query)
           starts(index, forward) ==
             LET items == RowsOf(rows, Whole(index, forward, FALSE), TRUE).items
             IN  IF items = <<>> THEN None ELSE items[1][1]
           shape(index) == [first |-> starts(index, TRUE), last |-> starts(index, FALSE)]
<1>1. \A index \in BOOLEAN : Edges(rows, index) = shape(index)
  <2> SUFFICES ASSUME NEW index \in BOOLEAN PROVE Edges(rows, index) = shape(index)
    OBVIOUS
  <2>1. starts(index, TRUE) = Edges(rows, index).first
        /\ starts(index, FALSE) = Edges(rows, index).last
    BY EdgeIs
  <2>2. \E x, y : Edges(rows, index) = [first |-> x, last |-> y]
    BY DEF Edges
  <2> HIDE DEF starts
  <2> QED BY <2>1, <2>2
<1>2. seen.records = Count(rows, Whole(FALSE, TRUE, FALSE))
  <2> DEFINE P == Positions(rows, FALSE)
             S == Present(rows)
             f == [i \in S |-> <<i, i>>]
  <2>1. Count(rows, Whole(FALSE, TRUE, FALSE)) = Cardinality(P)
    BY WholeIs DEF Count
  <2>2. P = {<<i, i>> : i \in S}
    BY DEF Positions
  <2>3. f \in Surjection(S, P)
    BY <2>2 DEF Surjection
  <2>4. f \in Injection(S, P)
    <3>1. f \in [S -> P]
      BY <2>2
    <3>2. \A a, b \in S : f[a] = f[b] => a = b
      OBVIOUS
    <3> QED BY <3>1, <3>2 DEF Injection, IsInjective
  <2>5. IsFiniteSet(S)
    BY FS_Subset, KeysAssumption DEF Present
  <2> HIDE DEF f, S, P
  <2>6. Cardinality(P) = Cardinality(S)
    BY <2>3, <2>4, <2>5, FS_Surjection
  <2> QED BY <2>1, <2>6 DEF StoreStatistics, S
<1>3. seen.index.entries = Count(rows, Whole(TRUE, TRUE, FALSE))
  BY WholeIs DEF Count, StoreStatistics
<1>4. seen.index.distinctKeys = Count(rows, Whole(TRUE, FALSE, TRUE))
  <2> DEFINE w == Whole(TRUE, FALSE, TRUE)
             u == [query EXCEPT !.index = TRUE, !.forward = TRUE, !.unique = TRUE]
  <2>1. Count(rows, w) = Cardinality(Visits(rows, w, Anywhere))
        /\ w.index = TRUE /\ w.unique = TRUE
    BY WholeIs DEF Count
  <2>2. u.index = TRUE /\ u.unique = TRUE
    BY DEF Asks, Queries
  <2>3. seen.index.distinctKeys = Cardinality(Visits(rows, u, Anywhere))
    BY DEF StoreStatistics, Anywhere
  <2> HIDE DEF u, w
  <2>4. Visits(rows, w, Anywhere) = Visits(rows, u, Anywhere)
    BY <2>1, <2>2 DEF Visits
  <2> QED BY <2>1, <2>3, <2>4 DEF w
<1>5. seen.edges = shape(FALSE) /\ seen.index.edges = shape(TRUE)
  <2> HIDE DEF shape
  <2> QED BY <1>1 DEF StoreStatistics
<1>6. \A limit \in 0..2 : Sample(rows, query, limit) =
                            UpTo(RowsOf(rows, Whole(FALSE, TRUE, FALSE), TRUE).items, limit)
  BY SampleIs
<1> HIDE DEF seen
<1> QED BY <1>2, <1>3, <1>4, <1>5, <1>6 DEF InspectorAgrees, Whole, Anywhere, seen

----------------------------------------------------------------------------
(* The pages of find, one after another. *)

First == [query EXCEPT !.offset = 0, !.limit = 1]
Full == [First EXCEPT !.limit = Unlimited]
All == Rest(rows, Full)
Many == Size(rows, Full)

LEMMA FullIs ==
  ASSUME Asks, Typed, query.after = None
  PROVE  /\ Plan(Full) /\ Plan(First) /\ Direction(query)
         /\ PageLength(rows, Full) = Many /\ Full.offset = 0
         /\ Ahead(rows, Full) = Chosen(rows, query, query.range)
         /\ Ahead(rows, First) = Chosen(rows, query, query.range)
         /\ Many \in Nat /\ Many < Unlimited
         /\ \A n \in 1..Many : All[n] \in Chosen(rows, query, query.range)
         /\ \A p \in Chosen(rows, query, query.range) : \E n \in 1..Many : All[n] = p
         /\ \A m, n \in 1..Many : m < n => Before(query, All[m], All[n])
<1> DEFINE a == First
           b == Full
<1>1. rows \in Tables /\ query \in Queries /\ Unlimited \in Nat
  BY UnlimitedIs DEF Typed, Asks
<1>2. /\ a.index = query.index /\ a.forward = query.forward /\ a.unique = query.unique
      /\ a.filtered = query.filtered /\ a.range = query.range /\ a.after = None
      /\ a.offset = 0 /\ a.limit = 1
  BY <1>1 DEF Queries, First
<1>3. /\ b.index = query.index /\ b.forward = query.forward /\ b.unique = query.unique
      /\ b.filtered = query.filtered /\ b.range = query.range /\ b.after = None
      /\ b.offset = 0 /\ b.limit = Unlimited
  BY <1>1 DEF Queries, Full, First
<1> HIDE DEF a, b
<1>4. Direction(query) /\ Direction(a) /\ Direction(b)
  BY <1>1, <1>2, <1>3 DEF Direction, Queries
<1>5. Plan(a) /\ Plan(b)
  BY <1>1, <1>2, <1>3, <1>4 DEF Plan
<1>6. /\ Chosen(rows, a, a.range) = Chosen(rows, query, query.range)
      /\ Chosen(rows, b, b.range) = Chosen(rows, query, query.range)
      /\ \A p, q : Before(b, p, q) = Before(query, p, q)
  BY <1>2, <1>3, SameDirection
<1>7. /\ Ahead(rows, a) = Chosen(rows, query, query.range)
      /\ Ahead(rows, b) = Chosen(rows, query, query.range)
  BY <1>2, <1>3, <1>6 DEF Ahead
<1>8. Many \in Nat /\ Many < Unlimited
  BY <1>1, <1>5, RestIs DEF Many, b
<1>9. PageLength(rows, b) = Many
  <2>1. Size(rows, b) = Many
    BY DEF Many, b
  <2> QED BY <1>1, <1>3, <1>8, <2>1 DEF PageLength
<1>10. /\ \A n \in 1..Many : All[n] \in Ahead(rows, b)
       /\ \A p \in Ahead(rows, b) : \E n \in 1..Many : All[n] = p
       /\ \A m, n \in 1..Many : m < n => Before(b, All[m], All[n])
  BY <1>1, <1>5, RestIs DEF Many, All, b
<1> QED BY <1>3, <1>4, <1>5, <1>6, <1>7, <1>8, <1>9, <1>10 DEF a, b

\* The page after the first n rows.
After(n) == [First EXCEPT !.after = IF n = 0 THEN None ELSE All[n]]

LEMMA PageAfter ==
  ASSUME Asks, Typed, query.after = None, NEW n \in Nat, n < Many \/ n = 0
  PROVE  LET page == RowsOf(rows, After(n), TRUE)
         IN  /\ n < Many => /\ page.items = <<All[n + 1]>>
                            /\ page.more <=> n + 1 < Many
                            /\ page.more => page.last = All[n + 1]
             /\ n = Many => page.items = <<>> /\ ~page.more
             /\ page.more \in BOOLEAN
<1> DEFINE p == After(n)
           page == RowsOf(rows, p, TRUE)
           C == Chosen(rows, query, query.range)
           G == Rest(rows, p)
           M == Size(rows, p)
           S == Ahead(rows, p)
<1>1. rows \in Tables /\ query \in Queries /\ Unlimited \in Nat
  BY UnlimitedIs DEF Typed, Asks
<1>2. /\ Direction(query) /\ Many \in Nat
      /\ \A k \in 1..Many : All[k] \in C
      /\ \A x \in C : \E k \in 1..Many : All[k] = x
      /\ \A k, m \in 1..Many : k < m => Before(query, All[k], All[m])
  BY FullIs
<1>3. /\ C \subseteq Visits(rows, query, query.range) /\ C \subseteq Position
      /\ \A x \in C : Within(query.range, x[1])
      /\ None \notin Position
  BY <1>1, <1>2, ChosenIs, KeysAssumption DEF Position
<1>4. n # 0 => n \in 1..Many
  BY <1>2
<1>5. /\ p.index = query.index /\ p.forward = query.forward /\ p.unique = query.unique
      /\ p.filtered = query.filtered /\ p.range = query.range
      /\ p.offset = 0 /\ p.limit = 1 /\ p.after = IF n = 0 THEN None ELSE All[n]
  BY <1>1 DEF After, First, Queries
<1> HIDE DEF p
<1>6. Plan(p)
  <2>1. Direction(p)
    BY <1>2, <1>5 DEF Direction
  <2>2. p.after # None => p.after \in C /\ p.range \in Ranges
    BY <1>1, <1>2, <1>4, <1>5 DEF Queries
  <2> QED BY <1>3, <1>5, <2>1, <2>2 DEF Plan
<1>7. S = {x \in C : n # 0 => IsPast(query, x, All[n])}
  <2>1. S = {x \in Chosen(rows, p, p.range) : p.after # None => IsPast(p, x, p.after)}
    BY <1>1, <1>6, AheadIs
  <2>2. Chosen(rows, p, p.range) = C /\ \A x, y : IsPast(p, x, y) = IsPast(query, x, y)
    BY <1>5, SameDirection
  <2>3. p.after # None <=> n # 0
    BY <1>2, <1>3, <1>4, <1>5
  <2> HIDE DEF S, C
  <2>4. n # 0 => p.after = All[n]
    BY <1>5
  <2> QED BY <2>1, <2>2, <2>3, <2>4
<1>8. /\ M \in Nat /\ \A k \in 1..M : G[k] \in S
      /\ \A x \in S : \E k \in 1..M : G[k] = x
      /\ \A k, m \in 1..M : k < m => Before(query, G[k], G[m])
  <2>1. \A x, y : Before(p, x, y) = Before(query, x, y)
    BY <1>5, SameDirection
  <2> QED BY <1>1, <1>6, <2>1, RestIs
<1>9. /\ IsPage(page.items, rows, p) /\ (page.more <=> IsMore(rows, p)) /\ page.more \in BOOLEAN
      /\ page.more => page.last = page.items[PageLength(rows, p)]
  BY <1>1, <1>6, RowsOfIs
<1> HIDE DEF C, G, M, S, page
<1>10. ASSUME NEW k \in 1..Many PROVE All[k] \in S <=> k > n
  <2>1. All[k] \in C /\ All[k] \in Position /\ All[k] \in Visits(rows, query, query.range)
    BY <1>2, <1>3
  <2>2. CASE n = 0
    BY <1>7, <2>1, <2>2
  <2>3. CASE n # 0
    <3>1. /\ All[n] \in Position /\ All[n] \in Visits(rows, query, query.range)
      BY <1>2, <1>3, <1>4, <2>3
    <3>2. k > n => IsPast(query, All[k], All[n])
      BY <1>1, <1>2, <1>4, <2>1, <2>3, <3>1, AfterIsPast
    <3>3. k < n => IsPast(query, All[n], All[k])
      BY <1>1, <1>2, <1>4, <2>1, <2>3, <3>1, AfterIsPast
    <3>4. k <= n => ~IsPast(query, All[k], All[n])
      BY <1>2, <2>1, <3>1, <3>3, PastIsAfter
    <3> QED BY <1>7, <2>1, <2>3, <3>2, <3>4
  <2> QED BY <2>2, <2>3
<1>11. ASSUME n < Many PROVE M >= 1 /\ G[1] = All[n + 1]
  <2>1. n + 1 \in 1..Many /\ All[n + 1] \in S
    BY <1>2, <1>10, <1>11
  <2>2. PICK j \in 1..M : G[j] = All[n + 1]
    BY <1>8, <2>1
  <2>3. M >= 1 /\ 1 \in 1..M /\ G[1] \in S
    BY <1>8, <2>2
  <2>4. PICK i \in 1..Many : All[i] = G[1]
    BY <1>2, <1>7, <2>3
  <2>5. i > n
    BY <1>10, <2>3, <2>4
  <2>6. All[i] \in Position /\ All[n + 1] \in Position
    BY <1>2, <1>3, <2>1
  <2>7. i # n + 1 => Before(query, All[n + 1], All[i])
    BY <1>2, <2>1, <2>5
  <2>8. j # 1 => Before(query, All[i], All[n + 1])
    BY <1>8, <2>2, <2>3, <2>4
  <2>9. i = n + 1 \/ j = 1
    BY <1>2, <2>6, <2>7, <2>8, BeforeOrders
  <2> QED BY <2>2, <2>3, <2>4, <2>9
<1>12. ASSUME n < Many PROVE M > 1 <=> n + 1 < Many
  <2>1. ASSUME M > 1 PROVE n + 1 < Many
    <3>1. 1 \in 1..M /\ 2 \in 1..M /\ G[2] \in S
      BY <1>8, <2>1
    <3>2. Before(query, G[1], G[2])
      BY <1>8, <3>1
    <3>3. PICK i \in 1..Many : All[i] = G[2]
      BY <1>2, <1>7, <3>1
    <3>4. i > n
      BY <1>10, <3>1, <3>3
    <3>5. G[2] # G[1]
      <4>1. G[1] \in Position /\ G[2] \in Position
        BY <1>3, <1>7, <1>8, <3>1
      <4> QED BY <1>2, <3>2, <4>1, BeforeOrders
    <3> QED BY <1>2, <1>11, <1>12, <3>3, <3>4, <3>5
  <2>2. ASSUME n + 1 < Many PROVE M > 1
    <3>1. n + 1 \in 1..Many /\ n + 2 \in 1..Many /\ All[n + 2] \in S
      BY <1>2, <1>10, <2>2
    <3>2. Before(query, All[n + 1], All[n + 2])
      BY <1>2, <3>1
    <3>3. All[n + 1] # All[n + 2]
      <4>1. All[n + 1] \in Position /\ All[n + 2] \in Position
        BY <1>2, <1>3, <3>1
      <4> QED BY <1>2, <3>2, <4>1, BeforeOrders
    <3>4. PICK j \in 1..M : G[j] = All[n + 2]
      BY <1>8, <3>1
    <3> QED BY <1>8, <1>11, <1>12, <3>3, <3>4
  <2> QED BY <2>1, <2>2
<1>13. ASSUME n = Many PROVE M = 0
  <2>1. S = {}
    BY <1>2, <1>7, <1>10, <1>13
  <2> QED BY <1>8, <2>1
<1>14. /\ PageLength(rows, p) = IF M <= 0 THEN 0 ELSE 1
       /\ IsMore(rows, p) <=> M > 1
       /\ page.items \in Seq(S) /\ Len(page.items) = PageLength(rows, p)
       /\ \A i \in 1..PageLength(rows, p) : page.items[i] = G[0 + i]
  <2>1. Size(rows, p) = M /\ Ahead(rows, p) = S /\ Rest(rows, p) = G
    BY DEF M, S, G
  <2>2. PageLength(rows, p) = IF M <= 0 THEN 0 ELSE 1
    BY <1>5, <1>8, <2>1 DEF PageLength
  <2>3. IsMore(rows, p) <=> M > 1
    BY <1>5, <1>8, <2>1 DEF IsMore
  <2> QED BY <1>5, <1>9, <2>1, <2>2, <2>3 DEF IsPage
<1>15. ASSUME n < Many
       PROVE  /\ page.items = <<All[n + 1]>> /\ (page.more <=> n + 1 < Many)
              /\ page.more => page.last = All[n + 1]
  <2> DEFINE items == page.items
  <2>1. /\ items \in Seq(S) /\ Len(items) = 1 /\ items[1] = G[1] /\ PageLength(rows, p) = 1
    BY <1>8, <1>11, <1>14, <1>15
  <2> HIDE DEF items
  <2>2. items = <<items[1]>>
    BY <2>1
  <2> QED BY <1>9, <1>11, <1>12, <1>14, <1>15, <2>1, <2>2 DEF items
<1>16. ASSUME n = Many PROVE page.items = <<>> /\ ~page.more
  <2> DEFINE items == page.items
  <2>1. items \in Seq(S) /\ Len(items) = 0
    BY <1>13, <1>14, <1>16
  <2> HIDE DEF items
  <2>2. items = <<>>
    BY <2>1
  <2> QED BY <1>9, <1>13, <1>14, <1>16, <2>2 DEF items
<1> QED BY <1>9, <1>15, <1>16 DEF p, page

\* What is read of it after a number of pages.
IdsTo(n) == [m \in 1..n |-> All[m][2]]
Mark(n) == [at |-> All[n], index |-> query.index, forward |-> query.forward,
            unique |-> query.unique]
ReadTo(n) ==
  [ids   |-> IdsTo(IF n < Many THEN n ELSE Many),
   after |-> IF n = 0 \/ n >= Many THEN None ELSE Mark(n),
   ended |-> n # 0 /\ n >= Many]

LEMMA IdsToIs ==
  ASSUME Asks, Typed, query.after = None, NEW n \in Nat, n <= Many
  PROVE  /\ IdsTo(n) \in Seq(Nat) /\ Len(IdsTo(n)) = n /\ \A m \in 1..n : IdsTo(n)[m] = All[m][2]
         /\ n < Many => IdsTo(n) \o <<All[n + 1][2]>> = IdsTo(n + 1)
<1>1. /\ Many \in Nat /\ \A k \in 1..Many : All[k] \in Position /\ All[k][2] \in Nat
  <2>1. /\ Many \in Nat /\ \A k \in 1..Many : All[k] \in Chosen(rows, query, query.range)
        /\ Direction(query)
    BY FullIs
  <2>2. Chosen(rows, query, query.range) \subseteq Position
    BY <2>1, ChosenIs DEF Typed
  <2> QED BY <2>1, <2>2 DEF Position
<1>2. ASSUME NEW k \in Nat, k <= Many
      PROVE  IdsTo(k) \in Seq(Nat) /\ Len(IdsTo(k)) = k /\ \A m \in 1..k : IdsTo(k)[m] = All[m][2]
  <2>1. IdsTo(k) \in [1..k -> Nat]
    BY <1>1, <1>2 DEF IdsTo
  <2> QED BY <2>1 DEF IdsTo
<1>3. ASSUME n < Many PROVE IdsTo(n) \o <<All[n + 1][2]>> = IdsTo(n + 1)
  <2> DEFINE s == IdsTo(n)
             x == All[n + 1][2]
             u == s \o <<x>>
             v == IdsTo(n + 1)
  <2>1. n + 1 \in Nat /\ n + 1 <= Many /\ n + 1 \in 1..Many
    BY <1>1, <1>3
  <2>2. /\ s \in Seq(Nat) /\ Len(s) = n /\ x \in Nat /\ \A m \in 1..n : s[m] = All[m][2]
        /\ v \in Seq(Nat) /\ Len(v) = n + 1 /\ \A m \in 1..n + 1 : v[m] = All[m][2]
    BY <1>1, <1>2, <2>1
  <2> HIDE DEF s, v
  <2> HIDE DEF x
  <2>3. u \in Seq(Nat) /\ Len(u) = n + 1 /\ \A m \in 1..n : u[m] = s[m]
    BY <2>2
  <2>4. \A m \in 1..n + 1 : m \in 1..n \/ m = n + 1
    OBVIOUS
  <2>5. u[n + 1] = x /\ x = All[n + 1][2]
    BY <2>2 DEF x
  <2>6. \A m \in 1..n + 1 : u[m] = v[m]
    BY <2>2, <2>3, <2>4, <2>5
  <2> HIDE DEF u
  <2>7. u = [m \in 1..n + 1 |-> u[m]] /\ v = [m \in 1..n + 1 |-> v[m]]
    BY <2>2, <2>3
  <2>8. u = v
    BY <2>6, <2>7
  <2> QED BY <2>8 DEF u, s, v, x
<1> QED BY <1>2, <1>3

LEMMA ReadToIs ==
  ASSUME Asks, Typed, query.after = None, NEW n \in Nat
  PROVE  /\ n = 0 => ReadTo(n) = [ids |-> IdsTo(0), after |-> None, ended |-> FALSE]
         /\ n # 0 /\ n < Many => ReadTo(n) = [ids |-> IdsTo(n), after |-> Mark(n), ended |-> FALSE]
         /\ n # 0 /\ n >= Many => ReadTo(n) = [ids |-> IdsTo(Many), after |-> None, ended |-> TRUE]
<1>1. Many \in Nat
  BY FullIs
<1> DEFINE size == IF n < Many THEN n ELSE Many
           some == n = 0 \/ n >= Many
           all  == n # 0 /\ n >= Many
<1>2. ReadTo(n) = [ids |-> IdsTo(size), after |-> IF some THEN None ELSE Mark(n), ended |-> all]
  BY DEF ReadTo
<1>3. /\ n = 0 => size = 0 /\ some /\ all = FALSE
      /\ n # 0 /\ n < Many => size = n /\ ~some /\ all = FALSE
      /\ n # 0 /\ n >= Many => size = Many /\ some /\ all = TRUE
  BY <1>1
<1> HIDE DEF size, some, all
<1> QED BY <1>2, <1>3

LEMMA NextPageIs ==
  ASSUME Asks, Typed, query.after = None, NEW n \in Nat
  PROVE  NextPage(rows, First, ReadTo(n)) = ReadTo(n + 1)
<1> DEFINE read == ReadTo(n)
           p == PlanOf([First EXCEPT !.after = read.after])
           page == Find(rows, p)
<1>1. Many \in Nat /\ query \in Queries
  BY FullIs DEF Asks
<1>2. CASE n # 0 /\ n >= Many
  <2>1. read.ended
    <3> HIDE DEF read
    <3> QED BY <1>2, ReadToIs DEF read
  <2>2. NextPage(rows, First, read) = read
    BY <2>1 DEF NextPage, TurnTo
  <2>3. ReadTo(n + 1) = ReadTo(n)
    <3>1. ~(n < Many) /\ ~(n + 1 < Many) /\ n + 1 # 0 /\ n + 1 >= Many
      BY <1>1, <1>2
    <3> QED BY <1>2, <3>1 DEF ReadTo
  <2> QED BY <2>2, <2>3
<1>3. CASE n = 0 \/ n < Many
  <2>1. ~read.ended
    <3>1. n = 0 \/ (n # 0 /\ n < Many)
      BY <1>3
    <3> QED BY <3>1, ReadToIs
  <2>2. p = After(n)
    <3>1. CASE n = 0
      <4>1. read.after = None
        BY <3>1 DEF ReadTo
      <4> DEFINE other == [First EXCEPT !.after = None]
      <4>2. other.after = None
        BY <1>1 DEF First, Queries
      <4>3. PlanOf(other) = other
        BY <4>2 DEF PlanOf
      <4> QED BY <3>1, <4>1, <4>3 DEF After
    <3>2. CASE n # 0
      <4>1. read.after = Mark(n) /\ n \in 1..Many
        BY <1>1, <1>3, <3>2 DEF ReadTo
      <4>2. Mark(n) # None
        <5>1. All[n] \in Nat \X Nat
          BY <4>1, FullIs, ChosenIs DEF Typed, Position
        <5>2. Mark(n) \in Tokens
          BY <1>1, <5>1 DEF Mark, Tokens, Queries
        <5> QED BY <5>2, KeysAssumption
      <4> DEFINE token == Mark(n)
                 other == [First EXCEPT !.after = token]
      <4>3. /\ token.index = query.index /\ token.forward = query.forward
            /\ token.unique = query.unique /\ token.at = All[n]
        BY DEF Mark
      <4> HIDE DEF token
      <4>4. /\ other.after = token /\ other.index = query.index
            /\ other.forward = query.forward /\ other.unique = query.unique
        BY <1>1 DEF First, Queries
      <4>5. PlanOf(other) = [other EXCEPT !.after = token.at]
        <5>1. Continues(other, token) /\ other.after # None
          BY <4>2, <4>3, <4>4 DEF Continues, token
        <5> HIDE DEF other
        <5> QED BY <4>4, <5>1 DEF PlanOf
      <4>6. [other EXCEPT !.after = token.at] = [First EXCEPT !.after = All[n]]
        BY <1>1, <4>3 DEF First, Queries
      <4> QED BY <3>2, <4>1, <4>5, <4>6 DEF After, token
    <3> QED BY <3>1, <3>2
  <2> DEFINE slice == RowsOf(rows, p, TRUE)
  <2>3. /\ n < Many => /\ slice.items = <<All[n + 1]>>
                       /\ slice.more <=> n + 1 < Many
                       /\ slice.more => slice.last = All[n + 1]
        /\ n = Many => slice.items = <<>> /\ ~slice.more
    <3> HIDE DEF p
    <3> QED BY <1>3, <2>2, PageAfter
  <2>4. page.items = slice.items
        /\ page.next = IF slice.more THEN TokenOf(p, slice.last) ELSE None
    BY DEF Find
  <2>5. p.index = query.index /\ p.forward = query.forward /\ p.unique = query.unique
    <3> HIDE DEF p
    <3> QED BY <1>1, <2>2 DEF After, First, Queries
  <2>6. NextPage(rows, First, read) =
          [ids   |-> read.ids \o [m \in DOMAIN page.items |-> page.items[m][2]],
           after |-> page.next, ended |-> page.next = None]
    BY <2>1 DEF NextPage, TurnTo
  <2> HIDE DEF p, page, slice
  <2>7. CASE n < Many
    <3>1. page.items = <<All[n + 1]>>
      BY <2>3, <2>4, <2>7
    <3>2. [m \in DOMAIN page.items |-> page.items[m][2]] = <<All[n + 1][2]>>
      BY <3>1
    <3>3. read.ids = IdsTo(n) /\ IdsTo(n) \o <<All[n + 1][2]>> = IdsTo(n + 1)
      <4>1. n <= Many
        BY <1>1, <2>7
      <4>2. IdsTo(n) \o <<All[n + 1][2]>> = IdsTo(n + 1)
        BY <2>7, <4>1, IdsToIs
      <4>3. read.ids = IdsTo(n)
        <5> HIDE DEF read
        <5>1. n = 0 => read.ids = IdsTo(0)
          BY ReadToIs DEF read
        <5>2. n # 0 => read.ids = IdsTo(n)
          BY <2>7, ReadToIs DEF read
        <5> QED BY <5>1, <5>2
      <4> QED BY <4>2, <4>3
    <3>4. n + 1 < Many => page.next = Mark(n + 1) /\ page.next # None
      <4> SUFFICES ASSUME n + 1 < Many PROVE page.next = Mark(n + 1) /\ page.next # None
        OBVIOUS
      <4>1. page.next = Mark(n + 1)
        BY <2>3, <2>4, <2>5, <2>7 DEF TokenOf, Mark
      <4>2. All[n + 1] \in Nat \X Nat
        BY <1>1, FullIs, ChosenIs DEF Typed, Position
      <4>3. Mark(n + 1) \in Tokens
        BY <1>1, <4>2 DEF Mark, Tokens, Queries
      <4> QED BY <4>1, <4>3, KeysAssumption
    <3>5. n + 1 >= Many => page.next = None
      BY <1>1, <2>3, <2>4, <2>7
    <3>6. ReadTo(n + 1) = [ids |-> IdsTo(n + 1),
                           after |-> IF n + 1 >= Many THEN None ELSE Mark(n + 1),
                           ended |-> n + 1 >= Many]
      <4>1. n + 1 # 0 /\ (n + 1 < Many \/ n + 1 = Many)
        BY <1>1, <2>7
      <4>2. (IF n + 1 < Many THEN n + 1 ELSE Many) = n + 1
        BY <4>1
      <4> QED BY <1>1, <4>1, <4>2 DEF ReadTo
    <3>7. (page.next = None) = (n + 1 >= Many)
      BY <1>1, <3>4, <3>5
    <3>8. page.next = IF n + 1 >= Many THEN None ELSE Mark(n + 1)
      BY <1>1, <3>4, <3>5
    <3> HIDE DEF read
    <3> QED BY <2>6, <3>2, <3>3, <3>6, <3>7, <3>8 DEF read
  <2>8. CASE n = Many /\ n = 0
    <3>1. page.items = <<>> /\ page.next = None
      BY <2>3, <2>4, <2>8
    <3>2. [m \in DOMAIN page.items |-> page.items[m][2]] = <<>>
      BY <3>1
    <3>3. read.ids = IdsTo(0) /\ IdsTo(0) \in Seq(Nat)
      <4>1. 0 \in Nat /\ 0 <= Many
        BY <1>1
      <4>2. IdsTo(0) \in Seq(Nat)
        BY <4>1, IdsToIs
      <4>3. read = [ids |-> IdsTo(0), after |-> None, ended |-> FALSE]
        BY <2>8, ReadToIs
      <4> HIDE DEF read
      <4> QED BY <4>2, <4>3
    <3>4. IdsTo(0) \o <<>> = IdsTo(0)
      BY <3>3
    <3>5. ReadTo(n + 1) = [ids |-> IdsTo(0), after |-> None, ended |-> TRUE]
      <4>1. n + 1 # 0 /\ ~(n + 1 < Many) /\ n + 1 >= Many
        BY <1>1, <2>8
      <4> QED BY <2>8, <4>1 DEF ReadTo
    <3>6. (page.next = None) = TRUE
      BY <3>1
    <3> QED BY <2>6, <3>1, <3>2, <3>3, <3>4, <3>5, <3>6
  <2> QED BY <1>1, <1>3, <2>7, <2>8
<1> QED BY <1>1, <1>2, <1>3

LEMMA PagesOfIs ==
  ASSUME Asks, Typed, query.after = None
  PROVE  PagesOf(rows, First) = [ids |-> IdsTo(Many), after |-> None, ended |-> TRUE]
<1> DEFINE U == Unlimited
           begun0 == [ids |-> <<>>, after |-> None, ended |-> FALSE]
           Make(g, n) == IF n = 0 THEN begun0 ELSE NextPage(rows, First, g[n - 1])
           read == CHOOSE g : g = [n \in 0..U |-> Make(g, n)]
           f == [n \in 0..U |-> ReadTo(n)]
<1>1. U \in Nat /\ U >= 1 /\ Many \in Nat /\ Many < U
  BY UnlimitedIs, FullIs
<1>2. ReadTo(0) = begun0
  <2>1. 0 \in Nat /\ 0 <= Many
    BY <1>1
  <2>2. IdsTo(0) \in Seq(Nat) /\ Len(IdsTo(0)) = 0
    BY <2>1, IdsToIs
  <2>3. IdsTo(0) = <<>>
    BY <2>2
  <2> QED BY <2>1, <2>3, ReadToIs
<1>3. \A n \in 1..U : ReadTo(n) = NextPage(rows, First, ReadTo(n - 1))
  <2> SUFFICES ASSUME NEW n \in 1..U PROVE ReadTo(n) = NextPage(rows, First, ReadTo(n - 1))
    OBVIOUS
  <2>1. n - 1 \in Nat /\ (n - 1) + 1 = n
    BY <1>1
  <2>2. NextPage(rows, First, ReadTo(n - 1)) = ReadTo((n - 1) + 1)
    BY <2>1, NextPageIs
  <2> QED BY <2>1, <2>2
<1>4. f = [n \in 0..U |-> Make(f, n)]
  <2> SUFFICES ASSUME NEW n \in 0..U PROVE ReadTo(n) = Make(f, n)
    BY Zenon
  <2>1. CASE n = 0
    BY <1>2, <2>1
  <2>2. CASE n # 0
    <3>1. n \in 1..U /\ n - 1 \in 0..U
      BY <1>1, <2>2
    <3>2. f[n - 1] = ReadTo(n - 1)
      BY <3>1
    <3> HIDE DEF f
    <3> QED BY <1>3, <2>2, <3>1, <3>2
  <2> QED BY <2>1, <2>2
<1>5. read = [n \in 0..U |-> Make(read, n)]
  <2> HIDE DEF Make, f
  <2> QED BY <1>4, Zenon
<1>6. \A n \in 0..U : read[n] = ReadTo(n)
  <2> DEFINE S == {n \in Nat : n <= U => read[n] = ReadTo(n)}
  <2> HIDE DEF read
  <2>1. 0 \in S
    BY <1>1, <1>2, <1>5
  <2>2. ASSUME NEW n \in Nat, n \in S PROVE n + 1 \in S
    <3> SUFFICES ASSUME n + 1 <= U PROVE read[n + 1] = ReadTo(n + 1)
      OBVIOUS
    <3>1. n + 1 \in 1..U /\ n + 1 \in 0..U /\ n + 1 - 1 = n /\ n + 1 # 0 /\ n <= U
      BY <1>1
    <3>2. read[n + 1] = NextPage(rows, First, read[n + 1 - 1])
      <4> DEFINE m == n + 1
      <4>1. m \in 0..U /\ m # 0
        BY <3>1
      <4> HIDE DEF m
      <4>2. read[m] = Make(read, m)
        <5> HIDE DEF Make
        <5> QED BY <1>5, <4>1
      <4>3. read[m] = NextPage(rows, First, read[m - 1])
        BY <4>1, <4>2
      <4> QED BY <4>3 DEF m
    <3> QED BY <1>3, <2>2, <3>1, <3>2
  <2> HIDE DEF S
  <2>3. Nat \subseteq S
    BY <2>1, <2>2, Induct
  <2> QED BY <1>1, <2>3 DEF S
<1>7. PagesOf(rows, First) = read[U]
  BY Zenon DEF PagesOf
<1> HIDE DEF read
<1>8. U \in 0..U /\ ReadTo(U) = [ids |-> IdsTo(Many), after |-> None, ended |-> TRUE]
  <2>1. U # 0 /\ U >= Many /\ U \in 0..U
    BY <1>1
  <2> HIDE DEF U
  <2> QED BY <1>1, <2>1, ReadToIs
<1> QED BY <1>6, <1>7, <1>8

\* A limit cuts what is read without one.
LEMMA LimitCuts ==
  ASSUME Asks, Typed, query.after = None, NEW limit \in Nat
  PROVE  IdsOf(rows, [query EXCEPT !.limit = limit]) =
           UpTo(IdsOf(rows, [query EXCEPT !.limit = Unlimited]), limit)
<1> DEFINE a == [query EXCEPT !.limit = limit]
           b == [query EXCEPT !.limit = Unlimited]
           s == IdsOf(rows, a)
           u == IdsOf(rows, b)
           v == UpTo(u, limit)
<1>1. rows \in Tables /\ query \in Queries /\ Unlimited \in Nat
  BY UnlimitedIs DEF Typed, Asks
<1>2. /\ a.index = query.index /\ a.forward = query.forward /\ a.unique = query.unique
      /\ a.filtered = query.filtered /\ a.range = query.range /\ a.after = None
      /\ a.offset = query.offset /\ a.limit = limit
      /\ b.index = query.index /\ b.forward = query.forward /\ b.unique = query.unique
      /\ b.filtered = query.filtered /\ b.range = query.range /\ b.after = None
      /\ b.offset = query.offset /\ b.limit = Unlimited
  BY <1>1 DEF Queries
<1> HIDE DEF a, b
<1>3. Plan(a) /\ Plan(b) /\ Direction(a) /\ Direction(b)
  BY <1>1, <1>2 DEF Plan, Queries, Direction
<1>4. Ahead(rows, a) = Ahead(rows, b)
  <2>1. Chosen(rows, a, a.range) = Chosen(rows, b, b.range)
    BY <1>2, SameDirection
  <2> QED BY <1>2, <2>1 DEF Ahead
<1>5. Rest(rows, a) = Rest(rows, b) /\ Size(rows, a) = Size(rows, b)
      /\ Size(rows, a) \in Nat /\ Size(rows, a) < Unlimited
  <2> DEFINE A == Ahead(rows, a)
  <2>1. A \subseteq Position /\ IsFiniteSet(A) /\ Cardinality(A) \in Nat
        /\ Cardinality(A) < Unlimited
    BY <1>1, <1>3, AheadIs
  <2>2. \A p, q : Before(a, p, q) = Before(b, p, q)
    BY <1>2, SameDirection
  <2> HIDE DEF A
  <2>3. InOrder(a, A) = InOrder(b, A)
    BY <1>3, <2>1, <2>2, SameOrder
  <2> QED BY <1>4, <2>1, <2>3 DEF Rest, Size, A
<1> DEFINE N == Size(rows, a)
           F == Rest(rows, a)
           o == query.offset
           L == PageLength(rows, a)
           M == PageLength(rows, b)
<1>6. /\ s \in Seq(Nat) /\ Len(s) = L /\ \A i \in 1..L : s[i] = F[o + i][2]
      /\ u \in Seq(Nat) /\ Len(u) = M /\ \A i \in 1..M : u[i] = F[o + i][2]
  <2>1. /\ s \in Seq(Nat) /\ Len(s) = L /\ \A i \in 1..L : s[i] = Rest(rows, a)[a.offset + i][2]
    BY <1>1, <1>3, IdsOfIs
  <2>2. /\ u \in Seq(Nat) /\ Len(u) = M /\ \A i \in 1..M : u[i] = Rest(rows, b)[b.offset + i][2]
    BY <1>1, <1>3, IdsOfIs
  <2> HIDE DEF s, u, L, M
  <2> QED BY <1>2, <1>5, <2>1, <2>2
<1>7. /\ L \in Nat /\ M \in Nat /\ L = IF limit < M THEN limit ELSE M
  <2>1. o \in Nat /\ N \in Nat /\ N < Unlimited /\ Size(rows, b) = N
    BY <1>1, <1>5 DEF Queries
  <2>2. L = IF N <= o THEN 0 ELSE IF N - o <= limit THEN N - o ELSE limit
    BY <1>2 DEF PageLength
  <2>3. M = IF N <= o THEN 0 ELSE IF N - o <= Unlimited THEN N - o ELSE Unlimited
    BY <1>2, <2>1 DEF PageLength
  <2> HIDE DEF L, M, o, N
  <2> QED BY <1>1, <2>1, <2>2, <2>3
<1> HIDE DEF s, u, F, o, L, M
<1>8. /\ v \in Seq(Nat) /\ Len(v) = L /\ \A i \in 1..L : v[i] = u[i]
  <2>1. /\ v \in Seq(Nat)
        /\ Len(v) = IF limit < Len(u) THEN limit ELSE Len(u)
        /\ \A i \in 1..Len(v) : v[i] = u[i]
    BY <1>6, UpToIs
  <2> QED BY <1>6, <1>7, <2>1
<1> HIDE DEF v
<1>9. \A i \in 1..L : i \in 1..M
  BY <1>7
<1>10. s = [i \in 1..L |-> s[i]] /\ v = [i \in 1..L |-> v[i]]
  BY <1>6, <1>8
<1>11. s = v
  BY <1>6, <1>8, <1>9, <1>10
<1> QED BY <1>11 DEF s, v, u, a, b

LEMMA PagesKeep ==
  ASSUME Asks, Typed, query.after = None PROVE PagesAddUp
<1> DEFINE read == PagesOf(rows, First)
<1>1. rows \in Tables /\ query \in Queries /\ Many \in Nat /\ Plan(First) /\ Plan(Full)
      /\ PageLength(rows, Full) = Many /\ Full.offset = 0
  BY FullIs DEF Typed, Asks
<1>2. read.ended /\ read.ids = IdsTo(Many)
  BY PagesOfIs
<1> HIDE DEF read
<1>3. /\ IdsTo(Many) \in Seq(Nat) /\ Len(IdsTo(Many)) = Many
      /\ \A m \in 1..Many : IdsTo(Many)[m] = All[m][2]
  <2>1. Many <= Many
    BY <1>1
  <2> QED BY <1>1, <2>1, IdsToIs
<1>4. read.ids = IdsOf(rows, Full)
  <2> DEFINE s == IdsTo(Many)
             u == IdsOf(rows, Full)
  <2>1. u \in Seq(Nat) /\ Len(u) = Many /\ \A m \in 1..Many : u[m] = All[0 + m][2]
    BY <1>1, IdsOfIs DEF All
  <2>2. \A m \in 1..Many : 0 + m = m
    OBVIOUS
  <2> HIDE DEF s, u
  <2>3. s \in Seq(Nat) /\ Len(s) = Many /\ \A m \in 1..Many : s[m] = All[m][2]
    BY <1>3 DEF s
  <2>4. s = [i \in 1..Many |-> s[i]] /\ u = [i \in 1..Many |-> u[i]]
    BY <2>1, <2>3
  <2>5. \A i \in 1..Many : s[i] = u[i]
    BY <2>1, <2>2, <2>3
  <2>6. s = u
    BY <2>4, <2>5
  <2> QED BY <1>2, <2>6 DEF s, u
<1>5. Len(read.ids) = Find(rows, query).total
  <2>1. Find(rows, query).total = Cardinality(Chosen(rows, query, query.range))
    BY DEF Find, Count
  <2>2. Many = Cardinality(Chosen(rows, query, query.range))
    BY FullIs DEF Many, Size
  <2> QED BY <1>2, <1>3, <2>1, <2>2
<1>6. FindOne(rows, First) = IF read.ids = <<>> THEN None ELSE Find(rows, First).items[1]
  <2> DEFINE one == RowsOf(rows, First, FALSE).items
             some == RowsOf(rows, First, TRUE).items
             S == Ahead(rows, First)
             L == PageLength(rows, First)
             F == Rest(rows, First)
  <2>1. First.limit = 1 /\ First.offset = 0 /\ [First EXCEPT !.limit = 1] = First
    BY <1>1 DEF First, Queries
  <2>2. FindOne(rows, First) = IF one = <<>> THEN None ELSE one[1]
    BY <2>1 DEF FindOne
  <2>3. Find(rows, First).items = some
    BY DEF Find
  <2>4. Size(rows, First) = Many
    BY FullIs DEF Size, Many
  <2>5. L = IF Many = 0 THEN 0 ELSE 1
    BY <1>1, <2>1, <2>4 DEF PageLength
  <2>6. /\ one \in Seq(S) /\ Len(one) = L /\ \A i \in 1..L : one[i] = F[0 + i]
        /\ some \in Seq(S) /\ Len(some) = L /\ \A i \in 1..L : some[i] = F[0 + i]
    <3>1. IsPage(one, rows, First) /\ IsPage(some, rows, First)
      BY <1>1, RowsOfIs
    <3> HIDE DEF one, some
    <3> QED BY <2>1, <3>1 DEF IsPage
  <2> HIDE DEF one, some, S, L, F
  <2>7. one = <<>> <=> Many = 0
    BY <1>1, <2>5, <2>6
  <2>8. read.ids = <<>> <=> Many = 0
    <3> DEFINE ids == read.ids
    <3>1. ids \in Seq(Nat) /\ Len(ids) = Many
      BY <1>2, <1>3
    <3> HIDE DEF ids
    <3>2. ids = <<>> <=> Many = 0
      BY <3>1
    <3> QED BY <3>2 DEF ids
  <2>9. Many # 0 => one[1] = some[1]
    BY <2>5, <2>6
  <2> QED BY <2>2, <2>3, <2>7, <2>8, <2>9
<1>7. \A limit \in 0..2 : IdsOf(rows, [query EXCEPT !.limit = limit]) =
                            UpTo(IdsOf(rows, [query EXCEPT !.limit = Unlimited]), limit)
  BY LimitCuts
<1>8. PagesTell(First, read)
  BY <1>2, <1>4, <1>5, <1>6 DEF PagesTell, Full
<1> QED BY <1>7, <1>8 DEF PagesAddUp, First, read

----------------------------------------------------------------------------
(* What deleteWhere counts, deletes and leaves. *)

Gone(t, d) == {i \in Ids : t[i] # d.table[i]}
Passed(some, d) == {p \in Chosen(d.table, some, some.range) : ~IsPast(some, p, d.after)}

Deleted(t, some, d) ==
  /\ \A i \in Ids : d.table[i] \in {t[i], Absent}
  /\ d.count = Cardinality(Gone(t, d))
  /\ Gone(t, d) \subseteq {i \in Present(t) : some.filtered => t[i].kept}
  /\ IF d.after = None THEN d.offset = some.offset
     ELSE d.offset = 0 /\ (~some.unique => Cardinality(Passed(some, d)) <= some.offset)

\* The plan of one turn, and whether the turn finds anything to do.
Seeks(some, d) == [some EXCEPT !.after = d.after, !.offset = d.offset, !.limit = 1]
Stopped(some, d) ==
  d.count = some.limit \/ Size(d.table, Seeks(some, d)) <= d.offset

LEMMA SeeksIs ==
  ASSUME NEW some \in Queries, NEW d \in Turn(some)
  PROVE  LET p == Seeks(some, d)
         IN  /\ Plan(p) /\ Direction(some) /\ d.table \in Tables
             /\ p.after = d.after /\ p.offset = d.offset /\ p.limit = 1 /\ p.range = some.range
             /\ p.index = some.index /\ p.forward = some.forward
             /\ p.unique = some.unique /\ p.filtered = some.filtered
<1> DEFINE p == Seeks(some, d)
<1>1. /\ p.after = d.after /\ p.offset = d.offset /\ p.limit = 1 /\ p.range = some.range
      /\ p.index = some.index /\ p.forward = some.forward
      /\ p.unique = some.unique /\ p.filtered = some.filtered
  BY DEF Seeks, Queries
<1> HIDE DEF p
<1>2. /\ d.table \in Tables /\ d.offset \in Nat /\ d.after \in Position \cup {None}
      /\ d.after # None => Within(some.range, d.after[1])
      /\ some.range \in Ranges /\ Direction(some)
  BY DEF Turn, Queries, Direction
<1>3. Plan(p)
  BY <1>1, <1>2 DEF Plan, Direction
<1> QED BY <1>1, <1>2, <1>3 DEF p

\* A turn that does something deletes the row of the first entry after its offset.
LEMMA TurnIs ==
  ASSUME NEW some \in Queries, NEW d \in Turn(some), NEW n
  PROVE  /\ Stopped(some, d) => DeleteNext(some, d, n) = d
         /\ ~Stopped(some, d) =>
              LET q == Rest(d.table, Seeks(some, d))[d.offset + 1]
              IN  /\ d.offset + 1 \in 1..Size(d.table, Seeks(some, d))
                  /\ DeleteNext(some, d, n) =
                       [table |-> [d.table EXCEPT ![q[2]] = Absent],
                        after |-> q, offset |-> 0, count |-> d.count + 1]
<1> DEFINE p == Seeks(some, d)
           slice == Scan(d.table, p, FALSE)
           items == slice.items
           L == PageLength(d.table, p)
           N == Size(d.table, p)
           A == Ahead(d.table, p)
           F == Rest(d.table, p)
<1>1. /\ Plan(p) /\ d.table \in Tables /\ d.offset \in Nat /\ p.offset = d.offset /\ p.limit = 1
  BY SeeksIs DEF Turn
<1>2. N \in Nat
  BY <1>1, RestIs
<1>3. L = IF N <= d.offset THEN 0 ELSE 1
  <2>1. L = IF N <= d.offset THEN 0 ELSE IF N - d.offset <= 1 THEN N - d.offset ELSE 1
    BY <1>1 DEF PageLength
  <2> HIDE DEF L, N
  <2> QED BY <1>1, <1>2, <2>1
<1>4. /\ items \in Seq(A) /\ Len(items) = L /\ \A i \in 1..L : items[i] = F[p.offset + i]
      /\ slice.last = IF L = 0 THEN None ELSE items[L]
  <2>1. IsPage(items, d.table, p) /\ slice.last = IF L = 0 THEN None ELSE items[L]
    BY <1>1, ScanIs
  <2> QED BY <2>1 DEF IsPage
<1>5. DeleteNext(some, d, n) =
        IF d.count = some.limit \/ items = <<>> THEN d
        ELSE [table |-> [d.table EXCEPT ![slice.last[2]] = Absent],
              after |-> slice.last, offset |-> 0, count |-> d.count + 1]
  BY DEF DeleteNext, Seeks
<1>6. Stopped(some, d) <=> d.count = some.limit \/ N <= d.offset
  BY DEF Stopped
<1> DEFINE last == slice.last
<1>7. last = IF L = 0 THEN None ELSE items[L]
  BY <1>4
<1>8. DeleteNext(some, d, n) =
        IF d.count = some.limit \/ items = <<>> THEN d
        ELSE [table |-> [d.table EXCEPT ![last[2]] = Absent],
              after |-> last, offset |-> 0, count |-> d.count + 1]
  BY <1>5
<1> HIDE DEF p, slice, items, L, N, A, F, last
<1>9. items = <<>> <=> L = 0
  BY <1>3, <1>4
<1>10. CASE Stopped(some, d)
  BY <1>3, <1>6, <1>8, <1>9, <1>10
<1>11. CASE ~Stopped(some, d)
  <2>1. L = 1 /\ items # <<>> /\ d.count # some.limit /\ d.offset + 1 \in 1..N
    BY <1>1, <1>2, <1>3, <1>6, <1>9, <1>11
  <2>2. last = F[d.offset + 1]
    BY <1>1, <1>4, <1>7, <2>1
  <2> QED BY <1>8, <1>11, <2>1, <2>2 DEF F, N, p
<1> QED BY <1>10, <1>11

\* What a turn still finds, in order.
LEMMA RestOfTurn ==
  ASSUME NEW some \in Queries, NEW d \in Turn(some)
  PROVE  LET p == Seeks(some, d)
             N == Size(d.table, p)
             F == Rest(d.table, p)
             A == Ahead(d.table, p)
         IN  /\ N \in Nat
             /\ \A j \in 1..N : F[j] \in A
             /\ \A x \in A : \E j \in 1..N : F[j] = x
             /\ \A j, k \in 1..N : j < k => Before(p, F[j], F[k])
<1> DEFINE p == Seeks(some, d)
           t == d.table
<1>1. Plan(p) /\ t \in Tables
  BY SeeksIs
<1> HIDE DEF p, t
<1>2. /\ Size(t, p) \in Nat
      /\ \A j \in 1..Size(t, p) : Rest(t, p)[j] \in Ahead(t, p)
      /\ \A x \in Ahead(t, p) : \E j \in 1..Size(t, p) : Rest(t, p)[j] = x
      /\ \A j, k \in 1..Size(t, p) : j < k => Before(p, Rest(t, p)[j], Rest(t, p)[k])
  BY <1>1, RestIs
<1> QED BY <1>2 DEF p, t

\* What is left of the entries a plan chooses when a row goes.
LEMMA LessIsChosen ==
  ASSUME NEW t \in Tables, NEW some, Direction(some), ~some.unique, NEW range, NEW i \in Ids
  PROVE  Chosen([t EXCEPT ![i] = Absent], some, range) =
           {p \in Chosen(t, some, range) : p[2] # i}
<1> DEFINE u == [t EXCEPT ![i] = Absent]
<1>1. u \in Tables /\ u[i] = Absent /\ \A j \in Ids : j # i => u[j] = t[j]
  BY DEF Tables
<1> HIDE DEF u
<1>2. Present(u) = Present(t) \ {i}
  BY <1>1 DEF Present
<1>3. \A index \in BOOLEAN : Positions(u, index) = {p \in Positions(t, index) : p[2] # i}
  <2> SUFFICES ASSUME NEW index \in BOOLEAN
               PROVE  Positions(u, index) = {p \in Positions(t, index) : p[2] # i}
    OBVIOUS
  <2>1. \A j \in Present(u) : u[j] = t[j] /\ j # i /\ j \in Present(t)
    BY <1>1, <1>2 DEF Present
  <2>2. \A j \in Present(t) : j # i => j \in Present(u)
    BY <1>2
  <2>3. CASE index
    BY <2>1, <2>2, <2>3 DEF Positions
  <2>4. CASE ~index
    BY <2>1, <2>2, <2>4 DEF Positions
  <2> QED BY <2>3, <2>4
<1>4. /\ Visits(u, some, range) = {p \in Positions(u, some.index) : Within(range, p[1])}
      /\ Visits(t, some, range) = {p \in Positions(t, some.index) : Within(range, p[1])}
  BY DEF Visits
<1>5. Visits(u, some, range) = {p \in Visits(t, some, range) : p[2] # i}
  BY <1>3, <1>4 DEF Direction
<1>6. \A p \in Visits(t, some, range) : p[2] # i => u[p[2]] = t[p[2]]
  BY <1>1, <1>4, PositionsAre DEF Present, Direction
<1> QED BY <1>5, <1>6 DEF Chosen, u

\* The first rows of a list are no more than their places.
FirstOf(F, o, N) == {F[j] : j \in {k \in 1..o : k <= N}}

LEMMA FirstOnes ==
  ASSUME NEW o \in Nat, NEW N \in Nat, NEW F
  PROVE  IsFiniteSet(FirstOf(F, o, N)) /\ Cardinality(FirstOf(F, o, N)) <= o
<1> DEFINE I == 1..o
           T == {j \in I : j <= N}
           G == {F[j] : j \in T}
           f == [j \in T |-> F[j]]
<1>1. IsFiniteSet(I) /\ Cardinality(I) = o
  BY FS_Interval
<1>2. f \in Surjection(T, G)
  BY DEF Surjection
<1>3. T \subseteq I
  OBVIOUS
<1>4. G = FirstOf(F, o, N)
  BY DEF FirstOf
<1> HIDE DEF I, T, G, f
<1>5. IsFiniteSet(T) /\ Cardinality(T) <= Cardinality(I)
  BY <1>1, <1>3, FS_Subset
<1>6. IsFiniteSet(G) /\ Cardinality(G) <= Cardinality(T)
  BY <1>2, <1>5, FS_Surjection
<1>7. Cardinality(T) \in Nat /\ Cardinality(G) \in Nat
  BY <1>5, <1>6, FS_CardinalityType
<1> QED BY <1>1, <1>4, <1>5, <1>6, <1>7

\* One turn of deleteWhere keeps its promises, and stops or counts one more.
LEMMA TurnKeeps ==
  ASSUME NEW some \in Queries, NEW d \in Turn(some), NEW t \in Tables, NEW n, Deleted(t, some, d)
  PROVE  /\ Deleted(t, some, DeleteNext(some, d, n))
         /\ \/ Stopped(some, d) /\ DeleteNext(some, d, n) = d
            \/ DeleteNext(some, d, n).count = d.count + 1
<1>1. CASE Stopped(some, d)
  BY <1>1, TurnIs
<1>2. CASE ~Stopped(some, d)
  <2> DEFINE p == Seeks(some, d)
             N == Size(d.table, p)
             F == Rest(d.table, p)
             A == Ahead(d.table, p)
             q == F[d.offset + 1]
             i == q[2]
             left == [d.table EXCEPT ![i] = Absent]
             C == Chosen(d.table, some, some.range)
             e == [table |-> left, after |-> q, offset |-> 0, count |-> d.count + 1]
  <2>1. /\ Plan(p) /\ Direction(some) /\ d.table \in Tables /\ d.offset \in Nat /\ d.count \in Nat
        /\ p.after = d.after /\ p.range = some.range /\ d.after \in Position \cup {None}
        /\ p.index = some.index /\ p.forward = some.forward
        /\ p.unique = some.unique /\ p.filtered = some.filtered
    BY SeeksIs DEF Turn
  <2>2. d.offset + 1 \in 1..N /\ DeleteNext(some, d, n) = e
    BY <1>2, TurnIs
  <2>3. /\ N \in Nat
        /\ \A j \in 1..N : F[j] \in A
        /\ \A x \in A : \E j \in 1..N : F[j] = x
        /\ \A j, k \in 1..N : j < k => Before(p, F[j], F[k])
    BY RestOfTurn
  <2>4. /\ A = {x \in C : d.after # None => IsPast(some, x, d.after)}
        /\ \A x, y : Before(p, x, y) = Before(some, x, y)
    <3>1. /\ \A x, y : IsPast(p, x, y) = IsPast(some, x, y)
          /\ \A x, y : Before(p, x, y) = Before(some, x, y)
          /\ Chosen(d.table, p, p.range) = C
      BY <2>1, SameDirection
    <3>2. A = {x \in Chosen(d.table, p, p.range) : p.after # None => IsPast(p, x, p.after)}
      BY <2>1, AheadIs
    <3> HIDE DEF p, C
    <3> QED BY <2>1, <3>1, <3>2
  <2>5. /\ C \subseteq Visits(d.table, some, some.range) /\ C \subseteq Position /\ IsFiniteSet(C)
        /\ C \subseteq Positions(d.table, some.index)
    BY <2>1, ChosenIs
  <2>6. q \in C /\ q \in Position /\ i \in Present(d.table)
    <3>1. q \in A
      BY <2>2, <2>3
    <3>2. q \in C
      BY <2>4, <3>1
    <3> QED BY <2>1, <2>5, <3>2, PositionsAre DEF Direction
  <2>7. i \in Ids /\ d.table[i] # Absent /\ d.table[i] = t[i] /\ (some.filtered => t[i].kept)
    <3>1. i \in Ids /\ d.table[i] # Absent
      BY <2>6 DEF Present
    <3>2. d.table[i] = t[i]
      BY <3>1 DEF Deleted
    <3>3. some.filtered => d.table[i].kept
      BY <2>6 DEF Chosen
    <3> QED BY <3>1, <3>2, <3>3
  <2> HIDE DEF q
  <2>8. /\ e.table = left /\ e.count = d.count + 1 /\ e.after = q /\ e.offset = 0
        /\ left[i] = Absent /\ \A j \in Ids : j # i => left[j] = d.table[j]
    BY <2>1, <2>7 DEF Tables
  <2> HIDE DEF e, left
  <2>9. \A j \in Ids : e.table[j] \in {t[j], Absent}
    BY <2>8 DEF Deleted
  <2>10. Gone(t, e) = Gone(t, d) \cup {i} /\ i \notin Gone(t, d)
    BY <2>7, <2>8 DEF Gone
  <2>11. e.count = Cardinality(Gone(t, e))
    <3>1. IsFiniteSet(Gone(t, d))
      BY KeysAssumption, FS_Subset DEF Gone
    <3>2. Cardinality(Gone(t, d) \cup {i}) = Cardinality(Gone(t, d)) + 1
      BY <2>10, <3>1, FS_AddElement
    <3>3. d.count = Cardinality(Gone(t, d))
      BY DEF Deleted
    <3> QED BY <2>8, <2>10, <3>2, <3>3
  <2>12. Gone(t, e) \subseteq {j \in Present(t) : some.filtered => t[j].kept}
    BY <2>7, <2>10 DEF Deleted, Present
  <2>13. e.after # None
    BY <2>6, <2>8, KeysAssumption DEF Position
  <2>14. ~some.unique => Cardinality(Passed(some, e)) <= some.offset
    <3> SUFFICES ASSUME ~some.unique PROVE Cardinality(Passed(some, e)) <= some.offset
      OBVIOUS
    <3>1. Chosen(left, some, some.range) = {x \in C : x[2] # i}
      <4> HIDE DEF i
      <4> QED BY <2>1, <2>7, LessIsChosen DEF left
    <3>2. Passed(some, e) = {x \in C : x[2] # i /\ ~IsPast(some, x, q)}
      BY <2>8, <3>1 DEF Passed
    <3>3. \A j \in 1..N : j > d.offset => F[j] \notin Passed(some, e)
      <4> SUFFICES ASSUME NEW j \in 1..N, j > d.offset, F[j] \in Passed(some, e) PROVE FALSE
        OBVIOUS
      <4>1. CASE j = d.offset + 1
        BY <3>2, <4>1 DEF q
      <4>2. CASE j # d.offset + 1
        <5>1. d.offset + 1 < j
          BY <2>1, <4>2
        <5>2. Before(some, q, F[j])
          BY <2>2, <2>3, <2>4, <5>1 DEF q
        <5>3. F[j] \in C
          BY <3>2
        <5>4. IsPast(some, F[j], q)
          BY <2>1, <2>5, <2>6, <5>2, <5>3, AfterIsPast
        <5> QED BY <3>2, <5>4
      <4> QED BY <4>1, <4>2
    <3>4. some.offset \in Nat /\ IsFiniteSet(Passed(some, e))
      BY <2>5, <3>2, FS_Subset DEF Queries
    <3>5. CASE d.after = None
      <4> DEFINE G == FirstOf(F, d.offset, N)
      <4>1. IsFiniteSet(G) /\ Cardinality(G) <= d.offset /\ d.offset = some.offset
        <5>1. d.offset = some.offset
          BY <3>5 DEF Deleted
        <5> HIDE DEF F, N
        <5>2. IsFiniteSet(G) /\ Cardinality(G) <= d.offset
          BY <2>1, <2>3, FirstOnes
        <5> QED BY <5>1, <5>2
      <4>2. Passed(some, e) \subseteq G
        <5> SUFFICES ASSUME NEW x \in Passed(some, e) PROVE x \in G
          OBVIOUS
        <5>1. x \in A
          BY <2>4, <3>2, <3>5
        <5>2. PICK j \in 1..N : F[j] = x
          BY <2>3, <5>1
        <5>3. j \in 1..d.offset /\ j <= N
          BY <2>1, <2>3, <3>3, <5>2
        <5> QED BY <5>2, <5>3 DEF FirstOf
      <4> HIDE DEF G
      <4>3. Cardinality(Passed(some, e)) <= Cardinality(G)
        BY <4>1, <4>2, FS_Subset
      <4>4. Cardinality(Passed(some, e)) \in Nat /\ Cardinality(G) \in Nat
        BY <3>4, <4>1, FS_CardinalityType
      <4> QED BY <3>4, <4>1, <4>3, <4>4
    <3>6. CASE d.after # None
      <4>1. d.offset = 0 /\ Cardinality(Passed(some, d)) <= some.offset
        BY <3>6 DEF Deleted
      <4>2. Passed(some, e) \subseteq Passed(some, d)
        <5> SUFFICES ASSUME NEW x \in Passed(some, e) PROVE x \in Passed(some, d)
          OBVIOUS
        <5>1. x \in C
          BY <3>2
        <5>2. x \notin A
          <6> SUFFICES ASSUME x \in A PROVE FALSE
            OBVIOUS
          <6>1. PICK j \in 1..N : F[j] = x
            BY <2>3
          <6>2. j > d.offset
            BY <4>1
          <6> QED BY <3>3, <6>1, <6>2
        <5>3. ~IsPast(some, x, d.after)
          BY <2>4, <5>1, <5>2
        <5> QED BY <5>1, <5>3 DEF Passed
      <4>3. IsFiniteSet(Passed(some, d))
        BY <2>5, FS_Subset DEF Passed
      <4>4. Cardinality(Passed(some, e)) <= Cardinality(Passed(some, d))
        BY <4>2, <4>3, FS_Subset
      <4>5. Cardinality(Passed(some, e)) \in Nat /\ Cardinality(Passed(some, d)) \in Nat
        BY <3>4, <4>3, FS_CardinalityType
      <4> QED BY <3>4, <4>1, <4>4, <4>5
    <3> QED BY <3>5, <3>6
  <2>15. Deleted(t, some, e)
    BY <2>8, <2>9, <2>11, <2>12, <2>13, <2>14 DEF Deleted
  <2> QED BY <2>2, <2>8, <2>15
<1> QED BY <1>1, <1>2

\* There are more turns than rows, so deleteWhere comes to its end.
LEMMA DeleteWhereKeeps ==
  ASSUME NEW t \in Tables, NEW some \in Queries
  PROVE  /\ DeleteWhere(t, some) \in Turn(some)
         /\ Deleted(t, some, DeleteWhere(t, some)) /\ Stopped(some, DeleteWhere(t, some))
<1> DEFINE U == Unlimited
<1>1. U \in Nat /\ Cardinality(Ids) \in Nat /\ Cardinality(Ids) < U
  <2> DEFINE a == Cardinality(Ids)
             b == Cardinality(Keys)
  <2>1. a \in Nat /\ b \in Nat
    BY FS_CardinalityType, KeysAssumption
  <2>2. U = a * (b + 1) + 1
    BY DEF Unlimited
  <2> HIDE DEF a, b, U
  <2>3. a * (b + 1) \in Nat /\ a * b \in Nat /\ a * (b + 1) = a * b + a
    BY <2>1
  <2> QED BY <2>1, <2>2, <2>3 DEF a
<1>2. PICK f \in [0..U -> Turn(some)] :
        /\ f[0] = [table |-> t, after |-> some.after, offset |-> some.offset, count |-> 0]
        /\ \A n \in 1..U : f[n] = DeleteNext(some, f[n - 1], n)
        /\ DeleteWhere(t, some) = f[U]
  BY DeleteWhereRuns
<1> HIDE DEF U
<1> DEFINE Good(n) == /\ Deleted(t, some, f[n])
                      /\ Stopped(some, f[n]) \/ f[n].count = n
           S == {n \in Nat : n <= U => Good(n)}
<1>3. 0 \in S
  <2>1. some.after = None
    BY DEF Queries
  <2>2. Gone(t, f[0]) = {}
    BY <1>2 DEF Gone
  <2>3. Cardinality(Gone(t, f[0])) = 0
    BY <2>2, FS_EmptySet
  <2>4. f[0].table = t /\ f[0].after = None /\ f[0].offset = some.offset /\ f[0].count = 0
    BY <1>2, <2>1
  <2> HIDE <1>2
  <2> QED BY <2>2, <2>3, <2>4 DEF Deleted
<1>4. ASSUME NEW n \in Nat, n \in S PROVE n + 1 \in S
  <2> SUFFICES ASSUME n + 1 <= U PROVE Good(n + 1)
    OBVIOUS
  <2>1. n + 1 \in 1..U /\ n \in 0..U /\ (n + 1) - 1 = n /\ n <= U
    BY <1>1
  <2>2. f[n + 1] = DeleteNext(some, f[n], n + 1) /\ f[n] \in Turn(some)
    BY <1>2, <2>1
  <2>3. Good(n)
    BY <1>4, <2>1
  <2>4. /\ Deleted(t, some, f[n + 1])
        /\ \/ Stopped(some, f[n]) /\ f[n + 1] = f[n]
           \/ f[n + 1].count = f[n].count + 1
    BY <2>2, <2>3, TurnKeeps
  <2>5. Stopped(some, f[n]) => f[n + 1] = f[n]
    BY <2>2, TurnIs
  <2> QED BY <2>3, <2>4, <2>5
<1> HIDE DEF S, Good
<1>5. Nat \subseteq S
  BY <1>3, <1>4, Induct
<1>6. Good(U)
  BY <1>1, <1>5 DEF S
<1> DEFINE d == f[U]
<1>7. d \in Turn(some) /\ DeleteWhere(t, some) = d
  BY <1>1, <1>2
<1>8. Deleted(t, some, d) /\ (Stopped(some, d) \/ d.count = U)
  BY <1>6 DEF Good
<1> HIDE DEF d
<1>9. d.count # U
  <2>1. Cardinality(Gone(t, d)) <= Cardinality(Ids)
    BY KeysAssumption, FS_Subset DEF Gone
  <2> QED BY <1>1, <1>8, <2>1 DEF Deleted
<1> QED BY <1>7, <1>8, <1>9

LEMMA DeletesKeep ==
  ASSUME Asks, Typed PROVE DeletesWhatItCounts
<1> DEFINE d == DeleteWhere(rows, query)
           p == Seeks(query, d)
           C == Chosen(d.table, query, query.range)
<1>1. rows \in Tables /\ query \in Queries
  BY DEF Typed, Asks
<1>2. d \in Turn(query) /\ Deleted(rows, query, d) /\ Stopped(query, d)
  BY <1>1, DeleteWhereKeeps
<1> HIDE DEF d
<1>3. /\ Plan(p) /\ Direction(query) /\ d.table \in Tables /\ d.offset \in Nat
      /\ p.after = d.after /\ p.range = query.range
      /\ p.index = query.index /\ p.forward = query.forward
      /\ p.unique = query.unique /\ p.filtered = query.filtered /\ query.offset \in Nat
  BY <1>1, <1>2, SeeksIs DEF Turn, Queries
<1>4. \/ d.count = query.limit \/ query.unique \/ Cardinality(C) <= query.offset
  <2> SUFFICES ASSUME Size(d.table, p) <= d.offset, ~query.unique
               PROVE  Cardinality(C) <= query.offset
    BY <1>2 DEF Stopped
  <2>1. /\ \A x, y : IsPast(p, x, y) = IsPast(query, x, y)
        /\ Chosen(d.table, p, p.range) = C
    BY <1>3, SameDirection
  <2>2. /\ Ahead(d.table, p) = {x \in Chosen(d.table, p, p.range) :
                                  p.after # None => IsPast(p, x, p.after)}
        /\ IsFiniteSet(Ahead(d.table, p)) /\ Size(d.table, p) = Cardinality(Ahead(d.table, p))
        /\ Cardinality(Ahead(d.table, p)) \in Nat
    BY <1>3, AheadIs DEF Size
  <2> HIDE DEF p, C
  <2>3. Ahead(d.table, p) = {x \in C : d.after # None => IsPast(query, x, d.after)}
    BY <1>3, <2>1, <2>2
  <2>4. CASE d.after = None
    <3>1. Ahead(d.table, p) = C /\ d.offset = query.offset
      BY <1>2, <2>3, <2>4 DEF Deleted
    <3> QED BY <2>2, <3>1
  <2>5. CASE d.after # None
    <3>1. d.offset = 0 /\ Cardinality(Passed(query, d)) <= query.offset
      BY <1>2, <2>5 DEF Deleted
    <3>2. Ahead(d.table, p) = {}
      BY <2>2, <3>1, FS_EmptySet
    <3>3. \A x \in C : ~IsPast(query, x, d.after)
      BY <2>3, <2>5, <3>2
    <3>4. Passed(query, d) = C
      BY <3>3 DEF Passed, C
    <3> QED BY <3>1, <3>4
  <2> QED BY <2>4, <2>5
<1>5. /\ d.count = Cardinality({i \in Ids : rows[i] # d.table[i]})
      /\ {i \in Ids : rows[i] # d.table[i]} \subseteq
           {i \in Present(rows) : query.filtered => rows[i].kept}
  BY <1>2 DEF Deleted, Gone
<1> QED BY <1>4, <1>5 DEF DeletesWhatItCounts, d

----------------------------------------------------------------------------
(* What is answered, always. *)

LEMMA TypesHold == IInv /\ ReaderInv => TypeOK
BY UnlimitedIs DEF IInv, Kinds, ReaderInv, Typed, Asks, TypeOK

\* Whatever the rows and the query, the answers of one transaction agree with each other:
\* what deleteWhere counts with what it deletes, the pages of find with ids, count and
\* findOne, a token with the plan it was read under, and the inspector with the queries.
THEOREM AnswersAlwaysAddUp == Spec => []AnswersAddUp
<1>1. IInv /\ ReaderInv => AnswersAddUp
  <2> SUFFICES ASSUME IInv, ReaderInv PROVE AnswersAddUp
    OBVIOUS
  <2>1. Asks /\ Typed /\ query.after = None
    BY DEF ReaderInv, Asks, Queries
  <2>2. DeletesWhatItCounts /\ PagesAddUp /\ TokensStayInScope /\ InspectorAgrees
    BY <2>1, DeletesKeep, PagesKeep, TokensKeepTheirScope, InspectorKeeps
  <2> QED BY <2>2, TypesHold DEF AnswersAddUp
<1> QED BY <1>1, KeepTogether, ReaderKeeps, PTL
=============================================================================
