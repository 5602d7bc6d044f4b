--------------------------- MODULE IndexedDbTable ---------------------------
(***************************************************************************)
(* IndexedDbTable.iterate (indexed-db-table.ts): the rows of a query, read  *)
(* a batch at a time, each batch in a readonly transaction of its own. The  *)
(* transactions of IndexedDbTransaction write between two batches, and      *)
(* between two rows handed out.                                             *)
(***************************************************************************)
EXTENDS IndexedDbTransaction

CONSTANTS Beginnings,   \* rows a run begins with
          Plans,        \* queries, with an after of None
          BatchSizes

ASSUME ReaderAssumption ==
  /\ Beginnings \subseteq Tables /\ Plans \subseteq Queries
  /\ BatchSizes \subseteq Nat \ {0}

VARIABLES
  plan,        \* const plan, after, offset and limit (remaining) included
  batchSize,
  reader,      \* reading, done, failed
  handed,      \* history: positions of the rows handed out, in order
  steady,      \* history: positions the query chose at every moment so far
  query        \* history: the plan as it was asked for

readerVars == <<plan, batchSize, reader, handed>>
vars == <<txVars, readerVars, steady, query>>

Init ==
  /\ rows \in Beginnings
  /\ TransactionInit
  /\ query \in Plans /\ plan = query /\ batchSize \in BatchSizes
  /\ reader = "reading" /\ handed = <<>>
  /\ steady = Chosen(rows, query, query.range)

(* A readonly transaction waits for the readwrite one to finish. *)
MayRead == tx \notin {"open", "failing", "aborting"}

(* One turn of the loop of iterate; a limit of null stays unlimited. *)
Batch ==
  [plan EXCEPT !.limit = IF batchSize < plan.limit THEN batchSize
                                                   ELSE plan.limit]

Remaining(n) == IF plan.limit = Unlimited THEN Unlimited ELSE plan.limit - n

ReadBatch ==
  /\ reader = "reading" /\ MayRead /\ plan.limit > 0
  /\ LET slice == RowsOf(rows, Batch, TRUE)
     IN  /\ handed' = handed \o slice.items
         /\ IF slice.more
            THEN /\ plan' = [plan EXCEPT
                               !.limit = Remaining(Len(slice.items)),
                               !.after = slice.last, !.offset = 0]
                 /\ reader' = "reading"
            ELSE reader' = "done" /\ plan' = plan
  /\ UNCHANGED <<txVars, batchSize, steady, query>>

(* while (remaining > 0) *)
LimitReached ==
  /\ reader = "reading" /\ plan.limit = 0
  /\ reader' = "done"
  /\ UNCHANGED <<txVars, plan, batchSize, handed, steady, query>>

(* The readonly transaction cannot be opened, or is aborted. *)
ReadFails ==
  /\ reader = "reading" /\ MayRead /\ plan.limit > 0
  /\ reader' = "failed"
  /\ UNCHANGED <<txVars, plan, batchSize, handed, steady, query>>

Write ==
  /\ TransactionNext
  /\ steady' = steady \cap Chosen(rows', query, query.range)
  /\ UNCHANGED <<readerVars, query>>

Next == ReadBatch \/ LimitReached \/ ReadFails \/ Write

Spec == Init /\ [][Next]_vars

----------------------------------------------------------------------------
TypeOK ==
  /\ rows \in Tables /\ draft \in Tables /\ before \in Tables
  /\ tx \in {"none", "open", "failing", "aborting", "aborted", "committed"}
  /\ work \in {"none", "running", "awaiting", "elsewhere", "returned", "threw"}
  /\ promise \in {"none", "pending", "resolved", "rejected"}
  /\ {active, failure, completed, strayed, errored} \subseteq BOOLEAN
  /\ reader \in {"reading", "done", "failed"}
  /\ plan.limit \in 0..Unlimited /\ plan.offset \in Nat

(* No row is handed out twice for one entry, and they come in the order of  *)
(* the query, whatever is written between two batches: rows with the same   *)
(* index key are not repeated (indexed-db-table.ts:346-373,                 *)
(* indexed-db-store-operations.ts:281-292).                                 *)
HandedInOrder ==
  \A m, n \in 1..Len(handed) : m < n =>
    IF query.unique
    THEN IF query.forward THEN handed[m][1] < handed[n][1]
                          ELSE handed[m][1] > handed[n][1]
    ELSE Before(query, handed[m], handed[n])

(* An iteration that comes to its end has handed out every entry the query  *)
(* chose from its first moment to its last, but for those its offset passed *)
(* over, or as many rows as its limit; deleting the row a batch ended at    *)
(* loses nothing (indexed-db-table.ts:346-373,                              *)
(* indexed-db-store-operations.ts:260-279).                                 *)
NothingLost ==
  reader = "done" =>
    \/ Len(handed) = query.limit
    \/ Cardinality(steady \ {handed[n] : n \in 1..Len(handed)})
         <= query.offset

(* Another query may be asked at any moment; what it finds does not depend   *)
(* on the reader, so its answers are compared before the reader begins.     *)
MayAsk == MayRead /\ reader = "reading" /\ plan = query /\ handed = <<>>

(* deleteWhere counts each row it deletes once, deletes nothing the query   *)
(* does not choose, and leaves of it only what its offset passed over or    *)
(* its limit kept it from, even where one row has several entries           *)
(* (indexed-db-store-operations.ts:95-101).                                 *)
DeletesWhatItCounts ==
  MayAsk =>
  LET gone == DeleteWhere(rows, query)
      out  == {i \in Ids : rows[i] # gone.table[i]}
  IN  /\ gone.count = Cardinality(out)
      /\ out \subseteq {i \in Present(rows) : query.filtered => rows[i].kept}
      /\ \/ gone.count = query.limit
         \/ query.unique
         \/ Cardinality(Chosen(gone.table, query, query.range)) <= query.offset

(* The ids of the pages of find, one after another, each read from where the *)
(* one before it ended.                                                     *)
TurnTo(page, read) ==
  IF read.ended THEN read
  ELSE [ids   |-> read.ids \o [m \in DOMAIN page.items |-> page.items[m][2]],
        after |-> page.next, ended |-> page.next = None]

NextPage(t, first, read) ==
  TurnTo(Find(t, PlanOf([first EXCEPT !.after = read.after])), read)

PagesOf(t, first) ==
  LET read[n \in 0..Unlimited] ==
        IF n = 0 THEN [ids |-> <<>>, after |-> None, ended |-> FALSE]
                 ELSE NextPage(t, first, read[n - 1])
  IN  read[Unlimited]

(* The pages of find, one after another, hold what ids says there is, as    *)
(* many rows as find counts, and one page of them says where the next one   *)
(* starts exactly when there is a next one; findOne is the first row of the *)
(* first page (indexed-db-store-operations.ts:107-187).                     *)
PagesTell(first, read) ==
  /\ read.ended
  /\ read.ids = IdsOf(rows, [first EXCEPT !.limit = Unlimited])
  /\ Len(read.ids) = Find(rows, query).total
  /\ FindOne(rows, first) =
       IF read.ids = <<>> THEN None ELSE Find(rows, first).items[1]

PagesAddUp ==
  MayAsk =>
  LET first == [query EXCEPT !.offset = 0, !.limit = 1]
  IN  /\ PagesTell(first, PagesOf(rows, first))
      /\ \A limit \in 0..2 :
           IdsOf(rows, [query EXCEPT !.limit = limit]) =
             UpTo(IdsOf(rows, [query EXCEPT !.limit = Unlimited]), limit)

(* A page goes on only in the index and direction it was read in: with its  *)
(* token, a query of another is refused, and every accepted one lists rows  *)
(* its own direction puts after the end of the page                         *)
(* (indexed-db-cursor-token.ts:40-71).                                      *)
TokensStayInScope ==
  MayAsk =>
  LET token == Find(rows, [query EXCEPT !.limit = 1]).next
  IN  token # None =>
        \A index, forward, unique \in BOOLEAN :
          LET next == PlanOf([query EXCEPT !.after = token, !.index = index,
                                !.forward = forward, !.unique = unique])
          IN  next # None =>
                \A n \in DOMAIN Find(rows, next).items :
                  Before(query, token.at, Find(rows, next).items[n])

(* What the inspector says of a store is what the queries of its table      *)
(* answer: the entries and distinct keys of an index are those a query of   *)
(* it without bounds counts, its edges are the keys where pages in the two  *)
(* directions start, and a sample begins with the rows of the first page    *)
(* (indexed-db-inspector.ts:139-245).                                       *)
InspectorAgrees ==
  MayAsk =>
  LET seen == StoreStatistics(rows, query)
      whole(index, forward, unique) ==
        [query EXCEPT !.index = index, !.forward = forward, !.unique = unique,
                      !.filtered = FALSE, !.offset = 0, !.limit = Unlimited,
                      !.range = [lower |-> None, upper |-> None]]
      answer(index, forward, unique) ==
        RowsOf(rows, whole(index, forward, unique), TRUE).items
      starts(index, forward) ==
        LET items == answer(index, forward, FALSE)
        IN  IF items = <<>> THEN None ELSE items[1][1]
      shape(index) == [first |-> starts(index, TRUE), last |-> starts(index, FALSE)]
  IN  /\ seen.records = Count(rows, whole(FALSE, TRUE, FALSE))
      /\ seen.index.entries = Count(rows, whole(TRUE, TRUE, FALSE))
      /\ seen.index.distinctKeys = Count(rows, whole(TRUE, FALSE, TRUE))
      /\ seen.edges = shape(FALSE) /\ seen.index.edges = shape(TRUE)
      /\ \A limit \in 0..2 :
           Sample(rows, query, limit) = UpTo(answer(FALSE, TRUE, FALSE), limit)

(* The answers of one transaction count what they did and what there is,    *)
(* for a program and for the inspector.                                     *)
AnswersAddUp ==
  /\ TypeOK /\ DeletesWhatItCounts /\ PagesAddUp /\ TokensStayInScope
  /\ InspectorAgrees
=============================================================================
