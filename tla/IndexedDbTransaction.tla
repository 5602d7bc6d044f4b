------------------------ MODULE IndexedDbTransaction ------------------------
(***************************************************************************)
(* IndexedDbTransaction.run (indexed-db-transaction.ts): the promise of a   *)
(* readwrite transaction, between the work that places requests, the        *)
(* requests the browser executes one after another, and a transaction that  *)
(* commits by itself once no request is left and the work waits for none.   *)
(*                                                                          *)
(* The code of the work, and the handlers of its promise, run before the    *)
(* browser does anything else: every action of the browser waits for the    *)
(* work to be doing nothing.                                                *)
(***************************************************************************)
EXTENDS StoreOperations

CONSTANTS Operations,      \* what the work may ask of a table
          MaxOperations,   \* bound: operations of one work
          MaxTransactions  \* bound: transactions run

ASSUME OperationsAssumption ==
  \A o \in Operations :
    /\ o.kind \in {"insertMany", "putMany", "update", "patch", "deleteMany", "clear",
                  "deleteWhere"}
    /\ o.ids \in Seq(Ids)
    /\ o.kind \in {"insertMany", "putMany", "update", "patch"} => o.row \in Rows
    /\ o.kind = "deleteWhere" => o.plan \in Queries

VARIABLES
  rows,       \* what is committed, and every other transaction reads
  draft,      \* what this transaction reads
  tx,         \* none, open, failing (an error event is being dispatched),
              \* aborting, aborted, committed
  active,     \* requests may be placed: IDBTransaction's active flag
  requests,   \* placed and not executed yet
  work,       \* none, running, awaiting an operation, elsewhere (awaiting
              \* anything else), returned, threw
  failure,    \* let failure: there is one
  completed,  \* let completed: oncomplete was called
  promise,    \* what run returned: none, pending, resolved, rejected
  before,     \* history: rows when the transaction began
  strayed,    \* history: the work awaited something else
  errored,    \* history: a request failed
  asked,      \* bound: operations asked
  begun       \* bound: transactions begun

runVars == <<tx, active, requests, work, failure, completed, promise>>
boundVars == <<asked, begun>>
txVars == <<rows, draft, runVars, before, strayed, errored, boundVars>>

Ended == work \in {"returned", "threw"}

(* Code of the work never stops half-way for the browser. *)
BrowserMayAct == work # "running"

----------------------------------------------------------------------------
(* The requests of an operation. An update and a patch place their put when *)
(* the row they read is there, and fail otherwise; insertMany, putMany and  *)
(* deleteMany place all theirs at once.                                     *)

RequestsOf(o, awaited) ==
  LET each(kind) == [n \in 1..Len(o.ids) |->
                       [kind |-> kind, id |-> o.ids[n], row |-> o.row,
                        plan |-> None, awaited |-> awaited]]
  IN  CASE o.kind = "insertMany" -> each("add")
        [] o.kind = "putMany"    -> each("put")
        [] o.kind = "deleteMany" -> each("delete")
        [] o.kind = "update"     -> each("getKey")
        [] o.kind = "patch"      -> each("get")
        [] OTHER -> <<[kind |-> o.kind, id |-> None, row |-> None,
                       plan |-> o.plan, awaited |-> awaited]>>

(* add is refused where there is a row already: ConstraintError. *)
Fails(r) == r.kind = "add" /\ draft[r.id] # Absent

(* What the browser makes of a table; a get and a getKey change nothing. *)
Effect(r, t) ==
  CASE r.kind \in {"add", "put"} -> [t EXCEPT ![r.id] = r.row]
    [] r.kind = "delete"         -> [t EXCEPT ![r.id] = Absent]
    [] r.kind = "clear"          -> [i \in Ids |-> Absent]
    [] r.kind = "deleteWhere"    -> DeleteWhere(t, r.plan).table
    [] OTHER -> t

(* patch: { ...current, ...changes }: whether the filter keeps it changes. *)
Patched(r, t) ==
  IF r.kind = "get" THEN [t[r.id] EXCEPT !.kept = r.row.kept] ELSE r.row

(* The request that follows one: the put of an update or of a patch. *)
FollowUp(r, t) ==
  IF r.kind \in {"get", "getKey"} /\ t[r.id] # Absent
  THEN <<[r EXCEPT !.kind = "put", !.row = Patched(r, t)]>>
  ELSE <<>>

(* The operation of r has failed without failing its request: not_found. *)
NotFound(r, t) == r.kind \in {"get", "getKey"} /\ t[r.id] = Absent

AwaitsOne(queue) == \E n \in DOMAIN queue : queue[n].awaited

(* The work goes on once what it awaits is done, or has failed. *)
Resumed(queue, failed) ==
  IF work = "awaiting" /\ (failed \/ ~AwaitsOne(queue))
  THEN "running" ELSE work

----------------------------------------------------------------------------
(* run: the transaction is opened and the work starts in the same task. *)
Open ==
  /\ promise # "pending" /\ tx \notin {"open", "failing", "aborting"}
  /\ begun < MaxTransactions
  /\ tx' = "open" /\ active' = TRUE /\ requests' = <<>> /\ work' = "running"
  /\ failure' = FALSE /\ completed' = FALSE /\ promise' = "pending"
  /\ draft' = rows /\ before' = rows
  /\ strayed' = FALSE /\ errored' = FALSE
  /\ asked' = 0 /\ begun' = begun + 1
  /\ UNCHANGED rows

(* database.transaction() throws: a connection that is closing. *)
OpenFails ==
  /\ promise # "pending" /\ tx \notin {"open", "failing", "aborting"}
  /\ begun < MaxTransactions
  /\ promise' = "rejected" /\ tx' = "none" /\ work' = "none"
  /\ active' = FALSE /\ requests' = <<>> /\ failure' = FALSE
  /\ completed' = FALSE /\ draft' = rows /\ before' = rows
  /\ strayed' = FALSE /\ errored' = FALSE
  /\ asked' = 0 /\ begun' = begun + 1
  /\ UNCHANGED rows

(* The work asks for an operation, and awaits it or goes on. *)
Ask(o, awaited) ==
  /\ work = "running" /\ active /\ tx \in {"open", "failing"}
  /\ asked < MaxOperations /\ asked' = asked + 1
  /\ requests' = requests \o RequestsOf(o, awaited)
  /\ work' = IF awaited /\ RequestsOf(o, awaited) # <<>>
             THEN "awaiting" ELSE "running"
  /\ UNCHANGED <<rows, draft, tx, active, failure, completed, promise,
                 before, strayed, errored, begun>>

(* The work awaits a timer, a fetch, another database... *)
AwaitElsewhere ==
  /\ work = "running" /\ work' = "elsewhere"
  /\ strayed' = TRUE /\ active' = FALSE
  /\ asked < MaxOperations /\ asked' = asked + 1
  /\ UNCHANGED <<rows, draft, tx, requests, failure, completed, promise,
                 before, errored, begun>>

(* ... and goes on in a task that is not one of the transaction's. From     *)
(* here every operation it asks for is refused (TransactionInactiveError).  *)
ComeBack ==
  /\ work = "elsewhere" /\ work' = "running"
  /\ UNCHANGED <<rows, draft, tx, active, requests, failure, completed,
                 promise, before, strayed, errored, boundVars>>

(* pending.then: outcome = { value }; settle(). *)
Return ==
  /\ work = "running" /\ work' = "returned" /\ active' = FALSE
  /\ promise' = IF completed /\ promise = "pending" THEN "resolved"
                                                    ELSE promise
  /\ UNCHANGED <<rows, draft, tx, requests, failure, completed,
                 before, strayed, errored, boundVars>>

(* The work's rejection rejects the promise and leaves the transaction. *)
ThrowWithoutAbort ==
  /\ work = "running" /\ work' = "threw" /\ active' = FALSE
  /\ failure' = TRUE
  /\ promise' = IF promise = "pending" THEN "rejected" ELSE promise
  /\ UNCHANGED <<rows, draft, tx, requests, completed, before, strayed,
                 errored, boundVars>>

(* pending.then, rejected: abort(), which throws once the transaction is    *)
(* finished or on its way to.                                               *)
Throw ==
  /\ work = "running" /\ work' = "threw" /\ active' = FALSE
  /\ failure' = TRUE
  /\ IF tx \in {"open", "failing"}
     THEN tx' = "aborting" /\ draft' = before /\ promise' = promise
     ELSE /\ promise' = IF promise = "pending" THEN "rejected" ELSE promise
          /\ UNCHANGED <<tx, draft>>
  /\ UNCHANGED <<rows, requests, completed, before, strayed, errored,
                 boundVars>>

----------------------------------------------------------------------------
(* The browser. *)

(* The first request is executed, and the code that awaits it goes on. *)
Execute ==
  /\ BrowserMayAct /\ tx = "open" /\ requests # <<>> /\ ~Fails(Head(requests))
  /\ LET r == Head(requests)
         queue == Tail(requests) \o FollowUp(r, draft)
     IN  /\ draft' = Effect(r, draft)
         /\ requests' = queue
         /\ work' = Resumed(queue, NotFound(r, draft) /\ r.awaited)
         /\ active' = (work' = "running")
  /\ UNCHANGED <<rows, tx, failure, completed, promise, before, strayed,
                 errored, boundVars>>

(* A failed request takes its error event no further: preventDefault. *)
FailPrevented ==
  /\ BrowserMayAct /\ tx = "open" /\ requests # <<>> /\ Fails(Head(requests))
  /\ tx' = "open" /\ errored' = TRUE
  /\ requests' = Tail(requests)
  /\ work' = Resumed(Tail(requests), Head(requests).awaited)
  /\ active' = (work' = "running")
  /\ UNCHANGED <<rows, draft, failure, completed, promise, before, strayed,
                 boundVars>>

(* The first request fails: its error event reaches the request first, then *)
(* the transaction, which is aborted since nobody prevents it.              *)
Fail ==
  /\ BrowserMayAct /\ tx = "open" /\ requests # <<>> /\ Fails(Head(requests))
  /\ tx' = "failing" /\ errored' = TRUE
  /\ requests' = Tail(requests)
  /\ work' = Resumed(Tail(requests), Head(requests).awaited)
  /\ active' = (work' = "running")
  /\ UNCHANGED <<rows, draft, failure, completed, promise, before, strayed,
                 boundVars>>

(* transaction.onerror, and the abort of a transaction with a failed request *)
OnError ==
  /\ BrowserMayAct /\ tx = "failing"
  /\ tx' = "aborting" /\ failure' = TRUE /\ active' = FALSE
  /\ draft' = before
  /\ UNCHANGED <<rows, requests, work, completed, promise, before, strayed,
                 errored, boundVars>>

(* The browser aborts on its own: no room, a connection closed by force. *)
AbortAlone ==
  /\ BrowserMayAct /\ tx = "open"
  /\ tx' = "aborting" /\ draft' = before /\ active' = FALSE
  /\ UNCHANGED <<rows, requests, work, failure, completed, promise, before,
                 strayed, errored, boundVars>>

(* What is left of the requests fails with an AbortError, which onerror     *)
(* passes over.                                                             *)
AbortRequests ==
  /\ BrowserMayAct /\ tx = "aborting" /\ requests # <<>>
  /\ requests' = <<>> /\ work' = Resumed(<<>>, TRUE)
  /\ UNCHANGED <<rows, draft, tx, active, failure, completed, promise,
                 before, strayed, errored, boundVars>>

OnAbort ==
  /\ BrowserMayAct /\ tx = "aborting" /\ requests = <<>>
  /\ tx' = "aborted"
  /\ promise' = IF promise = "pending" THEN "rejected" ELSE promise
  /\ UNCHANGED <<rows, draft, active, requests, work, failure, completed,
                 before, strayed, errored, boundVars>>

(* With no request left, the transaction commits whatever the work does. *)
Commit ==
  /\ BrowserMayAct /\ tx = "open" /\ requests = <<>>
  /\ tx' = "committed" /\ rows' = draft /\ active' = FALSE
  /\ UNCHANGED <<draft, requests, work, failure, completed, promise, before,
                 strayed, errored, boundVars>>

(* Only the end of the work settles the promise, not the later commit. *)
OnCompleteAlone ==
  /\ BrowserMayAct /\ tx = "committed" /\ ~completed
  /\ completed' = TRUE
  /\ UNCHANGED <<rows, draft, tx, active, requests, work, failure, promise,
                 before, strayed, errored, boundVars>>

(* transaction.oncomplete: completed = true; settle(). *)
OnComplete ==
  /\ BrowserMayAct /\ tx = "committed" /\ ~completed
  /\ completed' = TRUE
  /\ promise' = IF work = "returned" /\ promise = "pending" THEN "resolved"
                                                            ELSE promise
  /\ UNCHANGED <<rows, draft, tx, active, requests, work, failure, before,
                 strayed, errored, boundVars>>

TransactionInit ==
  /\ tx = "none" /\ active = FALSE /\ requests = <<>> /\ work = "none"
  /\ failure = FALSE /\ completed = FALSE /\ promise = "none"
  /\ draft = rows /\ before = rows /\ strayed = FALSE /\ errored = FALSE
  /\ asked = 0 /\ begun = 0

Work ==
  \/ \E o \in Operations, awaited \in BOOLEAN : Ask(o, awaited)
  \/ AwaitElsewhere \/ ComeBack \/ Return \/ Throw

Browser ==
  \/ Execute \/ Fail \/ OnError \/ AbortAlone \/ AbortRequests \/ OnAbort
  \/ Commit \/ OnComplete

TransactionNext == Open \/ OpenFails \/ Work \/ Browser

----------------------------------------------------------------------------
(* A promise resolves only for work that returned in a transaction that     *)
(* committed with none of its requests failed (settle,                      *)
(* indexed-db-transaction.ts:28-32): a failure the work swallowed, a commit *)
(* before or after the end of the work, and an abort in between included.   *)
ResolvedIsCommitted ==
  promise = "resolved" =>
    tx = "committed" /\ completed /\ work = "returned" /\ ~errored

(* A transaction whose promise rejects has changed nothing, as long as its  *)
(* work awaited nothing but its own operations: everything commits together *)
(* or not at all (indexed-db-transaction.ts:63-72).                         *)
AllOrNothing ==
  promise = "rejected" /\ ~strayed => tx # "committed" /\ rows = before

(* What the caller is told of the end of its work is what the browser did.  *)
EndIsTold == ResolvedIsCommitted /\ AllOrNothing

(* Once the work has ended and the browser has nothing left to do for the   *)
(* transaction, its promise is settled: no order of the two ends leaves a   *)
(* caller waiting (indexed-db-transaction.ts:28-52).                        *)
NobodyWaits ==
  Ended /\ (tx = "aborted" \/ (tx = "committed" /\ completed))
    => promise \in {"resolved", "rejected"}

=============================================================================
