------------------------------ MODULE Connections ------------------------------
(***************************************************************************)
(* The tabs of a browser that share one IndexedDB database:                *)
(* IndexedDbConnections of packages/ddd in each tab, and the part of the   *)
(* browser it relies on, the queue of requests on the database and the     *)
(* versionchange and blocked events.                                       *)
(*                                                                         *)
(* A handler of a tab is one action: the browser runs one event of a page  *)
(* at a time, with the promises it settles (Quiet).  A connection that is  *)
(* closed stays open until its transactions end (StillOpen).               *)
(***************************************************************************)
EXTENDS TableSchema, Sequences, FiniteSets

CONSTANTS
    Tabs,
    Tables,         \* the names of tables
    Definition,     \* what the code of a tab declares for a table
    Declared,       \* the tables that each tab has declared when it starts
    Calls,          \* calls of the tables, each made once
    TabOf,          \* the tab of a call
    TableOf,        \* the table of a call
    Openers,        \* requests on the database, with the connection they give
    None,
    Operations,     \* what else the tabs do: some of "close", "drop", "delete"
    MaxOperations   \* bound: how many of these there are in a behaviour

ASSUME ConnectionsAssumption ==
    /\ Tabs # {}
    /\ Definition \in [Tabs -> [Tables -> Definitions]]
    /\ Declared \in [Tabs -> SUBSET Tables]
    /\ TabOf \in [Calls -> Tabs]
    /\ TableOf \in [Calls -> Tables]
    /\ None \notin Openers
    /\ Operations \subseteq {"close", "drop", "delete"}
    /\ MaxOperations \in Nat

VARIABLES
    version,    \* of the database; 0 when there is none
    stores,     \* the store of each table, or NoStore
    queue,      \* the requests that arrived: the browser serves the first
    stage,      \* of the first: queued, notifying or blocked
    notify,     \* the connections whose versionchange event is to be delivered
    opener,     \* the requests
    declared,   \* entry.tables of each tab
    verified,   \* entry.verified
    connection, \* entry.connection: the attempt that calls await, or None
    opened,     \* entry.opened: the attempt whose connection is watched, or None
    calls,
    operations  \* how many closes, drops and deletions there were

browser == <<version, stores, queue, stage, notify>>
tabs    == <<declared, verified, connection, opened>>
vars    == <<browser, opener, tabs, calls, operations>>

\* A request of a tab.  Kinds: an attempt of connect, drop looking for the store, drop
\* deleting it, deleteDatabase.  Phases: "asking" while the browser has it, "checking"
\* while connect reads the versions of the tables, and how its promise settled.  asked
\* is the version it wants (0: whatever there is), open says that its connection was
\* given and not closed, tables what connect checks or the table to drop.
Kinds  == {"connect", "look", "drop", "delete"}
Phases == {"free", "asking", "checking", "resolved", "rejected"}
Requests == [tab : Tabs, kind : Kinds, phase : Phases, asked : Nat, open : BOOLEAN,
             tables : SUBSET Tables]

-------------------------------------------------------------------------------
Working(o)   == {c \in Calls : calls[c] = [status |-> "working", on |-> o]}
Waiting(o)   == {c \in Calls : calls[c] = [status |-> "waiting", on |-> o]}
StillOpen(o) == opener[o].open \/ opener[o].phase = "checking" \/ Working(o) # {}
InQueue(o)   == \E i \in DOMAIN queue : queue[i] = o

\* Nothing refers to the request any more.
Free(o) ==
    /\ opener[o].phase # "asking"
    /\ ~StillOpen(o)
    /\ ~InQueue(o)
    /\ Waiting(o) = {}
    /\ \A tab \in Tabs : connection[tab] # o /\ opened[tab] # o

\* The promises that an event settled have run their continuations.
Quiet(tab) ==
    \A c \in Calls :
        (TabOf[c] = tab /\ calls[c].status = "waiting")
            => opener[calls[c].on].phase \notin {"resolved", "rejected"}

Request(tab, kind, tables) ==
    [tab |-> tab, kind |-> kind, phase |-> "asking", asked |-> 0, open |-> FALSE,
     tables |-> tables]

First == Head(queue)

\* The version the first request asks for.
Target == IF opener[First].asked # 0 THEN opener[First].asked
          ELSE IF version = 0 THEN 1 ELSE version

\* The first request is served: the next one begins.
Served == queue' = Tail(queue) /\ stage' = "queued" /\ notify' = {}

Init ==
    /\ version = 0
    /\ stores = [table \in Tables |-> NoStore]
    /\ queue = <<>> /\ stage = "queued" /\ notify = {}
    /\ opener = [o \in Openers |->
         [Request(CHOOSE tab \in Tabs : TRUE, "connect", {}) EXCEPT !.phase = "free"]]
    /\ declared = Declared
    /\ verified = [tab \in Tabs |-> {}]
    /\ connection = [tab \in Tabs |-> None]
    /\ opened = [tab \in Tabs |-> None]
    /\ calls = [c \in Calls |-> [status |-> "idle", on |-> None]]
    /\ operations = 0

-------------------------------------------------------------------------------
(* release and connection of a tab: values of the entry after them.            *)

\* An attempt of the tab ends badly: the calls that await it are told, and the entry
\* forgets it.
Rejected(o) ==
    /\ opener' = [opener EXCEPT ![o].phase = "rejected", ![o].open = FALSE]
    /\ connection' = [connection EXCEPT
                        ![opener[o].tab] = IF @ = o THEN None ELSE @]
    /\ UNCHANGED <<declared, verified, opened, calls, operations>>

\* release: the entry forgets its connection and closes it.  Mutant: it still watches
\* the connection.
ReleaseKeepsOpened(tab) ==
    /\ connection' = [connection EXCEPT ![tab] = None]
    /\ verified' = [verified EXCEPT ![tab] = {}]
    /\ opener' = IF opened[tab] = None THEN opener
                 ELSE [opener EXCEPT ![opened[tab]].open = FALSE]
    /\ UNCHANGED opened

Release(tab) ==
    /\ connection' = [connection EXCEPT ![tab] = None]
    /\ opened' = [opened EXCEPT ![tab] = None]
    /\ verified' = [verified EXCEPT ![tab] = {}]
    /\ opener' = IF opened[tab] = None THEN opener
                 ELSE [opener EXCEPT ![opened[tab]].open = FALSE]

\* A tab makes a request, which is on its way to the queue of the browser.
Fresh == CHOOSE o \in Openers : Free(o)

Ask(o, request, requests) ==
    /\ Free(o) /\ o = Fresh
    /\ opener' = [requests EXCEPT ![o] = request]

\* The call awaits the connection of the tab, or a new attempt when there is none.
AwaitConnection(c) ==
    LET tab == TabOf[c] IN
    \/ /\ connection[tab] # None
       /\ calls' = [calls EXCEPT ![c] = [status |-> "waiting", on |-> connection[tab]]]
       /\ UNCHANGED <<opener, tabs>>
    \/ /\ connection[tab] = None
       /\ \E o \in Openers :
            /\ Ask(o, Request(tab, "connect", {}), opener)
            /\ calls' = [calls EXCEPT ![c] = [status |-> "waiting", on |-> o]]
            /\ connection' = [connection EXCEPT ![tab] = o]
       /\ verified' = [verified EXCEPT ![tab] = {}]
       /\ UNCHANGED <<declared, opened>>

-------------------------------------------------------------------------------
(* run: one call of a table.                                                   *)

Call(c) ==
    /\ calls[c].status = "idle"
    /\ Quiet(TabOf[c])
    /\ TableOf[c] \in declared[TabOf[c]]
    /\ AwaitConnection(c)
    /\ UNCHANGED <<browser, operations>>

\* The loop of run once the attempt it awaits has settled.
Resumes(c, phase) == calls[c].status = "waiting" /\ opener[calls[c].on].phase = phase

CallFails(c) ==
    /\ Resumes(c, "rejected")
    /\ calls' = [calls EXCEPT ![c] = [status |-> "failed", on |-> None]]
    /\ UNCHANGED <<browser, opener, tabs, operations>>

\* Somebody released the connection meanwhile: again from the start.
CallStartsAgain(c) ==
    /\ Resumes(c, "resolved")
    /\ connection[TabOf[c]] # calls[c].on
    /\ AwaitConnection(c)
    /\ UNCHANGED <<browser, operations>>

\* The table was declared after the connection was checked.  Mutant: nobody looks.
IsVerifiedAlways(c) == TRUE
IsVerified(c)       == TableOf[c] \in verified[TabOf[c]]

CallReleases(c) ==
    /\ Resumes(c, "resolved")
    /\ connection[TabOf[c]] = calls[c].on
    /\ ~IsVerified(c)
    /\ Release(TabOf[c])
    /\ UNCHANGED <<browser, declared, calls, operations>>

\* IndexedDbTransaction.run: a closed connection, or one without the store, refuses
\* the transaction.
CallWorks(c) ==
    /\ Resumes(c, "resolved")
    /\ connection[TabOf[c]] = calls[c].on
    /\ IsVerified(c)
    /\ calls' = [calls EXCEPT ![c] =
         IF opener[@.on].open /\ stores[TableOf[c]] # NoStore
         THEN [status |-> "working", on |-> @.on]
         ELSE [status |-> "failed", on |-> None]]
    /\ UNCHANGED <<browser, opener, tabs, operations>>

\* The transaction of the call ends.
Finish(c) ==
    /\ calls[c].status = "working"
    /\ Quiet(TabOf[c])
    /\ calls' = [calls EXCEPT ![c] = [status |-> "done", on |-> None]]
    /\ UNCHANGED <<browser, opener, tabs, operations>>

-------------------------------------------------------------------------------
(* The browser takes the requests as they arrive, and serves the first.        *)

Arrive(o) ==
    /\ opener[o].phase = "asking"
    /\ ~InQueue(o)
    /\ queue' = Append(queue, o)
    /\ UNCHANGED <<version, stores, stage, notify, opener, tabs, calls, operations>>

Serve(o) == queue # <<>> /\ First = o /\ Quiet(opener[o].tab)

\* It is for the version the database has: onsuccess.  connect checks the connection;
\* drop closes the one it looked with, and asks for the version that deletes the
\* store; a drop whose version another tab took has nothing to upgrade.
OpenSucceeds(o) ==
    /\ Serve(o) /\ stage = "queued"
    /\ opener[o].kind # "delete"
    /\ Target = version
    /\ \/ /\ opener[o].kind = "connect"
          /\ opener' = [opener EXCEPT ![o].phase = "checking", ![o].open = TRUE,
                                      ![o].tables = declared[opener[o].tab]]
          /\ Served
       \/ /\ opener[o].kind = "look"
          /\ \E table \in opener[o].tables : stores[table] # NoStore
          /\ opener' = [opener EXCEPT ![o].kind = "drop", ![o].asked = version + 1]
          /\ Served
       \/ /\ \/ opener[o].kind = "drop"
             \/ /\ opener[o].kind = "look"
                /\ \A table \in opener[o].tables : stores[table] = NoStore
          /\ opener' = [opener EXCEPT ![o].phase = "resolved"]
          /\ Served
    /\ UNCHANGED <<version, stores, tabs, calls, operations>>

\* Another tab raised the version further: connect opens whatever there is, drop fails.
\* Mutant: connect fails too.
RetryOnVersionErrorNever(o) == FALSE
RetryOnVersionError(o)      == opener[o].kind = "connect"

VersionError(o) ==
    /\ Serve(o) /\ stage = "queued"
    /\ opener[o].kind # "delete"
    /\ Target < version
    /\ IF RetryOnVersionError(o)
       THEN /\ opener' = [opener EXCEPT ![o].asked = 0]
            /\ Served
            /\ UNCHANGED <<tabs, calls, operations>>
       ELSE Rejected(o) /\ Served
    /\ UNCHANGED <<version, stores>>

\* It needs the database for itself: the browser tells every connection.
NeedsAll(o) == opener[o].kind = "delete" \/ Target > version

Notify(o) ==
    /\ queue # <<>> /\ First = o /\ stage = "queued" /\ NeedsAll(o)
    /\ stage' = "notifying"
    /\ notify' = {p \in Openers : opener[p].open}
    /\ UNCHANGED <<version, stores, queue, opener, tabs, calls, operations>>

\* onversionchange of a connection: forget.  Mutant: the connection that the tab uses
\* is left as it is.
ForgetNever(p) == UNCHANGED <<connection, opened, verified, opener>>

Forget(p) ==
    IF opened[opener[p].tab] = p
    THEN Release(opener[p].tab)
    ELSE /\ opener' = [opener EXCEPT ![p].open = FALSE]
         /\ UNCHANGED <<connection, opened, verified>>

VersionChange(p) ==
    /\ p \in notify
    /\ Quiet(opener[p].tab)
    /\ notify' = notify \ {p}
    /\ Forget(p)
    /\ UNCHANGED <<version, stores, queue, stage, declared, calls, operations>>

Alone(o) == notify = {} /\ \A p \in Openers \ {o} : ~StillOpen(p)

\* A connection did not close at once: onblocked rejects the request, which stays in
\* the queue.
Blocked(o) ==
    /\ Serve(o) /\ stage = "notifying" /\ notify = {} /\ ~Alone(o)
    /\ stage' = "blocked"
    /\ Rejected(o)
    /\ UNCHANGED <<version, stores, queue, notify>>

Exclusive(o) ==
    /\ Serve(o) /\ stage \in {"notifying", "blocked"} /\ Alone(o)

\* The upgrade transaction of connect: the tables declared by now, all or nothing.  It
\* is aborted by a mismatch, and by anything that fails in it: a migration that throws
\* or returns a row the browser refuses, an index of rows that are not unique, a
\* request.  The connection of a request that was blocked is closed as soon as it is
\* given.
StaysOpen == stage # "blocked"

Upgrade(o) ==
    LET wanted     == declared[opener[o].tab]
        defined(t) == Definition[opener[o].tab][t]
    IN  /\ Exclusive(o) /\ opener[o].kind = "connect"
        /\ Served
        /\ \/ /\ Rejected(o)
              /\ UNCHANGED <<version, stores>>
           \/ /\ \A t \in wanted : ~Mismatch(defined(t), stores[t])
              /\ version' = Target
              /\ stores' = [t \in Tables |->
                            IF t \in wanted THEN Upgraded(defined(t), stores[t])
                                            ELSE stores[t]]
              /\ opener' = [opener EXCEPT
                            ![o].phase  = IF stage = "blocked" THEN @ ELSE "checking",
                            ![o].open   = StaysOpen,
                            ![o].tables = wanted]
              /\ UNCHANGED <<tabs, calls, operations>>

\* drop: there is no database to look into (resolved), or the store is deleted, or the
\* transaction is aborted (rejected) because the store is not there any more or
\* a request fails.
DropAborts(o) == IF opener[o].kind = "drop" THEN version' = version ELSE version # 0

DropUpgrade(o) ==
    /\ Exclusive(o) /\ opener[o].kind \in {"look", "drop"}
    /\ Served
    /\ \/ UNCHANGED <<version, stores>>
       \/ /\ opener[o].kind = "drop"
          /\ \E t \in opener[o].tables : stores[t] # NoStore
          /\ version' = Target
          /\ stores' = [t \in Tables |->
                            IF t \in opener[o].tables THEN NoStore ELSE stores[t]]
    /\ opener' = [opener EXCEPT ![o].phase = IF @ = "rejected" \/ DropAborts(o)
                                             THEN "rejected" ELSE "resolved"]
    /\ UNCHANGED <<tabs, calls, operations>>

DeleteUpgrade(o) ==
    /\ Exclusive(o) /\ opener[o].kind = "delete"
    /\ Served
    /\ version' = 0
    /\ stores' = [t \in Tables |-> NoStore]
    /\ opener' = [opener EXCEPT ![o].phase = IF @ = "asking" THEN "resolved" ELSE @]
    /\ UNCHANGED <<tabs, calls, operations>>

-------------------------------------------------------------------------------
(* pending: connect reads the versions of the tables and compares them.        *)

Check(o) == opener[o].phase = "checking" /\ Quiet(opener[o].tab)

\* Mutant: data of another version are work, those of a newer release too.
BehindIfDifferent(o) ==
    \E t \in opener[o].tables :
        stores[t] # NoStore =>
            stores[t].recorded # Definition[opener[o].tab][t].version
Behind(o) ==
    \E t \in opener[o].tables : Pending(Definition[opener[o].tab][t], stores[t])
Mismatched(o) ==
    \E t \in opener[o].tables : Mismatch(Definition[opener[o].tab][t], stores[t])

\* There is work: connect closes its connection and asks for the next version.
CheckFindsWork(o) ==
    /\ Check(o) /\ Behind(o)
    /\ opener' = [opener EXCEPT ![o].phase = "asking", ![o].open = FALSE,
                                ![o].asked = version + 1]
    /\ UNCHANGED <<browser, tabs, calls, operations>>

\* Tables do not match, or their versions cannot be read.
CheckFails(o) ==
    /\ Check(o)
    /\ Rejected(o)
    /\ UNCHANGED browser

\* The attempt resolves: its connection becomes that of the tab, or is closed when
\* the tab let the attempt go.  Mutant: it is never closed.
OrphanStaysOpen(o) == opener' = [opener EXCEPT ![o].phase = "resolved"]
ClosesOrphan(o)    == opener' = [opener EXCEPT ![o].phase = "resolved", ![o].open = FALSE]

CheckPasses(o) ==
    LET tab == opener[o].tab IN
    /\ Check(o) /\ ~Behind(o) /\ ~Mismatched(o)
    /\ \/ /\ connection[tab] = o
          /\ opener' = [opener EXCEPT ![o].phase = "resolved"]
          /\ opened' = [opened EXCEPT ![tab] = o]
          /\ verified' = [verified EXCEPT ![tab] = @ \cup opener[o].tables]
       \/ /\ connection[tab] # o
          /\ ClosesOrphan(o)
          /\ UNCHANGED <<opened, verified>>
    /\ UNCHANGED <<browser, declared, connection, calls, operations>>

-------------------------------------------------------------------------------
(* What else a tab does.                                                       *)

\* register: IndexedDbTable.of of another table.
Declare(tab, table) ==
    /\ Quiet(tab)
    /\ \E c \in Calls : TabOf[c] = tab /\ TableOf[c] = table
    /\ table \notin declared[tab]
    /\ declared' = [declared EXCEPT ![tab] = @ \cup {table}]
    /\ UNCHANGED <<browser, opener, verified, connection, opened, calls, operations>>

Operates(tab, operation) ==
    /\ Quiet(tab)
    /\ operation \in Operations
    /\ operations < MaxOperations
    /\ operations' = operations + 1

\* close; and pagehide, which does the same to every entry with an open connection.
Close(tab) ==
    /\ Operates(tab, "close")
    /\ Release(tab)
    /\ UNCHANGED <<browser, declared, calls>>

\* drop and deleteDatabase: close, then the request.
Removal(tab, request) ==
    /\ LET requests == IF opened[tab] = None THEN opener
                       ELSE [opener EXCEPT ![opened[tab]].open = FALSE]
       IN  \E o \in Openers : Ask(o, request, requests)
    /\ connection' = [connection EXCEPT ![tab] = None]
    /\ opened' = [opened EXCEPT ![tab] = None]
    /\ verified' = [verified EXCEPT ![tab] = {}]
    /\ UNCHANGED <<browser, declared, calls>>

Drop(tab, table) ==
    /\ Operates(tab, "drop")
    /\ table \notin declared[tab]
    /\ Removal(tab, Request(tab, "look", {table}))

DeleteDatabase(tab) ==
    /\ Operates(tab, "delete")
    /\ Removal(tab, Request(tab, "delete", {}))

-------------------------------------------------------------------------------
Run(c) ==
    CallFails(c) \/ CallStartsAgain(c) \/ CallReleases(c) \/ CallWorks(c) \/ Finish(c)

ServeFirst(o) ==
    \/ Arrive(o) \/ OpenSucceeds(o) \/ VersionError(o) \/ Notify(o) \/ Blocked(o)
    \/ Upgrade(o) \/ DropUpgrade(o) \/ DeleteUpgrade(o)

Pend(o) == CheckFindsWork(o) \/ CheckFails(o) \/ CheckPasses(o)

Next ==
    \/ \E c \in Calls : Call(c) \/ Run(c)
    \/ \E o \in Openers : ServeFirst(o) \/ VersionChange(o) \/ Pend(o)
    \/ \E tab \in Tabs :
        \/ Close(tab) \/ DeleteDatabase(tab)
        \/ \E table \in Tables : Declare(tab, table) \/ Drop(tab, table)

Spec == Init /\ [][Next]_vars

\* The browser serves requests, delivers events and ends transactions; promises run
\* their continuations.  Whether a tab calls, closes or drops is its own affair.
Fairness ==
    /\ \A c \in Calls : WF_vars(Run(c))
    /\ \A o \in Openers : WF_vars(ServeFirst(o)) /\ WF_vars(VersionChange(o))
                          /\ WF_vars(Pend(o))

FairSpec == Spec /\ Fairness

-------------------------------------------------------------------------------
\* Types, and what the fields of an entry have to do with each other: opened is the
\* current connection, and only its declared tables are verified.
TypeOK ==
    /\ version \in Nat
    /\ stores \in [Tables -> Stores \cup {NoStore}]
    /\ version = 0 => \A table \in Tables : stores[table] = NoStore
    /\ queue \in Seq(Openers) /\ Cardinality({queue[i] : i \in DOMAIN queue}) = Len(queue)
    /\ stage \in {"queued", "notifying", "blocked"}
    /\ notify \subseteq Openers
    /\ opener \in [Openers -> Requests]
    /\ declared \in [Tabs -> SUBSET Tables]
    /\ \A tab \in Tabs : verified[tab] \subseteq (IF opened[tab] = None THEN {}
                                                 ELSE declared[tab])
    /\ \A tab \in Tabs : opened[tab] \in {None, connection[tab]}
    /\ connection \in [Tabs -> Openers \cup {None}]
    /\ calls \in [Calls -> [status : {"idle", "waiting", "working", "done", "failed"},
                            on : Openers \cup {None}]]
    /\ operations \in 0..MaxOperations

\* No connection is forgotten open, which would block the upgrade of every other tab
\* for as long as the page lives: each belongs to an attempt that is being checked, or
\* is the one its tab uses.  After close, a late answer of a blocked request, or an
\* attempt that the tab let go, nothing stays open.
ConnectionsOwned ==
    \A o \in Openers : opener[o].open =>
        \/ opener[o].phase = "checking"
        \/ /\ opener[o].phase = "resolved"
           /\ connection[opener[o].tab] = o
           /\ opened[opener[o].tab] = o

\* A transaction always runs on the table its code declares: the store is there and
\* has nothing left to upgrade, whatever the other tabs did since it was verified.
WorkingFits ==
    \A c \in Calls : calls[c].status = "working" =>
        LET table == Definition[TabOf[c]][TableOf[c]]
            store == stores[TableOf[c]]
        IN  store # NoStore /\ ~Mismatch(table, store) /\ ~Pending(table, store)

\* Tabs do not raise the version of the database for nothing, nor skip one: each rise
\* closes the connections of all the others.  (Where the tabs delete the database too,
\* an attempt that had found work in the old one still asks for its version of the new
\* one.)
RisesDoWork ==
    [][(version' > version /\ "delete" \notin Operations)
        => version' = version + 1 /\ stores' # stores]_vars

\* What a request answers has a reason in the database.  It is rejected only while
\* another connection keeps it from the database, by the end of its own upgrade, or by
\* the check of its tables: an open never because another tab raised the version first,
\* which only a drop gives up for.  A drop that answers has left no store, unless the
\* version it asked for was taken by another tab between its look and its deletion.
Ends(o, phase) == opener[o].phase \in {"asking", "checking"} /\ opener'[o].phase = phase

AnswersHaveAReason ==
    [][\A o \in Openers :
        /\ Ends(o, "rejected") =>
             \/ stage' = "blocked" /\ \E p \in Openers \ {o} : StillOpen(p)
             \/ Exclusive(o)
             \/ opener[o].phase = "checking"
             \/ opener[o].kind = "drop" /\ opener[o].asked < version
        /\ (Ends(o, "resolved") /\ opener[o].kind \in {"look", "drop"}) =>
             \/ \A t \in opener[o].tables : stores'[t] = NoStore
             \/ opener[o].kind = "drop" /\ opener[o].asked = version]_vars

\* Every call ends, whatever the tabs do to each other's connections.
CallsSettle ==
    \A c \in Calls :
        calls[c].status = "waiting" ~> calls[c].status \in {"done", "failed"}

\* What the README of packages/ddd says of a tab whose connection another one closed:
\* it opens the database again by itself.  A connection closed while it is being
\* checked is kept, and every call of the tab fails on it.
KeptIsOpen == \A tab \in Tabs : opened[tab] # None => opener[opened[tab]].open
===============================================================================
