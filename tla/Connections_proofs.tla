-------------------------- MODULE Connections_proofs ---------------------------
(***************************************************************************)
(* Proofs about Connections, for any tabs, releases, calls and operations: *)
(* no connection is forgotten open, every transaction runs on a table that *)
(* fits, requests answer for a reason, and versions rise for work.         *)
(***************************************************************************)
EXTENDS Connections, TableSchema_proofs, FiniteSetTheorems

Shape ==
    /\ queue \in Seq(Openers)
    /\ opener \in [Openers -> Requests]
    /\ connection \in [Tabs -> Openers \cup {None}]
    /\ opened \in [Tabs -> Openers \cup {None}]

\* A request is in the queue once.
QueuedOnce == \A i, j \in DOMAIN queue : queue[i] = queue[j] => i = j

\* A request that is being checked has left the queue, and so has the one whose
\* connection a tab uses.
CheckedLeft ==
    \A i \in DOMAIN queue :
        /\ opener[queue[i]].phase # "checking"
        /\ \A tab \in Tabs : opened[tab] # queue[i]

\* The entry of a tab refers to its own requests, and watches none but the current one,
\* which has resolved.
Watched ==
    \A tab \in Tabs :
        /\ connection[tab] # None => opener[connection[tab]].tab = tab
        /\ opened[tab] # None =>
              opened[tab] = connection[tab] /\ opener[opened[tab]].phase = "resolved"

\* Only connect leaves a connection open.
OnlyConnect == \A o \in Openers : opener[o].open => opener[o].kind = "connect"

\* What else the requests are made of.
Plain == version \in Nat /\ declared \in [Tabs -> SUBSET Tables]

OwnInv ==
    /\ Shape /\ QueuedOnce /\ CheckedLeft /\ Watched /\ OnlyConnect
    /\ ConnectionsOwned

Once(q) == \A i, j \in DOMAIN q : q[i] = q[j] => i = j

LEMMA TailOnce ==
    ASSUME NEW S, NEW q \in Seq(S), q # <<>>, Once(q)
    PROVE  /\ Tail(q) \in Seq(S)
           /\ Once(Tail(q))
           /\ \A i \in DOMAIN Tail(q) :
                 /\ Tail(q)[i] # Head(q)
                 /\ \E j \in DOMAIN q : q[j] = Tail(q)[i]
           /\ Head(q) = q[1] /\ 1 \in DOMAIN q
BY DEF Once

LEMMA AppendOnce ==
    ASSUME NEW S, NEW q \in Seq(S), NEW e \in S, Once(q),
           \A i \in DOMAIN q : q[i] # e
    PROVE  /\ Append(q, e) \in Seq(S)
           /\ Once(Append(q, e))
           /\ \A i \in DOMAIN Append(q, e) :
                 Append(q, e)[i] = e \/ \E j \in DOMAIN q : q[j] = Append(q, e)[i]
BY DEF Once

LEMMA ClosedTyped ==
    ASSUME NEW r \in Requests
    PROVE  [r EXCEPT !.open = FALSE] \in Requests
BY DEF Requests

LEMMA InitOwnInv == Init => OwnInv
<1> SUFFICES ASSUME Init PROVE OwnInv
  OBVIOUS
<1> DEFINE T == CHOOSE tab \in Tabs : TRUE
<1>1. T \in Tabs
  BY ConnectionsAssumption
<1>2. /\ queue = <<>>
      /\ connection = [tab \in Tabs |-> None]
      /\ opened = [tab \in Tabs |-> None]
      /\ opener = [o \in Openers |->
            [[tab |-> T, kind |-> "connect", phase |-> "asking", asked |-> 0,
              open |-> FALSE, tables |-> {}] EXCEPT !.phase = "free"]]
  BY DEF Init, Request
<1> HIDE DEF T
<1> DEFINE R == [[tab |-> T, kind |-> "connect", phase |-> "asking", asked |-> 0,
                  open |-> FALSE, tables |-> {}] EXCEPT !.phase = "free"]
<1>3. R \in Requests /\ R.open = FALSE
  BY <1>1 DEF Requests, Kinds, Phases
<1>4. opener = [o \in Openers |-> R]
  BY <1>2
<1> HIDE DEF R
<1>5. Shape
  <2>1. queue \in Seq(Openers)
    BY <1>2
  <2>2. opener \in [Openers -> Requests]
    BY <1>3, <1>4
  <2>3. connection \in [Tabs -> Openers \cup {None}]
    BY <1>2
  <2>4. opened \in [Tabs -> Openers \cup {None}]
    BY <1>2
  <2> QED BY <2>1, <2>2, <2>3, <2>4 DEF Shape
<1>6. \A o \in Openers : ~opener[o].open
  BY <1>3, <1>4
<1> QED
  BY <1>2, <1>5, <1>6
  DEF OwnInv, QueuedOnce, CheckedLeft, Watched, OnlyConnect, ConnectionsOwned

-------------------------------------------------------------------------------
\* A request that no tab watches changes, and may leave the queue.
LEMMA OneChanges ==
    ASSUME OwnInv, NEW o \in Openers, NEW r \in Requests,
           r.tab = opener[o].tab,
           r.open => r.kind = "connect" /\ r.phase = "checking",
           \A tab \in Tabs : opened[tab] # o,
           opener' = [opener EXCEPT ![o] = r],
           \/ queue' = queue
           \/ queue # <<>> /\ o = Head(queue) /\ queue' = Tail(queue),
           r.phase = "checking" => \A i \in DOMAIN queue' : queue'[i] # o,
           \A tab \in Tabs : \/ connection'[tab] = connection[tab]
                             \/ connection'[tab] = None /\ connection[tab] = o,
           connection' \in [Tabs -> Openers \cup {None}],
           opened' = opened
    PROVE  OwnInv'
<1> USE DEF OwnInv
<1>1. /\ queue' \in Seq(Openers)
      /\ Once(queue')
      /\ \A i \in DOMAIN queue' : \E j \in DOMAIN queue : queue[j] = queue'[i]
  <2>1. queue \in Seq(Openers) /\ Once(queue)
    BY DEF Shape, QueuedOnce, Once
  <2>2. CASE queue' = queue
    BY <2>1, <2>2
  <2>3. CASE queue # <<>> /\ o = Head(queue) /\ queue' = Tail(queue)
    BY <2>1, <2>3, TailOnce
  <2> QED BY <2>2, <2>3
<1>2. Shape'
  BY <1>1 DEF Shape
<1>3. QueuedOnce'
  BY <1>1 DEF QueuedOnce, Once
<1>4. \A p \in Openers : opener'[p] = IF p = o THEN r ELSE opener[p]
  BY DEF Shape
<1>5. CheckedLeft'
  <2> SUFFICES ASSUME NEW i \in DOMAIN queue'
               PROVE  /\ opener'[queue'[i]].phase # "checking"
                      /\ \A tab \in Tabs : opened[tab] # queue'[i]
    BY DEF CheckedLeft
  <2>1. PICK j \in DOMAIN queue : queue[j] = queue'[i]
    BY <1>1
  <2>2. queue[j] \in Openers
    BY DEF Shape
  <2> QED BY <1>4, <2>1, <2>2 DEF CheckedLeft
<1>6. Watched'
  <2> SUFFICES ASSUME NEW tab \in Tabs
               PROVE  /\ connection'[tab] # None => opener'[connection'[tab]].tab = tab
                      /\ opened[tab] # None =>
                            /\ opened[tab] = connection'[tab]
                            /\ opener'[opened[tab]].phase = "resolved"
    BY DEF Watched
  <2>1. connection[tab] \in Openers \cup {None} /\ opened[tab] \in Openers \cup {None}
    BY DEF Shape
  <2> QED BY <1>4, <2>1 DEF Watched
<1>7. OnlyConnect' /\ ConnectionsOwned'
  <2> SUFFICES ASSUME NEW p \in Openers, opener'[p].open
               PROVE  /\ opener'[p].kind = "connect"
                      /\ \/ opener'[p].phase = "checking"
                         \/ /\ opener'[p].phase = "resolved"
                            /\ connection'[opener'[p].tab] = p
                            /\ opened[opener'[p].tab] = p
    BY DEF OnlyConnect, ConnectionsOwned
  <2>1. opener[p].tab \in Tabs
    BY DEF Shape, Requests
  <2> QED BY <1>4, <2>1 DEF OnlyConnect, ConnectionsOwned
<1> QED BY <1>2, <1>3, <1>5, <1>6, <1>7

\* A tab releases its connection, and may make a request with a free opener.
LEMMA TabReleases ==
    ASSUME OwnInv, NEW tab \in Tabs, NEW requests,
           requests = (IF opened[tab] = None THEN opener
                       ELSE [opener EXCEPT ![opened[tab]].open = FALSE]),
           connection' = [connection EXCEPT ![tab] = None],
           opened' = [opened EXCEPT ![tab] = None],
           queue' = queue,
           \/ opener' = requests
           \/ \E o \in Openers, kind \in Kinds, tables \in SUBSET Tables :
                Free(o) /\ opener' = [requests EXCEPT ![o] = Request(tab, kind, tables)]
    PROVE  OwnInv'
<1> USE DEF OwnInv
<1>1. /\ requests \in [Openers -> Requests]
      /\ \A p \in Openers :
            /\ requests[p] = IF p = opened[tab] THEN [opener[p] EXCEPT !.open = FALSE]
                                                ELSE opener[p]
  <2>1. opened[tab] \in Openers \cup {None}
    BY DEF Shape
  <2>2. CASE opened[tab] = None
    BY <2>2, ConnectionsAssumption DEF Shape
  <2>3. CASE opened[tab] \in Openers
    <3>1. [opener[opened[tab]] EXCEPT !.open = FALSE] \in Requests
      BY <2>3, ClosedTyped DEF Shape
    <3> QED BY <2>3, <3>1, ConnectionsAssumption DEF Shape
  <2> QED BY <2>1, <2>2, <2>3
<1>2. \A p \in Openers :
        /\ requests[p].tab = opener[p].tab
        /\ requests[p].kind = opener[p].kind
        /\ requests[p].phase = opener[p].phase
        /\ requests[p].open <=> opener[p].open /\ p # opened[tab]
  BY <1>1 DEF Shape, Requests
<1> HIDE DEF OwnInv
<1>3. PICK fresh \in SUBSET Openers :
        /\ \A p \in fresh : Free(p)
        /\ \A p \in Openers \ fresh : opener'[p] = requests[p]
        /\ \A p \in fresh : /\ opener'[p] \in Requests /\ ~opener'[p].open
                            /\ opener'[p].phase = "asking"
        /\ opener' \in [Openers -> Requests]
  <2>1. CASE opener' = requests
    <3>1. {} \in SUBSET Openers
      OBVIOUS
    <3> QED BY <1>1, <2>1, <3>1
  <2>2. ASSUME NEW o \in Openers, NEW kind \in Kinds, NEW tables \in SUBSET Tables,
               Free(o), opener' = [requests EXCEPT ![o] = Request(tab, kind, tables)]
        PROVE  \E fresh \in SUBSET Openers :
                /\ \A p \in fresh : Free(p)
                /\ \A p \in Openers \ fresh : opener'[p] = requests[p]
                /\ \A p \in fresh : /\ opener'[p] \in Requests /\ ~opener'[p].open
                                    /\ opener'[p].phase = "asking"
                /\ opener' \in [Openers -> Requests]
    <3> DEFINE r == Request(tab, kind, tables)
    <3>1. r \in Requests /\ ~r.open /\ r.phase = "asking"
      BY DEF Request, Requests, Phases
    <3> HIDE DEF r
    <3>2. opener' \in [Openers -> Requests]
      BY <1>1, <2>2, <3>1 DEF r
    <3>3. \A p \in Openers : opener'[p] = IF p = o THEN r ELSE requests[p]
      BY <1>1, <2>2 DEF r
    <3>4. {o} \in SUBSET Openers
      OBVIOUS
    <3>5. /\ \A p \in {o} : Free(p)
          /\ \A p \in Openers \ {o} : opener'[p] = requests[p]
          /\ \A p \in {o} : /\ opener'[p] \in Requests /\ ~opener'[p].open
                            /\ opener'[p].phase = "asking"
      BY <2>2, <3>1, <3>3
    <3> QED BY <3>2, <3>4, <3>5
  <2> QED BY <2>1, <2>2
<1>4. \A p \in fresh :
        /\ \A i \in DOMAIN queue : queue[i] # p
        /\ \A t \in Tabs : connection[t] # p /\ opened[t] # p
  BY <1>3 DEF Free, InQueue
<1>5. Shape'
  BY <1>3 DEF Shape, OwnInv
<1>6. QueuedOnce'
  BY DEF QueuedOnce, OwnInv
<1>7. \A t \in Tabs : /\ connection'[t] = IF t = tab THEN None ELSE connection[t]
                     /\ opened'[t] = IF t = tab THEN None ELSE opened[t]
  BY DEF OwnInv, Shape
<1>8. CheckedLeft'
  <2> SUFFICES ASSUME NEW i \in DOMAIN queue
               PROVE  /\ opener'[queue[i]].phase # "checking"
                      /\ \A t \in Tabs : opened'[t] # queue[i]
    BY DEF CheckedLeft
  <2>1. queue[i] \in Openers
    BY DEF Shape, OwnInv
  <2>2. queue[i] # None
    BY <2>1, ConnectionsAssumption
  <2> QED BY <1>2, <1>3, <1>4, <1>7, <2>1, <2>2 DEF CheckedLeft, OwnInv
<1>9. Watched'
  <2> SUFFICES ASSUME NEW t \in Tabs, t # tab
               PROVE  /\ connection[t] # None => opener'[connection[t]].tab = t
                      /\ opened[t] # None =>
                            /\ opened[t] = connection[t]
                            /\ opener'[opened[t]].phase = "resolved"
    BY <1>7 DEF Watched
  <2>1. connection[t] \in Openers \cup {None} /\ opened[t] \in Openers \cup {None}
    BY DEF Shape, OwnInv
  <2> QED BY <1>2, <1>3, <1>4, <2>1 DEF Watched, OwnInv
<1>10. OnlyConnect' /\ ConnectionsOwned'
  <2> SUFFICES ASSUME NEW p \in Openers, opener'[p].open
               PROVE  /\ opener'[p].kind = "connect"
                      /\ \/ opener'[p].phase = "checking"
                         \/ /\ opener'[p].phase = "resolved"
                            /\ connection'[opener'[p].tab] = p
                            /\ opened'[opener'[p].tab] = p
    BY DEF OnlyConnect, ConnectionsOwned
  <2>1. p \notin fresh /\ opener[p].open /\ p # opened[tab]
    BY <1>2, <1>3
  <2>2. opener[p].tab \in Tabs
    BY DEF Shape, Requests, OwnInv
  <2>3. opener'[p] = requests[p]
    BY <1>3, <2>1
  <2> QED BY <1>2, <1>7, <2>1, <2>2, <2>3 DEF OnlyConnect, ConnectionsOwned, OwnInv
<1> QED BY <1>5, <1>6, <1>8, <1>9, <1>10 DEF OwnInv

\* A call finds the connection of its tab, or starts an attempt.
LEMMA CallAwaits ==
    ASSUME OwnInv, NEW c \in Calls, AwaitConnection(c), UNCHANGED queue
    PROVE  OwnInv'
<1> DEFINE tab == TabOf[c]
<1>1. tab \in Tabs
  BY ConnectionsAssumption
<1>2. CASE UNCHANGED <<opener, tabs>>
  BY <1>2 DEF tabs, OwnInv, Shape, QueuedOnce, CheckedLeft, Watched, OnlyConnect,
              ConnectionsOwned
<1>3. CASE /\ connection[tab] = None
           /\ \E o \in Openers :
                /\ Ask(o, Request(tab, "connect", {}), opener)
                /\ connection' = [connection EXCEPT ![tab] = o]
           /\ UNCHANGED <<declared, opened>>
  <2>1. PICK o \in Openers :
            /\ Free(o)
            /\ opener' = [opener EXCEPT ![o] = Request(tab, "connect", {})]
            /\ connection' = [connection EXCEPT ![tab] = o]
    BY <1>3 DEF Ask
  <2> DEFINE r == Request(tab, "connect", {})
  <2>2. r \in Requests /\ ~r.open /\ r.phase = "asking" /\ r.tab = tab
    BY <1>1 DEF Request, Requests, Kinds, Phases
  <2> HIDE DEF r
  <2>3. \A p \in Openers : opener'[p] = IF p = o THEN r ELSE opener[p]
    BY <2>1 DEF OwnInv, Shape, r
  <2>4. /\ \A i \in DOMAIN queue : queue[i] # o
        /\ \A t \in Tabs : connection[t] # o /\ opened[t] # o
    BY <2>1 DEF Free, InQueue
  <2>5. Shape'
    BY <1>1, <1>3, <2>1, <2>2 DEF OwnInv, Shape, r
  <2>6. \A t \in Tabs : connection'[t] = IF t = tab THEN o ELSE connection[t]
    BY <2>1 DEF OwnInv, Shape
  <2>7. QueuedOnce'
    BY DEF OwnInv, QueuedOnce
  <2>8. CheckedLeft'
    <3> SUFFICES ASSUME NEW i \in DOMAIN queue
                 PROVE  /\ opener'[queue[i]].phase # "checking"
                        /\ \A t \in Tabs : opened[t] # queue[i]
      BY <1>3 DEF CheckedLeft
    <3>1. queue[i] \in Openers
      BY DEF Shape, OwnInv
    <3> QED BY <2>3, <2>4, <3>1 DEF OwnInv, CheckedLeft
  <2>9. Watched'
    <3> SUFFICES ASSUME NEW t \in Tabs
                 PROVE  /\ connection'[t] # None => opener'[connection'[t]].tab = t
                        /\ opened[t] # None =>
                              /\ opened[t] = connection'[t]
                              /\ opener'[opened[t]].phase = "resolved"
      BY <1>3 DEF Watched
    <3>1. connection[t] \in Openers \cup {None} /\ opened[t] \in Openers \cup {None}
      BY DEF Shape, OwnInv
    <3>2. connection[t] = None => opened[t] = None
      BY DEF Watched, OwnInv
    <3> HIDE DEF tab
    <3> QED BY <1>3, <2>2, <2>3, <2>4, <2>6, <3>1, <3>2 DEF OwnInv, Watched
  <2>10. OnlyConnect' /\ ConnectionsOwned'
    <3> SUFFICES ASSUME NEW p \in Openers, opener'[p].open
                 PROVE  /\ opener'[p].kind = "connect"
                        /\ \/ opener'[p].phase = "checking"
                           \/ /\ opener'[p].phase = "resolved"
                              /\ connection'[opener'[p].tab] = p
                              /\ opened[opener'[p].tab] = p
      BY <1>3 DEF OnlyConnect, ConnectionsOwned
    <3>1. p # o /\ opener'[p] = opener[p]
      BY <2>2, <2>3
    <3>2. opener[p].tab \in Tabs /\ p # None
      BY ConnectionsAssumption DEF Shape, Requests, OwnInv
    <3> HIDE DEF tab
    <3> QED BY <1>3, <2>6, <3>1, <3>2 DEF OnlyConnect, ConnectionsOwned, OwnInv
  <2> QED BY <2>5, <2>7, <2>8, <2>9, <2>10 DEF OwnInv
<1> QED BY <1>2, <1>3 DEF AwaitConnection

LEMMA SameOwnInv ==
    ASSUME OwnInv, UNCHANGED <<queue, opener, connection, opened>>
    PROVE  OwnInv'
BY DEF OwnInv, Shape, QueuedOnce, CheckedLeft, Watched, OnlyConnect, ConnectionsOwned

\* The first request of the queue is of no use to anybody yet.
LEMMA FirstUnused ==
    ASSUME OwnInv, queue # <<>>, NEW o, o = Head(queue)
    PROVE  /\ o \in Openers
           /\ \A tab \in Tabs : opened[tab] # o
           /\ \A i \in DOMAIN Tail(queue) : Tail(queue)[i] # o
<1>1. queue \in Seq(Openers) /\ Once(queue)
  BY DEF OwnInv, Shape, QueuedOnce, Once
<1> QED BY <1>1, TailOnce DEF OwnInv, CheckedLeft

LEMMA FirstNotOpen ==
    ASSUME OwnInv, queue # <<>>, NEW o, o = Head(queue)
    PROVE  ~opener[o].open
<1>1. queue \in Seq(Openers) /\ 1 \in DOMAIN queue /\ queue[1] = o
  BY DEF OwnInv, Shape
<1>2. o \in Openers /\ opener[o].tab \in Tabs
  BY <1>1 DEF OwnInv, Shape, Requests
<1> QED BY <1>1, <1>2 DEF OwnInv, CheckedLeft, ConnectionsOwned

\* Serving it keeps the invariant: what becomes of the request is r.
LEMMA ServeOwnInv ==
    ASSUME OwnInv, NEW o \in Openers, Serve(o), Served, NEW r \in Requests,
           r.tab = opener[o].tab,
           r.open => r.kind = "connect" /\ r.phase = "checking",
           opener' = [opener EXCEPT ![o] = r],
           \A tab \in Tabs : \/ connection'[tab] = connection[tab]
                             \/ connection'[tab] = None /\ connection[tab] = o,
           connection' \in [Tabs -> Openers \cup {None}],
           opened' = opened
    PROVE  OwnInv'
<1>1. queue # <<>> /\ o = Head(queue) /\ queue' = Tail(queue)
  BY DEF Serve, First, Served
<1>2. /\ \A tab \in Tabs : opened[tab] # o
      /\ \A i \in DOMAIN queue' : queue'[i] # o
  BY <1>1, FirstUnused
<1> QED BY <1>1, <1>2, OneChanges

\* A rejected attempt.
LEMMA RejectedOwnInv ==
    ASSUME OwnInv, NEW o \in Openers, Rejected(o),
           \A tab \in Tabs : opened[tab] # o,
           \/ queue' = queue
           \/ queue # <<>> /\ o = Head(queue) /\ queue' = Tail(queue)
    PROVE  OwnInv'
<1> DEFINE r == [opener[o] EXCEPT !.phase = "rejected", !.open = FALSE]
<1>1. opener[o] \in Requests /\ opener \in [Openers -> Requests]
  BY DEF OwnInv, Shape
<1>2. r \in Requests /\ r.tab = opener[o].tab /\ ~r.open /\ r.phase = "rejected"
  BY <1>1 DEF Requests, Phases
<1>3. opener' = [opener EXCEPT ![o] = r]
  BY <1>1 DEF Rejected
<1> HIDE DEF r
<1>4. opener[o].tab \in Tabs
  BY <1>1 DEF Requests
<1>5. /\ connection' \in [Tabs -> Openers \cup {None}]
      /\ \A tab \in Tabs : \/ connection'[tab] = connection[tab]
                           \/ connection'[tab] = None /\ connection[tab] = o
  BY <1>4 DEF Rejected, OwnInv, Shape
<1>6. opened' = opened
  BY DEF Rejected
<1> QED BY <1>2, <1>3, <1>5, <1>6, OneChanges

LEMMA NextOwnInv == OwnInv /\ Plain /\ [Next]_vars => OwnInv'
<1> SUFFICES ASSUME OwnInv, Plain, [Next]_vars PROVE OwnInv'
  OBVIOUS
<1>0. /\ opener \in [Openers -> Requests]
      /\ \A o \in Openers : opener[o] \in Requests /\ opener[o].tab \in Tabs
      /\ connection \in [Tabs -> Openers \cup {None}]
      /\ \A o \in Openers : opener[o].open => opener[o].kind = "connect"
  BY DEF OwnInv, Shape, Requests, OnlyConnect
<1>1. ASSUME NEW c \in Calls, Call(c) \/ CallStartsAgain(c)
      PROVE  OwnInv'
  BY <1>1, CallAwaits DEF Call, CallStartsAgain, browser
<1>2. ASSUME NEW c \in Calls, CallFails(c) \/ CallWorks(c) \/ Finish(c)
      PROVE  OwnInv'
  BY <1>2, SameOwnInv DEF CallFails, CallWorks, Finish, browser, tabs
<1>3. ASSUME NEW c \in Calls, CallReleases(c)
      PROVE  OwnInv'
  BY <1>3, TabReleases, ConnectionsAssumption DEF CallReleases, Release, browser
<1>4. ASSUME NEW tab \in Tabs, Close(tab)
      PROVE  OwnInv'
  BY <1>4, TabReleases DEF Close, Release, browser
<1>5. ASSUME NEW tab \in Tabs, NEW kind \in Kinds, NEW tables \in SUBSET Tables,
             Removal(tab, Request(tab, kind, tables))
      PROVE  OwnInv'
  <2> DEFINE requests == IF opened[tab] = None THEN opener
                         ELSE [opener EXCEPT ![opened[tab]].open = FALSE]
  <2>1. \E o \in Openers :
            Free(o) /\ opener' = [requests EXCEPT ![o] = Request(tab, kind, tables)]
    BY <1>5 DEF Removal, Ask
  <2>2. /\ connection' = [connection EXCEPT ![tab] = None]
        /\ opened' = [opened EXCEPT ![tab] = None]
        /\ queue' = queue
    BY <1>5 DEF Removal, browser
  <2> HIDE DEF requests
  <2>3. requests = IF opened[tab] = None THEN opener
                   ELSE [opener EXCEPT ![opened[tab]].open = FALSE]
    BY DEF requests
  <2>4. PICK o \in Openers :
            Free(o) /\ opener' = [requests EXCEPT ![o] = Request(tab, kind, tables)]
    BY <2>1
  <2> QED BY <2>2, <2>3, <2>4, TabReleases
<1>6. ASSUME NEW tab \in Tabs, NEW table \in Tables, Drop(tab, table)
      PROVE  OwnInv'
  BY <1>5, <1>6 DEF Drop, Kinds
<1>7. ASSUME NEW tab \in Tabs, DeleteDatabase(tab)
      PROVE  OwnInv'
  BY <1>5, <1>7 DEF DeleteDatabase, Kinds
<1>8. ASSUME NEW tab \in Tabs, NEW table \in Tables, Declare(tab, table)
      PROVE  OwnInv'
  BY <1>8, SameOwnInv DEF Declare, browser
<1>9. ASSUME NEW o \in Openers, Arrive(o)
      PROVE  OwnInv'
  <2>1. /\ queue \in Seq(Openers) /\ Once(queue)
        /\ \A i \in DOMAIN queue : queue[i] # o
    BY <1>9 DEF OwnInv, Shape, QueuedOnce, Once, Arrive, InQueue
  <2>2. /\ queue' \in Seq(Openers) /\ Once(queue')
        /\ \A i \in DOMAIN queue' :
              queue'[i] = o \/ \E j \in DOMAIN queue : queue[j] = queue'[i]
    BY <1>9, <2>1, AppendOnce DEF Arrive
  <2>3. UNCHANGED <<opener, connection, opened>>
    BY <1>9 DEF Arrive, tabs
  <2>4. \A tab \in Tabs : opened[tab] # o
    BY <1>9, ConnectionsAssumption DEF Arrive, OwnInv, Watched
  <2>5. CheckedLeft'
    BY <1>9, <2>2, <2>3, <2>4 DEF OwnInv, CheckedLeft, Arrive
  <2> QED
    BY <2>2, <2>3, <2>5
    DEF OwnInv, Shape, QueuedOnce, Once, Watched, OnlyConnect, ConnectionsOwned
<1>10. ASSUME NEW o \in Openers, OpenSucceeds(o)
       PROVE  OwnInv'
  <2>1. /\ Serve(o) /\ Served
        /\ UNCHANGED <<connection, opened>>
    BY <1>10 DEF OpenSucceeds, tabs
  <2>2. CASE /\ opener[o].kind = "connect"
             /\ opener' = [opener EXCEPT ![o].phase = "checking", ![o].open = TRUE,
                                         ![o].tables = declared[opener[o].tab]]
    <3> DEFINE r == [opener[o] EXCEPT !.phase = "checking", !.open = TRUE,
                                      !.tables = declared[opener[o].tab]]
    <3>1. declared[opener[o].tab] \in SUBSET Tables
      BY <1>0 DEF Plain
    <3>2. r \in Requests /\ r.tab = opener[o].tab /\ r.kind = "connect"
          /\ r.phase = "checking"
      BY <1>0, <2>2, <3>1 DEF Requests, Phases
    <3>3. opener' = [opener EXCEPT ![o] = r]
      BY <1>0, <2>2
    <3> HIDE DEF r
    <3> QED BY <1>0, <2>1, <3>2, <3>3, ServeOwnInv
  <2>3. CASE /\ opener[o].kind = "look"
             /\ opener' = [opener EXCEPT ![o].kind = "drop", ![o].asked = version + 1]
    <3> DEFINE r == [opener[o] EXCEPT !.kind = "drop", !.asked = version + 1]
    <3>1. r \in Requests /\ r.tab = opener[o].tab /\ ~r.open
      <4>1. version + 1 \in Nat /\ ~opener[o].open
        BY <1>0, <2>3 DEF Plain
      <4>2. opener[o] \in Requests
        BY <1>0
      <4> QED BY <4>1, <4>2 DEF Requests, Kinds
    <3>2. opener' = [opener EXCEPT ![o] = r]
      BY <1>0, <2>3
    <3> HIDE DEF r
    <3> QED BY <1>0, <2>1, <3>1, <3>2, ServeOwnInv
  <2>4. CASE /\ opener[o].kind # "connect"
             /\ opener' = [opener EXCEPT ![o].phase = "resolved"]
    <3> DEFINE r == [opener[o] EXCEPT !.phase = "resolved"]
    <3>1. r \in Requests /\ r.tab = opener[o].tab /\ ~r.open
      <4>1. opener[o] \in Requests /\ ~opener[o].open
        BY <1>0, <2>4
      <4> QED BY <4>1 DEF Requests, Phases
    <3>2. opener' = [opener EXCEPT ![o] = r]
      BY <1>0, <2>4
    <3> HIDE DEF r
    <3> QED BY <1>0, <2>1, <3>1, <3>2, ServeOwnInv
  <2> QED BY <1>10, <2>2, <2>3, <2>4 DEF OpenSucceeds
<1>11. ASSUME NEW o \in Openers, VersionError(o)
       PROVE  OwnInv'
  <2>1. Serve(o) /\ Served /\ queue # <<>> /\ o = Head(queue) /\ queue' = Tail(queue)
    BY <1>11 DEF VersionError, Serve, Served, First
  <2>2. \A tab \in Tabs : opened[tab] # o
    BY <2>1, FirstUnused
  <2>3. CASE Rejected(o)
    BY <2>1, <2>2, <2>3, RejectedOwnInv
  <2>4. CASE /\ opener' = [opener EXCEPT ![o].asked = 0]
             /\ UNCHANGED tabs
    <3> DEFINE r == [opener[o] EXCEPT !.asked = 0]
    <3>1. r \in Requests /\ r.tab = opener[o].tab /\ r.open = opener[o].open
          /\ r.phase = opener[o].phase
      BY <1>0 DEF Requests
    <3>2. opener' = [opener EXCEPT ![o] = r]
      BY <1>0, <2>4
    <3>3. ~opener[o].open
      BY <2>1, <2>2, FirstNotOpen
    <3> HIDE DEF r
    <3> QED BY <1>0, <2>1, <2>4, <3>1, <3>2, <3>3, ServeOwnInv DEF tabs
  <2> QED BY <1>11, <2>3, <2>4 DEF VersionError
<1>12. ASSUME NEW o \in Openers, Notify(o)
       PROVE  OwnInv'
  BY <1>12, SameOwnInv DEF Notify, tabs
<1>13. ASSUME NEW o \in Openers, Blocked(o)
       PROVE  OwnInv'
  <2>1. /\ Rejected(o) /\ queue' = queue
        /\ queue # <<>> /\ o = Head(queue)
    BY <1>13 DEF Blocked, Serve, First
  <2> QED BY <2>1, FirstUnused, RejectedOwnInv
<1>14. ASSUME NEW p \in Openers, VersionChange(p)
       PROVE  OwnInv'
  <2>1. Forget(p) /\ queue' = queue
    BY <1>14 DEF VersionChange
  <2>2. CASE opened[opener[p].tab] = p
    <3>1. Release(opener[p].tab) /\ opener[p].tab \in Tabs
      BY <1>0, <2>1, <2>2 DEF Forget
    <3> QED BY <2>1, <3>1, TabReleases DEF Release
  <2>3. CASE opened[opener[p].tab] # p
    <3> DEFINE r == [opener[p] EXCEPT !.open = FALSE]
    <3>1. r \in Requests /\ r.tab = opener[p].tab /\ ~r.open /\ r.phase = opener[p].phase
      BY <1>0, ClosedTyped DEF Requests
    <3>2. opener' = [opener EXCEPT ![p] = r] /\ UNCHANGED <<connection, opened>>
      BY <1>0, <2>1, <2>3 DEF Forget
    <3>3. \A tab \in Tabs : opened[tab] # p
      <4> SUFFICES ASSUME NEW tab \in Tabs, opened[tab] = p
                   PROVE  FALSE
        OBVIOUS
      <4>1. p # None
        BY ConnectionsAssumption
      <4>2. connection[tab] = p /\ opener[p].tab = tab
        BY <4>1 DEF OwnInv, Watched
      <4> QED BY <2>3, <4>2
    <3>4. r.phase = "checking" => \A i \in DOMAIN queue : queue[i] # p
      BY <3>1 DEF OwnInv, CheckedLeft
    <3> HIDE DEF r
    <3> QED BY <1>0, <2>1, <3>1, <3>2, <3>3, <3>4, OneChanges
  <2> QED BY <2>2, <2>3
<1>15. ASSUME NEW o \in Openers, Upgrade(o)
       PROVE  OwnInv'
  <2> DEFINE wanted == declared[opener[o].tab]
  <2>1. /\ Serve(o) /\ Served /\ queue # <<>> /\ o = Head(queue)
        /\ queue' = Tail(queue) /\ opener[o].kind = "connect"
    BY <1>15 DEF Upgrade, Exclusive, Serve, Served, First
  <2>2. CASE Rejected(o)
    BY <2>1, <2>2, FirstUnused, RejectedOwnInv
  <2>3. CASE /\ opener' = [opener EXCEPT
                            ![o].phase  = IF stage = "blocked" THEN @ ELSE "checking",
                            ![o].open   = StaysOpen,
                            ![o].tables = wanted]
             /\ UNCHANGED tabs
    <3>1. wanted \in SUBSET Tables
      BY <1>0 DEF Plain
    <3> HIDE DEF wanted
    <3> DEFINE r == [opener[o] EXCEPT
                        !.phase  = IF stage = "blocked" THEN @ ELSE "checking",
                        !.open   = StaysOpen,
                        !.tables = wanted]
    <3>2. StaysOpen \in BOOLEAN
      BY DEF StaysOpen
    <3>3. r \in Requests /\ r.tab = opener[o].tab /\ r.kind = "connect"
      BY <1>0, <2>1, <3>1, <3>2 DEF Requests, Phases
    <3>4. r.open => r.phase = "checking"
      BY <1>0, <3>1 DEF Requests, StaysOpen
    <3>5. opener' = [opener EXCEPT ![o] = r]
      BY <1>0, <2>3
    <3> HIDE DEF r
    <3> QED BY <1>0, <2>1, <2>3, <3>3, <3>4, <3>5, ServeOwnInv, ZenonT(40) DEF tabs
  <2> QED BY <1>15, <2>2, <2>3 DEF Upgrade
<1>16. ASSUME NEW o \in Openers, NEW phase \in Phases, Serve(o), Served,
              opener' = [opener EXCEPT ![o].phase = phase], UNCHANGED tabs
       PROVE  OwnInv'
  <2> DEFINE r == [opener[o] EXCEPT !.phase = phase]
  <2>1. ~opener[o].open
    BY <1>16, FirstNotOpen DEF Serve, First
  <2>2. r \in Requests /\ r.tab = opener[o].tab /\ ~r.open
    BY <1>0, <2>1 DEF Requests
  <2>3. opener' = [opener EXCEPT ![o] = r]
    BY <1>0, <1>16
  <2> HIDE DEF r
  <2> QED BY <1>0, <1>16, <2>2, <2>3, ServeOwnInv DEF tabs
<1>17. ASSUME NEW o \in Openers, DropUpgrade(o) \/ DeleteUpgrade(o)
       PROVE  OwnInv'
  <2>1. Serve(o) /\ Served /\ UNCHANGED tabs
    BY <1>17 DEF DropUpgrade, DeleteUpgrade, Exclusive
  <2>2. \E phase \in Phases : opener' = [opener EXCEPT ![o].phase = phase]
    <3>1. opener[o].phase \in Phases
      BY <1>0 DEF Requests
    <3>2. CASE DropUpgrade(o)
      <4> DEFINE phase == IF opener[o].phase = "rejected"
                             \/ DropAborts(o)
                          THEN "rejected" ELSE "resolved"
      <4>1. opener' = [opener EXCEPT ![o].phase = phase]
        BY <3>2 DEF DropUpgrade
      <4>2. phase \in Phases
        BY DEF Phases
      <4> QED BY <4>1, <4>2
    <3>3. CASE DeleteUpgrade(o)
      <4> DEFINE phase == IF opener[o].phase = "asking" THEN "resolved"
                                                        ELSE opener[o].phase
      <4>1. opener' = [opener EXCEPT ![o].phase = phase]
        BY <3>3 DEF DeleteUpgrade
      <4>2. phase \in Phases
        BY <3>1 DEF Phases
      <4> QED BY <4>1, <4>2
    <3> QED BY <1>17, <3>2, <3>3
  <2> QED BY <1>16, <2>1, <2>2
<1>18. ASSUME NEW o \in Openers, Check(o)
       PROVE  /\ \A i \in DOMAIN queue : queue[i] # o
              /\ \A tab \in Tabs : opened[tab] # o
  BY <1>18, ConnectionsAssumption DEF Check, OwnInv, CheckedLeft, Watched
<1>19. ASSUME NEW o \in Openers, CheckFindsWork(o)
       PROVE  OwnInv'
  <2> DEFINE r == [opener[o] EXCEPT !.phase = "asking", !.open = FALSE,
                                    !.asked = version + 1]
  <2>1. version + 1 \in Nat
    BY DEF Plain
  <2>2. r \in Requests /\ r.tab = opener[o].tab /\ ~r.open /\ r.phase = "asking"
    BY <1>0, <2>1 DEF Requests, Phases
  <2>3. opener' = [opener EXCEPT ![o] = r]
    BY <1>0, <1>19 DEF CheckFindsWork
  <2> HIDE DEF r
  <2>4. UNCHANGED <<queue, connection, opened>> /\ Check(o)
    BY <1>19 DEF CheckFindsWork, browser, tabs
  <2> QED BY <1>0, <1>18, <2>2, <2>3, <2>4, OneChanges
<1>20. ASSUME NEW o \in Openers, CheckFails(o)
       PROVE  OwnInv'
  BY <1>18, <1>20, RejectedOwnInv DEF CheckFails, browser
<1>21. ASSUME NEW o \in Openers, CheckPasses(o)
       PROVE  OwnInv'
  <2> DEFINE tab == opener[o].tab
  <2>1. /\ Check(o) /\ UNCHANGED <<queue, connection>>
        /\ tab \in Tabs
    BY <1>0, <1>21 DEF CheckPasses, browser
  <2>2. CASE ClosesOrphan(o) /\ UNCHANGED opened
    <3> DEFINE r == [opener[o] EXCEPT !.phase = "resolved", !.open = FALSE]
    <3>1. r \in Requests /\ r.tab = tab /\ ~r.open /\ r.phase = "resolved"
      BY <1>0 DEF Requests, Phases
    <3>2. opener' = [opener EXCEPT ![o] = r]
      BY <1>0, <2>2 DEF ClosesOrphan
    <3> HIDE DEF r
    <3> QED BY <1>0, <1>18, <2>1, <2>2, <3>1, <3>2, OneChanges
  <2>3. CASE /\ connection[tab] = o
             /\ opener' = [opener EXCEPT ![o].phase = "resolved"]
             /\ opened' = [opened EXCEPT ![tab] = o]
    <3> DEFINE r == [opener[o] EXCEPT !.phase = "resolved"]
    <3>1. /\ r \in Requests /\ r.tab = tab /\ r.phase = "resolved"
          /\ r.open = opener[o].open /\ r.kind = opener[o].kind
      BY <1>0 DEF Requests, Phases
    <3>2. opener' = [opener EXCEPT ![o] = r]
      BY <1>0, <2>3
    <3> HIDE DEF r, tab
    <3>3. \A p \in Openers : opener'[p] = IF p = o THEN r ELSE opener[p]
      BY <1>0, <3>2
    <3>4. \A t \in Tabs : opened'[t] = IF t = tab THEN o ELSE opened[t]
      BY <2>3 DEF OwnInv, Shape
    <3>5. Shape' /\ QueuedOnce'
      BY <2>1, <2>3, <3>1, <3>2 DEF OwnInv, Shape, QueuedOnce
    <3>6. CheckedLeft'
      <4> SUFFICES ASSUME NEW i \in DOMAIN queue
                   PROVE  /\ opener'[queue[i]].phase # "checking"
                          /\ \A t \in Tabs : opened'[t] # queue[i]
        BY <2>1 DEF CheckedLeft
      <4>1. queue[i] \in Openers
        BY DEF OwnInv, Shape
      <4> QED BY <1>18, <2>1, <3>3, <3>4, <4>1 DEF OwnInv, CheckedLeft
    <3>7. Watched'
      <4> SUFFICES ASSUME NEW t \in Tabs
                   PROVE  /\ connection[t] # None => opener'[connection[t]].tab = t
                          /\ opened'[t] # None =>
                                /\ opened'[t] = connection[t]
                                /\ opener'[opened'[t]].phase = "resolved"
        BY <2>1 DEF Watched
      <4>1. connection[t] \in Openers \cup {None} /\ opened[t] \in Openers \cup {None}
        BY DEF Shape, OwnInv
      <4>2. r.tab = opener[o].tab
        BY <3>1 DEF tab
      <4> QED BY <2>3, <3>1, <3>3, <3>4, <4>1, <4>2 DEF OwnInv, Watched
    <3>8. OnlyConnect' /\ ConnectionsOwned'
      <4> SUFFICES ASSUME NEW p \in Openers, opener'[p].open
                   PROVE  /\ opener'[p].kind = "connect"
                          /\ \/ opener'[p].phase = "checking"
                             \/ /\ opener'[p].phase = "resolved"
                                /\ connection[opener'[p].tab] = p
                                /\ opened'[opener'[p].tab] = p
        BY <2>1 DEF OnlyConnect, ConnectionsOwned
      <4>1. CASE p = o
        BY <1>0, <2>1, <2>3, <3>1, <3>3, <3>4, <4>1, ZenonT(40)
      <4>2. CASE p # o
        <5>1. opener'[p] = opener[p] /\ opener[p].tab \in Tabs
          BY <1>0, <3>3, <4>2
        <5> QED BY <2>3, <3>4, <4>2, <5>1 DEF OwnInv, OnlyConnect, ConnectionsOwned
      <4> QED BY <4>1, <4>2
    <3> QED BY <3>5, <3>6, <3>7, <3>8 DEF OwnInv
  <2> QED BY <1>21, <2>2, <2>3 DEF CheckPasses
<1>22. CASE UNCHANGED vars
  BY <1>22, SameOwnInv DEF vars, browser, tabs
<1> QED
  BY <1>1, <1>2, <1>3, <1>4, <1>6, <1>7, <1>8, <1>9, <1>10, <1>11, <1>12, <1>13, <1>14,
     <1>15, <1>17, <1>19, <1>20, <1>21, <1>22
  DEF Next, Run, ServeFirst, Pend

LEMMA InitPlain == Init => Plain
BY ConnectionsAssumption DEF Init, Plain

LEMMA NextPlain == OwnInv /\ Plain /\ [Next]_vars => Plain'
<1> SUFFICES ASSUME OwnInv, Plain, [Next]_vars PROVE Plain'
  OBVIOUS
<1>1. CASE UNCHANGED <<version, declared>>
  BY <1>1 DEF Plain
<1>2. ASSUME NEW o \in Openers, Exclusive(o)
      PROVE  Target \in Nat
  <2>1. First \in Openers
    BY <1>2, FirstUnused DEF Exclusive, Serve, First
  <2> QED BY <2>1 DEF Target, Plain, OwnInv, Shape, Requests
<1>3. ASSUME NEW o \in Openers, Upgrade(o) \/ DropUpgrade(o) \/ DeleteUpgrade(o)
      PROVE  Plain'
  <2>1. declared' = declared
    BY <1>3 DEF Upgrade, DropUpgrade, DeleteUpgrade, Rejected, tabs
  <2>2. version' \in {version, Target, 0}
    BY <1>3 DEF Upgrade, DropUpgrade, DeleteUpgrade
  <2>3. Target \in Nat
    BY <1>2, <1>3 DEF Upgrade, DropUpgrade, DeleteUpgrade
  <2> QED BY <2>1, <2>2, <2>3 DEF Plain
<1>4. ASSUME NEW tab \in Tabs, NEW table \in Tables, Declare(tab, table)
      PROVE  Plain'
  BY <1>4 DEF Declare, Plain, browser
<1>5. ASSUME NEW c \in Calls, Call(c) \/ Run(c)
      PROVE  UNCHANGED <<version, declared>>
  BY <1>5 DEF Call, Run, CallFails, CallStartsAgain, CallReleases, CallWorks, Finish,
              AwaitConnection, browser, tabs
<1>6. ASSUME NEW o \in Openers,
             \/ Arrive(o) \/ OpenSucceeds(o) \/ VersionError(o) \/ Notify(o)
             \/ Blocked(o) \/ VersionChange(o) \/ Pend(o)
      PROVE  UNCHANGED <<version, declared>>
  BY <1>6 DEF Arrive, OpenSucceeds, VersionError, Notify, Blocked, VersionChange, Pend,
              CheckFindsWork, CheckFails, CheckPasses, Rejected, browser, tabs
<1>7. ASSUME NEW tab \in Tabs, NEW table \in Tables,
             Close(tab) \/ DeleteDatabase(tab) \/ Drop(tab, table)
      PROVE  UNCHANGED <<version, declared>>
  BY <1>7 DEF Close, DeleteDatabase, Drop, Removal, browser
<1>8. ASSUME NEW tab \in Tabs, Close(tab) \/ DeleteDatabase(tab)
      PROVE  UNCHANGED <<version, declared>>
  BY <1>8 DEF Close, DeleteDatabase, Removal, browser
<1> QED
  BY <1>1, <1>3, <1>4, <1>5, <1>6, <1>7, <1>8 DEF Next, ServeFirst, vars, browser, tabs

\* No connection is forgotten open, for any tabs, releases, calls and operations.
THEOREM NoConnectionForgotten == Spec => []ConnectionsOwned
<1>1. OwnInv => ConnectionsOwned
  BY DEF OwnInv
<1>2. Init => OwnInv /\ Plain
  BY InitOwnInv, InitPlain
<1>3. (OwnInv /\ Plain) /\ [Next]_vars => (OwnInv /\ Plain)'
  BY NextOwnInv, NextPlain
<1> QED BY <1>1, <1>2, <1>3, PTL DEF Spec

-------------------------------------------------------------------------------
(* Transactions.  What a tab verified fits as long as its connection is open:  *)
(* the stores change only for a request that is alone, and one that waits in   *)
(* the queue has no transaction and is nobody's connection.                    *)

TablesDeclared ==
    \A o \in Openers : opener[o].kind = "connect" =>
        opener[o].tables \subseteq declared[opener[o].tab]

QueuedUnsettled ==
    \A i \in DOMAIN queue : opener[queue[i]].phase \in {"asking", "rejected"}

CallStates == [status : {"idle", "waiting", "working", "done", "failed"},
               on : Openers \cup {None}]

CallsOn ==
    /\ calls \in [Calls -> CallStates]
    /\ \A c \in Calls :
        /\ calls[c].status = "waiting" =>
              calls[c].on \in Openers /\ TableOf[c] \in declared[TabOf[c]]
        /\ calls[c].status = "working" =>
              calls[c].on \in Openers /\ opener[calls[c].on].phase = "resolved"

VerifiedOpened == \A tab \in Tabs : opened[tab] = None => verified[tab] = {}

Fits(tab, table) ==
    /\ ~Mismatch(Definition[tab][table], stores[table])
    /\ ~Pending(Definition[tab][table], stores[table])

VerifiedFits ==
    \A tab \in Tabs : opened[tab] # None /\ opener[opened[tab]].open =>
        \A table \in verified[tab] : Fits(tab, table)

FitInv ==
    /\ TablesDeclared /\ QueuedUnsettled /\ CallsOn /\ VerifiedOpened /\ VerifiedFits
    /\ verified \in [Tabs -> SUBSET Tables]
    /\ WorkingFits

LEMMA InitFit == Init => FitInv
<1> SUFFICES ASSUME Init PROVE FitInv
  OBVIOUS
<1>1. \A o \in Openers : opener[o].tables = {}
  BY DEF Init, Request
<1>2. calls \in [Calls -> CallStates] /\ \A c \in Calls : calls[c].status = "idle"
  <2>1. [status |-> "idle", on |-> None] \in CallStates
    BY DEF CallStates
  <2>2. calls = [c \in Calls |-> [status |-> "idle", on |-> None]]
    BY DEF Init
  <2> QED BY <2>1, <2>2
<1>3. TablesDeclared /\ QueuedUnsettled
  <2>1. TablesDeclared
    BY <1>1 DEF TablesDeclared
  <2>2. queue = <<>>
    BY DEF Init
  <2> QED BY <2>1, <2>2 DEF QueuedUnsettled
<1>4. CallsOn /\ WorkingFits
  <2>1. CallsOn
    BY <1>2 DEF CallsOn
  <2>2. WorkingFits
    BY <1>2 DEF WorkingFits
  <2> QED BY <2>1, <2>2
<1>5. VerifiedOpened /\ VerifiedFits /\ verified \in [Tabs -> SUBSET Tables]
  BY DEF Init, VerifiedOpened, VerifiedFits
<1> QED
  BY <1>3, <1>4, <1>5 DEF FitInv

\* A request that a step leaves as it is, but for the connection it may close.
Kept(p) ==
    /\ opener'[p].tab = opener[p].tab
    /\ opener'[p].kind = opener[p].kind
    /\ opener'[p].phase = opener[p].phase
    /\ opener'[p].asked = opener[p].asked
    /\ opener'[p].tables = opener[p].tables
    /\ opener'[p].open => opener[p].open

\* A request that a tab makes.
New(p) ==
    /\ Free(p)
    /\ opener'[p].phase = "asking"
    /\ opener'[p].asked = 0
    /\ opener'[p].kind # "drop"
    /\ opener'[p].kind = "connect" =>
          opener'[p].tables = {} /\ declared[opener'[p].tab] # {}
    /\ opener'[p].kind = "delete" => "delete" \in Operations

\* What the steps of the tabs have in common, but for a call that begins to work.
TabStep ==
    \/ \E c \in Calls :
        \/ Call(c) \/ CallFails(c) \/ CallStartsAgain(c) \/ CallReleases(c) \/ Finish(c)
    \/ \E p \in Openers : VersionChange(p)
    \/ \E tab \in Tabs :
        \/ Close(tab) \/ DeleteDatabase(tab)
        \/ \E table \in Tables : Declare(tab, table) \/ Drop(tab, table)

TabFrame ==
    /\ UNCHANGED <<version, stores, queue, stage>>
    /\ \A p \in Openers : Kept(p) \/ New(p)
    /\ \A tab \in Tabs : declared[tab] \subseteq declared'[tab]
    /\ calls' \in [Calls -> CallStates]
    /\ \A c \in Calls : \/ calls'[c] = calls[c]
                        \/ calls'[c].status \in {"done", "failed"}
                        \/ /\ calls'[c].status = "waiting" /\ calls'[c].on \in Openers
                           /\ TableOf[c] \in declared[TabOf[c]]
    /\ verified' \in [Tabs -> SUBSET Tables]
    /\ \A tab \in Tabs : \/ verified'[tab] = {}
                         \/ verified'[tab] = verified[tab] /\ opened'[tab] = opened[tab]

\* release closes the connection of the tab, and nothing else.
LEMMA ReleaseKeeps ==
    ASSUME OwnInv, NEW tab \in Tabs
    PROVE  LET requests == IF opened[tab] = None THEN opener
                           ELSE [opener EXCEPT ![opened[tab]].open = FALSE]
           IN  /\ requests \in [Openers -> Requests]
               /\ \A p \in Openers :
                    /\ requests[p].tab = opener[p].tab
                    /\ requests[p].kind = opener[p].kind
                    /\ requests[p].phase = opener[p].phase
                    /\ requests[p].asked = opener[p].asked
                    /\ requests[p].tables = opener[p].tables
                    /\ requests[p].open => opener[p].open
<1>1. opened[tab] \in Openers \cup {None} /\ opener \in [Openers -> Requests]
  BY DEF OwnInv, Shape
<1>2. CASE opened[tab] = None
  BY <1>1, <1>2
<1>3. CASE opened[tab] \in Openers
  <2>1. [opener[opened[tab]] EXCEPT !.open = FALSE] \in Requests
    BY <1>1, <1>3, ClosedTyped
  <2>2. opened[tab] # None
    BY <1>3, ConnectionsAssumption
  <2> QED BY <1>1, <1>3, <2>1, <2>2 DEF Requests
<1> QED BY <1>1, <1>2, <1>3

LEMMA ReleaseFrame ==
    ASSUME OwnInv, FitInv, NEW tab \in Tabs, Release(tab),
           UNCHANGED <<version, stores, queue, stage, declared, calls>>
    PROVE  TabFrame
<1>1. opener' = IF opened[tab] = None THEN opener
                ELSE [opener EXCEPT ![opened[tab]].open = FALSE]
  BY DEF Release
<1>2. \A p \in Openers : Kept(p)
  BY <1>1, ReleaseKeeps DEF Kept
<1>3. /\ verified' = [verified EXCEPT ![tab] = {}]
      /\ opened' = [opened EXCEPT ![tab] = None]
  BY DEF Release
<1>4. /\ verified' \in [Tabs -> SUBSET Tables]
      /\ \A t \in Tabs : \/ verified'[t] = {}
                         \/ verified'[t] = verified[t] /\ opened'[t] = opened[t]
  BY <1>3 DEF FitInv, OwnInv, Shape
<1> QED BY <1>2, <1>4 DEF TabFrame, FitInv, CallsOn

LEMMA AwaitFrame ==
    ASSUME OwnInv, FitInv, NEW c \in Calls, AwaitConnection(c),
           TableOf[c] \in declared[TabOf[c]],
           UNCHANGED browser
    PROVE  TabFrame
<1> DEFINE tab == TabOf[c]
<1>1. tab \in Tabs /\ calls \in [Calls -> CallStates]
  BY ConnectionsAssumption DEF FitInv, CallsOn
<1>2. CASE /\ connection[tab] # None
           /\ calls' = [calls EXCEPT ![c] = [status |-> "waiting", on |-> connection[tab]]]
           /\ UNCHANGED <<opener, tabs>>
  <2>1. connection[tab] \in Openers
    BY <1>1, <1>2 DEF OwnInv, Shape
  <2>2. [status |-> "waiting", on |-> connection[tab]] \in CallStates
    BY <2>1 DEF CallStates
  <2>3. calls' \in [Calls -> CallStates]
    BY <1>1, <1>2, <2>2
  <2>4. \A d \in Calls : \/ calls'[d] = calls[d]
                         \/ /\ calls'[d].status = "waiting" /\ calls'[d].on \in Openers
                            /\ TableOf[d] \in declared[TabOf[d]]
    BY <1>1, <1>2, <2>1
  <2>5. \A p \in Openers : Kept(p)
    BY <1>2 DEF Kept
  <2> QED BY <1>2, <2>3, <2>4, <2>5 DEF TabFrame, browser, tabs, FitInv
<1>3. CASE /\ connection[tab] = None
           /\ \E o \in Openers :
                /\ Ask(o, Request(tab, "connect", {}), opener)
                /\ calls' = [calls EXCEPT ![c] = [status |-> "waiting", on |-> o]]
                /\ connection' = [connection EXCEPT ![tab] = o]
           /\ verified' = [verified EXCEPT ![tab] = {}]
           /\ UNCHANGED <<declared, opened>>
  <2>1. PICK o \in Openers :
            /\ Free(o)
            /\ opener' = [opener EXCEPT ![o] = Request(tab, "connect", {})]
            /\ calls' = [calls EXCEPT ![c] = [status |-> "waiting", on |-> o]]
    BY <1>3 DEF Ask
  <2>2. [status |-> "waiting", on |-> o] \in CallStates
    BY DEF CallStates
  <2>3. calls' \in [Calls -> CallStates]
    BY <1>1, <2>1, <2>2
  <2>4. \A d \in Calls : \/ calls'[d] = calls[d]
                         \/ /\ calls'[d].status = "waiting" /\ calls'[d].on \in Openers
                            /\ TableOf[d] \in declared[TabOf[d]]
    BY <1>1, <2>1
  <2>5. \A p \in Openers : Kept(p) \/ New(p)
    <3>1. \A p \in Openers : p # o => opener'[p] = opener[p]
      BY <2>1 DEF OwnInv, Shape
    <3>2. opener'[o] = Request(tab, "connect", {})
      BY <2>1 DEF OwnInv, Shape
    <3>3. New(o)
      BY <2>1, <3>2 DEF New, Request
    <3> QED BY <3>1, <3>3 DEF Kept
  <2>6. verified' \in [Tabs -> SUBSET Tables]
    BY <1>3 DEF FitInv
  <2>7. \A t \in Tabs : \/ verified'[t] = {}
                        \/ verified'[t] = verified[t] /\ opened'[t] = opened[t]
    BY <1>3 DEF FitInv
  <2> QED BY <1>3, <2>3, <2>4, <2>5, <2>6, <2>7 DEF TabFrame, browser
<1> QED BY <1>2, <1>3 DEF AwaitConnection

LEMMA RemovalFrame ==
    ASSUME OwnInv, FitInv, NEW tab \in Tabs, NEW kind \in Kinds \ {"connect", "drop"},
           NEW tables \in SUBSET Tables, Removal(tab, Request(tab, kind, tables)),
           kind = "delete" => "delete" \in Operations
    PROVE  TabFrame
<1> DEFINE requests == IF opened[tab] = None THEN opener
                       ELSE [opener EXCEPT ![opened[tab]].open = FALSE]
           r        == Request(tab, kind, tables)
<1>1. PICK o \in Openers : Free(o) /\ opener' = [requests EXCEPT ![o] = r]
  BY DEF Removal, Ask
<1>2. /\ r.phase = "asking" /\ r.asked = 0 /\ r.kind \notin {"connect", "drop"}
      /\ r.kind = "delete" => "delete" \in Operations
  BY DEF Request
<1>3. /\ requests \in [Openers -> Requests]
      /\ \A p \in Openers : opener'[p] = requests[p] => Kept(p)
  <2>1. /\ requests \in [Openers -> Requests]
        /\ \A p \in Openers :
            /\ requests[p].tab = opener[p].tab
            /\ requests[p].kind = opener[p].kind
            /\ requests[p].phase = opener[p].phase
            /\ requests[p].asked = opener[p].asked
            /\ requests[p].tables = opener[p].tables
            /\ requests[p].open => opener[p].open
    BY ReleaseKeeps
  <2> HIDE DEF requests
  <2> QED BY <2>1 DEF Kept
<1> HIDE DEF requests, r
<1>4. \A p \in Openers : Kept(p) \/ New(p)
  <2>1. opener'[o] = r /\ \A p \in Openers : p # o => opener'[p] = requests[p]
    BY <1>1, <1>3
  <2>2. New(o)
    BY <1>1, <1>2, <2>1 DEF New
  <2> QED BY <1>3, <2>1, <2>2
<1>5. /\ verified' = [verified EXCEPT ![tab] = {}]
      /\ opened' = [opened EXCEPT ![tab] = None]
      /\ UNCHANGED <<browser, declared, calls>>
  BY DEF Removal
<1>6. /\ verified' \in [Tabs -> SUBSET Tables]
      /\ \A t \in Tabs : \/ verified'[t] = {}
                         \/ verified'[t] = verified[t] /\ opened'[t] = opened[t]
  BY <1>5 DEF FitInv, OwnInv, Shape
<1> QED BY <1>4, <1>5, <1>6 DEF TabFrame, FitInv, CallsOn, browser

LEMMA TabFrames ==
    ASSUME OwnInv, Plain, FitInv, TabStep
    PROVE  TabFrame
<1>1. \A o \in Openers : opener[o].tab \in Tabs
  BY DEF OwnInv, Shape, Requests
<1>2. calls \in [Calls -> CallStates]
  BY DEF FitInv, CallsOn
<1>3. ASSUME NEW c \in Calls, Call(c) \/ CallStartsAgain(c) PROVE TabFrame
  BY <1>3, AwaitFrame DEF Call, CallStartsAgain, Resumes, FitInv, CallsOn
<1>4. ASSUME NEW c \in Calls, CallReleases(c) PROVE TabFrame
  BY <1>4, ReleaseFrame, ConnectionsAssumption DEF CallReleases, browser
<1>5. ASSUME NEW c \in Calls, CallFails(c) \/ Finish(c) PROVE TabFrame
  <2>1. PICK status \in {"done", "failed"} :
            calls' = [calls EXCEPT ![c] = [status |-> status, on |-> None]]
    BY <1>5 DEF CallFails, Finish
  <2>2. [status |-> status, on |-> None] \in CallStates
    BY DEF CallStates
  <2>3. /\ calls' \in [Calls -> CallStates]
        /\ \A d \in Calls : calls'[d] = calls[d] \/ calls'[d].status \in {"done", "failed"}
    BY <1>2, <2>1, <2>2
  <2>4. UNCHANGED <<browser, opener, tabs>>
    BY <1>5 DEF CallFails, Finish
  <2>5. \A p \in Openers : Kept(p)
    BY <2>4 DEF Kept
  <2> QED BY <2>3, <2>4, <2>5 DEF TabFrame, browser, tabs, FitInv
<1>6. ASSUME NEW p \in Openers, VersionChange(p) PROVE TabFrame
  <2>1. /\ Forget(p)
        /\ UNCHANGED <<version, stores, queue, stage, declared, calls>>
    BY <1>6 DEF VersionChange
  <2>2. CASE opened[opener[p].tab] = p
    BY <1>1, <2>1, <2>2, ReleaseFrame DEF Forget
  <2>3. CASE opened[opener[p].tab] # p
    <3>1. /\ opener' = [opener EXCEPT ![p].open = FALSE]
          /\ UNCHANGED <<opened, verified>>
      BY <2>1, <2>3 DEF Forget
    <3>2. \A q \in Openers : Kept(q)
      BY <3>1 DEF OwnInv, Shape, Requests, Kept
    <3> QED BY <2>1, <3>1, <3>2 DEF TabFrame, FitInv, CallsOn
  <2> QED BY <2>2, <2>3
<1>7. ASSUME NEW tab \in Tabs, Close(tab) PROVE TabFrame
  BY <1>7, ReleaseFrame DEF Close, browser
<1>8. ASSUME NEW tab \in Tabs, DeleteDatabase(tab) PROVE TabFrame
  BY <1>8, RemovalFrame DEF DeleteDatabase, Operates, Kinds
<1>9. ASSUME NEW tab \in Tabs, NEW table \in Tables, Drop(tab, table) PROVE TabFrame
  BY <1>9, RemovalFrame DEF Drop, Kinds
<1>10. ASSUME NEW tab \in Tabs, NEW table \in Tables, Declare(tab, table)
       PROVE  TabFrame
  <2>1. \A t \in Tabs : declared[t] \subseteq declared'[t]
    BY <1>10 DEF Declare, Plain
  <2>2. UNCHANGED <<browser, opener, verified, opened, calls>>
    BY <1>10 DEF Declare
  <2>3. \A p \in Openers : Kept(p)
    BY <2>2 DEF Kept
  <2> QED BY <2>1, <2>2, <2>3 DEF TabFrame, browser, FitInv, CallsOn
<1> QED
  BY <1>3, <1>4, <1>5, <1>6, <1>7, <1>8, <1>9, <1>10 DEF TabStep

\* The call that works on a request shows in Working, so a free one has none.
LEMMA WorkingOn ==
    ASSUME CallsOn, NEW c \in Calls, calls[c].status = "working"
    PROVE  c \in Working(calls[c].on)
<1>1. calls[c] \in CallStates
  BY DEF CallsOn
<1>2. calls[c] = [status |-> "working", on |-> calls[c].on]
  BY <1>1 DEF CallStates
<1> QED BY <1>2 DEF Working

LEMMA TabFit ==
    ASSUME OwnInv, FitInv, TabFrame
    PROVE  FitInv'
<1> USE DEF FitInv
<1>0. /\ \A p \in Openers : Kept(p) \/ New(p)
      /\ opener \in [Openers -> Requests] /\ queue \in Seq(Openers)
      /\ queue' = queue /\ stores' = stores
  BY DEF TabFrame, OwnInv, Shape
<1>1. ASSUME NEW p \in Openers, New(p)
      PROVE  /\ \A i \in DOMAIN queue : queue[i] # p
             /\ Working(p) = {}
             /\ \A tab \in Tabs : opened[tab] # p
  BY <1>1 DEF New, Free, InQueue, StillOpen
<1>2. TablesDeclared'
  <2> SUFFICES ASSUME NEW o \in Openers, opener'[o].kind = "connect"
               PROVE  opener'[o].tables \subseteq declared'[opener'[o].tab]
    BY DEF TablesDeclared
  <2>1. CASE Kept(o)
    <3>1. opener[o].tab \in Tabs
      BY <1>0 DEF Requests
    <3> QED BY <2>1, <3>1 DEF Kept, TablesDeclared, TabFrame
  <2>2. CASE New(o)
    BY <2>2 DEF New
  <2> QED BY <1>0, <2>1, <2>2
<1>3. QueuedUnsettled'
  <2> SUFFICES ASSUME NEW i \in DOMAIN queue
               PROVE  opener'[queue[i]].phase \in {"asking", "rejected"}
    BY <1>0 DEF QueuedUnsettled
  <2>1. queue[i] \in Openers
    BY <1>0
  <2>2. Kept(queue[i])
    BY <1>0, <1>1, <2>1
  <2> QED BY <2>2 DEF Kept, QueuedUnsettled
<1>4. CallsOn'
  <2>1. \A c \in Calls : calls'[c].status = "waiting" =>
            calls'[c].on \in Openers /\ TableOf[c] \in declared'[TabOf[c]]
    <3>1. \A c \in Calls : declared[TabOf[c]] \subseteq declared'[TabOf[c]]
      BY ConnectionsAssumption DEF TabFrame
    <3> QED BY <3>1 DEF TabFrame, CallsOn
  <2>2. ASSUME NEW c \in Calls, calls'[c].status = "working"
        PROVE  calls'[c].on \in Openers /\ opener'[calls'[c].on].phase = "resolved"
    <3>1. calls'[c] = calls[c]
      BY <2>2 DEF TabFrame
    <3>2. calls[c].on \in Openers /\ opener[calls[c].on].phase = "resolved"
      BY <2>2, <3>1 DEF CallsOn
    <3>3. Kept(calls[c].on)
      BY <1>0, <1>1, <2>2, <3>1, <3>2, WorkingOn
    <3> QED BY <3>1, <3>2, <3>3 DEF Kept
  <2> QED BY <2>1, <2>2 DEF CallsOn, CallStates, TabFrame
<1>5. VerifiedOpened'
  BY DEF VerifiedOpened, TabFrame
<1>6. VerifiedFits'
  <2> SUFFICES ASSUME NEW tab \in Tabs, opened'[tab] # None, opener'[opened'[tab]].open,
                      NEW table \in verified'[tab]
               PROVE  Fits(tab, table)
    BY <1>0 DEF VerifiedFits, Fits
  <2>1. verified'[tab] = verified[tab] /\ opened'[tab] = opened[tab]
    BY DEF TabFrame
  <2>2. opened[tab] \in Openers
    BY <2>1 DEF OwnInv, Shape
  <2>3. Kept(opened[tab])
    BY <1>0, <1>1, <2>2
  <2> QED BY <2>1, <2>3 DEF VerifiedFits, Kept
<1>7. WorkingFits'
  <2>1. \A c \in Calls : calls'[c].status = "working" => calls[c].status = "working"
    BY DEF TabFrame
  <2> QED BY <1>0, <2>1 DEF WorkingFits
<1> QED BY <1>2, <1>3, <1>4, <1>5, <1>6, <1>7 DEF TabFrame

\* A call begins to work on a table that its tab verified, on an open connection.
LEMMA WorksFit ==
    ASSUME OwnInv, FitInv, NEW c \in Calls, CallWorks(c)
    PROVE  FitInv'
<1> USE DEF FitInv
<1> DEFINE o == calls[c].on
<1>1. /\ calls[c].status = "waiting" /\ opener[o].phase = "resolved"
      /\ connection[TabOf[c]] = o /\ TableOf[c] \in verified[TabOf[c]]
      /\ calls' = [calls EXCEPT ![c] =
            IF opener[o].open /\ stores[TableOf[c]] # NoStore
            THEN [status |-> "working", on |-> o] ELSE [status |-> "failed", on |-> None]]
      /\ UNCHANGED <<browser, opener, tabs>>
  BY DEF CallWorks, Resumes, IsVerified
<1>2. o \in Openers /\ calls \in [Calls -> CallStates] /\ TabOf[c] \in Tabs
  BY <1>1, ConnectionsAssumption DEF CallsOn
<1>3. UNCHANGED <<stores, queue, opener, declared, verified, opened>>
  BY <1>1 DEF browser, tabs
<1>4. calls' \in [Calls -> CallStates]
  <2>1. /\ [status |-> "working", on |-> o] \in CallStates
        /\ [status |-> "failed", on |-> None] \in CallStates
    BY <1>2 DEF CallStates
  <2> QED BY <1>1, <1>2, <2>1
<1>5. ASSUME NEW d \in Calls
      PROVE  \/ calls'[d] = calls[d] /\ d # c
             \/ d = c /\ calls'[d].status = "failed"
             \/ /\ d = c /\ calls'[d] = [status |-> "working", on |-> o]
                /\ opener[o].open /\ stores[TableOf[c]] # NoStore
  BY <1>1, <1>2
<1> HIDE DEF o
<1>6. CallsOn'
  BY <1>1, <1>2, <1>3, <1>4, <1>5 DEF CallsOn, CallStates
<1>7. ASSUME opener[o].open PROVE Fits(TabOf[c], TableOf[c])
  <2>1. opened[TabOf[c]] # None
    BY <1>1, <1>2 DEF VerifiedOpened
  <2>2. opened[TabOf[c]] = o
    BY <1>1, <1>2, <2>1 DEF OwnInv, Watched
  <2> QED BY <1>1, <1>2, <1>7, <2>1, <2>2 DEF VerifiedFits
<1>8. WorkingFits'
  <2> SUFFICES ASSUME NEW d \in Calls, calls'[d].status = "working"
               PROVE  stores[TableOf[d]] # NoStore /\ Fits(TabOf[d], TableOf[d])
    BY <1>3 DEF WorkingFits, Fits
  <2>1. CASE calls'[d] = calls[d] /\ d # c
    BY <2>1 DEF WorkingFits, Fits
  <2>2. CASE d = c
    BY <1>5, <1>7, <2>2
  <2> QED BY <1>5, <2>1, <2>2
<1>9. /\ TablesDeclared' /\ QueuedUnsettled' /\ VerifiedOpened'
      /\ verified' \in [Tabs -> SUBSET Tables]
  BY <1>3 DEF TablesDeclared, QueuedUnsettled, VerifiedOpened
<1>10. VerifiedFits'
  BY <1>3 DEF VerifiedFits, Fits
<1> QED BY <1>6, <1>8, <1>9, <1>10

\* A request moves that no tab watches and that has no transaction, and what it becomes
\* is no surprise to those that it is not: served, it has left the queue.
Moves(o) ==
    /\ opener' \in [Openers -> Requests]
    /\ \A p \in Openers \ {o} : opener'[p] = opener[p]
    /\ opener'[o].tab = opener[o].tab
    /\ opener'[o].kind = "connect" => opener'[o].tables \subseteq declared[opener[o].tab]
    /\ opener[o].phase # "resolved"
    /\ \/ queue' = queue
       \/ queue # <<>> /\ o = Head(queue) /\ queue' = Tail(queue)
    /\ (\E i \in DOMAIN queue' : queue'[i] = o)
          => opener'[o].phase \in {"asking", "rejected"}
    /\ UNCHANGED <<declared, calls>>

LEMMA MovesFit ==
    ASSUME OwnInv, FitInv, NEW o \in Openers, Moves(o), UNCHANGED <<verified, opened>>,
           \A tab \in Tabs : opened[tab] # o,
           \/ stores' = stores
           \/ /\ \A c \in Calls : calls[c].status # "working"
              /\ \A p \in Openers \ {o} : ~opener[p].open
    PROVE  FitInv'
<1> USE DEF FitInv
<1>0. /\ opener \in [Openers -> Requests] /\ opened \in [Tabs -> Openers \cup {None}]
      /\ UNCHANGED <<declared, calls>>
      /\ \A p \in Openers \ {o} : opener'[p] = opener[p]
  BY DEF OwnInv, Shape, Moves
<1>1. TablesDeclared'
  <2> SUFFICES ASSUME NEW p \in Openers, opener'[p].kind = "connect"
               PROVE  opener'[p].tables \subseteq declared[opener'[p].tab]
    BY <1>0 DEF TablesDeclared
  <2>1. CASE p = o
    BY <2>1 DEF Moves
  <2>2. CASE p # o
    BY <1>0, <2>2 DEF TablesDeclared
  <2> QED BY <2>1, <2>2
<1>2. \A i \in DOMAIN queue' :
          queue'[i] \in Openers /\ \E j \in DOMAIN queue : queue[j] = queue'[i]
  <2>1. queue \in Seq(Openers)
    BY DEF OwnInv, Shape
  <2>2. CASE queue' = queue
    BY <2>1, <2>2
  <2>3. CASE queue # <<>> /\ o = Head(queue) /\ queue' = Tail(queue)
    BY <2>1, <2>3
  <2> QED BY <2>2, <2>3 DEF Moves
<1>3. QueuedUnsettled'
  <2> SUFFICES ASSUME NEW i \in DOMAIN queue'
               PROVE  opener'[queue'[i]].phase \in {"asking", "rejected"}
    BY DEF QueuedUnsettled
  <2>1. CASE queue'[i] = o
    BY <2>1 DEF Moves
  <2>2. CASE queue'[i] # o
    BY <1>0, <1>2, <2>2 DEF QueuedUnsettled
  <2> QED BY <2>1, <2>2
<1>4. CallsOn'
  <2>1. opener[o].phase # "resolved"
    BY DEF Moves
  <2>2. \A c \in Calls : calls[c].status = "working" =>
            opener'[calls[c].on].phase = opener[calls[c].on].phase
    BY <1>0, <2>1 DEF CallsOn
  <2> QED BY <1>0, <2>2 DEF CallsOn, CallStates
<1>5. VerifiedOpened' /\ verified' \in [Tabs -> SUBSET Tables]
  BY DEF VerifiedOpened
<1>6. \A tab \in Tabs : opened[tab] # None =>
          opened[tab] \in Openers \ {o} /\ opener'[opened[tab]] = opener[opened[tab]]
  BY <1>0
<1>7. CASE stores' = stores
  <2>1. VerifiedFits'
    BY <1>6, <1>7 DEF VerifiedFits, Fits
  <2>2. WorkingFits'
    BY <1>0, <1>7 DEF WorkingFits
  <2> QED BY <1>1, <1>3, <1>4, <1>5, <2>1, <2>2
<1>8. CASE /\ \A c \in Calls : calls[c].status # "working"
           /\ \A p \in Openers \ {o} : ~opener[p].open
  <2>1. VerifiedFits'
    BY <1>6, <1>8 DEF VerifiedFits
  <2>2. WorkingFits'
    BY <1>0, <1>8 DEF WorkingFits
  <2> QED BY <1>1, <1>3, <1>4, <1>5, <2>1, <2>2
<1> QED BY <1>7, <1>8

\* A request that has the database for itself: no tab works, nor has a connection.
LEMMA AloneIdle ==
    ASSUME OwnInv, FitInv, NEW o \in Openers, Exclusive(o)
    PROVE  /\ \A c \in Calls : calls[c].status # "working"
           /\ \A p \in Openers \ {o} : ~opener[p].open
<1>1. \A p \in Openers \ {o} : ~opener[p].open /\ Working(p) = {}
  BY DEF Exclusive, Alone, StillOpen
<1>2. opener[o].phase # "resolved"
  BY DEF Exclusive, Serve, First, OwnInv, Shape, FitInv, QueuedUnsettled
<1>3. ASSUME NEW c \in Calls, calls[c].status = "working" PROVE FALSE
  <2>1. calls[c].on \in Openers /\ opener[calls[c].on].phase = "resolved"
    BY <1>3 DEF FitInv, CallsOn
  <2>2. c \in Working(calls[c].on)
    BY <1>3, WorkingOn DEF FitInv
  <2> QED BY <1>1, <1>2, <2>1, <2>2
<1> QED BY <1>1, <1>3

\* The request served becomes r.
LEMMA ServedFit ==
    ASSUME OwnInv, FitInv, NEW o \in Openers, Serve(o), NEW r \in Requests,
           opener' = [opener EXCEPT ![o] = r], r.tab = opener[o].tab,
           r.kind = "connect" => r.tables \subseteq declared[opener[o].tab],
           \/ queue' = Tail(queue)
           \/ queue' = queue /\ r.phase \in {"asking", "rejected"},
           UNCHANGED <<declared, calls, verified, opened>>,
           stores' = stores \/ Exclusive(o)
    PROVE  FitInv'
<1>1. queue # <<>> /\ o = Head(queue) /\ queue \in Seq(Openers)
  BY DEF Serve, First, OwnInv, Shape
<1>2. /\ \A tab \in Tabs : opened[tab] # o
      /\ \A i \in DOMAIN Tail(queue) : Tail(queue)[i] # o
  BY <1>1, FirstUnused
<1>3. opener[o].phase # "resolved"
  BY <1>1 DEF FitInv, QueuedUnsettled
<1>4. /\ opener' \in [Openers -> Requests] /\ opener'[o] = r
      /\ \A p \in Openers \ {o} : opener'[p] = opener[p]
  BY DEF OwnInv, Shape
<1>5. Moves(o)
  BY <1>1, <1>2, <1>3, <1>4 DEF Moves
<1>6. \/ stores' = stores
      \/ /\ \A c \in Calls : calls[c].status # "working"
         /\ \A p \in Openers \ {o} : ~opener[p].open
  BY AloneIdle
<1> QED BY <1>2, <1>5, <1>6, MovesFit

\* The request that was checked becomes r, and not the connection of its tab.
LEMMA CheckedFit ==
    ASSUME OwnInv, FitInv, NEW o \in Openers, Check(o), NEW r \in Requests,
           opener' = [opener EXCEPT ![o] = r], r.tab = opener[o].tab,
           r.tables = opener[o].tables, r.kind = opener[o].kind,
           UNCHANGED <<queue, stores, declared, calls, verified, opened>>
    PROVE  FitInv'
<1>1. \A i \in DOMAIN queue : queue[i] # o
  BY DEF Check, OwnInv, CheckedLeft
<1>2. \A tab \in Tabs : opened[tab] # o
  BY ConnectionsAssumption DEF Check, OwnInv, Watched
<1>3. /\ opener' \in [Openers -> Requests] /\ opener'[o] = r
      /\ \A p \in Openers \ {o} : opener'[p] = opener[p]
  BY DEF OwnInv, Shape
<1>4. opener[o].phase # "resolved"
  BY DEF Check
<1>5. r.kind = "connect" => r.tables \subseteq declared[opener[o].tab]
  BY DEF FitInv, TablesDeclared
<1>6. Moves(o)
  BY <1>1, <1>3, <1>4, <1>5 DEF Moves
<1> QED BY <1>2, <1>6, MovesFit

\* Its connection becomes that of its tab: what it checked fits.
LEMMA PassesFit ==
    ASSUME OwnInv, FitInv, NEW o \in Openers, CheckPasses(o),
           connection[opener[o].tab] = o,
           opener' = [opener EXCEPT ![o].phase = "resolved"],
           opened' = [opened EXCEPT ![opener[o].tab] = o],
           verified' = [verified EXCEPT ![opener[o].tab] = @ \cup opener[o].tables]
    PROVE  FitInv'
<1> USE DEF FitInv
<1> DEFINE tab == opener[o].tab
<1>1. /\ opener[o].phase = "checking"
      /\ ~Behind(o) /\ ~Mismatched(o)
      /\ UNCHANGED <<queue, stores, declared, calls>>
  BY DEF CheckPasses, Check, browser
<1>2. /\ opener \in [Openers -> Requests] /\ opener[o] \in Requests
      /\ tab \in Tabs /\ opener[o].tables \in SUBSET Tables
      /\ opened \in [Tabs -> Openers \cup {None}] /\ None \notin Openers
  BY ConnectionsAssumption DEF OwnInv, Shape, Requests
<1>3. /\ \A p \in Openers \ {o} : opener'[p] = opener[p]
      /\ opener'[o].tab = tab /\ opener'[o].kind = opener[o].kind
      /\ opener'[o].tables = opener[o].tables /\ opener'[o].phase = "resolved"
  BY <1>2
<1>4. /\ \A i \in DOMAIN queue : queue[i] # o /\ queue[i] \in Openers
      /\ \A t \in Tabs : opened[t] # o
  BY <1>1, <1>2 DEF OwnInv, Shape, CheckedLeft, Watched
<1>5. opened[tab] = None
  BY <1>2, <1>4 DEF OwnInv, Watched
<1>6. /\ opened'[tab] = o /\ verified'[tab] = opener[o].tables
      /\ \A t \in Tabs \ {tab} : opened'[t] = opened[t] /\ verified'[t] = verified[t]
      /\ verified' \in [Tabs -> SUBSET Tables]
  BY <1>2, <1>5 DEF VerifiedOpened
<1>7. \A table \in opener[o].tables : Fits(tab, table)
  BY <1>1 DEF Behind, Mismatched, Fits
<1> HIDE DEF tab
<1>8. TablesDeclared'
  BY <1>1, <1>2, <1>3 DEF TablesDeclared, tab
<1>9. QueuedUnsettled'
  BY <1>1, <1>3, <1>4 DEF QueuedUnsettled
<1>10. CallsOn'
  BY <1>1, <1>3 DEF CallsOn, CallStates
<1>11. VerifiedOpened'
  <2> SUFFICES ASSUME NEW t \in Tabs, opened'[t] = None PROVE verified'[t] = {}
    BY DEF VerifiedOpened
  <2>1. t # tab
    BY <1>2, <1>6
  <2> QED BY <1>6, <2>1 DEF VerifiedOpened
<1>12. VerifiedFits'
  <2> SUFFICES ASSUME NEW t \in Tabs, opened'[t] # None, opener'[opened'[t]].open,
                      NEW table \in verified'[t]
               PROVE  Fits(t, table)
    BY <1>1 DEF VerifiedFits, Fits
  <2>1. CASE t = tab
    BY <1>6, <1>7, <2>1
  <2>2. CASE t # tab
    <3>1. opened[t] \in Openers \ {o} /\ opened'[t] = opened[t] /\ verified'[t] = verified[t]
      BY <1>2, <1>4, <1>6, <2>2
    <3> QED BY <1>3, <3>1 DEF VerifiedFits
  <2> QED BY <2>1, <2>2
<1>13. WorkingFits'
  BY <1>1 DEF WorkingFits
<1> QED BY <1>6, <1>8, <1>9, <1>10, <1>11, <1>12, <1>13

LEMMA SameFit ==
    ASSUME FitInv, UNCHANGED <<queue, stores, opener, declared, verified, opened, calls>>
    PROVE  FitInv'
BY DEF FitInv, TablesDeclared, QueuedUnsettled, CallsOn, VerifiedOpened, VerifiedFits, Fits,
       WorkingFits

LEMMA NextFit == OwnInv /\ Plain /\ FitInv /\ [Next]_vars => FitInv'
<1> SUFFICES ASSUME OwnInv, Plain, FitInv, [Next]_vars PROVE FitInv'
  OBVIOUS
<1>0. /\ opener \in [Openers -> Requests] /\ queue \in Seq(Openers)
      /\ \A o \in Openers : opener[o] \in Requests /\ opener[o].tab \in Tabs
  BY DEF OwnInv, Shape, Requests
<1>1. ASSUME TabStep PROVE FitInv'
  BY <1>1, TabFrames, TabFit
<1>2. ASSUME NEW c \in Calls, CallWorks(c) PROVE FitInv'
  BY <1>2, WorksFit
<1>3. ASSUME NEW o \in Openers, Arrive(o) PROVE FitInv'
  <2>1. /\ opener[o].phase = "asking" /\ queue' = Append(queue, o)
        /\ UNCHANGED <<stores, opener, declared, verified, opened, calls>>
    BY <1>3 DEF Arrive, tabs
  <2>2. QueuedUnsettled'
    BY <1>0, <2>1 DEF FitInv, QueuedUnsettled
  <2> QED
    BY <2>1, <2>2 DEF FitInv, TablesDeclared, CallsOn, VerifiedOpened, VerifiedFits, Fits,
                      WorkingFits
<1>4. ASSUME NEW o \in Openers, Notify(o) PROVE FitInv'
  BY <1>4, SameFit DEF Notify, tabs
<1>5. ASSUME NEW o \in Openers, NEW phase \in Phases, Serve(o),
             opener' = [opener EXCEPT ![o].phase = phase, ![o].open = FALSE],
             queue' = Tail(queue) \/ (queue' = queue /\ phase = "rejected"),
             UNCHANGED <<stores, declared, calls, verified, opened>>
      PROVE  FitInv'
  <2> DEFINE r == [opener[o] EXCEPT !.phase = phase, !.open = FALSE]
  <2>1. r \in Requests /\ r.tab = opener[o].tab /\ r.phase = phase
        /\ r.kind = opener[o].kind /\ r.tables = opener[o].tables
    BY <1>0 DEF Requests
  <2>2. opener' = [opener EXCEPT ![o] = r]
    BY <1>0, <1>5
  <2> HIDE DEF r
  <2> QED BY <1>5, <2>1, <2>2, ServedFit DEF FitInv, TablesDeclared
<1>6. ASSUME NEW o \in Openers, OpenSucceeds(o) PROVE FitInv'
  <2>1. /\ Serve(o) /\ queue' = Tail(queue)
        /\ UNCHANGED <<stores, declared, calls, verified, opened>>
        /\ \/ /\ opener[o].kind = "connect"
              /\ opener' = [opener EXCEPT ![o].phase = "checking", ![o].open = TRUE,
                                          ![o].tables = declared[opener[o].tab]]
           \/ opener' = [opener EXCEPT ![o].kind = "drop", ![o].asked = version + 1]
           \/ /\ opener' = [opener EXCEPT ![o].phase = "resolved"]
              /\ opener[o].kind # "connect"
    BY <1>6 DEF OpenSucceeds, Served, tabs
  <2>2. CASE opener' = [opener EXCEPT ![o].phase = "checking", ![o].open = TRUE,
                                      ![o].tables = declared[opener[o].tab]]
    <3> DEFINE r == [opener[o] EXCEPT !.phase = "checking", !.open = TRUE,
                                      !.tables = declared[opener[o].tab]]
    <3>1. declared[opener[o].tab] \in SUBSET Tables
      BY <1>0 DEF Plain
    <3>2. r \in Requests /\ r.tab = opener[o].tab /\ r.tables = declared[opener[o].tab]
      BY <1>0, <3>1 DEF Requests, Phases
    <3>3. opener' = [opener EXCEPT ![o] = r]
      BY <1>0, <2>2
    <3> HIDE DEF r
    <3> QED BY <2>1, <3>2, <3>3, ServedFit
  <2>3. CASE opener' = [opener EXCEPT ![o].kind = "drop", ![o].asked = version + 1]
    <3> DEFINE r == [opener[o] EXCEPT !.kind = "drop", !.asked = version + 1]
    <3>1. version + 1 \in Nat
      BY DEF Plain
    <3>2. r \in Requests /\ r.tab = opener[o].tab /\ r.kind = "drop"
      BY <1>0, <3>1 DEF Requests, Kinds
    <3>3. opener' = [opener EXCEPT ![o] = r]
      BY <1>0, <2>3
    <3> HIDE DEF r
    <3> QED BY <2>1, <3>2, <3>3, ServedFit
  <2>4. CASE /\ opener' = [opener EXCEPT ![o].phase = "resolved"]
             /\ opener[o].kind # "connect"
    <3> DEFINE r == [opener[o] EXCEPT !.phase = "resolved"]
    <3>1. r \in Requests /\ r.tab = opener[o].tab /\ r.kind = opener[o].kind
      BY <1>0 DEF Requests, Phases
    <3>2. opener' = [opener EXCEPT ![o] = r]
      BY <1>0, <2>4
    <3> HIDE DEF r
    <3> QED BY <2>1, <2>4, <3>1, <3>2, ServedFit
  <2> QED BY <2>1, <2>2, <2>3, <2>4
<1>7. ASSUME NEW o \in Openers, VersionError(o) PROVE FitInv'
  <2>1. CASE opener' = [opener EXCEPT ![o].asked = 0] /\ UNCHANGED <<tabs, calls>>
    <3> DEFINE r == [opener[o] EXCEPT !.asked = 0]
    <3>1. r \in Requests /\ r.tab = opener[o].tab /\ r.kind = opener[o].kind
          /\ r.tables = opener[o].tables
      BY <1>0 DEF Requests
    <3>2. opener' = [opener EXCEPT ![o] = r]
      BY <1>0, <2>1
    <3>3. /\ Serve(o) /\ queue' = Tail(queue)
          /\ UNCHANGED <<stores, declared, calls, verified, opened>>
      BY <1>7, <2>1 DEF VersionError, Served, Rejected, tabs
    <3> HIDE DEF r
    <3> QED BY <3>1, <3>2, <3>3, ServedFit DEF FitInv, TablesDeclared
  <2>2. CASE Rejected(o)
    BY <1>5, <1>7, <2>2 DEF VersionError, Rejected, Served, Phases
  <2> QED BY <1>7, <2>1, <2>2 DEF VersionError
<1>8. ASSUME NEW o \in Openers, Blocked(o) PROVE FitInv'
  BY <1>5, <1>8 DEF Blocked, Rejected, Phases
<1>9. ASSUME NEW o \in Openers, Upgrade(o) PROVE FitInv'
  <2> DEFINE wanted == declared[opener[o].tab]
  <2>1. Exclusive(o) /\ Serve(o) /\ queue' = Tail(queue)
    BY <1>9 DEF Upgrade, Exclusive, Served
  <2>2. CASE Rejected(o) /\ UNCHANGED stores
    BY <1>5, <2>1, <2>2 DEF Rejected, Phases
  <2>3. CASE /\ opener' = [opener EXCEPT
                            ![o].phase  = IF stage = "blocked" THEN @ ELSE "checking",
                            ![o].open   = StaysOpen,
                            ![o].tables = wanted]
             /\ UNCHANGED <<tabs, calls>>
    <3> DEFINE r == [opener[o] EXCEPT
                        !.phase  = IF stage = "blocked" THEN @ ELSE "checking",
                        !.open   = StaysOpen,
                        !.tables = wanted]
    <3>1. wanted \in SUBSET Tables /\ StaysOpen \in BOOLEAN
      BY <1>0 DEF Plain, StaysOpen
    <3>2. opener' = [opener EXCEPT ![o] = r]
      BY <1>0, <2>3
    <3> HIDE DEF wanted
    <3>3. r \in Requests /\ r.tab = opener[o].tab /\ r.tables = wanted
      BY <1>0, <3>1 DEF Requests, Phases
    <3> HIDE DEF r
    <3>4. UNCHANGED <<declared, calls, verified, opened>>
      BY <2>3 DEF tabs
    <3> QED BY <2>1, <3>2, <3>3, <3>4, ServedFit DEF wanted
  <2> QED BY <1>9, <2>2, <2>3 DEF Upgrade
<1>10. ASSUME NEW o \in Openers, DropUpgrade(o) \/ DeleteUpgrade(o) PROVE FitInv'
  <2>1. /\ Exclusive(o) /\ Serve(o) /\ queue' = Tail(queue) /\ opener[o].kind # "connect"
        /\ UNCHANGED <<declared, calls, verified, opened>>
    BY <1>10 DEF DropUpgrade, DeleteUpgrade, Exclusive, Served, tabs
  <2>2. PICK phase \in Phases : opener' = [opener EXCEPT ![o].phase = phase]
    <3>1. opener[o].phase \in Phases
      BY <1>0 DEF Requests
    <3>2. CASE DropUpgrade(o)
      <4> DEFINE phase == IF opener[o].phase = "rejected"
                             \/ DropAborts(o)
                          THEN "rejected" ELSE "resolved"
      <4>1. opener' = [opener EXCEPT ![o].phase = phase]
        BY <3>2 DEF DropUpgrade
      <4>2. phase \in Phases
        BY DEF Phases
      <4> QED BY <4>1, <4>2
    <3>3. CASE DeleteUpgrade(o)
      <4> DEFINE phase == IF opener[o].phase = "asking" THEN "resolved"
                                                        ELSE opener[o].phase
      <4>1. opener' = [opener EXCEPT ![o].phase = phase]
        BY <3>3 DEF DeleteUpgrade
      <4>2. phase \in Phases
        BY <3>1 DEF Phases
      <4> QED BY <4>1, <4>2
    <3> QED BY <1>10, <3>2, <3>3
  <2> DEFINE r == [opener[o] EXCEPT !.phase = phase]
  <2>3. r \in Requests /\ r.tab = opener[o].tab /\ r.kind = opener[o].kind
    BY <1>0 DEF Requests
  <2>4. opener' = [opener EXCEPT ![o] = r]
    BY <1>0, <2>2
  <2> HIDE DEF r
  <2> QED BY <2>1, <2>3, <2>4, ServedFit
<1>11. ASSUME NEW o \in Openers, CheckFindsWork(o) PROVE FitInv'
  <2> DEFINE r == [opener[o] EXCEPT !.phase = "asking", !.open = FALSE,
                                    !.asked = version + 1]
  <2>1. version + 1 \in Nat
    BY DEF Plain
  <2>2. r \in Requests /\ r.tab = opener[o].tab /\ r.tables = opener[o].tables
        /\ r.kind = opener[o].kind
    BY <1>0, <2>1 DEF Requests, Phases
  <2>3. opener' = [opener EXCEPT ![o] = r]
    BY <1>0, <1>11 DEF CheckFindsWork
  <2> HIDE DEF r
  <2> QED BY <1>11, <2>2, <2>3, CheckedFit DEF CheckFindsWork, browser, tabs
<1>12. ASSUME NEW o \in Openers, NEW phase \in Phases, Check(o),
              opener' = [opener EXCEPT ![o].phase = phase, ![o].open = FALSE],
              UNCHANGED <<queue, stores, declared, calls, verified, opened>>
       PROVE  FitInv'
  <2> DEFINE r == [opener[o] EXCEPT !.phase = phase, !.open = FALSE]
  <2>1. r \in Requests /\ r.tab = opener[o].tab /\ r.tables = opener[o].tables
        /\ r.kind = opener[o].kind
    BY <1>0 DEF Requests
  <2>2. opener' = [opener EXCEPT ![o] = r]
    BY <1>0, <1>12
  <2> HIDE DEF r
  <2> QED BY <1>12, <2>1, <2>2, CheckedFit
<1>13. ASSUME NEW o \in Openers, CheckFails(o) PROVE FitInv'
  BY <1>12, <1>13 DEF CheckFails, Rejected, browser, Phases
<1>14. ASSUME NEW o \in Openers, CheckPasses(o) PROVE FitInv'
  <2>1. CASE ClosesOrphan(o) /\ UNCHANGED <<opened, verified>>
    BY <1>12, <1>14, <2>1 DEF CheckPasses, ClosesOrphan, browser, Phases
  <2>2. CASE connection[opener[o].tab] = o
    BY <1>14, <2>2, PassesFit DEF CheckPasses
  <2> QED BY <1>14, <2>1, <2>2 DEF CheckPasses
<1>15. CASE UNCHANGED vars
  BY <1>15, SameFit DEF vars, browser, tabs
<1>16. ASSUME Next
       PROVE  \/ TabStep
              \/ \E c \in Calls : CallWorks(c)
              \/ \E o \in Openers : ServeFirst(o) \/ Pend(o)
  BY <1>16 DEF Next, Run, TabStep
<1> QED
  BY <1>1, <1>2, <1>3, <1>4, <1>6, <1>7, <1>8, <1>9, <1>10, <1>11, <1>13, <1>14, <1>15,
     <1>16
  DEF ServeFirst, Pend

\* A transaction always runs on a table that fits the code of its tab, for any tabs,
\* releases, calls and operations.
THEOREM TransactionsFit == Spec => []WorkingFits
<1>1. Init => OwnInv /\ Plain /\ FitInv
  BY InitOwnInv, InitPlain, InitFit
<1>2. (OwnInv /\ Plain /\ FitInv) /\ [Next]_vars => (OwnInv /\ Plain /\ FitInv)'
  BY NextOwnInv, NextPlain, NextFit
<1>3. FitInv => WorkingFits
  BY DEF FitInv
<1> QED BY <1>1, <1>2, <1>3, PTL DEF Spec

-------------------------------------------------------------------------------
(* Versions.  An attempt asks for the version after the one whose tables it    *)
(* compared, and gets it only while they are as they were.                     *)

StoresTyped ==
    /\ stores \in [Tables -> Stores \cup {NoStore}]
    /\ version = 0 => \A table \in Tables : stores[table] = NoStore

LEMMA TargetTyped ==
    ASSUME OwnInv, Plain, NEW o, Serve(o)
    PROVE  Target \in Nat \ {0}
<1>1. First \in Openers
  BY FirstUnused DEF Serve, First
<1> QED BY <1>1 DEF Target, Plain, OwnInv, Shape, Requests

LEMMA NextCases ==
    ASSUME Next
    PROVE  \/ TabStep
           \/ \E c \in Calls : CallWorks(c)
           \/ \E o \in Openers : ServeFirst(o) \/ Pend(o)
BY DEF Next, Run, TabStep

\* Only the upgrade of a request that is alone changes the database.
LEMMA UpgradesAlone ==
    ASSUME OwnInv, Plain, FitInv, [Next]_vars
    PROVE  \/ UNCHANGED <<version, stores>>
           \/ \E o \in Openers : Upgrade(o) \/ DropUpgrade(o) \/ DeleteUpgrade(o)
<1>1. CASE TabStep
  BY <1>1, TabFrames DEF TabFrame
<1>2. ASSUME NEW c \in Calls, CallWorks(c) PROVE UNCHANGED <<version, stores>>
  BY <1>2 DEF CallWorks, browser
<1>3. ASSUME NEW o \in Openers, Arrive(o) \/ OpenSucceeds(o) \/ VersionError(o)
                                \/ Notify(o) \/ Blocked(o)
      PROVE  UNCHANGED <<version, stores>>
  BY <1>3 DEF Arrive, OpenSucceeds, VersionError, Notify, Blocked
<1>4. ASSUME NEW o \in Openers, Pend(o) PROVE UNCHANGED <<version, stores>>
  BY <1>4 DEF Pend, CheckFindsWork, CheckFails, CheckPasses, browser
<1>5. ASSUME UNCHANGED vars PROVE UNCHANGED <<version, stores>>
  BY <1>5 DEF vars, browser
<1> QED
  BY <1>1, <1>2, <1>3, <1>4, <1>5, NextCases DEF ServeFirst

LEMMA InitStores == Init => StoresTyped
BY DEF Init, StoresTyped

LEMMA NextStores == OwnInv /\ Plain /\ FitInv /\ StoresTyped /\ [Next]_vars => StoresTyped'
<1> SUFFICES ASSUME OwnInv, Plain, FitInv, StoresTyped, [Next]_vars PROVE StoresTyped'
  OBVIOUS
<1>1. CASE UNCHANGED <<version, stores>>
  BY <1>1 DEF StoresTyped
<1>2. ASSUME NEW o \in Openers, Upgrade(o) PROVE StoresTyped'
  <2> DEFINE wanted     == declared[opener[o].tab]
             defined(t) == Definition[opener[o].tab][t]
  <2>1. Target \in Nat \ {0} /\ opener[o].tab \in Tabs
    BY <1>2, TargetTyped DEF Upgrade, Exclusive, OwnInv, Shape, Requests
  <2>2. CASE /\ \A t \in wanted : ~Mismatch(defined(t), stores[t])
             /\ version' = Target
             /\ stores' = [t \in Tables |->
                            IF t \in wanted THEN Upgraded(defined(t), stores[t])
                                            ELSE stores[t]]
    <3>1. ASSUME NEW t \in Tables, t \in wanted
          PROVE  Upgraded(defined(t), stores[t]) \in Stores
      <4>1. defined(t) \in Definitions
        BY <2>1, ConnectionsAssumption
      <4>2. stores[t] \in Stores \cup {NoStore} /\ ~Mismatch(defined(t), stores[t])
        BY <2>2, <3>1 DEF StoresTyped
      <4> HIDE DEF defined
      <4> QED BY <4>1, <4>2, UpgradeServes
    <3> HIDE DEF wanted, defined
    <3> QED BY <2>1, <2>2, <3>1 DEF StoresTyped
  <2> QED BY <1>1, <1>2, <2>2 DEF Upgrade
<1>3. ASSUME NEW o \in Openers, DropUpgrade(o) PROVE StoresTyped'
  <2>1. Target \in Nat \ {0}
    BY <1>3, TargetTyped DEF DropUpgrade, Exclusive
  <2>2. CASE /\ version' = Target
             /\ stores' = [t \in Tables |->
                            IF t \in opener[o].tables THEN NoStore ELSE stores[t]]
    BY <2>1, <2>2 DEF StoresTyped
  <2> QED BY <1>1, <1>3, <2>2 DEF DropUpgrade
<1>4. ASSUME NEW o \in Openers, DeleteUpgrade(o) PROVE StoresTyped'
  BY <1>4 DEF DeleteUpgrade, StoresTyped
<1> QED BY <1>1, <1>2, <1>3, <1>4, UpgradesAlone

\* Where nobody deletes the database: no request asks for more than the next version,
\* and one that asks for that has work to do.
Worth(o) ==
    \E t \in opener[o].tables : Pending(Definition[opener[o].tab][t], stores[t])

AsksWell(o) ==
    /\ opener[o].kind # "delete"
    /\ opener[o].asked <= version + 1
    /\ opener[o].kind = "connect" =>
        /\ opener[o].phase # "free" => declared[opener[o].tab] # {}
        /\ (opener[o].asked = version + 1 /\ (opener[o].phase = "asking" \/ InQueue(o)))
              => Worth(o)

Turn == stage # "queued" => queue # <<>> /\ NeedsAll(First)

AskInv == Turn /\ \A o \in Openers : AsksWell(o)

\* A request that does not ask for anything else.
Same(p) ==
    /\ opener'[p].tab = opener[p].tab
    /\ opener'[p].kind = opener[p].kind
    /\ opener'[p].asked = opener[p].asked
    /\ opener'[p].tables = opener[p].tables
    /\ opener'[p].phase = "asking" => opener[p].phase = "asking"
    /\ opener'[p].phase # "free" => opener[p].phase # "free"

LEMMA SameAsks ==
    ASSUME AskInv, NEW p \in Openers, Same(p), opener[p].tab \in Tabs,
           UNCHANGED <<version, stores>>,
           \A tab \in Tabs : declared[tab] \subseteq declared'[tab],
           InQueue(p)' => InQueue(p) \/ opener[p].phase = "asking"
    PROVE  AsksWell(p)'
<1>1. AsksWell(p)
  BY DEF AskInv
<1>2. declared[opener[p].tab] # {} => declared'[opener[p].tab] # {}
  OBVIOUS
<1>3. Worth(p) => Worth(p)'
  BY DEF Worth, Same
<1> QED BY <1>1, <1>2, <1>3 DEF AsksWell, Same

\* The request served asks well, and the others as before.
LEMMA ServedAsks ==
    ASSUME OwnInv, FitInv, AskInv, NEW o \in Openers, Serve(o), Served,
           \A p \in Openers \ {o} : opener'[p] = opener[p],
           Same(o) \/ AsksWell(o)',
           UNCHANGED <<version, stores, declared>>
    PROVE  AskInv'
<1>1. queue # <<>> /\ queue' = Tail(queue) /\ queue \in Seq(Openers)
  BY DEF Serve, Served, OwnInv, Shape
<1>2. \A p : InQueue(p)' => InQueue(p)
  BY <1>1 DEF InQueue
<1>3. ASSUME NEW p \in Openers, Same(p) PROVE AsksWell(p)'
  BY <1>2, <1>3, SameAsks DEF OwnInv, Shape, Requests
<1>4. \A p \in Openers \ {o} : Same(p)
  BY DEF Same
<1>5. Turn'
  BY DEF Turn, Served
<1> QED BY <1>3, <1>4, <1>5 DEF AskInv

\* So do those that are checked.
LEMMA CheckedAsks ==
    ASSUME OwnInv, FitInv, AskInv, NEW o \in Openers, Check(o),
           \A p \in Openers \ {o} : opener'[p] = opener[p],
           Same(o) \/ AsksWell(o)',
           UNCHANGED <<browser, declared>>
    PROVE  AskInv'
<1>1. \A p : InQueue(p)' => InQueue(p)
  BY DEF InQueue, browser
<1>2. ASSUME NEW p \in Openers, Same(p) PROVE AsksWell(p)'
  BY <1>1, <1>2, SameAsks DEF OwnInv, Shape, Requests, browser
<1>3. \A p \in Openers \ {o} : Same(p)
  BY DEF Same
<1>4. \A i \in DOMAIN queue : queue[i] # o /\ queue[i] \in Openers
  BY DEF Check, OwnInv, Shape, CheckedLeft
<1>5. queue # <<>> => First \in Openers \ {o}
  <2>1. queue # <<>> => 1 \in DOMAIN queue /\ Head(queue) = queue[1]
    BY DEF OwnInv, Shape
  <2> QED BY <1>4, <2>1 DEF First
<1>6. queue # <<>> => opener'[First] = opener[First]
  BY <1>5
<1>7. Turn'
  BY <1>6 DEF AskInv, Turn, NeedsAll, Target, First, browser
<1> QED BY <1>2, <1>3, <1>7 DEF AskInv

LEMMA InitAsks == Init => AskInv
<1> SUFFICES ASSUME Init PROVE AskInv
  OBVIOUS
<1>1. version = 0 /\ stage = "queued" /\ queue = <<>>
  BY DEF Init
<1>2. \A o \in Openers : /\ opener[o].kind = "connect" /\ opener[o].phase = "free"
                         /\ opener[o].asked = 0
  BY DEF Init, Request
<1> QED BY <1>1, <1>2 DEF AskInv, Turn, AsksWell

\* The request that is served asks for the next version when it needs the database
\* for itself.
LEMMA TargetIsNext ==
    ASSUME OwnInv, Plain, AskInv, NEW o \in Openers, Exclusive(o)
    PROVE  /\ Target = version + 1
           /\ opener[o].asked \in {0, version + 1}
           /\ opener[o].asked = 0 => version = 0
<1>1. First = o /\ NeedsAll(o) /\ opener[o].kind # "delete" /\ opener[o].asked <= version + 1
  BY DEF Exclusive, Serve, AskInv, Turn, AsksWell
<1>2. version \in Nat /\ opener[o].asked \in Nat
  BY DEF Plain, OwnInv, Shape, Requests
<1> QED BY <1>1, <1>2 DEF NeedsAll, Target

\* A rise leaves every other request behind.
LEMMA RiseAsks ==
    ASSUME OwnInv, Plain, FitInv, AskInv, NEW o \in Openers, Exclusive(o), Served,
           version' = version + 1,
           \A p \in Openers \ {o} : opener'[p] = opener[p],
           opener'[o].tab = opener[o].tab, opener'[o].kind = opener[o].kind,
           opener'[o].asked = opener[o].asked,
           UNCHANGED declared
    PROVE  AskInv'
<1>1. queue # <<>> /\ o = Head(queue) /\ queue \in Seq(Openers)
  BY DEF Exclusive, Serve, First, OwnInv, Shape
<1>2. opener[o].phase \in {"asking", "rejected"}
  BY <1>1 DEF FitInv, QueuedUnsettled
<1>3. ASSUME NEW p \in Openers PROVE AsksWell(p)'
  <2>1. /\ opener'[p].tab = opener[p].tab /\ opener'[p].kind = opener[p].kind
        /\ opener'[p].asked = opener[p].asked
        /\ opener'[p].phase # "free" => opener[p].phase # "free"
    BY <1>2
  <2>2. version \in Nat /\ opener[p].asked \in Nat
    BY DEF Plain, OwnInv, Shape, Requests
  <2>3. AsksWell(p)
    BY DEF AskInv
  <2> QED BY <2>1, <2>2, <2>3 DEF AsksWell
<1>4. Turn'
  BY DEF Turn, Served
<1> QED BY <1>3, <1>4 DEF AskInv

LEMMA NextAsks ==
    OwnInv /\ Plain /\ FitInv /\ AskInv /\ "delete" \notin Operations /\ [Next]_vars
        => AskInv'
<1> SUFFICES ASSUME OwnInv, Plain, FitInv, AskInv, "delete" \notin Operations, [Next]_vars
             PROVE  AskInv'
  OBVIOUS
<1>0. /\ opener \in [Openers -> Requests] /\ queue \in Seq(Openers)
      /\ version \in Nat
      /\ \A o \in Openers : opener[o] \in Requests /\ opener[o].tab \in Tabs
  BY DEF OwnInv, Shape, Requests, Plain
<1>1. ASSUME NEW o \in Openers, Serve(o)
      PROVE  opener[o].phase \in {"asking", "rejected"}
  BY <1>0, <1>1 DEF Serve, First, FitInv, QueuedUnsettled
<1>2. CASE TabStep
  <2>1. /\ UNCHANGED <<version, stores, queue, stage>>
        /\ \A p \in Openers : Kept(p) \/ New(p)
        /\ \A tab \in Tabs : declared[tab] \subseteq declared'[tab]
    BY <1>2, TabFrames DEF TabFrame
  <2>2. ASSUME NEW p \in Openers, Kept(p) PROVE AsksWell(p)'
    <3>1. Same(p)
      BY <2>2 DEF Kept, Same
    <3>2. InQueue(p)' => InQueue(p)
      BY <2>1 DEF InQueue
    <3> QED BY <1>0, <2>1, <3>1, <3>2, SameAsks
  <2>3. ASSUME NEW p \in Openers, New(p) PROVE AsksWell(p)'
    <3>1. opener'[p].tab \in Tabs
      BY NextOwnInv DEF OwnInv, Shape, Requests
    <3>2. declared[opener'[p].tab] \subseteq declared'[opener'[p].tab]
      BY <2>1, <3>1
    <3> QED BY <1>0, <2>1, <2>3, <3>2 DEF New, AsksWell
  <2>4. Turn'
    <3>1. queue # <<>> => First \in Openers /\ InQueue(First)
      <4>1. queue # <<>> => 1 \in DOMAIN queue /\ Head(queue) = queue[1]
        BY <1>0
      <4> QED BY <1>0, <4>1 DEF First, InQueue
    <3>2. queue # <<>> => Kept(First)
      BY <2>1, <3>1 DEF New, Free
    <3> QED BY <2>1, <3>2 DEF AskInv, Turn, NeedsAll, Target, First, Kept
  <2> QED BY <2>1, <2>2, <2>3, <2>4 DEF AskInv
<1>3. ASSUME UNCHANGED <<version, stores, queue, opener, declared>>, Turn'
      PROVE  AskInv'
  BY <1>3 DEF AskInv, AsksWell, Worth, InQueue
<1>4. ASSUME NEW c \in Calls, CallWorks(c) PROVE AskInv'
  <2>1. UNCHANGED <<version, stores, queue, stage, opener, declared>>
    BY <1>4 DEF CallWorks, browser, tabs
  <2>2. Turn'
    BY <2>1 DEF AskInv, Turn, NeedsAll, Target, First
  <2> QED BY <1>3, <2>1, <2>2
<1>5. ASSUME UNCHANGED vars PROVE AskInv'
  <2>1. UNCHANGED <<version, stores, queue, stage, opener, declared>>
    BY <1>5 DEF vars, browser, tabs
  <2>2. Turn'
    BY <2>1 DEF AskInv, Turn, NeedsAll, Target, First
  <2> QED BY <1>3, <2>1, <2>2
<1>6. ASSUME NEW o \in Openers, Notify(o) PROVE AskInv'
  <2>1. /\ UNCHANGED <<version, stores, queue, opener, declared>>
        /\ queue # <<>> /\ First = o /\ NeedsAll(o)
    BY <1>6 DEF Notify, tabs
  <2>2. Turn'
    BY <2>1 DEF Turn, NeedsAll, Target, First
  <2> QED BY <1>3, <2>1, <2>2
<1>7. ASSUME NEW o \in Openers, Arrive(o) PROVE AskInv'
  <2>1. /\ opener[o].phase = "asking" /\ queue' = Append(queue, o)
        /\ UNCHANGED <<version, stores, stage, opener, declared>>
    BY <1>7 DEF Arrive, tabs
  <2>2. \A p : InQueue(p)' => InQueue(p) \/ p = o
    BY <1>0, <2>1 DEF InQueue
  <2>3. \A p \in Openers : AsksWell(p)'
    <3> TAKE p \in Openers
    <3>1. Same(p)
      BY <2>1 DEF Same
    <3> QED BY <1>0, <2>1, <2>2, <3>1, SameAsks
  <2>4. queue # <<>> => queue' # <<>> /\ Head(queue') = Head(queue)
    BY <1>0, <2>1
  <2>5. Turn'
    BY <2>1, <2>4 DEF AskInv, Turn, NeedsAll, Target, First
  <2> QED BY <2>3, <2>5 DEF AskInv
<1>8. ASSUME NEW o \in Openers, OpenSucceeds(o) PROVE AskInv'
  <2>1. Serve(o) /\ Served /\ UNCHANGED <<version, stores, declared>>
    BY <1>8 DEF OpenSucceeds, tabs
  <2>2. \A i \in DOMAIN queue' : queue'[i] # o
    BY <2>1, FirstUnused DEF Serve, Served, First
  <2>3. CASE opener' = [opener EXCEPT ![o].phase = "checking", ![o].open = TRUE,
                                      ![o].tables = declared[opener[o].tab]]
    <3>1. /\ opener'[o].tab = opener[o].tab /\ opener'[o].kind = opener[o].kind
          /\ opener'[o].asked = opener[o].asked /\ opener'[o].phase = "checking"
          /\ \A p \in Openers \ {o} : opener'[p] = opener[p]
      BY <1>0, <2>3 DEF Requests
    <3>2. AsksWell(o) /\ opener[o].phase # "free"
      BY <1>1, <2>1 DEF AskInv
    <3>3. ~InQueue(o)'
      BY <2>2 DEF InQueue
    <3>4. AsksWell(o)'
      BY <2>1, <3>1, <3>2, <3>3 DEF AsksWell
    <3> QED BY <2>1, <3>1, <3>4, ServedAsks
  <2>4. CASE opener' = [opener EXCEPT ![o].kind = "drop", ![o].asked = version + 1]
    <3>1. /\ opener'[o].kind = "drop" /\ opener'[o].asked = version + 1
          /\ \A p \in Openers \ {o} : opener'[p] = opener[p]
      BY <1>0, <2>4 DEF Requests
    <3>2. AsksWell(o)'
      BY <1>0, <2>1, <3>1 DEF AsksWell
    <3> QED BY <2>1, <3>1, <3>2, ServedAsks
  <2>5. CASE opener' = [opener EXCEPT ![o].phase = "resolved"]
    <3>1. Same(o) /\ \A p \in Openers \ {o} : opener'[p] = opener[p]
      BY <1>0, <1>1, <2>1, <2>5 DEF Requests, Same
    <3> QED BY <2>1, <3>1, ServedAsks
  <2> QED BY <1>8, <2>3, <2>4, <2>5 DEF OpenSucceeds
<1>9. ASSUME NEW o \in Openers, Serve(o), Served, Rejected(o), UNCHANGED <<version, stores>>
      PROVE  AskInv'
  <2>1. Same(o) /\ \A p \in Openers \ {o} : opener'[p] = opener[p]
    BY <1>0, <1>1, <1>9 DEF Requests, Same, Rejected
  <2> QED BY <1>9, <2>1, ServedAsks DEF Rejected
<1>10. ASSUME NEW o \in Openers, VersionError(o) PROVE AskInv'
  <2>1. Serve(o) /\ Served /\ UNCHANGED <<version, stores, declared>>
    BY <1>10 DEF VersionError, Rejected, tabs
  <2>2. CASE opener' = [opener EXCEPT ![o].asked = 0]
    <3>1. /\ opener'[o].tab = opener[o].tab /\ opener'[o].kind = opener[o].kind
          /\ opener'[o].asked = 0 /\ opener'[o].phase = opener[o].phase
          /\ \A p \in Openers \ {o} : opener'[p] = opener[p]
      BY <1>0, <2>2 DEF Requests
    <3>2. AsksWell(o)
      BY DEF AskInv
    <3>3. AsksWell(o)'
      BY <1>0, <2>1, <3>1, <3>2 DEF AsksWell
    <3> QED BY <2>1, <3>1, <3>3, ServedAsks
  <2> QED BY <1>9, <1>10, <2>1, <2>2 DEF VersionError
<1>11. ASSUME NEW o \in Openers, Blocked(o) PROVE AskInv'
  <2>1. /\ Serve(o) /\ stage = "notifying" /\ Rejected(o)
        /\ UNCHANGED <<version, stores, queue, declared>>
    BY <1>11 DEF Blocked, Rejected
  <2>2. Same(o) /\ \A p \in Openers \ {o} : opener'[p] = opener[p]
    BY <1>0, <1>1, <2>1 DEF Requests, Same, Rejected
  <2>3. \A p \in Openers : AsksWell(p)'
    <3> TAKE p \in Openers
    <3>1. Same(p)
      BY <2>2 DEF Same
    <3>2. InQueue(p)' => InQueue(p)
      BY <2>1 DEF InQueue
    <3> QED BY <1>0, <2>1, <3>1, <3>2, SameAsks
  <2>4. Turn'
    <3>1. First = o /\ queue # <<>> /\ NeedsAll(o)
      BY <2>1 DEF AskInv, Turn, Serve
    <3> QED BY <2>1, <2>2, <3>1 DEF Turn, NeedsAll, Target, First, Same
  <2> QED BY <2>3, <2>4 DEF AskInv
<1>12. ASSUME NEW o \in Openers, Upgrade(o) PROVE AskInv'
  <2>1. Exclusive(o) /\ Serve(o) /\ Served
    BY <1>12 DEF Upgrade, Exclusive
  <2>2. CASE Rejected(o) /\ UNCHANGED <<version, stores>>
    BY <1>9, <2>1, <2>2
  <2>3. CASE /\ version' = Target
             /\ opener' = [opener EXCEPT
                            ![o].phase  = IF stage = "blocked" THEN @ ELSE "checking",
                            ![o].open   = StaysOpen,
                            ![o].tables = declared[opener[o].tab]]
             /\ UNCHANGED tabs
    <3>1. /\ opener'[o].tab = opener[o].tab /\ opener'[o].kind = opener[o].kind
          /\ opener'[o].asked = opener[o].asked
          /\ \A p \in Openers \ {o} : opener'[p] = opener[p]
      BY <1>0, <2>3 DEF Requests
    <3> QED BY <2>1, <2>3, <3>1, TargetIsNext, RiseAsks DEF tabs
  <2> QED BY <1>12, <2>2, <2>3 DEF Upgrade
<1>13. ASSUME NEW o \in Openers, DropUpgrade(o) PROVE AskInv'
  <2>1. Exclusive(o) /\ Serve(o) /\ Served /\ UNCHANGED declared
    BY <1>13 DEF DropUpgrade, Exclusive, tabs
  <2>2. PICK phase \in {"rejected", "resolved"} :
            opener' = [opener EXCEPT ![o].phase = phase]
    <3> DEFINE phase == IF opener[o].phase = "rejected"
                           \/ DropAborts(o)
                        THEN "rejected" ELSE "resolved"
    <3>1. opener' = [opener EXCEPT ![o].phase = phase]
      BY <1>13 DEF DropUpgrade
    <3> QED BY <3>1
  <2>3. Same(o) /\ \A p \in Openers \ {o} : opener'[p] = opener[p]
    BY <1>0, <1>1, <2>1, <2>2 DEF Requests, Same
  <2>4. CASE UNCHANGED <<version, stores>>
    BY <2>1, <2>3, <2>4, ServedAsks
  <2>5. CASE version' = Target
    BY <2>1, <2>3, <2>5, TargetIsNext, RiseAsks DEF Same
  <2> QED BY <1>13, <2>4, <2>5 DEF DropUpgrade
<1>14. ASSUME NEW o \in Openers, DeleteUpgrade(o) PROVE FALSE
  BY <1>14 DEF DeleteUpgrade, AskInv, AsksWell
<1>15. ASSUME NEW o \in Openers, CheckFindsWork(o) PROVE AskInv'
  <2>1. Check(o) /\ Behind(o) /\ UNCHANGED <<browser, declared>>
    BY <1>15 DEF CheckFindsWork, tabs
  <2>2. /\ opener'[o].tab = opener[o].tab /\ opener'[o].kind = opener[o].kind
        /\ opener'[o].tables = opener[o].tables /\ opener'[o].asked = version + 1
        /\ \A p \in Openers \ {o} : opener'[p] = opener[p]
    BY <1>0, <1>15 DEF CheckFindsWork, Requests
  <2>3. AsksWell(o) /\ opener[o].phase # "free"
    BY <2>1 DEF AskInv, Check
  <2>4. Worth(o)'
    BY <2>1, <2>2 DEF Behind, Worth, browser
  <2>5. AsksWell(o)'
    BY <1>0, <2>1, <2>2, <2>3, <2>4 DEF AsksWell, browser
  <2> QED BY <2>1, <2>2, <2>5, CheckedAsks
<1>16. ASSUME NEW o \in Openers, CheckFails(o) \/ CheckPasses(o) PROVE AskInv'
  <2>1. Check(o) /\ UNCHANGED <<browser, declared>>
    BY <1>16 DEF CheckFails, CheckPasses, Rejected
  <2>2. \/ opener' = [opener EXCEPT ![o].phase = "rejected", ![o].open = FALSE]
        \/ opener' = [opener EXCEPT ![o].phase = "resolved", ![o].open = FALSE]
        \/ opener' = [opener EXCEPT ![o].phase = "resolved"]
    BY <1>16 DEF CheckFails, CheckPasses, ClosesOrphan, Rejected
  <2>3. opener[o].phase = "checking"
    BY <2>1 DEF Check
  <2>4. Same(o) /\ \A p \in Openers \ {o} : opener'[p] = opener[p]
    BY <1>0, <2>2, <2>3 DEF Requests, Same
  <2> QED BY <2>1, <2>4, CheckedAsks
<1> QED
  BY <1>2, <1>4, <1>5, <1>6, <1>7, <1>8, <1>10, <1>11, <1>12, <1>13, <1>14, <1>15, <1>16,
     NextCases
  DEF ServeFirst, Pend

\* A version is only raised by one, and for work.
THEOREM VersionsRiseForWork == Spec => RisesDoWork
<1> DEFINE Inv  == /\ OwnInv /\ Plain /\ FitInv /\ StoresTyped
                   /\ "delete" \notin Operations => AskInv
           Rule == (version' > version /\ "delete" \notin Operations)
                      => version' = version + 1 /\ stores' # stores
<1>1. Init => Inv
  BY InitOwnInv, InitPlain, InitFit, InitStores, InitAsks
<1>2. Inv /\ [Next]_vars => Inv'
  BY NextOwnInv, NextPlain, NextFit, NextStores, NextAsks
<1>3. Inv /\ [Next]_vars => Rule
  <2> SUFFICES ASSUME OwnInv, Plain, FitInv, StoresTyped, AskInv, [Next]_vars,
                      version' > version
               PROVE  version' = version + 1 /\ stores' # stores
    OBVIOUS
  <2>0. version \in Nat /\ ~(version' = version)
    BY DEF Plain
  <2>1. ASSUME NEW o \in Openers, Upgrade(o)
        PROVE  version' = version + 1 /\ stores' # stores
    <3> DEFINE wanted     == declared[opener[o].tab]
               defined(t) == Definition[opener[o].tab][t]
    <3>1. /\ Exclusive(o) /\ opener[o].kind = "connect"
          /\ \A t \in wanted : ~Mismatch(defined(t), stores[t])
          /\ version' = Target
          /\ stores' = [t \in Tables |->
                          IF t \in wanted THEN Upgraded(defined(t), stores[t])
                                          ELSE stores[t]]
      BY <2>0, <2>1 DEF Upgrade
    <3>2. /\ Target = version + 1
          /\ opener[o].asked \in {0, version + 1}
          /\ opener[o].asked = 0 => version = 0
      BY <3>1, TargetIsNext
    <3>3. /\ opener[o].tab \in Tabs /\ wanted \subseteq Tables
          /\ opener[o].phase # "free" /\ InQueue(o)
      <4>1. queue # <<>> /\ o = Head(queue) /\ queue \in Seq(Openers)
        BY <3>1 DEF Exclusive, Serve, First, OwnInv, Shape
      <4>2. 1 \in DOMAIN queue /\ queue[1] = o
        BY <4>1
      <4>3. opener[o].phase \in {"asking", "rejected"}
        BY <4>2 DEF FitInv, QueuedUnsettled
      <4> QED BY <4>2, <4>3 DEF OwnInv, Shape, Requests, Plain, InQueue
    <3>4. \E t \in wanted : Pending(defined(t), stores[t])
      <4>1. AsksWell(o)
        BY DEF AskInv
      <4>2. CASE opener[o].asked = version + 1
        BY <3>1, <3>3, <4>1, <4>2 DEF AsksWell, Worth, FitInv, TablesDeclared
      <4>3. CASE version = 0
        <5>1. PICK t \in wanted : stores[t] = NoStore
          BY <3>1, <3>3, <4>1, <4>3 DEF AsksWell, StoresTyped
        <5>2. Pending(defined(t), stores[t])
          BY <5>1 DEF Pending, Plan, CreatePlan, HasWork
        <5> QED BY <5>2
      <4> QED BY <3>2, <4>2, <4>3
    <3>5. PICK t \in wanted : Pending(defined(t), stores[t])
      BY <3>4
    <3>6. defined(t) \in Definitions /\ stores[t] \in Stores \cup {NoStore}
      BY <3>3, ConnectionsAssumption DEF StoresTyped
    <3>7. ~Mismatch(defined(t), stores[t]) /\ stores'[t] = Upgraded(defined(t), stores[t])
      BY <3>1, <3>3
    <3> HIDE DEF defined
    <3>8. stores'[t] # stores[t]
      BY <3>5, <3>6, <3>7, PendingChanges
    <3> QED BY <3>1, <3>2, <3>8
  <2>2. ASSUME NEW o \in Openers, DropUpgrade(o)
        PROVE  version' = version + 1 /\ stores' # stores
    <3>1. /\ Exclusive(o) /\ version' = Target
          /\ \E t \in opener[o].tables : stores[t] # NoStore
          /\ stores' = [t \in Tables |->
                          IF t \in opener[o].tables THEN NoStore ELSE stores[t]]
      BY <2>0, <2>2 DEF DropUpgrade
    <3>2. opener[o].tables \subseteq Tables
      BY DEF OwnInv, Shape, Requests
    <3> QED BY <3>1, <3>2, TargetIsNext
  <2>3. ASSUME NEW o \in Openers, DeleteUpgrade(o) PROVE FALSE
    BY <2>3 DEF DeleteUpgrade, AskInv, AsksWell
  <2> QED BY <2>0, <2>1, <2>2, <2>3, UpgradesAlone
<1> QED BY <1>1, <1>2, <1>3, PTL DEF Spec, RisesDoWork

-------------------------------------------------------------------------------
(* Types.                                                                      *)

KindFits(request) ==
    /\ request.phase = "checking" => request.kind = "connect"
    /\ request.kind = "look" => request.asked = 0
    /\ request.kind = "drop" => request.asked # 0

TypeInv ==
    /\ stage \in {"queued", "notifying", "blocked"}
    /\ notify \subseteq Openers
    /\ operations \in 0..MaxOperations
    /\ \A tab \in Tabs : verified[tab] \subseteq declared[tab]
    /\ \A o \in Openers : KindFits(opener[o])

LEMMA OnceCounted ==
    ASSUME NEW S, NEW q \in Seq(S), Once(q)
    PROVE  Cardinality({q[i] : i \in DOMAIN q}) = Len(q)
<1> DEFINE T == {q[i] : i \in DOMAIN q}
           D == 1..Len(q)
           f == [i \in D |-> q[i]]
<1>1. DOMAIN q = D /\ Len(q) \in Nat
  OBVIOUS
<1>2. f \in Bijection(D, T)
  <2>1. f \in [D -> T]
    BY <1>1
  <2>2. \A a, b \in D : f[a] = f[b] => a = b
    BY <1>1 DEF Once
  <2>3. \A t \in T : \E a \in D : f[a] = t
    BY <1>1
  <2> HIDE DEF T, f, D
  <2>4. f \in Injection(D, T)
    BY <2>1, <2>2 DEF Injection, IsInjective
  <2>5. f \in Surjection(D, T)
    BY <2>1, <2>3 DEF Surjection
  <2> QED BY <2>4, <2>5 DEF Bijection
<1>3. ExistsBijection(D, T)
  BY <1>2 DEF ExistsBijection
<1>4. IsFiniteSet(D) /\ Cardinality(D) = Len(q)
  BY <1>1, FS_Interval
<1> QED BY <1>3, <1>4, FS_Bijection

LEMMA InitTypeInv == Init => TypeInv
<1> SUFFICES ASSUME Init PROVE TypeInv
  OBVIOUS
<1>1. stage = "queued" /\ notify = {} /\ operations = 0
  BY DEF Init
<1>2. \A tab \in Tabs : verified[tab] = {}
  BY DEF Init
<1>3. \A o \in Openers : KindFits(opener[o])
  BY DEF Init, Request, KindFits
<1> QED BY <1>1, <1>2, <1>3, ConnectionsAssumption DEF TypeInv

LEMMA NextTypeInv == OwnInv /\ Plain /\ FitInv /\ TypeInv /\ [Next]_vars => TypeInv'
<1> SUFFICES ASSUME OwnInv, Plain, FitInv, TypeInv, [Next]_vars PROVE TypeInv'
  OBVIOUS
<1>0. /\ opener \in [Openers -> Requests]
      /\ \A o \in Openers : opener[o] \in Requests /\ opener[o].tab \in Tabs
      /\ verified \in [Tabs -> SUBSET Tables]
      /\ notify \subseteq Openers /\ stage \in {"queued", "notifying", "blocked"}
      /\ operations \in 0..MaxOperations
  BY DEF OwnInv, Shape, Requests, FitInv, TypeInv
<1>1. CASE TabStep
  <2>1. notify' \subseteq notify
    BY <1>1 DEF TabStep, Call, CallFails, CallStartsAgain, CallReleases, Finish,
                VersionChange, Close, DeleteDatabase, Declare, Drop, Removal, browser
  <2>2. operations' \in 0..MaxOperations
    <3>1. \/ operations' = operations
          \/ operations < MaxOperations /\ operations' = operations + 1
      BY <1>1 DEF TabStep, Call, CallFails, CallStartsAgain, CallReleases, Finish,
                  VersionChange, Close, DeleteDatabase, Declare, Drop, Operates
    <3> QED BY <1>0, <3>1, ConnectionsAssumption
  <2>3. /\ stage' = stage
        /\ \A p \in Openers : Kept(p) \/ New(p)
        /\ \A tab \in Tabs :
              /\ declared[tab] \subseteq declared'[tab]
              /\ verified'[tab] \in {{}, verified[tab]}
    BY <1>1, TabFrames DEF TabFrame
  <2>4. \A p \in Openers : KindFits(opener'[p])
    BY <2>3 DEF Kept, New, TypeInv, KindFits
  <2>5. \A tab \in Tabs : verified'[tab] \subseteq declared'[tab]
    BY <2>3 DEF TypeInv
  <2> QED BY <1>0, <2>1, <2>2, <2>3, <2>4, <2>5 DEF TypeInv
<1>2. ASSUME UNCHANGED <<declared, verified, operations>>,
             notify' \subseteq Openers, stage' \in {"queued", "notifying", "blocked"},
             \A p \in Openers : KindFits(opener'[p])
      PROVE  TypeInv'
  BY <1>2 DEF TypeInv
<1>3. ASSUME UNCHANGED opener
      PROVE  \A p \in Openers : KindFits(opener'[p])
  BY <1>3 DEF TypeInv
<1>4. ASSUME NEW c \in Calls, CallWorks(c) PROVE TypeInv'
  BY <1>0, <1>2, <1>3, <1>4 DEF CallWorks, browser, tabs
<1>5. CASE UNCHANGED vars
  BY <1>0, <1>2, <1>3, <1>5 DEF vars, browser, tabs
<1>6. ASSUME NEW o \in Openers, Arrive(o) \/ Notify(o) PROVE TypeInv'
  BY <1>0, <1>2, <1>3, <1>6 DEF Arrive, Notify, tabs
<1>7. ASSUME NEW o \in Openers,
             OpenSucceeds(o) \/ VersionError(o) \/ Blocked(o) \/ Upgrade(o)
             \/ DropUpgrade(o) \/ DeleteUpgrade(o)
      PROVE  TypeInv'
  <2>1. UNCHANGED <<declared, verified, operations>>
    BY <1>7 DEF OpenSucceeds, VersionError, Blocked, Upgrade, DropUpgrade, DeleteUpgrade,
                Rejected, tabs
  <2>2. notify' \subseteq Openers /\ stage' \in {"queued", "notifying", "blocked"}
    BY <1>0, <1>7 DEF OpenSucceeds, VersionError, Blocked, Upgrade, DropUpgrade,
                      DeleteUpgrade, Served
  <2>3. \/ /\ opener[o].kind = "connect"
           /\ \/ opener' = [opener EXCEPT ![o].phase = "checking", ![o].open = TRUE,
                                          ![o].tables = declared[opener[o].tab]]
              \/ opener' = [opener EXCEPT
                            ![o].phase  = IF stage = "blocked" THEN @ ELSE "checking",
                            ![o].open   = StaysOpen,
                            ![o].tables = declared[opener[o].tab]]
        \/ opener[o].kind = "connect" /\ opener' = [opener EXCEPT ![o].asked = 0]
        \/ opener' = [opener EXCEPT ![o].kind = "drop", ![o].asked = version + 1]
        \/ \E phase \in {"resolved", "rejected", opener[o].phase} :
              \/ opener' = [opener EXCEPT ![o].phase = phase]
              \/ opener' = [opener EXCEPT ![o].phase = phase, ![o].open = FALSE]
    <3>1. CASE OpenSucceeds(o)
      BY <3>1 DEF OpenSucceeds
    <3>2. CASE VersionError(o)
      BY <3>2 DEF VersionError, RetryOnVersionError, Rejected
    <3>3. CASE Blocked(o)
      BY <3>3 DEF Blocked, Rejected
    <3>4. CASE Upgrade(o)
      BY <3>4 DEF Upgrade, Rejected
    <3>5. CASE DropUpgrade(o)
      <4> DEFINE phase == IF opener[o].phase = "rejected"
                             \/ DropAborts(o)
                          THEN "rejected" ELSE "resolved"
      <4>1. opener' = [opener EXCEPT ![o].phase = phase]
        BY <3>5 DEF DropUpgrade
      <4>2. phase \in {"resolved", "rejected", opener[o].phase}
        OBVIOUS
      <4> QED BY <4>1, <4>2
    <3>6. CASE DeleteUpgrade(o)
      <4> DEFINE phase == IF opener[o].phase = "asking" THEN "resolved"
                                                        ELSE opener[o].phase
      <4>1. opener' = [opener EXCEPT ![o].phase = phase]
        BY <3>6 DEF DeleteUpgrade
      <4>2. phase \in {"resolved", "rejected", opener[o].phase}
        OBVIOUS
      <4> QED BY <4>1, <4>2
    <3> QED BY <1>7, <3>1, <3>2, <3>3, <3>4, <3>5, <3>6
  <2>4. opener[o].phase # "checking"
    <3>1. queue # <<>> /\ First = o
      BY <1>7 DEF OpenSucceeds, VersionError, Blocked, Upgrade, DropUpgrade, DeleteUpgrade,
                  Exclusive, Serve
    <3> QED BY <3>1 DEF First, OwnInv, Shape, CheckedLeft
  <2>5. ASSUME NEW p \in Openers
        PROVE  KindFits(opener'[p])
    <3>1. CASE p # o
      BY <1>0, <2>3, <3>1 DEF TypeInv
    <3>2. CASE p = o
      BY <1>0, <2>3, <2>4, <3>2 DEF Requests, TypeInv, KindFits, Plain
    <3> QED BY <3>1, <3>2
  <2> QED BY <1>2, <2>1, <2>2, <2>5
<1>8. ASSUME NEW o \in Openers, Pend(o) PROVE TypeInv'
  <2>1. Check(o) /\ UNCHANGED <<browser, declared, operations>>
    BY <1>8 DEF Pend, CheckFindsWork, CheckFails, CheckPasses, Rejected, tabs
  <2>2. \/ opener' = [opener EXCEPT ![o].phase = "rejected", ![o].open = FALSE]
        \/ opener' = [opener EXCEPT ![o].phase = "resolved", ![o].open = FALSE]
        \/ opener' = [opener EXCEPT ![o].phase = "resolved"]
        \/ opener' = [opener EXCEPT ![o].phase = "asking", ![o].open = FALSE,
                                    ![o].asked = version + 1]
    BY <1>8 DEF Pend, CheckFindsWork, CheckFails, CheckPasses, ClosesOrphan, Rejected
  <2>3. \A p \in Openers : KindFits(opener'[p])
    BY <1>0, <2>1, <2>2 DEF Requests, TypeInv, KindFits, Check
  <2>4. opener[o].tables \subseteq declared[opener[o].tab]
    BY <2>1 DEF Check, TypeInv, KindFits, FitInv, TablesDeclared
  <2>5. \/ verified' = verified
        \/ verified' = [verified EXCEPT ![opener[o].tab] = @ \cup opener[o].tables]
    BY <1>8 DEF Pend, CheckFindsWork, CheckFails, CheckPasses, Rejected, tabs
  <2>6. \A tab \in Tabs : verified'[tab] \subseteq declared[tab]
    BY <1>0, <2>4, <2>5 DEF TypeInv
  <2> QED BY <1>0, <2>1, <2>3, <2>6 DEF TypeInv, browser
<1> QED
  BY <1>1, <1>4, <1>5, <1>6, <1>7, <1>8, NextCases DEF ServeFirst

\* The types of the variables, and what the fields of an entry have to do with each other.
THEOREM ConnectionsTyped == Spec => []TypeOK
<1> DEFINE Inv == OwnInv /\ Plain /\ FitInv /\ StoresTyped /\ TypeInv
<1>1. Init => Inv
  BY InitOwnInv, InitPlain, InitFit, InitStores, InitTypeInv
<1>2. Inv /\ [Next]_vars => Inv'
  BY NextOwnInv, NextPlain, NextFit, NextStores, NextTypeInv
<1>3. Inv => TypeOK
  <2> SUFFICES ASSUME Inv PROVE TypeOK
    OBVIOUS
  <2>1. queue \in Seq(Openers) /\ Once(queue)
    BY DEF OwnInv, Shape, QueuedOnce, Once
  <2>2. Cardinality({queue[i] : i \in DOMAIN queue}) = Len(queue)
    BY <2>1, OnceCounted
  <2>3. \A tab \in Tabs : verified[tab] \subseteq (IF opened[tab] = None THEN {}
                                                   ELSE declared[tab])
    BY DEF FitInv, VerifiedOpened, TypeInv
  <2>4. \A tab \in Tabs : opened[tab] \in {None, connection[tab]}
    BY DEF OwnInv, Watched
  <2>5. calls \in [Calls -> [status : {"idle", "waiting", "working", "done", "failed"},
                             on : Openers \cup {None}]]
    BY DEF FitInv, CallsOn, CallStates
  <2>6. version \in Nat /\ declared \in [Tabs -> SUBSET Tables]
    BY DEF Plain
  <2>7. opener \in [Openers -> Requests] /\ connection \in [Tabs -> Openers \cup {None}]
    BY DEF OwnInv, Shape
  <2>8. /\ stores \in [Tables -> Stores \cup {NoStore}]
        /\ version = 0 => \A table \in Tables : stores[table] = NoStore
    BY DEF StoresTyped
  <2>9. /\ stage \in {"queued", "notifying", "blocked"} /\ notify \subseteq Openers
        /\ operations \in 0..MaxOperations
    BY DEF TypeInv
  <2> QED BY <2>1, <2>2, <2>3, <2>4, <2>5, <2>6, <2>7, <2>8, <2>9 DEF TypeOK
<1> QED BY <1>1, <1>2, <1>3, PTL DEF Spec

-------------------------------------------------------------------------------
(* What requests answer.                                                       *)

\* Every rejection has a reason in the database, and a drop that answers has left no
\* store or lost its version to another tab, for any tabs, releases and operations.
THEOREM AnswersAreGrounded == Spec => AnswersHaveAReason
<1> DEFINE Inv == OwnInv /\ Plain /\ FitInv /\ StoresTyped /\ TypeInv
           Reason(o) ==
             \/ stage' = "blocked" /\ \E p \in Openers \ {o} : StillOpen(p)
             \/ Exclusive(o)
             \/ opener[o].phase = "checking"
             \/ opener[o].kind = "drop" /\ opener[o].asked < version
           Gone(o) ==
             \/ \A t \in opener[o].tables : stores'[t] = NoStore
             \/ opener[o].kind = "drop" /\ opener[o].asked = version
           Grounded(o) ==
             /\ Ends(o, "rejected") => Reason(o)
             /\ (Ends(o, "resolved") /\ opener[o].kind \in {"look", "drop"}) => Gone(o)
<1>1. Inv /\ [Next]_vars => \A o \in Openers : Grounded(o)
  <2> SUFFICES ASSUME Inv, [Next]_vars, NEW o \in Openers PROVE Grounded(o)
    OBVIOUS
  <2> HIDE DEF Reason, Gone
  <2>0. opener \in [Openers -> Requests]
    BY DEF OwnInv, Shape
  <2>1. ASSUME opener'[o].phase = opener[o].phase \/ opener'[o].phase \notin {"resolved", "rejected"}
        PROVE  Grounded(o)
    BY <2>1 DEF Ends
  <2>2. CASE TabStep
    BY <2>1, <2>2, TabFrames DEF TabFrame, Kept, New
  <2>3. ASSUME NEW p \in Openers, p # o, ServeFirst(p) \/ Pend(p) PROVE Grounded(o)
    <3>1. CASE Arrive(p) \/ Notify(p)
      BY <2>1, <3>1 DEF Arrive, Notify
    <3>2. CASE OpenSucceeds(p)
      BY <2>0, <2>1, <2>3, <3>2 DEF OpenSucceeds
    <3>3. CASE VersionError(p) \/ Blocked(p)
      BY <2>0, <2>1, <2>3, <3>3 DEF VersionError, Blocked, Rejected
    <3>4. CASE Upgrade(p)
      BY <2>0, <2>1, <2>3, <3>4 DEF Upgrade, Rejected
    <3>5. CASE DropUpgrade(p)
      BY <2>0, <2>1, <2>3, <3>5 DEF DropUpgrade
    <3>6. CASE DeleteUpgrade(p)
      BY <2>0, <2>1, <2>3, <3>6 DEF DeleteUpgrade
    <3>7. CASE Pend(p)
      BY <2>0, <2>1, <2>3, <3>7 DEF Pend, CheckFindsWork, CheckFails, CheckPasses,
                                    ClosesOrphan, Rejected
    <3> QED BY <2>3, <3>1, <3>2, <3>3, <3>4, <3>5, <3>6, <3>7 DEF ServeFirst
  <2>4. CASE Arrive(o) \/ Notify(o)
    BY <2>1, <2>4 DEF Arrive, Notify
  <2>5. CASE OpenSucceeds(o)
    <3>1. ~Ends(o, "rejected")
      BY <2>0, <2>5 DEF OpenSucceeds, Ends, Requests
    <3>2. ASSUME Ends(o, "resolved"), opener[o].kind \in {"look", "drop"} PROVE Gone(o)
      <4>1. CASE /\ opener[o].kind = "look"
                 /\ \A table \in opener[o].tables : stores[table] = NoStore
                 /\ UNCHANGED stores
        BY <4>1 DEF Gone
      <4>2. CASE opener[o].kind = "drop"
        <5>1. Target = version /\ First = o
          BY <2>5 DEF OpenSucceeds, Serve
        <5>2. opener[o].asked # 0
          BY <4>2 DEF TypeInv, KindFits
        <5> QED BY <4>2, <5>1, <5>2 DEF Target, Gone
      <4>3. opener[o].kind = "look" =>
              /\ \A table \in opener[o].tables : stores[table] = NoStore
              /\ UNCHANGED stores
        BY <2>0, <2>5, <3>2 DEF OpenSucceeds, Ends, Requests
      <4> QED BY <3>2, <4>1, <4>2, <4>3
    <3> QED BY <3>1, <3>2
  <2>6. CASE VersionError(o)
    <3>1. Target < version /\ First = o
      BY <2>6 DEF VersionError, Serve
    <3>2. opener[o].kind = "connect" => opener' = [opener EXCEPT ![o].asked = 0]
      BY <2>6 DEF VersionError, RetryOnVersionError
    <3>3. opener[o].kind # "connect" =>
            opener' = [opener EXCEPT ![o].phase = "rejected", ![o].open = FALSE]
      BY <2>6 DEF VersionError, RetryOnVersionError, Rejected
    <3>4. opener[o].asked # 0 /\ opener[o].asked < version
      BY <3>1 DEF Target, Plain
    <3>5. opener[o].kind \in {"connect", "drop"}
      BY <2>0, <2>6, <3>4 DEF VersionError, TypeInv, KindFits, Requests, Kinds
    <3>6. CASE opener[o].kind = "connect"
      BY <2>0, <2>1, <3>2, <3>6 DEF Requests
    <3>7. CASE opener[o].kind = "drop"
      <4>1. opener'[o].phase = "rejected"
        BY <2>0, <3>3, <3>7 DEF Requests
      <4>2. Reason(o)
        BY <3>4, <3>7 DEF Reason
      <4> QED BY <4>1, <4>2 DEF Ends
    <3> QED BY <3>5, <3>6, <3>7
  <2>7. CASE Blocked(o)
    <3>1. opener'[o].phase = "rejected"
      BY <2>0, <2>7 DEF Blocked, Rejected, Requests
    <3>2. Reason(o)
      BY <2>7 DEF Blocked, Alone, Reason
    <3> QED BY <3>1, <3>2 DEF Ends
  <2>8. CASE Upgrade(o)
    <3>1. Reason(o) /\ opener[o].kind = "connect"
      BY <2>8 DEF Upgrade, Reason
    <3> QED BY <3>1
  <2>9. CASE DropUpgrade(o)
    <3>1. Reason(o)
      BY <2>9 DEF DropUpgrade, Reason
    <3>2. ASSUME Ends(o, "resolved") PROVE Gone(o)
      <4>1. ~DropAborts(o)
        BY <2>0, <2>9, <3>2 DEF DropUpgrade, Ends, Requests
      <4>2. CASE opener[o].kind = "look"
        <5>1. version = 0 /\ UNCHANGED stores
          BY <2>9, <4>1, <4>2 DEF DropUpgrade, DropAborts
        <5>2. opener[o].tables \subseteq Tables
          BY <2>0 DEF Requests
        <5> QED BY <5>1, <5>2 DEF StoresTyped, Gone
      <4>3. CASE opener[o].kind = "drop"
        <5>1. stores' = [t \in Tables |->
                            IF t \in opener[o].tables THEN NoStore ELSE stores[t]]
          BY <2>9, <4>1, <4>3 DEF DropUpgrade, DropAborts
        <5>2. opener[o].tables \subseteq Tables
          BY <2>0 DEF Requests
        <5> QED BY <5>1, <5>2 DEF Gone
      <4> QED BY <2>9, <4>2, <4>3 DEF DropUpgrade
    <3> QED BY <3>1, <3>2
  <2>10. CASE DeleteUpgrade(o)
    <3>1. opener[o].kind = "delete" /\ Reason(o)
      BY <2>10 DEF DeleteUpgrade, Reason
    <3> QED BY <3>1
  <2>11. CASE Pend(o)
    <3>1. opener[o].phase = "checking"
      BY <2>11 DEF Pend, CheckFindsWork, CheckFails, CheckPasses, Check
    <3>2. opener[o].kind = "connect"
      BY <3>1 DEF TypeInv, KindFits
    <3> QED BY <3>1, <3>2 DEF Reason
  <2>12. ASSUME NEW c \in Calls, CallWorks(c) PROVE Grounded(o)
    BY <2>1, <2>12 DEF CallWorks
  <2>13. CASE UNCHANGED vars
    BY <2>1, <2>13 DEF vars
  <2> QED
    BY <2>2, <2>3, <2>4, <2>5, <2>6, <2>7, <2>8, <2>9, <2>10, <2>11, <2>12, <2>13, NextCases
    DEF ServeFirst
<1>2. Init => Inv
  BY InitOwnInv, InitPlain, InitFit, InitStores, InitTypeInv
<1>3. Inv /\ [Next]_vars => Inv'
  BY NextOwnInv, NextPlain, NextFit, NextStores, NextTypeInv
<1> QED BY <1>1, <1>2, <1>3, PTL DEF Spec, AnswersHaveAReason
===============================================================================
