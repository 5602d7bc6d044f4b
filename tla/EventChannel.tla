----------------------------- MODULE EventChannel -----------------------------
(***************************************************************************)
(* The channel of events inside a process: InMemoryEventChannel and the    *)
(* Emitter it is built on (packages/ddd, infrastructure/event/in-memory),  *)
(* with the listeners that DomainEventBus subscribes.                      *)
(*                                                                         *)
(* Everything runs on one thread and is interleaved at each await: between *)
(* two listeners of a delivery other sends go on, and subscriptions come   *)
(* and go.  A listener may publish, which starts a send of its own that it *)
(* awaits.                                                                 *)
(***************************************************************************)
EXTENDS Naturals, Sequences, SequencesExt

CONSTANTS
    Names,          \* of events
    Subscriptions,  \* calls of receive, each with the listener it adds
    ReceiverOf,     \* the event name and the consumer of each
    Sends,          \* calls of send
    BatchOf,        \* what each is given: the names of its events
    None

Receivers == {ReceiverOf[l] : l \in Subscriptions}

ASSUME ChannelAssumption ==
    /\ \A l \in Subscriptions : /\ DOMAIN ReceiverOf[l] = {"name", "consumer"}
                               /\ ReceiverOf[l].name \in Names
    /\ BatchOf \in [Sends -> Seq(Names)]
    /\ None \notin Subscriptions
    /\ Sends \cap {"idle", "running", "failed"} = {}

VARIABLES
    delivery,   \* serial or parallel
    events,     \* the Set of listeners of each name: told by the first it was made for
    members,    \* the listeners of each Set, in order of insertion
    receivers,  \* those that may not receive again
    status,     \* of each subscription: unused, open or closed
    send,       \* the sends
    handler,    \* what each listener called for the current event of a send is doing
    received    \* history: the events of each send handed to each receiver

vars == <<delivery, events, members, receivers, status, send, handler, received>>

\* A send awaits the listeners of one event after another.  set and snapshot are the
\* locals of emit and emitSerial, turn how many of the snapshot had their turn;
\* audience (history) are the subscriptions open when it began.  All this is gone when
\* it settles.
Phases == {"unsent", "emitting", "resolved", "rejected"}
Sendings == [phase : Phases, at : Nat, set : Subscriptions \cup {None},
             snapshot : Seq(Subscriptions), turn : Nat, audience : SUBSET Subscriptions]
AtRest(phase) ==
    [phase |-> phase, at |-> 0, set |-> None, snapshot |-> <<>>, turn |-> 0,
     audience |-> {}]

NoHandlers == [l \in Subscriptions |-> "idle"]

Open == {l \in Subscriptions : status[l] = "open"}

-------------------------------------------------------------------------------
(* The emitter.                                                                *)

ListenersOf(name) == IF events[name] = None THEN <<>> ELSE members[events[name]]

Has(set, l) == set # None /\ l \in Range(members[set])

\* on: a name without a Set gets a new one.
On(name, l) ==
    LET set == IF events[name] = None THEN l ELSE events[name]
    IN  /\ events'  = [events EXCEPT ![name] = set]
        /\ members' = [members EXCEPT ![set] = Append(@, l)]

\* off: a Set that is empty is forgotten, although a delivery may still look at it.  A
\* Set holds a listener once.
Off(name, l) ==
    IF events[name] = None THEN UNCHANGED <<events, members>>
    ELSE LET set  == events[name]
             left == RemoveFirst(members[set], l)
         IN  /\ members' = [members EXCEPT ![set] = left]
             /\ events'  = [events EXCEPT ![name] = IF left = <<>> THEN None ELSE @]

\* emit and emitSerial until their first await: the listeners are those of now.
\* Mutant: it goes on from where the event before it ended.
EmittingOn(s, i, audience) ==
    [phase |-> "emitting", at |-> i, set |-> events[BatchOf[s][i]],
     snapshot |-> ListenersOf(BatchOf[s][i]), turn |-> send[s].turn, audience |-> audience]
Emitting(s, i, audience) ==
    [phase |-> "emitting", at |-> i, set |-> events[BatchOf[s][i]],
     snapshot |-> ListenersOf(BatchOf[s][i]), turn |-> 0, audience |-> audience]

-------------------------------------------------------------------------------
(* receive and close.                                                          *)

Receive(l) ==
    /\ status[l] = "unused"
    /\ ReceiverOf[l] \notin receivers
    /\ receivers' = receivers \cup {ReceiverOf[l]}
    /\ On(ReceiverOf[l].name, l)
    /\ status' = [status EXCEPT ![l] = "open"]
    /\ UNCHANGED <<delivery, send, handler, received>>

\* Closing a second time, or late, does nothing.  Mutant: it closes again.
IsOpenAlways(l) == TRUE
IsOpen(l)       == status[l] = "open"

Close(l) ==
    /\ status[l] # "unused"
    /\ IsOpen(l)
    /\ status' = [status EXCEPT ![l] = "closed"]
    /\ Off(ReceiverOf[l].name, l)
    /\ receivers' = receivers \ {ReceiverOf[l]}
    /\ UNCHANGED <<delivery, send, handler, received>>

-------------------------------------------------------------------------------
(* send.                                                                       *)

\* A send begins: its first event is emitted at once.
Begun(s) == IF BatchOf[s] = <<>> THEN AtRest("resolved") ELSE Emitting(s, 1, Open)

Publish(s) ==
    /\ send[s].phase = "unsent"
    /\ send' = [send EXCEPT ![s] = Begun(s)]
    /\ UNCHANGED <<delivery, events, members, receivers, status, handler, received>>

Busy(s)   == \E l \in Subscriptions : handler[s][l] \notin {"idle", "failed"}
Failed(s) == \E l \in Subscriptions : handler[s][l] = "failed"

\* A listener of the snapshot has its turn: in serial delivery when the one before has
\* ended well.  One that was closed meanwhile is skipped.  Mutant: it is called.
CallsClosed(set, l) == TRUE
Calls(set, l)       == Has(set, l)

NextListener(s) ==
    /\ send[s].phase = "emitting"
    /\ send[s].turn < Len(send[s].snapshot)
    /\ delivery = "serial" => ~Busy(s) /\ ~Failed(s)
    /\ send' = [send EXCEPT ![s].turn = @ + 1]
    /\ LET l == send[s].snapshot[send[s].turn + 1]
       IN  IF Calls(send[s].set, l)
           THEN /\ handler'  = [handler EXCEPT ![s][l] = "running"]
                /\ received' = [received EXCEPT ![ReceiverOf[l]][s] =
                                  Append(@, send[s].at)]
           ELSE UNCHANGED <<handler, received>>
    /\ UNCHANGED <<delivery, events, members, receivers, status>>

\* All the listeners of the event ended.  allSettled of emit waits for those after one
\* that failed; emitSerial does not call them.  Mutant: emit does not wait either.
EndedAtFailure(s) ==
    \/ Failed(s)
    \/ send[s].turn = Len(send[s].snapshot) /\ ~Busy(s)
Ended(s) ==
    /\ ~Busy(s)
    /\ \/ send[s].turn = Len(send[s].snapshot)
       \/ delivery = "serial" /\ Failed(s)

\* The next event of the batch, or the end: a failure stops the events after it.
EventHandled(s) ==
    /\ send[s].phase = "emitting"
    /\ Ended(s)
    /\ send' = [send EXCEPT ![s] =
         IF Failed(s) THEN AtRest("rejected")
         ELSE IF @.at = Len(BatchOf[s]) THEN AtRest("resolved")
         ELSE Emitting(s, @.at + 1, @.audience)]
    /\ handler' = [handler EXCEPT ![s] =
         [l \in Subscriptions |-> IF @[l] = "failed" THEN "idle" ELSE @[l]]]
    /\ UNCHANGED <<delivery, events, members, receivers, status, received>>

-------------------------------------------------------------------------------
(* A listener: handle of EventListener, called by deliver of DomainEventBus.   *)

\* It publishes, and awaits that.
HandlerPublishes(s, l, nested) ==
    /\ handler[s][l] = "running"
    /\ send[nested].phase = "unsent"
    /\ send' = [send EXCEPT ![nested] = Begun(nested)]
    /\ handler' = [handler EXCEPT ![s][l] = nested]
    /\ UNCHANGED <<delivery, events, members, receivers, status, received>>

HandlerResumes(s, l) ==
    \E nested \in Sends :
        /\ handler[s][l] = nested
        /\ send[nested].phase \in {"resolved", "rejected"}
        /\ handler' = [handler EXCEPT ![s][l] =
                         IF send[nested].phase = "resolved" THEN "running" ELSE "failed"]
        /\ UNCHANGED <<delivery, events, members, receivers, status, send, received>>

\* It returns, or throws: deliver logs the error and throws it again.
HandlerEnds(s, l) ==
    /\ handler[s][l] = "running"
    /\ \E end \in {"idle", "failed"} : handler' = [handler EXCEPT ![s][l] = end]
    /\ UNCHANGED <<delivery, events, members, receivers, status, send, received>>

-------------------------------------------------------------------------------
Init ==
    /\ delivery \in {"serial", "parallel"}
    /\ events    = [name \in Names |-> None]
    /\ members   = [l \in Subscriptions |-> <<>>]
    /\ receivers = {}
    /\ status    = [l \in Subscriptions |-> "unused"]
    /\ send      = [s \in Sends |-> AtRest("unsent")]
    /\ handler   = [s \in Sends |-> NoHandlers]
    /\ received  = [r \in Receivers |-> [s \in Sends |-> <<>>]]

Deliver(s) ==
    \/ NextListener(s) \/ EventHandled(s)
    \/ \E l \in Subscriptions : HandlerResumes(s, l) \/ HandlerEnds(s, l)

Next ==
    \/ \E l \in Subscriptions : Receive(l) \/ Close(l)
    \/ \E s \in Sends :
        \/ Publish(s) \/ Deliver(s)
        \/ \E l \in Subscriptions, nested \in Sends : HandlerPublishes(s, l, nested)

Spec == Init /\ [][Next]_vars

-------------------------------------------------------------------------------
TypeOK ==
    /\ delivery \in {"serial", "parallel"}
    /\ events \in [Names -> Subscriptions \cup {None}]
    /\ members \in [Subscriptions -> Seq(Subscriptions)]
    /\ receivers \subseteq Receivers
    /\ status \in [Subscriptions -> {"unused", "open", "closed"}]
    /\ send \in [Sends -> Sendings]
    /\ \A s \in Sends :
        /\ send[s].turn <= Len(send[s].snapshot)
        /\ send[s].phase = "emitting" => send[s].at \in DOMAIN BatchOf[s]
    /\ handler \in [Sends -> [Subscriptions -> {"idle", "running", "failed"}
                                               \cup Sends]]
    /\ received \in [Receivers -> [Sends -> Seq(Nat)]]

\* The two registers of who receives agree: the names taken in the channel are those of
\* the open subscriptions, one each, and each listens once in the emitter, in the Set
\* that its name has now.  So a consumer that was refused is refused rightly, one that
\* closed can come back, and none is called twice or forgotten, however often and late
\* the others close.
OneListenerEach ==
    /\ receivers = {ReceiverOf[l] : l \in Open}
    /\ \A l, o \in Open : ReceiverOf[l] = ReceiverOf[o] => l = o
    /\ \A name \in Names :
        /\ Range(ListenersOf(name)) = {l \in Open : ReceiverOf[l].name = name}
        /\ IsInjective(ListenersOf(name))
        /\ events[name] # None => ListenersOf(name) # <<>>

\* A send that settled has left nothing running behind: no listener it called, nor any
\* send that these made.  Who awaits publish may rely on the reactions being over, with
\* either outcome.
SettledIsQuiet ==
    \A s \in Sends : send[s].phase \in {"resolved", "rejected"} => ~Busy(s)

\* What the channel promises, of which the code of emit and emitSerial keeps track only
\* by a snapshot and the Set it was taken of: a consumer gets the events of a send in
\* their order, once, and none after its close; a send that resolves has reached all that
\* were open from its beginning; a consumer has one open subscription.
Sent == [s \in Sends |->
            [audience |-> send[s].audience,
             outcome  |-> IF send[s].phase = "emitting" THEN "pending" ELSE send[s].phase]]

Contract == INSTANCE EventDelivery WITH sent <- Sent

KeepsTheRules == Contract!Spec
===============================================================================
