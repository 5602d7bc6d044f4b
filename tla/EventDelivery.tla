----------------------------- MODULE EventDelivery -----------------------------
(***************************************************************************)
(* What the in-memory channel of packages/ddd promises to those that send  *)
(* and receive through it: the rules of every EventChannel, and the        *)
(* choices these leave to it (a send resolves when its events have been    *)
(* handled, and is rejected when a listener fails).                        *)
(***************************************************************************)
EXTENDS Naturals, Sequences, SequencesExt

CONSTANTS Subscriptions, ReceiverOf, Sends, BatchOf

VARIABLES
    status,     \* of each subscription: unused, open or closed
    sent,       \* of each send: the outcome, and while it is pending the subscriptions
                \* that were open when it began
    received    \* by each receiver: which events of each send, in order

Receivers == {ReceiverOf[l] : l \in Subscriptions}
Open      == {l \in Subscriptions : status[l] = "open"}

AtRest(outcome) == [audience |-> {}, outcome |-> outcome]

Init ==
    /\ status   = [l \in Subscriptions |-> "unused"]
    /\ sent     = [s \in Sends |-> AtRest("unsent")]
    /\ received = [r \in Receivers |-> [s \in Sends |-> <<>>]]

\* One open subscription per receiver: an event name and a consumer.
Receive(l) ==
    /\ status[l] = "unused"
    /\ \A o \in Open : ReceiverOf[o] # ReceiverOf[l]
    /\ status' = [status EXCEPT ![l] = "open"]
    /\ UNCHANGED <<sent, received>>

Close(l) ==
    /\ l \in Open
    /\ status' = [status EXCEPT ![l] = "closed"]
    /\ UNCHANGED <<sent, received>>

\* A send of no event is over at once.
Send(s) ==
    /\ sent[s].outcome = "unsent"
    /\ sent' = [sent EXCEPT ![s] = IF BatchOf[s] = <<>> THEN AtRest("resolved")
                                   ELSE [audience |-> Open, outcome |-> "pending"]]
    /\ UNCHANGED <<status, received>>

\* An open receiver gets an event of its name, after those before it in the send, and
\* once.
Deliver(s, i, l) ==
    /\ sent[s].outcome = "pending"
    /\ i \in DOMAIN BatchOf[s]
    /\ BatchOf[s][i] = ReceiverOf[l].name
    /\ l \in Open
    /\ \A j \in Range(received[ReceiverOf[l]][s]) : j < i
    /\ received' = [received EXCEPT ![ReceiverOf[l]][s] = Append(@, i)]
    /\ UNCHANGED <<status, sent>>

\* A send that resolves has reached all that were open the whole time.
Reached(s, l) ==
    \A i \in DOMAIN BatchOf[s] :
        BatchOf[s][i] = ReceiverOf[l].name => i \in Range(received[ReceiverOf[l]][s])

Resolve(s) ==
    /\ sent[s].outcome = "pending"
    /\ \A l \in sent[s].audience \cap Open : Reached(s, l)
    /\ sent' = [sent EXCEPT ![s] = AtRest("resolved")]
    /\ UNCHANGED <<status, received>>

Reject(s) ==
    /\ sent[s].outcome = "pending"
    /\ sent' = [sent EXCEPT ![s] = AtRest("rejected")]
    /\ UNCHANGED <<status, received>>

Next ==
    \/ \E l \in Subscriptions : Receive(l) \/ Close(l)
    \/ \E s \in Sends :
        \/ Send(s) \/ Resolve(s) \/ Reject(s)
        \/ \E l \in Subscriptions : \E i \in DOMAIN BatchOf[s] : Deliver(s, i, l)

Spec == Init /\ [][Next]_<<status, sent, received>>
===============================================================================
