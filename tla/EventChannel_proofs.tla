-------------------------- MODULE EventChannel_proofs --------------------------
(***************************************************************************)
(* Proofs about EventChannel: whatever the names, the subscriptions and    *)
(* what is sent, the two registers of who receives agree, a send that      *)
(* settled has left nothing running, and the channel keeps the rules of    *)
(* EventDelivery.                                                          *)
(***************************************************************************)
EXTENDS EventChannel, SequenceTheorems, TLAPS

\* A name's Set was made for a subscription to that name that began, and a Set that is
\* not its name's now is empty: a new one never finds listeners of an old one.
SetsOwned ==
    /\ \A name \in Names : events[name] # None =>
          /\ ReceiverOf[events[name]].name = name
          /\ status[events[name]] # "unused"
    /\ \A l \in Subscriptions : events[ReceiverOf[l].name] # l => members[l] = <<>>

\* Listeners run only for a send that is being delivered.
RunForASend ==
    \A s \in Sends : send[s].phase # "emitting" =>
        \A l \in Subscriptions : handler[s][l] = "idle"

ChannelInv == TypeOK /\ OneListenerEach /\ SetsOwned /\ RunForASend

-------------------------------------------------------------------------------
(* Sequences without repetitions.                                              *)

\* The least member of a set of one.
LEMMA MinOfOne ==
    ASSUME NEW k \in Nat, NEW I, I = {k}
    PROVE  Min(I) = k
BY DEF Min

\* What is left without the k-th.
LEMMA RemoveAtShifts ==
    ASSUME NEW S, NEW q \in Seq(S), NEW k \in 1..Len(q)
    PROVE  /\ RemoveAt(q, k) \in Seq(S)
           /\ Len(RemoveAt(q, k)) = Len(q) - 1
           /\ \A i \in 1..(Len(q) - 1) : RemoveAt(q, k)[i] = q[IF i < k THEN i ELSE i + 1]
<1> DEFINE a == SubSeq(q, 1, k - 1)
           b == SubSeq(q, k + 1, Len(q))
<1>1. a \in Seq(S) /\ Len(a) = k - 1 /\ \A i \in 1..(k-1) : a[i] = q[i]
  OBVIOUS
<1>2. b \in Seq(S) /\ Len(b) = Len(q) - k /\ \A i \in 1..(Len(q) - k) : b[i] = q[k + i]
  OBVIOUS
<1> HIDE DEF a, b
<1>3. /\ a \o b \in Seq(S)
      /\ Len(a \o b) = Len(q) - 1
      /\ \A i \in 1..(Len(q) - 1) : (a \o b)[i] = IF i < k THEN a[i] ELSE b[i - (k-1)]
  <2>1. a \o b \in Seq(S) /\ Len(a \o b) = Len(a) + Len(b)
    BY <1>1, <1>2, ConcatProperties
  <2>2. \A i \in 1..(Len(a) + Len(b)) :
           (a \o b)[i] = IF i <= Len(a) THEN a[i] ELSE b[i - Len(a)]
    BY <1>1, <1>2, ConcatProperties
  <2> QED
    BY <2>1, <2>2, <1>1, <1>2
<1>4. ASSUME NEW i \in 1..(Len(q) - 1)
      PROVE  (a \o b)[i] = q[IF i < k THEN i ELSE i + 1]
  <2>1. CASE i < k
    BY <2>1, <1>1, <1>3
  <2>2. CASE ~(i < k)
    <3>1. i - (k - 1) \in 1..(Len(q) - k) /\ k + (i - (k - 1)) = i + 1
      BY <2>2
    <3> QED
      BY <3>1, <2>2, <1>2, <1>3
  <2> QED
    BY <2>1, <2>2
<1>5. RemoveAt(q, k) = a \o b
  BY DEF RemoveAt, a, b
<1> QED
  BY <1>3, <1>4, <1>5

\* Removing a member leaves the others.
LEMMA RemoveFirstLeaves ==
    ASSUME NEW S, NEW q \in Seq(S), IsInjective(q), NEW e, e \in Range(q)
    PROVE  /\ RemoveFirst(q, e) \in Seq(S)
           /\ IsInjective(RemoveFirst(q, e))
           /\ Range(RemoveFirst(q, e)) = Range(q) \ {e}
<1>1. PICK k \in 1..Len(q) : q[k] = e
  BY DEF Range
<1>2. {i \in 1..Len(q) : q[i] = e} = {k}
  BY <1>1 DEF IsInjective
<1>3. RemoveFirst(q, e) = RemoveAt(q, k)
  BY <1>1, <1>2, MinOfOne DEF RemoveFirst, SelectInSeq
<1> DEFINE r == RemoveAt(q, k)
<1>4. /\ r \in Seq(S) /\ Len(r) = Len(q) - 1
      /\ \A i \in 1..(Len(q) - 1) : r[i] = q[IF i < k THEN i ELSE i + 1]
  BY RemoveAtShifts
<1> HIDE DEF r
<1>5. IsInjective(r)
  BY <1>4, SMTT(40) DEF IsInjective
<1>6. Range(r) = Range(q) \ {e}
  <2>1. \A x \in Range(r) : x \in Range(q) /\ x # e
    BY <1>1, <1>4, SMTT(40) DEF IsInjective, Range
  <2>2. ASSUME NEW x \in Range(q), x # e PROVE x \in Range(r)
    <3>1. PICK j \in 1..Len(q) : q[j] = x
      BY DEF Range
    <3>2. CASE j < k
      <4>1. j \in 1..(Len(q)-1) /\ r[j] = x
        BY <3>1, <3>2, <1>1, <1>4
      <4> QED
        BY <4>1, <1>4 DEF Range
    <3>3. CASE j > k
      <4>1. j-1 \in 1..(Len(q)-1) /\ r[j-1] = x
        BY <3>1, <3>3, <1>1, <1>4
      <4> QED
        BY <4>1, <1>4 DEF Range
    <3> QED
      BY <3>1, <3>2, <3>3, <1>1, <2>2
  <2> QED
    BY <2>1, <2>2
<1> QED
  BY <1>3, <1>4, <1>5, <1>6 DEF r

\* The members of a sequence that one was added to.
LEMMA RangeOfAppend ==
    ASSUME NEW S, NEW q \in Seq(S), NEW e \in S
    PROVE  Range(Append(q, e)) = Range(q) \cup {e}
<1>1. /\ Len(Append(q, e)) = Len(q) + 1 /\ Append(q, e)[Len(q) + 1] = e
      /\ \A i \in 1..Len(q) : Append(q, e)[i] = q[i]
      /\ DOMAIN Append(q, e) = 1..(Len(q) + 1) /\ DOMAIN q = 1..Len(q)
  OBVIOUS
<1>2. \A x \in Range(Append(q, e)) : x \in Range(q) \cup {e}
  BY <1>1 DEF Range
<1>3. \A x \in Range(q) \cup {e} : x \in Range(Append(q, e))
  BY <1>1 DEF Range
<1> QED
  BY <1>2, <1>3

\* Adding one that is not there.
LEMMA AppendAdds ==
    ASSUME NEW S, NEW q \in Seq(S), NEW e \in S, e \notin Range(q), IsInjective(q)
    PROVE  /\ Append(q, e) \in Seq(S)
           /\ IsInjective(Append(q, e))
           /\ Range(Append(q, e)) = Range(q) \cup {e}
           /\ Append(q, e) # <<>>
<1> DEFINE r == Append(q, e)
<1>1. /\ r \in Seq(S) /\ r # <<>>
      /\ DOMAIN r = 1..(Len(q) + 1)
      /\ r[Len(q) + 1] = e
      /\ \A i \in 1..Len(q) : r[i] = q[i]
  OBVIOUS
<1> HIDE DEF r
<1>2. \A i \in DOMAIN r : i \in 1..Len(q) \/ i = Len(q) + 1
  BY <1>1
<1>3. \A i \in 1..Len(q) : q[i] # e
  BY DEF Range
<1>4. IsInjective(r)
  BY <1>1, <1>2, <1>3 DEF IsInjective
<1>5. Range(r) = Range(q) \cup {e}
  BY RangeOfAppend DEF r
<1> QED
  BY <1>1, <1>4, <1>5 DEF r

-------------------------------------------------------------------------------
(* The actions.                                                                *)

LEMMA AtRestTyped ==
    ASSUME NEW phase \in Phases
    PROVE  AtRest(phase) \in Sendings /\ AtRest(phase).phase = phase
                                      /\ AtRest(phase).turn = Len(AtRest(phase).snapshot)
BY DEF AtRest, Sendings

LEMMA InitInv == Init => ChannelInv
<1> SUFFICES ASSUME Init PROVE ChannelInv
  OBVIOUS
<1>1. TypeOK
  BY ChannelAssumption, AtRestTyped DEF Init, TypeOK, Phases, NoHandlers, Receivers
<1>2. OneListenerEach
  BY DEF Init, OneListenerEach, Open, ListenersOf, Range, IsInjective
<1>3. SetsOwned /\ RunForASend
  BY ChannelAssumption, AtRestTyped DEF Init, SetsOwned, RunForASend, NoHandlers, Phases
<1> QED
  BY <1>1, <1>2, <1>3 DEF ChannelInv

\* A step that does not touch the registers keeps them.
LEMMA RegistersKept ==
    ASSUME OneListenerEach, SetsOwned, UNCHANGED <<events, members, receivers, status>>
    PROVE  OneListenerEach' /\ SetsOwned'
BY DEF OneListenerEach, SetsOwned, Open, ListenersOf

LEMMA EmittingTyped ==
    ASSUME TypeOK, NEW s \in Sends, NEW i \in DOMAIN BatchOf[s],
           NEW audience \in SUBSET Subscriptions
    PROVE  LET e == Emitting(s, i, audience)
           IN  e \in Sendings /\ e.phase = "emitting" /\ e.at = i /\ e.turn <= Len(e.snapshot)
<1>1. BatchOf[s][i] \in Names /\ i \in Nat
  BY ChannelAssumption
<1>2. events[BatchOf[s][i]] \in Subscriptions \cup {None}
  BY <1>1 DEF TypeOK
<1>3. ListenersOf(BatchOf[s][i]) \in Seq(Subscriptions)
  BY <1>1, <1>2 DEF TypeOK, ListenersOf
<1>4. Len(ListenersOf(BatchOf[s][i])) \in Nat
  BY <1>3
<1> QED
  BY <1>1, <1>2, <1>3, <1>4 DEF Emitting, Sendings, Phases

LEMMA BegunTyped ==
    ASSUME TypeOK, NEW s \in Sends
    PROVE  /\ Begun(s) \in Sendings
           /\ Begun(s).turn <= Len(Begun(s).snapshot)
           /\ Begun(s).phase = "emitting" => Begun(s).at \in DOMAIN BatchOf[s]
           /\ Begun(s).phase \in {"resolved", "emitting"}
<1>1. CASE BatchOf[s] = <<>>
  BY <1>1, AtRestTyped DEF Begun, Phases, Sendings
<1>2. CASE BatchOf[s] # <<>>
  <2>1. 1 \in DOMAIN BatchOf[s]
    BY <1>2, ChannelAssumption
  <2>2. Begun(s) = Emitting(s, 1, Open) /\ Open \in SUBSET Subscriptions
    BY <1>2 DEF Begun, Open
  <2> QED
    BY <2>1, <2>2, EmittingTyped
<1> QED
  BY <1>1, <1>2

-------------------------------------------------------------------------------
(* receive and close.                                                          *)

LEMMA ReceiveInv ==
    ASSUME ChannelInv, NEW l \in Subscriptions, Receive(l)
    PROVE  ChannelInv'
<1> DEFINE name == ReceiverOf[l].name
           set  == IF events[name] = None THEN l ELSE events[name]
<1> USE DEF ChannelInv
<1>1. /\ name \in Names /\ ReceiverOf[l] \in Receivers
      /\ status[l] = "unused" /\ ReceiverOf[l] \notin receivers
      /\ receivers' = receivers \cup {ReceiverOf[l]}
      /\ events' = [events EXCEPT ![name] = set]
      /\ members' = [members EXCEPT ![set] = Append(@, l)]
      /\ status' = [status EXCEPT ![l] = "open"]
      /\ UNCHANGED <<delivery, send, handler, received>>
  BY ChannelAssumption DEF Receive, On, Receivers
<1>2. /\ set \in Subscriptions /\ set # None
      /\ ReceiverOf[set].name = name
      /\ members[set] = ListenersOf(name)
  BY <1>1, ChannelAssumption, SMTT(40) DEF TypeOK, SetsOwned, ListenersOf
<1>3. l \notin Open /\ l \notin Range(members[set]) /\ IsInjective(members[set])
  BY <1>1, <1>2 DEF OneListenerEach, Open
<1>4. /\ Append(members[set], l) \in Seq(Subscriptions)
      /\ IsInjective(Append(members[set], l))
      /\ Range(Append(members[set], l)) = Range(members[set]) \cup {l}
      /\ Append(members[set], l) # <<>>
  <2> DEFINE q == members[set]
  <2>1. q \in Seq(Subscriptions) /\ l \notin Range(q) /\ IsInjective(q)
    BY <1>2, <1>3 DEF TypeOK
  <2> HIDE DEF q
  <2>2. /\ Append(q, l) \in Seq(Subscriptions)
        /\ IsInjective(Append(q, l))
        /\ Range(Append(q, l)) = Range(q) \cup {l}
        /\ Append(q, l) # <<>>
    BY <2>1, AppendAdds
  <2> QED
    BY <2>2 DEF q
<1>5. Open' = Open \cup {l}
  BY <1>1 DEF Open, TypeOK
<1>6. /\ ListenersOf(name)' = Append(members[set], l)
      /\ \A n \in Names \ {name} : ListenersOf(n)' = ListenersOf(n)
  BY <1>1, <1>2, ZenonT(40) DEF ListenersOf, TypeOK, SetsOwned
<1>7. TypeOK'
  BY <1>1, <1>2, <1>4 DEF TypeOK
<1>8. OneListenerEach'
  <2>1. receivers' = {ReceiverOf[k] : k \in Open'}
    BY <1>1, <1>5 DEF OneListenerEach
  <2>2. \A k, o \in Open' : ReceiverOf[k] = ReceiverOf[o] => k = o
    BY <1>1, <1>5 DEF OneListenerEach
  <2>3. ASSUME NEW n \in Names
        PROVE  /\ Range(ListenersOf(n)') = {k \in Open' : ReceiverOf[k].name = n}
               /\ IsInjective(ListenersOf(n)')
               /\ events'[n] # None => ListenersOf(n)' # <<>>
    <3>1. CASE n = name
      BY <3>1, <1>2, <1>4, <1>5, <1>6 DEF OneListenerEach
    <3>2. CASE n # name
      BY <3>2, <1>1, <1>5, <1>6, ZenonT(40) DEF OneListenerEach, TypeOK
    <3> QED
      BY <3>1, <3>2
  <2> QED
    BY <2>1, <2>2, <2>3 DEF OneListenerEach
<1>9. SetsOwned'
  <2>1. ASSUME NEW n \in Names, events'[n] # None
        PROVE  ReceiverOf[events'[n]].name = n /\ status'[events'[n]] # "unused"
    <3>1. CASE n = name
      BY <3>1, <1>1, <1>2 DEF SetsOwned, TypeOK
    <3>2. CASE n # name
      BY <3>2, <2>1, <1>1 DEF SetsOwned, TypeOK
    <3> QED
      BY <3>1, <3>2
  <2>2. ASSUME NEW k \in Subscriptions, events'[ReceiverOf[k].name] # k
        PROVE  members'[k] = <<>>
    <3>1. ReceiverOf[k].name \in Names
      BY ChannelAssumption
    <3>2. k # set
      BY <2>2, <1>1, <1>2 DEF TypeOK
    <3>3. events[ReceiverOf[k].name] # k
      <4>1. CASE ReceiverOf[k].name = name
        BY <4>1, <3>2, ChannelAssumption
      <4>2. CASE ReceiverOf[k].name # name
        BY <4>2, <2>2, <3>1, <1>1 DEF TypeOK
      <4> QED
        BY <4>1, <4>2
    <3> QED
      BY <3>2, <3>3, <1>1 DEF SetsOwned, TypeOK
  <2> QED
    BY <2>1, <2>2 DEF SetsOwned
<1>10. RunForASend'
  BY <1>1 DEF RunForASend
<1> QED
  BY <1>7, <1>8, <1>9, <1>10

LEMMA CloseInv ==
    ASSUME ChannelInv, NEW l \in Subscriptions, Close(l)
    PROVE  ChannelInv'
<1> DEFINE name == ReceiverOf[l].name
           set  == events[name]
           left == RemoveFirst(members[set], l)
<1> USE DEF ChannelInv
<1>1. /\ name \in Names
      /\ status[l] = "open" /\ l \in Open
      /\ receivers' = receivers \ {ReceiverOf[l]}
      /\ status' = [status EXCEPT ![l] = "closed"]
      /\ UNCHANGED <<delivery, send, handler, received>>
  BY ChannelAssumption DEF Close, IsOpen, Open
<1>2. /\ l \in Range(ListenersOf(name))
      /\ IsInjective(ListenersOf(name))
  BY <1>1 DEF OneListenerEach
<1>3. set # None
  BY <1>2 DEF ListenersOf, Range
<1>4. /\ set \in Subscriptions
      /\ ReceiverOf[set].name = name
      /\ members[set] = ListenersOf(name)
      /\ members[set] \in Seq(Subscriptions)
  BY <1>1, <1>3 DEF TypeOK, SetsOwned, ListenersOf
<1>5. /\ left \in Seq(Subscriptions)
      /\ IsInjective(left)
      /\ Range(left) = Range(members[set]) \ {l}
  BY <1>2, <1>4, RemoveFirstLeaves
<1>6. /\ members' = [members EXCEPT ![set] = left]
      /\ events' = [events EXCEPT ![name] = IF left = <<>> THEN None ELSE @]
  BY <1>3 DEF Close, Off
<1>7. Open' = Open \ {l}
  BY <1>1 DEF Open, TypeOK
<1> HIDE DEF left
<1>8. /\ ListenersOf(name)' = left
      /\ \A n \in Names \ {name} : ListenersOf(n)' = ListenersOf(n)
  BY <1>1, <1>3, <1>4, <1>6 DEF ListenersOf, TypeOK, SetsOwned
<1>9. TypeOK'
  BY <1>1, <1>4, <1>5, <1>6 DEF TypeOK
<1>10. OneListenerEach'
  <2>1. receivers' = {ReceiverOf[k] : k \in Open'}
    BY <1>1, <1>7 DEF OneListenerEach
  <2>2. \A k, o \in Open' : ReceiverOf[k] = ReceiverOf[o] => k = o
    BY <1>7 DEF OneListenerEach
  <2>3. ASSUME NEW n \in Names
        PROVE  /\ Range(ListenersOf(n)') = {k \in Open' : ReceiverOf[k].name = n}
               /\ IsInjective(ListenersOf(n)')
               /\ events'[n] # None => ListenersOf(n)' # <<>>
    <3>1. CASE n = name
      BY <3>1, <1>1, <1>4, <1>5, <1>6, <1>7, <1>8 DEF OneListenerEach, TypeOK
    <3>2. CASE n # name
      BY <3>2, <1>1, <1>6, <1>7, <1>8 DEF OneListenerEach, TypeOK
    <3> QED
      BY <3>1, <3>2
  <2> QED
    BY <2>1, <2>2, <2>3 DEF OneListenerEach
<1>11. SetsOwned'
  <2>1. \A k \in Subscriptions : ReceiverOf[k].name \in Names
    BY ChannelAssumption DEF Receivers
  <2>2. \A n \in Names : events[n] \in Subscriptions \cup {None}
    BY DEF TypeOK
  <2>3. \A n \in Names :
          events'[n] = IF n = name /\ left = <<>> THEN None ELSE events[n]
    BY <1>1, <1>6 DEF TypeOK
  <2>4. \A k \in Subscriptions : status'[k] = IF k = l THEN "closed" ELSE status[k]
    BY <1>1 DEF TypeOK
  <2>5. \A k \in Subscriptions : members'[k] = IF k = set THEN left ELSE members[k]
    BY <1>6 DEF TypeOK
  <2> HIDE DEF set
  <2>6. ASSUME NEW n \in Names, events'[n] # None
        PROVE  ReceiverOf[events'[n]].name = n /\ status'[events'[n]] # "unused"
    <3>1. events'[n] = events[n] /\ events[n] \in Subscriptions
      BY <2>2, <2>3, <2>6
    <3>2. ReceiverOf[events[n]].name = n /\ status[events[n]] # "unused"
      BY <2>6, <3>1 DEF SetsOwned
    <3> QED
      BY <2>4, <3>1, <3>2
  <2>7. ASSUME NEW k \in Subscriptions, events'[ReceiverOf[k].name] # k
        PROVE  members'[k] = <<>>
    <3>1. CASE k = set
      <4>1. ReceiverOf[k].name = name /\ events[name] = set
        BY <1>4, <3>1 DEF set
      <4>2. left = <<>>
        BY <1>1, <2>3, <2>7, <3>1, <4>1
      <4> QED
        BY <2>5, <3>1, <4>2
    <3>2. CASE k # set
      <4>1. events[ReceiverOf[k].name] # k
        <5>1. CASE ReceiverOf[k].name = name
          BY <3>2, <5>1 DEF set
        <5>2. CASE ReceiverOf[k].name # name
          BY <2>1, <2>3, <2>7, <5>2
        <5> QED
          BY <5>1, <5>2
      <4>2. members[k] = <<>>
        BY <4>1 DEF SetsOwned
      <4> QED
        BY <2>5, <3>2, <4>2
    <3> QED
      BY <3>1, <3>2
  <2> QED
    BY <2>6, <2>7 DEF SetsOwned
<1>12. RunForASend'
  BY <1>1 DEF RunForASend
<1> QED
  BY <1>9, <1>10, <1>11, <1>12

-------------------------------------------------------------------------------
(* send and the listeners.                                                     *)

LEMMA PublishInv ==
    ASSUME ChannelInv, NEW s \in Sends, Publish(s)
    PROVE  ChannelInv'
<1> USE DEF ChannelInv
<1>1. /\ send[s].phase = "unsent" /\ send' = [send EXCEPT ![s] = Begun(s)]
      /\ UNCHANGED <<delivery, events, members, receivers, status, handler, received>>
  BY DEF Publish
<1>2. TypeOK'
  BY <1>1, BegunTyped DEF TypeOK
<1>3. RunForASend'
  BY <1>1 DEF RunForASend, TypeOK
<1> QED
  BY <1>1, <1>2, <1>3, RegistersKept

LEMMA NextListenerInv ==
    ASSUME ChannelInv, NEW s \in Sends, NextListener(s)
    PROVE  ChannelInv'
<1> DEFINE l == send[s].snapshot[send[s].turn + 1]
<1> USE DEF ChannelInv
<1>1. /\ send[s].phase = "emitting" /\ send[s].turn < Len(send[s].snapshot)
      /\ send' = [send EXCEPT ![s].turn = @ + 1]
      /\ UNCHANGED <<delivery, events, members, receivers, status>>
  BY DEF NextListener
<1>2. send[s] \in Sendings
  BY DEF TypeOK
<1>3. l \in Subscriptions /\ ReceiverOf[l] \in Receivers
  BY <1>1, <1>2 DEF Sendings, Receivers
<1>4. \/ /\ handler'  = [handler EXCEPT ![s][l] = "running"]
         /\ received' = [received EXCEPT ![ReceiverOf[l]][s] = Append(@, send[s].at)]
      \/ UNCHANGED <<handler, received>>
  BY DEF NextListener
<1>5. /\ send'[s] \in Sendings
      /\ send'[s].turn <= Len(send'[s].snapshot)
      /\ send'[s].phase = "emitting" /\ send'[s].at = send[s].at
      /\ \A t \in Sends \ {s} : send'[t] = send[t]
      /\ send' \in [Sends -> Sendings]
  <2> DEFINE r == [send[s] EXCEPT !.turn = @ + 1]
  <2>1. Len(send[s].snapshot) \in Nat /\ send[s].turn \in Nat
    BY <1>2 DEF Sendings
  <2>2. /\ r \in Sendings /\ r.turn = send[s].turn + 1 /\ r.at = send[s].at
        /\ r.phase = send[s].phase /\ r.snapshot = send[s].snapshot
    BY <1>2 DEF Sendings
  <2>3. send' = [send EXCEPT ![s] = r]
    BY <1>1
  <2> HIDE DEF r
  <2>4. send'[s] = r /\ \A t \in Sends \ {s} : send'[t] = send[t]
    BY <2>3 DEF TypeOK
  <2>5. send' \in [Sends -> Sendings]
    BY <2>2, <2>3 DEF TypeOK
  <2> QED
    BY <1>1, <2>1, <2>2, <2>4, <2>5
<1> HIDE DEF l
<1>6. /\ handler' \in [Sends -> [Subscriptions -> {"idle", "running", "failed"} \cup Sends]]
      /\ \A t \in Sends \ {s} : handler'[t] = handler[t]
  <2>1. CASE handler' = [handler EXCEPT ![s][l] = "running"]
    BY <2>1, <1>3 DEF TypeOK
  <2>2. CASE handler' = handler
    BY <2>2 DEF TypeOK
  <2> QED
    BY <1>4, <2>1, <2>2
<1>7. received' \in [Receivers -> [Sends -> Seq(Nat)]]
  <2>1. send[s].at \in Nat
    BY <1>2 DEF Sendings
  <2>2. \A r \in Receivers : Append(received[r][s], send[s].at) \in Seq(Nat)
    BY <2>1 DEF TypeOK
  <2>3. CASE received' = [received EXCEPT ![ReceiverOf[l]][s] = Append(@, send[s].at)]
    BY <2>2, <2>3, <1>3 DEF TypeOK
  <2>4. CASE received' = received
    BY <2>4 DEF TypeOK
  <2> QED
    BY <1>4, <2>3, <2>4
<1>8. TypeOK'
  BY <1>1, <1>5, <1>6, <1>7 DEF TypeOK
<1>9. RunForASend'
  BY <1>5, <1>6 DEF RunForASend
<1> QED
  BY <1>1, <1>8, <1>9, RegistersKept

\* A send ends when its listeners have, so it leaves none running.
LEMMA EventHandledInv ==
    ASSUME ChannelInv, NEW s \in Sends, EventHandled(s)
    PROVE  ChannelInv'
<1> DEFINE next == IF Failed(s) THEN AtRest("rejected")
                   ELSE IF send[s].at = Len(BatchOf[s]) THEN AtRest("resolved")
                   ELSE Emitting(s, send[s].at + 1, send[s].audience)
           rest == [l \in Subscriptions |->
                       IF handler[s][l] = "failed" THEN "idle" ELSE handler[s][l]]
<1> USE DEF ChannelInv
<1>1. /\ send[s].phase = "emitting" /\ ~Busy(s)
      /\ send' = [send EXCEPT ![s] = next]
      /\ handler' = [handler EXCEPT ![s] = rest]
      /\ UNCHANGED <<delivery, events, members, receivers, status, received>>
  BY DEF EventHandled, Ended
<1>2. send[s] \in Sendings /\ send[s].at \in DOMAIN BatchOf[s]
  BY <1>1 DEF TypeOK
<1>3. /\ next \in Sendings
      /\ next.turn <= Len(next.snapshot)
      /\ next.phase = "emitting" => next.at \in DOMAIN BatchOf[s]
  <2>1. CASE Failed(s)
    BY <2>1, AtRestTyped DEF Phases, Sendings
  <2>2. CASE ~Failed(s) /\ send[s].at = Len(BatchOf[s])
    BY <2>2, AtRestTyped DEF Phases, Sendings
  <2>3. CASE ~Failed(s) /\ send[s].at # Len(BatchOf[s])
    <3>1. send[s].at + 1 \in DOMAIN BatchOf[s]
      BY <2>3, <1>2, ChannelAssumption
    <3>2. send[s].audience \in SUBSET Subscriptions
      BY <1>2 DEF Sendings
    <3> QED
      BY <2>3, <3>1, <3>2, EmittingTyped
  <2> QED
    BY <2>1, <2>2, <2>3
<1>4. \A l \in Subscriptions : rest[l] = "idle"
  BY <1>1 DEF Busy
<1> HIDE DEF next
<1>5. TypeOK'
  BY <1>1, <1>3, <1>4 DEF TypeOK
<1>6. RunForASend'
  BY <1>1, <1>4 DEF RunForASend, TypeOK
<1> QED
  BY <1>1, <1>5, <1>6, RegistersKept

LEMMA HandlerInv ==
    ASSUME ChannelInv, NEW s \in Sends, NEW l \in Subscriptions,
           \/ \E nested \in Sends : HandlerPublishes(s, l, nested)
           \/ HandlerResumes(s, l) \/ HandlerEnds(s, l)
    PROVE  ChannelInv'
<1> USE DEF ChannelInv
<1>1. /\ UNCHANGED <<delivery, events, members, receivers, status, received>>
      /\ handler[s][l] # "idle"
      /\ \E to \in {"idle", "running", "failed"} \cup Sends :
            handler' = [handler EXCEPT ![s][l] = to]
  BY ChannelAssumption DEF HandlerPublishes, HandlerResumes, HandlerEnds
<1>2. send[s].phase = "emitting"
  BY <1>1 DEF RunForASend
<1>3. \/ send' = send
      \/ \E nested \in Sends : /\ send[nested].phase = "unsent"
                              /\ send' = [send EXCEPT ![nested] = Begun(nested)]
  BY DEF HandlerPublishes, HandlerResumes, HandlerEnds
<1>4. TypeOK'
  <2>1. handler' \in [Sends -> [Subscriptions -> {"idle", "running", "failed"} \cup Sends]]
    BY <1>1 DEF TypeOK
  <2>2. /\ send' \in [Sends -> Sendings]
        /\ \A t \in Sends : /\ send'[t].turn <= Len(send'[t].snapshot)
                            /\ send'[t].phase = "emitting" => send'[t].at \in DOMAIN BatchOf[t]
    BY <1>3, BegunTyped DEF TypeOK
  <2> QED
    BY <1>1, <2>1, <2>2 DEF TypeOK
<1>5. RunForASend'
  <2>1. send'[s].phase = "emitting"
    BY <1>2, <1>3 DEF TypeOK
  <2>2. \A t \in Sends \ {s} : handler'[t] = handler[t]
    BY <1>1 DEF TypeOK
  <2>3. \A t \in Sends : send'[t].phase # "emitting" => send[t].phase # "emitting"
    BY <1>3 DEF TypeOK
  <2> QED
    BY <2>1, <2>2, <2>3 DEF RunForASend
<1> QED
  BY <1>1, <1>4, <1>5, RegistersKept

-------------------------------------------------------------------------------
(* The theorems.                                                               *)

LEMMA StutterInv == ChannelInv /\ UNCHANGED vars => ChannelInv'
BY DEF vars, ChannelInv, TypeOK, OneListenerEach, SetsOwned, RunForASend, Open, ListenersOf

LEMMA NextInv == ChannelInv /\ [Next]_vars => ChannelInv'
<1> SUFFICES ASSUME ChannelInv, [Next]_vars PROVE ChannelInv'
  OBVIOUS
<1>1. CASE UNCHANGED vars
  BY <1>1, StutterInv
<1>2. CASE \E l \in Subscriptions : Receive(l) \/ Close(l)
  BY <1>2, ReceiveInv, CloseInv
<1>3. CASE \E s \in Sends : Publish(s) \/ NextListener(s) \/ EventHandled(s)
  BY <1>3, PublishInv, NextListenerInv, EventHandledInv
<1>4. CASE \E s \in Sends, l \in Subscriptions :
             \/ \E nested \in Sends : HandlerPublishes(s, l, nested)
             \/ HandlerResumes(s, l) \/ HandlerEnds(s, l)
  BY <1>4, HandlerInv
<1> QED
  BY <1>1, <1>2, <1>3, <1>4 DEF Next, Deliver

\* The invariant holds in every state the channel can be in.
THEOREM ChannelInvariant == Spec => []ChannelInv
BY InitInv, NextInv, PTL DEF Spec

\* The state is of its types: a delivery is never past the end of its snapshot or of the
\* batch of its send.
THEOREM TypeCorrect == Spec => []TypeOK
<1>1. ChannelInv => TypeOK
  BY DEF ChannelInv
<1> QED
  BY <1>1, ChannelInvariant, PTL

\* The receivers of the channel and the listeners of the emitter are those of the open
\* subscriptions, one each, however receive and close follow each other.
THEOREM ListenersMatch == Spec => []OneListenerEach
<1>1. ChannelInv => OneListenerEach
  BY DEF ChannelInv
<1> QED
  BY <1>1, ChannelInvariant, PTL

\* A send that resolved or was rejected has no listener running, nor one that awaits a
\* send of its own.
THEOREM NothingLeftRunning == Spec => []SettledIsQuiet
<1>1. ChannelInv => SettledIsQuiet
  BY DEF ChannelInv, RunForASend, SettledIsQuiet, Busy
<1> QED
  BY <1>1, ChannelInvariant, PTL

-------------------------------------------------------------------------------
(* The deliveries.  What a send still has to do to keep the rules of           *)
(* EventDelivery is in its snapshot and in the Set it was taken of: the        *)
(* snapshot was open when the event began, each of it for another receiver;    *)
(* those of it that are open still listen in that Set; a receiver has the      *)
(* event of now only from one that had its turn; and whoever was open all the  *)
(* time has what came before, and the event of now or its turn ahead.          *)

NameOf(s) == BatchOf[s][send[s].at]

Snapshots(s) ==
    LET q == send[s].snapshot
    IN  /\ send[s].set # None => ReceiverOf[send[s].set].name = NameOf(s)
        /\ \A k \in 1..Len(q) :
            /\ ReceiverOf[q[k]].name = NameOf(s)
            /\ status[q[k]] # "unused"
            /\ q[k] \in Open => events[NameOf(s)] = send[s].set
        /\ \A k, m \in 1..Len(q) : ReceiverOf[q[k]] = ReceiverOf[q[m]] => k = m

InOrder(s) ==
    \A r \in Receivers : \A j \in Range(received[r][s]) :
        /\ j <= send[s].at
        /\ j = send[s].at =>
              \E k \in 1..send[s].turn : ReceiverOf[send[s].snapshot[k]] = r

Awaits(s, l) ==
    \E k \in (send[s].turn + 1)..Len(send[s].snapshot) : send[s].snapshot[k] = l

NoneMissed(s) ==
    \A l \in send[s].audience :
        /\ status[l] # "unused"
        /\ l \in Open => \A i \in 1..send[s].at :
              BatchOf[s][i] = ReceiverOf[l].name =>
                  \/ i \in Range(received[ReceiverOf[l]][s])
                  \/ i = send[s].at /\ Awaits(s, l)

DeliveryInv(s) ==
    /\ send[s].phase = "unsent" => \A r \in Receivers : received[r][s] = <<>>
    /\ send[s].phase = "emitting" => Snapshots(s) /\ InOrder(s) /\ NoneMissed(s)

DeliveriesInv == \A s \in Sends : DeliveryInv(s)

\* The listeners of a name now: those that are open, each for another receiver.
LEMMA ListenersNow ==
    ASSUME ChannelInv, NEW name \in Names
    PROVE  /\ ListenersOf(name) \in Seq(Subscriptions)
           /\ events[name] # None => ReceiverOf[events[name]].name = name
           /\ \A k \in 1..Len(ListenersOf(name)) :
                 /\ ListenersOf(name)[k] \in Open
                 /\ ReceiverOf[ListenersOf(name)[k]].name = name
           /\ \A k, m \in 1..Len(ListenersOf(name)) :
                 ReceiverOf[ListenersOf(name)[k]] = ReceiverOf[ListenersOf(name)[m]] => k = m
           /\ \A l \in Open : ReceiverOf[l].name = name =>
                 /\ events[name] # None
                 /\ \E k \in 1..Len(ListenersOf(name)) : ListenersOf(name)[k] = l
<1> DEFINE q == ListenersOf(name)
<1>1. q \in Seq(Subscriptions)
  <2>1. CASE events[name] = None
    BY <2>1 DEF ListenersOf
  <2>2. CASE events[name] # None
    BY <2>2 DEF ListenersOf, ChannelInv, TypeOK
  <2> QED
    BY <2>1, <2>2
<1>2. events[name] = None => q = <<>>
  BY DEF ListenersOf
<1>3. Range(q) = {l \in Open : ReceiverOf[l].name = name} /\ IsInjective(q)
  BY DEF ChannelInv, OneListenerEach
<1>4. events[name] # None => ReceiverOf[events[name]].name = name
  BY DEF ChannelInv, SetsOwned
<1> HIDE DEF q
<1>5. \A k \in 1..Len(q) : q[k] \in Open /\ ReceiverOf[q[k]].name = name
  BY <1>1, <1>3 DEF Range
<1>6. \A k, m \in 1..Len(q) : ReceiverOf[q[k]] = ReceiverOf[q[m]] => k = m
  <2>1. \A k, m \in 1..Len(q) : ReceiverOf[q[k]] = ReceiverOf[q[m]] => q[k] = q[m]
    BY <1>5 DEF ChannelInv, OneListenerEach
  <2> QED
    BY <1>1, <1>3, <2>1 DEF IsInjective
<1>7. ASSUME NEW l \in Open, ReceiverOf[l].name = name
      PROVE  events[name] # None /\ \E k \in 1..Len(q) : q[k] = l
  <2>1. l \in Range(q)
    BY <1>3, <1>7
  <2>2. PICK k \in 1..Len(q) : q[k] = l
    BY <1>1, <2>1 DEF Range
  <2> QED
    BY <1>2, <2>1, <2>2 DEF Range
<1> QED
  BY <1>1, <1>4, <1>5, <1>6, <1>7 DEF q

\* Who is called is open, and listens in the Set that its name has now.
LEMMA CalledIsOpen ==
    ASSUME ChannelInv, NEW set \in Subscriptions \cup {None}, NEW l, Has(set, l)
    PROVE  l \in Open /\ ReceiverOf[l].name = ReceiverOf[set].name
<1>1. set \in Subscriptions /\ l \in Range(members[set])
  BY DEF Has
<1>2. ReceiverOf[set].name \in Names
  BY <1>1, ChannelAssumption
<1>3. members[set] # <<>>
  BY <1>1 DEF Range
<1>4. events[ReceiverOf[set].name] = set
  BY <1>1, <1>3 DEF ChannelInv, SetsOwned
<1>5. ListenersOf(ReceiverOf[set].name) = members[set]
  BY <1>1, <1>4, ChannelAssumption DEF ListenersOf
<1> QED
  BY <1>1, <1>2, <1>5 DEF ChannelInv, OneListenerEach

\* A subscription that is open and in the snapshot of a delivery is called.
LEMMA OpenIsCalled ==
    ASSUME ChannelInv, NEW s \in Sends, Snapshots(s), NameOf(s) \in Names,
           NEW k \in 1..Len(send[s].snapshot), send[s].snapshot[k] \in Open
    PROVE  Has(send[s].set, send[s].snapshot[k])
<1> DEFINE l == send[s].snapshot[k]
<1>1. ReceiverOf[l].name = NameOf(s) /\ events[NameOf(s)] = send[s].set
  BY DEF Snapshots
<1>2. l \in Range(ListenersOf(NameOf(s))) /\ events[NameOf(s)] # None
  <2>1. l \in Range(ListenersOf(NameOf(s)))
    BY <1>1 DEF ChannelInv, OneListenerEach
  <2> QED
    BY <1>1, <2>1, ListenersNow
<1> HIDE DEF l
<1>3. l \in Range(members[send[s].set])
  BY <1>1, <1>2 DEF ListenersOf
<1> QED
  BY <1>1, <1>2, <1>3 DEF Has, l

LEMMA InitDeliveries == Init => DeliveriesInv
BY DEF Init, DeliveriesInv, DeliveryInv, AtRest

\* Receive and close: nobody that a delivery began with comes back, and the Set of a
\* name is another only after it had none.
LEMMA SubscriptionsChange ==
    ASSUME ChannelInv, ChannelInv', DeliveriesInv, UNCHANGED <<send, received>>,
           \A l \in Subscriptions : status[l] # "unused" =>
               status'[l] # "unused" /\ (l \in Open' => l \in Open),
           \A name \in Names : events[name] # None /\ events'[name] # None =>
               events'[name] = events[name]
    PROVE  DeliveriesInv'
<1> SUFFICES ASSUME NEW s \in Sends
             PROVE  DeliveryInv(s)'
  BY DEF DeliveriesInv
<1>1. DeliveryInv(s)
  BY DEF DeliveriesInv
<1>2. CASE send[s].phase # "emitting"
  BY <1>1, <1>2 DEF DeliveryInv
<1>3. CASE send[s].phase = "emitting"
  <2> DEFINE q == send[s].snapshot
  <2>1. Snapshots(s) /\ InOrder(s) /\ NoneMissed(s)
    BY <1>1, <1>3 DEF DeliveryInv
  <2>2. /\ NameOf(s) \in Names /\ NameOf(s)' = NameOf(s)
        /\ q \in Seq(Subscriptions)
        /\ send[s].audience \subseteq Subscriptions
    <3>1. send[s].at \in DOMAIN BatchOf[s] /\ BatchOf[s] \in Seq(Names)
      BY <1>3, ChannelAssumption DEF ChannelInv, TypeOK
    <3>2. send[s] \in Sendings
      BY DEF ChannelInv, TypeOK
    <3> QED
      BY <3>1, <3>2 DEF NameOf, Sendings
  <2>3. ASSUME NEW k \in 1..Len(q)
        PROVE  /\ status'[q[k]] # "unused"
               /\ q[k] \in Open' => events'[NameOf(s)] = send[s].set
    <3>1. /\ q[k] \in Subscriptions /\ status[q[k]] # "unused"
          /\ ReceiverOf[q[k]].name = NameOf(s)
          /\ q[k] \in Open => events[NameOf(s)] = send[s].set
      BY <2>1, <2>2 DEF Snapshots
    <3>2. ASSUME q[k] \in Open'
          PROVE  events'[NameOf(s)] = send[s].set
      <4>1. q[k] \in Open
        BY <3>1, <3>2
      <4>2. events[NameOf(s)] # None
        BY <2>2, <3>1, <4>1, ListenersNow
      <4>3. events'[NameOf(s)] # None
        BY <2>2, <3>1, <3>2 DEF ChannelInv, OneListenerEach, ListenersOf, Range
      <4> QED
        BY <2>2, <3>1, <4>1, <4>2, <4>3
    <3> QED
      BY <3>1, <3>2
  <2>4. Snapshots(s)'
    BY <2>1, <2>2, <2>3 DEF Snapshots
  <2>5. InOrder(s)'
    BY <2>1 DEF InOrder
  <2>6. NoneMissed(s)'
    <3> SUFFICES ASSUME NEW l \in send[s].audience
                 PROVE  /\ status'[l] # "unused"
                        /\ l \in Open' => \A i \in 1..send[s].at :
                              BatchOf[s][i] = ReceiverOf[l].name =>
                                  \/ i \in Range(received[ReceiverOf[l]][s])
                                  \/ i = send[s].at /\ Awaits(s, l)
      BY DEF NoneMissed, Awaits
    <3>1. status'[l] # "unused" /\ (l \in Open' => l \in Open)
      BY <2>1, <2>2 DEF NoneMissed
    <3> QED
      BY <2>1, <3>1 DEF NoneMissed
  <2> QED
    BY <1>3, <2>4, <2>5, <2>6 DEF DeliveryInv
<1> QED
  BY <1>2, <1>3

\* A delivery that another step does not touch.
LEMMA OtherDelivery ==
    ASSUME DeliveriesInv, NEW s \in Sends, send[s] \in Sendings, send'[s] = send[s],
           UNCHANGED <<status, events>>,
           \A r \in Receivers : received'[r][s] = received[r][s]
    PROVE  DeliveryInv(s)'
<1>1. DeliveryInv(s)
  BY DEF DeliveriesInv
<1>2. Snapshots(s) => Snapshots(s)'
  BY DEF Snapshots, NameOf, Open
<1>3. ASSUME InOrder(s) PROVE InOrder(s)'
  <2> SUFFICES ASSUME NEW r \in Receivers, NEW j \in Range(received'[r][s])
               PROVE  /\ j <= send[s].at
                      /\ j = send[s].at =>
                            \E k \in 1..send[s].turn : ReceiverOf[send[s].snapshot[k]] = r
    BY DEF InOrder
  <2>1. j \in Range(received[r][s])
    OBVIOUS
  <2> QED
    BY <1>3, <2>1 DEF InOrder
<1>4. ASSUME NoneMissed(s) PROVE NoneMissed(s)'
  <2> SUFFICES ASSUME NEW l \in send[s].audience
               PROVE  /\ status[l] # "unused"
                      /\ l \in Open => \A i \in 1..send[s].at :
                            BatchOf[s][i] = ReceiverOf[l].name =>
                                \/ i \in Range(received'[ReceiverOf[l]][s])
                                \/ i = send[s].at /\ Awaits(s, l)
    BY DEF NoneMissed, Awaits, Open
  <2>1. ReceiverOf[l] \in Receivers
    BY DEF Sendings, Receivers
  <2>2. received'[ReceiverOf[l]][s] = received[ReceiverOf[l]][s]
    BY <2>1
  <2> QED
    BY <1>4, <2>2 DEF NoneMissed
<1> QED
  BY <1>1, <1>2, <1>3, <1>4 DEF DeliveryInv

LEMMA ReceiveDeliveries ==
    ASSUME ChannelInv, ChannelInv', DeliveriesInv, NEW l \in Subscriptions, Receive(l)
    PROVE  DeliveriesInv'
<1>1. /\ status[l] = "unused" /\ status' = [status EXCEPT ![l] = "open"]
      /\ On(ReceiverOf[l].name, l) /\ UNCHANGED <<send, received>>
  BY DEF Receive
<1>2. \A o \in Subscriptions : status[o] # "unused" =>
          status'[o] # "unused" /\ (o \in Open' => o \in Open)
  BY <1>1 DEF ChannelInv, TypeOK, Open
<1>3. \A name \in Names : events[name] # None /\ events'[name] # None =>
          events'[name] = events[name]
  BY <1>1 DEF On, ChannelInv, TypeOK
<1> QED
  BY <1>1, <1>2, <1>3, SubscriptionsChange

LEMMA CloseDeliveries ==
    ASSUME ChannelInv, ChannelInv', DeliveriesInv, NEW l \in Subscriptions, Close(l)
    PROVE  DeliveriesInv'
<1>1. /\ status[l] = "open" /\ status' = [status EXCEPT ![l] = "closed"]
      /\ Off(ReceiverOf[l].name, l) /\ UNCHANGED <<send, received>>
  BY DEF Close, IsOpen
<1>2. \A o \in Subscriptions : status[o] # "unused" =>
          status'[o] # "unused" /\ (o \in Open' => o \in Open)
  BY <1>1 DEF ChannelInv, TypeOK, Open
<1>3. \A name \in Names : events[name] # None /\ events'[name] # None =>
          events'[name] = events[name]
  BY <1>1 DEF Off, ChannelInv, TypeOK
<1> QED
  BY <1>1, <1>2, <1>3, SubscriptionsChange

-------------------------------------------------------------------------------
(* An event begins: nobody had a turn yet, and whoever is open is in the       *)
(* snapshot.                                                                   *)

\* Whoever was there at the beginning has the events before the one that begins.
LEMMA EmittingInv ==
    ASSUME ChannelInv, ChannelInv', NEW s \in Sends, NEW i \in DOMAIN BatchOf[s],
           NEW audience \in SUBSET Subscriptions, send'[s] = Emitting(s, i, audience),
           UNCHANGED <<status, events, members, received>>,
           \A r \in Receivers : \A j \in Range(received[r][s]) : j < i /\ j \in Nat,
           \A l \in audience :
               /\ status[l] # "unused"
               /\ l \in Open => \A j \in 1..(i - 1) :
                      BatchOf[s][j] = ReceiverOf[l].name => j \in Range(received[ReceiverOf[l]][s])
    PROVE  DeliveryInv(s)'
<1> DEFINE name == BatchOf[s][i]
           q    == ListenersOf(name)
<1>1. i \in Nat \ {0} /\ name \in Names
  BY ChannelAssumption
<1>2. /\ send'[s].at = i /\ send'[s].set = events[name] /\ send'[s].snapshot = q
      /\ send'[s].turn = 0 /\ send'[s].audience = audience /\ send'[s].phase = "emitting"
      /\ NameOf(s)' = name
  BY DEF Emitting, NameOf
<1>3. /\ q \in Seq(Subscriptions)
      /\ events[name] # None => ReceiverOf[events[name]].name = name
      /\ \A k \in 1..Len(q) : q[k] \in Open /\ ReceiverOf[q[k]].name = name
      /\ \A k, m \in 1..Len(q) : ReceiverOf[q[k]] = ReceiverOf[q[m]] => k = m
      /\ \A l \in Open : ReceiverOf[l].name = name => \E k \in 1..Len(q) : q[k] = l
  BY <1>1, ListenersNow
<1> HIDE DEF q, name
<1>4. Snapshots(s)'
  BY <1>2, <1>3 DEF Snapshots, Open
<1>5. InOrder(s)'
  BY <1>1, <1>2 DEF InOrder
<1>6. NoneMissed(s)'
  <2> SUFFICES ASSUME NEW l \in audience, l \in Open, NEW j \in 1..i,
                      BatchOf[s][j] = ReceiverOf[l].name,
                      j \notin Range(received[ReceiverOf[l]][s])
               PROVE  j = i /\ \E k \in 1..Len(q) : q[k] = l
    BY <1>1, <1>2 DEF NoneMissed, Awaits, Open
  <2>1. j = i
    BY <1>1
  <2> QED
    BY <2>1, <1>3 DEF name
<1> QED
  BY <1>2, <1>4, <1>5, <1>6 DEF DeliveryInv

\* A send begins.
LEMMA BegunDeliveries ==
    ASSUME ChannelInv, ChannelInv', DeliveriesInv, NEW s \in Sends,
           send[s].phase = "unsent", send' = [send EXCEPT ![s] = Begun(s)],
           UNCHANGED <<status, events, members, received>>
    PROVE  DeliveriesInv'
<1>1. send \in [Sends -> Sendings]
  BY DEF ChannelInv, TypeOK
<1>2. ASSUME NEW t \in Sends \ {s} PROVE DeliveryInv(t)'
  BY <1>1, OtherDelivery
<1>3. send'[s] = Begun(s) /\ \A r \in Receivers : received[r][s] = <<>>
  BY <1>1 DEF DeliveriesInv, DeliveryInv
<1>4. ASSUME BatchOf[s] = <<>> PROVE DeliveryInv(s)'
  <2>1. send'[s].phase = "resolved"
    BY <1>3, <1>4 DEF Begun, AtRest
  <2> QED
    BY <2>1 DEF DeliveryInv
<1>5. ASSUME BatchOf[s] # <<>> PROVE DeliveryInv(s)'
  <2>1. 1 \in DOMAIN BatchOf[s]
    BY <1>5, ChannelAssumption
  <2>2. \A r \in Receivers : \A j \in Range(received[r][s]) : j < 1 /\ j \in Nat
    BY <1>3 DEF Range
  <2>3. /\ Open \in SUBSET Subscriptions
        /\ \A l \in Open :
              /\ status[l] # "unused"
              /\ l \in Open => \A j \in 1..(1 - 1) :
                    BatchOf[s][j] = ReceiverOf[l].name => j \in Range(received[ReceiverOf[l]][s])
    BY DEF Open
  <2>4. send'[s] = Emitting(s, 1, Open)
    BY <1>3, <1>5 DEF Begun
  <2> QED
    BY <2>1, <2>2, <2>3, <2>4, EmittingInv
<1> QED
  BY <1>2, <1>4, <1>5 DEF DeliveriesInv

-------------------------------------------------------------------------------
(* The listeners of an event get their turns, and the event ends.             *)

\* Who of the snapshot has its turn.
NextInTurn(s) == send[s].snapshot[send[s].turn + 1]

\* The event is handed to an open receiver that does not have it yet.
LEMMA CalledIsNew ==
    ASSUME ChannelInv, DeliveriesInv, NEW s \in Sends, NextListener(s),
           Calls(send[s].set, NextInTurn(s))
    PROVE  /\ NextInTurn(s) \in Open
           /\ send[s].at \in DOMAIN BatchOf[s]
           /\ BatchOf[s][send[s].at] = ReceiverOf[NextInTurn(s)].name
           /\ \A j \in Range(received[ReceiverOf[NextInTurn(s)]][s]) : j < send[s].at
<1> DEFINE l == NextInTurn(s)
<1>1. /\ send[s] \in Sendings /\ send[s].phase = "emitting" /\ send[s].at \in DOMAIN BatchOf[s]
      /\ send[s].turn < Len(send[s].snapshot)
      /\ received \in [Receivers -> [Sends -> Seq(Nat)]]
  BY DEF NextListener, ChannelInv, TypeOK
<1>2. Snapshots(s) /\ InOrder(s)
  BY <1>1 DEF DeliveriesInv, DeliveryInv
<1>3. send[s].turn + 1 \in 1..Len(send[s].snapshot) /\ send[s].turn \in Nat /\ send[s].at \in Nat
  BY <1>1 DEF Sendings
<1>4. l \in Subscriptions /\ ReceiverOf[l] \in Receivers
  BY <1>1, <1>3 DEF NextInTurn, Sendings, Receivers
<1>5. l \in Open
  BY <1>1, CalledIsOpen DEF Calls, Sendings
<1>6. ReceiverOf[l].name = NameOf(s)
  BY <1>2, <1>3 DEF Snapshots, NextInTurn
<1>7. ASSUME NEW j \in Range(received[ReceiverOf[l]][s])
      PROVE  j < send[s].at
  <2>1. j \in Nat
    BY <1>1, <1>4 DEF Range
  <2>2. j <= send[s].at
    BY <1>2, <1>4 DEF InOrder
  <2>3. ASSUME j = send[s].at PROVE FALSE
    <3>1. PICK k \in 1..send[s].turn : ReceiverOf[send[s].snapshot[k]] = ReceiverOf[l]
      BY <1>2, <1>4, <2>3 DEF InOrder
    <3>2. k \in 1..Len(send[s].snapshot)
      BY <1>1, <1>3
    <3>3. k = send[s].turn + 1
      BY <1>2, <1>3, <3>1, <3>2 DEF Snapshots, NextInTurn
    <3> QED
      BY <1>3, <3>3
  <2> QED
    BY <1>3, <2>1, <2>2, <2>3
<1> QED
  BY <1>1, <1>5, <1>6, <1>7 DEF NameOf

LEMMA NextListenerDeliveries ==
    ASSUME ChannelInv, ChannelInv', DeliveriesInv, NEW s \in Sends, NextListener(s)
    PROVE  DeliveriesInv'
<1> DEFINE l == NextInTurn(s)
           q == send[s].snapshot
<1>1. /\ send[s] \in Sendings /\ send[s].phase = "emitting" /\ send[s].at \in DOMAIN BatchOf[s]
      /\ send[s].turn < Len(q)
      /\ send' = [send EXCEPT ![s].turn = @ + 1] /\ send \in [Sends -> Sendings]
      /\ received \in [Receivers -> [Sends -> Seq(Nat)]]
      /\ UNCHANGED <<events, members, status>>
  BY DEF NextListener, ChannelInv, TypeOK
<1>2. Snapshots(s) /\ InOrder(s) /\ NoneMissed(s)
  BY <1>1 DEF DeliveriesInv, DeliveryInv
<1>3. /\ send[s].turn + 1 \in 1..Len(q) /\ send[s].turn \in Nat /\ send[s].at \in Nat
      /\ q \in Seq(Subscriptions) /\ NameOf(s) \in Names
      /\ send[s].audience \subseteq Subscriptions
  <2>1. /\ q \in Seq(Subscriptions) /\ send[s].turn \in Nat /\ send[s].at \in Nat
        /\ send[s].audience \subseteq Subscriptions
    BY <1>1 DEF Sendings
  <2>2. NameOf(s) \in Names
    <3>1. send[s].at \in DOMAIN BatchOf[s] /\ BatchOf[s] \in Seq(Names)
      BY <1>1, ChannelAssumption
    <3> QED
      BY <3>1 DEF NameOf
  <2> QED
    BY <1>1, <2>1, <2>2
<1>4. l \in Subscriptions /\ ReceiverOf[l] \in Receivers
  BY <1>3 DEF NextInTurn, Receivers
<1>5. /\ \A t \in Sends \ {s} : send'[t] = send[t]
      /\ send'[s].phase = "emitting" /\ send'[s].at = send[s].at /\ send'[s].set = send[s].set
      /\ send'[s].snapshot = q /\ send'[s].turn = send[s].turn + 1
      /\ send'[s].audience = send[s].audience
  BY <1>1 DEF Sendings
<1>6. \/ /\ Calls(send[s].set, l)
         /\ received' = [received EXCEPT ![ReceiverOf[l]][s] = Append(@, send[s].at)]
      \/ ~Calls(send[s].set, l) /\ received' = received
  BY DEF NextListener, NextInTurn
<1>7. /\ \A r \in Receivers : \A t \in Sends \ {s} : received'[r][t] = received[r][t]
      /\ \A r \in Receivers \ {ReceiverOf[l]} : received'[r][s] = received[r][s]
      /\ Calls(send[s].set, l) =>
            received'[ReceiverOf[l]][s] = Append(received[ReceiverOf[l]][s], send[s].at)
      /\ ~Calls(send[s].set, l) => received'[ReceiverOf[l]][s] = received[ReceiverOf[l]][s]
  <2> HIDE DEF l
  <2>1. CASE received' = received
    BY <1>6, <2>1, <1>1, <1>4
  <2>2. CASE received' = [received EXCEPT ![ReceiverOf[l]][s] = Append(@, send[s].at)]
    <3> DEFINE row == [received[ReceiverOf[l]] EXCEPT ![s] = Append(@, send[s].at)]
    <3>1. received' = [received EXCEPT ![ReceiverOf[l]] = row]
      BY <2>2
    <3>2. received[ReceiverOf[l]] \in [Sends -> Seq(Nat)]
      BY <1>1, <1>4
    <3>3. /\ row[s] = Append(received[ReceiverOf[l]][s], send[s].at)
          /\ \A t \in Sends \ {s} : row[t] = received[ReceiverOf[l]][t]
      BY <3>2
    <3> HIDE DEF row
    <3>4. /\ received'[ReceiverOf[l]] = row
          /\ \A r \in Receivers \ {ReceiverOf[l]} : received'[r] = received[r]
      BY <1>1, <1>4, <3>1
    <3>5. Calls(send[s].set, l)
      <4>1. received'[ReceiverOf[l]][s] # received[ReceiverOf[l]][s]
        BY <1>3, <3>2, <3>3, <3>4
      <4> QED
        BY <1>6, <4>1
    <3> QED
      BY <3>3, <3>4, <3>5
  <2> QED
    BY <1>6, <2>1, <2>2
<1> HIDE DEF l
<1>8. ASSUME NEW r \in Receivers
      PROVE  /\ Range(received[r][s]) \subseteq Range(received'[r][s])
             /\ \A j \in Range(received'[r][s]) :
                   j \in Range(received[r][s]) \/ (j = send[s].at /\ r = ReceiverOf[l])
             /\ r = ReceiverOf[l] /\ Calls(send[s].set, l) =>
                   send[s].at \in Range(received'[r][s])
  <2>1. CASE r = ReceiverOf[l] /\ Calls(send[s].set, l)
    <3>1. received[r][s] \in Seq(Nat)
      BY <1>1
    <3>2. received'[r][s] = Append(received[r][s], send[s].at)
      BY <1>7, <2>1
    <3>3. send[s].at \in Nat
      BY <1>3
    <3>4. Range(received'[r][s]) = Range(received[r][s]) \cup {send[s].at}
      BY <3>1, <3>2, <3>3, RangeOfAppend
    <3> QED
      BY <2>1, <3>4
  <2>2. CASE ~(r = ReceiverOf[l] /\ Calls(send[s].set, l))
    BY <1>7, <2>2
  <2> QED
    BY <2>1, <2>2
<1>9. Snapshots(s)'
  BY <1>1, <1>2, <1>5 DEF Snapshots, NameOf, Open
<1>10. InOrder(s)'
  <2> SUFFICES ASSUME NEW r \in Receivers, NEW j \in Range(received'[r][s])
               PROVE  /\ j <= send[s].at
                      /\ j = send[s].at =>
                            \E k \in 1..(send[s].turn + 1) : ReceiverOf[q[k]] = r
    BY <1>5 DEF InOrder
  <2>1. CASE j \in Range(received[r][s])
    <3>1. /\ j <= send[s].at
          /\ j = send[s].at => \E k \in 1..send[s].turn : ReceiverOf[q[k]] = r
      BY <1>2, <2>1 DEF InOrder
    <3> QED
      BY <1>3, <3>1
  <2>2. CASE j = send[s].at /\ r = ReceiverOf[l]
    <3>1. ReceiverOf[q[send[s].turn + 1]] = r
      BY <2>2 DEF l, NextInTurn
    <3> QED
      BY <1>3, <2>2, <3>1
  <2> QED
    BY <1>8, <2>1, <2>2
<1>11. NoneMissed(s)'
  <2> SUFFICES ASSUME NEW o \in send[s].audience
               PROVE  /\ status[o] # "unused"
                      /\ o \in Open => \A i \in 1..send[s].at :
                            BatchOf[s][i] = ReceiverOf[o].name =>
                                \/ i \in Range(received'[ReceiverOf[o]][s])
                                \/ /\ i = send[s].at
                                   /\ \E k \in (send[s].turn + 1 + 1)..Len(q) : q[k] = o
    BY <1>1, <1>5 DEF NoneMissed, Awaits, Open
  <2>1. status[o] # "unused"
    BY <1>2 DEF NoneMissed
  <2>2. ASSUME o \in Open, NEW i \in 1..send[s].at, BatchOf[s][i] = ReceiverOf[o].name
        PROVE  \/ i \in Range(received'[ReceiverOf[o]][s])
               \/ /\ i = send[s].at
                  /\ \E k \in (send[s].turn + 1 + 1)..Len(q) : q[k] = o
    <3>1. ReceiverOf[o] \in Receivers
      BY <1>3 DEF Receivers
    <3>2. CASE i \in Range(received[ReceiverOf[o]][s])
      BY <1>8, <3>1, <3>2
    <3>3. CASE i = send[s].at /\ Awaits(s, o)
      <4>1. PICK k \in (send[s].turn + 1)..Len(q) : q[k] = o
        BY <3>3 DEF Awaits
      <4>2. CASE k = send[s].turn + 1
        <5>1. l = o
          BY <4>1, <4>2 DEF l, NextInTurn
        <5>2. Has(send[s].set, q[send[s].turn + 1])
          BY <1>2, <1>3, <2>2, <4>1, <4>2, OpenIsCalled
        <5>3. Calls(send[s].set, l)
          BY <5>2 DEF Calls, l, NextInTurn
        <5> QED
          BY <1>8, <3>1, <3>3, <5>1, <5>3
      <4>3. CASE k # send[s].turn + 1
        <5>1. k \in (send[s].turn + 1 + 1)..Len(q)
          BY <1>3, <4>3
        <5> QED
          BY <3>3, <4>1, <5>1
      <4> QED
        BY <4>2, <4>3
    <3> QED
      BY <1>2, <2>2, <3>2, <3>3 DEF NoneMissed
  <2> QED
    BY <2>1, <2>2
<1>12. ASSUME NEW t \in Sends \ {s} PROVE DeliveryInv(t)'
  BY <1>1, <1>5, <1>7, OtherDelivery
<1>13. DeliveryInv(s)'
  BY <1>5, <1>9, <1>10, <1>11 DEF DeliveryInv
<1> QED
  BY <1>12, <1>13 DEF DeliveriesInv

\* When all had their turn, an open subscription has every event so far.
LEMMA HandledReached ==
    ASSUME ChannelInv, DeliveriesInv, NEW s \in Sends, EventHandled(s), ~Failed(s),
           NEW l \in send[s].audience, l \in Open, NEW i \in 1..send[s].at,
           BatchOf[s][i] = ReceiverOf[l].name
    PROVE  i \in Range(received[ReceiverOf[l]][s])
<1>1. /\ send[s].phase = "emitting" /\ send[s].turn = Len(send[s].snapshot)
      /\ send[s] \in Sendings
  BY DEF EventHandled, Ended, ChannelInv, TypeOK
<1>2. ~Awaits(s, l)
  BY <1>1 DEF Awaits, Sendings
<1> QED
  BY <1>1, <1>2 DEF DeliveriesInv, DeliveryInv, NoneMissed

LEMMA EventHandledDeliveries ==
    ASSUME ChannelInv, ChannelInv', DeliveriesInv, NEW s \in Sends, EventHandled(s)
    PROVE  DeliveriesInv'
<1> DEFINE next == IF Failed(s) THEN AtRest("rejected")
                   ELSE IF send[s].at = Len(BatchOf[s]) THEN AtRest("resolved")
                   ELSE Emitting(s, send[s].at + 1, send[s].audience)
<1>1. /\ send[s].phase = "emitting"
      /\ send' = [send EXCEPT ![s] = next]
      /\ UNCHANGED <<events, members, status, received>>
      /\ send \in [Sends -> Sendings] /\ received \in [Receivers -> [Sends -> Seq(Nat)]]
      /\ send[s].at \in DOMAIN BatchOf[s]
  BY DEF EventHandled, ChannelInv, TypeOK
<1>2. /\ send'[s] = next
      /\ \A t \in Sends \ {s} : send'[t] = send[t]
  BY <1>1
<1>3. ASSUME NEW t \in Sends \ {s} PROVE DeliveryInv(t)'
  BY <1>1, <1>2, OtherDelivery
<1>4. ASSUME Failed(s) \/ send[s].at = Len(BatchOf[s])
      PROVE  DeliveryInv(s)'
  <2>1. send'[s].phase \in {"resolved", "rejected"}
    BY <1>2, <1>4 DEF AtRest
  <2> QED
    BY <2>1 DEF DeliveryInv
<1>5. ASSUME ~(Failed(s) \/ send[s].at = Len(BatchOf[s]))
      PROVE  DeliveryInv(s)'
  <2> DEFINE n == send[s].at + 1
  <2>1. send'[s] = Emitting(s, n, send[s].audience)
    BY <1>2, <1>5
  <2>2. send[s] \in Sendings /\ send[s].at \in Nat
    BY <1>1 DEF Sendings
  <2>3. n \in DOMAIN BatchOf[s] /\ n - 1 = send[s].at
    <3>1. BatchOf[s] \in Seq(Names) /\ send[s].at # Len(BatchOf[s])
      BY <1>5, ChannelAssumption
    <3> QED
      BY <1>1, <2>2, <3>1
  <2>4. send[s].audience \in SUBSET Subscriptions
    BY <2>2 DEF Sendings
  <2>5. InOrder(s) /\ NoneMissed(s)
    BY <1>1 DEF DeliveriesInv, DeliveryInv
  <2>6. \A r \in Receivers : \A j \in Range(received[r][s]) : j < n /\ j \in Nat
    <3> SUFFICES ASSUME NEW r \in Receivers, NEW j \in Range(received[r][s])
                 PROVE  j < n /\ j \in Nat
      OBVIOUS
    <3>1. received[r][s] \in Seq(Nat)
      BY <1>1
    <3>2. j \in Nat
      BY <3>1 DEF Range
    <3>3. j <= send[s].at
      BY <2>5 DEF InOrder
    <3> QED
      BY <2>2, <3>2, <3>3
  <2>7. \A l \in send[s].audience :
          /\ status[l] # "unused"
          /\ l \in Open => \A j \in 1..(n - 1) :
                BatchOf[s][j] = ReceiverOf[l].name => j \in Range(received[ReceiverOf[l]][s])
    <3>1. \A l \in send[s].audience : status[l] # "unused"
      BY <2>5 DEF NoneMissed
    <3> QED
      BY <1>5, <2>3, <3>1, HandledReached
  <2> HIDE DEF n
  <2> QED
    BY <1>1, <2>1, <2>3, <2>4, <2>6, <2>7, EmittingInv
<1> QED
  BY <1>3, <1>4, <1>5 DEF DeliveriesInv

LEMMA NextDeliveries ==
    ChannelInv /\ ChannelInv' /\ DeliveriesInv /\ [Next]_vars => DeliveriesInv'
<1> SUFFICES ASSUME ChannelInv, ChannelInv', DeliveriesInv, [Next]_vars
             PROVE  DeliveriesInv'
  OBVIOUS
<1>1. send \in [Sends -> Sendings]
  BY DEF ChannelInv, TypeOK
<1>2. CASE UNCHANGED <<status, events, send, received>>
  <2>1. \A s \in Sends : DeliveryInv(s)'
    BY <1>1, <1>2, OtherDelivery
  <2> QED
    BY <2>1 DEF DeliveriesInv
<1>3. CASE \E l \in Subscriptions : Receive(l) \/ Close(l)
  BY <1>3, ReceiveDeliveries, CloseDeliveries
<1>4. CASE \E s \in Sends : Publish(s) \/ NextListener(s) \/ EventHandled(s)
  <2>1. ASSUME NEW s \in Sends, Publish(s) PROVE DeliveriesInv'
    BY <2>1, BegunDeliveries DEF Publish
  <2> QED
    BY <1>4, <2>1, NextListenerDeliveries, EventHandledDeliveries
<1>5. ASSUME NEW s \in Sends, NEW l \in Subscriptions, NEW nested \in Sends,
             HandlerPublishes(s, l, nested)
      PROVE  DeliveriesInv'
  BY <1>5, BegunDeliveries DEF HandlerPublishes
<1>6. CASE \E s \in Sends, l \in Subscriptions : HandlerResumes(s, l) \/ HandlerEnds(s, l)
  BY <1>2, <1>6 DEF HandlerResumes, HandlerEnds
<1>7. CASE UNCHANGED vars
  BY <1>2, <1>7 DEF vars
<1> QED
  BY <1>3, <1>4, <1>5, <1>6, <1>7 DEF Next, Deliver

-------------------------------------------------------------------------------
(* Every step is one that the rules allow, or none of theirs.                  *)

LEMMA InitKeepsTheRules == Init => Contract!Init
BY DEF Init, Sent, Receivers, AtRest, Contract!Init, Contract!AtRest, Contract!Receivers

\* A step of one send is a step of it only.
LEMMA SentOf ==
    ASSUME send \in [Sends -> Sendings], NEW s \in Sends, NEW m \in Sendings,
           send' = [send EXCEPT ![s] = m]
    PROVE  /\ Sent[s] = [audience |-> send[s].audience,
                         outcome |-> IF send[s].phase = "emitting" THEN "pending"
                                     ELSE send[s].phase]
           /\ Sent' = [Sent EXCEPT ![s] =
                         [audience |-> m.audience,
                          outcome |-> IF m.phase = "emitting" THEN "pending" ELSE m.phase]]
BY DEF Sent

LEMMA ReceiveRule ==
    ASSUME ChannelInv, NEW l \in Subscriptions, Receive(l)
    PROVE  Contract!Receive(l)
<1>1. \A o \in Open : ReceiverOf[o] \in receivers
  BY DEF ChannelInv, OneListenerEach
<1>2. \A o \in Contract!Open : ReceiverOf[o] # ReceiverOf[l]
  BY <1>1 DEF Receive, Contract!Open, Open
<1> QED
  BY <1>2 DEF Receive, Contract!Receive, Sent

LEMMA CloseRule ==
    ASSUME NEW l \in Subscriptions, Close(l)
    PROVE  Contract!Close(l)
BY DEF Close, IsOpen, Contract!Close, Contract!Open, Sent

LEMMA SendRule ==
    ASSUME ChannelInv, NEW s \in Sends, send[s].phase = "unsent",
           send' = [send EXCEPT ![s] = Begun(s)], UNCHANGED <<status, received>>
    PROVE  Contract!Send(s)
<1>1. send \in [Sends -> Sendings] /\ Begun(s) \in Sendings
  BY BegunTyped DEF ChannelInv, TypeOK
<1>2. Sent[s].outcome = "unsent"
  BY DEF Sent
<1>3. Sent' = [Sent EXCEPT ![s] = IF BatchOf[s] = <<>> THEN Contract!AtRest("resolved")
                                  ELSE [audience |-> Contract!Open, outcome |-> "pending"]]
  <2>1. CASE BatchOf[s] = <<>>
    BY <1>1, <2>1, SentOf DEF Begun, AtRest, Contract!AtRest
  <2>2. CASE BatchOf[s] # <<>>
    BY <1>1, <2>2, SentOf DEF Begun, Emitting, Contract!Open, Open
  <2> QED
    BY <2>1, <2>2
<1> QED
  BY <1>2, <1>3 DEF Contract!Send

LEMMA NextListenerRule ==
    ASSUME ChannelInv, DeliveriesInv, NEW s \in Sends, NextListener(s)
    PROVE  \/ \E l \in Subscriptions : \E i \in DOMAIN BatchOf[s] : Contract!Deliver(s, i, l)
           \/ UNCHANGED <<status, Sent, received>>
<1>1. /\ send \in [Sends -> Sendings] /\ send[s].phase = "emitting" /\ status' = status
      /\ send' = [send EXCEPT ![s].turn = @ + 1]
  BY DEF NextListener, ChannelInv, TypeOK
<1>2. Sent' = Sent /\ Sent[s].outcome = "pending"
  <2> DEFINE m == [send[s] EXCEPT !.turn = @ + 1]
  <2>1. send[s].turn \in Nat
    BY <1>1 DEF Sendings
  <2>2. m \in Sendings /\ m.phase = send[s].phase /\ m.audience = send[s].audience
    <3>1. send[s] \in Sendings
      BY <1>1
    <3> QED
      BY <2>1, <3>1 DEF Sendings
  <2>3. send' = [send EXCEPT ![s] = m]
    BY <1>1
  <2> HIDE DEF m
  <2>4. Sent[s] = [audience |-> send[s].audience, outcome |-> "pending"]
    BY <1>1 DEF Sent
  <2>5. Sent' = [Sent EXCEPT ![s] = [audience |-> send[s].audience, outcome |-> "pending"]]
    BY <1>1, <2>2, <2>3 DEF Sent
  <2> QED
    BY <2>4, <2>5 DEF Sent
<1>3. CASE Calls(send[s].set, NextInTurn(s))
  <2> DEFINE l == NextInTurn(s)
             i == send[s].at
  <2>1. /\ l \in Open /\ i \in DOMAIN BatchOf[s] /\ BatchOf[s][i] = ReceiverOf[l].name
        /\ \A j \in Range(received[ReceiverOf[l]][s]) : j < i
    BY <1>3, CalledIsNew
  <2>2. received' = [received EXCEPT ![ReceiverOf[l]][s] = Append(@, i)]
    BY <1>3 DEF NextListener, NextInTurn
  <2> HIDE DEF l, i
  <2>3. l \in Contract!Open /\ l \in Subscriptions
    BY <2>1 DEF Open, Contract!Open
  <2>4. Contract!Deliver(s, i, l)
    BY <1>1, <1>2, <2>1, <2>2, <2>3 DEF Contract!Deliver, Contract!Range, Range
  <2> QED
    BY <2>1, <2>3, <2>4
<1>4. CASE ~Calls(send[s].set, NextInTurn(s))
  BY <1>1, <1>2, <1>4 DEF NextListener, NextInTurn
<1> QED
  BY <1>3, <1>4

LEMMA EventHandledRule ==
    ASSUME ChannelInv, DeliveriesInv, NEW s \in Sends, EventHandled(s)
    PROVE  \/ Contract!Resolve(s) \/ Contract!Reject(s)
           \/ UNCHANGED <<status, Sent, received>>
<1>1. /\ send \in [Sends -> Sendings] /\ send[s].phase = "emitting"
      /\ send[s].at \in DOMAIN BatchOf[s] /\ BatchOf[s] \in Seq(Names)
      /\ UNCHANGED <<status, received>>
  BY ChannelAssumption DEF EventHandled, ChannelInv, TypeOK
<1>2. Sent[s] = [audience |-> send[s].audience, outcome |-> "pending"]
  BY <1>1 DEF Sent
<1>3. CASE Failed(s)
  <2>1. send' = [send EXCEPT ![s] = AtRest("rejected")]
    BY <1>3 DEF EventHandled
  <2>2. Sent' = [Sent EXCEPT ![s] = Contract!AtRest("rejected")]
    BY <1>1, <2>1 DEF Sent, AtRest, Contract!AtRest
  <2> QED
    BY <1>1, <1>2, <2>2 DEF Contract!Reject
<1>4. CASE ~Failed(s) /\ send[s].at = Len(BatchOf[s])
  <2>1. send' = [send EXCEPT ![s] = AtRest("resolved")]
    BY <1>4 DEF EventHandled
  <2>2. Sent' = [Sent EXCEPT ![s] = Contract!AtRest("resolved")]
    BY <1>1, <2>1 DEF Sent, AtRest, Contract!AtRest
  <2>3. \A l \in Sent[s].audience \cap Contract!Open : Contract!Reached(s, l)
    <3> SUFFICES ASSUME NEW l \in send[s].audience, l \in Open, NEW i \in DOMAIN BatchOf[s],
                        BatchOf[s][i] = ReceiverOf[l].name
                 PROVE  i \in Range(received[ReceiverOf[l]][s])
      BY <1>2 DEF Contract!Reached, Contract!Open, Open, Contract!Range, Range
    <3>1. i \in 1..send[s].at
      BY <1>1, <1>4
    <3> QED
      BY <1>4, <3>1, HandledReached
  <2> QED
    BY <1>1, <1>2, <2>2, <2>3 DEF Contract!Resolve
<1>5. CASE ~Failed(s) /\ send[s].at # Len(BatchOf[s])
  <2>1. send' = [send EXCEPT ![s] = Emitting(s, send[s].at + 1, send[s].audience)]
    BY <1>5 DEF EventHandled
  <2>2. Sent' = Sent
    BY <1>1, <2>1 DEF Sent, Emitting
  <2> QED
    BY <1>1, <2>2
<1> QED
  BY <1>3, <1>4, <1>5

LEMMA StepRule ==
    ChannelInv /\ DeliveriesInv /\ [Next]_vars
        => [Contract!Next]_<<status, Sent, received>>
<1> SUFFICES ASSUME ChannelInv, DeliveriesInv, [Next]_vars,
                    ~UNCHANGED <<status, Sent, received>>
             PROVE  Contract!Next
  OBVIOUS
<1>1. CASE UNCHANGED <<status, send, received>>
  BY <1>1 DEF Sent
<1>2. CASE \E l \in Subscriptions : Receive(l) \/ Close(l)
  BY <1>2, ReceiveRule, CloseRule DEF Contract!Next
<1>3. ASSUME NEW s \in Sends, Publish(s) \/ NextListener(s) \/ EventHandled(s)
      PROVE  Contract!Next
  <2>1. CASE Publish(s)
    BY <2>1, SendRule DEF Publish, Contract!Next
  <2>2. CASE NextListener(s)
    BY <2>2, NextListenerRule DEF Contract!Next
  <2>3. CASE EventHandled(s)
    BY <2>3, EventHandledRule DEF Contract!Next
  <2> QED
    BY <1>3, <2>1, <2>2, <2>3
<1>4. ASSUME NEW s \in Sends, NEW l \in Subscriptions, NEW nested \in Sends,
             HandlerPublishes(s, l, nested)
      PROVE  Contract!Next
  BY <1>4, SendRule DEF HandlerPublishes, Contract!Next
<1>5. CASE \E s \in Sends, l \in Subscriptions : HandlerResumes(s, l) \/ HandlerEnds(s, l)
  BY <1>1, <1>5 DEF HandlerResumes, HandlerEnds
<1>6. CASE UNCHANGED vars
  BY <1>1, <1>6 DEF vars
<1> QED
  BY <1>2, <1>3, <1>4, <1>5, <1>6 DEF Next, Deliver

\* The invariant of the deliveries holds in every state.
THEOREM DeliveriesInvariant == Spec => []DeliveriesInv
BY InitDeliveries, NextDeliveries, ChannelInvariant, PTL DEF Spec

\* The channel keeps the rules of delivery, however sends, subscriptions and closes are
\* interleaved: a consumer gets the events of a send in their order, each once and none
\* after its close, and a send that resolves has reached all that stayed open.
THEOREM ChannelKeepsTheRules == Spec => KeepsTheRules
BY InitKeepsTheRules, StepRule, ChannelInvariant, DeliveriesInvariant, PTL
   DEF Spec, KeepsTheRules, Contract!Spec
===============================================================================
