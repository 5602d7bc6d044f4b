--------------------------- MODULE WorkerPool_proofs ---------------------------
(* Proofs about WorkerPool, for any calls, handles, host and options.          *)
EXTENDS WorkerPool, SequenceTheorems, TLAPS

-------------------------------------------------------------------------------
(* Sequences without repeated elements.                                        *)

\* Removing an element from a sequence gives a sequence of the same type.
LEMMA WithoutType ==
    ASSUME NEW S, NEW s \in Seq(S), NEW e
    PROVE  Without(s, e) \in Seq(S)
<1>1. CASE e \in Range(s)
  <2>1. PICK i \in DOMAIN s : i = CHOOSE j \in DOMAIN s : s[j] = e
    BY <1>1 DEF Range
  <2>2. i \in 1..Len(s)
    BY <2>1, LenProperties
  <2>3. SubSeq(s, 1, i - 1) \in Seq(S) /\ SubSeq(s, i + 1, Len(s)) \in Seq(S)
    BY <2>2, SubSeqProperties, LenProperties
  <2>4. QED
    BY <1>1, <2>1, <2>3, ConcatProperties DEF Without, RemoveAt
<1>2. CASE e \notin Range(s)
  BY <1>2 DEF Without
<1>3. QED BY <1>1, <1>2

\* What Without, Append and Tail do to the elements of such a sequence.
LEMMA WithoutElements ==
    ASSUME NEW S, NEW s \in Seq(S), IsInjective(s), NEW e
    PROVE  /\ Range(Without(s, e)) = Range(s) \ {e}
           /\ IsInjective(Without(s, e))
           /\ Len(Without(s, e)) <= Len(s)
<1>1. CASE e \in Range(s)
  <2>1. PICK i \in DOMAIN s : s[i] = e /\ i = CHOOSE j \in DOMAIN s : s[j] = e
    BY <1>1 DEF Range
  <2>2. i \in 1..Len(s) /\ Len(s) \in Nat /\ DOMAIN s = 1..Len(s)
    BY <2>1, LenProperties
  <2> DEFINE a == SubSeq(s, 1, i - 1)
             b == SubSeq(s, i + 1, Len(s))
             t == Without(s, e)
  <2>3. a \in Seq(S) /\ Len(a) = i - 1 /\ \A k \in 1..(i - 1) : a[k] = s[k]
    BY <2>2, SubSeqProperties
  <2>4. b \in Seq(S) /\ Len(b) = Len(s) - i
        /\ \A k \in 1..(Len(s) - i) : b[k] = s[i + k]
    BY <2>2, SubSeqProperties, SMTT(20)
  <2>5. t = a \o b
    BY <1>1, <2>1 DEF Without, RemoveAt
  <2> HIDE DEF a, b, t
  <2>6. t \in Seq(S) /\ Len(t) = Len(s) - 1 /\ DOMAIN t = 1..(Len(s) - 1)
    <3>1. t \in Seq(S) /\ Len(t) = Len(a) + Len(b)
      BY <2>3, <2>4, <2>5, ConcatProperties
    <3>2. Len(t) = Len(s) - 1
      BY <2>2, <2>3, <2>4, <3>1
    <3>3. DOMAIN t = 1..Len(t)
      BY <3>1, LenProperties
    <3>4. QED
      BY <3>1, <3>2, <3>3
  <2>7. \A k \in 1..(Len(s) - 1) : t[k] = IF k < i THEN s[k] ELSE s[k + 1]
    <3> SUFFICES ASSUME NEW k \in 1..(Len(s) - 1)
                 PROVE  t[k] = IF k < i THEN s[k] ELSE s[k + 1]
      OBVIOUS
    <3>1. t[k] = IF k <= Len(a) THEN a[k] ELSE b[k - Len(a)]
      <4>1. k \in 1..(Len(a) + Len(b))
        BY <2>2, <2>3, <2>4
      <4>2. QED
        BY <2>3, <2>4, <2>5, <4>1, ConcatProperties
    <3>2. CASE k < i
      BY <2>2, <2>3, <3>1, <3>2
    <3>3. CASE ~(k < i)
      <4>1. k - Len(a) \in 1..(Len(s) - i) /\ i + (k - Len(a)) = k + 1
        BY <2>2, <2>3, <3>3
      <4>2. QED
        BY <2>2, <2>3, <2>4, <3>1, <3>3, <4>1, SMTT(40)
    <3>4. QED
      BY <3>2, <3>3
  <2>8. IsInjective(t)
    <3> SUFFICES ASSUME NEW j \in 1..(Len(s) - 1), NEW k \in 1..(Len(s) - 1),
                        t[j] = t[k]
                 PROVE  j = k
      BY <2>6 DEF IsInjective
    <3>1. \A x, y \in 1..Len(s) : s[x] = s[y] => x = y
      BY <2>2 DEF IsInjective
    <3>2. QED
      BY <2>2, <2>7, <3>1
  <2>9. Range(t) = Range(s) \ {e}
    <3>1. ASSUME NEW k \in 1..(Len(s) - 1)
          PROVE  t[k] \in Range(s) \ {e}
      <4>1. PICK x \in 1..Len(s) : x # i /\ t[k] = s[x]
        BY <2>2, <2>7
      <4>2. s[x] # e
        BY <2>1, <2>2, <4>1 DEF IsInjective
      <4>3. QED
        BY <2>2, <4>1, <4>2 DEF Range
    <3>2. ASSUME NEW x \in 1..Len(s), s[x] # e
          PROVE  \E k \in 1..(Len(s) - 1) : t[k] = s[x]
      <4>1. CASE x < i
        BY <2>2, <2>7, <4>1
      <4>2. CASE ~(x < i)
        <5>1. x > i
          BY <2>1, <2>2, <3>2, <4>2
        <5>2. x - 1 \in 1..(Len(s) - 1) /\ ~(x - 1 < i) /\ (x - 1) + 1 = x
          BY <2>2, <5>1
        <5>3. QED
          BY <2>7, <5>2
      <4>3. QED
        BY <4>1, <4>2
    <3>3. Range(t) = {t[k] : k \in 1..(Len(s) - 1)} /\ Range(s) = {s[x] : x \in 1..Len(s)}
      BY <2>2, <2>6 DEF Range
    <3>4. Range(t) \subseteq Range(s) \ {e}
      BY <3>1, <3>3
    <3>5. ASSUME NEW y \in Range(s) \ {e}
          PROVE  y \in Range(t)
      <4>1. PICK x \in 1..Len(s) : s[x] = y
        BY <3>3
      <4>2. QED
        BY <3>2, <3>3, <3>5, <4>1
    <3>6. QED
      BY <3>4, <3>5
  <2>10. QED
    BY <2>2, <2>6, <2>8, <2>9 DEF t
<1>2. CASE e \notin Range(s)
  BY <1>2, LenProperties DEF Without
<1>3. QED
  BY <1>1, <1>2

LEMMA AppendElements ==
    ASSUME NEW S, NEW s \in Seq(S), NEW e \in S
    PROVE  /\ Range(Append(s, e)) = Range(s) \cup {e}
           /\ IsInjective(s) /\ e \notin Range(s) => IsInjective(Append(s, e))
           /\ Append(s, e) # <<>>
BY DEF Range, IsInjective

LEMMA TailElements ==
    ASSUME NEW S, NEW s \in Seq(S), s # <<>>, IsInjective(s)
    PROVE  /\ Range(Tail(s)) = Range(s) \ {Head(s)}
           /\ IsInjective(Tail(s))
           /\ Head(s) \in Range(s)
<1>1. /\ Len(s) \in Nat \ {0} /\ DOMAIN s = 1..Len(s) /\ Head(s) = s[1]
      /\ DOMAIN Tail(s) = 1..(Len(s) - 1)
      /\ \A i \in 1..(Len(s) - 1) : Tail(s)[i] = s[i + 1]
  BY HeadTailProperties, LenProperties, EmptySeq
<1>2. \A i, j \in 1..Len(s) : s[i] = s[j] => i = j
  BY <1>1 DEF IsInjective
<1>3. IsInjective(Tail(s))
  <2> SUFFICES ASSUME NEW i \in 1..(Len(s) - 1), NEW j \in 1..(Len(s) - 1),
                      Tail(s)[i] = Tail(s)[j]
               PROVE  i = j
    BY <1>1 DEF IsInjective
  <2>1. s[i + 1] = s[j + 1] /\ i + 1 \in 1..Len(s) /\ j + 1 \in 1..Len(s)
    BY <1>1
  <2>2. QED
    BY <1>2, <2>1
<1>4. Range(s) = {s[i] : i \in 1..Len(s)}
      /\ Range(Tail(s)) = {Tail(s)[i] : i \in 1..(Len(s) - 1)}
  BY <1>1 DEF Range
<1>5. ASSUME NEW i \in 1..(Len(s) - 1)
      PROVE  Tail(s)[i] \in Range(s) \ {Head(s)}
  <2>1. i + 1 \in 1..Len(s) /\ i + 1 # 1 /\ 1 \in 1..Len(s)
    BY <1>1
  <2>2. QED
    BY <1>1, <1>2, <1>4, <2>1
<1>6. ASSUME NEW i \in 1..Len(s), s[i] # Head(s)
      PROVE  \E j \in 1..(Len(s) - 1) : Tail(s)[j] = s[i]
  <2>1. i - 1 \in 1..(Len(s) - 1) /\ (i - 1) + 1 = i
    BY <1>1, <1>6
  <2>2. QED
    BY <1>1, <2>1
<1>7. QED
  BY <1>1, <1>3, <1>4, <1>5, <1>6

LEMMA EmptyElements ==
    ASSUME NEW S, NEW s \in Seq(S)
    PROVE  (s = <<>>) <=> (Range(s) = {})
BY DEF Range

LEMMA TypeInit == Init => TypeOK
<1> SUFFICES ASSUME Init PROVE TypeOK
  OBVIOUS
<1> USE DEF Init
<1>1. options \in PoolOptions
  BY OptionsAssumption
<1>2. outcome \in [Calls -> Outcomes]
  BY DEF Outcomes
<1>3. runtime \in [Handles -> Runtimes]
  BY DEF Runtimes
<1>4. worker \in [Handles -> WorkerStates]
  BY DEF WorkerStates
<1>5. pending \in [Handles -> Seq(Calls)]
  OBVIOUS
<1>6. outbox \in [Handles -> Seq(Answers \cup Notices)]
  OBVIOUS
<1>7. members \in Seq(Handles) /\ redispatch \in Seq(Calls)
  OBVIOUS
<1>8. ready \in [Handles -> {"compiling", "ready", "rejected"}]
  OBVIOUS
<1>9. QED
  BY <1>1, <1>2, <1>3, <1>4, <1>5, <1>6, <1>7, <1>8 DEF TypeOK

-------------------------------------------------------------------------------
(* Every step keeps the types.                                                 *)

Messages == Answers \cup Notices

LEMMA TerminateHandlesType ==
    ASSUME TypeOK, NEW H \in SUBSET Handles,
           NEW undelivered \in [Handles -> Seq(Messages)],
           TerminateHandles(H, undelivered)
    PROVE  /\ worker' \in [Handles -> WorkerStates]
           /\ inbox'  \in [Handles -> Seq(Calls)]
           /\ outbox' \in [Handles -> Seq(Messages)]
<1>1. worker' \in [Handles -> WorkerStates]
  BY DEF TypeOK, TerminateHandles, WorkerStates
<1>2. inbox' \in [Handles -> Seq(Calls)]
  BY DEF TypeOK, TerminateHandles
<1>3. ASSUME NEW h \in Handles
      PROVE  LeftAfterTermination(h, undelivered[h]) \in Seq(Messages)
  <2>1. Failure \in Messages
    BY DEF Failure, Messages, Notices
  <2>2. Append(undelivered[h], Failure) \in Seq(Messages)
    BY <2>1
  <2>3. QED
    BY <2>2 DEF LeftAfterTermination
<1>4. outbox' \in [Handles -> Seq(Messages)]
  BY <1>3 DEF TerminateHandles
<1>5. QED
  BY <1>1, <1>2, <1>4

LEMMA TakenType ==
    ASSUME TypeOK, NEW h \in Handles, outbox[h] # <<>>
    PROVE  /\ Taken(h) \in [Handles -> Seq(Messages)]
           /\ NextMessage(h) \in Messages
BY DEF TypeOK, Taken, NextMessage, Messages

LEMMA FailType ==
    ASSUME TypeOK, NEW h \in Handles,
           NEW undelivered \in [Handles -> Seq(Messages)],
           Fail(h, undelivered)
    PROVE  /\ members' \in Seq(Handles)
           /\ worker' \in [Handles -> WorkerStates]
           /\ inbox'  \in [Handles -> Seq(Calls)]
           /\ outbox' \in [Handles -> Seq(Messages)]
           /\ outcome' \in [Calls -> Outcomes]
           /\ pending' \in [Handles -> Seq(Calls)]
           /\ watchdog' \in [Handles -> BOOLEAN]
           /\ idle' \in [Handles -> BOOLEAN]
<1>1. members' \in Seq(Handles)
  BY WithoutType DEF TypeOK, Fail
<1>2. TerminateHandles({h}, undelivered)
  BY DEF Fail
<1>3. worker' \in [Handles -> WorkerStates] /\ inbox' \in [Handles -> Seq(Calls)]
      /\ outbox' \in [Handles -> Seq(Messages)]
  BY <1>2, TerminateHandlesType
<1>4. outcome' \in [Calls -> Outcomes]
  BY DEF TypeOK, Fail, RejectAll, Outcomes, Settled
<1>5. pending' \in [Handles -> Seq(Calls)]
  BY DEF TypeOK, Fail, RejectAll
<1>6. watchdog' \in [Handles -> BOOLEAN] /\ idle' \in [Handles -> BOOLEAN]
  BY DEF TypeOK, Fail, StopTimers
<1>7. QED
  BY <1>1, <1>3, <1>4, <1>5, <1>6

LEMMA ReplaceType ==
    ASSUME TypeOK, NEW h \in Handles, NEW waiting \in Seq(Calls),
           NEW undelivered \in [Handles -> Seq(Messages)],
           Replace(h, waiting, undelivered)
    PROVE  /\ members' \in Seq(Handles)
           /\ redispatch' \in Seq(Calls)
           /\ worker' \in [Handles -> WorkerStates]
           /\ inbox'  \in [Handles -> Seq(Calls)]
           /\ outbox' \in [Handles -> Seq(Messages)]
           /\ pending' \in [Handles -> Seq(Calls)]
           /\ watchdog' \in [Handles -> BOOLEAN]
           /\ idle' \in [Handles -> BOOLEAN]
<1>1. members' \in Seq(Handles)
  BY WithoutType DEF TypeOK, Replace
<1>2. TerminateHandles({h}, undelivered)
  BY DEF Replace
<1>3. worker' \in [Handles -> WorkerStates] /\ inbox' \in [Handles -> Seq(Calls)]
      /\ outbox' \in [Handles -> Seq(Messages)]
  BY <1>2, TerminateHandlesType
<1>4. pending' \in [Handles -> Seq(Calls)] /\ redispatch' \in Seq(Calls)
  BY DEF TypeOK, Replace, Retry
<1>5. watchdog' \in [Handles -> BOOLEAN] /\ idle' \in [Handles -> BOOLEAN]
  BY DEF TypeOK, Replace, StopTimers
<1>6. QED
  BY <1>1, <1>3, <1>4, <1>5

\* The state without the two variables that Call and Redispatch set by themselves.
DispatchedType ==
    /\ members \in Seq(Handles)
    /\ workersBlocked \in BOOLEAN
    /\ outcome   \in [Calls -> Outcomes]
    /\ runtime   \in [Handles -> Runtimes]
    /\ started   \in [Handles -> BOOLEAN]
    /\ pending   \in [Handles -> Seq(Calls)]
    /\ watchdog  \in [Handles -> BOOLEAN]
    /\ idle      \in [Handles -> BOOLEAN]
    /\ ready     \in [Handles -> {"compiling", "ready", "rejected"}]
    /\ queued    \in [Handles -> Seq(Calls)]
    /\ keptAlive \in [Handles -> BOOLEAN]
    /\ worker    \in [Handles -> WorkerStates]
    /\ inbox     \in [Handles -> Seq(Calls)]
    /\ outbox    \in [Handles -> Seq(Messages)]

LEMMA AssignType ==
    ASSUME TypeOK, NEW c \in Calls, NEW h \in Handles, Assign(h, c),
           workersBlocked' \in BOOLEAN, outcome' \in [Calls -> Outcomes]
    PROVE  DispatchedType'
<1> USE DEF TypeOK, Assign
<1>1. pending' \in [Handles -> Seq(Calls)]
  OBVIOUS
<1>2. keptAlive' \in [Handles -> BOOLEAN] /\ idle' \in [Handles -> BOOLEAN]
      /\ watchdog' \in [Handles -> BOOLEAN]
  BY DEF ClearIdle, StartWatchdog, Watched
<1>3. queued' \in [Handles -> Seq(Calls)] /\ inbox' \in [Handles -> Seq(Calls)]
  BY DEF Post
<1>4. QED
  BY <1>1, <1>2, <1>3 DEF DispatchedType, Messages

LEMMA FactoryType == Factory \in Runtimes
BY HostAssumption DEF Factory, Hosts, Runtimes, HostAssumption

LEMMA SpawnType ==
    ASSUME TypeOK, NEW c \in Calls, NEW h \in Handles, NEW kind \in Runtimes,
           Spawn(kind, h, c),
           workersBlocked' \in BOOLEAN, outcome' \in [Calls -> Outcomes]
    PROVE  DispatchedType'
<1> USE DEF TypeOK, Spawn
<1>1. members' \in Seq(Handles) /\ runtime' \in [Handles -> Runtimes]
  OBVIOUS
<1>2. pending' \in [Handles -> Seq(Calls)] /\ queued' \in [Handles -> Seq(Calls)]
      /\ inbox' \in [Handles -> Seq(Calls)]
  OBVIOUS
<1>3. started' \in [Handles -> BOOLEAN] /\ idle' \in [Handles -> BOOLEAN]
      /\ keptAlive' \in [Handles -> BOOLEAN]
  OBVIOUS
<1>4. watchdog' \in [Handles -> BOOLEAN]
  BY DEF Watched
<1>5. ready' \in [Handles -> {"compiling", "ready", "rejected"}]
      /\ worker' \in [Handles -> WorkerStates]
  BY DEF WorkerStates
<1>6. QED
  BY <1>1, <1>2, <1>3, <1>4, <1>5 DEF DispatchedType, Messages

LEMMA DispatchType ==
    ASSUME TypeOK, NEW c \in Calls, Dispatch(c)
    PROVE  DispatchedType'
<1>1. outcome' \in [Calls -> Outcomes] /\ workersBlocked' \in BOOLEAN
  BY DEF TypeOK, Dispatch, Outcomes, Settled, FallsBack
<1>2. ASSUME NEW i \in DOMAIN members, Assign(members[i], c)
      PROVE  DispatchedType'
  <2>1. members[i] \in Handles
    BY DEF TypeOK
  <2>2. QED
    BY <1>1, <1>2, <2>1, AssignType
<1>3. ASSUME NEW h \in Handles, Spawn(Factory, h, c) \/ Spawn("inline", h, c)
      PROVE  DispatchedType'
  BY <1>1, <1>3, SpawnType, FactoryType DEF Runtimes
<1>4. ASSUME UNCHANGED <<members, memberVars, workerVars>>
      PROVE  DispatchedType'
  BY <1>1, <1>4 DEF TypeOK, DispatchedType, memberVars, workerVars, Messages
<1>5. QED
  BY <1>2, <1>3, <1>4 DEF Dispatch

-------------------------------------------------------------------------------

LEMMA TypeStep == TypeOK /\ WatchdogGuards /\ [Next]_vars => TypeOK'
<1> SUFFICES ASSUME TypeOK, WatchdogGuards, [Next]_vars
             PROVE  TypeOK'
  OBVIOUS
<1> USE DEF Messages
<1>0. outbox \in [Handles -> Seq(Messages)]
  BY DEF TypeOK
<1>1. ASSUME NEW c \in Calls, Call(c)
      PROVE  TypeOK'
  <2>1. DispatchedType'
    BY <1>1, DispatchType DEF Call
  <2>2. QED
    BY <1>1, <2>1 DEF Call, TypeOK, DispatchedType
<1>2. CASE Redispatch
  <2>1. Head(redispatch) \in Calls /\ Tail(redispatch) \in Seq(Calls)
    BY <1>2 DEF TypeOK, Redispatch
  <2>2. DispatchedType'
    BY <1>2, <2>1, DispatchType DEF Redispatch
  <2>3. QED
    BY <1>2, <2>1, <2>2 DEF Redispatch, TypeOK, DispatchedType
<1>3. ASSUME TerminateMembers
      PROVE  /\ members' \in Seq(Handles)
             /\ workersBlocked' \in BOOLEAN
             /\ worker' \in [Handles -> WorkerStates]
             /\ inbox'  \in [Handles -> Seq(Calls)]
             /\ outbox' \in [Handles -> Seq(Messages)]
             /\ outcome' \in [Calls -> Outcomes]
             /\ pending' \in [Handles -> Seq(Calls)]
             /\ watchdog' \in [Handles -> BOOLEAN]
             /\ idle' \in [Handles -> BOOLEAN]
  <2>1. TerminateHandles(Range(members), outbox) /\ Range(members) \in SUBSET Handles
    BY <1>3 DEF TerminateMembers, TypeOK, Range
  <2>2. worker' \in [Handles -> WorkerStates] /\ inbox' \in [Handles -> Seq(Calls)]
        /\ outbox' \in [Handles -> Seq(Messages)]
    BY <1>0, <2>1, TerminateHandlesType
  <2>3. outcome' \in [Calls -> Outcomes]
    BY <1>3 DEF TerminateMembers, TypeOK, RejectAll, Outcomes, Settled
  <2>4. pending' \in [Handles -> Seq(Calls)]
    BY <1>3 DEF TerminateMembers, TypeOK, RejectAll
  <2>5. members' \in Seq(Handles) /\ workersBlocked' \in BOOLEAN
    <3>1. members' = <<>> /\ workersBlocked' = FALSE
      BY <1>3 DEF TerminateMembers, UnblockWorkers
    <3>2. members' \in Seq(Handles)
      BY <3>1
    <3>3. workersBlocked' \in BOOLEAN
      BY <3>1
    <3>4. QED
      BY <3>2, <3>3
  <2>6. watchdog' \in [Handles -> BOOLEAN] /\ idle' \in [Handles -> BOOLEAN]
    BY <1>3 DEF TerminateMembers, TypeOK, StopTimers
  <2>7. QED
    BY <2>2, <2>3, <2>4, <2>5, <2>6
<1>4. CASE Terminate
  BY <1>3, <1>4 DEF Terminate, TypeOK
<1>5. ASSUME NEW o \in Options, Configure(o)
      PROVE  TypeOK'
  <2>1. options' \in PoolOptions
    BY <1>5, OptionsAssumption
       DEF Configure, CheckOptions, CheckSize, Given, PoolOptions, TypeOK
  <2>2. QED
    BY <1>3, <1>5, <2>1 DEF Configure, TypeOK
<1>6. ASSUME NEW h \in Handles, ReadyResolves(h)
      PROVE  TypeOK'
  <2>1. inbox' \in [Handles -> Seq(Calls)]
    <3>1. inbox[h] \o queued[h] \in Seq(Calls)
      BY DEF TypeOK
    <3>2. QED
      BY <1>6, <3>1 DEF ReadyResolves, TypeOK
  <2>2. ready' \in [Handles -> {"compiling", "ready", "rejected"}]
        /\ queued' \in [Handles -> Seq(Calls)]
    BY <1>6 DEF ReadyResolves, TypeOK
  <2>3. QED
    BY <1>6, <2>1, <2>2 DEF ReadyResolves, TypeOK, poolVars
<1>7. ASSUME NEW h \in Handles, ReadyRejects(h)
      PROVE  TypeOK'
  <2>1. Fail(h, outbox)
    BY <1>7 DEF ReadyRejects, Catch
  <2>2. ready' \in [Handles -> {"compiling", "ready", "rejected"}]
        /\ queued' \in [Handles -> Seq(Calls)]
    BY <1>7 DEF ReadyRejects, TypeOK
  <2>3. UNCHANGED <<options, workersBlocked, redispatch, runtime, started, keptAlive>>
    BY <1>7, <2>1 DEF ReadyRejects, Fail
  <2>4. QED
    BY <1>0, <2>1, <2>2, <2>3, FailType DEF TypeOK
<1>8. ASSUME NEW h \in Handles, Receive(h)
      PROVE  TypeOK'
  <2>0. outbox[h] # <<>> => /\ Taken(h) \in [Handles -> Seq(Messages)]
                            /\ NextMessage(h) \in Messages
    BY TakenType
  <2>1. CASE ReceiveStarted(h)
    BY <2>0, <2>1 DEF ReceiveStarted, TypeOK, poolVars
  <2>2. CASE ReceiveUnloadable(h)
    BY <2>0, <2>2, FailType DEF ReceiveUnloadable, TypeOK, Fail
  <2>3. CASE ReceiveFailure(h)
    <3>1. CASE Fail(h, Taken(h))
      BY <2>0, <2>3, <3>1, FailType DEF ReceiveFailure, TypeOK, Fail
    <3>2. CASE Replace(h, pending[h], Taken(h)) /\ workersBlocked' = TRUE
               /\ UNCHANGED <<options, outcome>>
      <4>1. pending[h] \in Seq(Calls)
        BY DEF TypeOK
      <4>2. QED
        BY <2>0, <2>3, <3>2, <4>1, ReplaceType DEF ReceiveFailure, TypeOK
    <3>3. QED
      BY <2>3, <3>1, <3>2 DEF ReceiveFailure
  <2>4. CASE ReceiveStale(h)
    BY <2>0, <2>4 DEF ReceiveStale, TypeOK, IsAnswer, LateAnswer, memberVars
  <2>5. CASE SettleFatal(h)
    <3>1. NextMessage(h).call \in Calls
      BY <2>5 DEF SettleFatal, IsAnswer, Answers
    <3>2. Without(pending[h], NextMessage(h).call) \in Seq(Calls)
      BY WithoutType DEF TypeOK
    <3>3. Replace(h, Without(pending[h], NextMessage(h).call), Taken(h))
      BY <2>5 DEF SettleFatal, Leave
    <3>4. outcome' \in [Calls -> Outcomes] /\ started' \in [Handles -> BOOLEAN]
      BY <2>5, <3>1 DEF SettleFatal, TypeOK, Outcomes, Settled
    <3>5. QED
      BY <2>0, <2>5, <3>2, <3>3, <3>4, ReplaceType DEF SettleFatal, TypeOK, IsAnswer
  <2>6. CASE Settle(h)
    <3>1. NextMessage(h).call \in Calls /\ NextMessage(h).kind \in Answered
      BY <2>6 DEF Settle, IsAnswer, Answers, Answered
    <3>2. Without(pending[h], NextMessage(h).call) \in Seq(Calls)
      BY WithoutType DEF TypeOK
    <3>3. pending' \in [Handles -> Seq(Calls)]
      BY <2>6, <3>2 DEF Settle, TypeOK
    <3>4. watchdog' \in [Handles -> BOOLEAN] /\ keptAlive' \in [Handles -> BOOLEAN]
          /\ idle' \in [Handles -> BOOLEAN]
      BY <2>6 DEF Settle, TypeOK, RestartWatchdog, LetGo, StartIdle, Watched
    <3>5. outcome' \in [Calls -> Outcomes]
      BY <2>6, <3>1 DEF Settle, TypeOK, Outcomes, Settled
    <3>6. QED
      BY <2>0, <2>6, <3>3, <3>4, <3>5 DEF Settle, TypeOK, IsAnswer
  <2>7. QED
    BY <1>8, <2>1, <2>2, <2>3, <2>4, <2>5, <2>6 DEF Receive
<1>9. ASSUME NEW h \in Handles, TimedOut(h)
      PROVE  TypeOK'
  <2>1. pending[h] \in Seq(Calls) /\ pending[h] # <<>>
    BY <1>9 DEF TypeOK, WatchdogGuards, TimedOut
  <2>2. Tail(pending[h]) \in Seq(Calls)
    BY <2>1
  <2>3. Replace(h, Tail(pending[h]), outbox)
    BY <1>9 DEF TimedOut, BehindFirst
  <2>4. outcome' \in [Calls -> Outcomes]
    BY <1>9 DEF TimedOut, TypeOK, Outcomes, Settled
  <2>5. QED
    BY <1>0, <1>9, <2>2, <2>3, <2>4, ReplaceType DEF TimedOut, TypeOK
<1>10. ASSUME NEW h \in Handles, Retire(h)
       PROVE  TypeOK'
  <2>1. TerminateHandles({h}, outbox)
    BY <1>10 DEF Retire
  <2>2. worker' \in [Handles -> WorkerStates] /\ inbox' \in [Handles -> Seq(Calls)]
        /\ outbox' \in [Handles -> Seq(Messages)]
    BY <1>0, <2>1, TerminateHandlesType
  <2>3. members' \in Seq(Handles)
    BY <1>10, WithoutType DEF Retire, TypeOK
  <2>4. QED
    BY <1>10, <2>2, <2>3 DEF Retire, TypeOK
<1>11. ASSUME NEW h \in Handles, Worker(h)
       PROVE  TypeOK'
  <2>1. ASSUME NEW messages \in Seq(Messages), Send(h, messages)
        PROVE  outbox' \in [Handles -> Seq(Messages)]
    <3>1. outbox[h] \o messages \in Seq(Messages)
      BY <1>0
    <3>2. QED
      BY <1>0, <2>1, <3>1 DEF Send
  <2>2. ASSUME NEW kind \in {"started", "unloadable", "failure"}
        PROVE  [kind |-> kind] \in Messages
    BY DEF Notices
  <2>3. CASE Boot(h)
    <3>1. <<[kind |-> "started"]>> \in Seq(Messages)
      BY <2>2
    <3>2. outbox' \in [Handles -> Seq(Messages)]
      BY <2>1, <2>3, <3>1 DEF Boot
    <3>3. QED
      BY <2>3, <3>2 DEF Boot, TypeOK, WorkerStates, poolVars, memberVars
  <2>4. CASE Load(h)
    <3>1. <<[kind |-> "unloadable"]>> \in Seq(Messages)
      BY <2>2
    <3>2. outbox' \in [Handles -> Seq(Messages)]
      BY <1>0, <2>1, <2>4, <3>1 DEF Load
    <3>3. worker' \in [Handles -> WorkerStates]
      BY <2>4 DEF Load, TypeOK, WorkerStates
    <3>4. QED
      BY <2>4, <3>2, <3>3 DEF Load, TypeOK, poolVars, memberVars
  <2>5. CASE Run(h)
    <3>1. PICK kind \in {"ok", "error", "fatal", "tainted"} :
            /\ Send(h, <<[kind |-> kind, call |-> Head(inbox[h])]>>)
            /\ worker' = IF kind = "fatal" THEN [worker EXCEPT ![h] = "broken"]
                                           ELSE worker
      BY <2>5 DEF Run
    <3>2. Head(inbox[h]) \in Calls /\ Tail(inbox[h]) \in Seq(Calls)
      BY <2>5 DEF Run, TypeOK
    <3>3. <<[kind |-> kind, call |-> Head(inbox[h])]>> \in Seq(Messages)
      BY <3>2 DEF Answers
    <3>4. outbox' \in [Handles -> Seq(Messages)]
      BY <2>1, <3>1, <3>3
    <3>5. worker' \in [Handles -> WorkerStates]
      BY <3>1 DEF TypeOK, WorkerStates
    <3>6. inbox' \in [Handles -> Seq(Calls)]
      BY <2>5, <3>2 DEF Run, TypeOK
    <3>7. QED
      BY <2>5, <3>4, <3>5, <3>6 DEF Run, TypeOK, poolVars, memberVars
  <2>6. CASE Crash(h)
    <3>1. <<Failure>> \in Seq(Messages) /\ <<Failure, Failure>> \in Seq(Messages)
      BY <2>2 DEF Failure
    <3>2. outbox' \in [Handles -> Seq(Messages)]
      BY <2>1, <2>6, <3>1 DEF Crash
    <3>3. worker' \in [Handles -> WorkerStates] /\ inbox' \in [Handles -> Seq(Calls)]
      BY <2>6 DEF Crash, TypeOK, WorkerStates
    <3>4. QED
      BY <2>6, <3>2, <3>3 DEF Crash, TypeOK, poolVars, memberVars
  <2>7. QED
    BY <1>11, <2>3, <2>4, <2>5, <2>6 DEF Worker
<1>12. CASE UNCHANGED vars
  BY <1>12 DEF vars, poolVars, memberVars, workerVars, TypeOK
<1>13. QED
  BY <1>1, <1>2, <1>4, <1>5, <1>6, <1>7, <1>8, <1>9, <1>10, <1>11, <1>12
     DEF Next, Timer

-------------------------------------------------------------------------------
(* The inductive invariant: calls are held once, by members whose timers match *)
(* what they hold.                                                             *)

LEMMA CallsInit == Init => CallsInv
<1> SUFFICES ASSUME Init PROVE CallsInv
  OBVIOUS
<1>1. TypeOK
  BY TypeInit
<1>2. Range(<<>>) = {} /\ IsInjective(<<>>)
  BY DEF Range, IsInjective
<1>3. NoRepeats /\ PendingInPool /\ WatchdogGuards /\ IdleMembers
  BY <1>2 DEF Init, NoRepeats, PendingInPool, WatchdogGuards, IdleMembers, Pool
<1>4. WaitingHeldOnce
  BY <1>2 DEF Init, WaitingHeldOnce, Holders
<1>5. QED
  BY <1>1, <1>3, <1>4 DEF CallsInv

\* Members leave the pool with their timers stopped and without pending calls.
LEMMA LeaveMembers ==
    ASSUME CallsInv, TypeOK', NEW H \in SUBSET Handles,
           \A g \in Handles : watchdog'[g] <=> (g \notin H /\ watchdog[g]),
           \A g \in Handles : idle'[g] <=> (g \notin H /\ idle[g]),
           Range(members') = Pool \ H,
           \A g \in Handles : pending'[g] = IF g \in H THEN <<>> ELSE pending[g],
           UNCHANGED <<runtime, keptAlive>>,
           UNCHANGED options \/ Pool \subseteq H
    PROVE  /\ PendingInPool' /\ WatchdogGuards' /\ IdleMembers'
           /\ \A g \in Handles : IsInjective(pending'[g])
<1>0. PendingInPool /\ WatchdogGuards /\ IdleMembers /\ NoRepeats
  BY DEF CallsInv
<1>1. Pool' = Pool \ H
  BY DEF Pool
<1>2. PendingInPool'
  BY <1>0, <1>1 DEF PendingInPool
<1>3. ASSUME NEW g \in Handles
      PROVE  watchdog'[g] <=> (pending'[g] # <<>> /\ Watched(runtime[g])')
  <2>1. CASE g \in H
    BY <2>1
  <2>2. CASE g \notin H /\ pending[g] = <<>>
    BY <1>0, <2>2 DEF WatchdogGuards
  <2>3. CASE g \notin H /\ pending[g] # <<>>
    <3>1. options' = options
      BY <1>0, <2>3 DEF PendingInPool
    <3>2. QED
      BY <1>0, <2>3, <3>1 DEF WatchdogGuards, Watched
  <2>4. QED
    BY <2>1, <2>2, <2>3
<1>4. ASSUME NEW g \in Handles
      PROVE  /\ idle'[g] <=> (g \in Pool' /\ pending'[g] = <<>>
                               /\ options'.idleTimeout = "finite")
             /\ g \in Pool' => (keptAlive'[g] <=> pending'[g] # <<>>)
  <2>1. CASE g \in H
    BY <1>1, <2>1
  <2>2. CASE g \notin H /\ g \notin Pool
    BY <1>0, <1>1, <2>2 DEF IdleMembers
  <2>3. CASE g \notin H /\ g \in Pool
    <3>1. options' = options
      BY <2>3
    <3>2. QED
      BY <1>0, <1>1, <2>3, <3>1 DEF IdleMembers
  <2>4. QED
    BY <2>1, <2>2, <2>3
<1>5. WatchdogGuards'
  BY <1>3 DEF WatchdogGuards
<1>6. IdleMembers'
  BY <1>4 DEF IdleMembers
<1>7. \A g \in Handles : IsInjective(pending'[g])
  BY <1>0 DEF NoRepeats, IsInjective
<1>8. QED
  BY <1>2, <1>5, <1>6, <1>7

\* Removing one member: what Replace, Fail and Retire do to the array.
LEMMA RemoveMember ==
    ASSUME CallsInv, NEW h, members' = Without(members, h)
    PROVE  IsInjective(members') /\ Range(members') = Pool \ {h}
BY WithoutElements DEF CallsInv, TypeOK, NoRepeats, Pool

\* A member is replaced: the calls it held either settle or are dispatched again.
LEMMA ReplaceInv ==
    ASSUME CallsInv, TypeOK', NEW h \in Handles, NEW waiting \in Seq(Calls),
           NEW undelivered, Replace(h, waiting, undelivered), ThreadFree,
           UNCHANGED <<options, runtime, keptAlive>>,
           IsInjective(waiting), Range(waiting) \subseteq Range(pending[h]),
           \A c \in Calls :
                (outcome'[c] = "waiting") <=>
                    (outcome[c] = "waiting"
                     /\ (c \in Range(pending[h]) => c \in Range(waiting)))
    PROVE  CallsInv'
<1> USE DEF ThreadFree
<1>0. TypeOK /\ NoRepeats /\ WaitingHeldOnce /\ pending \in [Handles -> Seq(Calls)]
  BY DEF CallsInv, TypeOK
<1>1. IsInjective(members') /\ Range(members') = Pool \ {h}
  BY RemoveMember DEF Replace
<1>2. \A g \in Handles : pending'[g] = IF g \in {h} THEN <<>> ELSE pending[g]
  BY <1>0 DEF Replace
<1>3. /\ \A g \in Handles : watchdog'[g] <=> (g \notin {h} /\ watchdog[g])
      /\ \A g \in Handles : idle'[g] <=> (g \notin {h} /\ idle[g])
  BY DEF Replace, StopTimers
<1>4. /\ PendingInPool' /\ WatchdogGuards' /\ IdleMembers'
      /\ \A g \in Handles : IsInjective(pending'[g])
  BY <1>1, <1>2, <1>3, LeaveMembers, ZenonT(40)
<1>5. redispatch' = waiting /\ Range(redispatch) = {}
  BY DEF Replace, Retry, Range
<1>6. NoRepeats'
  BY <1>1, <1>4, <1>5 DEF NoRepeats
<1>7. ASSUME NEW c \in Calls
      PROVE  Holders(c)' = Holders(c) \ {h}
  BY <1>2 DEF Holders, Range
<1>8. WaitingHeldOnce'
  <2> SUFFICES ASSUME NEW c \in Calls
               PROVE  /\ (outcome'[c] = "waiting") <=>
                           (Holders(c)' # {} \/ c \in Range(redispatch'))
                      /\ Holders(c)' # {} => c \notin Range(redispatch')
                      /\ \A f, g \in Holders(c)' : f = g
    BY DEF WaitingHeldOnce
  <2>1. (outcome[c] = "waiting") <=> Holders(c) # {}
    BY <1>0, <1>5 DEF WaitingHeldOnce
  <2>2. \A f, g \in Holders(c) : f = g
    BY <1>0 DEF WaitingHeldOnce
  <2>3. c \in Range(pending[h]) <=> h \in Holders(c)
    BY DEF Holders
  <2>4. QED
    BY <1>5, <1>7, <2>1, <2>2, <2>3
<1>9. QED
  BY <1>4, <1>6, <1>8 DEF CallsInv

\* The members of a set leave the pool and their calls are rejected.
LEMMA RejectInv ==
    ASSUME CallsInv, TypeOK', NEW H \in SUBSET Handles, NEW o \in Settled,
           StopTimers(H), RejectAll(H, o), IsInjective(members'),
           Range(members') = Pool \ H, ThreadFree,
           UNCHANGED <<redispatch, runtime, keptAlive>>,
           UNCHANGED options \/ Pool \subseteq H
    PROVE  CallsInv'
<1> USE DEF ThreadFree
<1>0. TypeOK /\ NoRepeats /\ WaitingHeldOnce
  BY DEF CallsInv
<1>1. \A g \in Handles : pending'[g] = IF g \in H THEN <<>> ELSE pending[g]
  BY DEF RejectAll
<1>2. /\ \A g \in Handles : watchdog'[g] <=> (g \notin H /\ watchdog[g])
      /\ \A g \in Handles : idle'[g] <=> (g \notin H /\ idle[g])
  BY DEF StopTimers
<1>3. /\ PendingInPool' /\ WatchdogGuards' /\ IdleMembers'
      /\ \A g \in Handles : IsInjective(pending'[g])
  BY <1>1, <1>2, LeaveMembers
<1>4. NoRepeats'
  BY <1>0, <1>3 DEF NoRepeats
<1>5. Range(redispatch) = {} /\ Range(redispatch') = {}
  BY DEF Range
<1>6. ASSUME NEW c \in Calls
      PROVE  Holders(c)' = Holders(c) \ H
  BY <1>1 DEF Holders, Range
<1>7. WaitingHeldOnce'
  <2> SUFFICES ASSUME NEW c \in Calls
               PROVE  /\ (outcome'[c] = "waiting") <=> Holders(c)' # {}
                      /\ \A f, g \in Holders(c)' : f = g
    BY <1>5 DEF WaitingHeldOnce
  <2>1. (outcome[c] = "waiting") <=> Holders(c) # {}
    BY <1>0, <1>5 DEF WaitingHeldOnce
  <2>2. \A f, g \in Holders(c) : f = g
    BY <1>0 DEF WaitingHeldOnce
  <2>3. outcome'[c] = IF Holders(c) \cap H # {} THEN o ELSE outcome[c]
    BY DEF RejectAll, Holders
  <2>4. o # "waiting"
    BY DEF Settled, Answered
  <2>5. QED
    BY <1>6, <2>1, <2>2, <2>3, <2>4
<1>8. QED
  BY <1>3, <1>4, <1>7 DEF CallsInv

\* Steps that touch neither a promise nor what the pool knows of its members.
LEMMA FrameInv ==
    ASSUME CallsInv, TypeOK',
           UNCHANGED <<options, members, redispatch, outcome, runtime, pending,
                       watchdog, idle, keptAlive>>
    PROVE  CallsInv'
<1>1. NoRepeats'
  BY DEF CallsInv, NoRepeats
<1>2. PendingInPool' /\ WatchdogGuards' /\ IdleMembers'
  BY DEF CallsInv, PendingInPool, WatchdogGuards, IdleMembers, Pool, Watched
<1>3. WaitingHeldOnce'
  BY DEF CallsInv, WaitingHeldOnce, Holders
<1>4. QED
  BY <1>1, <1>2, <1>3 DEF CallsInv

\* One more call is held by h, and by nobody else.
LEMMA HoldOne ==
    ASSUME CallsInv, TypeOK', NEW h \in Handles, NEW c \in Calls, Holders(c) = {},
           \A g \in Handles \ {h} : pending'[g] = pending[g],
           Range(pending'[h]) = Range(pending[h]) \cup {c},
           outcome' = [outcome EXCEPT ![c] = "waiting"],
           Range(redispatch') = Range(redispatch) \ {c}
    PROVE  WaitingHeldOnce'
<1>0. WaitingHeldOnce /\ outcome \in [Calls -> Outcomes]
  BY DEF CallsInv, TypeOK
<1>1. \A d \in Calls : Holders(d)' = IF d = c THEN {h} ELSE Holders(d)
  BY DEF Holders
<1> SUFFICES ASSUME NEW d \in Calls
             PROVE  /\ (outcome'[d] = "waiting") <=>
                         (Holders(d)' # {} \/ d \in Range(redispatch'))
                    /\ Holders(d)' # {} => d \notin Range(redispatch')
                    /\ \A f, g \in Holders(d)' : f = g
  BY DEF WaitingHeldOnce
<1>2. CASE d = c
  BY <1>0, <1>1, <1>2
<1>3. CASE d # c
  BY <1>0, <1>1, <1>3 DEF WaitingHeldOnce
<1>4. QED
  BY <1>2, <1>3

LEMMA AssignInv ==
    ASSUME CallsInv, TypeOK', NEW h \in Pool, NEW c \in Calls, Holders(c) = {},
           Assign(h, c), UNCHANGED options,
           outcome' = [outcome EXCEPT ![c] = "waiting"],
           IsInjective(redispatch'), Range(redispatch') = Range(redispatch) \ {c}
    PROVE  CallsInv'
<1>0. TypeOK /\ NoRepeats /\ PendingInPool /\ WatchdogGuards /\ IdleMembers
  BY DEF CallsInv
<1>1. h \in Handles /\ members' = members /\ Pool' = Pool /\ runtime' = runtime
  BY <1>0 DEF TypeOK, Pool, Range, Assign
<1>2. /\ \A g \in Handles : pending'[g] = IF g = h THEN Append(pending[h], c)
                                                   ELSE pending[g]
      /\ pending[h] \in Seq(Calls) /\ c \notin Range(pending[h])
  BY <1>0, <1>1 DEF TypeOK, Assign, Holders
<1>3. /\ Range(pending'[h]) = Range(pending[h]) \cup {c}
      /\ IsInjective(pending'[h]) /\ pending'[h] # <<>>
  <2>1. pending'[h] = Append(pending[h], c) /\ IsInjective(pending[h])
    BY <1>0, <1>1, <1>2 DEF NoRepeats
  <2>2. QED
    BY <1>2, <2>1, AppendElements
<1>4. NoRepeats'
  <2>1. \A g \in Handles : IsInjective(pending'[g])
    BY <1>0, <1>2, <1>3 DEF NoRepeats
  <2>2. QED
    BY <1>0, <1>1, <2>1 DEF NoRepeats
<1>5. PendingInPool'
  BY <1>0, <1>1, <1>2 DEF PendingInPool
<1>6. WatchdogGuards'
  <2> SUFFICES ASSUME NEW g \in Handles
               PROVE  watchdog'[g] <=> (pending'[g] # <<>> /\ Watched(runtime[g]))
    BY <1>1 DEF WatchdogGuards, Watched
  <2>1. watchdog'[g] <=> (watchdog[g] \/ (g = h /\ Watched(runtime[h])))
    <3>1. watchdog \in [Handles -> BOOLEAN] /\ StartWatchdog(h)
      BY <1>0 DEF TypeOK, Assign
    <3>2. CASE g = h
      <4>1. watchdog'[h] = (watchdog[h] \/ Watched(runtime[h]))
        BY <1>1, <3>1, Zenon DEF StartWatchdog
      <4>2. QED
        BY <3>2, <4>1, Zenon
    <3>3. CASE g # h
      <4>1. watchdog'[g] = watchdog[g]
        BY <1>1, <3>1, <3>3 DEF StartWatchdog
      <4>2. QED
        BY <3>3, <4>1
    <3>4. QED
      BY <3>2, <3>3
  <2>2. watchdog[g] <=> (pending[g] # <<>> /\ Watched(runtime[g]))
    BY <1>0 DEF WatchdogGuards
  <2>3. CASE g = h
    BY <1>3, <2>1, <2>2, <2>3
  <2>4. CASE g # h
    BY <1>2, <2>1, <2>2, <2>4
  <2>5. QED
    BY <2>3, <2>4
<1>7. IdleMembers'
  <2> SUFFICES ASSUME NEW g \in Handles
               PROVE  /\ idle'[g] <=> (g \in Pool /\ pending'[g] = <<>>
                                        /\ options.idleTimeout = "finite")
                      /\ g \in Pool => (keptAlive'[g] <=> pending'[g] # <<>>)
    BY <1>1 DEF IdleMembers
  <2>1. idle'[g] <=> (g # h /\ idle[g])
    BY <1>0, <1>1 DEF TypeOK, Assign, ClearIdle
  <2>2. keptAlive'[g] <=> (g = h \/ keptAlive[g])
    BY <1>0, <1>1 DEF TypeOK, Assign
  <2>3. QED
    BY <1>0, <1>2, <1>3, <2>1, <2>2 DEF IdleMembers
<1>8. WaitingHeldOnce'
  BY <1>1, <1>2, <1>3, HoldOne
<1>9. QED
  BY <1>4, <1>5, <1>6, <1>7, <1>8 DEF CallsInv

LEMMA SpawnInv ==
    ASSUME CallsInv, TypeOK', NEW h \in Handles, NEW c \in Calls, Holders(c) = {},
           NEW kind \in Runtimes, Spawn(kind, h, c), UNCHANGED options,
           outcome' = [outcome EXCEPT ![c] = "waiting"],
           IsInjective(redispatch'), Range(redispatch') = Range(redispatch) \ {c}
    PROVE  CallsInv'
<1>0. TypeOK /\ NoRepeats /\ PendingInPool /\ WatchdogGuards /\ IdleMembers
  BY DEF CallsInv
<1>1. h \notin Pool /\ pending[h] = <<>>
  BY <1>0 DEF Spawn, Free, Pool, PendingInPool
<1>2. Pool' = Pool \cup {h} /\ IsInjective(members')
  BY <1>0, <1>1, AppendElements DEF TypeOK, NoRepeats, Spawn, Pool
<1>3. \A g \in Handles : /\ pending'[g] = IF g = h THEN <<c>> ELSE pending[g]
                         /\ runtime'[g] = IF g = h THEN kind ELSE runtime[g]
                         /\ watchdog'[g] <=> IF g = h THEN Watched(kind) ELSE watchdog[g]
                         /\ idle'[g] <=> (g # h /\ idle[g])
                         /\ keptAlive'[g] <=> (g = h \/ keptAlive[g])
  BY <1>0 DEF TypeOK, Spawn
<1>4. Range(pending'[h]) = Range(pending[h]) \cup {c} /\ IsInjective(pending'[h])
      /\ pending'[h] # <<>>
  <2>1. Range(<<c>>) = {c} /\ Range(<<>>) = {} /\ IsInjective(<<c>>) /\ <<c>> # <<>>
    BY DEF Range, IsInjective
  <2>2. QED
    BY <1>1, <1>3, <2>1
<1>5. NoRepeats'
  <2>1. \A g \in Handles : IsInjective(pending'[g])
    BY <1>0, <1>3, <1>4 DEF NoRepeats
  <2>2. QED
    BY <1>2, <2>1 DEF NoRepeats
<1>6. PendingInPool'
  BY <1>0, <1>2, <1>3 DEF PendingInPool
<1>7. WatchdogGuards'
  <2> SUFFICES ASSUME NEW g \in Handles
               PROVE  watchdog'[g] <=> (pending'[g] # <<>> /\ Watched(runtime'[g]))
    BY DEF WatchdogGuards, Watched
  <2>1. CASE g = h
    BY <1>3, <1>4, <2>1
  <2>2. CASE g # h
    BY <1>0, <1>3, <2>2 DEF WatchdogGuards
  <2>3. QED
    BY <2>1, <2>2
<1>8. IdleMembers'
  BY <1>0, <1>1, <1>2, <1>3, <1>4 DEF IdleMembers
<1>9. WaitingHeldOnce'
  BY <1>3, <1>4, HoldOne
<1>10. QED
  BY <1>5, <1>6, <1>7, <1>8, <1>9 DEF CallsInv

LEMMA DispatchInv ==
    ASSUME CallsInv, TypeOK', NEW c \in Calls, Holders(c) = {}, Dispatch(c),
           UNCHANGED options, IsInjective(redispatch'),
           Range(redispatch') = Range(redispatch) \ {c}
    PROVE  CallsInv'
<1>1. ASSUME NEW i \in DOMAIN members, Assign(members[i], c),
             outcome' = [outcome EXCEPT ![c] = "waiting"]
      PROVE  CallsInv'
  <2>1. members[i] \in Pool
    BY DEF Pool, Range
  <2>2. QED
    BY <1>1, <2>1, AssignInv
<1>2. ASSUME NEW h \in Handles, Spawn(Factory, h, c) \/ Spawn("inline", h, c),
             outcome' = [outcome EXCEPT ![c] = "waiting"]
      PROVE  CallsInv'
  <2>1. "inline" \in Runtimes
    BY DEF Runtimes
  <2>2. QED
    BY <1>2, <2>1, FactoryType, SpawnInv
<1>3. ASSUME outcome' = [outcome EXCEPT ![c] = "failed"],
             UNCHANGED <<members, memberVars, workerVars>>
      PROVE  CallsInv'
  <2>1. NoRepeats'
    BY <1>3 DEF CallsInv, NoRepeats, memberVars
  <2>2. PendingInPool' /\ WatchdogGuards' /\ IdleMembers'
    BY <1>3 DEF CallsInv, PendingInPool, WatchdogGuards, IdleMembers, Pool, Watched,
                memberVars
  <2>3. \A d \in Calls : Holders(d)' = Holders(d)
    BY <1>3 DEF Holders, memberVars
  <2>4. WaitingHeldOnce'
    <3> SUFFICES ASSUME NEW d \in Calls
                 PROVE  /\ (outcome'[d] = "waiting") <=>
                             (Holders(d) # {} \/ d \in Range(redispatch'))
                        /\ Holders(d) # {} => d \notin Range(redispatch')
                        /\ \A f, g \in Holders(d) : f = g
      BY <2>3 DEF WaitingHeldOnce
    <3>1. outcome'[d] = IF d = c THEN "failed" ELSE outcome[d]
      BY <1>3 DEF CallsInv, TypeOK
    <3>2. QED
      BY <3>1 DEF CallsInv, WaitingHeldOnce
  <2>5. QED
    BY <2>1, <2>2, <2>4 DEF CallsInv
<1>4. QED
  BY <1>1, <1>2, <1>3 DEF Dispatch

\* An answer is delivered and the member goes on with what is left.
LEMMA SettleInv ==
    ASSUME CallsInv, TypeOK', NEW h \in Handles, Settle(h)
    PROVE  CallsInv'
<1> DEFINE c    == NextMessage(h).call
           left == Without(pending[h], c)
<1>0. TypeOK /\ NoRepeats /\ PendingInPool /\ WatchdogGuards /\ IdleMembers
      /\ WaitingHeldOnce
  BY DEF CallsInv
<1>1. c \in Calls /\ NextMessage(h).kind \in Answered /\ c \in Range(pending[h])
  BY DEF Settle, IsAnswer, Answers, Answered
<1>2. /\ \A g \in Handles : pending'[g] = IF g = h THEN left ELSE pending[g]
      /\ pending[h] \in Seq(Calls) /\ IsInjective(pending[h])
  BY <1>0 DEF TypeOK, NoRepeats, Settle
<1>3. Range(left) = Range(pending[h]) \ {c} /\ IsInjective(left)
  BY <1>2, WithoutElements
<1>4. pending[h] # <<>> /\ h \in Pool
  BY <1>0, <1>1, <1>2, EmptyElements DEF PendingInPool
<1>5. UNCHANGED <<options, members, redispatch, runtime>> /\ Pool' = Pool
  BY DEF Settle, Pool
<1>6. /\ outcome' = [outcome EXCEPT ![c] = NextMessage(h).kind]
      /\ NextMessage(h).kind # "waiting"
  BY <1>1 DEF Settle, Answered
<1>7. \A g \in Handles :
        /\ watchdog'[g] <=> IF g = h THEN left # <<>> /\ Watched(runtime[h])
                                     ELSE watchdog[g]
        /\ keptAlive'[g] <=> IF g = h THEN keptAlive[h] /\ left # <<>> ELSE keptAlive[g]
        /\ idle'[g] <=> IF g = h
                        THEN idle[h] \/ (left = <<>> /\ options.idleTimeout = "finite")
                        ELSE idle[g]
  BY <1>0, ZenonT(40) DEF TypeOK, Settle, RestartWatchdog, LetGo, StartIdle
<1> HIDE DEF c, left
<1>8. NoRepeats'
  <2>1. \A g \in Handles : IsInjective(pending'[g])
    BY <1>0, <1>2, <1>3 DEF NoRepeats
  <2>2. QED
    BY <1>0, <1>5, <2>1 DEF NoRepeats
<1>9. PendingInPool'
  BY <1>0, <1>2, <1>4, <1>5 DEF PendingInPool
<1>10. WatchdogGuards'
  <2> SUFFICES ASSUME NEW g \in Handles
               PROVE  watchdog'[g] <=> (pending'[g] # <<>> /\ Watched(runtime[g]))
    BY <1>5 DEF WatchdogGuards, Watched
  <2>1. QED
    BY <1>0, <1>2, <1>7 DEF WatchdogGuards
<1>11. IdleMembers'
  <2> SUFFICES ASSUME NEW g \in Handles
               PROVE  /\ idle'[g] <=> (g \in Pool /\ pending'[g] = <<>>
                                        /\ options.idleTimeout = "finite")
                      /\ g \in Pool => (keptAlive'[g] <=> pending'[g] # <<>>)
    BY <1>5 DEF IdleMembers
  <2>1. CASE g = h
    BY <1>0, <1>2, <1>4, <1>7, <2>1 DEF IdleMembers
  <2>2. CASE g # h
    BY <1>0, <1>2, <1>7, <2>2 DEF IdleMembers
  <2>3. QED
    BY <2>1, <2>2
<1>12. WaitingHeldOnce'
  <2>1. \A d \in Calls : Holders(d)' = IF d = c THEN Holders(d) \ {h} ELSE Holders(d)
    BY <1>2, <1>3 DEF Holders
  <2>2. h \in Holders(c)
    BY <1>1 DEF Holders, c
  <2>3. \A d \in Calls : outcome'[d] = IF d = c THEN NextMessage(h).kind ELSE outcome[d]
    BY <1>0, <1>6 DEF TypeOK
  <2> SUFFICES ASSUME NEW d \in Calls
               PROVE  /\ (outcome'[d] = "waiting") <=>
                           (Holders(d)' # {} \/ d \in Range(redispatch))
                      /\ Holders(d)' # {} => d \notin Range(redispatch)
                      /\ \A f, g \in Holders(d)' : f = g
    BY <1>5 DEF WaitingHeldOnce
  <2>4. CASE d = c
    <3>1. Holders(d)' = {} /\ d \notin Range(redispatch)
      BY <1>0, <1>1, <2>1, <2>2, <2>4 DEF WaitingHeldOnce
    <3>2. QED
      BY <1>6, <2>3, <2>4, <3>1
  <2>5. CASE d # c
    BY <1>0, <2>1, <2>3, <2>5 DEF WaitingHeldOnce
  <2>6. QED
    BY <2>4, <2>5
<1>13. QED
  BY <1>8, <1>9, <1>10, <1>11, <1>12 DEF CallsInv

LEMMA FailInv ==
    ASSUME CallsInv, TypeOK', NEW h \in Handles, NEW undelivered,
           Fail(h, undelivered), ThreadFree, UNCHANGED <<runtime, keptAlive>>
    PROVE  CallsInv'
<1>1. IsInjective(members') /\ Range(members') = Pool \ {h}
  BY RemoveMember DEF Fail
<1>2. StopTimers({h}) /\ RejectAll({h}, "failed") /\ UNCHANGED <<options, redispatch>>
  BY DEF Fail
<1>3. "failed" \in Settled
  BY DEF Settled
<1>4. QED
  BY <1>1, <1>2, <1>3, RejectInv

LEMMA TerminateInv ==
    ASSUME CallsInv, TypeOK', TerminateMembers, ThreadFree,
           UNCHANGED <<redispatch, runtime, keptAlive>>
    PROVE  CallsInv'
<1>1. members' = <<>> /\ StopTimers(Pool) /\ RejectAll(Pool, "terminated")
  BY DEF TerminateMembers, Pool
<1>2. IsInjective(members') /\ Range(members') = Pool \ Pool
  BY <1>1 DEF IsInjective, Range
<1>3. Pool \in SUBSET Handles /\ "terminated" \in Settled
  BY DEF CallsInv, TypeOK, Pool, Range, Settled
<1>4. QED
  BY <1>1, <1>2, <1>3, RejectInv

-------------------------------------------------------------------------------
(* Every step keeps the invariant.                                             *)

LEMMA CallsStep == CallsInv /\ [Next]_vars => CallsInv'
<1> SUFFICES ASSUME CallsInv, [Next]_vars
             PROVE  CallsInv'
  OBVIOUS
<1>0. TypeOK /\ NoRepeats /\ WatchdogGuards /\ WaitingHeldOnce /\ IdleMembers
  BY DEF CallsInv
<1>1. TypeOK'
  BY <1>0, TypeStep
<1>2. ASSUME NEW c \in Calls, Call(c)
      PROVE  CallsInv'
  <2>1. Holders(c) = {} /\ c \notin Range(redispatch)
    BY <1>0, <1>2 DEF Call, WaitingHeldOnce
  <2>2. IsInjective(redispatch') /\ Range(redispatch') = Range(redispatch) \ {c}
    BY <1>0, <1>2, <2>1 DEF Call, NoRepeats
  <2>3. Dispatch(c) /\ UNCHANGED options
    BY <1>2 DEF Call
  <2>4. QED
    BY <1>1, <2>1, <2>2, <2>3, DispatchInv
<1>3. CASE Redispatch
  <2> DEFINE c == Head(redispatch)
  <2>1. redispatch \in Seq(Calls) /\ redispatch # <<>> /\ IsInjective(redispatch)
    BY <1>0, <1>3 DEF Redispatch, TypeOK, NoRepeats
  <2>2. /\ c \in Range(redispatch) /\ c \in Calls
        /\ IsInjective(redispatch') /\ Range(redispatch') = Range(redispatch) \ {c}
    BY <1>3, <2>1, TailElements DEF Redispatch
  <2>3. Holders(c) = {}
    BY <1>0, <2>2 DEF WaitingHeldOnce
  <2>4. Dispatch(c) /\ UNCHANGED options
    BY <1>3 DEF Redispatch
  <2> HIDE DEF c
  <2>5. QED
    BY <1>1, <2>2, <2>3, <2>4, DispatchInv
<1>4. CASE Terminate
  BY <1>1, <1>4, TerminateInv DEF Terminate
<1>5. ASSUME NEW o \in Options, Configure(o)
      PROVE  CallsInv'
  BY <1>1, <1>5, TerminateInv DEF Configure
<1>6. ASSUME NEW h \in Handles, ReadyResolves(h)
      PROVE  CallsInv'
  BY <1>1, <1>6, FrameInv DEF ReadyResolves, poolVars
<1>7. ASSUME NEW h \in Handles, ReadyRejects(h)
      PROVE  CallsInv'
  BY <1>1, <1>7, FailInv DEF ReadyRejects, Catch
<1>8. ASSUME NEW h \in Handles, Receive(h)
      PROVE  CallsInv'
  <2>1. CASE ReceiveStarted(h)
    BY <1>1, <2>1, FrameInv DEF ReceiveStarted, poolVars
  <2>2. CASE ReceiveUnloadable(h)
    BY <1>1, <2>2, FailInv DEF ReceiveUnloadable
  <2>3. CASE ReceiveFailure(h)
    <3>1. CASE Fail(h, Taken(h))
      BY <1>1, <2>3, <3>1, FailInv DEF ReceiveFailure
    <3>2. CASE Replace(h, pending[h], Taken(h)) /\ UNCHANGED <<options, outcome>>
      <4>1. pending[h] \in Seq(Calls) /\ IsInjective(pending[h])
        BY <1>0 DEF TypeOK, NoRepeats
      <4>2. ThreadFree /\ UNCHANGED <<runtime, keptAlive>>
        BY <2>3 DEF ReceiveFailure
      <4>3. QED
        BY <1>1, <3>2, <4>1, <4>2, ReplaceInv
    <3>3. QED
      BY <2>3, <3>1, <3>2 DEF ReceiveFailure
  <2>4. CASE ReceiveStale(h)
    BY <1>1, <2>4, FrameInv DEF ReceiveStale, LateAnswer, memberVars
  <2>5. CASE SettleFatal(h)
    <3> DEFINE c       == NextMessage(h).call
               waiting == Without(pending[h], c)
    <3>1. /\ c \in Calls /\ c \in Range(pending[h]) /\ ThreadFree
          /\ Replace(h, waiting, Taken(h))
          /\ UNCHANGED <<options, runtime, keptAlive>>
          /\ outcome' = [outcome EXCEPT ![c] = "crashed"]
      BY <2>5 DEF SettleFatal, IsAnswer, Answers, Leave
    <3>2. pending[h] \in Seq(Calls) /\ IsInjective(pending[h])
      BY <1>0 DEF TypeOK, NoRepeats
    <3>3. /\ waiting \in Seq(Calls) /\ IsInjective(waiting)
          /\ Range(waiting) = Range(pending[h]) \ {c}
      BY <3>2, WithoutElements, WithoutType
    <3> HIDE DEF c, waiting
    <3>4. \A d \in Calls :
            (outcome'[d] = "waiting") <=>
                (outcome[d] = "waiting"
                 /\ (d \in Range(pending[h]) => d \in Range(waiting)))
      BY <1>0, <3>1, <3>3 DEF TypeOK
    <3>5. QED
      BY <1>1, <3>1, <3>3, <3>4, ReplaceInv
  <2>6. CASE Settle(h)
    BY <1>1, <2>6, SettleInv
  <2>7. QED
    BY <1>8, <2>1, <2>2, <2>3, <2>4, <2>5, <2>6 DEF Receive
<1>9. ASSUME NEW h \in Handles, TimedOut(h)
      PROVE  CallsInv'
  <2> DEFINE c == Head(pending[h])
  <2>1. pending[h] \in Seq(Calls) /\ IsInjective(pending[h]) /\ pending[h] # <<>>
    BY <1>0, <1>9 DEF TypeOK, NoRepeats, WatchdogGuards, TimedOut
  <2>2. /\ Tail(pending[h]) \in Seq(Calls) /\ IsInjective(Tail(pending[h]))
        /\ Range(Tail(pending[h])) = Range(pending[h]) \ {c}
        /\ c \in Range(pending[h])
    BY <2>1, TailElements
  <2>3. /\ Replace(h, Tail(pending[h]), outbox) /\ ThreadFree
        /\ UNCHANGED <<options, runtime, keptAlive>>
        /\ outcome' = [outcome EXCEPT ![c] = "timeout"]
    BY <1>9 DEF TimedOut, BehindFirst
  <2> HIDE DEF c
  <2>4. \A d \in Calls :
          (outcome'[d] = "waiting") <=>
              (outcome[d] = "waiting"
               /\ (d \in Range(pending[h]) => d \in Range(Tail(pending[h]))))
    BY <1>0, <2>2, <2>3 DEF TypeOK
  <2>5. QED
    BY <1>1, <2>2, <2>3, <2>4, ReplaceInv
<1>10. ASSUME NEW h \in Handles, Retire(h)
       PROVE  CallsInv'
  <2>1. pending[h] = <<>> /\ ~watchdog[h]
    BY <1>0, <1>10 DEF IdleMembers, WatchdogGuards, Retire
  <2>2. IsInjective(members') /\ Range(members') = Pool \ {h}
    BY <1>10, RemoveMember DEF Retire
  <2>3. /\ \A g \in Handles : watchdog'[g] <=> (g \notin {h} /\ watchdog[g])
        /\ \A g \in Handles : idle'[g] <=> (g \notin {h} /\ idle[g])
    BY <1>0, <1>10, <2>1 DEF Retire, TypeOK
  <2>4. \A g \in Handles : pending'[g] = IF g \in {h} THEN <<>> ELSE pending[g]
    BY <1>10, <2>1 DEF Retire
  <2>5. UNCHANGED <<options, runtime, keptAlive, redispatch, outcome, pending>>
    BY <1>10 DEF Retire
  <2>6. PendingInPool' /\ WatchdogGuards' /\ IdleMembers'
    BY <1>1, <2>2, <2>3, <2>4, <2>5, LeaveMembers
  <2>7. NoRepeats'
    BY <1>0, <2>2, <2>5 DEF NoRepeats
  <2>8. WaitingHeldOnce'
    BY <1>0, <2>5 DEF WaitingHeldOnce, Holders
  <2>9. QED
    BY <1>1, <2>6, <2>7, <2>8 DEF CallsInv
<1>11. ASSUME NEW h \in Handles, Worker(h)
       PROVE  CallsInv'
  <2>1. UNCHANGED <<poolVars, memberVars>>
    BY <1>11 DEF Worker, Boot, Load, Run, Crash
  <2>2. QED
    BY <1>1, <2>1, FrameInv DEF poolVars, memberVars
<1>12. CASE UNCHANGED vars
  BY <1>1, <1>12, FrameInv DEF vars, poolVars, memberVars
<1>13. QED
  BY <1>2, <1>3, <1>4, <1>5, <1>6, <1>7, <1>8, <1>9, <1>10, <1>11, <1>12
     DEF Next, Timer

\* The invariant holds in every reachable state, whatever the number of calls and
\* workers, the runtime and the options the program goes through.
THEOREM CallsInvariant == Spec => []CallsInv
<1>1. Init => CallsInv
  BY CallsInit
<1>2. CallsInv /\ [Next]_vars => CallsInv'
  BY CallsStep
<1>3. QED
  BY <1>1, <1>2, PTL DEF Spec

\* The state of the pool always has its type (that of timedOut depends on the
\* watchdog running only while there is a call to time out).
THEOREM TypeCorrect == Spec => []TypeOK
<1>1. CallsInv => TypeOK
  BY DEF CallsInv
<1>2. QED
  BY <1>1, CallsInvariant, PTL

\* No replacement, failure, termination or retirement of a worker loses a waiting
\* call or gives it to two members.
THEOREM NoCallLost == Spec => []WaitingHeldOnce
<1>1. CallsInv => WaitingHeldOnce
  BY DEF CallsInv
<1>2. QED
  BY <1>1, CallsInvariant, PTL

\* The watchdog of every member matches the calls it holds, and only members hold calls.
THEOREM TimersMatch == Spec => [](WatchdogGuards /\ PendingInPool)
<1>1. CallsInv => WatchdogGuards /\ PendingInPool
  BY DEF CallsInv
<1>2. QED
  BY <1>1, CallsInvariant, PTL

\* The idle timer runs for the members that have nothing to do, and a Node process is
\* kept alive by those only that have calls to answer.
THEOREM IdleMembersLeave == Spec => []IdleMembers
<1>1. CallsInv => IdleMembers
  BY DEF CallsInv
<1>2. QED
  BY <1>1, CallsInvariant, PTL

-------------------------------------------------------------------------------
(* The inductive invariant.  The pool spawns an inline member beside others    *)
(* only when no worker can be had, and once it has one, none can be: so that   *)
(* the calling thread is never asked twice.  Workers are only given up on in   *)
(* mode "auto", which is why mode "worker" never falls back.                   *)

OptionsInv ==
    /\ Len(members) <= options.size
    /\ \A g, h \in Pool : runtime[g] = "inline" /\ runtime[h] = "inline" => g = h
    /\ \A h \in Pool : runtime[h] = "inline" => Factory = "inline"
    /\ workersBlocked => options.mode = "auto"
    /\ ModeHonoured

LEMMA NoElements == Range(<<>>) = {}
BY DEF Range

LEMMA OptionsInit == Init => OptionsInv
<1> SUFFICES ASSUME Init PROVE OptionsInv
  OBVIOUS
<1>1. Pool = {} /\ Len(members) = 0 /\ ~workersBlocked
  <2>1. members = <<>> /\ ~workersBlocked
    BY DEF Init
  <2>2. Len(<<>>) = 0
    OBVIOUS
  <2> QED BY <2>1, <2>2, NoElements DEF Pool
<1>2. options.size \in Nat \ {0}
  BY OptionsAssumption DEF Init, PoolOptions
<1> QED BY <1>1, <1>2 DEF OptionsInv, ModeHonoured

\* Members may leave, and the pool may stop asking for workers in mode "auto".
LEMMA FewerMembers ==
    ASSUME TypeOK, TypeOK', OptionsInv, UNCHANGED <<options, runtime>>,
           Len(members') <= Len(members), Pool' \subseteq Pool,
           \/ workersBlocked' = workersBlocked
           \/ workersBlocked' = TRUE /\ options.mode = "auto"
    PROVE  OptionsInv'
<1>1. Len(members) \in Nat /\ Len(members') \in Nat /\ options.size \in Nat
  BY LenProperties DEF TypeOK, PoolOptions
<1>2. Len(members') <= options'.size
  BY <1>1 DEF OptionsInv
<1>3. Factory = "inline" => Factory' = "inline"
  BY DEF Factory, WorkersAllowed
<1>4. workersBlocked' => options'.mode = "auto"
  BY DEF OptionsInv
<1> QED BY <1>2, <1>3, <1>4 DEF OptionsInv, ModeHonoured

\* The pool is emptied, and its options may change.
LEMMA NoMembers ==
    ASSUME TypeOK', members' = <<>>, workersBlocked' = FALSE
    PROVE  OptionsInv'
<1>1. Pool' = {} /\ Len(members') = 0
  <2>1. Len(<<>>) = 0
    OBVIOUS
  <2> QED BY <2>1, NoElements DEF Pool
<1>2. options'.size \in Nat
  BY DEF TypeOK, PoolOptions
<1> QED BY <1>1, <1>2 DEF OptionsInv, ModeHonoured

\* A member joins: as many of them as the size allows, and inline only if no worker
\* can be had from now on.
LEMMA OneMember ==
    ASSUME TypeOK, TypeOK', CallsInv, OptionsInv, NeedsMember, UNCHANGED options,
           NEW c, NEW h \in Handles, NEW kind \in Runtimes, Spawn(kind, h, c),
           kind = "inline" => Factory' = "inline",
           kind = "inline" => \A g \in Pool : runtime[g] # "inline",
           options.mode = "worker" => kind # "inline",
           options.mode = "inline" => kind = "inline",
           \/ workersBlocked' = workersBlocked
           \/ workersBlocked' = TRUE /\ options.mode = "auto"
    PROVE  OptionsInv'
<1>1. /\ members \in Seq(Handles) /\ h \notin Pool
      /\ members' = Append(members, h) /\ runtime' = [runtime EXCEPT ![h] = kind]
      /\ runtime \in [Handles -> Runtimes]
  BY DEF Spawn, Free, Pool, TypeOK
<1>2. Pool' = Pool \cup {h} /\ Pool \subseteq Handles
  BY <1>1, AppendElements, EmptyElements DEF Pool, Range
<1>3. /\ runtime'[h] = kind
      /\ \A g \in Pool : runtime'[g] = runtime[g]
  BY <1>1, <1>2
<1>4. Len(members') <= options'.size
  <2>1. Len(members) \in Nat /\ options.size \in Nat \ {0}
    BY <1>1, LenProperties DEF TypeOK, PoolOptions
  <2>2. Len(members') = Len(members) + 1
    BY <1>1, AppendProperties
  <2>3. members = <<>> \/ Len(members) < options.size
    BY DEF NeedsMember, Room
  <2>4. CASE members = <<>>
    <3>1. Len(members) = 0
      BY <2>4
    <3> QED BY <2>1, <2>2, <3>1
  <2>5. CASE Len(members) < options.size
    BY <2>1, <2>2, <2>5
  <2> QED BY <2>3, <2>4, <2>5
<1>5. Factory = "inline" => Factory' = "inline"
  BY DEF Factory, WorkersAllowed
<1>6. \A g \in Pool' : runtime'[g] = "inline" => Factory' = "inline"
  BY <1>2, <1>3, <1>5 DEF OptionsInv
<1>7. \A f, g \in Pool' : runtime'[f] = "inline" /\ runtime'[g] = "inline" => f = g
  BY <1>2, <1>3 DEF OptionsInv
<1>8. workersBlocked' => options'.mode = "auto"
  BY DEF OptionsInv
<1>9. ModeHonoured'
  BY <1>2, <1>3 DEF OptionsInv, ModeHonoured
<1> QED BY <1>4, <1>6, <1>7, <1>8, <1>9 DEF OptionsInv

\* A call is given to a member, to a new one, or to none.
LEMMA DispatchOptions ==
    ASSUME TypeOK, TypeOK', CallsInv, OptionsInv, UNCHANGED options,
           NEW c, Dispatch(c)
    PROVE  OptionsInv'
<1>1. options.mode \in Modes /\ workersBlocked \in BOOLEAN /\ workersBlocked' \in BOOLEAN
  BY DEF TypeOK, PoolOptions
<1>2. FallsBack => options.mode = "auto"
  BY <1>1 DEF FallsBack, Factory, WorkersAllowed, Modes
<1>3. CASE ~NeedsMember /\ UNCHANGED <<members, runtime, workersBlocked>>
  <2>1. Pool' = Pool /\ Len(members') <= Len(members)
    <3>1. Len(members) \in Nat
      BY LenProperties DEF TypeOK
    <3> QED BY <1>3, <3>1 DEF Pool
  <2> QED BY <1>3, <2>1, FewerMembers
<1>4. ASSUME NEW h \in Handles, NeedsMember, ~FactoryThrows,
             Spawn(Factory, h, c), UNCHANGED workersBlocked
      PROVE  OptionsInv'
  <2>1. Factory \in Runtimes
    BY FactoryType
  <2>2. Factory' = Factory
    BY <1>4 DEF Factory, WorkersAllowed
  <2>3. options.mode = "worker" => Factory # "inline"
    BY <1>4, HostAssumption
       DEF OptionsInv, FactoryThrows, Factory, WorkersAllowed, Hosts
  <2>4. options.mode = "inline" => Factory = "inline"
    BY DEF Factory, WorkersAllowed
  <2>5. Factory = "inline" => \A g \in Pool : runtime[g] # "inline"
    <3>1. Factory = "inline" => members = <<>>
      BY <1>4 DEF NeedsMember
    <3>2. members = <<>> => Pool = {}
      BY NoElements DEF Pool
    <3> QED BY <3>1, <3>2
  <2> HIDE DEF Factory
  <2> QED BY <1>4, <2>1, <2>2, <2>3, <2>4, <2>5, OneMember
<1>5. ASSUME NEW h \in Handles, NeedsMember, FallsBack,
             Spawn("inline", h, c), workersBlocked' = TRUE
      PROVE  OptionsInv'
  <2>1. Factory' = "inline"
    <3>1. ~WorkersAllowed'
      BY <1>5 DEF WorkersAllowed
    <3> QED BY <3>1 DEF Factory
  <2>2. \A g \in Pool : runtime[g] # "inline"
    BY <1>5 DEF FallsBack, OptionsInv
  <2>3. "inline" \in Runtimes
    BY DEF Runtimes
  <2> QED BY <1>2, <1>5, <2>1, <2>2, <2>3, OneMember
<1>6. CASE workersBlocked' = (workersBlocked \/ FallsBack) /\ UNCHANGED <<members, runtime>>
  <2>1. Pool' = Pool /\ Len(members') <= Len(members)
    <3>1. Len(members) \in Nat
      BY LenProperties DEF TypeOK
    <3> QED BY <1>6, <3>1 DEF Pool
  <2>2. \/ workersBlocked' = workersBlocked
        \/ workersBlocked' = TRUE /\ options.mode = "auto"
    BY <1>1, <1>2, <1>6
  <2> QED BY <1>6, <2>1, <2>2, FewerMembers
<1> QED BY <1>3, <1>4, <1>5, <1>6 DEF Dispatch, Assign, memberVars

\* A member leaves the pool.
LEMMA WithoutMember ==
    ASSUME TypeOK, TypeOK', CallsInv, OptionsInv, UNCHANGED <<options, runtime>>,
           NEW h, members' = Without(members, h),
           \/ workersBlocked' = workersBlocked
           \/ workersBlocked' = TRUE /\ options.mode = "auto"
    PROVE  OptionsInv'
<1>1. members \in Seq(Handles) /\ IsInjective(members)
  BY DEF CallsInv, TypeOK, NoRepeats
<1>2. Len(members') <= Len(members) /\ Pool' \subseteq Pool
  BY <1>1, WithoutElements DEF Pool
<1> QED BY <1>2, FewerMembers

\* Nothing changes that the options are about.
LEMMA SameMembers ==
    ASSUME TypeOK, TypeOK', OptionsInv,
           UNCHANGED <<options, members, runtime, workersBlocked>>
    PROVE  OptionsInv'
BY DEF OptionsInv, ModeHonoured, Pool, Factory, WorkersAllowed

LEMMA OptionsStep == CallsInv /\ CallsInv' /\ OptionsInv /\ [Next]_vars => OptionsInv'
<1> SUFFICES ASSUME CallsInv, CallsInv', OptionsInv, [Next]_vars PROVE OptionsInv'
  OBVIOUS
<1>0. TypeOK /\ TypeOK'
  BY DEF CallsInv
<1>1. ASSUME NEW c \in Calls, Call(c) PROVE OptionsInv'
  BY <1>0, <1>1, DispatchOptions DEF Call
<1>2. CASE Redispatch
  BY <1>0, <1>2, DispatchOptions DEF Redispatch
<1>3. CASE Terminate \/ \E o \in Options : Configure(o)
  BY <1>0, <1>3, NoMembers DEF Terminate, Configure, TerminateMembers, UnblockWorkers
<1>4. ASSUME NEW h \in Handles, ReadyRejects(h) \/ ReceiveUnloadable(h) \/ Timer(h) \/ SettleFatal(h)
      PROVE  OptionsInv'
  BY <1>0, <1>4, WithoutMember
     DEF ReadyRejects, Catch, ReceiveUnloadable, Fail, Timer, TimedOut, Retire,
         SettleFatal, Leave, Replace
<1>5. ASSUME NEW h \in Handles, ReceiveFailure(h) PROVE OptionsInv'
  <2>1. /\ UNCHANGED <<options, runtime>> /\ members' = Without(members, h)
        /\ \/ workersBlocked' = workersBlocked
           \/ workersBlocked' = TRUE /\ options.mode = "auto"
    BY <1>5 DEF ReceiveFailure, BlockedBeforeStarting, Replace, Fail
  <2> QED BY <1>0, <2>1, WithoutMember
<1>6. ASSUME NEW h \in Handles,
             \/ ReadyResolves(h) \/ ReceiveStarted(h) \/ ReceiveStale(h)
             \/ Settle(h) \/ Worker(h)
      PROVE  OptionsInv'
  <2>1. UNCHANGED <<options, members, runtime, workersBlocked>>
    BY <1>6 DEF ReadyResolves, ReceiveStarted, ReceiveStale, Settle, Worker, Boot, Load,
                Run, Crash, poolVars, memberVars
  <2> QED BY <1>0, <2>1, SameMembers
<1>7. CASE UNCHANGED vars
  BY <1>0, <1>7, SameMembers DEF vars, poolVars, memberVars
<1> QED
  BY <1>1, <1>2, <1>3, <1>4, <1>5, <1>6, <1>7 DEF Next, Receive

-------------------------------------------------------------------------------
\* What the pool may hold under its options, always.
THEOREM OptionsInvariant == Spec => []OptionsInv
BY CallsInvariant, OptionsInit, OptionsStep, PTL DEF Spec

\* Whatever crashes, retires, times out or is configured in between: the pool never
\* outgrows its size, has at most one member on the calling thread, and uses no thread
\* that its mode excludes.
THEOREM OptionsAlwaysBind == Spec => []OptionsBind
<1>1. CallsInv /\ OptionsInv => OptionsBind
  <2> SUFFICES ASSUME CallsInv, OptionsInv PROVE OptionsBind
    OBVIOUS
  <2>1. ASSUME NEW i \in Inline, NEW j \in Inline PROVE i = j
    <3>1. i \in DOMAIN members /\ j \in DOMAIN members /\ IsInjective(members)
      BY DEF Inline, CallsInv, NoRepeats
    <3>2. members[i] \in Pool /\ members[j] \in Pool
      BY <3>1 DEF Pool, Range
    <3>3. members[i] = members[j]
      BY <3>2 DEF Inline, OptionsInv
    <3> QED BY <3>1, <3>3 DEF IsInjective
  <2> QED BY <2>1 DEF OptionsInv, OptionsBind, PoolBounded
<1> QED BY <1>1, CallsInvariant, OptionsInvariant, PTL

-------------------------------------------------------------------------------
(* The results of calls: nothing a broken instance computed is given out, the  *)
(* pool implements CryptoCalls, and answers come in order.                     *)
-------------------------------------------------------------------------------
(* The inductive invariant.  What a member of the pool answered, was posted    *)
(* and is still to be posted are different calls, all of them pending in it;   *)
(* and before any result of a broken instance there is the report of its trap. *)
(* So the report, when it comes, still finds its call pending, and the member  *)
(* leaves the pool with it.                                                    *)

Flow(out, in, que, pen) ==
    /\ \A i \in 1..Len(out) : out[i] \in Answers =>
        /\ out[i].call \in Range(pen)
        /\ out[i].call \notin Range(in) /\ out[i].call \notin Range(que)
        /\ \A j \in 1..Len(out) :
            out[j] \in Answers /\ out[j].call = out[i].call => i = j
    /\ Range(in) \subseteq Range(pen) /\ Range(que) \subseteq Range(pen)
    /\ Range(in) \cap Range(que) = {}
    /\ IsInjective(in) /\ IsInjective(que)

Sound(out, stage) ==
    /\ \A i \in 1..Len(out) : out[i].kind = "tainted" =>
            \E j \in 1..(i - 1) : out[j].kind = "fatal"
    /\ stage = "broken" => \E j \in 1..Len(out) : out[j].kind = "fatal"

ResultsInv ==
    \A h \in Pool : /\ Flow(outbox[h], inbox[h], queued[h], pending[h])
                    /\ Sound(outbox[h], worker[h])

-------------------------------------------------------------------------------
(* Flow and Sound under the steps of a worker and of the pool.                 *)

\* The elements of a concatenation of two sequences without repetitions.
LEMMA ConcatElements ==
    ASSUME NEW S, NEW s \in Seq(S), NEW t \in Seq(S)
    PROVE  /\ Range(s \o t) = Range(s) \cup Range(t)
           /\ IsInjective(s) /\ IsInjective(t) /\ Range(s) \cap Range(t) = {}
                => IsInjective(s \o t)
<1> DEFINE r == s \o t
<1>1. /\ r \in Seq(S) /\ Len(r) = Len(s) + Len(t)
      /\ \A k \in 1..Len(r) : r[k] = IF k <= Len(s) THEN s[k] ELSE t[k - Len(s)]
  BY ConcatProperties
<1>2. /\ Len(s) \in Nat /\ Len(t) \in Nat /\ DOMAIN r = 1..Len(r)
      /\ DOMAIN s = 1..Len(s) /\ DOMAIN t = 1..Len(t)
  BY <1>1, LenProperties
<1> HIDE DEF r
<1>3. Range(r) = Range(s) \cup Range(t)
  <2>1. Range(r) \subseteq Range(s) \cup Range(t)
    <3> SUFFICES ASSUME NEW k \in 1..Len(r) PROVE r[k] \in Range(s) \cup Range(t)
      BY <1>2 DEF Range
    <3>1. CASE k <= Len(s)
      BY <1>1, <1>2, <3>1 DEF Range
    <3>2. CASE ~(k <= Len(s))
      <4>1. k - Len(s) \in 1..Len(t) /\ r[k] = t[k - Len(s)]
        BY <1>1, <1>2, <3>2
      <4> QED BY <1>2, <4>1 DEF Range
    <3> QED BY <3>1, <3>2
  <2>2. \A k \in 1..Len(s) : s[k] \in Range(r)
    <3> SUFFICES ASSUME NEW k \in 1..Len(s) PROVE s[k] \in Range(r)
      OBVIOUS
    <3>1. k \in 1..Len(r) /\ r[k] = s[k]
      BY <1>1, <1>2
    <3> QED BY <1>2, <3>1 DEF Range
  <2>3. \A k \in 1..Len(t) : t[k] \in Range(r)
    <3> SUFFICES ASSUME NEW k \in 1..Len(t) PROVE t[k] \in Range(r)
      OBVIOUS
    <3>1. Len(s) + k \in 1..Len(r) /\ r[Len(s) + k] = t[k]
      BY <1>1, <1>2
    <3> QED BY <1>2, <3>1 DEF Range
  <2> QED BY <1>2, <2>1, <2>2, <2>3 DEF Range
<1>4. ASSUME IsInjective(s), IsInjective(t), Range(s) \cap Range(t) = {}
      PROVE  IsInjective(r)
  <2> SUFFICES ASSUME NEW a \in 1..Len(r), NEW b \in 1..Len(r), r[a] = r[b]
               PROVE  a = b
    BY <1>2 DEF IsInjective
  <2>1. \A k \in 1..Len(r) : k > Len(s) => k - Len(s) \in 1..Len(t)
    BY <1>1, <1>2
  <2>2. \A k \in 1..Len(r) : k <= Len(s) => r[k] \in Range(s) /\ r[k] = s[k]
    <3> SUFFICES ASSUME NEW k \in 1..Len(r), k <= Len(s)
                 PROVE  r[k] \in Range(s) /\ r[k] = s[k]
      OBVIOUS
    <3>1. r[k] = s[k]
      BY <1>1
    <3>2. k \in DOMAIN s
      BY <1>2
    <3> QED BY <3>1, <3>2, Zenon DEF Range
  <2>3. \A k \in 1..Len(r) : k > Len(s) => r[k] \in Range(t) /\ r[k] = t[k - Len(s)]
    <3> SUFFICES ASSUME NEW k \in 1..Len(r), k > Len(s)
                 PROVE  r[k] \in Range(t) /\ r[k] = t[k - Len(s)]
      OBVIOUS
    <3>1. r[k] = t[k - Len(s)]
      BY <1>1, <1>2
    <3> QED BY <1>2, <2>1, <3>1 DEF Range
  <2>4. CASE a <= Len(s) /\ b <= Len(s)
    BY <1>2, <1>4, <2>2, <2>4 DEF IsInjective
  <2>5. CASE a > Len(s) /\ b > Len(s)
    <3>1. a - Len(s) = b - Len(s)
      BY <1>2, <1>4, <2>1, <2>3, <2>5 DEF IsInjective
    <3> QED BY <1>2, <3>1
  <2>6. ~(a <= Len(s) /\ b > Len(s)) /\ ~(b <= Len(s) /\ a > Len(s))
    BY <1>4, <2>2, <2>3
  <2> QED BY <1>2, <2>4, <2>5, <2>6
<1> QED BY <1>3, <1>4 DEF r

\* A worker takes its next request and answers it.
LEMMA FlowAnswer ==
    ASSUME NEW out \in Seq(Messages), NEW in \in Seq(Calls), NEW que \in Seq(Calls),
           NEW pen \in Seq(Calls), Flow(out, in, que, pen), in # <<>>,
           NEW m \in Answers, m.call = Head(in)
    PROVE  Flow(out \o <<m>>, Tail(in), que, pen)
<1> DEFINE more == out \o <<m>>
<1>1. /\ IsInjective(Tail(in)) /\ Range(Tail(in)) = Range(in) \ {m.call}
      /\ m.call \in Range(in)
  BY TailElements DEF Flow
<1>2. /\ m \in Messages /\ Len(out) \in Nat /\ Len(more) = Len(out) + 1
      /\ \A k \in 1..Len(more) : more[k] = IF k <= Len(out) THEN out[k] ELSE m
  <2>1. /\ m \in Messages /\ <<m>> \in Seq(Messages)
        /\ Len(<<m>>) = 1 /\ <<m>>[1] = m
    BY DEF Messages
  <2>2. Len(out) \in Nat /\ Len(more) = Len(out) + 1
    BY <2>1, LenProperties, ConcatProperties
  <2>3. ASSUME NEW k \in 1..Len(more)
        PROVE  more[k] = IF k <= Len(out) THEN out[k] ELSE m
    <3>1. more[k] = IF k <= Len(out) THEN out[k] ELSE <<m>>[k - Len(out)]
      BY <2>1, <2>2, ConcatProperties
    <3>2. k <= Len(out) \/ k - Len(out) = 1
      BY <2>2
    <3> HIDE DEF more
    <3> QED BY <2>1, <3>1, <3>2
  <2> QED BY <2>1, <2>2, <2>3
<1>3. /\ m.call \in Range(pen) /\ m.call \notin Range(que)
      /\ \A i \in 1..Len(out) : out[i] \in Answers => out[i].call # m.call
  BY <1>1 DEF Flow
<1> HIDE DEF more
<1>4. ASSUME NEW i \in 1..Len(more), more[i] \in Answers
      PROVE  /\ more[i].call \in Range(pen)
             /\ more[i].call \notin Range(Tail(in)) /\ more[i].call \notin Range(que)
             /\ \A j \in 1..Len(more) :
                  more[j] \in Answers /\ more[j].call = more[i].call => i = j
  <2>1. CASE i \in 1..Len(out)
    <3>1. more[i] = out[i]
      BY <1>2, <2>1
    <3>2. \A j \in 1..Len(more) :
            \/ j \in 1..Len(out) /\ more[j] = out[j]
            \/ more[j] = m
      BY <1>2
    <3> QED BY <1>1, <1>3, <1>4, <2>1, <3>1, <3>2 DEF Flow
  <2>2. CASE i = Len(out) + 1
    <3>1. more[i] = m
      BY <1>2, <2>2
    <3>2. \A j \in 1..Len(more) : j = i \/ (j \in 1..Len(out) /\ more[j] = out[j])
      BY <1>2, <2>2
    <3> QED BY <1>1, <1>3, <3>1, <3>2
  <2> QED BY <1>2, <2>1, <2>2, SMTT(40)
<1> QED BY <1>1, <1>4 DEF Flow, more

\* A worker reports something else, or stops: notices are no answers.
LEMMA FlowNotices ==
    ASSUME NEW out \in Seq(Messages), NEW s \in Seq(Notices), NEW in \in Seq(Calls),
           NEW que \in Seq(Calls), NEW pen \in Seq(Calls), Flow(out, in, que, pen)
    PROVE  Flow(out \o s, in, que, pen) /\ Flow(out \o s, <<>>, que, pen)
<1> DEFINE more == out \o s
<1>1. \A n \in Notices : n \notin Answers
  BY DEF Notices, Answers
<1>2. /\ Len(out) \in Nat /\ Len(s) \in Nat /\ Len(more) = Len(out) + Len(s)
      /\ \A k \in 1..Len(more) :
           more[k] = IF k <= Len(out) THEN out[k] ELSE s[k - Len(out)]
  <2>1. s \in Seq(Messages)
    BY DEF Messages
  <2> QED BY <2>1, LenProperties, ConcatProperties
<1> HIDE DEF more
<1>3. \A k \in 1..Len(more) :
        more[k] \in Answers => k \in 1..Len(out) /\ more[k] = out[k]
  <2> SUFFICES ASSUME NEW k \in 1..Len(more), more[k] \in Answers
               PROVE  k \in 1..Len(out) /\ more[k] = out[k]
    OBVIOUS
  <2>1. CASE k <= Len(out)
    BY <1>2, <2>1
  <2>2. CASE k > Len(out)
    <3>1. k - Len(out) \in 1..Len(s) /\ more[k] = s[k - Len(out)]
      BY <1>2, <2>2
    <3>2. s[k - Len(out)] \in Notices
      BY <3>1, ElementOfSeq
    <3> QED BY <1>1, <3>1, <3>2
  <2> QED BY <1>2, <2>1, <2>2
<1>4. Flow(more, in, que, pen)
  BY <1>3 DEF Flow
<1>5. Range(<<>>) = {} /\ IsInjective(<<>>)
  BY DEF Range, IsInjective
<1>6. Flow(more, <<>>, que, pen)
  BY <1>4, <1>5 DEF Flow
<1> QED BY <1>4, <1>6 DEF more

\* The pool takes an answer and settles its call, or takes a notice.
LEMMA FlowTaken ==
    ASSUME NEW out \in Seq(Messages), NEW in \in Seq(Calls), NEW que \in Seq(Calls),
           NEW pen \in Seq(Calls), Flow(out, in, que, pen), out # <<>>,
           IsInjective(pen)
    PROVE  /\ Head(out) \in Answers =>
                Flow(Tail(out), in, que, Without(pen, Head(out).call))
           /\ Head(out) \notin Answers => Flow(Tail(out), in, que, pen)
<1> DEFINE left == Tail(out)
<1>1. /\ Len(out) \in Nat \ {0} /\ Head(out) = out[1] /\ Len(left) = Len(out) - 1
      /\ \A i \in 1..Len(left) : left[i] = out[i + 1]
  BY LenProperties, HeadTailProperties, EmptySeq
<1> HIDE DEF left
<1>2. \A i \in 1..Len(left) : i + 1 \in 1..Len(out) /\ i + 1 # 1
  BY <1>1
<1>3. 1 \in 1..Len(out)
  BY <1>1
<1>4. \A i, j \in 1..Len(left) :
        left[i] \in Answers /\ left[j] \in Answers /\ left[j].call = left[i].call => i = j
  <2> SUFFICES ASSUME NEW i \in 1..Len(left), NEW j \in 1..Len(left), left[i] \in Answers,
                      left[j] \in Answers, left[j].call = left[i].call
               PROVE  i = j
    OBVIOUS
  <2>1. /\ i + 1 \in 1..Len(out) /\ j + 1 \in 1..Len(out)
        /\ left[i] = out[i + 1] /\ left[j] = out[j + 1]
    BY <1>1, <1>2
  <2>2. i + 1 = j + 1
    BY <2>1 DEF Flow
  <2>3. i \in Int /\ j \in Int
    OBVIOUS
  <2> QED BY <2>2, <2>3
<1>5. CASE Head(out) \in Answers
  <2> DEFINE c == Head(out).call
  <2>1. c \in Calls
    BY <1>5 DEF Answers
  <2>2. Range(Without(pen, c)) = Range(pen) \ {c}
    BY WithoutElements
  <2>3. c \notin Range(in) /\ c \notin Range(que)
    BY <1>1, <1>3, <1>5 DEF Flow
  <2>4. \A i \in 1..Len(left) : left[i] \in Answers => left[i].call # c
    BY <1>1, <1>2, <1>3, <1>5 DEF Flow
  <2>5. \A i \in 1..Len(left) : left[i] \in Answers =>
          /\ left[i].call \in Range(pen)
          /\ left[i].call \notin Range(in) /\ left[i].call \notin Range(que)
    BY <1>1, <1>2 DEF Flow
  <2> HIDE DEF c
  <2>6. Flow(left, in, que, Without(pen, c))
    BY <1>4, <2>2, <2>3, <2>4, <2>5 DEF Flow
  <2> QED BY <1>5, <2>6 DEF left, c
<1>6. CASE Head(out) \notin Answers
  <2>1. \A i \in 1..Len(left) : left[i] \in Answers =>
          /\ left[i].call \in Range(pen)
          /\ left[i].call \notin Range(in) /\ left[i].call \notin Range(que)
    BY <1>1, <1>2 DEF Flow
  <2> QED BY <1>4, <1>6, <2>1 DEF Flow, left
<1> QED BY <1>5, <1>6

\* A call is given to a member: posted, queued, or neither.
LEMMA FlowPosted ==
    ASSUME NEW out \in Seq(Messages), NEW in \in Seq(Calls), NEW que \in Seq(Calls),
           NEW pen \in Seq(Calls), Flow(out, in, que, pen),
           NEW c \in Calls, c \notin Range(pen)
    PROVE  /\ Flow(out, in, que, Append(pen, c))
           /\ Flow(out, Append(in, c), que, Append(pen, c))
           /\ Flow(out, in, Append(que, c), Append(pen, c))
<1>1. Range(Append(pen, c)) = Range(pen) \cup {c}
  BY AppendElements
<1>2. c \notin Range(in) /\ c \notin Range(que)
  BY DEF Flow
<1>3. \A i \in 1..Len(out) : out[i] \in Answers => out[i].call # c
  BY DEF Flow
<1>4. Range(Append(in, c)) = Range(in) \cup {c} /\ IsInjective(Append(in, c))
  BY <1>2, AppendElements DEF Flow
<1>5. Range(Append(que, c)) = Range(que) \cup {c} /\ IsInjective(Append(que, c))
  BY <1>2, AppendElements DEF Flow
<1>6. Flow(out, in, que, Append(pen, c))
  BY <1>1 DEF Flow
<1>7. Flow(out, Append(in, c), que, Append(pen, c))
  BY <1>1, <1>2, <1>3, <1>4 DEF Flow
<1>8. Flow(out, in, Append(que, c), Append(pen, c))
  BY <1>1, <1>2, <1>3, <1>5 DEF Flow
<1> QED BY <1>6, <1>7, <1>8

\* The requests behind "ready" are posted, or go with a worker that is gone.
LEMMA FlowReady ==
    ASSUME NEW out \in Seq(Messages), NEW in \in Seq(Calls), NEW que \in Seq(Calls),
           NEW pen \in Seq(Calls), Flow(out, in, que, pen)
    PROVE  Flow(out, in \o que, <<>>, pen) /\ Flow(out, in, <<>>, pen)
<1>1. /\ Range(in \o que) = Range(in) \cup Range(que)
      /\ IsInjective(in \o que)
  BY ConcatElements DEF Flow
<1>2. Range(<<>>) = {} /\ IsInjective(<<>>)
  BY DEF Range, IsInjective
<1> QED BY <1>1, <1>2 DEF Flow

\* A new member.
LEMMA FlowNew ==
    ASSUME NEW c \in Calls, NEW stage, stage # "broken"
    PROVE  Flow(<<>>, <<>>, <<c>>, <<c>>) /\ Sound(<<>>, stage)
<1>1. Range(<<>>) = {} /\ IsInjective(<<>>) /\ Len(<<>>) = 0
  BY DEF Range, IsInjective
<1>2. Range(<<c>>) = {c} /\ IsInjective(<<c>>)
  BY DEF Range, IsInjective
<1> QED BY <1>1, <1>2 DEF Flow, Sound

\* A worker sends messages: a tainted answer only once it is broken, and it breaks
\* with the report of a trap.
LEMMA SoundSent ==
    ASSUME NEW out \in Seq(Messages), NEW s \in Seq(Messages), NEW stage, NEW next,
           Sound(out, stage),
           \A i \in 1..Len(s) : s[i].kind = "tainted" => stage = "broken",
           next = "broken" => stage = "broken" \/ \E i \in 1..Len(s) : s[i].kind = "fatal"
    PROVE  Sound(out \o s, next)
<1> DEFINE more == out \o s
<1>1. /\ Len(out) \in Nat /\ Len(s) \in Nat /\ Len(more) = Len(out) + Len(s)
      /\ \A k \in 1..Len(more) :
           more[k] = IF k <= Len(out) THEN out[k] ELSE s[k - Len(out)]
  BY LenProperties, ConcatProperties
<1> HIDE DEF more
<1>2. \A k \in 1..Len(out) : k \in 1..Len(more) /\ more[k] = out[k]
  BY <1>1
<1>3. \A k \in 1..Len(s) : Len(out) + k \in 1..Len(more) /\ more[Len(out) + k] = s[k]
  <2> SUFFICES ASSUME NEW k \in 1..Len(s)
               PROVE  Len(out) + k \in 1..Len(more) /\ more[Len(out) + k] = s[k]
    OBVIOUS
  <2>1. Len(out) + k \in 1..Len(more) /\ ~(Len(out) + k <= Len(out))
        /\ (Len(out) + k) - Len(out) = k
    BY <1>1
  <2> QED BY <1>1, <2>1
<1>4. ASSUME NEW i \in 1..Len(more), more[i].kind = "tainted"
      PROVE  \E j \in 1..(i - 1) : more[j].kind = "fatal"
  <2>1. CASE i <= Len(out)
    <3>1. i \in 1..Len(out) /\ more[i] = out[i]
      BY <1>1, <2>1
    <3>2. PICK j \in 1..(i - 1) : out[j].kind = "fatal"
      BY <1>4, <3>1 DEF Sound
    <3>3. j \in 1..Len(out)
      BY <1>1, <3>1
    <3> QED BY <1>2, <3>2, <3>3
  <2>2. CASE i > Len(out)
    <3>1. i - Len(out) \in 1..Len(s) /\ more[i] = s[i - Len(out)]
      BY <1>1, <2>2
    <3>2. stage = "broken"
      BY <1>4, <3>1
    <3>3. PICK j \in 1..Len(out) : out[j].kind = "fatal"
      BY <3>2 DEF Sound
    <3>4. j \in 1..(i - 1)
      BY <1>1, <2>2
    <3> QED BY <1>2, <3>3, <3>4
  <2> QED BY <1>1, <2>1, <2>2
<1>5. ASSUME next = "broken"
      PROVE  \E j \in 1..Len(more) : more[j].kind = "fatal"
  <2>1. CASE stage = "broken"
    <3>1. PICK j \in 1..Len(out) : out[j].kind = "fatal"
      BY <2>1 DEF Sound
    <3> QED BY <1>2, <3>1
  <2>2. CASE \E i \in 1..Len(s) : s[i].kind = "fatal"
    <3>1. PICK i \in 1..Len(s) : s[i].kind = "fatal"
      BY <2>2
    <3> QED BY <1>3, <3>1
  <2> QED BY <1>5, <2>1, <2>2
<1> QED BY <1>4, <1>5 DEF Sound, more

\* The pool takes a message that reports no trap.
LEMMA SoundTaken ==
    ASSUME NEW out \in Seq(Messages), NEW stage, Sound(out, stage), out # <<>>,
           Head(out).kind # "fatal"
    PROVE  Head(out).kind # "tainted" /\ Sound(Tail(out), stage)
<1> DEFINE left == Tail(out)
<1>1. /\ Len(out) \in Nat \ {0} /\ Head(out) = out[1] /\ Len(left) = Len(out) - 1
      /\ \A i \in 1..Len(left) : left[i] = out[i + 1]
  BY LenProperties, HeadTailProperties, EmptySeq
<1> HIDE DEF left
<1>2. Head(out).kind # "tainted"
  <2>1. 1 \in 1..Len(out) /\ ~\E j \in 1..(1 - 1) : out[j].kind = "fatal"
    BY <1>1
  <2> QED BY <1>1, <2>1 DEF Sound
<1>3. \A j \in 1..Len(out) : out[j].kind = "fatal" =>
        j - 1 \in 1..Len(left) /\ left[j - 1] = out[j]
  <2> SUFFICES ASSUME NEW j \in 1..Len(out), out[j].kind = "fatal"
               PROVE  j - 1 \in 1..Len(left) /\ left[j - 1] = out[j]
    OBVIOUS
  <2>1. j # 1
    BY <1>1
  <2>2. j - 1 \in 1..Len(left) /\ (j - 1) + 1 = j
    BY <1>1, <2>1
  <2> QED BY <1>1, <2>2
<1>4. ASSUME NEW i \in 1..Len(left), left[i].kind = "tainted"
      PROVE  \E j \in 1..(i - 1) : left[j].kind = "fatal"
  <2>1. i + 1 \in 1..Len(out) /\ out[i + 1].kind = "tainted"
    BY <1>1, <1>4
  <2>2. PICK j \in 1..((i + 1) - 1) : out[j].kind = "fatal"
    BY <2>1 DEF Sound
  <2>3. j \in 1..Len(out)
    BY <1>1, <2>1
  <2>4. j - 1 \in 1..Len(left) /\ left[j - 1].kind = "fatal"
    BY <1>3, <2>2, <2>3
  <2>5. j - 1 \in 1..(i - 1)
    BY <2>2, <2>4
  <2> QED BY <2>4, <2>5
<1>5. stage = "broken" => \E j \in 1..Len(left) : left[j].kind = "fatal"
  BY <1>3 DEF Sound
<1> QED BY <1>2, <1>4, <1>5 DEF Sound, left

-------------------------------------------------------------------------------
(* The invariant is kept.                                                      *)

LEMMA ResultsInit == Init => ResultsInv
<1>1. Range(<<>>) = {}
  BY DEF Range
<1> QED BY <1>1 DEF Init, ResultsInv, Pool

\* No member changes but by what its handle is told.
LEMMA MemberKept ==
    ASSUME ResultsInv, NEW g \in Pool,
           outbox'[g] = outbox[g], inbox'[g] = inbox[g], queued'[g] = queued[g],
           pending'[g] = pending[g], worker'[g] = worker[g]
    PROVE  /\ Flow(outbox'[g], inbox'[g], queued'[g], pending'[g])
           /\ Sound(outbox'[g], worker'[g])
BY DEF ResultsInv

\* A handle leaves the pool: whatever it still delivers, it is no member.
LEMMA LeaveResults ==
    ASSUME CallsInv, ResultsInv, NEW h \in Handles, members' = Without(members, h),
           NEW undelivered, undelivered = outbox \/ undelivered = Taken(h),
           TerminateHandles({h}, undelivered),
           \A g \in Handles : g # h => pending'[g] = pending[g] /\ queued'[g] = queued[g]
    PROVE  ResultsInv'
<1>1. Pool' = Pool \ {h} /\ Pool \subseteq Handles
  <2>1. Range(members') = Pool \ {h}
    BY RemoveMember
  <2>2. Pool \subseteq Handles
    BY DEF Pool, CallsInv, TypeOK, Range
  <2>3. Pool' = Range(members')
    BY DEF Pool
  <2> QED BY <2>1, <2>2, <2>3
<1> SUFFICES ASSUME NEW g \in Pool'
             PROVE  /\ Flow(outbox'[g], inbox'[g], queued'[g], pending'[g])
                    /\ Sound(outbox'[g], worker'[g])
  BY DEF ResultsInv
<1>2. g \in Pool /\ g \in Handles /\ g # h
  BY <1>1
<1>3. undelivered[g] = outbox[g]
  BY <1>2 DEF Taken, CallsInv, TypeOK
<1>4. outbox'[g] = outbox[g] /\ inbox'[g] = inbox[g] /\ worker'[g] = worker[g]
  BY <1>2, <1>3 DEF TerminateHandles
<1> QED BY <1>2, <1>4, MemberKept

\* A call is given to a member, to a new one, or to none.
LEMMA DispatchResults ==
    ASSUME CallsInv, ResultsInv, NEW c \in Calls, Holders(c) = {}, Dispatch(c)
    PROVE  ResultsInv'
<1>0. TypeOK /\ Pool \subseteq Handles
  BY DEF CallsInv, TypeOK, Pool, Range
<1>1. ASSUME NEW i \in DOMAIN members, Assign(members[i], c)
      PROVE  ResultsInv'
  <2> DEFINE h == members[i]
  <2>1. h \in Pool /\ h \in Handles /\ Pool' = Pool
    BY <1>0, <1>1 DEF Pool, Range, Assign
  <2> SUFFICES ASSUME NEW g \in Pool
               PROVE  /\ Flow(outbox'[g], inbox'[g], queued'[g], pending'[g])
                      /\ Sound(outbox'[g], worker'[g])
    BY <2>1 DEF ResultsInv
  <2>2. worker' = worker /\ outbox' = outbox
    BY <1>1 DEF Assign
  <2>3. CASE g # h
    <3>1. /\ pending'[g] = pending[g] /\ inbox'[g] = inbox[g] /\ queued'[g] = queued[g]
      BY <1>0, <1>1, <2>1, <2>3 DEF Assign, Post, TypeOK
    <3> QED BY <2>2, <3>1, MemberKept
  <2>4. CASE g = h
    <3>1. /\ outbox[h] \in Seq(Messages) /\ inbox[h] \in Seq(Calls)
          /\ queued[h] \in Seq(Calls) /\ pending[h] \in Seq(Calls)
      BY <1>0, <2>1 DEF TypeOK, Messages
    <3>2. c \notin Range(pending[h])
      BY <2>1 DEF Holders
    <3>3. Flow(outbox[h], inbox[h], queued[h], pending[h]) /\ Sound(outbox[h], worker[h])
      BY <2>1 DEF ResultsInv
    <3>4. pending'[h] = Append(pending[h], c)
      BY <1>0, <1>1, <2>1 DEF Assign, TypeOK
    <3>5. \/ inbox'[h] = inbox[h] /\ queued'[h] = queued[h]
          \/ inbox'[h] = inbox[h] /\ queued'[h] = Append(queued[h], c)
          \/ inbox'[h] = Append(inbox[h], c) /\ queued'[h] = queued[h]
      BY <1>0, <1>1, <2>1 DEF Assign, Post, TypeOK
    <3> HIDE DEF h
    <3> QED BY <2>2, <2>4, <3>1, <3>2, <3>3, <3>4, <3>5, FlowPosted, ZenonT(40)
  <2> QED BY <2>3, <2>4
<1>2. ASSUME NEW h \in Handles, NEW kind, Spawn(kind, h, c)
      PROVE  ResultsInv'
  <2>1. Pool' = Pool \cup {h} /\ h \notin Pool /\ outbox[h] = <<>>
    BY <1>0, <1>2, AppendElements DEF Spawn, Free, Pool, TypeOK
  <2> SUFFICES ASSUME NEW g \in Pool'
               PROVE  /\ Flow(outbox'[g], inbox'[g], queued'[g], pending'[g])
                      /\ Sound(outbox'[g], worker'[g])
    BY DEF ResultsInv
  <2>2. CASE g # h
    <3>1. /\ pending'[g] = pending[g] /\ inbox'[g] = inbox[g] /\ queued'[g] = queued[g]
          /\ outbox'[g] = outbox[g] /\ worker'[g] = worker[g]
      BY <1>0, <1>2, <2>1, <2>2 DEF Spawn, TypeOK
    <3> QED BY <2>1, <2>2, <3>1, MemberKept
  <2>3. CASE g = h
    <3>1. /\ pending'[h] = <<c>> /\ inbox'[h] = <<>> /\ queued'[h] = <<c>>
          /\ outbox'[h] = <<>> /\ worker'[h] # "broken"
      BY <1>0, <1>2, <2>1 DEF Spawn, TypeOK
    <3> QED BY <2>3, <3>1, FlowNew
  <2> QED BY <2>2, <2>3
<1>3. CASE UNCHANGED <<members, memberVars, workerVars>>
  BY <1>3 DEF ResultsInv, Pool, memberVars, workerVars
<1> QED BY <1>1, <1>2, <1>3 DEF Dispatch

LEMMA ResultsStep == CallsInv /\ CallsInv' /\ ResultsInv /\ [Next]_vars => ResultsInv'
<1> SUFFICES ASSUME CallsInv, CallsInv', ResultsInv, [Next]_vars PROVE ResultsInv'
  OBVIOUS
<1>0. /\ TypeOK /\ TypeOK' /\ Pool \subseteq Handles
      /\ \A h \in Handles : outbox[h] \in Seq(Messages) /\ IsInjective(pending[h])
  BY SMTT(40) DEF CallsInv, TypeOK, Pool, Range, NoRepeats, Messages
<1>1. ASSUME NEW c \in Calls, Call(c) PROVE ResultsInv'
  <2>1. Holders(c) = {}
    BY <1>1 DEF Call, CallsInv, WaitingHeldOnce
  <2> QED BY <1>1, <2>1, DispatchResults DEF Call
<1>2. CASE Redispatch
  <2>1. redispatch \in Seq(Calls) /\ redispatch # <<>> /\ IsInjective(redispatch)
    BY <1>2 DEF CallsInv, TypeOK, NoRepeats, Redispatch
  <2>2. Head(redispatch) \in Range(redispatch) /\ Head(redispatch) \in Calls
    BY <2>1, TailElements
  <2>3. Holders(Head(redispatch)) = {}
    BY <2>2 DEF CallsInv, WaitingHeldOnce
  <2> QED BY <1>2, <2>2, <2>3, DispatchResults DEF Redispatch
<1>3. CASE Terminate \/ \E o \in Options : Configure(o)
  <2>1. members' = <<>>
    BY <1>3 DEF Terminate, Configure, TerminateMembers
  <2>2. Pool' = {}
    BY <2>1 DEF Pool, Range
  <2> QED BY <2>2 DEF ResultsInv
<1>4. ASSUME NEW h \in Handles,
             \/ ReadyRejects(h) \/ ReceiveUnloadable(h) \/ Timer(h)
             \/ SettleFatal(h) \/ ReceiveFailure(h)
      PROVE  ResultsInv'
  <2>1. /\ members' = Without(members, h)
        /\ TerminateHandles({h}, outbox) \/ TerminateHandles({h}, Taken(h))
    BY <1>4 DEF ReadyRejects, Catch, ReceiveUnloadable, ReceiveFailure, Fail, Timer,
                TimedOut, Retire, SettleFatal, Leave, Replace
  <2>2. \A g \in Handles : g # h => pending'[g] = pending[g]
    BY <1>0, <1>4
       DEF ReadyRejects, Catch, ReceiveUnloadable, ReceiveFailure, Fail, Timer,
           TimedOut, Retire, SettleFatal, Leave, Replace, RejectAll, TypeOK
  <2>3. \A g \in Handles : g # h => queued'[g] = queued[g]
    BY <1>0, <1>4
       DEF ReadyRejects, ReceiveUnloadable, ReceiveFailure, Timer, TimedOut, Retire,
           SettleFatal, TypeOK
  <2> QED BY <2>1, <2>2, <2>3, LeaveResults
\* In the other steps one handle changes, and the members stay.
<1>5. ASSUME NEW h \in Handles, UNCHANGED members,
             \A g \in Handles : g # h =>
                /\ outbox'[g] = outbox[g] /\ inbox'[g] = inbox[g]
                /\ queued'[g] = queued[g] /\ pending'[g] = pending[g]
                /\ worker'[g] = worker[g],
             h \in Pool => /\ Flow(outbox'[h], inbox'[h], queued'[h], pending'[h])
                           /\ Sound(outbox'[h], worker'[h])
      PROVE  ResultsInv'
  <2>1. Pool' = Pool
    BY <1>5 DEF Pool
  <2>2. ASSUME NEW g \in Pool, g # h
        PROVE  /\ Flow(outbox'[g], inbox'[g], queued'[g], pending'[g])
               /\ Sound(outbox'[g], worker'[g])
    BY <1>0, <1>5, <2>2, MemberKept
  <2> QED BY <1>5, <2>1, <2>2 DEF ResultsInv
<1>6. ASSUME NEW h \in Handles, ReadyResolves(h) PROVE ResultsInv'
  <2>1. /\ UNCHANGED <<members, pending, worker, outbox>>
        /\ queued' = [queued EXCEPT ![h] = <<>>]
        /\ inbox' \in {inbox, [inbox EXCEPT ![h] = @ \o queued[h]]}
    BY <1>6 DEF ReadyResolves, poolVars
  <2>2. \A g \in Handles : g # h => inbox'[g] = inbox[g] /\ queued'[g] = queued[g]
    BY <1>0, <2>1 DEF TypeOK
  <2>3. queued'[h] = <<>> /\ inbox'[h] \in {inbox[h], inbox[h] \o queued[h]}
    BY <1>0, <2>1 DEF TypeOK
  <2>4. ASSUME h \in Pool PROVE Flow(outbox'[h], inbox'[h], queued'[h], pending'[h])
    <3>1. inbox[h] \in Seq(Calls) /\ queued[h] \in Seq(Calls) /\ pending[h] \in Seq(Calls)
      BY <1>0 DEF TypeOK
    <3>2. Flow(outbox[h], inbox[h], queued[h], pending[h])
      BY <2>4 DEF ResultsInv
    <3>3. /\ Flow(outbox[h], inbox[h] \o queued[h], <<>>, pending[h])
          /\ Flow(outbox[h], inbox[h], <<>>, pending[h])
      BY <1>0, <3>1, <3>2, FlowReady
    <3> QED BY <2>1, <2>3, <3>3
  <2>5. h \in Pool => Sound(outbox'[h], worker'[h])
    BY <2>1 DEF ResultsInv
  <2> QED BY <1>5, <2>1, <2>2, <2>4, <2>5
<1>7. ASSUME NEW h \in Handles, ReceiveStarted(h) \/ ReceiveStale(h) \/ Settle(h)
      PROVE  ResultsInv'
  <2>1. /\ UNCHANGED <<members, queued, worker, inbox>>
        /\ outbox' = Taken(h) /\ outbox[h] # <<>>
    BY <1>7 DEF ReceiveStarted, ReceiveStale, Settle, IsAnswer, poolVars, memberVars
  <2>2. \A g \in Handles : g # h => outbox'[g] = outbox[g] /\ pending'[g] = pending[g]
    BY <1>0, <1>7, <2>1 DEF ReceiveStarted, ReceiveStale, Settle, Taken, memberVars, TypeOK
  <2>3. ASSUME h \in Pool
        PROVE  /\ Flow(outbox'[h], inbox'[h], queued'[h], pending'[h])
               /\ Sound(outbox'[h], worker'[h])
    <3>1. /\ outbox'[h] = Tail(outbox[h])
          /\ inbox[h] \in Seq(Calls) /\ queued[h] \in Seq(Calls) /\ pending[h] \in Seq(Calls)
      BY <1>0, <2>1 DEF Taken, TypeOK
    <3>2. Flow(outbox[h], inbox[h], queued[h], pending[h]) /\ Sound(outbox[h], worker[h])
      BY <2>3 DEF ResultsInv
    <3>3. 1 \in 1..Len(outbox[h]) /\ Head(outbox[h]) = outbox[h][1]
      BY <1>0, <2>1, LenProperties, HeadTailProperties, EmptySeq
    <3>4. ~ReceiveStale(h)
      BY <3>2, <3>3 DEF ReceiveStale, IsAnswer, NextMessage, Flow
    <3>5. CASE ReceiveStarted(h)
      <4>1. /\ Head(outbox[h]) \notin Answers /\ Head(outbox[h]).kind # "fatal"
            /\ pending' = pending
        BY <3>5 DEF ReceiveStarted, NextMessage, Answers
      <4> QED BY <1>0, <2>1, <3>1, <3>2, <4>1, FlowTaken, SoundTaken
    <3>6. CASE Settle(h)
      <4>1. /\ Head(outbox[h]) \in Answers /\ Head(outbox[h]).kind # "fatal"
            /\ pending'[h] = Without(pending[h], Head(outbox[h]).call)
        BY <1>0, <3>6 DEF Settle, IsAnswer, NextMessage, TypeOK
      <4> QED BY <1>0, <2>1, <3>1, <3>2, <4>1, FlowTaken, SoundTaken
    <3> QED BY <1>7, <3>4, <3>5, <3>6
  <2> QED BY <1>5, <2>1, <2>2, <2>3
<1>8. ASSUME NEW h \in Handles, Worker(h) PROVE ResultsInv'
  <2>1. UNCHANGED <<members, queued, pending>>
    BY <1>8 DEF Worker, Boot, Load, Run, Crash, poolVars, memberVars
  <2>2. \A g \in Handles : g # h =>
          outbox'[g] = outbox[g] /\ inbox'[g] = inbox[g] /\ worker'[g] = worker[g]
    <3>1. CASE Boot(h)
      BY <1>0, <3>1 DEF Boot, Send, TypeOK
    <3>2. CASE Load(h)
      BY <1>0, <3>2, SMTT(40) DEF Load, Send, TypeOK
    <3>3. CASE Run(h)
      BY <1>0, <3>3 DEF Run, Send, TypeOK
    <3>4. CASE Crash(h)
      BY <1>0, <3>4 DEF Crash, Send, TypeOK
    <3> QED BY <1>8, <3>1, <3>2, <3>3, <3>4 DEF Worker
  <2>3. ASSUME h \in Pool
        PROVE  /\ Flow(outbox'[h], inbox'[h], queued'[h], pending'[h])
               /\ Sound(outbox'[h], worker'[h])
    <3>1. /\ inbox[h] \in Seq(Calls) /\ queued[h] \in Seq(Calls) /\ pending[h] \in Seq(Calls)
      BY <1>0 DEF TypeOK
    <3>2. Flow(outbox[h], inbox[h], queued[h], pending[h]) /\ Sound(outbox[h], worker[h])
      BY <2>3 DEF ResultsInv
    <3>3. ASSUME NEW s \in Seq(Notices), outbox'[h] = outbox[h] \o s,
                 inbox'[h] = inbox[h] \/ inbox'[h] = <<>>,
                 worker'[h] # "broken" \/ worker[h] = "broken"
          PROVE  /\ Flow(outbox'[h], inbox'[h], queued'[h], pending'[h])
                 /\ Sound(outbox'[h], worker'[h])
      <4>1. s \in Seq(Messages) /\ \A i \in 1..Len(s) : s[i].kind # "tainted"
        <5>1. s \in Seq(Messages)
          BY DEF Messages
        <5>2. \A i \in 1..Len(s) : s[i] \in Notices
          BY ElementOfSeq
        <5> QED BY <5>1, <5>2 DEF Notices
      <4>2. Sound(outbox[h] \o s, worker'[h])
        BY <1>0, <3>2, <3>3, <4>1, SoundSent
      <4> QED BY <1>0, <2>1, <3>1, <3>2, <3>3, <4>2, FlowNotices
    <3>4. CASE Boot(h) \/ Load(h) \/ Crash(h)
      <4>1. /\ inbox'[h] = inbox[h] \/ inbox'[h] = <<>>
            /\ worker'[h] # "broken"
        BY <1>0, <3>4 DEF Boot, Load, Crash, TypeOK
      <4>2. PICK s \in Seq(Notices) : outbox'[h] = outbox[h] \o s
        <5>1. /\ <<>> \in Seq(Notices) /\ <<[kind |-> "started"]>> \in Seq(Notices)
              /\ <<[kind |-> "unloadable"]>> \in Seq(Notices)
              /\ <<Failure>> \in Seq(Notices) /\ <<Failure, Failure>> \in Seq(Notices)
          BY DEF Notices, Failure
        <5>2. outbox[h] \o <<>> = outbox[h]
          BY <1>0, ConcatEmptySeq
        <5>3. \/ outbox'[h] = outbox[h]
              \/ \E s \in {<<[kind |-> "started"]>>, <<[kind |-> "unloadable"]>>,
                            <<Failure>>, <<Failure, Failure>>} :
                    outbox'[h] = outbox[h] \o s
          <6>1. CASE Boot(h)
            BY <1>0, <6>1 DEF Boot, Send, TypeOK
          <6>2. CASE Load(h)
            <7>1. outbox' = outbox \/ Send(h, <<[kind |-> "unloadable"]>>)
              BY <6>2 DEF Load
            <7> QED BY <1>0, <7>1 DEF Send, TypeOK
          <6>3. CASE Crash(h)
            <7>1. Send(h, <<Failure>>) \/ Send(h, <<Failure, Failure>>)
              BY <6>3 DEF Crash
            <7> QED BY <1>0, <7>1 DEF Send, TypeOK
          <6> QED BY <3>4, <6>1, <6>2, <6>3
        <5> QED BY <5>1, <5>2, <5>3
      <4> QED BY <3>3, <4>1, <4>2
    <3>5. CASE Run(h)
      <4>1. PICK kind \in {"ok", "error", "fatal", "tainted"} :
              /\ \/ worker[h] = "loaded" /\ kind # "tainted"
                 \/ worker[h] = "unloadable" /\ kind = "error"
                 \/ worker[h] = "broken" /\ kind = "tainted"
              /\ Send(h, <<[kind |-> kind, call |-> Head(inbox[h])]>>)
              /\ worker' = IF kind = "fatal" THEN [worker EXCEPT ![h] = "broken"]
                                             ELSE worker
        BY <3>5 DEF Run
      <4> DEFINE m == [kind |-> kind, call |-> Head(inbox[h])]
      <4>2. inbox[h] # <<>> /\ inbox'[h] = Tail(inbox[h]) /\ Head(inbox[h]) \in Calls
        BY <1>0, <3>1, <3>5 DEF Run, TypeOK
      <4>3. /\ m \in Answers /\ m.call = Head(inbox[h]) /\ m.kind = kind
            /\ <<m>> \in Seq(Messages) /\ Len(<<m>>) = 1 /\ <<m>>[1] = m
        BY <4>2 DEF Answers, Messages
      <4>4. outbox'[h] = outbox[h] \o <<m>>
        BY <1>0, <4>1 DEF Send, TypeOK
      <4>5. worker'[h] = "broken" => worker[h] = "broken" \/ kind = "fatal"
        BY <4>1
      <4>6. kind = "tainted" => worker[h] = "broken"
        BY <4>1
      <4> HIDE DEF m
      <4>7. Flow(outbox'[h], inbox'[h], queued'[h], pending'[h])
        BY <1>0, <2>1, <3>1, <3>2, <4>2, <4>3, <4>4, FlowAnswer
      <4>8. Sound(outbox[h] \o <<m>>, worker'[h])
        <5>1. \A i \in 1..Len(<<m>>) : <<m>>[i].kind = "tainted" => worker[h] = "broken"
          BY <4>3, <4>6
        <5>2. worker'[h] = "broken" =>
                worker[h] = "broken" \/ \E i \in 1..Len(<<m>>) : <<m>>[i].kind = "fatal"
          BY <4>3, <4>5
        <5> QED BY <1>0, <3>2, <4>3, <5>1, <5>2, SoundSent
      <4> QED BY <4>4, <4>7, <4>8
    <3> QED BY <1>8, <3>4, <3>5 DEF Worker
  <2> QED BY <1>5, <2>1, <2>2, <2>3
<1>9. CASE UNCHANGED vars
  BY <1>9 DEF vars, poolVars, memberVars, workerVars, ResultsInv, Pool
<1> QED
  BY <1>1, <1>2, <1>3, <1>4, <1>6, <1>7, <1>8, <1>9 DEF Next, Receive

-------------------------------------------------------------------------------
\* What members answered and hold agrees, always.
THEOREM ResultsInvariant == Spec => []ResultsInv
BY CallsInvariant, ResultsInit, ResultsStep, PTL DEF Spec

\* A call that settles with an answer settles with one of its own, never with what
\* an instance computed after a trap.
LEMMA CleanStep ==
    CallsInv /\ ResultsInv /\ CleanResults /\ [Next]_vars => CleanResults'
<1> SUFFICES ASSUME CallsInv, ResultsInv, CleanResults, [Next]_vars,
                    NEW c \in Calls, outcome'[c] = "tainted"
             PROVE  FALSE
  BY DEF CleanResults
<1>0. TypeOK
  BY DEF CallsInv
<1>1. outcome[c] # "tainted" /\ outcome \in [Calls -> Outcomes]
  BY <1>0 DEF CleanResults, TypeOK
<1>2. ASSUME NEW h \in Handles, Settle(h) PROVE FALSE
  <2>1. /\ outbox[h] \in Seq(Messages) /\ outbox[h] # <<>> /\ Head(outbox[h]).kind # "fatal"
        /\ pending[h] # <<>>
        /\ outcome' = [outcome EXCEPT ![Head(outbox[h]).call] = Head(outbox[h]).kind]
    <3>1. Head(outbox[h]).call \in Range(pending[h])
      BY <1>2 DEF Settle, NextMessage
    <3>2. pending[h] # <<>>
      BY <3>1 DEF Range
    <3> QED BY <1>0, <1>2, <3>2 DEF Settle, NextMessage, IsAnswer, TypeOK, Messages
  <2>2. h \in Pool
    BY <2>1 DEF CallsInv, PendingInPool
  <2>3. Head(outbox[h]).kind # "tainted"
    BY <2>1, <2>2, SoundTaken DEF ResultsInv
  <2> QED BY <1>1, <2>1, <2>3
<1>3. ASSUME NEW d, Dispatch(d) PROVE FALSE
  BY <1>1, <1>3 DEF Dispatch
<1>4. ASSUME NEW H, RejectAll(H, "failed") \/ RejectAll(H, "terminated") PROVE FALSE
  BY <1>1, <1>4 DEF RejectAll
<1>5. ASSUME NEW h, Fail(h, outbox) \/ Fail(h, Taken(h)) PROVE FALSE
  BY <1>4, <1>5 DEF Fail
<1>6. ~UNCHANGED outcome
  BY <1>1
<1>7. ASSUME NEW h \in Handles, TimedOut(h) \/ SettleFatal(h) PROVE FALSE
  BY <1>1, <1>7 DEF TimedOut, SettleFatal
<1>8. ~(Terminate \/ \E o \in Options : Configure(o))
  BY <1>4 DEF Terminate, Configure, TerminateMembers
<1>9. ASSUME NEW h \in Handles,
             \/ ReadyResolves(h) \/ ReadyRejects(h) \/ ReceiveStarted(h)
             \/ ReceiveUnloadable(h) \/ ReceiveFailure(h) \/ ReceiveStale(h)
             \/ Retire(h) \/ Worker(h)
      PROVE  FALSE
  BY <1>5, <1>6, <1>9
     DEF ReadyResolves, ReadyRejects, Catch, ReceiveStarted, ReceiveUnloadable,
         ReceiveFailure, ReceiveStale, LateAnswer, Retire, Worker, Boot, Load, Run, Crash,
         poolVars
<1> QED
  BY <1>2, <1>3, <1>6, <1>7, <1>8, <1>9
     DEF Next, Call, Redispatch, Receive, Timer, vars, poolVars

\* No caller is handed what a broken instance computed, whatever was posted behind
\* the request that broke it, however late the report of the trap comes.
THEOREM ResultsAreClean == Spec => []CleanResults
<1>1. Init => CleanResults
  BY DEF Init, CleanResults
<1> QED BY <1>1, CleanStep, CallsInvariant, ResultsInvariant, PTL DEF Spec

-------------------------------------------------------------------------------
(* The pool implements CryptoCalls.                                            *)

\* A dispatched call waits, or is rejected at once.
LEMMA DispatchPromise ==
    ASSUME NEW c, Dispatch(c)
    PROVE  outcome' \in {[outcome EXCEPT ![c] = "waiting"], [outcome EXCEPT ![c] = "failed"]}
BY DEF Dispatch

\* The calls of a handle that fails are rejected together.
LEMMA FailPromise ==
    ASSUME CallsInv, NEW h \in Handles, RejectAll({h}, "failed")
    PROVE  Contract!Next
<1> DEFINE S == {c \in Calls : c \in Range(pending[h])}
<1>1. S \in SUBSET Contract!Waiting
  BY DEF CallsInv, WaitingHeldOnce, Holders, Contract!Waiting
<1>2. Contract!FailSome(S)
  BY DEF RejectAll, Contract!FailSome
<1> QED BY <1>1, <1>2 DEF Contract!Next

\* terminate and configure leave no call open.
LEMMA TerminatePromise ==
    ASSUME CallsInv, ThreadFree, TerminateMembers
    PROVE  Contract!Terminate
<1>1. \A c \in Calls : (\E h \in Pool : c \in Range(pending[h])) <=> outcome[c] = "waiting"
  <2> SUFFICES ASSUME NEW c \in Calls
               PROVE  (\E h \in Pool : c \in Range(pending[h])) <=> outcome[c] = "waiting"
    OBVIOUS
  <2>1. Range(redispatch) = {}
    BY DEF ThreadFree, Range
  <2>2. outcome[c] = "waiting" <=> \E h \in Handles : c \in Range(pending[h])
    BY <2>1 DEF CallsInv, WaitingHeldOnce, Holders
  <2>3. \A h \in Handles : c \in Range(pending[h]) => h \in Pool
    BY DEF CallsInv, PendingInPool, Range
  <2>4. Pool \subseteq Handles
    BY DEF CallsInv, TypeOK, Pool, Range
  <2> QED BY <2>2, <2>3, <2>4
<1>2. outcome' = [c \in Calls |->
                    IF \E h \in Pool : c \in Range(pending[h]) THEN "terminated" ELSE outcome[c]]
  BY DEF TerminateMembers, RejectAll, Pool
<1> QED BY <1>1, <1>2 DEF Contract!Terminate, Contract!Waiting

\* A call of a member that is rejected or answered was waiting for it.
LEMMA HeldIsWaiting ==
    ASSUME CallsInv, NEW h \in Handles, NEW c \in Calls, c \in Range(pending[h])
    PROVE  outcome[c] = "waiting"
BY DEF CallsInv, WaitingHeldOnce, Holders

LEMMA PromiseStep ==
    CallsInv /\ CleanResults' /\ [Next]_vars => [Contract!Next]_outcome
<1> SUFFICES ASSUME CallsInv, CleanResults', [Next]_vars, outcome' # outcome
             PROVE  Contract!Next
  OBVIOUS
<1>0. TypeOK
  BY DEF CallsInv
<1>1. ASSUME NEW c \in Calls, Call(c) PROVE Contract!Next
  BY <1>1, DispatchPromise DEF Call, Contract!Next, Contract!Submit
<1>2. CASE Redispatch
  <2> DEFINE c == Head(redispatch)
  <2>1. c \in Calls /\ outcome[c] = "waiting"
    <3>1. redispatch \in Seq(Calls) /\ redispatch # <<>> /\ IsInjective(redispatch)
      BY <1>2 DEF CallsInv, TypeOK, NoRepeats, Redispatch
    <3>2. c \in Range(redispatch) /\ c \in Calls
      BY <3>1, TailElements
    <3> QED BY <3>2 DEF CallsInv, WaitingHeldOnce
  <2>2. outcome' \in {[outcome EXCEPT ![c] = "waiting"], [outcome EXCEPT ![c] = "failed"]}
    BY <1>2, DispatchPromise DEF Redispatch
  <2> HIDE DEF c
  <2>3. outcome' = [outcome EXCEPT ![c] = "failed"]
    <3>1. [outcome EXCEPT ![c] = "waiting"] = outcome
      BY <1>0, <2>1 DEF TypeOK
    <3> QED BY <2>2, <3>1
  <2>4. Contract!FailSome({c}) /\ {c} \in SUBSET Contract!Waiting
    BY <1>0, <2>1, <2>3 DEF Contract!FailSome, Contract!Waiting, TypeOK
  <2> QED BY <2>4 DEF Contract!Next
<1>3. CASE Terminate \/ \E o \in Options : Configure(o)
  BY <1>3, TerminatePromise DEF Terminate, Configure, Contract!Next
<1>4. ASSUME NEW h \in Handles, Fail(h, outbox) \/ Fail(h, Taken(h)) PROVE Contract!Next
  BY <1>4, FailPromise DEF Fail
<1>5. ASSUME NEW c \in Calls, outcome[c] = "waiting",
             NEW o \in {"ok", "error", "crashed", "timeout"},
             outcome' = [outcome EXCEPT ![c] = o]
      PROVE  Contract!Next
  BY <1>5 DEF Contract!Next, Contract!Answer
<1>6. ASSUME NEW h \in Handles, TimedOut(h) PROVE Contract!Next
  <2>1. pending[h] \in Seq(Calls) /\ pending[h] # <<>> /\ IsInjective(pending[h])
    BY <1>0, <1>6 DEF TimedOut, CallsInv, WatchdogGuards, NoRepeats, TypeOK
  <2>2. Head(pending[h]) \in Range(pending[h]) /\ Head(pending[h]) \in Calls
    BY <2>1, TailElements
  <2> QED BY <1>5, <1>6, <2>2, HeldIsWaiting DEF TimedOut
<1>7. ASSUME NEW h \in Handles, SettleFatal(h) PROVE Contract!Next
  <2>1. NextMessage(h).call \in Calls /\ NextMessage(h).call \in Range(pending[h])
    BY <1>7 DEF SettleFatal, IsAnswer, Answers
  <2> QED BY <1>5, <1>7, <2>1, HeldIsWaiting DEF SettleFatal
<1>8. ASSUME NEW h \in Handles, Settle(h) PROVE Contract!Next
  <2> DEFINE c == NextMessage(h).call
             o == NextMessage(h).kind
  <2>1. /\ c \in Calls /\ c \in Range(pending[h])
        /\ o \in {"ok", "error", "tainted"} /\ outcome' = [outcome EXCEPT ![c] = o]
    BY <1>8 DEF Settle, IsAnswer, Answers
  <2> HIDE DEF c, o
  <2>2. o # "tainted"
    BY <1>0, <2>1 DEF CleanResults, TypeOK
  <2> QED BY <1>5, <2>1, <2>2, HeldIsWaiting
<1>9. ASSUME NEW h \in Handles, ReadyRejects(h) \/ ReceiveUnloadable(h) \/ ReceiveFailure(h)
      PROVE  Contract!Next
  BY <1>4, <1>9 DEF ReadyRejects, Catch, ReceiveUnloadable, ReceiveFailure
<1>10. ASSUME NEW h \in Handles,
              \/ ReadyResolves(h) \/ ReceiveStarted(h) \/ ReceiveStale(h)
              \/ Retire(h) \/ Worker(h)
       PROVE  FALSE
  BY <1>10 DEF ReadyResolves, ReceiveStarted, ReceiveStale, LateAnswer, Retire, Worker,
               Boot, Load, Run, Crash, poolVars
<1> QED
  BY <1>1, <1>2, <1>3, <1>6, <1>7, <1>8, <1>9, <1>10
     DEF Next, Receive, Timer, vars, poolVars

\* The pool keeps what callCrypto promises: each call settles at most once and stays
\* as it settled, with an answer of its own or the rejection of its own failure, and
\* terminate leaves none open.
THEOREM PoolKeepsItsPromises == Spec => Promises
<1>1. Init => Contract!Init
  BY DEF Init, Contract!Init
<1> QED BY <1>1, PromiseStep, CallsInvariant, ResultsAreClean, PTL
        DEF Spec, Promises, Contract!Spec

-------------------------------------------------------------------------------
(* The oldest call is the one its worker runs.  Besides the order, the         *)
(* inductive invariant says of a member that its "ready" has not failed and    *)
(* that nothing is queued behind it once it has resolved, so that a request    *)
(* posted at once never overtakes one that was queued.                         *)

\* OnTheWay(h), for the three sequences of a handle.
Way(out, in, que) ==
    [i \in DOMAIN out |-> About(out[i])]
        \o [i \in DOMAIN in |-> {in[i]}] \o [i \in DOMAIN que |-> {que[i]}]

Stages == SUBSET Calls

Prepared(h) == ready[h] # "rejected" /\ (ready[h] = "ready" => queued[h] = <<>>)

Ordered(h) ==
    /\ Prepared(h)
    /\ worker[h] # "dead" => InOrder(pending[h], Way(outbox[h], inbox[h], queued[h]))

OrderInv == \A h \in Pool : Ordered(h)

\* The elements of a concatenation, by their places.
LEMMA ConcatPlaces ==
    ASSUME NEW S, NEW s \in Seq(S), NEW t \in Seq(S)
    PROVE  /\ s \o t \in Seq(S) /\ Len(s \o t) = Len(s) + Len(t)
           /\ \A k \in 1..Len(s \o t) :
                (s \o t)[k] = IF k <= Len(s) THEN s[k] ELSE t[k - Len(s)]
BY ConcatProperties

\* A way has the stages of these messages and requests, one after the other.
Laid(way, out, in, que) ==
    /\ way \in Seq(Stages) /\ Len(way) = Len(out) + Len(in) + Len(que)
    /\ \A k \in 1..Len(way) :
         way[k] = IF k <= Len(out) THEN About(out[k])
                  ELSE IF k <= Len(out) + Len(in) THEN {in[k - Len(out)]}
                  ELSE {que[k - (Len(out) + Len(in))]}

LEMMA WayPlaces ==
    ASSUME NEW out \in Seq(Messages), NEW in \in Seq(Calls), NEW que \in Seq(Calls)
    PROVE  Laid(Way(out, in, que), out, in, que)
<1> DEFINE a == [i \in 1..Len(out) |-> About(out[i])]
           b == [i \in 1..Len(in) |-> {in[i]}]
           c == [i \in 1..Len(que) |-> {que[i]}]
<1>1. Len(out) \in Nat /\ Len(in) \in Nat /\ Len(que) \in Nat
  BY LenProperties
<1>2. a \in Seq(Stages) /\ Len(a) = Len(out)
  <2>1. \A i \in 1..Len(out) : About(out[i]) \in Stages
    BY DEF About, Answers, Stages
  <2> QED BY <1>1, <2>1
<1>3. b \in Seq(Stages) /\ Len(b) = Len(in)
  <2>1. \A i \in 1..Len(in) : {in[i]} \in Stages
    BY ElementOfSeq DEF Stages
  <2> QED BY <1>1, <2>1
<1>4. c \in Seq(Stages) /\ Len(c) = Len(que)
  <2>1. \A i \in 1..Len(que) : {que[i]} \in Stages
    BY ElementOfSeq DEF Stages
  <2> QED BY <1>1, <2>1
<1>5. /\ \A k \in 1..Len(out) : a[k] = About(out[k])
      /\ \A k \in 1..Len(in) : b[k] = {in[k]}
      /\ \A k \in 1..Len(que) : c[k] = {que[k]}
  OBVIOUS
<1>6. Way(out, in, que) = (a \o b) \o c
  <2>1. DOMAIN out = 1..Len(out) /\ DOMAIN in = 1..Len(in) /\ DOMAIN que = 1..Len(que)
    BY LenProperties
  <2> QED BY <2>1 DEF Way
<1> HIDE DEF a, b, c
<1> DEFINE ab == a \o b
<1>7. /\ ab \in Seq(Stages) /\ Len(ab) = Len(out) + Len(in)
      /\ \A k \in 1..Len(ab) : ab[k] = IF k <= Len(out) THEN a[k] ELSE b[k - Len(out)]
  <2>1. /\ ab \in Seq(Stages) /\ Len(ab) = Len(a) + Len(b)
        /\ \A k \in 1..Len(ab) : ab[k] = IF k <= Len(a) THEN a[k] ELSE b[k - Len(a)]
    BY <1>2, <1>3, ConcatPlaces, Zenon
  <2> HIDE DEF ab
  <2> QED BY <1>2, <1>3, <2>1
<1> HIDE DEF ab
<1> DEFINE way == ab \o c
<1>8. /\ way \in Seq(Stages) /\ Len(way) = Len(ab) + Len(que)
      /\ \A k \in 1..Len(way) : way[k] = IF k <= Len(ab) THEN ab[k] ELSE c[k - Len(ab)]
  <2>1. /\ way \in Seq(Stages) /\ Len(way) = Len(ab) + Len(c)
        /\ \A k \in 1..Len(way) : way[k] = IF k <= Len(ab) THEN ab[k] ELSE c[k - Len(ab)]
    <3>1. ab \in Seq(Stages) /\ c \in Seq(Stages)
      BY <1>4, <1>7
    <3> QED BY <3>1, ConcatPlaces, Zenon
  <2> HIDE DEF way
  <2> QED BY <1>4, <2>1
<1>9. Way(out, in, que) = way
  BY <1>6 DEF ab
<1> HIDE DEF way
<1>10. ASSUME NEW k \in 1..Len(way)
       PROVE  way[k] = IF k <= Len(out) THEN About(out[k])
                       ELSE IF k <= Len(out) + Len(in) THEN {in[k - Len(out)]}
                       ELSE {que[k - (Len(out) + Len(in))]}
  <2>1. CASE k <= Len(out)
    <3>1. k \in 1..Len(ab) /\ k \in 1..Len(out)
      BY <1>1, <1>7, <2>1
    <3>2. way[k] = ab[k]
      BY <1>8, <3>1
    <3> QED BY <1>5, <1>7, <2>1, <3>1, <3>2
  <2>2. CASE ~(k <= Len(out)) /\ k <= Len(out) + Len(in)
    <3>1. k \in 1..Len(ab) /\ k - Len(out) \in 1..Len(in)
      BY <1>1, <1>7, <2>2
    <3> QED BY <1>5, <1>7, <1>8, <2>2, <3>1
  <2>3. CASE ~(k <= Len(out) + Len(in))
    <3>1. ~(k <= Len(ab)) /\ k - Len(ab) \in 1..Len(que) /\ ~(k <= Len(out))
          /\ Len(ab) = Len(out) + Len(in)
      BY <1>1, <1>7, <1>8, <2>3
    <3> QED BY <1>5, <1>8, <2>3, <3>1
  <2> QED BY <2>1, <2>2, <2>3
<1>11. Laid(way, out, in, que)
  BY <1>1, <1>7, <1>8, <1>10 DEF Laid
<1> QED BY <1>9, <1>11

\* The way is left as it is by a worker that answers its next request, and by a
\* "ready" that resolves.
LEMMA WayAnswered ==
    ASSUME NEW out \in Seq(Messages), NEW in \in Seq(Calls), NEW que \in Seq(Calls),
           in # <<>>, NEW m \in Answers, m.call = Head(in)
    PROVE  Way(out \o <<m>>, Tail(in), que) = Way(out, in, que)
<1> DEFINE more == out \o <<m>>
           rest == Tail(in)
           s == Way(more, rest, que)
           t == Way(out, in, que)
<1>1. /\ Len(out) \in Nat /\ Len(in) \in Nat \ {0} /\ Len(que) \in Nat
      /\ Head(in) = in[1] /\ rest \in Seq(Calls) /\ Len(rest) = Len(in) - 1
      /\ \A k \in 1..Len(rest) : rest[k] = in[k + 1]
  BY LenProperties, HeadTailProperties, EmptySeq
<1>2. /\ more \in Seq(Messages) /\ Len(more) = Len(out) + 1
      /\ \A k \in 1..Len(out) : more[k] = out[k]
      /\ more[Len(out) + 1] = m
  <2>1. <<m>> \in Seq(Messages) /\ Len(<<m>>) = 1 /\ <<m>>[1] = m
    BY DEF Messages
  <2>2. /\ more \in Seq(Messages) /\ Len(more) = Len(out) + 1
        /\ \A k \in 1..Len(more) :
             more[k] = IF k <= Len(out) THEN out[k] ELSE <<m>>[k - Len(out)]
    BY <2>1, ConcatProperties
  <2> HIDE DEF more
  <2>3. /\ \A k \in 1..Len(out) : k \in 1..Len(more) /\ k <= Len(out)
        /\ Len(out) + 1 \in 1..Len(more) /\ ~(Len(out) + 1 <= Len(out))
        /\ (Len(out) + 1) - Len(out) = 1
    BY <1>1, <2>2
  <2>4. more[Len(out) + 1] = <<m>>[1]
    BY <2>2, <2>3
  <2> QED BY <2>1, <2>2, <2>3, <2>4
<1>3. About(m) = {in[1]}
  BY <1>1 DEF About
<1> HIDE DEF more, rest
<1>4. Laid(s, more, rest, que)
  <2>1. more \in Seq(Messages) /\ rest \in Seq(Calls)
    BY <1>1, <1>2
  <2> QED BY <2>1, WayPlaces
<1>5. Laid(t, out, in, que)
  BY WayPlaces
<1> HIDE DEF s, t
<1>6. Len(s) = Len(t)
  BY <1>1, <1>2, <1>4, <1>5 DEF Laid
<1>7. ASSUME NEW k \in 1..Len(s) PROVE s[k] = t[k]
  <2>1. CASE k <= Len(out)
    <3>1. k <= Len(more) /\ more[k] = out[k]
      BY <1>1, <1>2, <2>1
    <3> QED BY <1>4, <1>5, <1>6, <2>1, <3>1 DEF Laid
  <2>2. CASE k = Len(out) + 1
    <3>1. k <= Len(more) /\ more[k] = m /\ ~(k <= Len(out)) /\ k <= Len(out) + Len(in)
          /\ k - Len(out) = 1
      BY <1>1, <1>2, <2>2
    <3>2. s[k] = About(m)
      BY <1>4, <3>1 DEF Laid
    <3>3. t[k] = {in[1]}
      BY <1>5, <1>6, <3>1 DEF Laid
    <3> QED BY <1>3, <3>2, <3>3
  <2>3. CASE k > Len(out) + 1 /\ k <= Len(out) + Len(in)
    <3>1. /\ ~(k <= Len(more)) /\ ~(k <= Len(out)) /\ k <= Len(more) + Len(rest)
          /\ k - Len(more) \in 1..Len(rest) /\ (k - Len(more)) + 1 = k - Len(out)
      BY <1>1, <1>2, <2>3
    <3>2. s[k] = {rest[k - Len(more)]}
      BY <1>4, <3>1 DEF Laid
    <3>3. t[k] = {in[k - Len(out)]}
      BY <1>5, <1>6, <2>3, <3>1 DEF Laid
    <3> QED BY <1>1, <3>1, <3>2, <3>3
  <2>4. CASE k > Len(out) + Len(in)
    <3>1. /\ ~(k <= Len(more)) /\ ~(k <= Len(out)) /\ ~(k <= Len(more) + Len(rest))
          /\ ~(k <= Len(out) + Len(in))
          /\ Len(more) + Len(rest) = Len(out) + Len(in)
      BY <1>1, <1>2, <2>4
    <3>2. s[k] = {que[k - (Len(more) + Len(rest))]}
      BY <1>4, <3>1 DEF Laid
    <3>3. t[k] = {que[k - (Len(out) + Len(in))]}
      BY <1>5, <1>6, <3>1 DEF Laid
    <3> QED BY <3>1, <3>2, <3>3
  <2> QED BY <1>1, <2>1, <2>2, <2>3, <2>4
<1>8. s = t
  BY <1>4, <1>5, <1>6, <1>7, SeqEqual DEF Laid
<1> QED BY <1>8 DEF s, t, more, rest

LEMMA WayReady ==
    ASSUME NEW out \in Seq(Messages), NEW in \in Seq(Calls), NEW que \in Seq(Calls)
    PROVE  Way(out, in \o que, <<>>) = Way(out, in, que)
<1> DEFINE all  == in \o que
           none == <<>>
           s == Way(out, all, none)
           t == Way(out, in, que)
<1>1. /\ Len(out) \in Nat /\ Len(in) \in Nat /\ Len(que) \in Nat
      /\ none \in Seq(Calls) /\ Len(none) = 0
  BY LenProperties
<1>2. /\ all \in Seq(Calls) /\ Len(all) = Len(in) + Len(que)
      /\ \A k \in 1..Len(all) : all[k] = IF k <= Len(in) THEN in[k] ELSE que[k - Len(in)]
  BY ConcatProperties
<1> HIDE DEF all, none
<1>3. /\ s \in Seq(Stages) /\ Len(s) = Len(out) + Len(all)
      /\ \A k \in 1..Len(s) :
           s[k] = IF k <= Len(out) THEN About(out[k]) ELSE {all[k - Len(out)]}
  <2>1. all \in Seq(Calls) /\ none \in Seq(Calls)
    BY <1>1, <1>2
  <2>2. Laid(s, out, all, none)
    BY <2>1, WayPlaces
  <2> HIDE DEF s
  <2>3. Len(s) = Len(out) + Len(all) /\ \A k \in 1..Len(s) : k <= Len(out) + Len(all)
    BY <1>1, <1>2, <2>2 DEF Laid
  <2> QED BY <2>2, <2>3 DEF Laid
<1>4. Laid(t, out, in, que)
  BY WayPlaces
<1> HIDE DEF s, t
<1>5. Len(s) = Len(t)
  BY <1>1, <1>2, <1>3, <1>4 DEF Laid
<1>6. ASSUME NEW k \in 1..Len(s) PROVE s[k] = t[k]
  <2>1. CASE k <= Len(out)
    BY <1>3, <1>4, <1>5, <2>1 DEF Laid
  <2>2. CASE k > Len(out) /\ k <= Len(out) + Len(in)
    <3>1. /\ ~(k <= Len(out)) /\ k - Len(out) \in 1..Len(all) /\ k - Len(out) <= Len(in)
      BY <1>1, <1>2, <2>2
    <3> QED BY <1>2, <1>3, <1>4, <1>5, <2>2, <3>1 DEF Laid
  <2>3. CASE k > Len(out) + Len(in)
    <3>1. /\ ~(k <= Len(out)) /\ ~(k <= Len(out) + Len(in))
          /\ k - Len(out) \in 1..Len(all) /\ ~(k - Len(out) <= Len(in))
          /\ (k - Len(out)) - Len(in) = k - (Len(out) + Len(in))
      BY <1>1, <1>2, <1>3, <2>3
    <3> QED BY <1>2, <1>3, <1>4, <1>5, <3>1 DEF Laid
  <2> QED BY <1>1, <2>1, <2>2, <2>3
<1>7. s = t
  BY <1>3, <1>4, <1>5, <1>6, SeqEqual DEF Laid
<1> QED BY <1>7 DEF s, t, all, none

\* A request to be posted is the last stage of the way.
LEMMA WayPosted ==
    ASSUME NEW out \in Seq(Messages), NEW in \in Seq(Calls), NEW que \in Seq(Calls),
           NEW c \in Calls
    PROVE  Way(out, in, Append(que, c)) = Append(Way(out, in, que), {c})
<1> DEFINE more == Append(que, c)
           s == Way(out, in, more)
           w == Way(out, in, que)
           t == Append(w, {c})
<1>1. /\ Len(out) \in Nat /\ Len(in) \in Nat /\ Len(que) \in Nat
      /\ more \in Seq(Calls) /\ Len(more) = Len(que) + 1
      /\ more[Len(que) + 1] = c /\ \A k \in 1..Len(que) : more[k] = que[k]
  BY LenProperties, AppendProperties
<1>2. Laid(w, out, in, que)
  BY WayPlaces
<1> HIDE DEF more
<1>3. Laid(s, out, in, more)
  <2>1. more \in Seq(Calls)
    BY <1>1
  <2> QED BY <2>1, WayPlaces
<1> HIDE DEF s, w
<1>4. /\ t \in Seq(Stages) /\ Len(t) = Len(w) + 1
      /\ t[Len(w) + 1] = {c} /\ \A k \in 1..Len(w) : t[k] = w[k]
  <2>1. w \in Seq(Stages) /\ {c} \in Stages
    BY <1>2 DEF Laid, Stages
  <2> QED BY <2>1, AppendProperties
<1> HIDE DEF t
<1>5. Len(s) = Len(t) /\ Len(w) \in Nat /\ Len(w) = Len(out) + Len(in) + Len(que)
  BY <1>1, <1>2, <1>3, <1>4 DEF Laid
<1>6. ASSUME NEW k \in 1..Len(s) PROVE s[k] = t[k]
  <2>1. CASE k <= Len(out) + Len(in)
    <3>1. k \in 1..Len(w)
      BY <1>1, <1>5, <2>1
    <3>2. t[k] = w[k]
      BY <1>4, <3>1
    <3> QED BY <1>2, <1>3, <2>1, <3>1, <3>2 DEF Laid
  <2>2. CASE k > Len(out) + Len(in) /\ k <= Len(w)
    <3>1. /\ k \in 1..Len(w) /\ ~(k <= Len(out)) /\ ~(k <= Len(out) + Len(in))
          /\ k - (Len(out) + Len(in)) \in 1..Len(que)
      BY <1>1, <1>5, <2>2
    <3>2. t[k] = w[k] /\ more[k - (Len(out) + Len(in))] = que[k - (Len(out) + Len(in))]
      BY <1>1, <1>4, <3>1
    <3>3. s[k] = {more[k - (Len(out) + Len(in))]}
      BY <1>3, <3>1 DEF Laid
    <3>4. w[k] = {que[k - (Len(out) + Len(in))]}
      BY <1>2, <3>1 DEF Laid
    <3> QED BY <3>2, <3>3, <3>4
  <2>3. CASE k = Len(w) + 1
    <3> DEFINE q == k - (Len(out) + Len(in))
    <3>1. ~(k <= Len(out)) /\ ~(k <= Len(out) + Len(in)) /\ q = Len(que) + 1
      BY <1>1, <1>5, <2>3
    <3>2. s[k] = {more[q]}
      BY <1>3, <3>1 DEF Laid
    <3> HIDE DEF q
    <3>3. more[q] = c
      BY <1>1, <3>1
    <3> QED BY <1>4, <2>3, <3>2, <3>3
  <2>4. \/ k <= Len(out) + Len(in)
        \/ k > Len(out) + Len(in) /\ k <= Len(w)
        \/ k = Len(w) + 1
    BY <1>1, <1>4, <1>5
  <2> QED BY <2>1, <2>2, <2>3, <2>4
<1>7. s = t
  BY <1>3, <1>4, <1>5, <1>6, SeqEqual DEF Laid
<1> QED BY <1>7 DEF s, t, w, more

\* A notice is a stage without a call, behind the answers.
LEMMA WayNoticed ==
    ASSUME NEW out \in Seq(Messages), NEW in \in Seq(Calls), NEW que \in Seq(Calls),
           NEW n \in Notices
    PROVE  LET s == Way(out \o <<n>>, in, que)
               w == Way(out, in, que)
           IN  /\ s \in Seq(Stages) /\ Len(s) = Len(w) + 1 /\ Len(out) \in 0..Len(w)
               /\ \A k \in 1..Len(s) :
                    s[k] = IF k <= Len(out) THEN w[k]
                           ELSE IF k = Len(out) + 1 THEN {} ELSE w[k - 1]
<1> DEFINE more == out \o <<n>>
           s == Way(more, in, que)
           w == Way(out, in, que)
<1>1. Len(out) \in Nat /\ Len(in) \in Nat /\ Len(que) \in Nat
  BY LenProperties
<1>2. About(n) = {}
  BY DEF About, Notices, Answers
<1>3. <<n>> \in Seq(Messages) /\ Len(<<n>>) = 1 /\ <<n>>[1] = n
  BY DEF Messages
<1>4. /\ more \in Seq(Messages) /\ Len(more) = Len(out) + 1
      /\ \A k \in 1..Len(more) :
           more[k] = IF k <= Len(out) THEN out[k] ELSE <<n>>[k - Len(out)]
  BY <1>3, ConcatProperties
<1> HIDE DEF more
<1>5. /\ \A k \in 1..Len(out) : more[k] = out[k]
      /\ more[Len(out) + 1] = n
  <2>1. /\ \A k \in 1..Len(out) : k \in 1..Len(more) /\ k <= Len(out)
        /\ Len(out) + 1 \in 1..Len(more) /\ ~(Len(out) + 1 <= Len(out))
        /\ (Len(out) + 1) - Len(out) = 1
    BY <1>1, <1>4
  <2> QED BY <1>3, <1>4, <2>1
<1>6. Laid(w, out, in, que)
  BY WayPlaces
<1>7. Laid(s, more, in, que)
  <2>1. more \in Seq(Messages)
    BY <1>4
  <2> QED BY <2>1, WayPlaces
<1> HIDE DEF s, w
<1>8. /\ Len(s) = Len(w) + 1 /\ Len(out) \in 0..Len(w) /\ Len(w) \in Nat
      /\ Len(w) = Len(out) + Len(in) + Len(que)
  BY <1>1, <1>4, <1>6, <1>7 DEF Laid
<1>9. ASSUME NEW k \in 1..Len(s)
      PROVE  s[k] = IF k <= Len(out) THEN w[k]
                    ELSE IF k = Len(out) + 1 THEN {} ELSE w[k - 1]
  <2>1. CASE k <= Len(out)
    <3>1. k \in 1..Len(out) /\ k \in 1..Len(w) /\ k <= Len(more)
      BY <1>1, <1>4, <1>8, <2>1
    <3> QED BY <1>5, <1>6, <1>7, <2>1, <3>1 DEF Laid
  <2>2. CASE k = Len(out) + 1
    <3>1. ~(k <= Len(out)) /\ k <= Len(more)
      BY <1>1, <1>4, <2>2
    <3> QED BY <1>2, <1>5, <1>7, <2>2, <3>1 DEF Laid
  <2>3. CASE k > Len(out) + 1
    <3>1. /\ ~(k <= Len(out)) /\ k # Len(out) + 1 /\ k - 1 \in 1..Len(w)
          /\ ~(k - 1 <= Len(out)) /\ ~(k <= Len(more))
          /\ k <= Len(more) + Len(in) <=> k - 1 <= Len(out) + Len(in)
          /\ k - Len(more) = (k - 1) - Len(out)
          /\ k - (Len(more) + Len(in)) = (k - 1) - (Len(out) + Len(in))
      BY <1>1, <1>4, <1>8, <2>3, SMTT(20)
    <3>2. s[k] = IF k <= Len(more) + Len(in) THEN {in[k - Len(more)]}
                 ELSE {que[k - (Len(more) + Len(in))]}
      BY <1>7, <3>1 DEF Laid
    <3>3. w[k - 1] = IF k - 1 <= Len(out) + Len(in) THEN {in[(k - 1) - Len(out)]}
                     ELSE {que[(k - 1) - (Len(out) + Len(in))]}
      BY <1>6, <3>1 DEF Laid
    <3> QED BY <3>1, <3>2, <3>3
  <2>4. k <= Len(out) \/ k = Len(out) + 1 \/ k > Len(out) + 1
    BY <1>1
  <2> QED BY <2>1, <2>2, <2>3, <2>4
<1> QED BY <1>7, <1>8, <1>9 DEF Laid, s, w, more

\* Taking a message takes the first stage of the way.
LEMMA WayTaken ==
    ASSUME NEW out \in Seq(Messages), NEW in \in Seq(Calls), NEW que \in Seq(Calls),
           out # <<>>
    PROVE  LET s == Way(Tail(out), in, que)
               w == Way(out, in, que)
           IN  /\ s \in Seq(Stages) /\ Len(w) = Len(s) + 1
               /\ w[1] = About(Head(out)) /\ \A k \in 1..Len(s) : s[k] = w[k + 1]
<1> DEFINE left == Tail(out)
           s == Way(left, in, que)
           w == Way(out, in, que)
<1>1. /\ Len(out) \in Nat \ {0} /\ Len(in) \in Nat /\ Len(que) \in Nat
      /\ Head(out) = out[1] /\ left \in Seq(Messages) /\ Len(left) = Len(out) - 1
      /\ \A k \in 1..Len(left) : left[k] = out[k + 1]
  BY LenProperties, HeadTailProperties, EmptySeq
<1>2. Laid(w, out, in, que)
  BY WayPlaces
<1> HIDE DEF left
<1>3. Laid(s, left, in, que)
  <2>1. left \in Seq(Messages)
    BY <1>1
  <2> QED BY <2>1, WayPlaces
<1> HIDE DEF s, w
<1>4. Len(w) = Len(s) + 1 /\ Len(s) \in Nat
  BY <1>1, <1>2, <1>3 DEF Laid
<1>5. w[1] = About(Head(out))
  <2>1. 1 \in 1..Len(w) /\ 1 <= Len(out)
    BY <1>1, <1>4
  <2> QED BY <1>1, <1>2, <2>1 DEF Laid
<1>6. ASSUME NEW k \in 1..Len(s) PROVE s[k] = w[k + 1]
  <2>1. k + 1 \in 1..Len(w)
    BY <1>4
  <2>2. CASE k <= Len(left)
    <3>1. k \in 1..Len(left) /\ k + 1 <= Len(out)
      BY <1>1, <2>2
    <3> QED BY <1>1, <1>2, <1>3, <2>1, <2>2, <3>1 DEF Laid
  <2>3. CASE ~(k <= Len(left))
    <3>1. /\ ~(k + 1 <= Len(out))
          /\ k <= Len(left) + Len(in) <=> k + 1 <= Len(out) + Len(in)
          /\ k - Len(left) = (k + 1) - Len(out)
          /\ k - (Len(left) + Len(in)) = (k + 1) - (Len(out) + Len(in))
      BY <1>1, <2>3
    <3>2. s[k] = IF k <= Len(left) + Len(in) THEN {in[k - Len(left)]}
                 ELSE {que[k - (Len(left) + Len(in))]}
      BY <1>3, <2>3 DEF Laid
    <3>3. w[k + 1] = IF k + 1 <= Len(out) + Len(in) THEN {in[(k + 1) - Len(out)]}
                     ELSE {que[(k + 1) - (Len(out) + Len(in))]}
      BY <1>2, <2>1, <3>1 DEF Laid
    <3> QED BY <3>1, <3>2, <3>3
  <2> QED BY <2>2, <2>3
<1> QED BY <1>3, <1>4, <1>5, <1>6 DEF Laid, s, w, left

-------------------------------------------------------------------------------
(* InOrder, as calls join the way and leave it.                                *)

LEMMA OrderNone ==
    ASSUME NEW way \in Seq(Stages), Len(way) = 0
    PROVE  InOrder(<<>>, way)
<1>1. DOMAIN way = {} /\ DOMAIN <<>> = {}
  BY LenProperties
<1>2. [i \in {} |-> i] \in [{} -> {}]
  OBVIOUS
<1> QED BY <1>1, <1>2 DEF InOrder

\* The places of the calls on the way.
Places(at, calls, way) ==
    /\ at \in [1..Len(calls) -> 1..Len(way)]
    /\ \A i \in 1..Len(calls) : way[at[i]] = {calls[i]}
    /\ \A i, j \in 1..Len(calls) : i < j => at[i] < at[j]
    /\ \A p \in 1..Len(way) : way[p] # {} => \E i \in 1..Len(calls) : at[i] = p

LEMMA OrderPlaces ==
    ASSUME NEW calls \in Seq(Calls), NEW way \in Seq(Stages)
    PROVE  InOrder(calls, way) <=> \E at : Places(at, calls, way)
<1>1. DOMAIN calls = 1..Len(calls) /\ DOMAIN way = 1..Len(way)
  BY LenProperties
<1>2. ASSUME InOrder(calls, way)
      PROVE  \E at : Places(at, calls, way)
  <2>1. PICK at \in [DOMAIN calls -> DOMAIN way] :
          /\ \A i \in DOMAIN calls : way[at[i]] = {calls[i]}
          /\ \A i, j \in DOMAIN calls : i < j => at[i] < at[j]
          /\ \A p \in DOMAIN way : way[p] # {} => \E i \in DOMAIN calls : at[i] = p
    BY <1>2, Zenon DEF InOrder
  <2>2. Places(at, calls, way)
    BY <1>1, <2>1 DEF Places
  <2> QED BY <2>2
<1>3. ASSUME NEW at, Places(at, calls, way)
      PROVE  InOrder(calls, way)
  <2>1. at \in [DOMAIN calls -> DOMAIN way]
    BY <1>1, <1>3 DEF Places
  <2>2. /\ \A i \in DOMAIN calls : way[at[i]] = {calls[i]}
        /\ \A i, j \in DOMAIN calls : i < j => at[i] < at[j]
        /\ \A p \in DOMAIN way : way[p] # {} => \E i \in DOMAIN calls : at[i] = p
    BY <1>1, <1>3 DEF Places
  <2> QED BY <2>1, <2>2, Zenon DEF InOrder
<1> QED BY <1>2, <1>3

\* A call joins at the end.
LEMMA OrderAppend ==
    ASSUME NEW calls \in Seq(Calls), NEW way \in Seq(Stages), InOrder(calls, way),
           NEW c \in Calls
    PROVE  InOrder(Append(calls, c), Append(way, {c}))
<1> DEFINE more == Append(calls, c)
           next == Append(way, {c})
<1>1. /\ more \in Seq(Calls) /\ Len(more) = Len(calls) + 1 /\ Len(calls) \in Nat
      /\ more[Len(calls) + 1] = c /\ \A i \in 1..Len(calls) : more[i] = calls[i]
  BY LenProperties, AppendProperties
<1>2. /\ next \in Seq(Stages) /\ Len(next) = Len(way) + 1 /\ Len(way) \in Nat
      /\ next[Len(way) + 1] = {c} /\ \A i \in 1..Len(way) : next[i] = way[i]
  <2>1. {c} \in Stages
    BY DEF Stages
  <2> QED BY <2>1, LenProperties, AppendProperties
<1> HIDE DEF more, next
<1>3. PICK at : Places(at, calls, way)
  BY OrderPlaces
<1> DEFINE to == [i \in 1..Len(more) |-> IF i = Len(more) THEN Len(next) ELSE at[i]]
<1>4. /\ \A i \in 1..Len(calls) : i \in 1..Len(more) /\ to[i] = at[i]
      /\ Len(more) \in 1..Len(more) /\ to[Len(more)] = Len(next)
      /\ \A i \in 1..Len(more) : i \in 1..Len(calls) \/ i = Len(more)
  BY <1>1
<1>5. \A i \in 1..Len(calls) : at[i] \in 1..Len(way)
  BY <1>3 DEF Places
<1>6. to \in [1..Len(more) -> 1..Len(next)]
  <2>1. \A i \in 1..Len(more) : to[i] \in 1..Len(next)
    BY <1>2, <1>4, <1>5
  <2> QED BY <2>1
<1> HIDE DEF to
<1>7. \A i \in 1..Len(more) : next[to[i]] = {more[i]}
  <2>1. \A i \in 1..Len(calls) : next[to[i]] = {more[i]}
    BY <1>1, <1>2, <1>3, <1>4, <1>5, SMTT(40) DEF Places
  <2>2. next[to[Len(more)]] = {more[Len(more)]}
    BY <1>1, <1>2, <1>4
  <2> QED BY <1>4, <2>1, <2>2
<1>8. \A i, j \in 1..Len(more) : i < j => to[i] < to[j]
  <2> SUFFICES ASSUME NEW i \in 1..Len(more), NEW j \in 1..Len(more), i < j
               PROVE  to[i] < to[j]
    OBVIOUS
  <2>1. i \in 1..Len(calls)
    BY <1>1
  <2>2. CASE j = Len(more)
    BY <1>2, <1>4, <1>5, <2>1, <2>2
  <2>3. CASE j \in 1..Len(calls)
    BY <1>3, <1>4, <2>1, <2>3 DEF Places
  <2> QED BY <1>4, <2>2, <2>3
<1>9. \A p \in 1..Len(next) : next[p] # {} => \E i \in 1..Len(more) : to[i] = p
  <2> SUFFICES ASSUME NEW p \in 1..Len(next), next[p] # {}
               PROVE  \E i \in 1..Len(more) : to[i] = p
    OBVIOUS
  <2>1. CASE p = Len(next)
    BY <1>4, <2>1
  <2>2. CASE p \in 1..Len(way)
    <3>1. PICK i \in 1..Len(calls) : at[i] = p
      BY <1>2, <1>3, <2>2 DEF Places
    <3> QED BY <1>4, <3>1
  <2> QED BY <1>2, <2>1, <2>2
<1>10. Places(to, more, next)
  BY <1>6, <1>7, <1>8, <1>9 DEF Places
<1> QED BY <1>1, <1>2, <1>10, OrderPlaces DEF more, next

\* A stage without a call comes between.
LEMMA OrderSkips ==
    ASSUME NEW calls \in Seq(Calls), NEW way \in Seq(Stages), InOrder(calls, way),
           NEW next \in Seq(Stages), Len(next) = Len(way) + 1, NEW k \in 0..Len(way),
           \A p \in 1..Len(next) :
                next[p] = IF p <= k THEN way[p] ELSE IF p = k + 1 THEN {} ELSE way[p - 1]
    PROVE  InOrder(calls, next)
<1>1. Len(calls) \in Nat /\ Len(way) \in Nat
  BY LenProperties
<1>2. PICK at : Places(at, calls, way)
  BY OrderPlaces
<1> DEFINE moved(p) == IF p <= k THEN p ELSE p + 1
           to == [i \in 1..Len(calls) |-> moved(at[i])]
<1>3. \A i \in 1..Len(calls) : at[i] \in 1..Len(way)
  BY <1>2 DEF Places
<1>4. \A p \in 1..Len(way) : moved(p) \in 1..Len(next) /\ next[moved(p)] = way[p]
  <2> SUFFICES ASSUME NEW p \in 1..Len(way)
               PROVE  moved(p) \in 1..Len(next) /\ next[moved(p)] = way[p]
    OBVIOUS
  <2>1. CASE p <= k
    <3>1. moved(p) = p /\ p \in 1..Len(next)
      BY <1>1, <2>1
    <3> QED BY <2>1, <3>1
  <2>2. CASE ~(p <= k)
    <3>1. /\ moved(p) = p + 1 /\ p + 1 \in 1..Len(next) /\ ~(p + 1 <= k)
          /\ p + 1 # k + 1 /\ (p + 1) - 1 = p
      BY <1>1, <2>2
    <3> QED BY <3>1
  <2> QED BY <2>1, <2>2
<1>5. \A p, q \in 1..Len(way) : p < q => moved(p) < moved(q)
  BY <1>1
<1>6. ASSUME NEW p \in 1..Len(next), next[p] # {}
      PROVE  \E q \in 1..Len(way) : moved(q) = p /\ way[q] # {}
  <2>1. CASE p <= k
    <3>1. p \in 1..Len(way) /\ moved(p) = p
      BY <1>1, <2>1
    <3> QED BY <1>6, <2>1, <3>1
  <2>2. CASE ~(p <= k)
    <3>1. p # k + 1
      BY <1>6, <2>2
    <3>2. p - 1 \in 1..Len(way) /\ moved(p - 1) = p
      BY <1>1, <2>2, <3>1
    <3> QED BY <1>6, <2>2, <3>1, <3>2
  <2> QED BY <2>1, <2>2
<1>7. \A i \in 1..Len(calls) : to[i] = moved(at[i])
  OBVIOUS
<1>8. to \in [1..Len(calls) -> 1..Len(next)]
  <2>1. \A i \in 1..Len(calls) : to[i] \in 1..Len(next)
    BY <1>3, <1>4, <1>7
  <2> QED BY <2>1
<1> HIDE DEF to, moved
<1>9. \A i \in 1..Len(calls) : next[to[i]] = {calls[i]}
  BY <1>2, <1>3, <1>4, <1>7 DEF Places
<1>10. \A i, j \in 1..Len(calls) : i < j => to[i] < to[j]
  BY <1>2, <1>3, <1>5, <1>7 DEF Places
<1>11. ASSUME NEW p \in 1..Len(next), next[p] # {}
       PROVE  \E i \in 1..Len(calls) : to[i] = p
  <2>1. PICK q \in 1..Len(way) : moved(q) = p /\ way[q] # {}
    BY <1>6, <1>11
  <2>2. PICK i \in 1..Len(calls) : at[i] = q
    BY <1>2, <2>1 DEF Places
  <2> QED BY <1>7, <2>1, <2>2
<1>12. Places(to, calls, next)
  BY <1>8, <1>9, <1>10, <1>11 DEF Places
<1> QED BY <1>12, OrderPlaces

\* The first stage goes: it has no call, or that of the first one.
LEMMA OrderPasses ==
    ASSUME NEW calls \in Seq(Calls), NEW way \in Seq(Stages), InOrder(calls, way),
           NEW next \in Seq(Stages), Len(way) = Len(next) + 1,
           \A p \in 1..Len(next) : next[p] = way[p + 1],
           way[1] = {}
    PROVE  InOrder(calls, next)
<1>1. Len(calls) \in Nat /\ Len(next) \in Nat
  BY LenProperties
<1>2. PICK at : Places(at, calls, way)
  BY OrderPlaces
<1> DEFINE to == [i \in 1..Len(calls) |-> at[i] - 1]
<1>3. ASSUME NEW i \in 1..Len(calls)
      PROVE  at[i] - 1 \in 1..Len(next) /\ (at[i] - 1) + 1 = at[i] /\ at[i] \in 1..Len(way)
  <2>1. at[i] \in 1..Len(way) /\ way[at[i]] = {calls[i]}
    BY <1>2 DEF Places
  <2>2. at[i] # 1
    BY <2>1
  <2> QED BY <1>1, <2>1, <2>2
<1>4. \A i \in 1..Len(calls) : to[i] = at[i] - 1
  OBVIOUS
<1>5. to \in [1..Len(calls) -> 1..Len(next)]
  BY <1>3
<1> HIDE DEF to
<1>6. \A i \in 1..Len(calls) : next[to[i]] = {calls[i]}
  BY <1>2, <1>3, <1>4 DEF Places
<1>7. \A i, j \in 1..Len(calls) : i < j => to[i] < to[j]
  BY <1>2, <1>3, <1>4 DEF Places
<1>8. ASSUME NEW p \in 1..Len(next), next[p] # {}
      PROVE  \E i \in 1..Len(calls) : to[i] = p
  <2>1. p + 1 \in 1..Len(way) /\ way[p + 1] # {} /\ (p + 1) - 1 = p
    BY <1>1, <1>8
  <2>2. PICK i \in 1..Len(calls) : at[i] = p + 1
    BY <1>2, <2>1 DEF Places
  <2> QED BY <1>4, <2>1, <2>2
<1>9. Places(to, calls, next)
  BY <1>5, <1>6, <1>7, <1>8 DEF Places
<1> QED BY <1>9, OrderPlaces

LEMMA OrderLeaves ==
    ASSUME NEW calls \in Seq(Calls), NEW way \in Seq(Stages), InOrder(calls, way),
           NEW next \in Seq(Stages), Len(way) = Len(next) + 1,
           \A p \in 1..Len(next) : next[p] = way[p + 1],
           NEW c, way[1] = {c}
    PROVE  calls # <<>> /\ Head(calls) = c /\ InOrder(Tail(calls), next)
<1>1. Len(calls) \in Nat /\ Len(next) \in Nat
  BY LenProperties
<1>2. PICK at : Places(at, calls, way)
  BY OrderPlaces
<1>3. PICK f \in 1..Len(calls) : at[f] = 1
  BY <1>1, <1>2, SMTT(40) DEF Places
<1>4. \A i \in 1..Len(calls) : at[i] \in 1..Len(way)
  BY <1>2 DEF Places
<1>5. f = 1
  <2> SUFFICES ASSUME f # 1 PROVE FALSE
    OBVIOUS
  <2>1. 1 \in 1..Len(calls) /\ 1 < f
    BY <1>1
  <2>2. at[1] < at[f]
    BY <1>2, <2>1 DEF Places
  <2> QED BY <1>1, <1>3, <1>4, <2>1, <2>2
<1>6. Len(calls) > 0 /\ calls # <<>> /\ calls[1] = c
  <2>1. 1 \in 1..Len(calls) /\ way[at[1]] = {calls[1]}
    BY <1>2, <1>5 DEF Places
  <2>2. calls # <<>>
    BY <2>1, EmptySeq
  <2>3. way[at[1]] = {c}
    BY <1>3, <1>5
  <2>4. calls[1] = c
    BY <2>1, <2>3
  <2> QED BY <1>1, <2>1, <2>2, <2>4
<1> DEFINE rest == Tail(calls)
<1>7. /\ Head(calls) = calls[1] /\ rest \in Seq(Calls) /\ Len(rest) = Len(calls) - 1
      /\ \A i \in 1..Len(rest) : rest[i] = calls[i + 1]
  BY <1>6, HeadTailProperties
<1> HIDE DEF rest
<1> DEFINE to == [i \in 1..Len(rest) |-> at[i + 1] - 1]
<1>8. ASSUME NEW i \in 1..Len(rest)
      PROVE  /\ i + 1 \in 1..Len(calls) /\ at[i + 1] \in 1..Len(way)
             /\ at[i + 1] - 1 \in 1..Len(next) /\ (at[i + 1] - 1) + 1 = at[i + 1]
  <2>1. i + 1 \in 1..Len(calls) /\ 1 \in 1..Len(calls) /\ 1 < i + 1
    BY <1>1, <1>7
  <2>2. at[1] < at[i + 1] /\ at[1] = 1 /\ at[i + 1] \in 1..Len(way)
    BY <1>2, <1>3, <1>4, <1>5, <2>1 DEF Places
  <2> QED BY <1>1, <2>1, <2>2
<1>9. \A i \in 1..Len(rest) : to[i] = at[i + 1] - 1
  OBVIOUS
<1>10. to \in [1..Len(rest) -> 1..Len(next)]
  BY <1>8
<1> HIDE DEF to
<1>11. ASSUME NEW i \in 1..Len(rest) PROVE next[to[i]] = {rest[i]}
  <2>1. next[to[i]] = way[at[i + 1]]
    BY <1>8, <1>9
  <2> QED BY <1>2, <1>7, <1>8, <2>1 DEF Places
<1>12. ASSUME NEW i \in 1..Len(rest), NEW j \in 1..Len(rest), i < j
       PROVE  to[i] < to[j]
  <2>1. at[i + 1] < at[j + 1]
    BY <1>2, <1>8, <1>12 DEF Places
  <2>2. at[i + 1] \in Int /\ at[j + 1] \in Int
    BY <1>8
  <2>3. to[i] = at[i + 1] - 1 /\ to[j] = at[j + 1] - 1
    BY <1>9
  <2> QED BY <2>1, <2>2, <2>3
<1>13. ASSUME NEW p \in 1..Len(next), next[p] # {}
       PROVE  \E i \in 1..Len(rest) : to[i] = p
  <2>1. p + 1 \in 1..Len(way) /\ way[p + 1] # {} /\ (p + 1) - 1 = p /\ p + 1 # 1
    BY <1>1, <1>13
  <2>2. PICK i \in 1..Len(calls) : at[i] = p + 1
    BY <1>2, <2>1 DEF Places
  <2>3. i # 1
    BY <1>3, <1>5, <2>1, <2>2
  <2>4. i - 1 \in 1..Len(rest) /\ (i - 1) + 1 = i
    BY <1>1, <1>7, <2>3
  <2> QED BY <1>9, <2>1, <2>2, <2>4
<1>14. Places(to, rest, next)
  BY <1>10, <1>11, <1>12, <1>13 DEF Places
<1>15. InOrder(rest, next)
  BY <1>7, <1>14, OrderPlaces
<1> QED BY <1>6, <1>7, <1>15 DEF rest

-------------------------------------------------------------------------------
(* The order is kept.                                                          *)

LEMMA OrderInit == Init => OrderInv
<1>1. Range(<<>>) = {}
  BY DEF Range
<1> QED BY <1>1 DEF Init, OrderInv, Pool

\* Deleting the first of different calls leaves the others.
LEMMA WithoutHead ==
    ASSUME NEW s \in Seq(Calls), s # <<>>, IsInjective(s)
    PROVE  Without(s, Head(s)) = Tail(s)
<1>1. Len(s) \in Nat \ {0} /\ DOMAIN s = 1..Len(s) /\ Head(s) = s[1]
  BY LenProperties, HeadTailProperties, EmptySeq
<1>2. 1 \in DOMAIN s /\ Head(s) \in Range(s)
  BY <1>1 DEF Range
<1>3. \A i \in DOMAIN s : s[i] = s[1] => i = 1
  BY <1>2 DEF IsInjective
<1>4. (CHOOSE i \in DOMAIN s : s[i] = Head(s)) = 1
  BY <1>1, <1>2, <1>3
<1>5. RemoveAt(s, 1) = Tail(s)
  BY <1>1 DEF RemoveAt
<1> QED BY <1>2, <1>4, <1>5 DEF Without

\* A member that is not concerned.
LEMMA OrderedKept ==
    ASSUME NEW g, Ordered(g),
           outbox'[g] = outbox[g], inbox'[g] = inbox[g], queued'[g] = queued[g],
           pending'[g] = pending[g], worker'[g] = worker[g], ready'[g] = ready[g]
    PROVE  Ordered(g)'
BY DEF Ordered, Prepared

LEMMA LeaveOrder ==
    ASSUME CallsInv, OrderInv, NEW h \in Handles, members' = Without(members, h),
           NEW undelivered, undelivered = outbox \/ undelivered = Taken(h),
           TerminateHandles({h}, undelivered),
           \A g \in Handles : g # h => /\ pending'[g] = pending[g] /\ queued'[g] = queued[g]
                                      /\ ready'[g] = ready[g]
    PROVE  OrderInv'
<1>1. Pool' = Pool \ {h} /\ Pool \subseteq Handles
  <2>1. Range(members') = Pool \ {h}
    BY RemoveMember
  <2>2. Pool \subseteq Handles
    BY DEF Pool, CallsInv, TypeOK, Range
  <2>3. Pool' = Range(members')
    BY DEF Pool
  <2> QED BY <2>1, <2>2, <2>3
<1> SUFFICES ASSUME NEW g \in Pool' PROVE Ordered(g)'
  BY DEF OrderInv
<1>2. g \in Pool /\ g \in Handles /\ g # h
  BY <1>1
<1>3. undelivered[g] = outbox[g]
  BY <1>2 DEF Taken, CallsInv, TypeOK
<1>4. outbox'[g] = outbox[g] /\ inbox'[g] = inbox[g] /\ worker'[g] = worker[g]
  BY <1>2, <1>3 DEF TerminateHandles
<1>5. Ordered(g)
  BY <1>2 DEF OrderInv
<1> QED BY <1>2, <1>4, <1>5, OrderedKept

\* A call is given to a member, to a new one, or to none.
LEMMA DispatchOrder ==
    ASSUME CallsInv, OrderInv, NEW c \in Calls, Dispatch(c)
    PROVE  OrderInv'
<1>0. TypeOK /\ Pool \subseteq Handles
  BY DEF CallsInv, TypeOK, Pool, Range
<1>1. ASSUME NEW i \in DOMAIN members, Assign(members[i], c)
      PROVE  OrderInv'
  <2> DEFINE h == members[i]
  <2>1. h \in Pool /\ h \in Handles /\ Pool' = Pool
    BY <1>0, <1>1 DEF Pool, Range, Assign
  <2> SUFFICES ASSUME NEW g \in Pool PROVE Ordered(g)'
    BY <2>1 DEF OrderInv
  <2>2. UNCHANGED <<worker, outbox, ready>> /\ Ordered(g)
    BY <1>1 DEF Assign, OrderInv, Ordered
  <2>3. CASE g # h
    <3>1. /\ pending'[g] = pending[g] /\ inbox'[g] = inbox[g] /\ queued'[g] = queued[g]
      BY <1>0, <1>1, <2>1, <2>3 DEF Assign, Post, TypeOK
    <3> QED BY <2>2, <3>1, OrderedKept
  <2>4. CASE g = h
    <3> DEFINE out == outbox[h]
               in  == inbox[h]
               que == queued[h]
               pen == pending[h]
    <3>1. /\ out \in Seq(Messages) /\ in \in Seq(Calls)
          /\ que \in Seq(Calls) /\ pen \in Seq(Calls)
      BY <1>0, <2>1 DEF TypeOK, Messages
    <3>2. pending'[h] = Append(pen, c) /\ outbox'[h] = out /\ worker'[h] = worker[h]
      BY <1>0, <1>1, <2>1, <2>2 DEF Assign, TypeOK
    <3>3. ready[h] \in {"compiling", "ready"} /\ ready'[h] = ready[h]
          /\ (ready[h] = "ready" => que = <<>>)
      BY <1>0, <2>1, <2>2, <2>4 DEF Ordered, Prepared, TypeOK
    <3>4. CASE ready[h] = "compiling"
      <4>1. inbox'[h] = in /\ queued'[h] = Append(que, c)
        BY <1>0, <1>1, <2>1, <3>4 DEF Assign, Post, TypeOK
      <4>2. ASSUME worker[h] # "dead"
            PROVE  InOrder(Append(pen, c), Way(out, in, Append(que, c)))
        <5>1. InOrder(pen, Way(out, in, que))
          BY <2>2, <2>4, <4>2 DEF Ordered
        <5>2. Way(out, in, que) \in Seq(Stages)
          BY <3>1, WayPlaces DEF Laid
        <5> HIDE DEF out, in, que, pen
        <5>3. InOrder(Append(pen, c), Append(Way(out, in, que), {c}))
          BY <3>1, <5>1, <5>2, OrderAppend
        <5>4. Way(out, in, Append(que, c)) = Append(Way(out, in, que), {c})
          BY <3>1, WayPosted
        <5> QED BY <5>3, <5>4
      <4> QED BY <2>4, <3>2, <3>3, <3>4, <4>1, <4>2 DEF Ordered, Prepared
    <3>5. CASE ready[h] = "ready"
      <4>1. queued'[h] = que
            /\ (worker[h] # "dead" => inbox'[h] = Append(in, c))
        BY <1>0, <1>1, <2>1, <3>5 DEF Assign, Post, TypeOK
      <4>2. ASSUME worker[h] # "dead"
            PROVE  InOrder(Append(pen, c), Way(out, Append(in, c), <<>>))
        <5> DEFINE none == <<>>
        <5>1. InOrder(pen, Way(out, in, none))
          BY <2>2, <2>4, <3>3, <3>5, <4>2 DEF Ordered
        <5>2. none \in Seq(Calls) /\ <<c>> \in Seq(Calls)
              /\ Append(none, c) = <<c>>
          OBVIOUS
        <5>3. Append(in, c) = in \o <<c>>
          BY <3>1, AppendIsConcat
        <5> HIDE DEF out, in, que, pen, none
        <5>4. Way(out, in, none) \in Seq(Stages)
          BY <3>1, <5>2, WayPlaces DEF Laid
        <5>5. InOrder(Append(pen, c), Append(Way(out, in, none), {c}))
          BY <3>1, <5>1, <5>4, OrderAppend
        <5>6. Append(Way(out, in, none), {c}) = Way(out, in, <<c>>)
          <6>1. Way(out, in, Append(none, c)) = Append(Way(out, in, none), {c})
            <7>1. out \in Seq(Messages) /\ in \in Seq(Calls) /\ none \in Seq(Calls)
              BY <3>1, <5>2
            <7> QED BY <7>1, WayPosted, SMTT(40)
          <6> QED BY <5>2, <6>1
        <5>7. Way(out, in \o <<c>>, <<>>) = Way(out, in, <<c>>)
          BY <3>1, <5>2, WayReady
        <5> QED BY <5>3, <5>5, <5>6, <5>7, Zenon
      <4> QED BY <2>4, <3>2, <3>3, <3>5, <4>1, <4>2 DEF Ordered, Prepared
    <3> QED BY <3>3, <3>4, <3>5
  <2> QED BY <2>3, <2>4
<1>2. ASSUME NEW h \in Handles, NEW kind, Spawn(kind, h, c)
      PROVE  OrderInv'
  <2>1. Pool' = Pool \cup {h} /\ h \notin Pool /\ outbox[h] = <<>>
    BY <1>0, <1>2, AppendElements DEF Spawn, Free, Pool, TypeOK
  <2> SUFFICES ASSUME NEW g \in Pool' PROVE Ordered(g)'
    BY DEF OrderInv
  <2>2. CASE g # h
    <3>1. /\ pending'[g] = pending[g] /\ inbox'[g] = inbox[g] /\ queued'[g] = queued[g]
          /\ outbox'[g] = outbox[g] /\ worker'[g] = worker[g] /\ ready'[g] = ready[g]
      BY <1>0, <1>2, <2>1, <2>2 DEF Spawn, TypeOK
    <3>2. Ordered(g)
      BY <2>1, <2>2 DEF OrderInv
    <3> QED BY <3>1, <3>2, OrderedKept
  <2>3. CASE g = h
    <3>1. /\ pending'[h] = <<c>> /\ inbox'[h] = <<>> /\ queued'[h] = <<c>>
          /\ outbox'[h] = <<>> /\ ready'[h] = "compiling"
      BY <1>0, <1>2, <2>1 DEF Spawn, TypeOK
    <3> DEFINE none == <<>>
    <3>2. /\ none \in Seq(Messages) /\ none \in Seq(Calls) /\ Len(none) = 0
          /\ Append(none, c) = <<c>>
      OBVIOUS
    <3>3. InOrder(none, Way(none, none, none)) /\ Way(none, none, none) \in Seq(Stages)
      <4> HIDE DEF none
      <4>1. /\ Way(none, none, none) \in Seq(Stages)
            /\ Len(Way(none, none, none)) = Len(none) + Len(none) + Len(none)
        BY <3>2, WayPlaces DEF Laid
      <4>2. Len(Way(none, none, none)) = 0
        BY <3>2, <4>1
      <4> QED BY <4>1, <4>2, OrderNone DEF none
    <3>4. InOrder(<<c>>, Way(none, none, <<c>>))
      <4> HIDE DEF none
      <4>1. InOrder(Append(none, c), Append(Way(none, none, none), {c}))
        BY <3>2, <3>3, OrderAppend
      <4>2. Way(none, none, Append(none, c)) = Append(Way(none, none, none), {c})
        BY <3>2, WayPosted
      <4> QED BY <3>2, <4>1, <4>2
    <3> QED BY <2>3, <3>1, <3>4 DEF Ordered, Prepared
  <2> QED BY <2>2, <2>3
<1>3. CASE UNCHANGED <<members, memberVars, workerVars>>
  BY <1>3 DEF OrderInv, Ordered, Prepared, Pool, memberVars, workerVars
<1> QED BY <1>1, <1>2, <1>3 DEF Dispatch

LEMMA OrderStep == CallsInv /\ CallsInv' /\ OrderInv /\ [Next]_vars => OrderInv'
<1> SUFFICES ASSUME CallsInv, CallsInv', OrderInv, [Next]_vars PROVE OrderInv'
  OBVIOUS
<1>0. /\ TypeOK /\ TypeOK' /\ Pool \subseteq Handles
      /\ \A h \in Handles : outbox[h] \in Seq(Messages) /\ IsInjective(pending[h])
  BY SMTT(40) DEF CallsInv, TypeOK, Pool, Range, NoRepeats, Messages
<1>1. ASSUME NEW c \in Calls, Call(c) PROVE OrderInv'
  BY <1>1, DispatchOrder DEF Call
<1>2. CASE Redispatch
  <2>1. redispatch \in Seq(Calls) /\ redispatch # <<>> /\ IsInjective(redispatch)
    BY <1>2 DEF CallsInv, TypeOK, NoRepeats, Redispatch
  <2>2. Head(redispatch) \in Calls
    BY <2>1, TailElements
  <2> QED BY <1>2, <2>2, DispatchOrder DEF Redispatch
<1>3. CASE Terminate \/ \E o \in Options : Configure(o)
  <2>1. members' = <<>>
    BY <1>3 DEF Terminate, Configure, TerminateMembers
  <2>2. Pool' = {}
    BY <2>1 DEF Pool, Range
  <2> QED BY <2>2 DEF OrderInv
<1>4. ASSUME NEW h \in Handles,
             \/ ReadyRejects(h) \/ ReceiveUnloadable(h) \/ Timer(h)
             \/ SettleFatal(h) \/ ReceiveFailure(h)
      PROVE  OrderInv'
  <2>1. /\ members' = Without(members, h)
        /\ TerminateHandles({h}, outbox) \/ TerminateHandles({h}, Taken(h))
    BY <1>4 DEF ReadyRejects, Catch, ReceiveUnloadable, ReceiveFailure, Fail, Timer,
                TimedOut, Retire, SettleFatal, Leave, Replace
  <2>2. \A g \in Handles : g # h => pending'[g] = pending[g]
    BY <1>0, <1>4
       DEF ReadyRejects, Catch, ReceiveUnloadable, ReceiveFailure, Fail, Timer,
           TimedOut, Retire, SettleFatal, Leave, Replace, RejectAll, TypeOK
  <2>3. \A g \in Handles : g # h => queued'[g] = queued[g] /\ ready'[g] = ready[g]
    BY <1>0, <1>4
       DEF ReadyRejects, ReceiveUnloadable, ReceiveFailure, Timer, TimedOut, Retire,
           SettleFatal, TypeOK
  <2> QED BY <2>1, <2>2, <2>3, LeaveOrder
\* In the other steps one handle changes, and the members stay.
<1>5. ASSUME NEW h \in Handles, UNCHANGED members,
             \A g \in Handles : g # h =>
                /\ outbox'[g] = outbox[g] /\ inbox'[g] = inbox[g]
                /\ queued'[g] = queued[g] /\ pending'[g] = pending[g]
                /\ worker'[g] = worker[g] /\ ready'[g] = ready[g],
             h \in Pool => Ordered(h)'
      PROVE  OrderInv'
  <2>1. Pool' = Pool
    BY <1>5 DEF Pool
  <2>2. ASSUME NEW g \in Pool, g # h PROVE Ordered(g)'
    <3>1. Ordered(g)
      BY DEF OrderInv
    <3> QED BY <1>0, <1>5, <2>2, <3>1, OrderedKept
  <2> QED BY <1>5, <2>1, <2>2 DEF OrderInv
<1>6. ASSUME NEW h \in Handles, ReadyResolves(h) PROVE OrderInv'
  <2>1. /\ UNCHANGED <<members, pending, worker, outbox>>
        /\ ready' = [ready EXCEPT ![h] = "ready"]
        /\ queued' = [queued EXCEPT ![h] = <<>>]
        /\ inbox' = IF worker[h] = "dead" THEN inbox
                    ELSE [inbox EXCEPT ![h] = @ \o queued[h]]
    BY <1>6 DEF ReadyResolves, poolVars
  <2>2. \A g \in Handles : g # h =>
          inbox'[g] = inbox[g] /\ queued'[g] = queued[g] /\ ready'[g] = ready[g]
    BY <1>0, <2>1 DEF TypeOK
  <2>3. queued'[h] = <<>> /\ ready'[h] = "ready"
        /\ (worker[h] # "dead" => inbox'[h] = inbox[h] \o queued[h])
    BY <1>0, <2>1 DEF TypeOK
  <2>4. ASSUME h \in Pool PROVE Ordered(h)'
    <3>1. inbox[h] \in Seq(Calls) /\ queued[h] \in Seq(Calls)
      BY <1>0 DEF TypeOK
    <3>2. Way(outbox[h], inbox[h] \o queued[h], <<>>) = Way(outbox[h], inbox[h], queued[h])
      BY <1>0, <3>1, WayReady
    <3>3. worker[h] # "dead" => InOrder(pending[h], Way(outbox[h], inbox[h], queued[h]))
      BY <2>4 DEF OrderInv, Ordered
    <3> QED BY <2>1, <2>3, <3>2, <3>3 DEF Ordered, Prepared
  <2> QED BY <1>5, <2>1, <2>2, <2>4
<1>7. ASSUME NEW h \in Handles, ReceiveStarted(h) \/ ReceiveStale(h) \/ Settle(h)
      PROVE  OrderInv'
  <2>1. /\ UNCHANGED <<members, queued, worker, inbox, ready>>
        /\ outbox' = Taken(h) /\ outbox[h] # <<>>
    BY <1>7 DEF ReceiveStarted, ReceiveStale, Settle, IsAnswer, poolVars, memberVars
  <2>2. \A g \in Handles : g # h => outbox'[g] = outbox[g] /\ pending'[g] = pending[g]
    BY <1>0, <1>7, <2>1 DEF ReceiveStarted, ReceiveStale, Settle, Taken, memberVars, TypeOK
  <2>3. ASSUME h \in Pool PROVE Ordered(h)'
    <3> DEFINE out == outbox[h]
               in  == inbox[h]
               que == queued[h]
               pen == pending[h]
    <3>1. /\ outbox'[h] = Tail(out) /\ out \in Seq(Messages) /\ out # <<>>
          /\ in \in Seq(Calls) /\ que \in Seq(Calls) /\ pen \in Seq(Calls)
          /\ IsInjective(pen)
      BY <1>0, <2>1 DEF Taken, TypeOK
    <3>2. Ordered(h)
      BY <2>3 DEF OrderInv
    <3>3. CASE worker[h] = "dead"
      BY <2>1, <3>2, <3>3 DEF Ordered, Prepared
    <3>4. ASSUME worker[h] # "dead"
          PROVE  InOrder(pending'[h], Way(Tail(out), in, que))
      <4>1. InOrder(pen, Way(out, in, que))
        BY <3>2, <3>4 DEF Ordered
      <4> DEFINE s == Way(Tail(out), in, que)
                 w == Way(out, in, que)
      <4>2. /\ s \in Seq(Stages) /\ Len(w) = Len(s) + 1
            /\ w[1] = About(Head(out)) /\ \A k \in 1..Len(s) : s[k] = w[k + 1]
        BY <3>1, WayTaken, Zenon
      <4>3. w \in Seq(Stages)
        BY <3>1, WayPlaces DEF Laid
      <4>4. CASE Head(out) \in Answers
        <5>1. w[1] = {Head(out).call}
          BY <4>2, <4>4 DEF About
        <5> HIDE DEF s, w, out, in, que
        <5>2. pen # <<>> /\ Head(pen) = Head(out).call /\ InOrder(Tail(pen), s)
          BY <3>1, <4>1, <4>2, <4>3, <5>1, OrderLeaves DEF w
        <5>3. Head(pen) \in Range(pen) /\ Without(pen, Head(pen)) = Tail(pen)
          BY <3>1, <5>2, WithoutHead, TailElements
        <5>4. Settle(h)
          BY <1>7, <4>4, <5>2, <5>3
             DEF ReceiveStarted, ReceiveStale, NextMessage, out, Answers
        <5>5. pending'[h] = Tail(pen)
          BY <1>0, <5>2, <5>3, <5>4 DEF Settle, NextMessage, out, TypeOK
        <5> QED BY <5>2, <5>5 DEF s, out
      <4>5. CASE Head(out) \notin Answers
        <5>1. w[1] = {}
          BY <4>2, <4>5 DEF About
        <5>2. pending'[h] = pen
          BY <1>7, <4>5 DEF ReceiveStarted, ReceiveStale, Settle, IsAnswer, NextMessage
        <5> HIDE DEF s, w, out, in, que, pen
        <5>3. InOrder(pen, s)
          BY <3>1, <4>1, <4>2, <4>3, <5>1, OrderPasses DEF w
        <5> QED BY <5>2, <5>3 DEF s
      <4> QED BY <4>4, <4>5
    <3> QED BY <2>1, <3>1, <3>2, <3>3, <3>4 DEF Ordered, Prepared
  <2> QED BY <1>5, <2>1, <2>2, <2>3
<1>8. ASSUME NEW h \in Handles, Worker(h) PROVE OrderInv'
  <2>1. UNCHANGED <<members, queued, pending, ready>>
    BY <1>8 DEF Worker, Boot, Load, Run, Crash, poolVars, memberVars
  <2>2. \A g \in Handles : g # h =>
          outbox'[g] = outbox[g] /\ inbox'[g] = inbox[g] /\ worker'[g] = worker[g]
    <3>1. CASE Boot(h)
      BY <1>0, <3>1 DEF Boot, Send, TypeOK
    <3>2. CASE Load(h)
      BY <1>0, <3>2, SMTT(40) DEF Load, Send, TypeOK
    <3>3. CASE Run(h)
      BY <1>0, <3>3 DEF Run, Send, TypeOK
    <3>4. CASE Crash(h)
      BY <1>0, <3>4 DEF Crash, Send, TypeOK
    <3> QED BY <1>8, <3>1, <3>2, <3>3, <3>4 DEF Worker
  <2>3. ASSUME h \in Pool PROVE Ordered(h)'
    <3> DEFINE out == outbox[h]
               in  == inbox[h]
               que == queued[h]
               pen == pending[h]
    <3>1. /\ out \in Seq(Messages) /\ in \in Seq(Calls) /\ que \in Seq(Calls)
          /\ pen \in Seq(Calls) /\ Ordered(h)
      BY <1>0, <2>3 DEF OrderInv, TypeOK
    <3>2. ASSUME worker'[h] # "dead" => InOrder(pen, Way(outbox'[h], inbox'[h], que))
          PROVE  Ordered(h)'
      BY <2>1, <3>1, <3>2 DEF Ordered, Prepared
    <3>3. ASSUME NEW n \in Notices, InOrder(pen, Way(out, in, que))
          PROVE  InOrder(pen, Way(out \o <<n>>, in, que))
      <4> DEFINE s == Way(out \o <<n>>, in, que)
                 w == Way(out, in, que)
      <4>1. /\ s \in Seq(Stages) /\ Len(s) = Len(w) + 1 /\ Len(out) \in 0..Len(w)
            /\ \A k \in 1..Len(s) :
                 s[k] = IF k <= Len(out) THEN w[k]
                        ELSE IF k = Len(out) + 1 THEN {} ELSE w[k - 1]
        <5>1. out \in Seq(Messages) /\ in \in Seq(Calls) /\ que \in Seq(Calls)
          BY <3>1
        <5> HIDE DEF out, in, que
        <5> QED BY <3>3, <5>1, WayNoticed
      <4>2. w \in Seq(Stages)
        BY <3>1, WayPlaces DEF Laid
      <4>3. InOrder(pen, w)
        BY <3>3
      <4> HIDE DEF s, w, out, in, que, pen
      <4>4. InOrder(pen, s)
        BY <3>1, <4>1, <4>2, <4>3, OrderSkips
      <4> QED BY <4>4 DEF s
    <3>4. CASE Boot(h) \/ Load(h)
      <4>1. worker[h] # "dead" /\ inbox' = inbox
        BY <3>4 DEF Boot, Load
      <4>2. outbox'[h] = out \/ \E n \in Notices : outbox'[h] = out \o <<n>>
        <5>1. [kind |-> "started"] \in Notices /\ [kind |-> "unloadable"] \in Notices
          BY DEF Notices
        <5>2. \/ UNCHANGED outbox \/ Send(h, <<[kind |-> "started"]>>)
              \/ Send(h, <<[kind |-> "unloadable"]>>)
          BY <3>4 DEF Boot, Load
        <5> QED BY <1>0, <5>1, <5>2 DEF Send, TypeOK
      <4>3. InOrder(pen, Way(out, in, que))
        BY <3>1, <4>1 DEF Ordered
      <4>4. InOrder(pen, Way(outbox'[h], in, que))
        BY <3>3, <4>2, <4>3
      <4> QED BY <3>2, <4>1, <4>4
    <3>5. CASE Run(h)
      <4>1. PICK kind \in {"ok", "error", "fatal", "tainted"} :
              /\ worker[h] \in {"loaded", "unloadable", "broken"}
              /\ Send(h, <<[kind |-> kind, call |-> Head(inbox[h])]>>)
        BY <3>5 DEF Run
      <4> DEFINE m == [kind |-> kind, call |-> Head(inbox[h])]
      <4>2. in # <<>> /\ inbox'[h] = Tail(in) /\ Head(in) \in Calls
        BY <1>0, <3>1, <3>5 DEF Run, TypeOK
      <4>3. m \in Answers /\ m.call = Head(in)
        BY <4>2 DEF Answers
      <4>4. outbox'[h] = out \o <<m>>
        BY <1>0, <4>1 DEF Send, TypeOK
      <4>5. InOrder(pen, Way(out, in, que))
        BY <3>1, <4>1 DEF Ordered
      <4> HIDE DEF m, out, in, que
      <4>6. Way(out \o <<m>>, Tail(in), que) = Way(out, in, que)
        BY <3>1, <4>2, <4>3, WayAnswered
      <4>7. InOrder(pen, Way(outbox'[h], inbox'[h], que))
        BY <4>2, <4>4, <4>5, <4>6
      <4> QED BY <3>2, <4>7
    <3>6. CASE Crash(h)
      <4>1. worker'[h] = "dead"
        BY <1>0, <3>6 DEF Crash, TypeOK
      <4> QED BY <3>2, <4>1
    <3> QED BY <1>8, <3>4, <3>5, <3>6 DEF Worker
  <2> QED BY <1>5, <2>1, <2>2, <2>3
<1>9. CASE UNCHANGED vars
  BY <1>9 DEF vars, poolVars, memberVars, workerVars, OrderInv, Ordered, Prepared, Pool
<1> QED
  BY <1>1, <1>2, <1>3, <1>4, <1>6, <1>7, <1>8, <1>9 DEF Next, Receive

\* A member answers its calls in the order it was given them, so the first pending
\* call is the one its worker is at: a timeout blames the call that took too long.
THEOREM OldestRuns == Spec => []OldestIsRunning
<1>1. OrderInv => OldestIsRunning
  BY DEF OrderInv, Ordered, OldestIsRunning, OnTheWay, Way
<1> QED BY <1>1, CallsInvariant, OrderInit, OrderStep, PTL DEF Spec

===============================================================================
