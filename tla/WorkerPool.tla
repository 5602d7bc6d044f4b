------------------------------ MODULE WorkerPool ------------------------------
(***************************************************************************)
(* The worker pool of @archi-code/crypto-tools: CryptoWorkerPool of        *)
(* packages/crypto-tools/src/worker/workers.ts, with the three kinds of    *)
(* worker it drives (browser-host.ts, node-host.ts, inline-host.ts and the *)
(* message handler of worker-source.ts).                                   *)
(*                                                                         *)
(* The pool runs on one JavaScript thread, so each of its handlers runs to *)
(* completion: "redispatch" holds the calls the running handler still has  *)
(* to dispatch again (the loop of replace), and no other handler of the    *)
(* pool starts while it is not empty.  Workers run in parallel with it.    *)
(***************************************************************************)
EXTENDS Integers, Sequences, SequencesExt

CONSTANTS
    Calls,           \* the calls a program makes; a call stands for its id
    Handles,         \* worker handles; one that has ended is used again
    Host,            \* what browserWorkerFactory() ?? nodeWorkerFactory() gives
    Options,         \* the options a program may pass to configure
    InitialOptions,  \* the options the pool starts with
    Undefined        \* an option left out

Modes    == {"auto", "worker", "inline"}
Hosts    == {"web-worker", "worker-threads", "none"}
Runtimes == {"web-worker", "worker-threads", "inline"}

\* A number of milliseconds, as the pool tells them apart: Number.isFinite.
Spans == {"finite", "infinite"}

PoolOptions == [size        : Nat \ {0},
                mode        : Modes,
                timeout     : Spans,
                idleTimeout : Spans]

ASSUME HostAssumption == Host \in Hosts

ASSUME OptionsAssumption ==
    /\ InitialOptions \in PoolOptions
    /\ Undefined \notin Int \cup Modes \cup Spans

\* What workers.ts does with a call's promise: "ok" and "error" are answers of
\* the call itself, "tainted" is an answer computed by a wasm instance that had
\* already trapped, the others are rejections by the pool.
Answered == {"ok", "error", "tainted"}
Settled  == Answered \cup {"crashed", "timeout", "terminated", "failed"}
Outcomes == {"unsent", "waiting"} \cup Settled

VARIABLES
    options,         \* size, mode, timeout and idleTimeout
    members,         \* the pool, in the order of the array
    workersBlocked,  \* workers cannot be started: spawn inline members only
    redispatch,      \* calls the running handler still has to dispatch again
    outcome,         \* the promise of each call
    runtime, started, pending, watchdog, idle,    \* PoolMember of each handle
    ready,           \* its promise "ready": compileWasm().then(post init)
    queued,          \* requests to post when "ready" resolves
    keptAlive,       \* the last keepAlive() told to the handle
    worker,          \* what the worker itself is doing
    inbox,           \* requests posted to the worker and not yet run
    outbox           \* messages and failures of the worker not yet delivered

poolVars   == <<options, members, workersBlocked, redispatch, outcome>>
memberVars == <<runtime, started, pending, watchdog, idle, ready, queued,
                keptAlive>>
workerVars == <<worker, inbox, outbox>>
vars       == <<poolVars, memberVars, workerVars>>

-------------------------------------------------------------------------------
(* Messages from a worker to the pool.  "failure" is the error event of a Web *)
(* Worker and the error and exit events of a Node worker.                      *)

Answers == [kind : {"ok", "error", "fatal", "tainted"}, call : Calls]
Notices == [kind : {"started", "unloadable", "failure"}]

Failure == [kind |-> "failure"]

\* A handle's worker: "booting" until its script runs, "up" until the wasm module
\* is instantiated, "loaded", "unloadable" when that failed, "broken" after a
\* wasm trap, "dead" when it has been terminated or has stopped.
WorkerStates == {"booting", "up", "loaded", "unloadable", "broken", "dead"}

-------------------------------------------------------------------------------
(* Helpers.                                                                    *)

\* members.filter(candidate => candidate !== e) and Map.delete, on sequences
\* without repeated elements.
Without(s, e) ==
    IF e \in Range(s) THEN RemoveAt(s, CHOOSE i \in DOMAIN s : s[i] = e) ELSE s

\* The pool's thread is between two handlers.
ThreadFree == redispatch = <<>>

\* A handle a new worker can take: nothing of its previous one is in flight.
Free(h) ==
    /\ h \notin Range(members)
    /\ outbox[h] = <<>>
    /\ \/ worker[h] = "dead"
       \/ /\ ready[h] # "compiling"
          /\ inbox[h] = <<>>

\* startWatchdog arms a timer: never on the calling thread, never for Infinity.
Watched(kind) == kind # "inline" /\ options.timeout = "finite"

\* CryptoWorkerPool.factory: workers if they may be used, else the calling thread.
WorkersAllowed == options.mode # "inline" /\ ~workersBlocked
FactoryThrows  == WorkersAllowed /\ Host = "none" /\ options.mode = "worker"
Factory        == IF WorkersAllowed /\ Host # "none" THEN Host ELSE "inline"

\* pick: the first member with the fewest pending calls (an idle one when there
\* is one), unless the pool is empty or all are busy and it may still grow.
IsLeast(i) ==
    \A j \in DOMAIN members :
        \/ Len(pending[members[i]]) < Len(pending[members[j]])
        \/ Len(pending[members[i]]) = Len(pending[members[j]]) /\ i <= j

\* Mutant: the size is compared with <=.
RoomOffByOne == Len(members) <= options.size
Room         == Len(members) < options.size

NeedsMember ==
    \/ members = <<>>
    \/ /\ \A h \in Range(members) : pending[h] # <<>>
       /\ Room
       /\ Factory # "inline"

-------------------------------------------------------------------------------
(* handle.terminate() on a set of handles, given the messages still to be      *)
(* delivered: a Web Worker loses them, a Node worker still delivers them and   *)
(* then its exit event, an inline one goes on as if nothing had happened.      *)

LeftAfterTermination(h, messages) ==
    CASE runtime[h] = "inline"     -> messages
      [] runtime[h] = "web-worker" -> <<>>
      [] OTHER -> IF worker[h] = "dead" THEN messages
                                        ELSE Append(messages, Failure)

TerminateHandles(H, undelivered) ==
    LET ends(h) == h \in H /\ runtime[h] # "inline" IN
    /\ worker' = [h \in Handles |-> IF ends(h) THEN "dead" ELSE worker[h]]
    /\ inbox'  = [h \in Handles |-> IF ends(h) THEN <<>> ELSE inbox[h]]
    /\ outbox' = [h \in Handles |->
                    IF h \in H THEN LeftAfterTermination(h, undelivered[h])
                               ELSE undelivered[h]]

\* The messages still to be delivered once the handler has taken the first of h.
Taken(h) == [outbox EXCEPT ![h] = Tail(@)]

-------------------------------------------------------------------------------
(* dispatch, pick and spawn.                                                   *)

\* clearTimeout(member.idle), startWatchdog and ready.then(post) of dispatch.
\* Mutants: the timer is left running, the request is posted without waiting for
\* "ready".
ClearIdleForgotten(h) == UNCHANGED idle
ClearIdle(h)          == idle' = [idle EXCEPT ![h] = FALSE]

StartWatchdog(h)      == watchdog' = [watchdog EXCEPT ![h] = @ \/ Watched(runtime[h])]

PostAtOnce(h, c) ==
    /\ inbox' = [inbox EXCEPT ![h] = IF worker[h] = "dead" THEN @ ELSE Append(@, c)]
    /\ UNCHANGED queued

Post(h, c) ==
    /\ queued' = IF ready[h] = "compiling"
                 THEN [queued EXCEPT ![h] = Append(@, c)] ELSE queued
    /\ inbox'  = IF ready[h] = "ready" /\ worker[h] # "dead"
                 THEN [inbox EXCEPT ![h] = Append(@, c)] ELSE inbox

Assign(h, c) ==
    /\ pending'   = [pending EXCEPT ![h] = Append(@, c)]
    /\ keptAlive' = [keptAlive EXCEPT ![h] = TRUE]
    /\ ClearIdle(h)
    /\ StartWatchdog(h)
    /\ Post(h, c)
    /\ UNCHANGED <<members, runtime, started, ready, worker, outbox>>

Spawn(kind, h, c) ==
    /\ Free(h)
    /\ members'   = Append(members, h)
    /\ runtime'   = [runtime EXCEPT ![h] = kind]
    /\ started'   = [started EXCEPT ![h] = FALSE]
    /\ pending'   = [pending EXCEPT ![h] = <<c>>]
    /\ queued'    = [queued EXCEPT ![h] = <<c>>]
    /\ ready'     = [ready EXCEPT ![h] = "compiling"]
    /\ watchdog'  = [watchdog EXCEPT ![h] = Watched(kind)]
    /\ idle'      = [idle EXCEPT ![h] = FALSE]
    /\ keptAlive' = [keptAlive EXCEPT ![h] = TRUE]
    /\ worker'    = [worker EXCEPT ![h] =
                        IF kind = "inline" THEN "up" ELSE "booting"]
    /\ inbox'     = [inbox EXCEPT ![h] = <<>>]
    /\ UNCHANGED outbox

\* A worker could not be created: outside mode "worker" the pool stops trying
\* and the member is an inline one.
FallsBack == Factory # "inline" /\ options.mode # "worker"

Dispatch(c) ==
    \/ /\ ~NeedsMember
       /\ \E i \in DOMAIN members : IsLeast(i) /\ Assign(members[i], c)
       /\ outcome' = [outcome EXCEPT ![c] = "waiting"]
       /\ UNCHANGED workersBlocked
    \/ /\ NeedsMember /\ ~FactoryThrows
       /\ \E h \in Handles :
            \/ Spawn(Factory, h, c) /\ UNCHANGED workersBlocked
            \/ FallsBack /\ Spawn("inline", h, c) /\ workersBlocked' = TRUE
       /\ outcome' = [outcome EXCEPT ![c] = "waiting"]
    \/ /\ NeedsMember       \* factory() throws, or nothing can be created
       /\ workersBlocked' = (workersBlocked \/ FallsBack)
       /\ outcome' = [outcome EXCEPT ![c] = "failed"]
       /\ UNCHANGED <<members, memberVars, workerVars>>

Call(c) ==
    /\ ThreadFree
    /\ outcome[c] = "unsent"
    /\ Dispatch(c)
    /\ UNCHANGED <<options, redispatch>>

\* One turn of the loop of replace.
Redispatch ==
    /\ redispatch # <<>>
    /\ Dispatch(Head(redispatch))
    /\ redispatch' = Tail(redispatch)
    /\ UNCHANGED options

-------------------------------------------------------------------------------
(* Leaving the pool: replace, fail, retire, terminate.                         *)

StopTimers(H) ==
    /\ watchdog' = [h \in Handles |-> h \notin H /\ watchdog[h]]
    /\ idle'     = [h \in Handles |-> h \notin H /\ idle[h]]

\* The calls left behind by a member that is replaced.
Retry(waiting) == redispatch' = waiting

Replace(h, waiting, undelivered) ==
    /\ StopTimers({h})
    /\ members' = Without(members, h)
    /\ pending' = [pending EXCEPT ![h] = <<>>]
    /\ TerminateHandles({h}, undelivered)
    /\ Retry(waiting)

\* rejectAll on each handle of a set.
RejectAll(H, o) ==
    /\ outcome' = [c \in Calls |->
                    IF \E h \in H : c \in Range(pending[h]) THEN o ELSE outcome[c]]
    /\ pending' = [h \in Handles |-> IF h \in H THEN <<>> ELSE pending[h]]

Fail(h, undelivered) ==
    /\ StopTimers({h})
    /\ members' = Without(members, h)
    /\ TerminateHandles({h}, undelivered)
    /\ RejectAll({h}, "failed")
    /\ UNCHANGED <<options, workersBlocked, redispatch>>

\* Mutant: the pool goes on believing that workers are blocked.
UnblockWorkersNever == UNCHANGED workersBlocked
UnblockWorkers      == workersBlocked' = FALSE

TerminateMembers ==
    /\ StopTimers(Range(members))
    /\ members' = <<>>
    /\ UnblockWorkers
    /\ TerminateHandles(Range(members), outbox)
    /\ RejectAll(Range(members), "terminated")

Terminate ==
    /\ ThreadFree
    /\ TerminateMembers
    /\ UNCHANGED <<options, redispatch, runtime, started, ready, queued, keptAlive>>

\* checkOptions: options that are not valid throw before anything changes.
\* Mutant: the size is not checked.
CheckSizeNever(size) == TRUE
CheckSize(size)      == size # Undefined => size \in Nat \ {0}

CheckOptions(o) ==
    /\ CheckSize(o.size)
    /\ o.mode \in Modes \cup {Undefined}
    /\ o.timeout \in Spans \cup {Undefined}
    /\ o.idleTimeout \in Spans \cup {Undefined}

Given(value, current) == IF value = Undefined THEN current ELSE value

Configure(o) ==
    /\ ThreadFree
    /\ CheckOptions(o)
    /\ TerminateMembers
    /\ options' = [size        |-> Given(o.size, options.size),
                   mode        |-> Given(o.mode, options.mode),
                   timeout     |-> Given(o.timeout, options.timeout),
                   idleTimeout |-> Given(o.idleTimeout, options.idleTimeout)]
    /\ UNCHANGED <<redispatch, runtime, started, ready, queued, keptAlive>>

Retire(h) ==
    /\ ThreadFree
    /\ idle[h]
    /\ idle' = [idle EXCEPT ![h] = FALSE]
    /\ members' = Without(members, h)
    /\ TerminateHandles({h}, outbox)
    /\ UNCHANGED <<options, workersBlocked, redispatch, outcome, runtime, started,
                   pending, watchdog, ready, queued, keptAlive>>

\* The calls behind the one that took too long.  Mutant: and that one too.
BehindFirstInclusive(h) == pending[h]
BehindFirst(h)          == Tail(pending[h])

TimedOut(h) ==
    /\ ThreadFree
    /\ watchdog[h]
    /\ outcome' = [outcome EXCEPT ![Head(pending[h])] = "timeout"]
    /\ Replace(h, BehindFirst(h), outbox)
    /\ UNCHANGED <<options, workersBlocked, runtime, started, ready, queued,
                   keptAlive>>

-------------------------------------------------------------------------------
(* "ready": the module is compiled and posted, and the requests queued behind  *)
(* it are posted in order; or it fails, and so does the member.                *)

ReadyResolves(h) ==
    /\ ThreadFree
    /\ ready[h] = "compiling"
    /\ ready'  = [ready EXCEPT ![h] = "ready"]
    /\ queued' = [queued EXCEPT ![h] = <<>>]
    /\ inbox'  = IF worker[h] = "dead" THEN inbox
                                       ELSE [inbox EXCEPT ![h] = @ \o queued[h]]
    /\ UNCHANGED <<poolVars, runtime, started, pending, watchdog, idle, keptAlive,
                   worker, outbox>>

\* ready.catch.  Mutant: nobody handles the rejection.
CatchNever(h) ==
    UNCHANGED <<poolVars, pending, watchdog, idle, workerVars>>
Catch(h) == Fail(h, outbox)

ReadyRejects(h) ==
    /\ ThreadFree
    /\ ready[h] = "compiling"
    /\ ready'  = [ready EXCEPT ![h] = "rejected"]
    /\ queued' = [queued EXCEPT ![h] = <<>>]
    /\ Catch(h)
    /\ UNCHANGED <<runtime, started, keptAlive>>

-------------------------------------------------------------------------------
(* Messages and failures of a worker: receive, settle and failed.              *)

NextMessage(h) == Head(outbox[h])

ReceiveStarted(h) ==
    /\ ThreadFree
    /\ outbox[h] # <<>> /\ NextMessage(h).kind = "started"
    /\ started' = [started EXCEPT ![h] = TRUE]
    /\ outbox' = Taken(h)
    /\ UNCHANGED <<poolVars, runtime, pending, watchdog, idle, ready, queued,
                   keptAlive, worker, inbox>>

ReceiveUnloadable(h) ==
    /\ ThreadFree
    /\ outbox[h] # <<>> /\ NextMessage(h).kind = "unloadable"
    /\ Fail(h, Taken(h))
    /\ UNCHANGED <<runtime, started, ready, queued, keptAlive>>

BlockedBeforeStarting(h) ==
    /\ runtime[h] = "web-worker" /\ ~started[h] /\ options.mode = "auto"
    /\ h \in Range(members)

ReceiveFailure(h) ==
    /\ ThreadFree
    /\ outbox[h] # <<>> /\ NextMessage(h).kind = "failure"
    /\ \/ /\ BlockedBeforeStarting(h)
          /\ workersBlocked' = TRUE
          /\ Replace(h, pending[h], Taken(h))
          /\ UNCHANGED <<options, outcome>>
       \/ /\ ~BlockedBeforeStarting(h)
          /\ Fail(h, Taken(h))
    /\ UNCHANGED <<runtime, started, ready, queued, keptAlive>>

IsAnswer(h) == outbox[h] # <<>> /\ NextMessage(h) \in Answers

\* settle.  An answer to a call that is not pending any more changes nothing.
\* Mutant: it settles the call again.
LateAnswerSettles(h) ==
    outcome' = [outcome EXCEPT ![NextMessage(h).call] = NextMessage(h).kind]
LateAnswer(h) == UNCHANGED outcome

ReceiveStale(h) ==
    /\ ThreadFree
    /\ IsAnswer(h) /\ NextMessage(h).call \notin Range(pending[h])
    /\ outbox' = Taken(h)
    /\ LateAnswer(h)
    /\ UNCHANGED <<options, members, workersBlocked, redispatch, memberVars, worker,
                   inbox>>

\* A wasm trap.
Leave(h, left) == Replace(h, left, Taken(h))

SettleFatal(h) ==
    /\ ThreadFree
    /\ IsAnswer(h) /\ NextMessage(h).kind = "fatal"
    /\ NextMessage(h).call \in Range(pending[h])
    /\ started' = [started EXCEPT ![h] = TRUE]
    /\ outcome' = [outcome EXCEPT ![NextMessage(h).call] = "crashed"]
    /\ Leave(h, Without(pending[h], NextMessage(h).call))
    /\ UNCHANGED <<options, workersBlocked, runtime, ready, queued, keptAlive>>

\* The end of settle: the watchdog starts again for the next call, or the member
\* is let go and its idle timer starts.  Mutants: each of them left out.
RestartWatchdogNever(h, left) == watchdog' = [watchdog EXCEPT ![h] = FALSE]
RestartWatchdog(h, left) ==
    watchdog' = [watchdog EXCEPT ![h] = left # <<>> /\ Watched(runtime[h])]

LetGoNever(h, left) == UNCHANGED keptAlive
LetGo(h, left)      == keptAlive' = [keptAlive EXCEPT ![h] = @ /\ left # <<>>]

StartIdleNever(h, left) == UNCHANGED idle
StartIdle(h, left) ==
    idle' = [idle EXCEPT ![h] =
                @ \/ (left = <<>> /\ options.idleTimeout = "finite")]

Settle(h) ==
    /\ ThreadFree
    /\ IsAnswer(h) /\ NextMessage(h).kind # "fatal"
    /\ NextMessage(h).call \in Range(pending[h])
    /\ LET left == Without(pending[h], NextMessage(h).call) IN
       /\ pending' = [pending EXCEPT ![h] = left]
       /\ RestartWatchdog(h, left)
       /\ LetGo(h, left)
       /\ StartIdle(h, left)
    /\ outcome' = [outcome EXCEPT ![NextMessage(h).call] = NextMessage(h).kind]
    /\ started' = [started EXCEPT ![h] = TRUE]
    /\ outbox'  = Taken(h)
    /\ UNCHANGED <<options, members, workersBlocked, redispatch, runtime, ready,
                   queued, worker, inbox>>

-------------------------------------------------------------------------------
(* The workers.  An inline worker runs on the pool's thread.                   *)

MayRun(h) == runtime[h] = "inline" => ThreadFree

Send(h, messages) == outbox' = [outbox EXCEPT ![h] = @ \o messages]

Boot(h) ==
    /\ worker[h] = "booting"
    /\ worker' = [worker EXCEPT ![h] = "up"]
    /\ Send(h, <<[kind |-> "started"]>>)
    /\ UNCHANGED <<poolVars, memberVars, inbox>>

\* The init message is handled: it is the first one posted to the worker.
Load(h) ==
    /\ MayRun(h)
    /\ worker[h] = "up" /\ ready[h] = "ready"
    /\ \/ /\ worker' = [worker EXCEPT ![h] = "loaded"]
          /\ UNCHANGED outbox
       \/ /\ worker' = [worker EXCEPT ![h] = "unloadable"]
          /\ IF runtime[h] = "inline" THEN UNCHANGED outbox
                                      ELSE Send(h, <<[kind |-> "unloadable"]>>)
    /\ UNCHANGED <<poolVars, memberVars, inbox>>

Run(h) ==
    /\ MayRun(h)
    /\ inbox[h] # <<>>
    /\ \E kind \in {"ok", "error", "fatal", "tainted"} :
        /\ \/ worker[h] = "loaded" /\ kind # "tainted"
           \/ worker[h] = "unloadable" /\ kind = "error"
           \/ worker[h] = "broken" /\ kind = "tainted"
        /\ Send(h, <<[kind |-> kind, call |-> Head(inbox[h])]>>)
        /\ worker' = IF kind = "fatal" THEN [worker EXCEPT ![h] = "broken"]
                                       ELSE worker
    /\ inbox' = [inbox EXCEPT ![h] = Tail(@)]
    /\ UNCHANGED <<poolVars, memberVars>>

\* A worker that cannot start or that stops by itself.  Node reports an error
\* event and then the exit event.
Crash(h) ==
    /\ worker[h] # "dead" /\ runtime[h] # "inline"
    /\ worker' = [worker EXCEPT ![h] = "dead"]
    /\ inbox'  = [inbox EXCEPT ![h] = <<>>]
    /\ Send(h, IF runtime[h] = "web-worker" THEN <<Failure>>
                                            ELSE <<Failure, Failure>>)
    /\ UNCHANGED <<poolVars, memberVars>>

-------------------------------------------------------------------------------

Init ==
    /\ options = InitialOptions
    /\ members = <<>>
    /\ workersBlocked = FALSE
    /\ redispatch = <<>>
    /\ outcome   = [c \in Calls |-> "unsent"]
    /\ runtime   = [h \in Handles |-> "inline"]
    /\ started   = [h \in Handles |-> FALSE]
    /\ pending   = [h \in Handles |-> <<>>]
    /\ watchdog  = [h \in Handles |-> FALSE]
    /\ idle      = [h \in Handles |-> FALSE]
    /\ ready     = [h \in Handles |-> "rejected"]
    /\ queued    = [h \in Handles |-> <<>>]
    /\ keptAlive = [h \in Handles |-> FALSE]
    /\ worker    = [h \in Handles |-> "dead"]
    /\ inbox     = [h \in Handles |-> <<>>]
    /\ outbox    = [h \in Handles |-> <<>>]

Receive(h) ==
    \/ ReceiveStarted(h)
    \/ ReceiveUnloadable(h)
    \/ ReceiveFailure(h)
    \/ ReceiveStale(h)
    \/ SettleFatal(h)
    \/ Settle(h)

Timer(h) == TimedOut(h) \/ Retire(h)

Worker(h) == Boot(h) \/ Load(h) \/ Run(h) \/ Crash(h)

Next ==
    \/ \E c \in Calls : Call(c)
    \/ Redispatch
    \/ Terminate
    \/ \E o \in Options : Configure(o)
    \/ \E h \in Handles :
        \/ ReadyResolves(h)
        \/ ReadyRejects(h)
        \/ Receive(h)
        \/ Timer(h)
        \/ Worker(h)

Spec == Init /\ [][Next]_vars

-------------------------------------------------------------------------------
(* Safety.                                                                     *)

TypeOK ==
    /\ options \in PoolOptions
    /\ members \in Seq(Handles)
    /\ workersBlocked \in BOOLEAN
    /\ redispatch \in Seq(Calls)
    /\ outcome   \in [Calls -> Outcomes]
    /\ runtime   \in [Handles -> Runtimes]
    /\ started   \in [Handles -> BOOLEAN]
    /\ pending   \in [Handles -> Seq(Calls)]
    /\ watchdog  \in [Handles -> BOOLEAN]
    /\ idle      \in [Handles -> BOOLEAN]
    /\ ready     \in [Handles -> {"compiling", "ready", "rejected"}]
    /\ queued    \in [Handles -> Seq(Calls)]
    /\ keptAlive \in [Handles -> BOOLEAN]
    /\ worker    \in [Handles -> WorkerStates]
    /\ inbox     \in [Handles -> Seq(Calls)]
    /\ outbox    \in [Handles -> Seq(Answers \cup Notices)]

Pool == Range(members)

\* A call that waits is held exactly once, by the pool or by the handler that is
\* dispatching it again; a settled one is held nowhere.  No replacement, failure
\* or termination of a worker loses a call or runs it for two members.
Holders(c) == {h \in Handles : c \in Range(pending[h])}

WaitingHeldOnce ==
    \A c \in Calls :
        /\ (outcome[c] = "waiting") <=> (Holders(c) # {} \/ c \in Range(redispatch))
        /\ Holders(c) # {} => c \notin Range(redispatch)
        /\ \A g, h \in Holders(c) : g = h

\* Only members of the pool have pending calls: a member that left it can answer,
\* fail, exit or time out late without any effect on a call.
PendingInPool == \A h \in Handles : pending[h] # <<>> => h \in Pool

\* The watchdog runs exactly while there is a call it can time out, so timedOut
\* always finds a call to reject, and no call waits without a limit.
WatchdogGuards ==
    \A h \in Handles : watchdog[h] <=> (pending[h] # <<>> /\ Watched(runtime[h]))

\* The idle timer runs exactly while a member has nothing to do, so retire never
\* drops a call and an unused worker is always given back; a Node process is kept
\* alive exactly while one of its workers has calls to answer.
IdleMembers ==
    \A h \in Handles :
        /\ idle[h] <=> (h \in Pool /\ pending[h] = <<>>
                          /\ options.idleTimeout = "finite")
        /\ h \in Pool => (keptAlive[h] <=> pending[h] # <<>>)

\* What the proofs of the above need besides: nothing is listed twice.
NoRepeats ==
    /\ IsInjective(members)
    /\ IsInjective(redispatch)
    /\ \A h \in Handles : IsInjective(pending[h])

CallsInv ==
    /\ TypeOK
    /\ NoRepeats
    /\ PendingInPool
    /\ WatchdogGuards
    /\ IdleMembers
    /\ WaitingHeldOnce

\* The pool never outgrows its size, and has at most one inline member: the
\* calling thread has nothing to gain from a second one.
Inline == {i \in DOMAIN members : runtime[members[i]] = "inline"}

PoolBounded ==
    /\ Len(members) <= options.size
    /\ \A i, j \in Inline : i = j

\* Mode "worker" never runs a call on the calling thread, and mode "inline" never
\* starts a worker, whatever happened before the mode was chosen.
ModeHonoured ==
    \A h \in Pool :
        /\ options.mode = "worker" => runtime[h] # "inline"
        /\ options.mode = "inline" => runtime[h] = "inline"

\* The options of the moment bind, whatever the pool did under the ones before.
OptionsBind == PoolBounded /\ ModeHonoured

\* No call resolves with what a wasm instance computed after a trap, although the
\* worker goes on with the requests already posted to it.
CleanResults == \A c \in Calls : outcome[c] # "tainted"

\* The calls on their way through the worker of a member: those answered and not
\* delivered, those posted and those to be posted.  A notice is about no call.
About(m) == IF m \in Answers THEN {m.call} ELSE {}

OnTheWay(h) ==
    [i \in DOMAIN outbox[h] |-> About(outbox[h][i])]
        \o [i \in DOMAIN inbox[h]  |-> {inbox[h][i]}]
        \o [i \in DOMAIN queued[h] |-> {queued[h][i]}]

\* These calls, in this order and no others, are on the way: each at its place.
InOrder(calls, way) ==
    \E at \in [DOMAIN calls -> DOMAIN way] :
        /\ \A i \in DOMAIN calls : way[at[i]] = {calls[i]}
        /\ \A i, j \in DOMAIN calls : i < j => at[i] < at[j]
        /\ \A p \in DOMAIN way : way[p] # {} => \E i \in DOMAIN calls : at[i] = p

\* The calls pending in a member are, in order, those on their way through its
\* worker: the one the watchdog blames, the first, is the one the worker is running
\* or has answered last.
OldestIsRunning ==
    \A h \in Pool : worker[h] # "dead" => InOrder(pending[h], OnTheWay(h))

-------------------------------------------------------------------------------
(* What the pool promises to its callers, and when.                            *)

Contract == INSTANCE CryptoCalls

\* The pool implements CryptoCalls: a promise settles once and with a real answer,
\* a trap or a time out rejects its own call only, and terminate leaves none open.
Promises == Contract!Spec

\* Timers fire and the calling thread runs what is due on it; nothing is assumed
\* of a worker, which may hang, as long as there is a time out.
InlineTurn(h) == runtime[h] = "inline" /\ (Load(h) \/ Run(h) \/ Receive(h))

ThreadFairness ==
    /\ WF_vars(Redispatch)
    /\ \A h \in Handles :
        /\ WF_vars(ReadyResolves(h) \/ ReadyRejects(h))
        /\ WF_vars(TimedOut(h))
        /\ WF_vars(Retire(h))
        /\ WF_vars(InlineTurn(h))

\* A pool without a time out depends on workers that run what they are given and
\* whose messages arrive.
Untimed == options.timeout = "infinite"

WorkerFairness ==
    \A h \in Handles :
        /\ WF_vars(Untimed /\ (Boot(h) \/ Load(h) \/ Run(h)))
        /\ WF_vars(Untimed /\ Receive(h))

FairSpec == Spec /\ ThreadFairness /\ WorkerFairness

\* Every call settles: with a time out even when workers hang, without one provided
\* they run, crash or fail to load.
CallsSettle == Contract!Kept

\* Once no call waits any more, every worker is given back and the pool is empty.
QuietPoolEmpties ==
    (<>[](\A c \in Calls : outcome[c] # "waiting")) => <>[](members = <<>>)
===============================================================================
