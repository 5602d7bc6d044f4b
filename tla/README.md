# Verification of archi-code-core

TLA+ models of the parts of this repository whose correctness depends on order:
what runs at the same time, what fails half way, what is retried, what arrives
late; and of its pure algorithms whose answers have to agree with one another.
TLC checks the models on small instances and TLAPS proves the main results for
every instance.

Run, in this directory, `tlc -workers 2 -config X.cfg M` for a run of
`PROJECT.json`, and `tlapm M_proofs.tla` for the proofs. Paths below are relative
to `src/`.

## 1. The system

The repository is a monorepo of four npm packages, an example application and
the scripts that release the packages. All of the library code runs on
JavaScript threads: a handler runs to completion, and what can interleave are
handlers, the continuations of promises, timers, other threads (workers) and other
pages.

### Worker pool — `packages/crypto-tools/src/worker`

*State*: the members of the pool in order; for each the calls pending in it, a
watchdog, an idle timer, the promise `ready` of its wasm module; the options; a
flag that workers cannot be started.
*Operations*: `call`, `configure`, `terminate`; the handlers of a worker's messages,
failures and exit; the two timers.
*Interactions*: a member drives a Web Worker, a Node worker or the calling thread
through `WorkerHandle`; every function of crypto-tools is one call.
*Hard*: answers that arrive after their worker was replaced; several calls queued on
one worker when it hangs or traps; workers that cannot be started at all; a process
kept alive by an idle worker.
*Correct*: each call settles, once, with a result of a sound instance; it is held by
one member at a time; the pool stays within its size and mode.

### Wasm core — `packages/crypto-tools/rust`, `src/wasm`

The compiled module, compiled once per thread. Each request is a pure function.

### IndexedDB — `packages/ddd/src/infrastructure/indexeddb`

*Schema and connections. State*: in each page one entry per database (declared
tables, the tables verified, the attempt calls await, the open connection); in the
browser the version of the database, its stores with their indexes and rows, the
recorded version of each table. *Operations*: declare a table, run a transaction on
it (which opens, checks and upgrades the database as needed), close, drop a table,
delete the database; inside an open, `plan`, `apply` and the migrations.
*Interactions*: pages (tabs) of different releases share the database; the browser
serves their requests one at a time and sends `versionchange` and `blocked`.
*Hard*: everything between a request and its answer may have been changed by another
tab; a blocked request is refused to its caller and still applied later; releases
with different declarations take turns.
*Correct*: a transaction runs on the table its code declares; no tab holds the
database for ever; releases do not undo each other; rows are migrated once, in order.

*Transactions, tables and queries. State*: inside `run`, whether the work failed,
whether the transaction completed, and the promise; a query is a plan (source, range,
direction, filter, offset, limit) and a page ends in a position. *Operations*:
inserting, replacing, patching, deleting and clearing many rows; `find`, `page`,
`count`, `ids`, `findOne`, `iterate`, `deleteWhere`. *Hard*: a transaction may
complete before the promise of its work, or abort by itself while the work waits for
something else; `iterate` reads its batches in separate transactions, and resumes at a
row that may be gone. *Correct*: the promise says how the transaction ended; rows that
stay are handed over once and in order; pages, tokens, counts and ids agree.

*Inspector*: compares a database with the declarations and describes its stores.

### Event bus — `packages/ddd/src/infrastructure/event`

*State*: the listeners of each event name, the receivers, the events sent.
*Operations*: subscribe, close a subscription, publish a batch. *Hard*: serial
delivery stops at the first listener that throws; listeners publish more events and
come and go during a delivery. *Correct*: each open receiver sees each event once, in
an order one can state; a failure is confined.

### Criteria — `packages/ddd/src/shared/criteria`, `packages/criteria-adapters`

No state: a caller's conditions are normalised into a filter, narrowed, ordered and
paged, written to a URL and read from it, checked by the schema of a server, and
answered by memory, IndexedDB or MongoDB. *Hard*: nulls, missing fields, lists,
values of other kinds, texts beyond the surrogates, a key range that must hold every
row the filter accepts; a schema that reads texts as values and lets value objects
rewrite them. *Correct*: no step changes what is selected, but for the values a schema
rewrites, and the adapters answer the same rows in the same order.

### Validation — `packages/validation`

No state but a cache of patterns. *Hard*: the sums behind check digits, each with its
weights, its letters and its exceptions. *Correct*: a code has one completion, and a
slip of the pen that the scheme can tell is refused.

### Example shop — `packages/ddd/example/src/contexts`

*State*: orders, payments and shipments, each with an optimistic version, and a read
model of orders. *Operations*: the use cases and the listeners of the three contexts,
each find → change → save → publish with an await between. *Interactions*: only
events. *Hard*: a cancellation racing the payment or the shipment; a version conflict
inside a listener, which silences the listeners after it; an event handed over again.
*Correct*: goods are backed by money, the parcel is the order, nothing that ended
comes back, and once quiet the contexts and the read model agree.

### Release scripts — `scripts`

*State*: `releases.json` in the branch, versions and tags on npm. One run plans,
publishes each package, records and pushes. *Hard*: it may die anywhere, npm may
show a version late, and the branch may move. *Correct*: no version is published
twice or skipped, packages go out after what they depend on, and the next run
finishes what one left.

### Domain types, exceptions and logging, build scripts

`packages/ddd/src/domain`, `application`: value objects, aggregates that record
events, use cases; sequential (the aggregates of the shop are modelled). The others
format, copy and report.

## 2. Modules

| Module | Models | Composed of |
| --- | --- | --- |
| `CryptoCalls` | what the pool promises: each call settles once, by an answer or a refusal | |
| `WorkerPool` | `CryptoWorkerPool` and its workers | refines `CryptoCalls` |
| `TableSchema` | operators: `plan`, `apply`, one turn of `upgrade`, migrations, the differences the inspector reports | |
| `TableReleases` | one table under pages of several releases | `TableSchema` |
| `Connections` | the entries of several tabs and the queue of the browser | `TableSchema` |
| `StoreOperations` | operators: walking a store or an index, pages, tokens, counts, statistics | |
| `IndexedDbTransaction` | `IndexedDbTransaction.run` and the transaction of the browser | `StoreOperations` |
| `IndexedDbTable` | `iterate`, and what the other readers answer | `IndexedDbTransaction` |
| `EventDelivery` | what the channel of events promises | |
| `EventChannel` | `InMemoryEventChannel`, its `Emitter`, the listeners of `DomainEventBus` | refines `EventDelivery` |
| `Order`, `Payment`, `Shipment` | operators: the aggregates of the shop and their events | each extends the one before |
| `Shop` | the use cases, listeners, repositories and the read model of three contexts | the three aggregates |
| `Versions`, `ReleasePlan` | operators: versions, `releases.json`, the plan of a release | |
| `Release` | runs of `release.js`, npm, the branch | `ReleasePlan` |
| `FilterNodes` | operators: filters and what they match in memory | |
| `NormalizeWhere`, `CriteriaJson`, `CriteriaSchema` | operators: `Criteria.create`, the URL, the schema | `FilterNodes`, each extends the one before |
| `PlanQuery`, `MongoTranslator` | operators: the adapters of IndexedDB and MongoDB | `FilterNodes` |
| `Search` | a search from what a caller writes to three answers | the six above |
| `CheckDigits` | operators: the validators with check digits | |
| `IssuedCodes` | a code that is issued, copied with a slip, and checked | `CheckDigits` |
| `MC…` | constants of the runs | |
| `…_proofs` | theorems | |

### WorkerPool

A handler of the pool is one action, except that `replace` may dispatch several
calls: each turn of its loop is a `Redispatch`, and no other handler runs while
calls are left (`ThreadFree`). The correspondence of variables and fields:

| Variable | Code |
| --- | --- |
| `options`, `members`, `workersBlocked` | the fields of `CryptoWorkerPool` |
| `pending`, `watchdog`, `idle`, `started`, `ready` | the fields of `PoolMember` |
| `queued` | the continuations of `ready.then(post)` |
| `outcome` | the promise of each call |
| `worker`, `inbox`, `outbox` | the worker: its stage, requests posted, messages not yet delivered |

Actions are `Call`, `Configure`, `Terminate`; `Redispatch`; `ReadyResolves`,
`ReadyRejects`; `ReceiveStarted`, `ReceiveUnloadable`, `ReceiveFailure`,
`ReceiveStale`, `Settle` and `SettleFatal`; the timers `TimedOut` and `Retire`; and the
worker's own `Boot`, `Load`, `Run` and failures. A worker may hang (it takes no step),
crash, be refused by the page, fail to load the module, or trap; after a trap it goes
on with the requests already posted and answers them "tainted". Payloads are left
out: a call ends well, with its own error, or with a trap. A time span is finite or
infinite, and a timer that is set may fire at any moment.

### TableSchema and TableReleases

A definition is a version and a set of named indexes; an index's key path and flags
are one model value. A store has its indexes, the version recorded for it and its
rows. A row is told by the version whose shape it has, so `Migrated` can say whether
a migration got the row it was written for (otherwise the row is `Garbled`).
`Differences` is `compare` of the inspector. `TableReleases` lets the pages of several
releases open, write and drop one table in any order, from any store an earlier
program may have left. It abstracts the connections: an open is one atomic upgrade,
as the browser makes it.

### Connections

| Variable | Code |
| --- | --- |
| `declared`, `verified`, `connection`, `opened` | `DatabaseEntry.tables`, `verified`, `connection`, `opened` of each tab |
| `opener` | each open or delete request, its promise, and the connection it gave |
| `calls` | where each call of `run` is: awaiting an attempt, in its transaction, ended |
| `version`, `stores` | the database |
| `queue`, `stage`, `notify` | the browser: requests in order of arrival; how far the first is; versionchange events on their way |

An attempt of `connect` is one request record through its phases: asking, checking
(`pending` reads the versions), asking again with the next version, resolved or
rejected. A page runs the continuations of a settled promise before its next event:
`Quiet(tab)` is a guard of every event of a tab. The browser's part is modelled from
how the code relies on it: requests on a database are served in order; one that needs
the database alone sends `versionchange` to the open connections, then `blocked` if
some stay open, and waits; a closed connection counts as open until its transactions
end. The upgrade of all the tables is atomic: it commits or aborts. It may always abort
(`Upgrade`, `DropUpgrade`): because a table does not match, a migration throws or writes
a row that is refused, an index cannot be created, or a request of the upgrade fails; and
a check may always fail (`CheckFails`), because a table does not match or the versions
cannot be read. What refuses an open is then told to the calls that await it.

### StoreOperations, IndexedDbTransaction and IndexedDbTable

A row has an id, the keys an index files it under (none, one, or several when it is
`multiEntry`) and whether the filter keeps it; a position is a key and an id, as a
cursor reports it. A plan walks positions; its page ends in the position its token
carries.

| Variable | Code |
| --- | --- |
| `failure`, `completed`, `promise` | the locals of `run`, and what it returned |
| `work` | where the work is: running, awaiting an operation or anything else, ended |
| `tx`, `active`, `requests` | the browser: the state of the transaction, whether it takes requests, those not executed yet |
| `rows`, `draft` | what is committed; what the transaction sees |
| `plan`, `batchSize`, `reader` | the locals of `iterate` |
| `handed`, `steady`, `query`, `before`, `strayed`, `errored` | history |

Code of the work, and the handlers of its promise, run before the browser does
anything else (`BrowserMayAct`); a transaction without requests, whose work waits for
none, commits by itself. The work may throw, await something else, ask after the
transaction ended, or catch the failure of an operation. One `readwrite` transaction
runs between the batches of one `iterate`, and between two rows that it hands over.

### EventDelivery and EventChannel

| Variable | Code |
| --- | --- |
| `events`, `members` | the map of `Emitter` and the Sets it holds: a delivery keeps the Set it began with |
| `receivers`, `status` | `InMemoryEventChannel.receivers`; whether each subscription is `open` |
| `send` | each call of `send`: its event, and the locals of `emit` or `emitSerial` |
| `handler` | each listener called for that event: running, awaiting a send of its own, failed |
| `received` | history |

`EventDelivery` states the rules of the README of ddd (one open subscription for each
consumer, `close` more than once, the order within a send) and what the in-memory
channel adds: a consumer gets an event once, never after it closed, and a send
resolves when all that were open from its beginning have its events. `NextListener`
is one turn of the loop over the snapshot; in parallel delivery the turns need not wait for each
other, and the model lets other steps come between them, more than the one pass of
`emit` allows but for what the listeners themselves do in it. A listener fails at any
point (its own error, or an event the registry cannot rebuild).

### Order, Payment, Shipment and Shop

A method of an aggregate is an operator whose value says what its caller does next: it
throws, returns, saves a changed copy with the events recorded, or removes. `Shop`
runs the use cases over one order, for orders share nothing.

| Variable | Code |
| --- | --- |
| `orders`, `payments`, `shipments` | the row of each in-memory repository with its version |
| `summary`, `applied` | the read model of orders and the event ids its projection has seen |
| `call` | each request (or event handed over again): its agenda of tasks, the copy it read, its attempt |
| `published`, `traffic` | history; how many calls run at once (a bound) |

A request is a task; the listeners of the events it publishes are put in front of what
is left of its agenda, because `publish` awaits them in the order of their
subscription. `Begin` is the
controller, `Load` the `find` of any task, and `SalesStep`, `PaymentsStep` and
`ShippingStep` what follows it: method, `save` with its check of the version,
`publish`. `ChangeShippingAddress` is tried again after a conflict, as the code does. A
task that throws ends the request and with it the listeners that have not run.

### Versions, ReleasePlan and Release

A commit is its place in the history with the packages it touches and its bump;
a version is four numbers. `ReleasePlan` has `releases.json` (`EmptyState`,
`FindPublication`, `StateErrors`, `RecordPublication`) and `BuildPlan`, which goes over
the packages in their order, dependencies first.

| Variable | Code |
| --- | --- |
| `log`, `file` | the branch in origin and its `releases.json` |
| `npm`, `served` | what npm took, and what it already answers |
| `waiting` | the run that the concurrency group of the workflow keeps |
| `pc`, `head`, `base`, `ahead`, `state`, `plan`, `left`, `recorded`, `failed` | where a run of `release.js` is, its working tree and its locals |

Its actions are the awaits of `release.js`: `Begin`, `Reconcile` (a round of
`reconcileWithNpm`), `SaveReconciled`, `CheckPinnedDependencies`, `PublishNext`,
`RecordPublished`, `AllPublished`, `Finish`. A fault is a run that is killed
(`Dies`), a command that fails, or an answer of npm that is lost. `left` is the set of
packages that the loop over `releasing(plan)` has not reached, `FirstOf(left)` the one it
is at; `RecordedFromNpm` is the file after the inner loop of `reconcileWithNpm`.

### FilterNodes … Search

A value is its kind and a point on that kind's order; a text is a sequence of UTF-16
units, of which some are surrogates; a field is a path. `Search` has one action for
each thing done to a criteria: `Narrow` (`and`), `Rearrange` (`orderBy`, `page`),
`Send` (`toUrl`, then `schema.fromUrl`), `Answer` (the three adapters). It begins with
`Criteria.create`, or with `schema.parse` of what a caller wrote. What an index or a
MongoDB query selects is modelled from how the translators rely on it. The value object
class of a field is a function from the values its constructor takes to those it makes of
them (`makes`), of which `ClassesAssumption` says that it takes what it made as it is;
`Spelled` is what `parseInput` reads in a text; the lengths of a field and of a URL are
the operators `FieldLength` and `UrlLength`.

### CheckDigits and IssuedCodes

A text is a sequence of the numbers a validator reads its characters as. `Issue`
appends the check characters that the validator accepts, `MistypeDigit` and
`SwapNeighbours` are the slips of whoever copies the code.

## 3. Runs

| Run | Question | Bounds |
| --- | --- | --- |
| `pool` | does any order of calls, failures, options and terminations break the pool, and is it a `CryptoCalls`? | 2 calls, 3 handles, Node workers, 6 changes of options |
| `pool_live` | does every call settle, and a quiet pool empty? | 2 calls on a pool of one, 2 handles, Web Workers |
| `table_releases` | do releases respect each other's upgrades and rows, and does the inspector tell the difference? | 6 releases of 4 versions, 2 names, 2 shapes, 4 initial stores |
| `connections_tabs` | can tabs upgrade under each other's feet? | 2 tabs, 2 tables, 3 calls, 4 requests, 1 close or drop |
| `connections_clash` | is any connection leaked, or any call left waiting, when declarations also clash? | 2 tabs, 2 tables, 2 calls, 4 requests, 1 close, drop or deletion |
| `connections_kept` | (violation) does a tab reopen what another closed? | as `connections_tabs`, without the close or drop |
| `channel_delivery` | does the channel keep its rules while subscriptions come and go? | 3 subscriptions of 2 consumers, a send of 2 events and one of 1, which a listener may make |
| `shop` | do three contexts agree through events and versions alone? | one order, 10 requests and an event handed over again, 5 of them in one behaviour, 2 at once |
| `release` | does a run that fails anywhere leave what the next one can finish? | 2 packages, 5 beginnings, 2 commits, 1 fault |
| `tables` | does the promise of a transaction tell how it ended, and do readers agree while one writes? | 3 rows, 2 keys, one transaction of 2 operations, batches of 1 and 2, 21 queries |
| `search` | do the steps of a search keep its meaning, and the adapters agree? | 17 documents, every operator, filters of one or two conditions and their negations; a schema of 7 fields, of every kind |
| `check_digits` | which slips does each validator refuse? | 25 schemes, bodies in which each digit stands at each place, every single slip |

*What the properties say.*
`pool`: `WaitingHeldOnce`, `WatchdogGuards` and `IdleMembers` tie a call to the member
that holds it and to its timers; `OptionsBind` is size and mode; `OldestIsRunning`, that
the worker is at the call the pool takes for its oldest; `CleanResults`, that no result
was computed by a broken instance.
`table_releases`: `Settled`, `RowsMigrated`, `RaisingIsExact` and
`OldCodeChangesNothing`. `connections_*`: `WorkingFits` (a transaction finds the table its
code declares), `RisesDoWork` and `AnswersHaveAReason` (no version is spent, no error
given, and no drop said to be done, for nothing), `ConnectionsOwned`, `CallsSettle`.
`shop`: `MoneyBacksGoods`, `ParcelFitsOrder` and `NothingRevives` hold however requests
overlap; `AgreeWhenApart` when they do not. `release`: `RecordIsTrue`, `Installable`,
`VersionsRise`, `Settled`. `tables`: `EndIsTold`, `NobodyWaits`, `HandedInOrder`,
`NothingLost` (of the rows the query chose at every moment), `AnswersAddUp`. `search`:
`CriteriaKeepTheirMeaning`, `AdaptersAgree`. `check_digits`: `SlipsAreRefused` and
`SumsAgree`, each but for the schemes listed beside it, whose sums cannot tell by design.

*Why the bounds are enough.* A handle of the pool is used again once its worker is
gone, so 3 handles are two members and one predecessor whose messages are still on
their way. Two calls are one that hangs or traps and one behind it; the proofs below
cover any number. A Node worker goes on delivering messages after `terminate`, and
answers to `exit`, which a Web Worker does not: it is the harder host, and the proofs
cover every one. Two tabs are one that upgrades and one in its way; a third would
only be another of the same. Four requests are the most the two tabs have at once; a
request record is used again when nothing refers to it. `MaxOperations` bounds the
closes, drops and deletions, each of which may fall at any moment. The definitions
differ in every way `plan` tells apart: older, equal, newer, with missing, extra and
changed indexes. One event name is enough for the channel: names meet only in the key
of `receivers`, and the proofs cover any number. Three subscriptions are a consumer
that comes back and one beside it; the events of a batch have the same name, the
hardest case for order.

Two requests at once are a reader and the writer that makes its copy stale; five are
the longest life of an order (placed, changed, confirmed, dispatched, delivered) or a
life cut short by one that races it. The prices are such that a second unit exceeds the
limit of the card. Of two packages one depends on the other, which is all `topoSort`
can say; two pushes are one that the run sees and one that it loses against, and one
fault leaves what the next run must finish. The beginnings are a new repository, a
released one on either branch, an emptied list of deploys and a merge of the branches.
Three rows with up to two keys give equal keys, several entries of a row and a row in no
index; a batch ends at, before and after each of them. The documents hold a value of
every kind in the field asked for, texts below and above the surrogates, and an object
that is an object, a list or missing. Of the classes of the schema one rewrites what it
takes, one refuses a value of its kind, one reads texts in a list; every limit is met
and passed by some input, an order as long as is allowed included.

`CHECK_DEADLOCK FALSE` is used for all but `table_releases`, whose pages never stop:
the others stop when every call was made, the bounds are spent or the answer is given.

*Fairness.* `WorkerPool!FairSpec`: continuations run, timers fire, and the calling
thread runs what is due on it. Nothing is assumed of a worker while there is a
time out. Without one, `CallsSettle` can only hold if workers run what they are given
and their messages arrive (`Untimed`); crashes, traps and modules that do not load are
still possible. `Connections!FairSpec`: the browser serves its queue, delivers
events and ends transactions, and a page runs its continuations; that a tab calls,
closes or drops anything is never assumed. The other specifications state none: what
they promise is safety.

## 4. Proofs

`WorkerPool_proofs` proves for any calls, handles, host and options
- `TypeCorrect`: the type invariant;
- `NoCallLost`: `WaitingHeldOnce`, a waiting call is held exactly once;
- `TimersMatch`: `WatchdogGuards`, a watchdog runs exactly while it has a call to end;
- `IdleMembersLeave`: `IdleMembers`, the idle timer runs exactly for the members that hold
  no call, and a worker keeps a Node process alive exactly while it has calls;
- `OptionsAlwaysBind`: `OptionsBind`, the pool stays within `size`, and in its `mode`.

None of them is inductive alone: that a time out finds a call to reject needs the
watchdogs to match the pending calls, that dispatching again adds no second holder
needs the sequences to have no repetitions, that a retired member holds nothing needs
the idle timers. `CallsInv` is their conjunction with `NoRepeats` and
`PendingInPool`; `CallsInvariant` proves it inductive, one lemma per action. `OptionsInv`
adds why the options bind: an inline member joins others only when no worker can be had,
there is never a second one, and workers are only given up on in mode `auto`.

Over `CallsInv` the module also proves
- `ResultsAreClean`: `CleanResults`, that no call is answered by an instance that
  trapped;
- `PoolKeepsItsPromises`: `Promises`, that the pool implements `CryptoCalls`;
- `OldestRuns`: `OldestIsRunning`, that a worker gets to its calls in the order in which
  the pool holds them.

The first needs two facts about the messages of a worker (`ResultsInv`): a call is only
once among its answers, its inbox and what waits for `ready`, and is pending (`Flow`);
before an answer given after a trap comes the report of the trap (`Sound`), so that the
member is replaced, and its messages ignored, before such an answer is received. It goes
over sequences cut anywhere, hence the lemmas on `Head`, `Tail` and `\o`. The second
maps each action to one call that is made or settled, or to none, and holds because a
call that a member holds is waiting, and is held once. The third is over what is on the way
of a member, laid in one sequence: its answers, its inbox, and what waits for `ready`
(`Way`). `OrderInv` adds that nothing waits any more once `ready` has resolved, so that
what is posted at once never overtakes what was queued.

`IndexedDbTable_proofs` proves for any rows, operations, queries and bounds
- `EndIsAlwaysTold`: the promise of `run` is resolved only if the transaction
  committed, and rejected, if the work awaited nothing but its own operations, only if
  nothing it wrote is kept;
- `NobodyEverWaits`: once the work has ended and its transaction is over, the promise is
  settled.

`IInv` is `Kinds` (types), `Underway` and `Over` (what the flags of an open and of a
finished transaction say about each other) and `ResolvedIsCommitted`. And for any rows,
queries, ranges and sizes of batches
- `ReaderKeeps`: the invariant `ReaderInv` of an iteration;
- `RowsComeInOrder`: `HandedInOrder`;
- `NoRowIsLost`: `NothingLost`;
- `AnswersAlwaysAddUp`: `AnswersAddUp`, by one lemma for each of its parts (`TypesHold`,
  `DeletesKeep`, `PagesKeep`, `TokensKeepTheirScope`, `InspectorKeeps`).

The lemmas go from the order of two positions (`BeforeOrders`, `PastIsAfter`) to the list
of a finite set of them (`InOrderIs`: each once, in order), from there to what a plan
that goes on finds (`AheadIs`: what was chosen and is past the position, the narrowed
range losing none of it), and to the page that `Scan` and `getAll` make of it alike
(`ScanIs`, `RowsOfIs`). `ReaderInv` says where the reader is (`GoesOn`: the position it
goes on from is the last one handed out, and it has `Behind` it at most as many entries
chosen all the time, and not handed out, as the offset), what is left of the limit
(`Counts`), and, for the rows to have types after any write, that every request in the
queue writes a row (`Typed`). A write between two batches can only take entries from
`steady`, so `Behind` shrinks; a batch misses of what it passes only what its offset
passed over (`BatchMissesLittle`). TLC checked `ReaderInv` on the instance of `tables`
before it was proved. `deleteWhere` and the pages of `find`, one after another, are
recursive functions, so that what one turn preserves, all do (`DeleteWhereRuns`,
`PagesOfIs`). A turn of `deleteWhere` keeps `Deleted`: the count is the number of rows that
are gone, each of them chosen, and what it `Passed` is no more than the offset; it counts
one more or has stopped, and there are more turns than rows (`DeleteWhereKeeps`). After n
pages of one row `ReadTo` has the first n ids of the whole answer, and the token of the nth
(`NextPageIs`); a page after a row starts with the one that follows it (`PageAfter`).
`KeysAssumption` says that null is neither a key, nor a position, nor a token.

`TableSchema_proofs` has the lemmas about one upgrade that the next two modules share: what
it leaves to its release (`UpToDate`), and that no upgrade of another takes it back.

`TableReleases_proofs` proves for any set of releases and any initial store
- `TypeCorrect`;
- `ReleasesSettle`: a release that has opened the table finds no work and no mismatch
  in it again. The induction goes over what each release that is open `Served`: the
  version of the data is at least its own, and if equal its indexes are there, as it
  declares them; an upgrade by another release preserves that because it
  either raises the version or adds indexes.
- `RowsAreMigrated`: `RowsMigrated`, if the rows found by the first release fit the store
  they are in. An upgrade takes every row that fits to the version it records, and a page
  that writes a row of another version is older than the data;
- `RaisesAreExact` and `OldCodeIsHarmless`: the action properties `RaisingIsExact` and
  `OldCodeChangesNothing`, from `Served` before and after each step.

`Connections_proofs` proves for any tabs, tables, calls and requests
- `NoConnectionForgotten`: `ConnectionsOwned`. The invariant `OwnInv` adds that an
  entry's `opened` is its `connection`, and that the phases of a request agree with
  the connection it holds and with being in the queue;
- `ConnectionsTyped`: `TypeOK`;
- `TransactionsFit`: `WorkingFits`. What is inductive is that the tables a tab has
  `verified` fit for as long as its connection is open (`VerifiedFits`): an upgrade that
  could change them waits until every connection is closed;
- `AnswersAreGrounded`: the action property `AnswersHaveAReason`;
- `VersionsRiseForWork`: `RisesDoWork`. Where nobody deletes the database, a request that
  asks for the next version still finds work when its turn comes, because whoever did the
  work has raised the version (`AskInv`).

`EventChannel_proofs` proves for any names, consumers, sends and batches
- `TypeCorrect`: with it, that a delivery is never past its snapshot or its batch;
- `ListenersMatch`: `OneListenerEach`. It needs `SetsOwned`: a name's Set was made for a
  subscription that began, and every other Set is empty, so that a Set made anew never
  brings old listeners back and no two names share one;
- `NothingLeftRunning`: `SettledIsQuiet`, from `RunForASend`;
- `ChannelKeepsTheRules`: `KeepsTheRules`, that the channel implements `EventDelivery`. Over
  `ChannelInv`, `DeliveriesInv` says what a delivery still owes: its snapshot holds each
  receiver once and only subscriptions of its name (`Snapshots`), a receiver has the event
  of now only from one that had its turn (`InOrder`), and whoever was open all the time has
  the events before and has, or is still to have, that of now (`NoneMissed`).

`Shop_proofs` proves for any calls, inputs, campaigns and events handed over again
- `ShopHolds`: the invariant `ShopInv`;
- `MoneyFollowsGoods`: `MoneyBacksGoods`;
- `ParcelsFitOrders`: `ParcelFitsOrder`;
- `NothingIsRevived`: the action property `NothingRevives`;
- `ContextsAgree`: `AgreeWhenApart`, from the invariant `ApartInv` (`ApartHolds`).

The contexts know each other only through events, so `ShopInv` says what each event that
was told means for the rows of every context (`OrderBacked`, `PaymentBacked`,
`ShipmentBacked`, `PaidAsTold`): a captured payment stays captured or is refunded, a
refund needs a cancelled order, what `order.paid` tells of the order is still so. Two
requests that overlap read rows that change before they save: `CopiesOK` says that a copy
with the version of the row is the row, so a save that is no conflict was computed on what
it replaces. `CallsOK` says that what is on an agenda reacts to events that were told, and
`PlacedOnce` that the order is placed once, before anything else. The proof takes the
methods of the aggregates one by one (`SalesOutcomes`, `PaymentsOutcomes`,
`ShippingOutcomes`) and then asks what each kind of save does to the invariant.

`AgreeWhenApart` only speaks of moments in which no call runs; between them the contexts
differ, so `ApartInv` says of every difference which waiting task makes it good. With one
call at a time its agenda is a `Line`: the reactions to one event, or what is left of them.
`Due` are these tasks. `SummaryFollows`: the summary says what the order is, or a task it
was not yet told of will make it so; `PaymentFollows`: a payment that is missing, of another
amount, captured for a pending order or kept for a cancelled one has its task, and that task
asks for the total of the order; `ParcelFollows`: the same of the shipment. A task that has
read the row reads it as it is (`InTurn`), so it never meets a conflict, and the summary was
told of each event, or is next (`Projected`): an event that comes again is known to it. Each
step of a context is split by what it does to its row (`Sold`, `Paid`, `Shipped`), and in
each case the tasks that it puts in front are those of `Hearers`. TLC checked `ApartInv`,
for calls that do not overlap, before it was proved.

`Release_proofs` proves for any packages, histories, pushes and faults
- `ReleaseHolds`: the invariant `ReleaseInv`;
- `RecordsAreTrue`: `RecordIsTrue`;
- `EveryPackageInstalls`: `Installable`;
- `VersionsAlwaysRise`: `VersionsRise`;
- `RunsSettle`: `Settled`.

What npm took stays there whatever becomes of the run, so `ReleaseInv` (`RecordIsTrue`,
`Installable` and `RunOK`) has to say of every moment of a run that it can stop there.
`Running`: the file in the working tree is as good a record as the one in the branch
(`GoodFile`) and records nothing older, and the plan `Fits` that file (the pins of a
package are the next versions of its dependencies, or the current ones) and `Rises`.
`Publishing`: what was published has its dependencies on npm, and what is left will find
them there or in this run. `Unrecorded`: between publication and record, npm has what
the record is going to say. `GoodFile` survives a new document on npm because its version
is after the current one of its package (`NpmGrows`), and a record because the commit and
the pins are those of the document (`RecordGood`). The file after a round of
reconciliation and the plan are recursive functions over the order of the packages:
`Recursion` gives their existence and what one step does, from a least index
(`Least`, `Induct`), and `BuildPlanIs` and `FromNpmIsGood` what they come to. TLC checked
`ReleaseInv` on the instance of `release` before it was proved.

The last two need `RiseInv` too. A run that dies after a publication leaves on npm a
version that no file has, and the next run plans without it: from the old version, after
more commits, maybe with another bump. `Points` are the versions a run may go on from, the
one of the branch and those above it on npm, each with the commit it stands for (the one it
was published from) and the next version for each bump. Of two points the higher one stands
for the later commit (`Growing`); the next version of a point is on npm already, where
reconciliation or the refusal of npm meets it, or lies above every other point
(`Reachable`); and what the commits up to the higher point ask for, planned from the lower
one, is not above the higher one (`Followed`). What makes this inductive is that the next
version is the least above its point that the bump allows (`RoundsUp`, from `AlphaNext` and
`StableNext`), so that what another point gives for the same bump or a higher one, once it
is above this point, is not below this point's next version (`Rounds`), and that a reset
gives every package the same version (`FixedFirst`). `Newcomer` says it of one more
publication, `RisingStays` of the steps that publish nothing, and `RecordGoesOn` that a
file with a new record goes on from the document it records. For `Settled` the invariant
keeps, next to the plan, why it leaves a package out (`Stands`, then `StandsFor`: no commit
since its version asks for one, and that version pins what the file has) and what became of
the others (`WasPublished`). TLC checked `RiseInv` from the beginnings of `release` with
one push and one fault.

Assumptions: only those the modules state on their constants (`HostAssumption`,
`OptionsAssumption`, `NoStoreAssumption`, `ReleasesAssumption`,
`ConnectionsAssumption`, `ChannelAssumption`, `KeysAssumption`,
`OperationsAssumption`, `ReaderAssumption`, `CampaignsAssumption`, `ShopAssumption`, `OrderAssumption`,
`BumpsAssumption`, `BeginningsAssumption`), which TLC evaluates in every run.

*Only model-checked.*
- Liveness (`CallsSettle` of both, `QuietPoolEmpties`): fairness and `ENABLED` are out of
  reach of the prover.
- `CriteriaKeepTheirMeaning` and `AdaptersAgree`: filters are trees, their operators are
  RECURSIVE, and out of reach of the prover.
- `SumsAgree` and `SlipsAreRefused`: sums over texts of any length, folded from operators,
  and arithmetic modulo that the solvers do not find; the runs enumerate the texts. Of IBAN,
  `SlipsAreRefused` is about these bodies only: where a country takes letters and digits at
  the same places, B1 and 1B are spelled with the same figures.
- The initial states of `Release` are any `Beginnings` that fit `BeginningsAssumption`: that
  the releases of before left the branch and npm in order. Its last three conjuncts are only
  needed for `VersionsRise` and `Settled`: the versions of a file are of their channels, as
  `stateErrors` demands (`ChannelsApart`); the file has published each package or the next run
  will, so a package was added by a commit that asks for a version (`Accounted`); and npm has
  nothing above the current versions (`NoneAbove`), which on the release branch leaves out
  prereleases of main that are not merged yet: those are above its next version and stay so.
  That TLC's beginnings are of this kind it checks itself.

## 5. Where code and documents part

- `connections_kept` (a finding of `PROJECT.json`). The README of ddd says that a tab
  reopens by itself the connection another one made it close. If the versionchange event
  comes while the connection is being checked, `forget` closes it but the entry does not
  release it, and the closed connection becomes the tab's: its calls fail until something
  closes the entry.

The following were met while modelling; each is a behaviour of the models, and the
properties are stated so that they hold of the code.

- `drop` can answer `true` with the store still there, when another tab raises the version
  between its two requests; `AnswersHaveAReason` leaves this one case out. And it looks at
  what its tab declares before it waits: a table declared in between is dropped, although
  declared (`packages/ddd/README.md:2768-2769`); the tab upgrades again before it uses it.
- An old tab may insert rows of its shape after a migration; the next migration takes
  them as if they were of the version before it (`packages/ddd/README.md:2760-2762`).
  `RowsMigrated` leaves such rows out (`stale`).
- Requests posted to a worker before its trap is reported run on the broken instance
  (`packages/crypto-tools/README.md:468-469`). Their results never reach a caller, which
  `CleanResults` states.
- `adjustAmount` has no limit, although a payment above the limit of its method is
  rejected when it is requested (`packages/ddd/example/README.md:910-911`).
- Requests that overlap may leave a cancelled order with a captured payment or a prepared
  shipment: the listener of the cancellation finds no payment, or loses a version
  conflict and is not tried again. A quantity event that is handed over again after a
  later one sets the amount back. `Summary.items` keeps the old quantities until the
  order is paid. `AgreeWhenApart` says when the contexts do agree.
- `.github/workflows/release.yml:3-5` says that it runs on every push; when the push of
  the record loses a race, `release.js` (lines 82 and 233) rebases onto commits that no
  run has taken yet and publishes from that tree. A run killed between the publication
  (331) and its record (336), followed by a commit with a larger bump, leaves a version
  on npm that `releases.json` never has (356): hence `VersionsRise` looks at npm and
  `RecordIsTrue` only at what the file records.
- IBAN accepts two pairs of check digits when the remainder repeats (97 and 00, 98 and
  01, 99 and 02), an ABN the heads 10 and 99; `OneCodeEach` leaves both out. The sums of
  zh-TW, TH, IR, PT and ISO 6346 miss some single digits, those of Luhn, EAN, ABA
  and PL some swaps, as their standards have it.
- MongoDB sorts a dotted path through a list by its elements, where a criteria reads it
  as missing (`packages/criteria-adapters/README.md:65-67` only excludes fields that are
  lists): `search` orders by no such path.
- The range of a page token is not part of the scope it is checked against.
- A schema counts the fields of an order before it adds the tiebreaker
  (`criteria-schema.ts:308-318`, `criteria-limits.ts:97`): an order as long as it allows,
  without the tiebreaker, is accepted and then refused when the criteria that came out of
  it is checked again. `ChecksAreFinal` says that a second check refuses for no
  other reason than the limits.
- No document of `search` holds a list with a null, where MongoDB's `isNull` differs
  (`packages/criteria-adapters/README.md:68-70`).

## 6. Plan

Done: the worker pool with its proofs; tables, connections and transactions of
IndexedDB; the channel of events; the shop; the releases; criteria and their adapters;
check digits. Next, the most important first:

1. The rules on token times of crypto-tools, with a run of their own (`expiresIn` is
   checked as a number and used as whole seconds); the registry of tables by name.
2. The liveness of the channel (every send settles when listeners end) and of the shop
   (every request that is left alone ends).
3. Proofs: what one wrong digit does to the weighted sums, for texts of any length.

## 7. Not modelled

- *crypto-tools*: the cryptography itself, formats and encodings, sequential functions of
  bytes; token times. In `WorkerPool`: times. A timer is set or not, and may fire once
  set; widths above 2^31-1 ms, which `setTimeout` takes for 1, are not told apart.
- *IndexedDB*: `onclose` without a cause (a disk error), a deletion of the database that
  fails, a database made by other code
  without the store of versions, and in `Connections` how a transaction ends; `deleteWhere`
  as one request of the browser; how a token writes keys as text; the checks of a query's
  arguments; `of`, the registry of tables; the single operations by id; the inspector's
  lists of databases and the storage of the browser.
- *Events*: logging and the record of sent events, which tests read.
- *Criteria*: field maps, converters, how a text spells a number or a date; inputs of a
  wrong shape, which are refused; `isNull` on a path
  into a list with MongoDB, and sorting by lists and objects there, where no test says
  what is meant.
- *Validation*: the validators that are patterns and tables of one value, and the
  converters; separators, case and blanks; 15-digit identity cards of zh-CN and
  containers of 10 characters; the century sign of FI; the white and black lists of
  IBAN and all but three countries of its table.
- *Shop*: the queries, HTTP, and value objects that are only carried along.
- *Release*: dist-tags, the manifest that is published, `npm whoami`, `--pack`, the limit
  `MAX_RECONCILE_ROUNDS`, and runs of the two branches at once.
- *Domain types by themselves, exceptions, logging, build scripts*: sequential, or pure
  input and output.
