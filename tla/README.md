# anydb-mcp: models, checks and proofs

TLA+ models of the anydb MCP server: one process that speaks MCP over stdio and
runs statements on PostgreSQL, MySQL, SQLite, MongoDB and Redis through a cache of
open connections. Paths below are relative to the repository root; `core/x.js`
stands for `src/core/x.js`.

The code is JavaScript on one event loop. Everything between two `await`s is
atomic, everything across one is not, and almost every defect this code can have
lives in that gap: state read before an `await` and trusted after it. The models
therefore take one action per continuation, and let any other continuation run in
between.

## 1. The system

| component | state it keeps | operations | talks to |
|---|---|---|---|
| connection cache, `core/connection-cache.js` | `entries` (a Map whose order is recency), `pending` creations, `inFlight` per entry, the sweep timer | acquire, release, evict, reap, closeAll | adapters (connect, isHealthy, close) |
| registry, `core/registry.js` | profiles, policy, the cache | run, describe, withConnection, close; resolveTarget, the gates, classifyError | cache, profiles, policy, safety, adapters |
| timeouts, `core/base-adapter.js`, `core/timeout-utils.js` | one timer per bounded promise | withTimeout, callbackWithTimeout | registry, adapters |
| adapters, `adapters/*.js` | driver handle, statements in flight, closed/faulted flags | connect, execute, isHealthy, abort, close | the drivers (external) |
| server, `src/index.js` | live request bridge, progress timers, shutdown flags | tool handlers, cancellation, progress, onclose/onerror, closeAndExit, process handlers | registry, the MCP SDK (external) |
| profiles, `core/profiles.js` | the loaded `db.json`, resolved credentials | load, reload, resolve, writeProfileStore | file system, keychain, exec |
| policy, `core/policy.js` | warnings already given | URI/host/path checks, destructive-statement check, evaluatePolicy | DNS |
| statement safety, `core/safety.js` | none (pure) | inspectSql/Redis/Mongo, stripSqlNoise, dangerous operators | registry |
| result limits, `core/result-limits.js` | none (pure) | normalizeForJson, clampResult, formatRows, buildEnvelope | registry, index |
| schema, `core/schema.js` | one adapter per dialect | describe with paging and a bounded fan-out | drivers |
| tools, `core/tools.js` | none (tables) | validateArgs | index |
| logging, `core/logging.js` | the file sink, rotation | log, rotate, sweepExpired, degrade to stderr | file system |
| paths, `core/paths.js`; library entry, `src/lib.js` | none | resolve paths; re-exports | |

How a call flows: `index.js` receives `tools/call`, opens a bridge that can cancel
it, and calls `registry.run()`; that resolves the target, runs the gates in a
fixed order, and enters `withConnection()`, which acquires an adapter from the
cache, runs the statement under a hard limit (`timeout` + 500 ms) and releases the
adapter. The limit or a cancellation evicts the cache entry and aborts the
adapter. A timer sweeps idle entries; the client's disappearance or a signal
closes the cache.

What is hard here: a caller that waits for a health check or for somebody else's
creation while the entry is evicted, replaced, swept or closed; a timeout or a
cancellation that arrives while the connection is still being opened; a late
answer after a timeout; a teardown that runs twice or in the wrong order; a
release that arrives after the thing it releases was replaced.

What each component owes:

- cache: an entry in use is never closed by housekeeping; counters stay exact;
  one creation per key; whatever is open is in the map or owned; the bound holds
  but for entries in use; every acquire() settles;
- registry: one answer per call; after a timeout nothing of the call goes on
  running; every acquire is released exactly once; no gate is skipped, none runs
  after a socket is opened;
- adapters: close() is idempotent and settles; abort() really stops the
  statement; a connection with unknown session state is never given back;
- server: one answer per request, none after cancellation, progress only while
  the call runs, the process ends once and after the connections are closed;
- profiles: a store that fails to load leaves the previous one; a write is all or
  nothing; policy, safety, limits: the decision functions say what their
  reference definitions say at the boundaries.

## 2. The modules

Seventeen modules model code. The `MC...` modules give their constants values, and the
eight `...Proofs` modules hold the theorems. How they depend on each other:

- `CallLifecycle` EXTENDS `ConnectionCache`, its abstract specification;
- `ProfileWriter` INSTANCEs `ConfigFile`, its abstract specification;
- `Requests` EXTENDS `Policy`, whose operators its gates apply;
- `MCAdapters` puts the five adapters and `Describe` side by side, `MCParts` the gates,
  the credentials, the config file, the log, the catalogue's rows and the results: a
  behaviour of either is a behaviour of one of its parts, with the others at rest, so
  that one run checks them all.

**`ConnectionCache`** is `core/connection-cache.js`, driven the way
`withConnection()` drives it. A *call* is one `acquire()` with everything up to
its `release()`. It opens at most one connection, so the adapter, and the entry that
wraps it, are named after the call whose `create()` opened them.

| model | code |
|---|---|
| `cached`, `before` | `entries`; `before[k]` is the set of keys inserted before `k`, the Map's order |
| `pending` | the `pending` map of creations in flight |
| `inFlight` | `entry.inFlight` |
| `status` | what became of each adapter: creating, failed, live, closing, closed |
| `want`, `held`, `pc` | the call: its key, its entry or creation slot, its place |
| `down` | `closeAll()` has run: the sweep is stopped |
| `suspect` | history only, for the properties |
| `Acquire`, `Healthy`, `Unhealthy`, `Rebuild`, `BeginCreate`, `CreateSucceeds`, `CreateFails` | the continuations of `acquire()` and `beginCreate()`, one per `await` |
| `Release`, `ReleaseDead`, `Evict` | `release()`; `evict()` followed by `release()` on a dead connection; `evict()` |
| `Reap`, `CloseAll`, `CloseDone` | `reap()`, `closeAll()`, the settling of `adapter.close()` |
| `AcquireUncached` ... `ReleaseUncached` | the branch for `ANYDB_CACHE=0` |
| `Victims`, `SweepInto` | `evictIfFull(keep)`, part of every action that runs it |

**`CallLifecycle`** EXTENDS `ConnectionCache` and models the whole of one
`tools/call` on the connection's side: `run()` with its gates (`Begin`, `Refuse`),
`withConnection()` (`Start`, `Finish`, `FinishDead`, `FinishDeadUncached`), the hard
limit (`GuardFires`) and the cancellation of `index.js` (`Cancel`). `Proceed` lets
the cache and the drivers go on by themselves. `stmt` is the statement as its
server sees it, `answer` what the client was told, `fired` and `discarded` record
whose limit has struck and which adapters were given up. `ConnectionCache` is its
abstract specification: every step is a step of the cache or leaves the cache
alone (`CallSpec => Spec`, checked in `call_budget` and proved).

**`Server`** is the process: what `index.js` does around a request (progress
interval, answer, cancellation), the policy verdict that `run()` awaits and
`describe()` does not, the sweep, and every way to the end: SIGINT, SIGTERM and
`beforeExit` (`installShutdownHandlers()`), the closed transport (`OnClose`), the
dead transport and the two fatal events (`closeAndExit()`), an empty event loop.
Each of its requests has a connection of its own, because how calls share
connections is what the two modules above are about.

The adapters have a module each, because what can go wrong in them differs.

**`PostgresAdapter`**: `execute()` with `runStatement()` and `releaseClean()`, one
action per awaited answer (`Execute`, `Connected`, `SetDone`, `StatementEnds`,
`RolledBack`, `ResetDone`, and `SetFails`, `CleanFails` where the server does not
oblige), and `PostgresSchemaAdapter.run()`, which borrows from the same pool
(`Describe`, `DescribeEnds`). `limit` and `residue` are what the server remembers of
a session, `idle` and `out` what the pool does; `tracked` is `this.inFlight`.
`Abandon` is `abort()` and `close()` in one breath, as `index.js` calls them; `Close`
and `AbortOnly` are what the cache and the registry call by themselves.

**`MySQLAdapter`**: the pool dials when a caller needs a connection (`Dial`, `DialUp`),
and the adapter remembers its sockets (`sockets`) because destroying them is the only
way to stop a statement. `up` and `free` are the pool's own view.

**`SQLiteAdapter`**: one handle, and a driver that calls back late or never.
`promise` is what the adapter promised for each statement, `driver` what the driver
still does about it, `inFlight` the rejectors; `OpenGuard`, `Timer` and `CloseTimer` are
the three timers, `ErrorEvent` the handle's `error` listener.

**`MongoAdapter`**: `mclient` is `this.client`, `topology` the client itself, `pinned`
says that `this.db` is set, and `read` is a call's read. `MongoConnect`,
`MongoConnected` and `MongoConnectFails` are `connect()`, with a client that `abort()` or
`close()` may take away before it is up. `MongoExecute` refuses what does not parse or was
never pinned and opens a cursor over the `Window` the request names, in which `find()`
skips before it limits and an aggregation's stages run in the order they are pushed;
`MongoNext` is one turn of `collect()`, `MongoCursorClosed` its `finally`.

**`RedisAdapter`**: one client, or a cluster (`cluster`, `rclient`), the node client a
cluster's `describe()` keeps as a promise (`node`, `masters`), and each call's `reply`. What
could be a whole collection is read item by item (`RedisItem`, `RedisScanned`: a scan may
repeat a member and skips none); the rest comes whole and is cut (`RedisReply`).

**`Describe`** is `describe()` of the five schema adapters of `core/schema.js` and a client
that walks the pages. A call is a sequence of *stages* (`PostgresStages` and its like), each
of which starts queries and waits for some: what it starts and does not wait for runs on
beside the next stage, which is what `Promise`s kept in variables do. `query` is the fate of
each, `Swallowed` names those with a `catch()` of their own, `heard` those somebody waits
for, and a rejection of any other is `unhandled`. `TakeItem` and `ItemDone` are `mapLimit()`.
`Paging`, `HasMore`, `PageOf`, `TableReport` and `Report` are `readPaging()`, `splitPage()`,
the grouping with its caps, and `pageReport()`. `visited` is the client's: what it was
told of so far.

**`CatalogueRows`** looks at the grouping alone: how rows find their table
(`TableKey`), how the rows of one index or key find each other (`PartId`), and the row too
many that says a table was cut (`GatherColumn`, `ApplyCap`).

**`Requests`** is one statement from `tools/call` to the connection, with the config file
(`config`), the store that loaded it (`store`) and the process's settings (`env`). A call
takes one step for every stretch between two awaits: `Begin` (the handler's
`resolveTarget()`, which reads the entry and asks for its credential), `Named` (the
credential is there, `run()` resolves the name again), `Targeted` (the gates that need no
answer, in the order of the code), `Checked` (the connection policy has its addresses; the
gates after it), `Open`, `Send`, `Finish`. `CredentialFails`, `DatabaseFails` and `Cancel`
end it otherwise; `EditConfig` and `Reload` change the entry under it; `VerdictUnheard` is
the verdict `describe()` does not await. `snapshot` is the entry a connection string was
built from, `entry` the one the policy is read from afterwards, `seen` those that were in
the store meanwhile.

**`Policy`** has the operators of `core/policy.js` the gates apply: `Pick` and
`EvaluatePolicy` (call over profile over environment over read-only), `PathAllowed`,
`StaticallyAllowed`, `NeedsLookup`, `ConnectionAllowed`.

**`Credentials`** follows one profile to the connection string a driver is given:
`Accepted` is `validateProfileEntry()`, `StripCredential` and `InjectCredentials` the two
functions on connection strings, `SourceFails` says when each source of a password refuses,
and `Resolve`, `SourceChanges`, `SourceAnswers` are `resolve()`, which waits for the source
while its secret may be rotated. A connection string is what splitting it yields: the
userinfo and the pairs of the query, in order.

**`ConfigFile`** is what `writeProfileStore()` and `exportProfile()` promise: the file is
replaced in one step by itself with one profile added. **`ProfileWriter`** is how they do it,
one action per system call, over inodes (`conf` and `temp` are the two names, `text` what an
inode holds, `flushed` which of it survives a power loss); any call may fail
(`StepFails`), the process may be killed (`Killed`) and the machine lose power
(`PowerLoss`). `visible` is the refinement mapping.

**`LogSink`** is the file sink of `core/logging.js`, one system call per action: `DropOldest`,
`Shift` and `MoveActive` are `rotate()`, `SweepSlot` is `sweepExpired()`, `AppendLine` the
write, `SinkFails` what `emit()` catches, `LoggerDies` a process that ends in between. A
file is the interval of records it holds.

**`ResultLimits`** is `clampResult()`, `buildEnvelope()` and `formatRows()` on a result whose
rows are their sizes. What an adapter marks its answer with is read as `adapterMarks()` does,
field by field: a flag, a reason that may be missing, and a count. `pageReport()` of
`core/schema.js` sets the flag and no reason. **`Normalize`** is the iterative walk of `normalizeForJson()`, one
frame per action, over any graph of objects.

What is abstracted:

- Time. A limit strikes at any moment; any idle entry may be due for the sweep.
- Health checks, connects and statements have a nondeterministic outcome. What a
  statement is does not matter to these modules.
- The burst of microtasks that follows a settled `create()` (drop the marker,
  install the entry, count every waiter) is one action: no other callback runs in
  between.
- A check that was sent before somebody else began to close the adapter may still be
  answered `true`: the drivers' `close()` waits for the statement in progress.
- A call that is aborted is "stopped": `abort()` took effect because the adapter
  still had its handle. Whether the server then really cancels the query is the
  driver's.
- SQLite's `close()` settles after five seconds whether or not the file is closed;
  to the cache `CloseDone` is a settled close either way, and it does not look at
  the difference. `SQLiteAdapter` does.
- What a statement returns, and how an error is worded, is left out of the SQL adapters;
  of a statement only what it leaves on its session, or on the handle, is kept. The
  MongoDB and Redis adapters keep which documents or members an answer holds, because they
  cut it themselves.
- Addresses are classes (public, private, spelled out or to be looked up), not octets. A
  statement is what the classifiers of `core/safety.js` say of it. A sqlite path is the
  roots it is textually under and whether its links lead out of them.
- A row of a result is its size, a name in the catalogue a sequence of words (the code joins
  names with a space), a secret one of two passwords or the empty one.
- `EditConfig` and `Reload` happen while some call can tell the difference, `MastersChange`
  before the node client is asked for: bounds of the models, each named where it stands.
- Node's event loop, the MCP SDK and the drivers are modelled as `index.js` and the
  adapters use them.

## 3. The runs

| run | module, instance | asks | shows |
|---|---|---|---|
| `cache_bound` | `ConnectionCache`; 3 calls, 3 keys, `MaxEntries = 1`; symmetric in both | 7 invariants, 2 action properties | the counters are exact, the bound gives way only to entries in use, one creation per key, nothing is lost but under a key that failed a check, housekeeping spares users, nothing comes back |
| `cache_orphan` | 3 calls, 1 key | `NoOrphan` | violated: finding 1 |
| `call_budget` | `CallLifecycle`; 2 calls, 1 key | types, `DiscardedStayOut`, `RunningIsCounted`, `AlwaysAnswered`, `AcquiresSettle`, refinement of `Spec` | a call is answered however long the driver hangs, every `acquire()` settles when drivers answer, a discarded connection is never handed out again |
| `call_starts_late` | 2 calls, 1 key | `NothingStartsLate` | violated: finding 2 |
| `server_ends` | `Server`; 2 requests, one a `describe()` the policy refuses, the other a query with progress; `MaxFrames = 1` | types, 2 action properties, 2 liveness properties | the first exit closes what it opened, frames stop, a signal (two, if a driver hangs) ends the process, and so does the client's leaving |
| `server_never_exits` | 1 request | `FatalEnds` | violated: finding 3 |
| `server_refused_opens` | 1 request | `RefusedOpensNothing` | violated: finding 4 |
| `adapters` | `MCAdapters`; 2 calls (MySQL 3, MongoDB 1), 2 sessions, 3 documents, 2 members, databases of 0, 1, 3 and 4 tables | types, 7 invariants, 1 action property, 3 liveness properties | sessions are handed on clean and given back once, a statement runs under its own timeout, sockets are known, an aborted MySQL pool starts nothing, the Postgres pool ends when it is closed, every SQLite promise settles, a capped read tells what is missing, pages are honest, a description settles |
| `schema_walk` | `Describe`; 4 dialects | `WalkSeesEachOnce` | violated: finding 6 |
| `schema_unhandled` | `Describe`; 4 dialects | `NothingUnhandled` | violated: finding 7 |
| `parts` | `MCParts`; see below | types, 6 invariants, refinement of `ConfigFile` | a statement that runs was permitted, a refusal opened nothing, a connection is what the profile says, a config file is old or new, the log has no gap, catalogue rows find their table, answers are marked as they are cut |
| `credentials_certificate` | `Credentials`; the profiles of `parts` | `CertificatesStay` | violated: finding 5 |

Why these sizes.

- Cache: with three calls on one key a call can hold the entry, a second can wait for its
  check and a third can replace it meanwhile: the races of `acquire()` are between at
  most three parties, the one whose check fails, the one that installs, the one that is
  still using. Three keys over a bound of one let `evictIfFull()` close two entries at once
  and find another one busy, so that insertion order and `keep` both matter.
- Lifecycle: two calls suffice, where one call's limit or cancellation strikes at the
  connection of another; what more calls on the same connection could add is the cache's
  matter, and `CallsImplementCache` carries the cache's theorems over for any number.
- Server: every end of the process races every other one and two operations in any phase.
  `MaxFrames` bounds the frames of the interval, whose number nothing else depends on.
- Adapters: two sessions let one call find what another left while a third state of the
  pool, the session never opened, is still there; three MySQL calls put one in the queue
  behind one that dials and one that runs. MongoDB reads three documents with limits, offsets
  and caps below, at and beyond them; its calls share nothing but the client, so one is
  enough. A Redis collection of two members is read with a cap below it and the default at
  it, and the scan may repeat.
- Schema: with `MaxTables = 3` the databases are empty, within a page, exactly a page, and
  one table more; `MaxColumns = 1` cuts most tables; two runners (`FanOut = 2`) share a page
  of three. `MaxOffset = 5` is past the end of every database.
- Requests: one call against three versions of the entry (read-only, writable with a
  credential to fetch, restricted to a root and a table) and three settings, because calls
  share only the store, whose entry any reload may replace between two of their steps; the
  theorems hold for any number of calls.
- Files: one exporter over three inodes, two names and `MaxProfiles = 1`; three inodes are
  the two named files and the one that was just replaced. One logger with three backups and
  lines that fit the file or overflow it by themselves; five records fill every slot and push
  one out.
- Results: up to three rows below and above each limit, byte limits that cut nothing, some
  and everything; graphs of three objects with shared nodes, cycles of one and two and
  chains deeper than `MaxNesting = 3`. The answers are unmarked, marked with a reason and marked
  without, so that a cut made here meets each.

The invariants the theorems rest on have been checked on these instances before they were
proved. Every property of a passing run has been seen to fail on a plausible bug:
PROJECT.json lists the mutated definition for each, and the mutants stand beside the
definitions they replace.

Deadlock is checked wherever every way to stop is known: `Finished`, `AllServed` and
`Ended` are the only states where those models may stop. The runs of `MCAdapters`, `MCParts`,
`Describe` and `Credentials` allow it, because a driver that never answers is part of the
model, nothing has to close an adapter, and a computation that is over does nothing more.

## 4. Fairness

- `ConnectionCache`, `Fairness`: `connect()`, `isHealthy()`, `close()` and a
  statement settle, because each runs under a timer of its own in the adapters or
  the registry; and the event loop runs each continuation that is ready. All weak:
  an outcome stays possible until it happens. Nothing is assumed of `evict()`, the
  sweep or `closeAll()`.
- `CallLifecycle`, `TimersRun`: only that a timer nobody cleared fires. The driver may
  hang for ever in any state, which is what the hard limit is for (`AlwaysAnswered`). A
  refusal by the gates needs no fairness: the property begins where the limit does.
  `AcquiresSettle` has the cache's `Fairness` as its hypothesis, since it is about drivers
  that do answer.
- `Server`, `LoopRuns`: the loop runs what is ready, the sweep timer fires, and node
  ends a process that has nothing left to do. `DriversAnswer`: connects and
  statements settle, which the registry's limit and the adapters' timers see to.
  That a driver's `close()` settles (`ClosesSettle`) is *not* assumed, since the
  server puts no timer on it: it is a hypothesis of the properties that need it.
  `EndsWhenAsked` says what holds with it, one signal or a fatal event in an injected
  process, and what holds without: two different signals end the process.
- `PostgresAdapter`, `PgAnswers`: the server answers what it was sent or the socket
  fails. A statement ends because its `statement_timeout` is set before it is sent,
  and the pool ends once every session is back.
- `SQLiteAdapter`, `LiteTimers`: only that the three timers fire. Nothing is assumed
  of the driver, which is what they are for.
- `Describe`, `CatalogueAnswers`: every catalogue query settles, since each has a statement
  timeout or a limit of its own, and the event loop runs what is ready. Which query settles
  first is open.
- The other modules have no liveness property.

## 5. What is proved

All theorems hold for every value of the constants that satisfies the modules'
assumptions, which TLC evaluates in the runs: `CacheAssumption` (`None` is no key and no call,
the bound is positive, `Calls` is finite), `ServerAssumption` (the kinds of requests are sets
of requests), `CataloguesAssumption` and `MongoRequestsAssumption` (a catalogue is a sequence of
column counts, a request has the fields and the signs `execute()` tests), `ProfilesAssumption`
(a connection string is what `splitAuthority()` and the splits at `&` and `=` yield, and has
neither name nor password where it has no userinfo), `PayloadsAssumption` (a result is a list
of sizes, a single value one of them), `NormalizeAssumption` (the fields of an object are
objects of the graph), `CatalogueAssumption`, and others which say that sizes are numbers,
that names are finitely many and that "nothing" is not one of the things.
`CatalogueAssumption` says of the rows a server sends what the queries of `schema.js` make
true: each names a relation that was asked for (the `WHERE` clauses list them), only
PostgreSQL is asked for more than one schema, and a server gives no two constraints, or
indexes, or triggers, of a relation one name. Two theorems have a hypothesis besides, named
below: `OneSoundExporter` and `SoleLogger`.

**`ConnectionCacheProofs`.** What the map holds is open (`CachedIsLive`) is not
inductive by itself: an action closes adapters by the call that holds them, and the
map names them by key. `StructInv` adds what ties the two together:

- `CallsHoldEntries`: by its phase, a call holds nothing, a creation for its own key,
  or an opened adapter of its own key; one on its way to a second creation has
  seen a check fail;
- `CreationsAreMarked`: creations and markers correspond;
- `WarmCreationIsSuspect`: a creation beside an installed entry happens only under
  a key that failed a check; with it an installation overwrites, and so loses, an
  open adapter only there (`OrphansNeedASuspect`);
- `OffIsEmpty` and `UncachedOwned` for the cache switched off.

`StructInv` is proved inductive action by action, after lemmas on `Remove`,
`Dispose`, `Victims` and the sweep (`SweepFacts`: what leaves the map is idle, and
only what leaves is closed). `TypeCorrect`, `CachedIsLiveCorrect`,
`SingleFlightCorrect`, `OrphansCorrect` and `UncachedCorrect` follow from it.
`InFlightCorrect` is a second induction relative to `StructInv`: its steps compare
the cardinality of `Users(a)` before and after a call enters or leaves it.
`NeverReinstalledCorrect` and `HousekeepingCorrect` are action properties; the second
needs `InFlightExact`, since the bound and the sweep know users by the counter only.
`OverBoundCorrect` counts: `BoundInv` adds that the insertion order is a strict order of
the keys in the map, and `OldestGoFirst` shows that if an idle entry other than `keep`
survives `evictIfFull(keep)`, so many older idle ones went that the map is within its
bound. An `acquire()` only makes entries busy, and every other way an entry leaves the map
only shrinks what is counted.

**`CallLifecycleProofs`.** `CallsImplementCache` is `CallSpec => Spec`: every step of a
call maps to a step of the cache or a stutter. The cache's theorems therefore hold
of calls with limits and cancellations. `CallTypeCorrect`, `DiscardedStayOutCorrect`
(with: a discarded adapter has been opened, and nothing that left the map comes
back) and `RunningIsCountedCorrect` (from the exact counters) rest on it.

**`ServerProofs`.** `ServerInv` joins the types with `TimersWait` (an interval belongs to
a request that still waits) and `OpenedOnce` (a request that has not opened its
connection has none, so opening never takes one back that a `closeAll()`
awaits). It gives `ServerTypeCorrect` and `FramesStopCorrect`. `FirstExitIsCleanCorrect` needs
`ShutdownWasAsked` too: only `beforeExit` or a signal begins a shutdown, and a
signal that has come is not armed again, so nothing replaces what the first one awaits.

**`AdapterProofs`.** PostgreSQL first: `SessionsAreClean` speaks of a session at the moment it
is borrowed, and is not inductive: the session may have been left in any state long
before. `PgInv` adds where every session is in the meantime: nothing that waits in
an open pool carries anything (`RestingAreClean`), a statement starts on a clean
session and the reset finds no transaction (`ResidueIsKnown`), the pool lends a
session once and does not keep what it lent (`LoansAreExact`, `IdleIsNotLent`). The
one exception is why the invariant names `shared` and `kind`: an aborted adapter gives
its session back as it is, which is harmless because an adapter that can be aborted
with its pool open is not cached and its one `execute()` has no successor
(`AloneIsAlone`). From `PgInv` follow `PgTypeCorrect`, `SessionsAreCleanCorrect`,
`TimeoutIsOwnCorrect` and `LoansAreExactCorrect`.

Then the other four adapters, and the five with the schema reports as `adapters` composes
them.

- MySQL: `SocketsAreKnownCorrect` (for an open pool, what the adapter knows is what is
  open) and `NothingStartsAbortedCorrect` from `MyInv`, which adds that no socket is lent
  twice or lent and free at once (`SocketsAreLentOnce`), and that an aborted open pool has no
  open socket (`AbortedIsEmpty`).
- SQLite: `LiteTypeCorrect` and `ListsAndFaultsCorrect`, for any number of statements and
  whatever the driver does with them. `LiteInv` adds the latch (`LatchHolds`): a handle
  the driver reported finished is faulted for as long as the adapter has one, and `close()`
  takes both back together.
- MongoDB: `MongoReadsArePagesCorrect`. `ReadInv` says of a cursor under way that
  its rows are the first ones after its offset (`Position`), and of a read that ended
  without being refused that it stopped at its end or at its cap (`Whole`). `WindowIsPage` is
  the arithmetic: what the query is limited to, against what the caller asked for.
- Redis: `RedisAnswersTell`. `ReadsInv` says of a reply on its way that only a paged
  command pages and that it never passes its cap; an answer that is done then `Tells`.
- Together: a step of `MCSpec` is a step of one part and leaves the others alone
  (`StepOfOnePart`), so the conjunction `PartsInv` of the invariants above with `PgInv` and
  `PagesInv` is inductive. `AdaptersTypeCorrect`, `ReadsTellCorrect` and `AdaptersAreCorrect`
  follow.

**`DescribeProofs`.** `PagesAreHonestCorrect`: for every catalogue, limit and cap, a walk
describes each object once, in order, and all of them. `PagesInv` says where the walk is:
what it has seen are the first objects of the catalogue, the next page begins after the
last of them, and while there is more every page was full (`WalkInv`); and what the last
answer said is true of it (`AnswerInv`). That a table is cut only when it is too wide rests
on the shared row budget, hence on sums of column counts. The model adds with a recursive
function, and since the provers cannot instantiate an induction theorem, `SumExists` and
`PageWithinCatalogue` argue by the least index at which the claim would fail (`LeastOf`): a
page, which is an interval of the catalogue, has no more columns than the whole.

**`RequestsProofs`.** `RunsOnlyWhatIsPermittedCorrect` and `RefusalsOpenedNothingCorrect`, for
any number of calls, any entries that edits and reloads put in the store while they
are under way, and any settings. `StatementGatesPass` and `LateGatesPass` turn "no gate
refused" into what each gate demands (the first refusal decides, so the least refusing index
exists). `RequestInv` then says, by the phase of a call, what has been established of it
(`PassesEarly`, the entry judged by is one that was in force, a call that is open has been
permitted) and that a call which has opened something can no longer end as a refusal.

**`FileProofs`.** `OneExporterIsAtomic` is `WriterSpec => ExportIsAtomic` under
`OneSoundExporter`: one exporter, and an `fsync` that works. Neither can be left out: with
two exporters, or without `fsync`, TLC finds a file that is neither old nor new.
`WriterInv` says that the file named `db.json` is flushed and is not the one being written,
so neither a failing call nor a power loss changes what is read, and that what the exporter
writes is still the visible document with one profile added (`BuildsOn`). Every step is then
one `Export` or leaves `visible` alone. `ReaderSeesWholeCorrect` follows: an `Export` leaves a
whole document.
`WriterTypeCorrect` needs neither; its one hard step is `ExportedType`, that a document with a
name added still lists every name once.
`OneLoggerLeavesNoGap` is of the log, under `SoleLogger`: two processes that rotate at once do
lose a file between them. The property is not inductive, because a rotation half done has a
free slot and says nothing of where it will end. The invariant says what holds there: each
file holds records that were appended (`FilesHold`), a newer file newer ones (`NewerFirst`),
every record from the oldest file on that is not past its retention is in some file
(`NothingLost`), and the slot the rotation is about to fill is free (`LoopInv`). `LogTypeCorrect` needs no such hypothesis.

**`PartsProofs`**: the parts that answer for themselves, and all of them as `parts` composes
them. What these parts compute, they compute by recursive functions of the length of their
input, so their theorems need induction over it. An induction theorem with an operator
parameter is out of the provers' reach, but one about a set is not: `UpTo` (a set that holds
0, and with `i - 1` also `i`, holds `0 .. n`) is proved from the well-foundedness of the
naturals. `StepsExist` uses it to show that a function which takes `n` steps exists, without
which the `CHOOSE` behind a recursive definition says nothing.

- Credentials: `ConnectsAsConfiguredCorrect`, for any connection string. `PlainFacts` is what
  stripping a query does (everything that stays is no secret, everything that is none stays, in
  its order), `FirstSecret` where the password came from that was taken out, `Injected` what
  putting one back makes of the string; `AskingInv` says of a source that is waited for that
  what it holds now is among what it has held since it was asked.
- Result limits: `ResultsAreHonestCorrect`. `ClampInv` is the loop of `clampResult()`: the
  reason is `maxBytes` once fewer rows are kept than `maxRows` lets pass (`Passing`); what
  is not kept is past a limit by itself (`LeavesOut`), because sizes only add up
  (`RowsAdd`); `TextInv` is that of `formatRows()`.
- JSON walk: `OutputUnfoldsTheGraphCorrect`, for any graph and depth. `NormalInv` says of the
  stack that on top of an exit marker lie only places within its object and that what waits
  lies in the order of the text (`StackInv`); that what waits comes after all that is written,
  and what is written above it has its exit marker on the stack (`FramesInv`); that the path
  is the objects with an exit marker, and what threw when it was read (`PathInv`); that each
  entry written is marked as it should be (`OutInv`); and that a field of an open object is
  written or waits (`FieldsInv`), which becomes the property when the stack is empty.
- Catalogue rows: `RowsFindTheirTableCorrect`. `RowsInv` says, after so many rows, that each
  group holds the first columns of its relation among them up to one more than the cap
  (`GroupsHold`), and that the parts are what the rows read so far make of them, one for
  each identity (`PartsHold`). It is there that two names which run together when they are
  joined break it, hence `NamesStayApart` in the property.
- Together: `PartsAreParts` (a behaviour of the parts is one of each part), and from it and
  the theorems of `RequestsProofs` and `FileProofs`, `AnswersAreHonestCorrect`,
  `PartsTypeCorrect` and `PartsAreCorrect`.

Only model-checked: every liveness property (`AcquiresSettle`, `AlwaysAnswered`,
`EndsWhenAsked`, `ClientGoneEnds`, `CloseEnds`, `LiteSettles`, `DescribeSettles`), since
liveness under fairness is out of the proof system's reach. Every invariant that a passing run
checks is a theorem.

## 6. What the runs say against the code

Each is the counterexample of a run marked `violation`.

1. `core/connection-cache.js:79`, `NoOrphan`. After a failed health check
   `acquire()` deletes *the key*, and disposes of *the entry it checked*. If another
   caller replaced the entry during the check, the replacement leaves the map open
   and nobody ever closes it. The mirror image is at line 93: the rebuild installs
   over what another caller put there during the awaited dispose.
   `__tests__/test_connection_cache.test.js:287` promises "every adapter is either
   cached or closed, never orphaned". `OrphansNeedASuspect` shows, and the proof
   confirms, that this race is the only way to lose an adapter.
2. `core/registry.js:1022`, `NothingStartsLate`. A call that was answered with a timeout
   or a cancellation while its connection was being opened starts its statement
   when the connection arrives. `src/index.js:837` tells the client it was not left
   running.
3. `src/index.js:1377`, `FatalEnds`. `closeAndExit()` exits through `deps.process`, which
   is not given on the command line: after a fatal event the process closes its
   connections and stays. The same path is right when the process is injected
   (`EndsWhenAsked`), which is how the tests run it.
4. `core/registry.js:820`, `RefusedOpensNothing`. `describe()` does not await the policy:
   the socket is opened all the same, and the refusal becomes an unhandled
   rejection, a fatal event.
5. `core/profiles.js:206`, `CertificatesStay`. `stripCredentialFromUri()` takes `sslcert`,
   `sslkey` and `sslpassword` for credentials and keeps the first value it meets, which
   `resolve()` then injects as the login password: a profile that authenticates with a
   client certificate connects without it, with the certificate's path for a password.
   The function says it returns "the secret removed, so a caller can put it back".
6. `core/schema.js:1351`, `WalkSeesEachOnce`. MongoDB's `describe()` cuts the collections at
   `limit` and never applies `offset`: every page is the first, says there are more, and
   names a `nextOffset` that leads back to itself. Line 76 says "`offset` skips objects".
7. `core/schema.js:267`, `NothingUnhandled`. PostgreSQL's `describeFull()` is started and the
   column query awaited before anybody waits for it; if the constraints fail first, the
   rejection has no handler, which `src/index.js` takes for a fatal event.

More that a reader of the models meets and that no run is spent on. Where a property is
named, its module states it; TLC refutes it on an instance of the size above, or with a second
exporter where two are spoken of and a third name where `MAX_PROFILES` is.

- The hard limit evicts before it aborts (`core/registry.js:1043`); `evict()` runs `close()`
  at once, which takes away the handle `abort()` works on, so nothing stops the statement
  (`GuardStopsStatement`; `docs/timeout-configuration.md:126` says otherwise).
- An abort while `SET statement_timeout` is awaited has no query to cancel, and the
  statement is sent afterwards (`adapters/postgres.js:166`, `NothingStartsAborted`); MySQL's
  listener has the check that is missing there.
- `db_schema` leaves its `statement_timeout` on a pooled client (`core/schema.js:226`,
  `NoTimeoutInherited`); statements set their own (`TimeoutIsOwn`), a health check runs
  under what it finds.
- A reload while the credential is awaited pairs the connection string of the old entry with
  the policy of the new one (`ConnectionFitsPolicy`, against `docs/connections.md:232`), and
  lets a cancellation look for the wrong connection, since the handler and `run()` each
  resolve the name (`CancelFindsConnection`).
- A column limit shared by the tables of a page can cut a table without saying so
  (`CutIsSaid`); the failures of `mysqlWideCatalogue()` and the limits of `describeFull()`'s
  own queries are silent, and `handleSchema` passes no limit or offset.
- `tableKey()` joins schema and table with a space, though its comment speaks of a NUL: the
  schema `a` with the table `b c` and the schema `a b` with the table `c` share their columns
  (`NamesStayApart` excludes it from `RowsFindTheirTable`).
- A description that `pageReport()` cut is truncated and its `limitReason` is null
  (`core/schema.js:107`, `core/result-limits.js:403`), though `README.md:733`
  says "`maxRows` or `maxBytes` when truncated" and `core/tools.js:174` the same of `db_schema`
  too. A test of `test_result_limits.test.js` has it as the code does ("the flag and the reason
  are independent facts"), and so does the model.
- Two exporters share `db.json.tmp` (`ReaderSeesWhole`), and an export past `MAX_PROFILES`
  may leave a file that does not load (`ExportedLoads`). `docs/connections.md:117` says an
  empty file is not an error; `load()` throws on one.
- What a password file or command gives is taken even when it is empty, and the connection is
  made without a password; the environment and a provider refuse it. `username` without a
  password is ignored; a userinfo password wins over the query's, which is dropped; a
  malformed escape in either throws a `URIError`.
- An aggregation's `$limit` is pushed before its `$skip`, where `find()` skips first
  (`adapters/mongodb.js:349`); a Redis scan may repeat members; a rejected node client is
  kept (`adapters/redis.js:394`).
- An object whose fields throw stays on the path of `normalizeForJson()`, so its second
  appearance is called circular.
- `acquire()` hands out an entry that was evicted while its check was awaited (`Evict`, then
  `Healthy`); a creation in flight when `closeAll()` runs installs its adapter afterwards
  (`CloseAll`, then `CreateSucceeds`); a SQLite file that opens after the open guard gave up
  stays open for good (`OpenGuard`, then `OpenSucceeds`).

## 7. Not modelled

- The statement classifiers of `core/safety.js` and the parsing of addresses in
  `core/policy.js`: text processing, of which the models take the verdict as an input. A
  model of them over abstract tokens would have to invent the tokens.
- `validateArgs()` and the tables of `core/tools.js`: one gate of `Requests` with a
  nondeterministic verdict.
- The catalogue queries of `core/schema.js` and of the drivers: text whose meaning is the
  database server's. What `describe()` reports of a MongoDB collection's fields and of a
  Redis key is left out; which collections and in what order is not.
- `core/paths.js` and `lib.js`: no state that several actors share.
- A profile's `options`, merged under the call's before the policy is evaluated
  (`core/registry.js:680`): a `readOnly` among them counts before the entry's own. The profiles
  of `Requests` have none.
- Beyond the requests that run or describe: `db_explain` and `db_health` in `index.js`, which
  resolve a target more than once like `Requests` does, and the fields of their answers.
- Log levels, redaction and the layout of log lines; the wording of errors; the text of
  rendered rows beyond its size.
- The hazards PROJECT.json lists without a property say there why: the models have the
  behaviour, and nothing the repository says forbids it, or the process ends after it.
- Liveness and `ENABLED` are model-checked and not proved.

## 8. Plan

1. *Done*: `ConnectionCache` and its theorems; `CallLifecycle`, which implements it;
   `Server`.
2. *Done*: the adapters of all five databases: what `connect()`, `execute()`, `abort()` and
   `close()` do to a driver handle and the statements on it; theorems for each of them, and
   for the five together.
3. *Done*: profiles and gates: the store with load, reload and the write that renames, with
   its abstract specification; `run()`'s gates in their order, with what changes under an
   awaited one; the way of a credential; theorems for the gates, the writer and the
   credentials.
4. *Done*: paging, grouping and the fan-out of `describe()`, the precedence of the policy, the
   clamping of results, the JSON walk, the log's rotation; theorems for each of the last
   four and for the walk over the pages.
5. *Left*, by what it is worth: `handleExplain` and `handleHealth` as requests of their own; the statement classifiers
   over abstract tokens.
