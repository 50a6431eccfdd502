# Specifications of common-util-go

TLA+ models of `common-util-go`, a set of Go packages that wrap PostgreSQL (gorm), Redis
(go-redis), Kafka (kafka-go), Sentry, MinIO, resty, MongoDB and logrus behind interfaces, and a
schema migrator on top of the SQL one. The repository has no tests, so what the models check is
what the code has to get right on its own: commands that belong together and are sent one after
the other, goroutines that share a slice or a channel, handles that share a `*gorm.DB`, several
migrators on one database, one monitor for all the requests of a server, one HTTP client under all
its handles.

Source paths below are relative to `src/`.

## Inventory

| Component | State it keeps | Operations | Hard behaviour |
|---|---|---|---|
| **migrations** `tools/migrations/postgres/migration.go`, `template.go` | the `migrations` table; the schema; `m.Scripts`, a map from version to script that `Up` deletes from | `Init`, `Up`, `Down(target)`, `Create(name)` | two processes migrating at once, a crash between a script and its row, COMMIT errors that are dropped, a list of versions read before the loop that uses it |
| **SQL client** `persistent/sql/implementations/gorm/postgres/postgres.go` | a handle: `*gorm.DB` (connection, transaction, statement, error), monitor settings | builders (`Where`, `Order`, `Select`, `Sort`, ...), executing methods, `Begin`/`Commit`/`Rollback`, `Monitor`, table and column methods | handles share a `*gorm.DB` with its statement and error |
| **cache** `cache/implementations/redis/goredis/redis.go` | keys and their expiry, on the server; monitor settings | `Get`..., `Set`, `SetNX`, `HSet`, `HMSet`, `MSet`, `Remove`, `RemoveByPattern`, `Flush*` | write and EXPIRE are two commands; goroutines, a bounded channel, an unlocked slice |
| **queue** `queue/implementations/kafkago/kafka.go` | the group's committed offset and assignment, on the brokers; the loop's position | `WriteMessages`, `ReadMessages(handler, retry)`, `Monitor` | rebalances, crashes, failing fetches and commits |
| **monitor** `monitor/implementations/sentry/sentrygo/sentry.go` | `s.hub`, shared by all requests; spans in the requests' contexts | `Capture*`, `SetScope`, `SetNewTransaction` (echo), `GRPCServerMonitor`, `NewTransactionFromContext`, `Recover` | concurrent requests, panics, defer order |
| **shared** `shared/shared/shared.go` | none (an OTP payload stored by callers) | status conversions HTTP/gRPC, OTP predicates | the conversions composed along a chain of services |
| **uploader** `uploader/implementations/minio/miniogo/minio.go` | the bucket and objects, on the server; options and monitor of a handle | `Put`, `Get`, `Remove`, `Set*Option`, `Monitor` | check-then-create of the bucket; `captureError` calls itself until the process dies |
| **HTTP client** `http/implementations/resty/resty.go` | the resty client handles share, with its user; monitor settings of a handle | the HTTP methods, `SetBasicAuth`, `Monitor` | a change of the shared client during requests; requests that have no response |
| **document store** `persistent/nosql/mongo/implementations/gomongo/` | handles with database, collection and monitor; cursors | CRUD, `Find`/`Aggregate` with a callback, `SetCollection`, `Monitor`, `DB()` | cursor lifetime under a callback that fails or panics, inserts written and reported as failed, setters that drop the monitor |
| **logger** `logger/implementations/logrus/logrus.go` | none that changes | log methods | none |

How they interact: the migrator calls the SQL client (`HasTable`, `Begin`, `Create`, `Delete`,
`Commit`, `Rollback`) and runs scripts with its transaction. Every client takes a monitor with
`Monitor(ctx, monitor, requestId, captureError)`, opens a span around each call with
`defer x.doMonitor(...)()`, as a child of the span in the request's context or as a transaction of
its own, and captures its errors. The middlewares put those spans into the contexts. Everything
else is calls to the external services.

What makes each one correct: a recorded version has its table, exactly once, in order, and a nil
from `Up` or `Down` is true (migrations); a query has the clauses of its own handle, and fails for
its own errors (SQL); no key lives for ever by accident, a failed deletion is reported, a call
returns (cache); no message is passed over, and none is lost through a commit (queue); spans nest and
end, events go to the right hub and tell of failures (monitor); an error stays an error (shared); an
answer means what it says, and nothing goes to a bucket that is not there (uploader); a request has
its handle's credentials, and its failure is captured (HTTP client); the close of every cursor is tried,
and ids are of documents that were inserted (document store). The hazards, each at
its line and with the properties that watch it, are in `PROJECT.json`; what a property excepts of its
hazard is there in a note, and below (Runs).

## Modules

### `Migrator` and `SchemaHistory`

`Migrator` has a process per program that holds a migrator. `Init`, `Up` and `Down` are cut at
their database calls, so another process may commit between any two: `CallUp` and `CallDown` do
everything up to the query of the recorded versions, `QueryUp` and `QueryDown` that query and the
computation of the list to work on, `RunUpScript` and `RunDownScript` begin the transaction and run
a version's script, `InsertRow` and `DeleteRows` write the `migrations` table, `Commit` commits and
goes back to the loop. Each database call may fail (`StepFails`, `QueryFails`, `TableExists`), which
is `Return`: the transaction is rolled back and the error returned. `Restart` is the death of a
process at any point; PostgreSQL rolls its transaction back.

The state is the database (`migrations`, `rows`, `tables`), `scripts[p]` (the keys of `m.Scripts`),
what the running method remembers (`op`, `target`, `todo`, `pc`) and its open transaction `tx[p]`.
Other processes see a transaction's effects at its commit. PostgreSQL's part is external:
`NameLocked` (CREATE and DROP TABLE hold the table's name until the transaction ends) and
`RowsLocked` (a DELETE holds its rows). The scripts are those `template.go` generates, one table per
version. `db.Delete(&migration, cond)` passes an empty `cond` slice as one condition; it is taken
that gorm ignores it, so that the rows of the version are deleted.

`SchemaHistory` is what the migrators promise together: a set of applied versions that changes by
one version at a time and, with `Ordered`, has no gaps. `Migrator` implements it with
`applied <- {v : rows[v] > 0}`: the unordered one for any number of processes and failing commits,
the ordered one for one process whose commits do not fail.

### `KafkaQueue`

`ReadMessages` opens a reader that joins the group and loops: `Fetch`/`FetchFails`, `Handle` (with or
without error), `Commit`. A failing fetch falls through to the handler with a zero message
(`message = None`), as the code does. `WriteMessages` and `Publish` are the producer, which is a
reader, too, joins the group and is never closed. The group is external: each change of `members`
is a `Rebalance` that gives the partition to some member, which starts at the committed offset, or
at the end of the log if there is none (`LastOffset`). `Append` is the topic's other producers.
`Crash` is the end of a process and of its session. `late` is a ghost: the messages that had not been
handled when a session started behind them, at the end of the log, because nothing was committed.

### `RedisCache` and `RedisRemove`

`RedisCache` has clients (processes) and keys with a lifetime: `absent`, `plain` (written, its
EXPIRE still to come), `forsaken` (the EXPIRE failed and HSet's or HMSet's caller was told, or its sender
died), `stranded` (MSet's EXPIRE and its DEL have failed, the second unseen; MSet has the name or is sent
it, and never returns to tell anybody), `expiring`, `forever` (asked for with a zero duration).
`Set` and `SetNX` are one
command; `HWrite` and `HExpire`/`HExpireFails` are the two of `HSet` and `HMSet`; `MSet` writes and
starts a goroutine per key, whose steps are `WorkerExpire`, `WorkerExpireFails`, `WorkerDel`,
`WorkerSendsError` and `WorkerSendsNil`; `Receive` is the `range` over the channel. `HasRoom` is the
channel's buffer. go-redis is handed the pairs of `MSet` as one slice argument; the command is
modelled as one that may be carried out, like the others.

`RedisRemove` is one call of `RemoveByPattern`: `Scan`, `Spawn`, `Wait` for the caller, and for each
goroutine `Del` or `DelFails`, then, because nothing guards the slice, `ReadFailed` and `WriteFailed` as
two steps, then `Done`. `FirstPage` is what SCAN 0 can return, as the cursor is always 0.

### `SentryMonitor`

The requests a server has in hand are slots, each of an echo or a gRPC request, that share `hub`
(`s.hub`). A request enters its middleware (`EchoEnters`, `EchoSkips`, `GrpcEnters`) and leaves it by
return or panic (`EchoLeaves`, `GrpcReturns`, `GrpcPanics`), puts the span into its context
(`CreateContext`), sets a scope, captures, defers `Recover`, and makes calls (`CallStarts`,
`CallReturns`, `CallPanics`): of an adapter, whose `doMonitor` defers the finish before the operation, or
of a gRPC server through `GRPCClientMonitor`, which defers it after the invoker has returned. Hubs are
known by the request whose hub they were cloned from; a scope is on one clone only. `Recover` captures
an event when there was no panic, too, as the code does.

### `SqlHandles`

Every goroutine starts from the handle of `NewPostgresConnection` and goes on with the one the last
method returned. `db[o]` is a `*gorm.DB`: what `getInstance` will do with it (`clone`), its statement,
error and pool. Builders (`Build`, `Select`, `Sort`), executing methods (`Execute`, `Count`, `FindByQuery`, and
`WithName` for `CreateTableWithName` and `DropTableWithName`, whose `Table(name)` stays on a chained handle),
transactions (`Begin`, `Commit`, which is `Rollback`, too) and `Monitor` follow the code method by
method; gorm's own part (`Chosen`, `Instance`, `With`, `Failed`) is external. `asked` in a handle is a ghost:
what was asked for on the way to it. `Derived` is the `&SQL{...}` each method writes out by hand: about thirty
literals of `postgres.go`, compared with each other and found to copy the same fields; the mutant
`Derived_NotMonitored` is one that does not. A handle is used by the goroutine that made it, which goes on
with the last one only: two handles branched off one chained `*gorm.DB` are outside the model. Statements are sets of kinds of clauses, which is what the
properties tell apart.

### `StatusRelay`

The two switches as operators, and a chain of services that convert an answer to a gRPC error and
back to an HTTP status, by either of the two ways back.

### `MinioUploader` and `FileStore`

Goroutines go through `Put`, `Get` and `Remove` one request to MinIO at a time: `Call` opens the span of
`bucketCheck`, `BucketExists` and `MakeBucket` are its two requests, `PutOrRemoveObject`, `GetObject` and
`Copy` the operation, `Return` the deferred finish. Each request fails before or after it has taken
effect. `captureError` (line 255) calls itself with the same arguments: entering it, which every
error but that of `io.Copy` does, is the end of the process (`Overflows`), and takes all goroutines with
it. The setters of a handle are actions of their own, since two of them set `isMonitor` without a
monitor (`CallPanics`).

`FileStore` is what callers are promised: a call that is answered has taken effect once, between its
start and its answer; only `Get` refuses; a call may be lost, and then the process dies.
`MinioUploader` implements it with `files <- objects` and `request` as what the caller sees of its call.

### `MongoStore`

`Query` opens the span, a command is one step of the server (`Insert`, `InsertRefused`, `Update`,
`FindOneAndUpdate`, `Delete`, `FindOneAndDelete`, `Read`, `CallBack`, or `Fails`, whose answer is lost), and `Return`
runs the defers. The callback of `Find` and `Aggregate` returns, fails or panics with the cursor open; the
deferred `Close(ctx)` then closes it or fails, which is only logged and leaves the cursor (`left`) to the
server's timeout. The context is the call's, so a callback that failed on it is often followed by such a
failure. What `NothingLeftOpen` says of cursors is that on every way out the close has been tried.
`Insert` and `InsertMany` cast the ids they get back to ObjectIDs after the documents are in
(`CastAnswer`). `SetCollection` returns a handle without the monitor. `Drop` and `CreateCollection` are those of
`DB()`.

### `Stores`

The two stores in one process: a goroutine uses one at a time, but the callback of a `Find` may upload.
An upload's panic passes through `Find` and its defers (`UploadPanics`), and the end of the process that
the uploader's `captureError` is takes the queries with it (`Overflows`).

### `RestyClient`

`SetBasicAuth` writes the user of the one client all handles share; a request is `Request` (span),
`ReadUsername` and `ReadPassword` (resty reads the client's user twice, without a lock), `Answered`, and
`FinishMonitor`, which is deferred. A request that cannot be built has no response, and `finishMonitor`
panics on it (`BuildPanics`). `overtaken`, `own`, `monitored` and `captures` are the history of a handle, in
terms of which the properties are stated.

### Other modules

`MCSentryMonitor`, `MCSqlHandles` and `MCRestyClient` add symmetry for TLC; every other cfg instantiates
its module directly. The eight modules `...Proofs` hold the proofs
(`HttpProofs` those of `RestyClient` and `StatusRelay`, `StoresProofs` those of `MinioUploader` and `MongoStore`, too). Definitions named
`X_Something` are mutants: `X` as a plausible bug would have it. No specification uses them; putting
one in the place of `X` must break a property.

## Runs

| Run | Bounds | Shows |
|---|---|---|
| `MigratorSingle.cfg` | 1 process, 3 versions, commits work | `SchemaIsRecorded`, `UpIsComplete`, `DownIsComplete`, and that the history has no gaps |
| `MigratorConcurrent.cfg` | 2 processes, 2 versions, commits may fail | `RecordedHasTable`, `AtMostOneRow`, `ImplementsHistory`; every call returns |
| `KafkaConsume.cfg` | 2 consumers, 1 writer, 2 messages | `SessionHasNoGap`, `NothingIsLost`, `HandledEventually` |
| `RedisCache.cfg` | 2 clients, 2 keys | `NoForgottenKey`, `CollectsExactly`; the goroutines of `MSet` end |
| `RedisMSetReturns.cfg` | 1 client, 1 key | **violated**: `MSetReturns` |
| `RedisRemove.cfg` | 2 keys, 1 of them in the first page, 3 goroutines | `FailureIsReported`, `GoroutinesJoined`, `NothingLeft`; the call returns |
| `SentryRequests.cfg` | 2 slots, each of an echo or a gRPC request | `SpansNest`, `NoSpanLeft`, `OwnHubUnlessOvertaken`, `EventsTellFailures` |
| `SentryScope.cfg` | 1 slot | **violated**: `ScopeIsCaptured` |
| `SqlHandles.cfg` | 2 goroutines, up to 3 things asked for per handle | `AsBuilt`, `ErrorsStayWithClient`, `QueriesHaveSegments` |
| `StatusRelay.cfg` | 13 statuses, 4 conversions | `ErrorIsPassedOn`, `StatusSettles`, `UnavailableIsKept` |
| `Stores.cfg` | 2 goroutines, 1 file, 1 document with an ObjectID and 1 without | `BucketIsThere`, `NothingLeftOpen`, `AnswerTellsEffect`; `ImplementsFileStore`; every upload ends (`CallEnds`) |
| `RestyClient.cfg` | 3 goroutines, each with a user | `OwnCredentials`, `SpanEndsWithRequest`, `FailuresAreCaptured` |

The violated properties are what the code's own messages and comments, or `monitor/README.md`, say;
each is a finding in `PROJECT.json` with the line it quotes. Further behaviour that is surprising, or
that the code's own messages contradict, is in the models as it is, without a run of its own. Where it
would break a property, that property excepts it by name: it then bounds what the behaviour does, and
says nothing against the behaviour itself:

- `db.Commit()`'s error is dropped: a version is printed as migrated, and nil returned, though it is not
  recorded (`Commit`, with `CommitMayFail`; `RecordedHasTable` and `ImplementsHistory` are about what the
  database keeps);
- "retrying" commits the message whose handler failed and goes on with the next one, so that nothing
  hands it to the handler again (`Commit` of `KafkaQueue`); `NothingIsLost` counts a message as handled once
  its handler was called, to success or failure, and so claims nothing of a retry;
- a group without a commit starts at the end of the log, and never handles what came before (`late` in
  `NothingIsLost`);
- a key of `MSet` whose EXPIRE and DEL both fail lives for ever, and as `MSet` does not return nobody is told
  (`WorkerDel`; `NoForgottenKey` has it as stranded);
- the compensating DEL deletes what another client has written to the key meanwhile (`WorkerDel`);
- after two calls of `Up`, `m.Scripts` is empty and `Down` returns nil with "no migration to execute",
  whatever is recorded (`CallDown`; `DownIsComplete` excepts it);
- `WriteMessages` writes nothing to the topic: its "producer" is a reader and the call
  `CommitMessages` (`Publish`);
- the error of `RemoveByPattern` may name keys a later round has deleted, and lose others to the
  unlocked append (`WriteFailed`; `FailureIsReported` is about the error, not the names); a failing SCAN
  returns without waiting for the goroutines (`ScanFails`; `GoroutinesJoined` and `FailureIsReported` except it), and
  keys of later pages stay (`FirstPage`; `NothingLeft` is about the first page);
- `Count` of the SQL client has no segment (`Queried`; `QueriesHaveSegments` excepts it);
- every echo request overwrites the hub all share (`EchoEnters`): what an overtaken request captures goes to
  the latest one's (`OwnHubUnlessOvertaken` excepts the overtaken);
- a deferred `Recover` captures "unknown error" when there was no panic (`EventsTellFailures` excepts it);
- the gRPC interceptors' `defer` of the finish comes after the call it is about: a panic leaves the span
  open (`NoSpanLeft` and `SpansNest` except it);
- `Insert` and `InsertMany` report documents with ids of their own as failed, and have inserted them
  (`AnswerTellsEffect` excepts them), and `FindOneAndUpdate` reports an upsert as an error (`FindOneAndUpdate`;
  no property is about it);
- a `Close(ctx)` of a cursor that fails leaves it on the server (`Closed`; `NothingLeftOpen` excepts it);
- `SetCollection` drops the monitor, and the uploader's option setters switch `isMonitor` on or off
  (`SetCollection`, `SetPutOption`, `SetOtherOption`): which chain of setters is right nothing in the repository
  says, and a property would only repeat their assignments, so there is none;
- `SetBasicAuth` changes the client under other handles' requests (`OwnCredentials` excepts the handles that
  were overtaken);
- `finishMonitor` of the HTTP client panics where its caller waits for an error (`BuildPanics`;
  `SpanEndsWithRequest` says which spans that leaves open);
- of two first uploads the one that is refused to make the bucket fails (`MakeBucketFails`);
- no error of the uploader but `io.Copy`'s ever reaches its caller (`Overflows`; in `FileStore` only `Get`
  refuses, and `CallEnds` counts the death of the process as an end).

Why the bounds are enough. Two versions are the least with an order, and three the least with a gap
that has something on both sides, so the order is checked with three; a race is between two
processes for one version, with a second one for Down to go on to. Two consumers and a writer give
a rebalance between consumers, one to a member that never reads, and a zombie that commits after
losing the partition; two messages are a skipped one and a later one. Two clients and two keys let
one client's `MSet` lose one key and another client write that key in between. Three goroutines of
`RemoveByPattern` let two overwrite each other's append while a third starts from a later scan. A
second echo request is what overtakes the first; slots are used again, and by requests of either kind,
so any number of requests passes through. Two goroutines are enough for one's clauses or errors to reach the other, as the only
thing all goroutines share is the connection's one DB; three things asked for are a builder, a
monitor and one more. Two goroutines on one bucket are
two first uploads that make it at once, or one that stores and one that removes a file; one file is
enough, as requests for different files have nothing in common but the bucket. A document with an
ObjectID and one without are the two outcomes of the cast, and together an `InsertMany` that is refused
halfway. Three goroutines let one read the name of a second's user and the password of a third's. Four
conversions are two rounds. The theorems listed below carry most of these properties over to every
value of the constants.

Bounds on counters, all in guards or constants: `MaxLog`, `MaxAsked`, `MaxHops`, `Workers` (goroutines
of `RemoveByPattern` that have not ended).

Deadlock is checked except in `RedisRemove`, which is one call and ends when it has returned, and in
`StatusRelay`, whose chain ends at `MaxHops`. Symmetry is used in safety runs only, over constants
that no property distinguishes (`Requests`, `Clients`, `Goroutines`).

The type invariant of a module is checked in a run where its bounds say something (`Migrator`: an open
transaction is its process's; `RedisCache`: the channel's capacity; `RedisRemove`: the WaitGroup's count). All
are proved (`TypeCorrect`, that of `Stores` for both its parts, and that of `StatusRelay` in `RelayInvariance`).

### Fairness

- `Migrator`: strong fairness of the steps of a running method. Goroutines are scheduled and
  PostgreSQL answers; it has to be strong because a statement that waits for another transaction is
  queued by PostgreSQL and not passed over for ever. Nothing says that a call is ever made.
- `KafkaQueue`: the loop's own steps weakly, and the fetch strongly: a broker may fail any fetch, but
  not every one while it has a message. `HandledEventually` supposes that members stop coming and
  going.
- `RedisCache`: weak fairness of the second command, the goroutines and the range, each with either
  outcome.
- `RedisRemove`: the same, and strong fairness of a DEL that works. Without it the call loops for as
  long as DEL fails, which is a hazard listed at its line.

- `MinioUploader` and `Stores`: weak fairness of a call in progress, of the overflow and of a panic's way
  up. minio-go ends every request, with an answer or an error, after its retries; the stack is finite;
  a panic ends in somebody's recover or ends the process. Each request may fail every time. Nothing is
  claimed of queries' ends, as a callback may take for ever.
- `SentryMonitor`, `SqlHandles`, `RestyClient` and `StatusRelay` are safety specifications. In particular
  nothing ends a request of the HTTP client: the resty client is made without a timeout.

## Proofs

Every invariant a run checks is proved, for every value of the constants the assumptions admit, and so
are the three refinements. Each module's proofs have an inductive invariant `IInv`, checked by TLC on the
small instance before it was proved; each was seen to fail with an action changed as one of its mutants
changes it.

| Module | Proved | Of any | Assumes |
|---|---|---|---|
| `MigratorProofs` | `TypeCorrect`, `RecordedVersionsHaveTables`, `VersionsAreRecordedOnce`, `OpenTransactionsAgree`, `HistoryIsImplemented`, `NobodyWaitsInACircle` | processes, natural versions, failing commits | `MigratorAssumption` |
| | `SchemaIsWhatIsRecorded` | versions, failing commits | one process |
| | `UpsAreComplete`, `DownsAreComplete`, `OrderedHistoryIsImplemented`, `HistoryHasNoGaps` | versions | one process, no failing commits |
| `CacheProofs` | `TypeCorrect`, `NoKeyIsForgotten`, `FailuresAreCollected`, `NobodyWaitsForRoom` | clients, keys | `RedisAssumption` |
| `RemoveProofs` | `TypeCorrect`, `FailuresReported`, `NoneOutlivesTheCall`, `FirstPageIsDeleted` | keys, goroutines | `RemoveAssumption` |
| `KafkaProofs` | `TypeCorrect`, `NoMessagePassedOver`, `NoMessageIsLost` | consumers, writers, length of the log | `KafkaAssumption` |
| `SentryProofs` | `TypeCorrect`, `CallsNest`, `RequestsFinishSpans`, `EventsOnOwnHub`, `FailuresAreTold` | requests in hand | `SentryAssumption` |
| `SqlProofs` | `TypeCorrect`, `QueriesAreAsBuilt`, `ErrorsAreOwn`, `MonitoredQueriesHaveSegments` | goroutines, length of their chains | `SqlAssumption` |
| `HttpProofs` | `TypeCorrect`, `CredentialsAreOwn`, `SpansEnd`, `CapturedFailures` of the client | goroutines | nothing |
| | `ErrorsArePassedOn`, `StatusesSettle`, `UnavailableStays` of the conversions | statuses, length of the chain | `StatusAssumption` |
| `StoresProofs` | `TypeCorrect`, `BucketExistsForOperations`, `NothingStaysOpen`, `AnswersTellEffects`, `UploaderIsFileStore`; `UploaderAlone` | goroutines, files, documents | nothing |

The assumptions say that the constants are of the kind their comments give: versions are natural
numbers and `All` is none of them, a key is not `Nobody`, and so on. Two are about size. `RedisAssumption`
has finitely many keys, which Redis's limit on the length of one makes true, so that the channel's
content can be counted; `RemoveAssumption` has finitely many goroutines at a time. "One process" is a
hypothesis of the theorems, `Processes = {p}`, and `~CommitMayFail` another; both are what
`MigratorSingle.cfg` has. They cannot be dropped: with two processes an Up may have skipped what the
other's Down deletes meanwhile, and with a failing commit, whose error is dropped, an Up returns nil
without its version.

### The invariants

**Migrator, any processes.** `IInv == TypeOK /\ TxAgrees /\ LocksExclude /\ RecordedHasTable /\ AtMostOneRow`.
`RecordedHasTable` alone is not inductive: that an Up's commit leaves a table with its row needs what the
open transaction has done so far (`TxAgrees`), and that it is still so at the commit needs that no other
open transaction holds the same table name or rows (`LocksExclude`). `TypeOK` needs both, too, since a commit
of a Down subtracts from `rows`. The proof has one lemma for steps that end a transaction without effect,
one for steps that extend one, one for the commit, and a step per action that cites them. The refinement
of `SchemaHistory` is then a matter of `Commit`, the only step that changes `rows`. From the same invariant
`NobodyWaitsInACircle`: a script waits only for a transaction that has run its own, a DELETE only for one
about to commit, and a commit for nobody. It is what `CallReturns` rests on, and holds for any number
of processes where TLC checks two.

**Migrator, one process.** `SchemaAgrees(p)` adds to `SchemaIsRecorded` that the open transaction keeps it so
when it commits: a Down drops a table exactly if there is one, and an Up that commits has its row. It
needs no luck with commits, for a lost one loses both. `HistoryAgrees(p)` adds what the list made at the
call's start is worth (`LoopAgrees`: exactly the versions not recorded, for an Up, or exactly those recorded, for a
Down), that a missing version still has its script, and that the open transaction is for the next of
the list. That is what a failing commit breaks, as the list goes on without the version; and it
gives `UpIsComplete` and `DownIsComplete` when the list is empty, and the order of the history when it is not.
`HistoryHasNoGaps` is the consequence for the database: what is recorded is a beginning of the versions.

**Cache.** `NoForgottenKey` needs to know when a client has nothing left to send (`InCall`): a key in hand only
between HSet's two commands, goroutines only in MSet's loop. So a call that begins replaces no EXPIRE that
was still to come. `CollectsExactly` follows from `Accounted`: every failure is with its goroutine, in the channel,
or collected, although each of these goroutines sends a second message. The same account keeps the name of a
stranded key: whoever strands it is about to send its name. `TypeOK` says that the channel
never holds more messages than MSet has keys, by the cardinality theorems of the library; and a full
channel of an MSet, which has keys, is not empty, so that its caller at the range can always make room
(`NobodyWaitsForRoom`, which `WorkersEnd` rests on).

**RemoveByPattern.** `Counted` says that `wg` is the number of goroutines that run, so that `Wait` passes only
when there is none, and with the finitely many goroutines the bound of `wg` in `TypeOK`. `Recorded` is what keeps the report true while goroutines overwrite each other's append:
once something has failed, `failed` is not empty or somebody is about to append to it, and every goroutine
appends at least one key.

**Kafka.** The properties are inductive together with one more, `CommitsCover`: what the group has committed,
and what any loop, of the owner or of a member that lost the partition, may still commit, is behind no
message that was neither handled nor late. That is what makes a commit of a zombie harmless to
`NothingIsLost`, whether it moves the offset on or back. A rebalance is a lemma, as five actions are one.

**Monitor.** The invariant is a predicate of one request and the hub (`Good(r, q, on)`), so a step of a request is
a fact about its own record; only `EchoEnters` touches the others, and `OnHub` survives it as it makes them
overtaken.

**SQL.** A handle is on the connection's `gorm.DB` or on one of its goroutine's own, the connection's stays
fresh, with nothing in its statement, and the statement of every other holds what was asked for. That
the connection's stays fresh is the whole reason why goroutines may share it; the mutant `Init_Chained`, a
connection handed out as one builder's result, breaks it.

**HTTP client and conversions.** The client's invariant says of a handle that was not overtaken that its user
is the client's, and of a request how far what it has read is that user's; `Copied` is what the setters hand
on. The conversions' says of every answer what status it amounts to; the lemma `Idempotent` says that a
status made from a code is made from it again after one more round. The two share a module and nothing
else, which is why `StatusRelay`'s specification has names of its own (`RelaySpec`).

**Stores.** `UploadIInv` and `QueryIInv` are the invariants of the two parts. Each says of a goroutine's record how the
stage of its call goes with the rest: only a `Get` copies and answers with an error; an object is asked for
only when the bucket is there; the spans open are those this stage has deferred, so that each deferred finish,
which ends its own only, leaves none; a cursor is open only within a callback; a query about to return answers
what it has done (`Told`). No step of the composition is taken for granted: each is proved to keep both, the ones
that couple them (`UploadPanics`, `Overflows`) included, and to be a step of `FileStore` or a stutter. Lemmas turn
an update of `uploader[g]` into the one of `request[g]` that callers see. `UploaderAlone` is the same for
`MinioUploader` by itself, whose panics are recovered in place.

### Only model-checked

Liveness is out of the prover's reach and stays with TLC: `CallReturns`, `HandledEventually`, `WorkersEnd`, `Returns` and
`CallEnds`. So do the two violated properties, which are liveness (`MSetReturns`) or false by a single
counterexample (`ScopeIsCaptured`). That the models are free of deadlock is checked, not proved.

## Not modelled

- `Create` of the migrator (writes a file), the logger, the interfaces packages: no state.
- The OTP payload: its predicates are one comparison each, and nothing in the repository changes
  its counters.
- Values, rows, JSON, bcrypt, bodies, headers and options of requests, log texts, tags of spans.
- Of the table and column methods of the SQL client what they do to the database, beyond the migrator's
  (`WithName` is what two of them leave on a handle), and the additional executions of `SQLDebug`.
- `Get` of the uploader never closes the `*minio.Object` it reads from (minio.go:130-139): the body of its
  request is read to the end or given up, and no state of the model depends on it.
- The methods of the cache that only read (`Get`, `MGet`, `HGet`, `HGetAll`, `HMGet`, `Keys`), `FlushDB` and `FlushAll`.
- `captureError` of the Redis, Kafka and SQL clients: each sends its error to `Capture`, which is in
  `SentryMonitor`. That of the document store is never called; the events the uploader's captures on its
  way to the stack's end are left out.
- `Flush`, `Info`, tags and levels of the monitor: they change nothing it keeps.
- Of the document store: connecting, `Ping` and `Close`; the methods of `mongo.Collection` and `DB()` that only
  pass on to the driver, and their spans, which end within the call.
- `Monitor` of the Kafka client.

## Plan

Done, in this order: `SchemaHistory`, `Migrator`, `KafkaQueue`, `RedisCache`, `RedisRemove`, `SentryMonitor`, `SqlHandles`,
`StatusRelay`; then `MinioUploader` and `FileStore`, `MongoStore`, `Stores`, `RestyClient`, and `SentryMonitor` once more with
`Recover` and the gRPC client; the proofs of each, last those of one migrator, of `RedisCache` and of `Stores`.

Next, to extend the model:

1. What `captureError` of the Redis, Kafka and SQL clients sends to the monitor for a success, an error and
   a handle whose monitor was dropped, composed with `SentryMonitor`'s hubs.
2. `Monitor` of the Kafka client, and two handles branched off one chained `*gorm.DB`.

Then, to prove more:

1. What abstract specifications there could be for the other components, as `FileStore` is one for the
   uploader: a log handed on in order for `KafkaQueue`, keys that live as long as asked for `RedisCache`.
2. The safety half of more liveness properties, as `NobodyWaitsInACircle` is that of `CallReturns`: that the
   `Wait` of `RemoveByPattern` waits only for goroutines that can go on.
