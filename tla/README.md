# EntityTS in TLA+

EntityTS (`src/`) is an ORM for TypeScript: typed sets of entities over database
adapters, with a change tracker, transactions, a connection pool, an outbox, an
idempotency manager, migrations, caches and events around them. This directory
holds TLA+ modules of the parts where the order of events, or the dialect,
decides whether the result is right, TLC configurations that check them on small
instances, and TLAPS proofs for every size of the parts that matter most.

`PROJECT.json` is the index: the components, what each run checks, the source
lines every definition models, the hazards, the mutants that show each property
can fail, and the findings.

## 1. The system

Everything runs on Node's event loop: code between two `await`s is atomic, and
anything may happen at an `await`. "Concurrent" below means calls of one process
that interleave at awaits, or several processes on one database.

| component | state | operations | interacts with |
|---|---|---|---|
| `pool/ConnectionPool` | `_active`, `_idle`, `_waiters`, `_isClosed`, heartbeat timer and its last outcome | acquire (with a timer), release, start, close, ping, health | used by the pooled adapter; pings the database |
| `pool/PooledDbAdapter` | one `released` flag per transaction | beginTransaction, withConnection around each statement, connect, disconnect | leases of the pool; wraps `commit`/`rollback` of `DbTransaction` |
| `transaction/DbTransaction`, drivers in `adapters/` | `_isCompleted`; the client captured by the driver's closures | statements, procedures, commit, rollback, savepoints | the driver's own client pool, the server |
| `context/DbContext` | sets, tracker, current transaction | useTransaction, saveChanges, executeResilient*, migrate, seed | all of the others |
| `tracking/*` | entries with a state, an object and its snapshot | track, add, attach, remove, acceptChanges, clear | filled by `DbSet.track()`, flushed by `saveChanges()` |
| `set/DbSet`, `query/*`, `bulk/*` | query options per clone, shared condition objects | queries, pages, add, update, upsert, remove, restore, range, where and bulk forms | builds SQL for the adapter, fires hooks, events, audit; reads through the cache |
| `procedure/*` | a map of parameters | execute, executeMultiple | the adapter's procedure calls |
| `outbox/OutboxDispatcher` | rows of the outbox table, handlers | enqueue, dispatchPending | the caller's transaction; several worker processes |
| `idempotency/IdempotencyManager` | one row per key | execute | several processes |
| `uow/UnitOfWork` | list of operations | register*, commit, rollback | one transaction of the context, writes of its sets |
| `resilience/ExecutionStrategy` | attempt counter | execute | wraps useTransaction |
| `migrations/`, `seeding/` | record tables | up, down, run, reset | one transaction per step; several deployments |
| `codegen/SchemaGenerator`, `scaffold/` | none: the live schema, the files | ensureCreated, push, generated migrations; introspect, scaffold | the adapter, statement by statement |
| `cache/`, `events/`, `audit/` | cached results; listeners; audit rows | get/set/clear; on/once/emit; write | called from `DbSet` |
| `adapters/ReplicaRoutingDbAdapter`, `InterceptingDbAdapter` | round-robin counter; hooks | every adapter call | wrap another adapter |

Decorators, options, importers, the rest of the command line and logging have no
behaviour over time that a state machine would add to.

Hard behaviours, each with its line in `PROJECT.json` under `hazards`: timers
racing hand-over in the pool; leases and clients returned on every error path;
waiting for a second lease while holding the first; a rollback after a failed
commit; several outbox workers writing back what they read long ago; crashes
between a handler and the row that records it; takeover of expired locks;
entries accepted inside a transaction that is rolled back; edits during a save;
writes whose version comes from an earlier read; cascades that are several
statements; retries of what was already done; statements whose parameters are
bound by position; filters appended to conditions with an OR; cached rows older
than their invalidation; pages over a table that changes; deployments that meet.

What makes each component correct:

* pool: at most `Capacity` leases counted, none lost, first come first served,
  nobody waits beside a free slot, a closed pool counts and serves nobody;
* transactions: leases match work on every path, and what `useTransaction()`
  reports is what the server kept; a retried call applies once;
* tracker and saves: no lost update, versions identify contents, entries tell the
  truth about what is stored;
* outbox: DISPATCHED only what a handler accepted, FAILED only after `maxRetries`
  attempts, everything settles; nothing uncommitted is handled, where the driver
  gives transactions connections of their own;
* idempotency: one execution unless a lock was taken over, one answer for all;
* queries: the rows asked for, whatever was derived from the same set; every
  placeholder gets its value; the dialect accepts the text;
* writes: no version is overwritten unseen, cascades are whole, audit log and
  events tell what happened, a unit of work is written whole and parents first;
* reads: pages lose and repeat no row, lists are true to one state, cached pages
  are no older than their invalidation;
* schema: recorded exactly what is applied, tables as declared, scaffolded
  classes that describe the tables they came from.

## 2. Modules

| module | models | built on |
|---|---|---|
| `LeasePool` | what a pool promises: holders, a queue, overhang. No code of its own | |
| `ConnectionPool` | `ConnectionPool.ts`, implements `LeasePool` | `Promise == INSTANCE LeasePool` |
| `ConnectionPoolProofs` | theorems about it | |
| `PooledTransactions`, `PooledTransactionsProofs` | `useTransaction()` over `PooledDbAdapter` over the PostgreSQL driver, and theorems about it | `Pool == INSTANCE ConnectionPool` |
| `OutboxDispatcher`, `OutboxDispatcherProofs` | `OutboxDispatcher.ts`, and theorems about it | |
| `IdempotencyManager`, `IdempotencyManagerProofs` | `IdempotencyManager.ts`, and theorems about it | |
| `SaveChanges`, `SaveChangesProofs` | tracker, entries, `saveChanges()`, add/update/remove with a version, and theorems about it | |
| `Statements` | the SQL of `QueryBuilder`, the bulk builders and procedure calls: clauses, parameters, grammar | |
| `Queries` | `DbSet` as a query: clones, filters, column mapping, terminal calls | `Statements` |
| `EntityEventBus` | listeners and `emit()` | |
| `SetWrites` | the writes of `DbSet` and the bulk builders, statement by statement | `EntityEventBus` |
| `UnitOfWork` | register, sort, commit, rollback | `SetWrites` |
| `UnitOfWorkInvariant`, `UnitOfWorkSteps`, `UnitOfWorkProofs` | what is true of writes and units of work between any two steps, the kinds of steps there are, and theorems about them | `UnitOfWork` |
| `QueryCaches` | `MemoryQueryCache`, `RedisQueryCache` | |
| `SetReads`, `SetReadsProofs` | lists, pages, counts and includes of `DbSet` through cache and replicas, and theorems about them | `QueryCaches` |
| `Drivers`, `DriversProofs` | `executeResilient*()` over eight drivers: sessions, faults, retries; and theorems about it | |
| `Schema` | `MigrationBuilder`, the mapping of entities to it, `SchemaGenerator`; what a dialect does with DDL | |
| `Scaffolding` | `SchemaIntrospector`, `EntityScaffolder` | `Schema` |
| `Deployment` | `MigrationRunner`, `SeedRunner`, push, ensureCreated, db:scaffold by several deployers | `Scaffolding` |
| `MC*` | constants for TLC; no definitions of their own beyond them | |

Definitions marked `fault:` are variants of the definition after them, changed as
a plausible bug would; nothing uses them. Each property is violated when one of
them replaces the definition, which shows that the property says something.

### ConnectionPool

`active`, `idle`, `waiters`, `isClosed`, `timer`, `healthy` are the private fields.
The pool hands out no object, so `call[c]` records what caller `c` may believe:
its acquire is pending, it holds a lease, or it was refused. `acquire()` is
`Refuse`, `TakeSlot` or `Enqueue` (its three ways out), `release()` is `HandOver`
or `GiveBack`. A caller releases once per lease and awaits one acquire before the
next (`MayCall`); that is what `PooledDbAdapter` does and `PoolDiscipline` below
checks. A ping is three steps: sent, answered, recorded. `abandoned` is history:
some `close()` happened while a lease was out. A closed pool counts nobody and has no
queue, but it is not quite inert: the `release()` of a lease that `close()` forgot adds
an idle connection, so `stats()` counts again. `ClosedPoolDrains` says that this is all
that happens there, once for each such lease.

`LeasePool` knows neither `_active` nor `_idle`: `overhang` maps to the leases out
minus those counted, so the refinement says that only `close()` creates overhang
and that releases never bring the count out of step.

### PooledTransactions

A session is one call of `useTransaction()`. `phase` is where its code is
suspended; `released` is the flag `safeRelease()` closes over, `completed` is
`_isCompleted`, `client` the one the driver's closures captured. `lent`, `inTx`,
`pending` and `kept` are the driver's client pool and the server: external, and
modelled from what the adapter calls. `fn` may write on the transaction, run a
statement outside it (a second lease), roll back, throw or return. Connecting, BEGIN
and COMMIT may fail, and a COMMIT that succeeded may be answered with an error. A
statement may fail too: PostgreSQL then gives up what the transaction wrote (`broken`),
and when `fn` catches the error and goes on (`swallowed`, history) COMMIT is answered
like any other, rolls back, and the call resolves.
`client.release()` throws when the client is already back in its pool, as
`pg` does.

When COMMIT fails, the driver's `finally` returns the client, and then
`useTransaction()` calls `rollback()`, which uses the client again (`Abort` after
`CommitFail`). Whether somebody else has it by then is up to the driver: `pg`
hands a returned client to a caller waiting in `connect()` at once, so that
caller's BEGIN is queued before the stray ROLLBACK. `mishap` records sessions
struck this way, or whose COMMIT answer was lost.

A failing ROLLBACK statement is not modelled: the server ends the transaction
with the connection.

### OutboxDispatcher

`row` is the status column, or the state of the transaction a message was
enqueued in. `shared` says which kind of driver there is: one that gives a transaction
a connection of its own, or SQLite's and D1's, where one connection serves every caller.
There all statements belong to the transaction that is open, whoever makes them:
`dispatchPending()` reads messages of a transaction that may still be rolled back, and
the rollback restores `saved`, the statuses and counts the workers wrote since its BEGIN
included. A worker's `batch` is the result of its select, with the
`retryCount` it read; `RecordFailure` writes back that count plus one, as the code
does. `Stop` is a crash, or the failure's own update throwing out of
`dispatchPending()`. The same statement failing after the handler resolved is
`MarkThrows`. `accepted` and `failures` are history.

### IdempotencyManager

One step per statement on the key's row, so requests interleave between any two
of them. `started` is the constant `now` of the call. An update that finds no row
changes nothing. `Break` is a crash or an adapter error outside the handler's own
try. Rows of different keys are independent, so one key is enough. `expires_at` is
never read by the code.

### SaveChanges

A row is a value and a version. Objects belong to contexts; `mem` is the object,
`orig` the snapshot, `state` the entry's state. `saveChanges()` takes the pending
entries as they are when it starts (`Save`) and looks at each one's state again
when its turn comes (`Send`); the statement runs later (`Insert`, `Update`,
`Delete`, `Fail`), while the user may edit or remove objects. `Clear` forgets the objects
with their entries: what is loaded later is another object. Row locks and
read-committed visibility are the database's. `base` is what the context last read
from or committed to the row, `spoiled` the objects accepted for what is not
stored (rollback after acceptance, or an edit while the statement ran), `filled` the
objects whose last UPDATE stored more than they hold: `update()` adds the `@UpdatedAt`
stamp and what a `beforeUpdate` hook changed (`Completed`), and `saveChanges()` copies
back the version alone. All three are history.

### Statements and Queries

A statement is what decides its meaning: `text`, its placeholders in order, each with
the value its condition means and the number it got; `params`, what the driver is
given; the conditions, the ORDER BY clauses counted, the page and the lock as
printed. `WhereSql` and its relatives fold the conditions as `compileConditions()`
does; a subquery pushes the values of its join predicate before its own
(`ExistsSql`). `Bound`, `Accepted` and `Holds` are the database: a bare `?` takes the
next parameter, each grammar its ORDER BY and LIMIT, AND binds tighter than OR.

In `Queries`, `set` is the tree of `DbSet`s derived so far and `cell` the heap of their
condition objects: `clone()` copies the list and shares the objects, and
`mapConditions()` renames their columns in place when a query runs (`Mapped`).
`asked` is history: what each `where()` meant. The actions are the chained calls and
the terminal calls; those of new builders (insert, upsert, bulk insert, update,
delete, procedures) read no set. `Holds` evaluates the WHERE on the rows, so a query
is judged by its result. Procedures: `Params` is the builder's Map, `CallSql` and
`CallMultipleSql` what each driver makes of it.

### SetWrites, EntityEventBus and UnitOfWork

`todo[c]` is what is left of the call of flow `c`: a list of steps, one for each
statement, hook or listener it awaits; a step may put more in front (`Then`). `Find`,
`Write`, `Delete`, `Mark` ... are the statements; `Adding`, `Updating`, `Removing`,
`CascadingRemove` say in which order a call makes them, as the source does. A
transaction is one flow's (`tx`), and others wait for it; `saved` is what a rollback
restores, `poisoned` a PostgreSQL transaction whose audit INSERT failed. Rows carry
tenant, version, deletion and `by`, the call that wrote them; beside the rows `db` keeps
which call changed which row, by a statement about that row (`changed`) or by one that
sweeps over rows (`swept`: cascades, restores, where- and bulk forms). An event goes to the context's
listeners and to those of the set that makes the call: `on()` adds to the very object,
and `createClone()` does not hand its listeners on, so a clone, and every set a unit of
work uses, has none (`Itself`). A delete or `hardRemove()` of version 0 matches no row
that has a version, as the UPDATE does. A COMMIT of a poisoned transaction resolves and stores nothing
(`undone`). `loose` and `meanwhile` are history for the exceptions the properties name.

`model` is the decoration of the classes (soft deletion by class or property, cascade,
version, audit) together with the workload, so that one run covers them all.
`UnitOfWork` adds the list `unit` and its sort: `Visit` is `visit()`, including what it
does on a cycle. The source recurses; here `Visit(ops, visit, n, s)` is given the visits
one level down, and `Visits` builds them up from depth 0. No call nests deeper than there
are operations, since an operation that is met while it is being visited is put down at
once. `Among(s, good)`, the elements of a list that are in a set, is a function too. A
recursive operator in either place would keep the provers from the module. `fate` records
what became of each operation. The constants have four assumptions: finitely many keys and a
set of classes under each (`IdsAssumption`), a mark for nothing that is neither a row nor a
client (`NoneAssumption`), tenants for clients and a name for the listener that is never
registered once (`ClientsAssumption`), and workloads of the right types in which only classes
with `@SoftDelete` cascade (`ModelsAssumption`; the decorator's own options carry `cascade`).

### SetReads and QueryCaches

`log` is the sequence of committed states of a table, `behind` how far each replica
has replayed it, `open` the state inside the transaction. A read `op[c]` goes through
`Get`, `Count`, `Query`, `LoadIncludes`, `Set` as `toList()` and the pagers built on it
do; `Route` is the replica adapter, which knows the primary only where the set reaches
it: behind `InterceptingDbAdapter` or `PooledDbAdapter` (`wrapped`) `usePrimary()` finds no
`getPrimaryAdapter()` and changes nothing. `at` and `since` record which states a read saw.
Conditions are left to `Queries`: a request reads the whole table in an order that
may have ties. The value in a cursor goes through JSON, which keeps a date to the
millisecond: `Json` rounds a rank down to the `grain` of the workload. A cache is a
sequence of entries, least recently used first. The memory cache stores and hands out
the objects themselves, so a caller who changes a row of its list changes the entry, and
the list of everyone else who has it (`Edit`; `edited` and `spoilt` are history); Redis
stores a copy.
`Arrived` is what a terminal operation does with the rows of a page: return them, or
ask for the next (`Restart`, where `chunk()` also stops at its parent's `take()`).
`hit` keeps the entry a list was answered with and the last invalidation of its key
then; it and `late` are history. A request with a key of the caller's
(`cacheKey`) is kept out of `EachRowOnce`: every page of it has that one key, so
each page repeats the first. Such a flow would never end, so a flow reads on only while
it has met at most `MaxMet` rows.

### Drivers

`driver` is a record of how a driver behaves: whether connections are shared, what
BEGIN takes and COMMIT gives back, whether an error aborts a transaction, whether
`commit()` waits. Neon is PostgreSQL's; Supabase and CockroachDB wrap it; D1 comes
with and without `exec`. `sessions` is the server's side, `idle` the driver's pool (a
client returned twice is in it twice), `stored` how often each write is committed.
`Execute` is a statement with the hooks around it; `Thrown`, `Settle` and `Restart` are
the catch blocks of the body, `useTransaction()` and `DefaultExecutionStrategy`. A body may
also catch the error of one statement without a savepoint and go on (`Catch`), as
`AuditEngine.write()` does: where an error aborts the transaction, every later statement
fails, COMMIT is answered as a rollback without an error, and the call resolves with
nothing stored (`void`).
Delays before a retry are left out: any other step may come between. `struck`, `joined`
and `unsure` are history: another call worked on, rolled back or released the session of
this one, or the server had ended its transaction and the body caught that error; a
statement landed in another call's transaction; the answer to something applied was
lost. Errors are transient by code or, as `isTransientError()` has it, by message
(`Worded`: a deadlock, a connection reset or terminated). A client that was released twice can be lent to two calls: BEGIN then
commits what is open there (MySQL), and both are `struck`.

`PooledTransactions` looks at the same code from the pool's side, for PostgreSQL, with
leases and waiting; `Drivers` looks at what is stored, for every driver, with retries.

### Schema, Scaffolding and Deployment

A schema is a set of facts (table, column with its type, key, notnull, index, check,
foreign); tables of records are left out. A DDL statement adds or removes facts
(`effect`) unless the dialect refuses it (`refusal`: what exists already, what is
missing or referenced, what is not its syntax). The first part of `Schema` is
`MigrationBuilder` and `entityToMigrationBuilder`, the second the database, the third
`SchemaGenerator`. `Scaffolding` reads the facts back as the introspector does and
writes classes from them.

In `Deployment`, `op[f]` is a deployer's command, `todo` the migrations, seeds or tables
it still has, `stmts` the statements of the present one. A transaction works on a copy
(`tx`), and one that wrote holds `lock`: other writers wait for it, as they would for
the locks its DDL takes. MySQL commits each DDL statement. `diff()` reads in one step,
the introspector in two per table. Two things are history: `torn`, the migrations and
seeds left half done, each with the reason (a failure, a second deployment of it, the
`down()` of another, `reset()`), and `ensured`, the tables an `ensureCreated()` made.

## 3. Runs

| run | checks | states |
|---|---|---|
| `connection_pool` | 4 callers, Capacity 2, one idle connection, 2 overlapping pings, close and start at any time | 51,456 |
| `pooled_transactions` | 2 sessions, 2 leases, 2 clients, a write each | 56,297 |
| `outbox` | 2 messages, 2 workers, batches of 2, 2 attempts, either kind of driver, 1 crash or rollback of a shared connection | 407,702 |
| `idempotency` | 4 requests with one key, lock of 2 ticks, clock to 3 | 458,447 |
| `save_changes` | 2 contexts, 3 objects of one row (one that creates it and a second of the same context, one of the other), any two of them tracked at once, versions to 3 | 3.7 M |
| `queries` | 4 dialects, 8 rows (tenant, deletion, rank), up to 3 sets derived from each other, 8 condition lists, 5 procedure calls | 84,414 |
| `writes` | 2 flows on an order, its line and a note under it; 7 workloads under 2 decorations; 2 or 3 calls, at most 1 failure | 607,161 |
| `reads` | 2 flows, 4 rows, 2 replicas, a cache of one page, 11 workloads, at most 2 writes | 2.1 M |
| `drivers` | 8 drivers, 2 calls in pairs, 2 sessions, 1 retry, 2 faults | 388,826 |
| `deployment` | 4 dialects, 2 deployers, 30 workloads for each dialect, 1 failure | 214,310 |
| `no_change_is_forgotten`, `tenants_are_apart` | the models of `save_changes` and `queries`, for a claim of the sources that fails there | |

Why these bounds are enough to be interesting:

* pool: with Capacity 2 and four callers, two wait while two hold, so order in the
  queue, a timeout in front of and behind another entry, and close with both kinds
  of caller all occur. Two pings can record out of order.
* transactions: both sessions can hold a lease and want a second one; each can get
  the client of the other. One write tells a kept transaction from a lost one, and the
  theorems hold for any number. Sessions are one-shot: a second call of the same code is
  another session.
* outbox: of two attempts a stale count undoes one, and so does the rollback of a shared
  connection; a batch of two makes the second snapshot old. More workers add stale writers
  of the same kind.
* idempotency: one whose lock expires, two that take over together, one that comes
  after; the clock reaches one tick past the first lock. Requests are symmetric.
* saves: one save may flush two objects of one row, so a statement may fail after
  another entry was accepted, and a row's version may go up by two. At most two of the
  three objects are tracked at once (`AtMostTwoTracked`, a constraint of the run); the
  inductive invariant of the proofs was checked once without it, with versions to 2 (10
  million states), and the theorems need no bound. A row is inserted at most once, so a
  version number never stands for two rows' lives.
* queries: three sets give a parent, a child and a sibling or grandchild, each of
  which may run before or after the others; every value in a condition is different,
  so one bound in another's place is seen.
* writes: three levels make a cascade recurse; the second flow may act between any
  two statements. Calls with many interleavings are in workloads of their own.
* reads: a page of one row over three or four rows has a boundary at every row; two
  replicas lag by different amounts; a cache of one page evicts at every new key.
  Time is in half seconds, so a time to live of 1 is below what Redis can express. A flow
  meets up to six rows, more than the table has (`MaxMet`).
* drivers: two sessions let the second call have a client of its own or the one the
  first returned; two faults let a rollback or a retry fail too.
* deployment: two deployers, one of which runs up to three commands; every operation
  of the builder occurs in some migration.

`PooledTransactions.TypeOK` is proved and belongs to no run; the properties checked are:

* `LeaseAccounting`, `WaitOnlyWhenFull`, `QueueIsPending`, `ClosedPoolDrains`,
  `KeepsPromise` (refinement of `LeasePool`), `EveryWaiterIsServed`,
  `HeartbeatRecovers`;
* `LeaseMatchesWork`, `AtomicUnlessStruck`, `PoolDiscipline` (refinement of
  `ConnectionPool`), `EveryTransactionEnds`;
* `DispatchedWasAccepted`, `GivenUpAfterRetries`, `EventuallySettled`;
* `ExecutionsPerTakeover`, `AnswersAgree`, `CompletedIsFinal`;
* `StoredUnlessSpoiled`, `CommitsOverWhatItRead`, `OneVersionAtATime`;
* `ReturnsWhatWasAsked`, `BoundAsMeant`, `AcceptedByDialect`;
* `NoLostUpdate`, `CascadeIsWhole`, `TrailIsTrue`, `ListenersHear`, `UnitIsWhole`;
* `EachRowOnce`, `ListsAreTrue`;
* `AllOrNothing`, `TransientIsRetried`;
* `RecordedIsThere`, `SchemaIsDeclared`, `ScaffoldsFit`;

and a `TypeOK` for the pool, the outbox, the idempotency manager and the saves.

Deadlock is not checked where the system may stop: all calls, sessions, requests or
commands have ended, all messages are settled.

### What the code does not do

A property names the behaviours it excepts, all of which the models have. Many of them
contradict a sentence of the sources. Each sentence of this table is a definition of its
own, which TLC finds violated, and is quoted under `findings`:

| claim | what the sources say | what the code does | shown by |
|---|---|---|---|
| `NoChangeIsForgotten` | `saveChanges()` "accepts changes upon commit" (`DbContext.ts:786`), `hasChanges()` is true "if uncommitted modifications exist" (`ChangeTracker.ts:41`) | entries accepted before a rollback show no pending change | run `no_change_is_forgotten` |
| `TenantsAreApart` | entities with a tenant "are automatically filtered by `tenantId` in queries" (`TenantId.ts:6`) | the tie-breaking condition of a cursor page is an OR beside the filters: rows of other tenants appear on the second page | run `tenants_are_apart` |
| `ResolvedIsKept` | `useTransaction()` runs "auto-committing on success or rolling back on error" (`DbContext.ts:457`) | where `fn` catches the error of a statement, PostgreSQL rolls back at COMMIT and the call resolves | `TransactionsClaims.cfg` |
| `RolledBackIsNotEmitted` | of a transaction "rolled back, nothing is emitted" (`OutboxDispatcher.ts:108`) | on SQLite and D1 a worker reads messages of an open transaction | `OutboxClaims.cfg` |
| `NothingRunsTwice` | duplicates "never execute transactions twice" (`IdempotencyManager.ts:25`) | a handler that outlives its lock is taken over, and both run | `IdempotencyClaims.cfg` |
| `AuditNeverUndoes` | "Audit failures must never break the main operation." (`AuditEngine.ts:112`) | on PostgreSQL a swallowed audit error makes COMMIT roll back, and `UnitOfWork.commit()` resolves | `WritesClaims.cfg` |
| `CommitTakesAll` | `commit()` "Commits all queued operations atomically" (`UnitOfWork.ts:123`) | what is registered while it runs is dropped unwritten | `WritesClaims.cfg` |
| `EveryWriteIsAudited` | "every INSERT, UPDATE, and DELETE" is logged (`AuditMetadata.ts:6`) | `restore()`, cascades, `hardRemove()`, `nativeUpsert()`, where- and bulk forms write no entry | `WritesClaims.cfg` |
| `NoOrphanedEntries` | "there are no orphaned audit entries" (`AuditDecorator.ts:11`) | a `remove()` that matched no row is logged | `WritesClaims.cfg` |
| `VersionsAreValidated` | `@Version` "validates the version token on UPDATE and DELETE" (`Version.ts:11`) | the native upsert, the bulk forms and an update of a soft-deleted row do not | `WritesClaims.cfg` |
| `SetListenersHear` | events go to "both the parent DbContext and local DbSet" (`DbSet.ts:170`) | clones of a set, and so every unit of work, do not have its listeners | `WritesClaims.cfg` |
| `SoftRemoveResolves` | `remove()` updates the column of a property with `@SoftDelete`, and cascades (`SoftDelete.ts:13-39`) | it marks the row, looks for it through the filter it now falls under, and throws before the cascade | `WritesClaims.cfg` |
| `CursorsBreakTies` | the tie-breaker "Defaults to 'id'" (`CursorPagination.ts:25`) | there is no default: rows that tie across a page boundary are on no page | `ReadsClaims.cfg` |
| `PrimaryIsRead` | `usePrimary()` is "Critical for read-after-write consistency" (`DbSet.ts:1825`) | behind hooks, logging or a pool it reads a replica | `ReadsClaims.cfg` |
| `RetriesAreSafe` | errors that are retried are "safe to retry" (`ExecutionStrategy.ts:53`) | a transaction whose connection is lost after COMMIT was sent is made twice | `DriversClaims.cfg` |
| `SeedsAreAtomic` | "Execute seed in a transaction for atomicity" (`SeedRunner.ts:98`), "preventing double-execution" (37) | the seed writes outside its transaction: rows without a record, or twice | `DeploymentClaims.cfg` |
| `EnsureIsRepeatable` | `ensureCreated()` "is safe to call repeatedly" (`SchemaGenerator.ts:53`) | a second call may be rejected by its own keys, indexes and checks | `DeploymentClaims.cfg` |

The configs `*Claims.cfg` belong to no run: `tlc -config WritesClaims.cfg MCUnitOfWork`
stops at the first claim of its list that fails, and with that one commented out at the
next (`MCPooledTransactions`, `MCOutboxDispatcher`, `MCIdempotencyManager`, `MCSetReads`,
`MCDrivers` and `MCDeployment` are the modules of the others). The runs of the same models
check what the code does keep:

* `AtomicUnlessStruck` and `AllOrNothing` that such a call stores nothing at all, never a
  part; `UnitIsWhole` that a unit of work is otherwise undone only with a rejection, which
  leaves neither rows nor entries, and that nothing but what was registered meanwhile is
  dropped;
* `TrailIsTrue` and `ListenersHear` what statements about one row report, and to whom;
* `DispatchedWasAccepted` and `GivenUpAfterRetries` that a shared connection does not make
  a status untrue or a count too high; `ExecutionsPerTakeover` that each execution beyond
  the first is owed to a takeover of its own;
* `CascadeIsWhole` that a call that resolves leaves no half of a cascade;
* `EachRowOnce` and `ListsAreTrue` how stale a list can be, and how;
* `RecordedIsThere` that a recorded seed has its rows, and on SQLite once;
  `SchemaIsDeclared` that a rejected `ensureCreated()` leaves what was made as it was.

The other exceptions (those we know to strain a sentence of the sources say so):

* Pool and transactions: `close()` forgets leases, and after `start()` more than
  `maxConnections` are out. The rollback after a failed COMMIT can end another
  session's transaction. A failed BEGIN loses the driver's client.
* Outbox and idempotency: a message whose handler keeps failing becomes FAILED and is
  never read again (`OutboxDispatcher.ts:29` promises at-least-once delivery, and
  `maxRetries` its end). Of two requests that took over, the later response replaces the
  earlier.
* Saves: what an UPDATE adds by itself (`@UpdatedAt`, `beforeUpdate`) never reaches the
  tracked object.
* Queries: an OR of the caller meets other calls and the filters, those of
  `TenantId.ts:6` and `SoftDelete.ts:31` too. In an EXISTS that
  correlates by value, a bare `?` gets another condition's value. Procedure arguments
  are passed by position outside SQL Server, return values among them on MySQL. An
  offset without a limit (MySQL, SQLite), vector pages without an order (SQL Server)
  and a search without words before other conditions are not the dialect's grammar.
* Writes: a cascade does not look below rows of another tenant, and one that is
  rejected outside a transaction stays half done. Calls whose statement matched no row
  still emit. `hardRemove()` and what sweeps over rows emit nothing. A unit of
  work emits before it commits.
* Reads: a cached page may be one that was read while it was invalidated, inside a
  transaction, from a lagging replica, or for other includes; in memory it may have been
  changed by whoever shares it. Includes are read outside the transaction. Pages by offset
  need a table that does not change; cursors an order without NULLs, and values that JSON
  keeps. Only `chunk()` obeys the `take()` of its parent.
* Drivers: an `onAfterQuery` hook that throws
  reports an applied statement as failed. On the one SQLite or D1 connection, calls land
  in each other's transactions. PlanetScale's `commit()` does not wait for COMMIT. MySQL
  sets an INOUT argument and calls on different connections. Wrapping an error loses the
  code that says it is transient.
* Deployments: MySQL keeps the DDL of a failed migration. Records of one batch tie, and
  are then reverted in any order. SQL Server refuses `CREATE TABLE IF NOT EXISTS`, so the
  runners and `ensureCreated()` reject at once there, as it does the `ADD COLUMN` and
  `RENAME COLUMN` the builder writes.
* Generated schemas: `push()` adds every column as VARCHAR(255), and nullable. Types
  without a builder column are widened or narrowed. On SQLite keys that are not
  auto-incremented are lost, and the comments that stand for ALTER are refused.
* Scaffolding: a view comes back as a table (PostgreSQL, MySQL), a composite key as two
  keys. NOT NULL is lost for text and timestamps, the type for JSON, enums and dates
  (and BOOLEAN on MySQL). A list of tables leaves references to classes that were not
  written.

### Fairness

* Holders of leases release; the pool needs no other fairness for
  `EveryWaiterIsServed`: no timer is assumed to fire, so the property is about the
  queue alone. `HeartbeatRecovers` assumes that the interval timer ticks and pings
  are answered.
* `useTransaction()`: `fn` ends (strong, since it may alternate statements),
  statements are answered, acquire timers fire, and the driver serves the callers
  waiting for a client, with one or with an error (strong, since clients come and go). `pg`'s pool is a queue,
  which justifies it. `EveryTransactionEnds` is stated for runs that lose no client.
* Outbox workers poll, and handlers and statements end. Crashes are bounded, and
  not fair.
* The other modules state safety only and assume no fairness: their calls wait for
  nothing but the database.

## 4. Proofs

`ConnectionPoolProofs` proves, for every finite set of callers and all values of
`minConnections`, `maxConnections` and the heartbeat interval, from
`PoolAssumption` alone:

* `PoolInvariant`: `IInv` holds in every reachable state. `IInv` is the conjunction
  of `TypeOK`, `QueueIsPending`, `WaitOnlyWhenFull`, `ClosedPoolIsEmpty` and
  `LeaseAccounting`. None is inductive alone: to see that `HandOver` leaves the
  number of leases alone one needs that the head of the queue does not hold one
  already (`QueueIsPending`); that a taken slot wakes nobody late needs
  `WaitOnlyWhenFull`, and so on. `PoolTypeOK`, `PoolAccounting`, `PoolNoLostWakeup`
  and `PoolQueue` are its parts.
* `PoolClosedDrains`: the action property. Each late release takes a lease away for the idle
  connection it adds, so idle connections and leases together do not grow while the pool
  is closed; `ClosedPoolIsEmpty` says that none is granted there.
* `PoolKeepsPromise`: `Spec => Promise!Spec`, step by step: `TakeSlot` is `Grant`,
  `Enqueue` is `Wait`, `Timeout` is `GiveUp`, `HandOver` is `PassOn`, `GiveBack` is
  `Return`, `Close` is `Close`; refusals, restarts and heartbeats stutter.

The lemmas are about splicing an entry out of a queue of distinct callers
(`SpliceQueue`, `DropEntry`) and about how the number of leases changes when one is
granted, dropped or moved.

`IdempotencyManagerProofs` proves, for every finite set of requests and every lock
timeout, from `IdempotencyAssumption`:

* `IdempotencyInvariant`: `IInv` is `TypeOK`, what the histories say of a request at
  each point of its code (`HistoryFits`), that stored and returned responses are
  real (`ResponsesAreReal`) and the count `WorkIsOwed`: requests whose handler runs,
  has resolved or failed and still has its row to clear, plus one while the row is
  absent, are at most one more than the requests that took over. The opening for
  an absent row is what makes the count inductive: an insert uses it, and a failed
  request that deletes the row hands its own place to it.
* `ExecutionsAreOwed` and `OneAnswer` follow from the count. `CompletionIsFinal` is an
  action property: with no takeover the request that completed the row is the only
  one at work, so no later statement can match it.

`OutboxDispatcherProofs` proves, for any messages, any set of workers, every batch
size and number of attempts, from `OutboxAssumption`:

* `OutboxInvariant`: `IInv` is `TypeOK`, `BusyHasMessages` (a worker is at work exactly
  while messages of its batch are left), `SentWasAccepted` (a message about to be marked was
  accepted), `CountsAreEarned`: no count, in a row or in a worker's memory, exceeds the
  failed attempts there were, and `SavedIsEarned`: both are so of what the rollback of a
  shared connection would restore. A stale or restored count is too low and never too high,
  which is why overwriting is harmless to `GivenUpAfterRetries`.
* `DispatchedIsAccepted` and `GivenUpIsEarned` are its consequences, for either kind of
  driver.

`PooledTransactionsProofs` proves, for every finite set of sessions, any clients of the
driver's pool, any sizes of the connection pool and any number of writes, from
`SessionAssumption` and `PoolAssumption`:

* `TransactionsInvariant`: `IInv` is `TypeOK`, the pool's own invariant, `LeaseMatchesWork`
  and what a session has at each point of its code (`Begun`). `PoolFacts` instantiates
  `ConnectionPoolProofs` for the pool of the sessions, so each step is shown to be a step
  of the pool, or to leave it alone, and the pool's part is taken from there. Its queue is
  needed here too: a release hands the slot to its head, which must be a pending call.
* `LeasesAreReturned`, `TransactionsUseThePool` (`PoolDiscipline`, the refinement: no path
  releases a lease that is not held, so `released` and `_isCompleted` do their work) and
  `TransactionsLoseNoSlot`, the pool's theorems for the composition.
* `TransactionsAreAtomic`: an invariant of its own, `AtomicInv`, on top: until something
  strikes a session the client is lent to it alone and has its transaction open, which holds
  all of its writes, or none once a statement of it failed; after the end all are kept, or
  none.

`SaveChangesProofs` proves, for any contexts, any finite set of objects, any number of them
on one row, from `SaveAssumption` and `MarkAssumption`:

* `SavesInvariant`: `IInv` is `TypeOK` and six parts: the entries a save still has to flush
  (`QueueInv`), what tracked objects hold (`EntryInv`, with `filled`: the version of
  the row, and its value unless an UPDATE stored more), which rows a transaction has
  changed and that no two changed the same (`LockInv`), that the states tell the truth of
  what is committed or will be (`StoredInv`), that each version stands for one content of
  its row (`RowInv`) and that an accepted object had read what the commit writes over
  (`ReadInv`). The properties compare states at commits, and saves take many steps until
  then: `LockInv` carries the check of the UPDATE to the commit, `RowInv` makes the check
  mean something, since an UPDATE compares versions and the property contents.
* `StatesTellTheTruth`, `NoSaveIsLost` and `VersionsCountSaves` follow. The proof showed that
  two objects of one row in one save raise the version by two, which the run, with one
  object per context, had not met; the run now has such objects.

`DriversProofs` proves, over each driver of `Adapters`, for any calls with bodies up to any
length, any sessions, retries and faults, from `WorkloadAssumption` (a workload is a driver
and a body for each call), `BoundAssumption` and `MarkAssumption`:

* `CallsAreWellFormed`: types, and `FlowInv`, which reads a call's own record only: where it
  is in its body and what it has skipped (`Placed`), that a transaction at work has a session
  (`Housed`), and which error it will be judged by (`Blamed`). `TransientErrorsAreRetried`
  follows from the last.
* `DriversInvariant`: `IInv` adds what the server holds. `Whole` says it of one call: all of
  what it did is stored, or pending on the session it works on (`Works`), or waits for a
  COMMIT on its way; and no session holds anything else of it (`Lies`), not even in a
  savepoint, which a later BEGIN or COMMIT of somebody else could bring back. `Lent` says it
  of a session: what is open belongs to somebody who will end it. Neither is inductive
  alone. A COMMIT stores whatever is pending on its session, so it must be known that no
  call but its own, unless it is excused already, has anything there; and that rests on how
  the driver lends: one connection for all (SQLite, D1), clients that may be released twice
  (MySQL), or that refuse to be (PostgreSQL), a callback that is still to return
  (PlanetScale). `OneStep` reduces a step to the session it is on; each action has one lemma.
  `void` is exact: the pending writes of a call are none just when the server aborted its
  transaction and the body went on, so what COMMIT then stores is nothing.
* `CallsAreAllOrNothing` is its consequence, with the excuses of the property and no others.

`SetReadsProofs` proves, for any flows, any finite table, any requests, writes, page
size and number of replicas, and for the memory cache as for Redis, from
`SizesAssumption`, `IdsAssumption`, `WorkloadsAssumption` (rows, writes and requests are
such) and `NoneAssumption` (the mark for nothing is neither a number, a cursor nor a
table):

* `ReadsInvariant`: `ReadsInv` is types, `CacheInv` and, of each flow, `FlowInv`. A read is
  judged when it has ended, against states the table had many steps before, so `FlowInv`
  says at every phase what was met so far: by cursor, every row that stays was met once or
  comes after the cursor (`CursorInv`); by offset, while all pages come from one state, the
  rows met are the order of that state up to the offset (`OffsetInv`); a list and its
  relations (`ListInv`, `FetchInv`); the two counts of `all()` (`AllInv`). The log of
  committed states only grows, so steps of others leave it true (`Kept`). `CacheInv` says
  of an entry which request put it there and that it is the page its key names: a hit is
  then another way for rows to arrive (`Arrives`), and a flow needs no other facts about
  it than about rows of the database, unless one of those who share it changed it. The key tells pages apart, by order, offset, size
  and cursor, but not the relations or the adapter; that is where the excuses of the
  property come from. `RouteHas` reduces the replicas to the state a statement reads.
* `ListsAlwaysTrue` and `EveryRowOnce` follow; the second compares the number of times a
  row was met (`Times`, a cardinality) with what the invariant says by quantifiers.
* The proof asked about two requests that are in no workload of the run: a chunk whose
  parent has `take(0)`, which the code ends before any statement, and pages under one key
  of the caller's. The model now ends the first, the property excuses the second.

`UnitOfWorkProofs` proves, for any clients, any finite set of keys, any classes, tenants and
decorations of them, any number of calls and failures, and whether or not the database
aborts a transaction at an error, from the four assumptions above:

* `Invariance`: `IInv` (in `UnitOfWorkInvariant`) holds in every reachable state. `Base` is
  types, `CallInv` of every call (each has a number of its own; what is left of it has BEGIN first and COMMIT last,
  an UPDATE whose version comes from a read right after that read, a reload, an event and
  an audit entry after each UPDATE, and nothing to report but rows it changed or missed) and
  `TxInv` (what an open transaction adds to the database is its own call's, so a rollback
  takes back no one else's). On top of it are one part for each history the properties
  speak of: `SnapInv` (a row somebody holds, passes or has registered is no newer than the
  stored one, and has its content when it has its version) and `ReadsInv` (so is the row a
  call has just read), `TrailInv`, `OwedsInv`, `ToldInv`, `HeardsInv`, `AllInv`, `OncesInv`
  (entries and tellings are true, and what a live call has not reported yet, at the
  context's listeners and at those of a set that is no clone, is still ahead of it), and
  `Numbered`, `UnitsInv`, `FateInv` (no operation is lost between its registration and its
  fate; those a `commit()` took are written or still to be), and `DatedInv` and `AtomicsInv`
  (what the database has of a call has the call's number; of a unit of work that runs it has
  nothing but inside its open transaction, so a rejected one leaves nothing).
  `SnapInv` and `TrailInv` speak of `saved` as well as of `db`: either may be what others see
  next.
* The argument. A step of the specification has dozens of forms, and an invariant of a dozen
  parts; `UnitOfWorkSteps` names the
  kinds there are and `NextIs` reduces the forms to what a step does: it goes on with its call (`Goes`),
  stores (`Stores`), reads (`Sees`), adds fitting steps (`Fits`) and leaves owing what it
  changed (`Owes`), or it throws, begins, commits, rolls back, tells, emits, clears, starts,
  or rests. One lemma for each statement shows that it is of these forms (`WriteGoes`,
  `DeleteGoes`, `MarkGoes` ...), and each part of the invariant is then kept by the forms.
  `CallsOpen` and `FlushingFits` show that what a call starts with is well formed; the
  lists are made of sublists (`Adding`, `Updating`, `EachKind` ...), and lemmas about
  joining carry `Fit` through them.
* `NoUpdateIsLost`, `TrailStaysTrue`, `AllListenersHear` and `UnitStaysWhole` are the
  properties of the run. The last needs the sort: `VisitsDescend` is that `visit()` given
  enough depth never runs out of it, `SortHasAll` that the sort has every operation, and
  `SortIsParentsFirst` that without a cycle each is there once, after its parents. Loops are
  folds, and no induction scheme can be cited here: `Least`, that a set of numbers has a least
  member, takes its place (`Loops`: what holds at the start of a loop and is kept by its
  body holds at its end, since there is no first round at which it fails). The same lemma
  gives facts about `FlattenSeq` (`Flattened`) and `Among` (`FilterPicks`).
* `CascadesAreWhole` has an invariant of its own, `CascadesInv`. The property is judged when a
  call resolves, many statements after its first; so `Reached` says at every point of a
  cascade of each row under its row: it is as the cascade leaves it, or the statement that
  sweeps its class is still ahead, or the sweep or the listing of the class above is, and will
  add that statement. Others' writes are excused by `meanwhile`; a rollback of others undoes
  only such writes (`Aside`), so what a cascade has reached stays reached.
  `ActingCascades` is that each step of such a call stops it, marches (what is reached stays
  so) or opens it (everything is ahead).

The invariants were also checked by TLC before they were proved (three requests; the
outbox and the transactions on the instances of their runs; the saves as said above; the
drivers on their run, and with three calls on five of the drivers; the reads and the
writes on their runs). The histories (`abandoned`, `executed`, `tookOver`,
`accepted`, `failures`) and the bounds (`MaxTime`, `MaxFaults`) are constants or
variables of the modules like any other: the theorems hold for every value of them.

Checked by TLC only: liveness (`EveryWaiterIsServed`, `HeartbeatRecovers`,
`EveryTransactionEnds`, `EventuallySettled`), which TLAPS cannot treat, and
everything about the modules without a `Proofs` module: `ReturnsWhatWasAsked`,
`BoundAsMeant` and `AcceptedByDialect` of the queries; `RecordedIsThere`,
`SchemaIsDeclared` and `ScaffoldsFit` of the deployments. What a statement's text, a
schema or a scaffolded class comes to is a fold over its parts, each of which has its own
case in every dialect: the way round induction that the sort of a unit of work takes would
have to be gone once for each of dozens of folds, and the dialects and their refusals are
finite tables that TLC visits whole.

## 5. Plan

What is left to prove:

1. `Deployment`: `RecordedIsThere`, for seeds, from the lock that writers respect.
2. `QueryCaches`: the bound on the memory cache and its order of eviction as lemmas.

## 6. Not modelled

Names, literals and the layout of SQL text; decorators and the registration of
metadata, which are constants of the modules; options, factories and request scopes;
validation and encryption of single values; logging, tracing and query plans; the mock
adapter; importers, benchmarks and the commands that only print. These are functions of
their input or pure I/O.

Left out of the modelled parts: isolation levels; `executeStream()` (it takes no lease);
pool restarts under running transactions, and two first connects at once; `attach()`,
two saves of one context at once, entities without a version column in `SaveChanges`;
the counts `dispatchPending()` returns; `thenInclude()`, many-to-many rows, `fromSql()`,
projections and the mapping of rows to entities; procedures and streams through the
adapter wrappers; lengths, defaults and comments of columns; the labels MySQL 8 gives
the catalogue's columns (taken as the introspector expects them).
