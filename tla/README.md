# A formal model of the todo backend

TLA+ modules for the NestJS service in `src/src`, the TLC configurations that
check them on small instances, and proofs, checked by TLAPS, of what matters
most for every value of the constants. `PROJECT.json` maps each definition to
the lines of source it stands for; paths below are relative to the root of the
repository.

## 1. The system

One process is an HTTP server (Express under NestJS). It keeps todos in
PostgreSQL through Prisma, caches reads in Redis, counts requests in Redis for
rate limiting, and exposes Prometheus metrics and health endpoints. Several
processes run behind a load balancer. JavaScript runs one turn at a time, so
code between two awaits is atomic and every await is a point where other
requests, timers and connection events run.

| Component | Source | State it keeps | Operations |
|---|---|---|---|
| Todos feature | `src/features/todos`, `src/api/todos` | the `Todo` table (PostgreSQL) | create, findAll, findOne, remove, update |
| Cache storage | `src/modules/redis-manager/storages/cache.storage.ts` | entries with a time to live, in Redis | get, set, del, delByPattern |
| Throttler storage | `.../storages/throttler.storage.ts`, `throttler-redis.storage.ts` | a counter and a block per client in Redis; a Map of records per process | increment, fallback |
| Redis clients | `.../clients/*.ts`, `redis-manager.service.ts` | two ioredis connections and their retry counters | connect, retryStrategy, destroy |
| Request tracking | `src/modules/in-flight-requests` | `activeRequests` | increment, decrement, waitForRequestsToFinish |
| Shutdown | `src/modules/shutdown` | `shuttingDown` | onApplicationShutdown |
| Request pipeline | `src/app.setup.ts`, `src/app.module.ts`, `src/common` | none of its own | guards, interceptors, handler, filter |
| HTTP metrics | `src/modules/metrics/interceptors` | a gauge, a counter, a histogram | intercept |
| Error handling | `src/error-handler` | `http_errors_total` | GlobalExceptionFilter, mapPrismaError, safeExec |
| Health | `src/modules/health`, `src/api/health` | `service_health_status` | runCritical, runAll, updateMetrics |
| Queries and validation | `src/api/todos/dtos`, `todos.repository.ts` | none | filters, sort, pages, total, defaults |
| Configuration | `src/config`, `validate-config.util.ts` | none | read, transform, validate |
| Startup | `src/main.ts`, `prisma.service.ts`, `database-manager/wait-for-db.ts` | none | configuration, fail-fast, open port; bounded wait |
| Logging and trace ids | `src/logger` | one AsyncLocalStorage | traceIdMiddleware, loggingMiddleware, LoggerService |
| Sentry | `src/modules/sentry` | a client and scopes, in the SDK | init, beforeSend, captureException |
| Deployment | `.github/workflows/cd.yml`, `rollback.yml` | task revisions, the ECS service | publish, migrate, deploy, clean up, roll back |
| Database metrics | `src/modules/metrics/metrics.service.ts` | the gauge `db_slow_query_ms` | getDatabaseMetrics |
| The rest | Swagger, version, client logs, migrations, seeds, dashboards, ci.yml | none that a decision reads | |

### How the parts interact

* A request passes the middlewares (trace id, Sentry scope, request line), the
  body parser, the ThrottlerGuard (which asks the throttler storage), AuthGuard,
  the interceptors (Sentry, serializer, unified response, metrics innermost),
  the pipes and the handler; whatever is thrown ends in GlobalExceptionFilter.
  Request tracking is a middleware around all of it.
* A handler calls TodosService, which alternates cache and database calls.
  CacheStorage catches what Redis throws: a failure is a miss or a write that
  did not happen, never an error of the request (`safeExec` is called by
  nothing). A call that neither succeeds nor throws is not caught by anything.
* A scrape of `/metrics` runs the health checks in a middleware and sets the
  health gauge; `/health` and `/health/deps` run them in their handlers. All
  three are requests like any other: they are tracked, and a shutdown finds
  them under way.
* Whatever a request calls finds its trace id in AsyncLocalStorage; the logger
  puts it into every line. SentryInterceptor and GlobalExceptionFilter both hand
  errors to Sentry.
* A start reads the configuration, then asks the database, and only then opens
  the port; a process that exits is started again by the orchestrator.
* SIGTERM makes Nest close the HTTP server, then run onApplicationShutdown,
  which reads the tracker and releases Prisma and both Redis clients.

### Where it is hard, and what correctness means there

* **Cache and table are changed in separate awaits.** A reader may fill the
  cache with what a writer has just replaced; a DEL may be lost with Redis; an
  update may commit and answer 500. Correct: nothing is shown that the table
  never held, a stale entry has one of the known causes, staleness ends with
  the time to live, one removal of a todo wins.
* **A counter that falls back.** Redis may be lost at any call, before or
  after the script ran. The fallback returns the record that stays in the Map,
  and the guard reads it one turn later. Correct: an instance never lets more
  than the limit through in a window, and turns away only calls over it.
* **The end of a process.** Requests that hang, clients that went away, Redis
  clients in every state. Correct: no request under way loses the database,
  nothing but a call without an answer holds the end up, the counter means what
  it says.
* **Metrics at three layers.** Guards fail before the interceptor, the filter
  runs after it, the response changes status between them. Correct: errors are
  the error answers, successes are counted under their final status.
* **One record of each failure.** The trace id is read turns after it was
  stored, while other requests run; two places capture the same error. Correct:
  every line and report of a request has the id its client got, an error answer
  is one error line and at most one report.
* **Starts that fail.** A process may exit at its configuration or at its
  database and is started again, over and over. Correct: the port never opens
  with a configuration that is missing or malformed, or with fail-fast before
  the database answered this process; it does open once both are right.
* **Pages over a table that changes.** Items and total are two statements with
  two snapshots, each page stays in the cache for 30 s whatever is committed, and
  a client walks the pages while others write. Correct: one answer is consistent
  unless a commit fell into it, a walk over pages of one state of the table shows
  each todo once, a walk ends.
* **Releases that overlap.** Nothing keeps two runs of the release workflow
  apart, any step may fail and be run again, a rollback may come in between.
  Correct: no code runs ahead of its schema, and there is something to roll
  back to.

`PROJECT.json` lists every hazard at its line.

## 2. Modules

| Module | Models | Proofs | TLC instance |
|---|---|---|---|
| `TodoStore` | what the todos API promises: the abstract specification | | |
| `TodoCache` | TodosService, repository and cache, cut at every await | `TodoCacheProofs` | `MCTodoCache` |
| `Throttler` | guard, Redis counter, in-memory fallback, several instances | `ThrottlerProofs` | `MCThrottler` |
| `RedisClients` | connection states, retryStrategy, the Redis server | | |
| `Shutdown` | extends RedisClients: tracking, SIGTERM, close of the server, release | `HealthProofs` | `MCHealth` |
| `Health` | extends Shutdown: the checks, the probes, the health gauge | `HealthProofs` | `MCHealth` |
| `RequestPipeline` | middlewares, body parser, guards, interceptors, filter, status codes, metrics | `RequestPipelineProofs` | |
| `Observability` | extends RequestPipeline: trace ids, log lines, reports to Sentry | `ObservabilityProofs` | `MCObservability` |
| `Configuration` | the ten configuration classes and validateConfig (no state) | | |
| `Startup` | extends Configuration: bootstrap, fail-fast, restarts, wait-for-db | `StartupProofs` | `MCStartup` |
| `TodoQueries` | findAll: list cache, filter, sort, pages and total; the bodies of create and update | `TodoQueriesProofs` | `MCTodoQueries` |
| `Deploy` | cd.yml and rollback.yml on one ECS service | `DeployProofs` | `Deploy` itself |

### TodoCache and TodoStore

A process `p` is a slot for a request. `pc[p]` names the await the service
method is about to make (`"findOne.query"`, `"remove.del"`, ...), and each
action is the code from one await to the next. A todo's content is its version,
the number of commits on its row; a page is the set of todos it shows. The
key prefix of the ioredis client is kept as a sequence, because KEYS sees the
names of the server and DEL prefixes its arguments. `DbError` lets any database
call throw, and a write throw after it committed. `Expire` is the time to live.
Redis may go down and come up at any time.

`blame` is a history variable: why the cached copy of a todo may be stale.

`TodoStore` has no cache. A request is opened, decided and returned; a read of
one todo may be answered with any version the row has held, a page holds such
versions of todos of its user, a write is decided against the row at the moment
of its commit, a failed call answers 500 and may or may not have committed.
`ImplementsStore` is `TodoCache => TodoStore!Spec` with `phase` and `result`
computed from `pc`, `seen` and `result`: the decision is the last database
call, not the answer.

### Throttler

Calls move through `idle`, `redis`, `fallback`, `guard`. `RedisIncrement` is
the script of the Redis storage (external: modelled from what the code does with
its answer). `RedisThrows` is any failure of it, with the script having run or
not. The three branches of `fallback` are three actions. The record a call
returns is shared with the Map: a later call that counts changes what the
guards of earlier calls will read, which `SameObject` says. `counted` and
`admitted` are history variables.

A limit of 0 is one the validator lets through (a blank `THROTTLE_LIMIT`): the
script of Redis then blocks every call, while the fallback lets the first call
of a window through without comparing it with the limit (`FallbackNew`).
`Budget` says so.

### RedisClients and Shutdown

A client is `connecting`, `ready` or `end`. `attempts` is the argument of
retryStrategy: more than `MaxRetries` gives the client up. Shutdown adds the
requests (the `finish` and `close` listeners each decrement), the order of
Nest's hooks, and `destroy`.

ShutdownModule imports RequestTrackingModule and gets the tracker of that
module; AppModule provides a second tracker, the one in which the middleware
counts. `active` is the counter of AppModule; the service reads the other, which
stays 0 (`GetActiveRequests`), and Nest closes the HTTP server before it calls
the hook (`HookDue`). So the loop of waitForRequestsToFinish and its timeout are
never entered, and no action stands for them.

### RequestPipeline

One request is a route, a header, and what was thrown for it. Errors keep the
three things the filter looks at: their class, the status they carry and the
Prisma code. `Throw` records twice because catchError and finalize both call
recordMetrics. The order inside `Return` is that of the interceptors: the
unified response sets 204 before finalize reads the status. Nest registers the
body parser behind the middlewares of appSetup and before the router, so a body
that cannot be read fails before the guards, on any url; a body that is too
large carries no HttpException and is answered 500, not 413. No pipe checks the
id of a todo: PostgreSQL refuses one that is not a UUID, and the mapper makes a
400 of P2007 (`test/todos.e2e-spec.ts:159`).

### Observability

Every action is an action of RequestPipeline with what it logs and reports, so
that the two implement each other step by step (`ImplementsPipeline` is proved).
`store[r]` is the map AsyncLocalStorage holds for the calls of a request,
`traceId[r]` the header its client gets. A client may send any id, its own or
one another client sends. `captured` is the mark the Sentry SDK leaves on an
error object: the filter captures the very object the interceptor captured
before, and nothing is sent again. `NamedLike` says which classes an ignored
text hits: `BaseError` sets no name of its own. Assumed of libraries: the SDK
forks a scope for each request, and the body parser keeps the context of
AsyncLocalStorage.

### Configuration and Startup

A text of the environment is one of nine that the code tells apart; `Transform`
is what the `@Transform` and the validator of a kind of field make of it, and
`Read` adds what class-transformer does with a variable that is not there: the
initializer stays. `Startup` has one process, the orchestrator that restarts it,
operators who change the environment between starts, and a database that comes
and goes; `answered` is a history variable. wait-for-db runs beside it.

### Health

A probe is a request of Shutdown with a path. Its checks start in the turn of
its arrival (`/metrics`, in a middleware, before the guards) or when the guards
have let it through; they settle in any order (`DatabasePing`, `RedisPong`, or
the loss of the connection, `LostPings`), and `Conclude` sets the report and,
for a scrape, the gauge. A handler goes on after its client has left.
`ProcessStep` is every step of Shutdown and RedisClients, with the probes that
lose a ping to it. `wavered` is a history variable: whether the database
changed, or was too slow for a check, since the scrapes that overlap began.

### TodoQueries

Each client of one user walks the pages of a query: it asks (`Begin`,
`NextPage`), is answered from the cache or not (`GetPage`), and if not, gets the
items from findMany and the total from count, and the page is stored and
answered (`SetPage`). It asks on until meta says that there is no next page.
Clients create, remove and update todos meanwhile. findMany may order todos with
equal sort keys in any way, anew each time.

`cache` is the set of pages in Redis, each with the query that is its key. A page
that is there need not be found: its 30 s may be over, or Redis away. No commit
takes a page out: update and remove delete another key, and the delByPattern of
create matches no name, which `todo_create_lists` finds and
`PrefixedListsOnlyExpire` proves. Todos are numbered in the order of their
creation; two that are created in one millisecond are left out.

History: `shown` counts how often a walk has shown each todo; `settled` says of a
page that no commit fell between its two statements, `moved` that one may have
moved todos since it was read, and `shifted` that one may have since the oldest
page of the walk was read. A create moves nothing in a list by creation time.
`UpdateDto` is the body the PATCH handler gets: the initializer of
`CreateTodoDto` survives PartialType.

### Deploy

A release `v` is at a step of a job, `at[v]`. The registry of task definitions,
the schema, the ECS service and the revisions with running tasks are shared by
all releases. A job registers a definition and goes on with its number
(`migration[v]`, `revision[v]`); the clean-up works from the list it has taken
(`listed[v]`). `Fail` is any failed call or a wait that runs out of time,
`Rerun` the re-run of the failed job, from its first step; a migration task
that was started runs on. `run-task` and `update-service` need an ACTIVE
definition. A version's image holds the migrations of all versions up to it.

## 3. Runs

Passing runs:

| Run | Instance | Shows |
|---|---|---|
| `todo_store` | 2 todos of 2 users, one without a row, 2 requests, 2 mutations, 1 outage, database failures, no key prefix | types, CommittedOnly, StaleHasCause, OneRemover, ImplementsStore |
| `todo_live` | 1 todo, 2 requests, the prefix of the module, fair, calls to a connected Redis may hang | HangsOnlyAtRedis, EventuallyConsistent |
| `throttle_window` | 2 instances, 2 calls at once, 4 arrivals, limit 1, time to 4 | types, WindowBudget, RejectedIsOverLimit, BlockOutlivesWindow |
| `shutdown_safety` | Health over Shutdown: 2 requests, 1 Redis client, 1 retry, fair, handlers, guards and Redis may hang | types, PositiveMeansActive, AnsweredBeforeRelease, GaugeIsCurrent, ShutdownUnseen, ShutdownHeldUp, ClientsSettle |
| `pipeline_metrics` | Observability over RequestPipeline: 2 requests on any route, 1 id that clients send, 1 excluded route, 1 ignored name, Sentry on and off, fair | types, ErrorsMatchAnswers, SuccessesMetered, GaugeNeverOvercounts, TracedEverywhere, FailuresOnRecord, EveryRequestAnswered |
| `query_walk` | any table of up to 2 todos, 1 client, 2 walks, 7 queries, 1 commit, fair | types, MetaMatchesItems, WalkIsComplete, WalkEnds |
| `startup` | one variable of each kind right, missing, blank or wrong, fail-fast on and off, the host known or not, 3 tries, fair | types, SoundStart, StartsInTheEnd |
| `deploy` | 2 releases, the last 2 revisions kept, 1 re-run, 1 rollback | types, MigratedBeforeServed, LastRevisionsKept |

Runs that find a disagreement between the code and what the repository says of it:

| Run | Statement | What happens |
|---|---|---|
| `todo_create_lists` | REVIEW.md: cache invalidated on mutation | KEYS does not get the prefix, so nothing is deleted |
| `throttle_alias` | unit test: a call is blocked over the limit | a call within the limit is turned away, its record changed before its guard read it |
| `shutdown_hang` | docs/fault-tolerance.md: a shutdown waits for a configurable timeout, then the remaining requests are terminated | a request that hangs keeps the server from closing, and the timeout comes after the close |
| `query_patch` | a PATCH has the fields of CreateTodoDto, all optional | a PATCH without `completed` sets it to false |

Met while modelling, each reachable in the model, and without a run of its own:

* `update` and `remove` never touch the list pages of the owner
  (`todos.service.ts:107`), so a page may show an old todo until its time to
  live is over; EventuallyConsistent allows exactly that.
* A read that began before a removal caches the row after it; for the time to
  live the deleted todo is found again, where `test/todos.e2e-spec.ts:412`
  expects 404. StaleHasCause names this cause.
* A fallback block as long as the window is dropped with its window
  (`throttler.storage.ts:34`), although `throttler.storage.spec.ts:56` has a
  block in force returned.
* A request that throws takes the gauge `http_requests_in_flight` down twice,
  in catchError and in finalize (`http-metrics.interceptor.ts:45`), and leaves
  it at -1; GaugeNeverOvercounts is the half of its help text that holds.
* `finish` and `close` both decrement the tracker
  (`request-tracking.middleware.ts:13`; docs/fault-tolerance.md:103 has one
  decrement), so it drifts below zero: PositiveMeansActive is one direction only.
* Neither a cache call, nor a ping of Redis, nor `quit` has a timeout
  (`_base.client.ts:31` sets connectTimeout alone), so a connection that stalls
  while it is open leaves a request without an answer, although the cache is
  "optional — non-blocking" (docs/logging-observability.md:221): HangsOnlyAtRedis
  and ShutdownHeldUp say that nothing else does.
* `quit` rejects on a client that is reconnecting, and `destroy` then skips
  `disconnect` (`redis-manager.service.ts:31`).
* A client whose retryStrategy has given up never comes back, and the fallback
  of docs/fault-tolerance.md:78 lasts until the process ends.
* The shutdown check of `/health` (docs/logging-observability.md:235) is never
  seen down by a client that waits: ShutdownUnseen.
* The error rate of the dashboard (`metrics.dashboard.json:89`) divides the
  errors of guards by requests that do not include them.
* The filter answers 200 to a failed `/health` (`global-exception.filter.ts:61`),
  where docs/logging-observability.md:231 wants non-200; that answer leaves no
  error line and no report either (`CatchHealthUnreported`).
* Validation errors are reported to Sentry: `beforeSend` looks for the name
  ValidationError (`sentry.service.ts:33`, "must be skipped from Sentry"), which
  the class DtoValidationErrors does not have.
* No report names the user: the interceptor captures the error before the filter
  calls setUser (`global-exception.filter.ts:75`; docs/error-handling.md:138).
* A report of the filter alone, for 401, 404 and 429, has no `extra.traceId`:
  it reads `req.traceId`, which nothing sets (docs/error-handling.md:114). Its
  tag has the id.
* The request line never shows the body: the logging middleware runs before the
  body parser (`logging.middleware.spec.ts:77` expects it).
* A trace id is unique only while clients do not send the same one
  (docs/logging-observability.md:105).
* A blank `THROTTLE_LIMIT` reads as 0, which the validator accepts: Redis then
  turns every call away, and the fallback lets the first call of each window
  through. A blank `THROTTLE_TTL` reads as 0 as well, and the fallback then
  limits nothing, which is why WindowBudgetHolds assumes `Ttl > 0`.
* `global-exception.filter.spec.ts:87` expects 500 for an HttpException of 403;
  the filter answers with the exception's own status
  (`global-exception.filter.ts:54`), which is what FilterStatus has.
* A list page cached before a commit is one page of a walk whose other pages
  are read after it, so a walk may repeat or skip a todo although nothing is
  committed while it runs (`todos.service.ts:33`); WalkIsComplete counts the
  commits from the reading of the oldest page.
* `DATABASE_HOST` is read unvalidated (`generate-url.ts:6`), so its absence is a
  database that never answers and no configuration error
  (docs/configuration-management.md:206); `SENTRY_DSN` is required even when
  Sentry is off.
* "If database is not available, the application will shutdown"
  (docs/fault-tolerance.md:115) holds at the start and with fail-fast; a database
  that goes away later ends nothing (`DatabaseFlips`).
* wait-for-db sleeps after its last try and does not look again.
* Each re-run of a failed deploy job registers another revision, so the last
  three may all be one version, where docs/release-management.md:255 wants the
  previous working version to roll back to.

### Bounds, and why they are enough

* `Procs`: two requests show every race of a reader and a writer, or of two
  removals; StaleHasCause, CommittedOnly and OneRemover are proved for any
  number. Requests are symmetric.
* `todo_store` has no key prefix, because with it delByPattern finds nothing
  and its second half is never reached; `todo_live` and `todo_create_lists` have
  the prefix of the module, and the proofs hold for every prefix.
* `MaxMutations = 2` allows create then remove, update then remove, and two
  updates, so that a fill may be stale by one commit and by two; the initial
  states include todos that exist.
* `MaxOutages = 1`: Redis starts either way and may change once more, so a DEL
  may be lost and the cache may come back with old entries.
* `Queries` of TodoCache has one member: pages of one user differ only in what
  they show.
* `Throttler`: the limit 1 is reached by the first call and passed by the
  second; `MaxTime` covers two windows and the turn between them; four arrivals
  let a window be passed, expire and start again. A call counted in Redis is
  not judged by WindowBudget, which is about the fallback.
* `Shutdown`: `shutdown_safety` has one Redis client, because both run the code
  of BaseRedisService and meet only in `destroy`, which waits for both; the
  proofs hold for any number. `MaxRetries = 1` lets a client give up, and not,
  before a shutdown. Requests are used once; two let scrapes overlap each other
  and the shutdown.
* `RequestPipeline`: each request is used once; two show that counters add up
  over interleavings, and two contexts of AsyncLocalStorage that might mix. One
  id that both may send is enough for requests to share one; the excluded route
  and the ignored name make both branches of their checks happen. The proofs
  have no such bound.
* `Startup`: a field is read by itself, so one bad field of each kind at a time
  shows what any combination does; three tries let the wait succeed at the
  first, a middle and the last, and give up. The proofs cover every set of
  environments.
* `TodoQueries`: two todos make a full page of one and a last one, or a page of
  the default limit (2, for 10); a create makes a third page, of a cached walk
  too short by one. The second walk is what it takes to be answered from the
  cache, with pages as old as each other or not; one commit falls before, between
  and after the statements and the pages. The seven queries meet every filter,
  both sort directions, every sort key, the offsets 0, 1 and 2, and the limit
  that validation refuses. Clients share nothing but the cache and the table, and
  one that walks twice leaves the pages another would find; the proofs hold for
  any set of clients.
* `Deploy`: two releases and one re-run of a job reach four revisions with the
  first, two of which overlapping clean-ups remove.

Deadlock is checked except where the model really stops: a process that has
exited, a clock and arrivals at their bounds, requests that are all answered.

### Fairness

What is fair is what the process, the database or a timer brings about; what no
code bounds is not.

* Todo requests: weak fairness of a slot's step while it is at a database call,
  or at a cache call without a connection to Redis, which is rejected at once
  because the offline queue is off. A call to a connected Redis may stay
  unsettled (there is no commandTimeout), so none of these is fair. That the
  database settles its calls is assumed. Weak fairness of `Expire`, because Redis
  drops an entry when its time has passed. Clients, failures and outages are not
  fair.
* Shutdown and Health (`HealthFairness`): reconnect timers, a database ping,
  which ends within its second with one answer or the other, a probe whose
  checks have settled, the answer of a probe that has its report, the close of a
  response that is written, the hook, `$disconnect` (assumed to return) and the
  exit. Not fair: any other handler, the guards (they ask Redis), the answer of
  a connected Redis to a ping or to `quit`. ShutdownHeldUp says that these are
  all that can hold a shutdown up, `shutdown_hang` that they do.
* Queries: the two statements, the client that asks for the next page, and, in
  this module alone, the list cache answering or refusing: what becomes of a
  request whose cache call does neither is the subject of HangsOnlyAtRedis.
* Pipeline: body parser, guard or handler returns or throws. That they do is
  assumed here; what keeps them from it is the subject of the runs above.
* Startup: the orchestrator restarts (`restart: always` in docker-compose.yml,
  the ECS service otherwise), the steps of a start return, the timer of the wait
  fires. StartsInTheEnd asks in its premise that the environment and the
  database are right from some moment on.

## 4. Proofs

All theorems are checked by TLAPS, without a bound on any constant.

* `TodoCacheProofs`: `TypeCorrect`, `CommittedOnlyHolds`, `StaleHasCauseHolds`,
  `OneRemoverHolds`. CommittedOnly is inductive with the types. StaleHasCause
  needs `SafeInv`: what a slot holds between its database call and its SET is a
  version the row has had, and an entry that is neither blamed nor about to be
  deleted is the current row. A fill of a stale value sets the blame in the same
  step as the entry, a commit moves its slot to the DEL in the same step as the
  row. OneRemover needs `RemoveInv`: a slot past its commit, or answered 204,
  removed a row that is dead now, and no other insert may take its id
  (`Unused`), so a second deletion finds no row.
  `ImplementsStoreHolds` is the refinement, one lemma for each action: a step
  that makes the last database call of its request is `Decide` of the store, a
  first or a last await opens or returns, everything else stutters. It needs
  `StoreInv`, which adds to `SafeInv` that a page, cached or about to be, shows
  todos of its user only, each at one version (`PageShape`), and that a request
  holds todos only between its database call and its answer (`NothingHeld`).
  `PrefixedListsOnlyExpire` assumes `PrefixedKeys`, a key prefix other than
  `todos` (the module uses `cache:`, `redis-manager.module.ts:29`): then no
  pattern matches a name on the server, and a list page leaves the cache only by
  its time to live. It is the general form of what `todo_create_lists` finds.
* `ThrottlerProofs`: `TypeCorrect`, `BlockOutlivesWindowHolds`,
  `WindowBudgetHolds`, `RejectedIsOverLimitHolds`, for every limit and ttl,
  0 included. BlockOutlivesWindow and WindowBudget assume `BlockDuration >= Ttl`:
  the guard passes the ttl when no block duration is configured, and none is.
  WindowBudget also assumes `Ttl > 0` (a window of no length limits nothing) and
  finitely many calls at once. Its invariant is a tally: the calls a window admitted,
  plus the guards that hold an answer of that window which lets them through, are
  at most the hits of the record, which are at most the budget (the limit, or the
  one call a limit of 0 admits) unless the record is blocked, in which case every
  guard that shares it sees the block. An older window is closed: its record is no longer in the Map.
  RejectedIsOverLimit assumes nothing of the block duration: `HitsAreCounted`
  says that the hits of a record in the Map are at most the calls its window has
  counted, and that these are over the limit when the record is blocked.
  `ApartIsAdmitted` names the one cause of what `throttle_alias` finds: while no
  two calls of a client wait for their guards on one instance together
  (`WaitApart`), every call within the limit is let through.
* `HealthProofs`, about Shutdown: `TypeCorrect`, `PositiveMeansActiveHolds`,
  `AnsweredBeforeReleaseHolds`, with no assumption on the requests or clients.
  `HookOrder` says that from `releasing` on nothing is in flight and nothing
  arrives; `CountBound` that the counter is at most the requests being handled;
  `EndedWhenSpent` that a client has ended when its attempts are spent, which
  bounds `attempts`.
* `RequestPipelineProofs`: `TypeCorrect`, `ErrorsMatchAnswersHolds`,
  `SuccessesMeteredHolds`, `GaugeNeverOvercountsHolds`, with no assumption.
  `ShapeInv` relates stage, route, error and status (what has failed carries an
  error the filter can map); `ErrorCount`, `MeteredCount` and `GaugeBound` are
  the counting parts, each step adding one request to one set of answers.
* `DeployProofs`: `TypeCorrect`, `MigratedBeforeServedHolds`,
  `LastRevisionsKeptHolds`, with no assumption but the types of the constants.
  `Migrated` says that a release past its migrations job, a migration task that
  ended well and every registered revision are at most the schema, which only
  grows; a failed verification is the one way on that must be closed. `Kept`
  says that what a clean-up has still to deregister is older than the last
  `Keep` revisions: true when it is listed (`OutdatedIsOld` counts the newer
  active definitions), and no later registration can make it false.
* `ObservabilityProofs`: `ImplementsPipeline`, `ObservabilityTypeCorrect`,
  `TracedEverywhereHolds`, `FailuresOnRecordHolds`, from the assumption that the
  empty id is no id of a client and ignored names are known ones. The refinement
  carries the theorems of RequestPipelineProofs over (`ObservedCountersHold`).
  `FollowedInv` says that a request past the middleware has its client's id in
  its store and, if Sentry is on, in its tag. `RecordInv` is the record by
  stage: a request that is not answered has no error line, one that failed in
  the handler is captured and reported already, one that failed before is not.
* `HealthProofs`, about Health: `ImplementsShutdown`, `HealthTypeCorrect`,
  `ShutdownUnseenHolds`, `GaugeIsCurrentHolds`. The refinement carries the
  theorems about Shutdown over to a process that is watched. `ProbeInv` says
  that a scrape has its checks started with it, while no shutdown can be seen.
  ShutdownUnseen rests on `HookOrder`: what a handler starts once the flag is set
  has no client left. For GaugeIsCurrent, `Fresh`
  says that since the batch of scrapes began each scrape under way has seen
  nothing but the present state of the database; so whichever ends last, failed
  or not, puts that state into the gauge.
* `StartupProofs`: `TypeCorrect`, `SoundStartHolds`. `ReadSound` says of every
  field and text that what is read is refused or of the declared kind;
  `ConfigSound` keeps it from the moment the configuration is read, before the
  port opens.
* `TodoQueriesProofs`: `TypeCorrect`, `MetaMatchesItemsHolds`,
  `WalkIsCompleteHolds`, `OnlyCompletedIsResetHolds`, for every set of query
  strings of the type `TodosQueryDto`; `Unset` is assumed to be no number, flag,
  name of a field or todo. `Inv` says of every page in the cache that it is
  `Complete`: its meta is that of its query, its length is what meta says while
  it is settled, and while no commit has moved it, its todos stand at its places
  of the list (`Placed`) and no todo that matched is beyond its total. Places are
  counted by `Rank`, how many matching todos sort before, and one: when the sort
  key tells todos apart, every order the database may take is the same list
  (`RankIsPlace`, a bijection of the smaller places), so pages read by several
  clients in separate queries are slices of one list. `WalkShape` says of a walk
  that the places its pages cover are the ones shown, each once, and that the
  next page starts behind them. A commit either marks every page and walk or
  keeps the places of all todos there (`AppendKeeps`: a new todo at the end of a
  list by creation time).
  OnlyCompletedIsReset bounds what `query_patch` finds: the one unsent field a
  PATCH changes is a `completed` that was true.

Only model-checked: everything under fairness (TLAPS has no support for
ENABLED): HangsOnlyAtRedis, EventuallyConsistent, ShutdownHeldUp, ClientsSettle,
EveryRequestAnswered of the pipeline, WalkEnds and StartsInTheEnd. Every
invariant that a passing run checks, and the refinement `ImplementsStore`, is
also proved. No module has a recursive definition.

## 5. Not modelled, and why

* What `Deploy` sees of a start: there a task starts or does not.
* CORS, helmet and compression: headers for browsers and the size of an answer;
  the server handles a request of a refused origin like any other.
* The format of a log line, redaction, and the level threshold of pino; lines
  written outside a request.
* Database metrics: one query and a loop of gauge sets. The labels of queries
  that are no longer among the slowest keep their last value, because nothing
  resets the gauge (`metrics.service.ts:30`).
* The texts of todos: in TodoQueries a text is its place in the alphabet and
  contains only itself, which is enough for filter and sort.
* Contents of the cached pages in TodoCache, which has the set of todos a page
  shows; TodoQueries has their order, meta and query.
* The wait of the shutdown service, which is never entered (see Shutdown).
* The availability of the ECS service during a rolling update: it is decided by
  ECS, of which the workflows only ask to be stable.
* Swagger, the version endpoint, the client log stubs, seeds, migrations and
  dashboards: nothing another part reads. The lint configuration and the
  decorators of the API description have no behaviour at run time.
* Durations and their histograms; label values other than the status.

## 6. Plan

Done, in this order: TodoCache with TodoStore, Throttler, Shutdown with
RedisClients, RequestPipeline, TodoQueries, Health, Deploy, Observability,
Configuration with Startup.

1. `Startup` composed with `Deploy`: what a rolling update does with tasks that
   cannot start.
2. An abstract specification of the throttler (a counter per client that never
   fails) which each fallback window implements.
3. Connections of one process to the replicas of the load balancer: what the
   list pages of two processes show a client that alternates between them.
