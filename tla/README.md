# go-bootkit in TLA+

A verification development for go-bootkit, a kit of lifecycle-managed components for Go
services. The modules are translated from the Go source (paths below are relative to the
repository) and checked with TLC on small instances. Every safety property that a passing run
checks is also proved with TLAPS, for every value of the constants.

## The system

| Part | Source | State it keeps | Concurrency | Status |
|---|---|---|---|---|
| `core.Lifecycle` | `core/lifecycle.go` | `mu`, `ready`, `stopFunc`, `stopped` | Start, Stop, WaitReady from any goroutine | `Lifecycle`, proved |
| `core.ApplicationRunner` | `core/runner.go` | services, errgroup, contexts, remaining shutdown time | one Start and one watcher goroutine per service | `Runner`, proved |
| `healthkit.Aggregator` | `core/healthkit/health.go` | check lists, one cached result and one flight per kind | one goroutine per HTTP probe and per check | `Health`, proved |
| `databasekit.TxManager`, pgx adapters | `databasekit/txmanager.go`, `adapter.go` | the Tx on the context; connection and savepoints in pgx | contexts and connection fail at any time | `TxManager`, proved |
| `databasekit.PostgresDB` | `databasekit/database.go` | `pool` | Connect in Start, queries from requests | `Connect`, `App`, proved |
| `core/retry` | `core/retry/retry.go` | attempt, backoff | timer against context | `Connect`, proved |
| `serverkit.HTTPServer` | `serverkit/server.go` | listener, server | Serve goroutine, Shutdown | `App`, proved |
| `cachekit.RedisCache`, `memcache` | `cachekit/` | `client`; a map | requests | `Connect`, `App`, `Orders`, proved |
| `workerkit.AsynqServer`, `AsynqClient`, `memqueue` | `workerkit/` | asynq server and client; a list | Shutdown against its context; enqueuers | `Worker`, proved |
| `examples/orders` service, repositories, handlers | `examples/orders/` | product rows, orders, cached products | one goroutine per request | `Orders`, proved |
| hooks, trace handler, router, options, config | several | none that outlives a call | none | not modelled: output and configuration |

`Runner` starts and stops components; every component of the kit embeds a `Lifecycle`,
whose readiness channel the runner's start deadline and the gates of `TxManager` and
`AsynqClient` wait for. The runner registers the components' health checks with the
aggregator before it starts anything, and HTTP probes evaluate them. A program registers its
database, cache, workers and HTTP server in that order; they start concurrently, so requests
may arrive before the backends are connected, and they stop one after the other in reverse.

## Modules

| Module | What it is |
|---|---|
| `ReleaseOnce` | abstract: a resource is absent, open, or released, in that order |
| `Lifecycle` | the detailed specification of `core.Lifecycle`, shown to implement `ReleaseOnce` |
| `Runner` | `ApplicationRunner.Run` over arbitrary components |
| `TxManager` | nested `WithTx` calls over an external pgx connection |
| `Health` | concurrent probes of one kind of check |
| `Connect` | `retry.Do` and the Connect closures of `PostgresDB` and `RedisCache` |
| `App` | composition: `Connect` for both backends, `HTTPServer`, requests, and the runner's shutdown |
| `Worker` | `AsynqClient`, `AsynqServer` and `memqueue` over an external asynq |
| `Shop` | abstract: an order takes its quantity from the stock in one step, if it is there |
| `Orders` | the requests of the orders example over an external PostgreSQL and a cache, shown to implement `Shop` |
| `MC*` | instances for TLC |
| `*Proofs` | theorems and their proofs |
| `Foundations` | lemmas of the proofs about induction, powers of two, words of a width, folds and sums |

An operator commented "Fault:" stands beside the definition it corrupts. No specification
uses it: substituted for that definition it gives the program with a plausible bug, and the
property that is meant to notice it is then violated.

### Lifecycle

Goroutines are the members of `Starters`, `Stoppers` and `Waiters`, with a program counter
each. `mu` holds the Stop that is inside the closure; Start's locked section contains no
call, so it is one step (`StartReleases` or `StartStores`). `opened` are the Starts whose
Connect returned a closure, `calls` counts the invocations of each closure. Connect may
return an error, a closure, or no closure. A second `close(ready)` panics, which ends the
program (`Crashed`).

### Runner

A context is `"live"` or holds its `Err()`. `Spawn` is the body of the supervisor's loop,
`StartReturns`/`StartCollected` the Start goroutine, `Watch*` the three cases of the
watcher's select (with the step between `cancelSvc` and the report of the deadline),
`WaitReturns` is `eg.Wait`, and `StopCall`/`StopReturns` are an iteration of the shutdown
loop. A component's Start returns nil or a failure at any time, or its context's error once
that is done. A Stop takes any time up to `LongestStop`, and `late` records that one has
taken longer than it was given (`pgxpool.Close` takes no context); what the code promises of
the shutdown's length, it promises of Stops that are not late. Time is a natural number.
errgroup is external: it keeps the first error and cancels its context after it. When a
deadline is missed `cancelSvc` runs before the report, so a Start that the cancellation makes
fail may be reported instead; the group's error is a cause either way (`RootCauseKept`).

### TxManager

WithTx calls are numbered as they are made and a call's writes are its number, so the
transaction's contents, the savepoints and the durable state are sets of calls. pgx and
PostgreSQL are external: a statement is not sent when its context is done; a failed
statement aborts the transaction until a rollback; an outer Tx whose Rollback or Commit
fails has its connection closed, and the server then rolls back; a savepoint whose Rollback
fails is just closed; a COMMIT whose connection breaks may have been carried out. fn does
not close its Tx itself.

### Health

`Arrive`, `Load`, `Lead`/`Join`, `CheckReturns`, `Conclude`, `Store`, `FlightEnds` and
`CallHook` are the steps of `evaluate`; `flight` is the singleflight group (external), `cache`
the cached result. `Conclude` takes the result's time, `Store` makes it visible and
`FlightEnds` hands it to the callers and frees the key: other probes run between them. A
probe that has its answer may arrive again, so a member of `Probes` is a client with any
number of requests, one at a time. A check fails if its backend is down, and it may fail once
the context it runs on, that of the leader's request, is done. Time is a bounded clock.
`since` and `down` in a result, `newest`, `seen` and `late` are history for the properties.
The kinds of check do not interact, so one is modelled.

A probe that missed the cache may enter the flight after `Conclude` and before `FlightEnds`
(`late`). Its answer is as old as the leader's delay there, which nothing bounds;
`NeverStale` is about all the others, `AnswersMoveOn` about all.

### Connect and App

`cpc` is where each backend's Connect is: an attempt, its ping, the backoff between attempts,
or an end. `live` counts pools or clients created and not closed, `handle` is `db.pool` and
`cache.client`. `Backoff` multiplies in `Width` bits as the code does in 64; `waited` sums
what the timers really slept. `App` gives both Connects the errgroup's context (`GroupDone`)
and adds the HTTP server (`Listen`, `ServeFails`, `StopServer`, `Drains`), requests that use
the cache and the database in the order `GetProduct` or `CreateOrder` does, and the runner's
shutdown. `Runner` shows that every Start has returned before the first Stop and that services
stop in reverse order; `App` builds that order into `phase`. A call on a nil Redis client
panics and the router's recovery answers 500; `pgxpool.Close` (external) turns new callers
away and waits for connections in use, whatever its context.

### Worker

Every task is enqueued once, by `Enqueue`, which refuses before readiness, or
`EnqueueContext`, which waits (the branch to `waiting`). `Apply` is the effect of an option on
`ProcessIn` and `ProcessAt`; `Queue` stands for the options that touch neither. `state` is the
task's state in Redis as asynq (external) keeps it, and `handling` are the tasks whose handler
runs. When asynq's own shutdown timeout ends, a worker puts its task back (`PutBack`) and leaves
the handler running; so a nil from Stop says that every task is done or queued, and not that
every handler has returned (`SettledWhenNil`). asynq's writes to Redis are taken to succeed.
`StopCalled` to `StopTimesOut` are the stop
closure and its goroutine: asynq's `Stop` has an effect only on a running server, and
`Shutdown` also follows a `Stop`. `mem` and `memId` are `memqueue`'s list and the IDs it gave.

### Orders

Each request runs through `pc`: a step per SQL statement, per cache call, and for COMMIT.
`Receive` is a handler's decoding and validation, `Status` is `renderServiceError`.
`GetForUpdate` takes the row's lock whatever the stock is, and `CheckStock` looks at the row
that it read. PostgreSQL
is external: `lock` are the row locks, `pending` and `total` what an open transaction has
written, and a statement that the table's CHECK refuses can only fail. A COMMIT that returns
an error may have been carried out. The cache is Redis, with expiry and failures, or
`memcache`, with neither. `opening` and `missed` are history for the properties.
`service.go:62` compares the text of an error to tell a miss from a failure; that decides
only what is logged.

`Shop` has the product rows and what each customer bought. `Bought` reads the latter off the
orders table and the requests; the rows are the table's own. So a transaction is invisible
until its COMMIT takes effect, which is the step `Buy`.

## Runs

| Run | Instance | Shows |
|---|---|---|
| `lifecycle` | 2 Starts, 2 Stops, 1 waiter, fair | no leak, no closure invoked twice, Stop waits for the release, no caller hangs; implements `ReleaseOnce` |
| `runner` | 2 services, Stops of up to 4, timeout 3, fair | order and budget of the shutdown, what Run's error means, and that cancellation, failure and a missed deadline each end Run |
| `txmanager` | 3 calls | connection returned; committed writes agree with what callers were told |
| `health` | 2 clients, 1 check, default TTL as 1, clock to 1, fair | answers are fresh unless joined late and never go back to an older evaluation, evaluations do not overlap, probes answered |
| `app` | 2 requests, 4 attempts for the database and 1 for the cache, 5 bits, fair | no pool lost between attempts; the backoff overflows only after a very long wait; no request meets a nil pool, nor a closed one unless the server's Stop said so; a signal or a failure ends the program |
| `worker` | 2 tasks, up to 3 options, 1 handler at a time, 1 retry, 1 Reset, fair | Stop returns nil only when no worker has a task, and returns although a handler hangs; the last schedule given is the one that counts; IDs of `memqueue` name their tasks |
| `orders` | 3 requests on 1 product, 4 bits, fair | stock and orders agree; a checked stock is still there; answers agree with the tables; the cache shows only committed stock and loses a stale entry in time; no row stays locked; implements `Shop` |

Five runs state what the repository's text says and find a behaviour of the code that
disagrees:

- `runner_graceful`: the shutdown derives each Stop's context from Run's context
  (`core/runner.go:210`), which the signal has already cancelled. No Stop gets any of the
  budget that `WithShutdownTimeout` documents, and `http.Server.Shutdown` gives up at once.
- `runner_cancel`: a start deadline watcher that is still waiting at cancellation returns
  `ctx.Err()` (`core/runner.go:190`), and Run reports `context.Canceled` though nothing failed.
- `txmanager_nested`: a nested call rolls back on its own context
  (`databasekit/txmanager.go:178`); if that has ended the savepoint stays, and the outer call
  can commit what the failed one wrote. `WithTx` does return the rollback's error as well, and
  `RolledBackStaysOut` shows that an error without it is reliable.
- `health_failure`: checks run on the leader's request (`core/healthkit/health.go:170`); when
  that client leaves, everyone who joined, and everyone the cache serves, sees a failure.
- `orders_stale`: `GetProduct` caches what it read before a concurrent order committed and
  invalidated (`examples/orders/service.go:72`). The entry is stale although no invalidation
  was missed; `StaleEnds` shows that with Redis the TTL still bounds it. With `memcache`, which
  ignores the TTL, nothing does until the next order.

### Bounds

Two Stops suffice for one to overtake the other, and two Starts for one to overwrite the
other. Two services with timeout 3 make the shares round, leave a service on either side of a
failure, and let an overrun take the remaining time below zero before it is clamped. Three
calls give nesting to depth three, an outer call with two inner ones, and consecutive
transactions. Two clients that come again give a leader with a follower, early or late, a leader
with a reader of its result, and any number of evaluations one after the other; a clock to 1
with TTL 1 lets an entry expire. Two requests
let one hold a connection while the other meets the closing pool. In 5 bits with base 4 the
third backoff overflows, as the 35th does in 64 bits with a base of a second. Three
options give every order of the two schedules with one between. Three requests give two
orders and a read that race, or two orders that compete for three pieces with a third after
them; in 4 bits 6 * 2 wraps to a negative total and 6 * 3 to a positive one. The proofs lift
the bounds for the properties they cover.

Deadlock checking is off except in the runs of `Health`: elsewhere the modelled calls come to
an end, and the numbers of calls are bounded. That nobody waits for ever is stated by the liveness
properties.

### Fairness

- `Lifecycle`: weak fairness for every call that has begun. The Go scheduler runs a runnable
  goroutine, `sync.Mutex` hands over to a starving waiter, and Connect and the closures
  return. Whether Start and Stop are called and contexts cancelled is up to the callers.
- `Runner`: weak fairness for Run's own steps, for a Start whose context is done (a
  component must honour it; nothing makes a Start return before), and for watchers, whose
  timer fires.
- `Health`: weak fairness for a probe that has arrived; a check returns at the latest when
  its timeout ends its context. Clocks, clients and backends do as they like.

- `App`: weak fairness for Connect (a ping returns, a timer fires), for Listen, for a request
  that is being served (a wait at the readiness gate ends with the router's timeout), and for
  the shutdown's steps. Signals, new requests and failures need not come.
- `Worker`: only the stop closure's select and the deadline of its context. Handlers, and
  with them `Shutdown`, may hang for ever.
- `Orders`: weak fairness for a request that is being served, and for Redis' expiry. A wait
  for a row lock is not assumed to be cut short by a timeout, so `Answered` rests on the
  locks being given up.

## Proofs

- `LifecycleProofs`. The inductive invariant `Inv` ties each closure's count to where it is:
  not invoked while its Start has not passed the locked section or, once stored, while
  `stopped` is false; `stopFunc` names a stored closure; after `stopped` the closure that is
  in `stopFunc` has been invoked. The properties alone are not inductive because they do not
  say that a stored closure is uninvoked before Stop. `MutexInv` says that a Stop inside the
  closure holds `mu`. From these: `TypeCorrect`, `AtMostOnce`, `NothingLeaks`,
  `StopIsExclusive`, and `Refinement`, which shows that each step is an Acquire or a Release
  of one owner, or a stutter.
- `RunnerProofs`. Three invariants: of the loop (services above `cur` are stopped, those
  below are pending, and the loop runs only when everything is collected), of the time
  (`spent + remaining` equals the timeout as long as no Stop was late, and
  `remaining` is at least `cur` shares; the lemmas `DivBounds`, `DivAtLeast` and `ShareLeft`
  give the arithmetic of the division), and of the errors (the group's context ends only with
  Run's context or after a recorded error, a Start that has not returned has no error, and what
  was reported has reached the group). They give the type invariant and the six other safety
  properties of the `runner` run for any number of services and any timeout.
- `HealthProofs`. `FlightInv`: the probe that evaluates owns the flight, and began after the
  cached result was concluded; once it has stored, the cached result is its own; no time is in
  the future. It gives `CacheNeverGoesBack`. `JoinInv` adds that a follower waits for the owner
  of the flight, and that a result it did not join late is concluded after it arrived: with it,
  `AnswersAreFresh`. `MoveInv` adds that the cached result is at least as recent as every
  answer given or about to be given: with it, `AnswersNeverGoBack`. The property alone says
  nothing of the cache, from which the next answer comes.
- `TxManagerProofs`. Five invariants. `StackInv`: the open calls are the one on top and those
  around it. `ConnInv`: without a held connection nothing is pending. `CleanInv`: what is
  pending, or in the savepoint of an open call, was written by a call that was not rolled
  back and whose outer call is running. `KeptInv`: a write of a call that is live, with all
  the calls around it, is pending and in every savepoint taken after it. The properties speak
  of `committed` only; these say of `pending` and the savepoints what a later COMMIT or
  ROLLBACK TO will make of them.
- `Foundations`. Induction over the naturals and over the subsets of a finite set, both as the
  absence of a least counterexample (`NatSetInduction`, `LeastSubset`), since the library's
  induction theorems take an operator that the provers cannot instantiate. `PowStep` and
  `PowPos` say what `2^n` is, from the number of subsets of a set of n elements; `WrapFits`
  that a number that fits a word is left alone; `FoldExists` that a fold over a finite set has
  the value its recursion describes; `SumAdd`, `SumSame` and `SumEmpty` that a sum does not
  depend on the order in which its terms are taken.
- `AppProofs`. `PoolInv` ties `handle`, `ready` and `live` to where the Connects and the
  shutdown are; `ServerInv` says that requests are active only while the server serves or
  after its Stop has reported an error. Both are needed: that a closed pool is met only after
  a report follows from the pool being closed in the last phase alone. `WaitInv` is about
  `retry.Do`: until the waits come near the longest duration, those up to attempt n add up to
  at least `Base * 2^n - Base`, so the next backoff still fits the word and is at least
  `Base * 2^n`. It gives `BackoffHolds`; the property alone does not bound `waited` from below.
- `WorkerProofs`. `StopInv`: a closed server has no active task, a handler without a worker
  is one whose task was put back, and Stop returns nil only after the server has closed. `MemInv`: the tasks in the list were enqueued before, and each has the
  number of its place, so that a new one does not rename an old one. `Chosen` says
  what a set of options should set: a field is set if and only if its option is among them
  with nothing but `Queue` behind it. Adding the last option keeps that true
  (`ChosenStep`), so a least set of options where the loop and `Chosen` differ does not exist
  (`AppliedIsChosen`). `LastGivenWins` is that for the whole list.
- `OrdersProofs`. `LockInv`: a request between its SELECT ... FOR UPDATE and the end of its
  transaction holds the row's lock, the row is still what it read when it checks the stock, and
  from the check to the decrement the row has at least the stock it needs.
  Three more invariants are built on it. `RequestInv` adds what validation has let through,
  and that what an open transaction has read and written (`read`, `pending`, `total`) is still
  true of the row it has locked; without the lock another commit would falsify it. `OrderInv`
  ties each stored order to its request: where that is, what it was answered, and that the
  total is the wrapped product. `BookInv` adds the accounts: the orders of a product are
  finitely many, stock and orders add up, and each copy of a row, in the cache or on its way
  there, is the row plus what some of the later orders took. `NeverDirty` alone is not
  inductive because it says nothing of a reader that has yet to store its copy. They give
  `BooksAgree`, `NeverOversold`, `AnswersAreTrue`, `CacheIsClean`, the action property
  `RecordsStay` and the refinement `OrdersAreAtomic`: a step that inserts a product is an
  `Offer`, a COMMIT that takes effect is a `Buy`, and every other step is a stutter.

The assumptions are the typing of the constants (`NoneAssumption`, `RunnerAssumption`,
`HealthAssumption`, `MaxCallsAssumption`, `ConnectAssumption`, `WorkerAssumption`,
`OrdersAssumption`), which TLC evaluates in every run. The number of requests in `Orders`
may be infinite; only the orders placed so far are finitely many, and that is proved.

Model-checked only: the liveness properties (`CallsReturn`, `CancelEndsRun`, `FailureEndsRun`,
`DeadlineEnforced`, `ProbesAnswered`, `AppEnds`, `StopReturns`, `StaleEnds`, `Answered`), which
need fairness and ENABLED, out of the prover's reach. The type invariant of `Health` is only
proved.

## Not modelled

- Metrics hooks (`core/hooks.go`, `core/otelkit`) and `core/trace_handler.go`: output that
  nothing in the program reads. The runner calls the start hook only when Start returns
  (`core/runner.go:169`), so a "startup" duration is the service's whole life.
- Options, configuration and constructors' argument checks: they set fields once, before
  anything runs. Their effects are constants of the models.
- The router's middleware, apart from panic recovery and the timeout, and the encoding of
  requests, responses and cached values.
- The components' readiness checks: each is a Ping or a look at the Ready channel; `Health`
  takes any check.
- Two TxManagers in one context: `txKey` is shared (`databasekit/txmanager.go:128`), so the
  inner one would open a savepoint in the outer one's database. fn closing its own Tx.
- `Exists` of the caches and `Tasks` of `memqueue`, which change nothing, and `Reset` of
  `memcache`, which tests use.
- `App` leaves out the asynq client and server, which no request of the example uses; their
  stop closures are in `Worker`.
- A data race on `cache.client`: `App` reads it as nil or as stored, the outcomes that a
  one-word pointer has.
