# A TLA+ model of the cinema booking service

This directory holds TLA+ specifications of the booking service, the TLC runs
that check them and the TLAPS proofs about them. Paths are relative to the
repository root. `PROJECT.json` lists, for every definition, the source lines it
models; for every property, the code mutation that breaks it; and the findings.

## 1. Inventory

The service is a Go program in layers: HTTP handlers call use cases, use cases
call repositories (PostgreSQL) and a payment provider. All shared state is in
the database and at the gateway; any number of requests, of any number of
replicas, run concurrently. A background worker sweeps lapsed holds.

| Component | State | Operations | What is hard, and what makes it right |
|---|---|---|---|
| Booking use case (`internal/usecase/booking.go`) | none | HoldSeats, Get, ListForUser, Release, ExpireHolds | checks before the transaction are stale when it runs; Release checks and cancels in two statements |
| Booking repository (`internal/adapters/postgres/booking.go`, `migrations/0001_init.sql`) | `bookings`, `booking_seats` | Hold, Confirm, Cancel, ExtendHold, ExpireDueHolds, lookups | locks and unique indexes under READ COMMITTED, deadlocks, retries, lost commits. No seat twice, all seats or none, one booking per key, refusals only for live claims |
| Catalog (`postgres/catalog.go`, `usecase/catalog.go`) | `movies`, `halls`, `seats`, `showtimes` (never written by the service) | GetShowtime, SeatsByIDs, SeatMap, lists | the seat map must agree with the booking view although the sweeper lags |
| Payment use case (`internal/usecase/payment.go`) | none | StartCheckout, HandleWebhook, CancelBooking, GetPayment | gateway calls between database statements, callbacks repeated, late or out of order, crashes. Seats only for money, money back without seats |
| Payment repository (`postgres/payment.go`) | `payments`, `payment_events` | Create, Update, RecordEvent, lookups | one open payment per booking, settled is settled, an event counts once |
| Provider (`adapters/payment/mock`) | intents by idempotency key | CreateIntent, Refund, Cancel, ParseWebhook, BuildEvent | stands for a gateway that fails, captures late and redelivers |
| Transactions (`postgres/db.go`, `errors.go`) | pool; the transaction in a context | WithTx, retryable errors | nested calls join the outer transaction; a commit may land and report an error |
| Hold expirer (`internal/worker/expirer.go`) | ticker | Run, sweep | bounded batches must still reach every lapsed hold |
| HTTP layer (`adapters/http`: router, middleware, handlers, responses) | token buckets per IP; per request a context and two status recorders | the middleware chain, routing, decoding, handlers, error mapping | ten layers each see a request, an answer or a panic; what is sent, logged and counted must agree, nothing gets round a check, a success means success, the deadline ends every request |
| Migrator (`postgres/migrate.go`) | `schema_migrations` | Migrate | replicas starting together, a crash between migrations |
| Server and process (`internal/server`, `cmd`) | listener, signal context, pool | run, NewContainer, Server.Run, shutdown | drain deadline against running requests and the sweeper, signals at any time, failed starts; every shutdown ends and the pool outlives its users |
| Configuration (`internal/config`) | none | Load | zero, negative and overflowing values; production must not start with a demo setting; every problem in one report |
| Browser client (`static/script.js`) | showtime, selection, booking, payment, countdown, grid | clicks, polls, the countdown, answers | answers late, lost and out of order. The page must not give up seats that are still held, and must come to show the server's seats |
| Logger and metrics, domain errors | — | one log line and one count per request; the sentinels | modelled where they meet the HTTP layer |
| Seed data (`postgres/seed.sql`) | — | one statement at the start | not modelled |

Interactions: HoldSeats writes a booking that StartCheckout extends and opens a
payment for; the gateway's callback, through HandleWebhook, confirms or cancels
that booking; CancelBooking and Release write the same rows; the sweeper and
every Hold of the same showtime expire them. They meet only in the database, by
row locks and unique indexes, and at the gateway.

## 2. Modules

| Module | What it is |
|---|---|
| `SeatLedger` | abstract: which booking owns each seat; a reservation is one step |
| `SeatHold` | HoldSeats and the booking repository, one action per SQL statement; refines `SeatLedger` |
| `SeatHoldProofs` | TLAPS proofs about `SeatHold` |
| `PaymentLedger` | abstract: bookings, their payments and the money each has moved, without calls, callbacks or gateway |
| `PaymentLedgerProofs` | what follows from it, proved |
| `Checkout` | StartCheckout, CancelBooking, Release, HandleWebhook and the gateway, one action per statement or gateway call; refines `PaymentLedger` |
| `CheckoutProofs` | proofs about `Checkout`, the refinement among them |
| `Migrator`, `MigratorProofs` | DB.Migrate in several starting replicas, one action per statement, and its proofs |
| `RateLimiter`, `RateLimiterProofs` | the throttle per client address, and its proofs |
| `RequestPipeline`, `RequestPipelineProofs` | one HTTP request through the middleware chain, the mux, a handler and its calls, and back, and its proofs |
| `Config` | config.Load and what the wired parts make of it, as operators |
| `Lifecycle`, `LifecycleProofs` | one process from start to exit under any environment: extends `Config`; proofs about both |
| `BrowserClient`, `BrowserClientProofs` | the page, its requests in flight, and as much of the server as it can tell, and a proof about the countdown |
| `MCSeatHold`, `MCCheckout` | instances for TLC; the other modules need none of their own |

`SeatHold` and `Checkout` overlap in the `bookings` row: `SeatHold` has the seats in
full and of payments only that they confirm, extend or cancel; `Checkout` has the
payments in full and of the seats only whether the booking still has them.
`RequestPipeline` takes the outcome of a use case call as any that the two allow,
`Lifecycle` takes a request as a user of the connection pool, and `BrowserClient` sees
the answers.

### SeatHold

A call inserts at most one booking, so the row is named by the call. `status`,
`expires` and `claims` are the *committed* rows of `bookings` and the active rows
of `booking_seats`. What an open transaction has written is kept apart
(`lapsed`, `until`, `claimed`) and is at the same time the set of its locks;
`COMMIT` publishes it in one step, and a rollback forgets it. `began` is the
transaction's start, to which PostgreSQL freezes `now()`, while the new hold's
expiry is `time.Now()` on the server: `Due` and `InsertBooking` keep the two apart.

`pc` follows the code: `submit` (Validate), `lookup` (GetByIdempotencyKey),
`check` (GetShowtime, assertBookable, SeatsByIDs), `begin`, `lapse`
(releaseLapsedForShowtime, row by row in any order), `insert` (INSERT INTO
bookings), `claim` (INSERT INTO booking_seats, one seat at a time in id order),
`commit`, `replay` (the lookup after errIdempotentReplay), `done`.
A statement that meets a lock of another open transaction waits (`WaitsFor`);
PostgreSQL fails a member of a circle of waits (`WaitsThrough`, `DeadlockVictim`), and Hold
retries as after a `ReferenceCollision`, up to `HoldMaxAttempts`. `Abort` is a
timeout or lost connection at any statement; `Commit` may land although the
caller is told of an error.

Confirm, Cancel, ExtendHold and the sweep are one step each: each of them waits
at most for its first row lock (the guard `~Locked`; the sweeper skips) and for
nothing after it, so no other step can observe it half done.
A hold extension is allowed at any time while the row is held, because
StartCheckout's test of the window precedes it by several statements.

### Checkout

A checkout call creates at most one intent and one `payments` row, both named by
the call. The clock is reduced to what the code asks of it: whether the hold's
window has passed and whether the refund cutoff has. The gateway is an
environment: it captures, declines, voids and refunds charges whose reference
a client was given, and keeps every event it ever sent (`sent`), so that delivery
again, late and out of order needs no extra action; it stops retrying an event
that was acknowledged (`acked`). SimulateProviderCallback takes the outcome from the body of
each call, so its events need not agree: `Resend` announces an outcome again under a new
id, `Contradict` the other one, and a success takes the money whatever was announced before.

A webhook transaction is two steps. `Deliver` records the event and reads the
payment; the rest takes the payment's and the booking's row locks and is one
step. An event being recorded by another open transaction makes a delivery wait.
`Rollback` is any failure of the database. The automatic refund comes after the
commit and is made of two more steps (the gateway call and the update of the
row), between which anything can happen, a crash included.

`GatewayVoids`, `ProviderFails`, `Crashes`, `ConsoleRefunds`, `Simulated` (the payments whose
callback is simulated more than once) and `MaxCopies` switch the environment's behaviour. With `GatewayVoids = FALSE` the gateway behaves like
the mock, whose Cancel does nothing. `Together` says which calls are made at all, so
that one run covers several combinations.

`PaymentLedger` is what all of this amounts to. The refinement hides the calls, the
events and the gateway, and turns a charge and its refunds into money that is taken or
returned. What its steps join must be one step of `Checkout` too: booking a charge
confirms the booking it is for, if that still has its seats, and no booking is
confirmed otherwise. What they keep apart is what the code does not join: `Release` of the
ledger, a cancellation, looks at no money.

### Migrator

Each replica follows the statements of `Migrate`: `lock` (pg_advisory_lock), `create`,
`read` (which migrations are missing is decided here, for the whole loop), then
`body`, `record` and `commit` for each missing one in version order, and `unlock`
(deferred), after which the replica is `serving` or `failed`. The database is `lock`,
`table`, `recorded` (rows of schema_migrations) and `schema` (the bodies committed, in
order); a body is opaque. `Fail` is a statement answered with an error, after which
the lock is released by the deferred call. `LoseSession` is the end of the database
session at any point: a killed process, a broken connection, a commit that failed,
or one that landed and was reported as an error. `Restart` brings a replica back with
any release, an older one too. Releases only ever add migrations, and AUTO_MIGRATE is on.

### RateLimiter

`allow` runs under a mutex, so a request is one step. Time is in ticks and tokens in
units, which keeps fractions of a token whole. `seen` is both ipBucket.seen and the
time at which rate.Limiter (a library, modelled from how the code uses it) last
brought `tokens` up to date: allow sets both in the same call. `grants` is a history
variable: it records when requests were let through and influences nothing. With
RATE_LIMIT_RPS at 0 or below the middleware is not installed, which is not modelled.

### RequestPipeline

Requests share nothing here but the buckets of `RateLimiter`, so one request is a
complete instance. `Layers` is the chain of NewRouter, outermost first. A layer acts
when the request comes in (`dir = "in"`), when the answer goes out (`"out"`), or not at all
when a panic passes (`"panic"`), and `WriteHeader` reaches the status recorders of the layers
around the one that writes. `Handler` lists what each endpoint needs and calls, `Errors`
what each use case may return, `StatusOf` is writeDomainError. The static files answer whatever
http.FileServer makes of the request (`FileAnswers`), a redirect, a part or a refusal included, and the
mux what it makes of a path that is not clean (`Unrouted`). A call that runs a transaction may
`RollBack` at any time, because its context ended or for a reason of its own; that statement runs under
context.WithoutCancel (`db.go:123`), so no deadline ends it and only the database's answer does (`RolledBack`). `Panic` may strike in any layer
below Recover and in a handler that has not answered yet. `ContextEnds` is the deadline, or the
client's leaving; net/http cancels the context only while a handler runs.

### Config and Lifecycle

`Environment` gives each variable that some rule looks at the values that tell the rules
apart: unset, unparsable, zero, negative, beyond the pool's integer type, and the
ones that break a rule. The runs take `Width` as 8 bits where the program has 32; only wrapping depends on
it, and the proofs cover both. `Load` is config.Load and `Wired` what the constructors are given.

`Lifecycle` starts in any of these environments. `phase` is where main.run is: `load`, `connect`,
`migrate`, `seed`, `wire`, `ready`, `serve`, `drain`, `stop` (the call of stop()), `wait` (wg.Wait),
`close`, `exited`; `killed` is the default handler of a signal. The listener may fail to come up, and may be
lost at any time after (`server.go:46`): Run then returns the error at once and drains nothing. A user of
the pool, a request or the sweeper, is `waiting` for a connection, `querying` with one, or `nested` in a call that
joins its transaction; a request also holds one in `rollback`, the one statement its context does not end. What the
database answers is left out, and it may never answer. Time passes
only where something measures it: the age of requests and of the drain, and it does not pass the
`Grace` of a handler whose deadline is over: a handler returns within it, unless it is rolling back, in which case it
is `late`. Once
the process serves, the environment and the configuration are forgotten: nothing reads them again.

### BrowserClient

One page, whose variables are those of script.js. `wire` holds the requests in flight, each with
its answer once the server has served it; answers are received in any order or become failures.
The user's clicks have one wire, the polls and the countdown one more. The
server is sequential here, which is what `SeatHold` and `Checkout` justify, and other users take and
leave seats of one showtime. The clock ticks `Second` times in a second, because the countdown counts whole
seconds only (`script.js:499`) and the difference is a property's subject; it starts with the first booking, before which
nothing reads it.

### Left out of the data

Prices, amounts and currencies; the wording of references and errors; signatures
of callbacks; `processing`, which the code treats as `pending` and never sets;
calls by a user who does not own the booking, which end before any write.

## 3. Runs

| Run | Instance | Shows |
|---|---|---|
| `seathold_race` | 3 calls, 2 seats, 2 users, shared keys, clock 0..2, 2 attempts | no double booking, no half-written booking, one booking per key, the loser finds the winner, views agree, deadlocks only through lapsed holds, the lifecycle, justified refusals, `SeatLedger` implemented |
| `seathold_live` | 2 calls of every kind, refused ones included, over 3 showtimes in one hall; and the 3 calls of the smallest pattern that deadlocks | every call is answered; every lapsed hold goes |
| `checkout_safety` | 2 checkouts and a cancellation, or 2 cancellations and a checkout, with a release, 2 deliveries at a time, all failures, crashes and console refunds | sold seats are paid, orphaned charges have no seats, `PaymentLedger` implemented: the books match the gateway, one open payment, settled stays settled |
| `checkout_money` | 2 checkouts, 2 deliveries, 2 ids per outcome, the mock's gateway; one payment's callback simulated again and again, with either outcome | money ends as a seat or a refund, unless a failure had settled its payment; no event is refunded twice |
| `migrator` | 3 replicas, releases of 1 and of 3 migrations, each restarted once, failures anywhere | each migration once, in order and recorded; no stale reading; no replica serves an older schema than its own; every start ends |
| `rate_limiter` | 2 clients, burst 2, 2/3 of a token per tick, lifetime 3, clock 0..7 | never above burst and rate, never refused below it, idle buckets collected |
| `http_pipeline` | every kind of request, endpoint, refusal, failing call and panic | the access log and the metrics report what was sent, and every log line has an id; only admitted requests reach a use case; success means every call succeeded; the deadline ends every request, a rollback left unanswered excepted |
| `process_life` | every environment of `Config`, 2 requests, 2 signals, a listener that fails at any time, rollbacks that are never answered, timeouts as by default and of zero | production is hardened; whatever Load accepts can run; the drain cuts nothing off by default but what overran in a rollback; the pool outlives its users and never wedges; only a statement that nothing bounds keeps a shutdown from ending |
| `browser_page` | 2 showtimes in a hall of one seat, one contested, one click and one poll in flight, one booking and one payment, 2 ticks a second, clock 1..3 | the countdown never gives up seats that are held for another second, unless a checkout extended the hold; the grid catches up |
| `checkout_twice`, `checkout_cancel_race`, `checkout_late_paid` | 1 or 2 checkouts, or a checkout and a cancellation, and one delivery at a time, without failures | violations, see below |

**Bounds.** Two calls already race in every way but one: a deadlock needs a third,
whose lapsed hold one of the two is releasing, so three calls are used where
the state space allows. Two seats are enough for opposite list orders. A hold
lasts 2 ticks and a transaction at most 1, so a hold made at time 0 lapses
within the clock's range while transactions run; with `HoldMaxAttempts` 2 the retry and
the last failure both occur. `SweepBatch` 1 makes the batch limit bite. One
booking suffices in Checkout since nothing relates two bookings there; two
checkouts, two cancellations and two deliveries make every pair of concurrent steps of one
kind, and `PairAndOne` every pair of different kinds. Counters are
bounded by `MaxTime`, `MaxCopies`, `MaxRestarts`, `MaxSignals`, `MaxBookings` and `MaxPays`. Three
replicas make one holder of the lock and two that wait; releases 1 and 3 make an old replica
meet a newer schema and a new one continue where another stopped. The bucket's capacity is
exactly what a lifetime brings in, the edge of `RefillAssumption`, and the clock passes twice the
lifetime, where a collection is overdue. In `Lifecycle` a tick is `Second` = 4 seconds, so that
the default deadline (8) and drain (15) differ in ticks, and `Grace` = 4 is what a handler
takes to return; the timeouts are varied only where nothing but the pool's size is, since
Load compares them with nothing. Two requests and the sweeper exhaust a pool of two, which 2^8 + 2
wraps to. In `BrowserClient` a second is 2 ticks, a hold lasts 2 and
a checkout's extension 3, so that both ends of a hold come within the clock and the countdown
gives up a tick before the first. Simulated callbacks multiply the states, so `Simulated` is one payment in
`checkout_money` and none in the other runs; the theorems of `CheckoutProofs` are about any set of payments. Deadlock checking is
off because all calls may have been answered with the clock at its bound, the process exited,
or the page left, each a proper end.

**Symmetry** over calls is used only in runs without liveness properties.

**Fairness.** A server runs the calls it has accepted and PostgreSQL's detector
breaks circles of waits: weak fairness of each call's steps. The sweeper's ticker
fires for ever: weak fairness of `Sweep`. The gateway redelivers an event until it
is acknowledged, and database faults do not hit every attempt: strong fairness
of delivering and of applying a success event. It is stated for success events
only, since no property depends on the others, and of a payment whose callback is simulated for the first
only: nobody retries the others. A replica that is alive runs Migrate to its end:
weak fairness of its steps; weak is enough for the lock because each process starts
a bounded number of times, so a waiting replica is in the end the only one. net/http runs
its handlers, and a deadline that is set passes: weak fairness of `Run` and of `ContextEnds` with a
deadline; that a call or a rollback returns by itself is not assumed. In `Lifecycle`, weak fairness of what main
does, of time, of a pass that is told to stop and of a handler whose context ended, which ends a query but no
rollback: the database need not answer anything, and `ShutdownEnds` names the connections that only it can give back
(`Stuck`). Strong
fairness of `StopSweeping`, because Go's select takes a ready channel in the end although the ticker
may be ready too. On the page the interval fires and calls end, and strong fairness says that a
poll now and then gets through: "a transient poll failure" (script.js:180).

## 4. Findings

Three runs show behaviours that a comment or test of the repository rules out.

1. `checkout_twice`. Two overlapping checkouts: the second looked for an open
   payment before the first created its own, and inserts after the first was
   captured and the booking confirmed. `payments_single_open_idx` has no entry
   then, so a second payment is handed out for a sold booking.
2. `checkout_cancel_race`. A success callback between CancelBooking's look for a
   captured payment and its cancel: the seats are freed, the money is kept.
3. `checkout_late_paid`. CancelBooking marks a payment cancelled that the gateway
   captures meanwhile. Its success event is rejected (`ErrPaymentState`) at every
   delivery and the refund branch is never reached.

The models have more such behaviours. Each is ruled out by a property that fails and that no listed run
checks: one defined beside the others, or a listed one without the exception it makes for the behaviour.

| Behaviour | Property, and how to see it |
|---|---|
| The server stops between the webhook's commit and the automatic refund (`usecase/payment.go:266`); every redelivery is a duplicate (`:203`), and the money is kept (`payment_test.go:309`) | `MoneyFollowsSeats` in the instance of `checkout_late_paid` with `Cancels = {}` and `Crashes = TRUE` |
| Release checks `held` (`usecase/booking.go:146`), a callback confirms, and Cancel, which matches confirmed rows too, releases a paid booking (`:161`) | `ReleaseSparesConfirmed` of `Checkout`, with `Releases = {x1}` |
| Simulated callbacks announce a failure and then a success of one payment (`payment_handler.go:115`); the row is `failed`, the success is refused at every delivery (`usecase/payment.go:277`), and the money the provider announced is neither seats nor refunded (`payment_test.go:309`) | `MoneyFollowsSeats` of `Checkout` without its last disjunct, in the instance of `checkout_money` |
| A panic passes AccessLog and Metrics without their line and count ("one structured line per request", `middleware.go:124`; "total HTTP requests", `metrics.go:38`) | `OneLinePerRequest` of `RequestPipeline` |
| A second signal during the drain is swallowed, because stop() comes after Run has returned (`main.go:54`, against the comment at `:52`) | `SecondSignalAborts` of `Lifecycle` |
| The listener fails after it was up: Run returns at once (`server.go:46`), nothing is drained ("drains in-flight requests", `server.go:38`), and the pool is closed under the requests that still run | `NothingCutOff` and `PoolOutlivesUsers` of `Lifecycle` without the condition on a lost listener |
| A rollback the database does not answer outlasts every deadline (`db.go:123`): its handler, its connection, the pool's Close and so the shutdown hang with it | `EveryRequestEnds` of `RequestPipeline` and `ShutdownEnds` of `Lifecycle` without their last disjunct |
| The countdown rounds down (`script.js:499`) and says "Hold expired" up to a second before the hold ends | `HoldExpiredMeansExpired` of `BrowserClient` |
| After a checkout has extended the hold the page still counts down to the old expiry and says "Hold expired" (`script.js:507`) of seats that are held ("how long seats stay held during checkout", `config.go:70`) | `HoldExpiredMeansExpired` of `BrowserClient` |
| After a declined payment the page offers no other (`script.js:331`), although "the user can retry payment until the hold lapses" (`usecase/payment.go:247`) | `DeclinedCanRetry` of `BrowserClient` |

Read in the code, without a property: `DB_CONNECT_TIMEOUT=0` passes Load and makes every connection
fail (`db.go:73`), which `Connect` of `Lifecycle` has as a guard; ExpireDueHolds counts seats
(`postgres/booking.go:196`) where `domain/booking.go:95` says bookings; and seeding keeps the
rows that are there (`seed.sql:49`), so what its comment says of dates (`:37`) holds for the first start only.

## 5. Proofs

### SeatHold

`SeatHoldProofs` proves, for every set of calls, inputs, showtimes and seats and
every value of the policy constants:

| Theorem | Statement |
|---|---|
| `Invariance` | `Spec => []IInv` |
| `TypeCorrect`, `NoDoubleBooking`, `AllOrNothing`, `Idempotence`, `ReplayIsAnswered`, `ViewsAgree` | `TypeOK`, `OneActiveClaim`, `SeatsMatchStatus`, `OneBookingPerKey`, `ReplayFindsWinner`, `OneStory` always hold |
| `OnlyLapsesDeadlock` | `Spec => []DeadlockNeedsLapse` |
| `LifecycleHolds` | `Spec => Lifecycle` |
| `NoRefusalForLapsed` | `Spec => RefusedOnlyIfTaken` |
| `ImplementsLedger` | `Spec => LedgerSpec` |

The properties are not inductive: they speak of committed rows, and a commit
publishes what a transaction gathered over many steps. `IInv` adds what makes the
commit safe. `TxInv`: a transaction has written only inside itself, and at commit
holds every seat it wants. `RowLockInv`: a row being expired is held, had lapsed
and is being expired by one transaction only. `IndexLockInv`: a seat is being
claimed by one transaction at most, and is claimed already only by a booking this
transaction is expiring; this is what keeps `OneActiveClaim` through `Commit`.
`KeyLockInv`: two rows of one key are never both inserted, committed or not.
`LapseInv`: a transaction is shorter than a hold, so once it has expired the lapsed
holds of its showtime no other hold that had lapsed at its start can appear; the
refusal theorem rests on it. TLC checked `IInv` before the proof.

`OnlyLapsesDeadlock` is about circles of any length. `OrderInv`, an invariant on top of `IInv`,
says that what a transaction has claimed comes before what it still wants. In a circle whose
members expire nothing, each is waited for, so each has claimed a seat and wants another; the seat
one wants is claimed by the next, which wants a later one, and around the circle the seats would
grow for ever. The induction over the circle needs no numbers: `WaitsThrough` says that p
is in every set closed under waiting, and the proof names such a set, those that want a later seat
than the first does.

Assumptions: `TimeAssumption` and `InputAssumption` of `SeatHold`. They say that
`HOLD_TTL <= PAYMENT_WINDOW` (config.Load enforces it) and that
`HTTP_REQUEST_TIMEOUT < HOLD_TTL`: the defaults and the one-minute minimum of
`HOLD_TTL` make it so, but config.Load does not check it. Only `LapseInv` and
`NoRefusalForLapsed` need the latter. The comment in `hold` that a booking "never
fails against an expired hold" holds relative to the start of the transaction:
a hold that lapses while the transaction runs still counts.

### Migrator

`MigratorProofs` proves, for any replicas, releases and number of restarts,
`Invariance` (`Spec => []IInv`) and from it `AlwaysLastGoodVersion`, `ReplicasDoNotRace`
and `AlwaysServesMigrated`. `IInv` adds to the three properties `LockInv` (a session
between lock and unlock is the lock's holder, so there is one at most), `LoopInv` (a
replica in the loop has something left to apply) and `ReturnInv` (at a successful
return nothing is missing). `NoRace` is
what a commit needs to append the next version and no other, and `LockInv` is what
keeps `NoRace` through the other replicas' commits. `TypeCorrect` is the types. Assumption:
`ReleaseAssumption`.

### RateLimiter

`RateLimiterProofs` proves, for any clients, burst, rate, lifetime and clock,
`TypeCorrect`, `NeverAboveRate`, `NeverRefusedBelowRate` and `BucketsAreCollected`. The bound over every
stretch of time does not follow from itself: `CreditInv` says that for each earlier
grant the units used since it and those still in the bucket are at most a burst and
what the rate brought since, and `ExactInv` that a bucket which is not full equals that bound
for some grant, which makes refusals exact. `AbsentInv` says that a client
without a bucket has been idle long enough for its bucket to be full, so a fresh one gives
nothing away; `YoungInv` bounds the age of a bucket by the last collection. Assumption:
`RefillAssumption`, that RATE_LIMIT_BURST / RATE_LIMIT_RPS is at most ten
minutes. The defaults give two seconds; the configuration does not check it, and
without it an eviction would refill a bucket early.

### PaymentLedger

`PaymentLedgerProofs` proves, for any bookings and payments, `LedgerIsSound` (`BooksMatchGateway`,
`ConfirmedIsPaid` and `SingleOpenPayment` always hold) and `LedgerIsFinal` (`SettledIsFinal`). With the
types they are inductive together: what confirms a booking also marks its payment, and a
payment is opened only when its booking has none. Assumption: every payment is for a booking.

### Checkout

`CheckoutProofs` proves, for any bookings, checkouts, cancellations, releases and webhook handlers and
every setting of the environment's switches:

| Theorem | Statement |
|---|---|
| `Invariance` | `Spec => []IInv` |
| `TypeCorrect`, `PaidSeats`, `OrphanRefundsAreSafe` | `TypeOK`, `ConfirmedIsPaid`, `OrphanHasNoSeats` always hold |
| `ImplementsLedger` | `Spec => LedgerSpec` |
| `BooksAreRight`, `SettledForGood` | what `PaymentLedgerProofs` shows of the ledger, of the use case: `BooksMatchGateway`, `SingleOpenPayment` and `SettledIsFinal` through the refinement |
| `RefundsAreBounded` | a payment is paid back at most once per success event on record, per cancellation of its booking and from the console |
| `OneRefundPerDelivery` | without cancellations and console refunds, `OneRefundPerEvent` always holds |

What makes this go through is what a call may still rely on after it has read something without a
lock. `RowInv`: nobody pays before there is a row. `EventInv`: a success tells the truth for good, so it
does not matter how late it is delivered; a failure does not, since a simulated success may follow, and nothing
rests on it. `BooksInv`: a row never says more than the gateway did.
`HoldInv`: a payment is settled in the step that decides about its hold, so a settled payment's booking is
not held any more, and no later delivery can confirm it. `CancelInv` and `DeliveryInv`: what a
cancellation and a delivery read earlier can have become only certain other things since; that a
payment read as succeeded is settled for good is what keeps `OrphanHasNoSeats`. The refinement maps each
action to the one ledger step it takes or to none; `Proved` instantiates `PaymentLedgerProofs`
with the same mapping.

The refunds are a count of their own: `RefundInv` says that no two deliveries handle the same event, and
that the refunds made are at most the success events whose automatic refund is not still to come, the
cancellations that have made theirs and the one of the console. Nothing in the code counts them: a
cancellation and a delivery may both pay the same charge back, which the bound
allows, and the proof shows that no more than that can happen. `OneRefundPerEvent` is therefore stated for
the webhook alone, by the theorem as by the run `checkout_money`. Assumptions: `CallAssumption` (the calls are of
different kinds and each is for a booking) and `SimulatedAssumption` (what is simulated is a payment); for the refunds,
finitely many cancellations.

### RequestPipeline

`RequestPipelineProofs` proves `TypeCorrect`, `ReportsAreTrue`, `CallsAreAdmitted` and `SuccessIsReal` for every
combination of the switches. `ReportInv` says what each recorder has seen by the time a given layer is
passed on the way out, and that a panic passes all of them unseen; `AdmitInv` what has been checked by the time
a request has come to a given point on the way in; `DoneInv` that a failure ends the handler and that only a call
that is not over rolls back. `TypeCorrect` says that the answer's status is one of `Statuses`, those of the chain, the mux,
the handlers and the file server.
The chain and the tables are those of the code, so the proof expands them where it needs them. Assumptions:
`SwitchAssumption` (the switches are booleans) and `NoneAssumption` (no answer is not a status).

### Config and Lifecycle

`LifecycleProofs` first proves `AcceptedIsSound` about the operators of `Config`, of every environment, not only
those of `Environment`, as long as numbers and durations are numbers: what Load accepts can be run, and in
production is hardened. Of the process it proves `Invariance` and from it `TypeCorrect`,
`HardenedInProduction`, `AcceptedCanRun`, `DeploysCutNothing`, `PoolClosedLast` and `PoolMovesOn`, for any
number of requests and signals. `PhaseInv` ties the listener, the pool and the signal handler to where main.run is;
`ConfigInv` says that what runs is what Load made of an environment it accepted; `UserInv` that a user holds one
connection or none, and all of them no more than there are, so that an exhausted pool has a holder that is not
waiting; `ClockInv` that a request being drained is at least as old as the drain, unless it overran in a rollback, so its deadline
passes before the drain's; `CloseInv` that after Run has returned only what was cut off still runs, unless the listener was
lost, and that the pool is closed after the sweeper has stopped. Assumptions: `WidthAssumption` (8 to 32 bits; the program's are 32), `RequestsAssumption`
(finitely many requests, none of them the sweeper) and `BoundsAssumption`. The last says that `Second <= Grace`, and
`Tick` does not pass the end of a handler's grace: a coarser clock, as the attempt at the proof showed, would let a
handler overrun the time it is supposed to return in, and `NothingCutOff` would fail for no fault of the code.

### BrowserClient

`BrowserClientProofs` proves `CountdownWithinASecond`, for any showtimes, seats, bounds and lifetimes and however requests are lost, late or
overtaken. `CountdownIsHonest` follows only if what the page believes and what is still on its way can be trusted:
`PanelInv` and `WireInv` say that the deadline in the panel and in every answer in flight is the server's as long as
the booking is held and no checkout was started; a deadline only ever changes by a checkout. Then what `RunsOut` rounds down is all the page can be wrong by.
Assumption: `WindowAssumption`, the order of the two windows that config.Load enforces, and that a second has ticks.

### Model-checked only

- Liveness: `EveryCallAnswered`, `LapsedHoldsGo`, `MoneyFollowsSeats`, `EveryStartEnds`, `EveryRequestEnds`, `ShutdownEnds` and
  `GridCatchesUp` need fairness, hence ENABLED, which the prover does not handle.
- The three violations of section 4: each is shown by a counterexample.
- `TypeOK` of `BrowserClient`, whose types depend on what is asked when; no theorem needs it.

Every other safety invariant, action property and refinement that a run checks is also a theorem.

## 6. Plan

The modules, the runs and the proofs of the plan are there. What could follow:

1. A composition of `SeatHold` and `Checkout` over one `bookings` row, so that the assumption of each about
   the other is checked and not only argued.
2. The types of `BrowserClient`, and the safety part of `GridCatchesUp`: a grid drawn from an answer shows what the
   server said when it answered.

## 7. Not modelled

Prices and amounts, signatures of callbacks, the provider's own records, client addresses and
header values; the lists and the catalogue they read, which nothing writes; `WriteTimeout` and
`IdleTimeout` of the server; what the page draws besides the grid, the panel and the countdown; seed
data, which one statement inserts once. None of them changes state that another part relies on.
`RequestPipeline` and `BrowserClient` also define a `TypeOK`, which holds on their instances; no listed
run checks it.
