# Verification of the flash-sale shop

TLA+ models of the concurrent parts of this repository: the inventory service in both of its modes, the
flash-sale buy, the cart and its checkout, the order-fulfilment chain, the life of a sale, the product
catalogue with its cache and search index, and the rate limiter.  TLC checks small instances; TLAPS proves
theorems about all nine of them, and a refinement, for all instances.  `PROJECT.json` lists every run, every
mutant, the source lines of every definition, the hazards the properties are aimed at, and the theorems.

## The system

| Component | State it keeps | Operations | Talks to |
|---|---|---|---|
| Inventory service, Redis mode (`inventory/app/service.py`, `lua_scripts.py`) | Redis `stock:<v>`, `reservation:<id>` (TTL 300 s), `idem:reserve:<key>` (TTL >= 600 s); Postgres `quantity_on_hand` | CheckStock, ReserveStock (one Lua script), CommitReservation, ReleaseReservation (coroutines) | Redis, Postgres; called over gRPC by API and workers |
| Its start-up (`server.py`) | `lock:inventory_bootstrap` (TTL 60 s) | bootstrap, serve, drain on SIGTERM | the same Redis and Postgres |
| Its Postgres mode (`service.py:184-407`) | Postgres `quantity_on_hand`, `quantity_reserved`; Redis claim and hash as above | reserve under row locks; commit and release as transactions | Redis, Postgres |
| Flash-sale buy (`routers/flashsales.py`) | Redis `fs_purchased:<sale>:<user>`; orders, payments | `buy_flashsale` | inventory, Celery, ClickHouse |
| Checkout and cart (`routers/checkout.py`, `cart.py`) | Redis hash `cart:<user>`; orders, payments | add, set, remove, clear, `checkout` | inventory, Postgres, Celery |
| Fulfilment chain (`tasks/order.py`, `worker.py`) | order and payment status, audit log, the broker's queue | capture, commit, invoice, notify, dispatch; acks-late, retries | inventory, Postgres |
| Stuck-order sweep (`tasks/scheduled.py`) | the same orders; purchase counters | `expire_stuck_pending_orders` every 5 minutes | inventory, Redis, Postgres |
| Sale life and reports (`tasks/scheduled.py`, `scripts/create_loadtest_flashsale.py`) | `flash_sales` windows and status, audit log | `flash_sale_postmortem`, window refresh; daily settlement, stock alerts | Postgres, ClickHouse |
| Analytics (`clickhouse_client.py`) | ClickHouse event tables | best-effort inserts, figures of a sale | ClickHouse |
| Product catalogue and hot cache (`routers/products.py`) | `products`; Redis `hot:product:<id>` | GET through the cache, POST, PATCH, DELETE | Postgres, Redis, Meilisearch |
| Search index (`search_client.py`, `routers/search.py`, `scripts/reindex_products.py`) | Meilisearch task queue and index | single pushes, reindex in chunks | Meilisearch, Postgres |
| Rate limiter (`ratelimit/*` in both services: middleware and gRPC interceptor) | Redis `bucket:<rule>:<id>` | try_consume, fail-open | Redis |
| Accounts, order history, admin reads, frontend, gateway, observability | | | |

What is hard here: the inventory service keeps one fact (how many units are free) in two stores that no
transaction spans; its commit and release are several awaited commands long; callers retry, die and are
redelivered; reservations expire under them; tasks decide on a status they read in an earlier statement;
a cart is edited while it is being checked out; a product lives in three stores that are written one
after the other; and replicas stamp requests with their own clocks.

What makes each component correct:

* inventory: no counter below zero; every reservation's units sold or refunded once; one key, one
  reservation; free + reserved = on hand (less what expired).  In Postgres mode: reserved <= on hand, no
  deadlock among reservations, a claimed key that can be counted on;
* start-up: a load is skipped only for another loader, counters that do get loaded;
* flash-sale buy: `per_user_limit` under bursts, the allowance exact after failures, an order's own
  reservation behind every order, no stock held for nobody; and where a failure breaks one of these, no
  more of it than that failure leaves behind;
* checkout: the cap per line, an order on a reservation of exactly its lines, no stock held for nobody;
* fulfilment: statuses only advance, sold and invoiced once but for what deaths repeat, dispatched only
  when sold, every order settled, a cancelled order void;
* sale life: every sale that is over is ended, none inside its window, one report per window, with all
  the purchases that can be in it;
* catalogue: a stale cache entry is one of the named races and never lasts; the index agrees with the
  table at rest;
* limiter: the rate, the advertised wait, agreement with the Python reference.

## Modules

```
StockLedger              what the inventory service promises (abstract)
   ^ implemented by
Inventory                ReserveStock / Commit / Release, TTLs, crashes   <- InventoryProofs
   ^ extended by
   |-- InventoryBoot     replicas, bootstrap lock, restarts               <- InventoryProofs
   |-- OrderFulfilment   Celery chain and sweep: Commit and Release       <- OrderFulfilmentProofs
   |-- FlashBuy          buy_flashsale calling Reserve and Release        <- FlashBuyProofs
   `-- Checkout          cart edits; checkout calling all three           <- CheckoutProofs
InventoryPostgres        the same service in Postgres mode                <- InventoryPostgresProofs
SaleLifecycle            windows, purchases, ClickHouse, post-mortem      <- SaleLifecycleProofs
Catalogue                table, hot cache, search index                   <- CatalogueProofs
TokenBucket              bucket.lua, bucket.py, try_consume, fail-open    <- TokenBucketProofs
MC<module>               small instances; one .cfg per run
```

**Inventory.**  A Lua script is one step (`ReserveHit`, `ReserveReject`, `ReserveGrant`).  A commit
or release is a coroutine slot (`Handlers`) that goes through `ReadHash`, then `CommitOnHand` (the
Postgres transaction) or one `ReleaseIncr` per variant, then `DelReservation` and `DelIdem`; `got` is
the copy of the hash it acts on, so anything may change between its steps.  An absent hash is
answered with success by `ReadHash` alone.  `CommitRefused` is the CHECK constraint.
`ExpireReservation`, `ExpireIdem` are the TTLs, `Crash` the end of a coroutine at any await.
`CallsOverlap`, `TTLExpires` and `MaxCrashes` say which environment a run considers.  History
variables (`issued`, `sold`, `refunded`, `crashed`) only record.  Handlers run Redis and Postgres
commands one at a time, which is how asyncio and the single-threaded Redis interleave them.

**StockLedger.**  Units are available, held by a reservation, or sold; one reservation is promised
whole, sold whole, given back variant by variant, or lapses.  `ImplementsLedger` checks
`Inventory => StockLedger` under the mapping `held = Held(r, v)`.

**InventoryBoot.**  Replicas pass `BootLock`, `BootRead`, `BootStore`, `BootUnlock` and serve; the lock
may expire, a replica may be killed (`BootCrash`: no finally, or one whose DEL fails) or fail (`BootFails`)
while it loads, or be restarted gracefully (`Restart`, after its coroutines drained).  The early return for an
empty `inventory_levels` table is left out (there are rows).

**InventoryPostgres.**  `Claim` is the SET NX, `LockRow` one row of `SELECT ... FOR UPDATE ORDER BY`,
`Check` the decision on the rows as they were locked, `Book` the UPDATE and COMMIT, `StoreHash` and
`SetTTL` the Redis commands after it; `Observe` is the loser of SET NX.  Commit and release lock their
rows in the order of the hash (`Rank`).  `WaitsFor` and `DeadlockDetected` are Postgres; a transaction
may fail (`TransactionFails`), its connection may break after the COMMIT (`BookUnanswered`), a refusal's DEL
may run and not be answered (`RejectUnanswered`), and a coroutine may die at any await (`Die`).

**OrderFulfilment.**  Each task reads (`Read`, with the `Gate` of its task) and commits later
(`Write`), because its READ COMMITTED transaction locks nothing it reads.  `commit_inventory` calls
into `Inventory` in the coroutine slot that bears the worker's name.  A finished task sends its
successor (`Forward`) and then acknowledges (`Ack`); `WorkerLost` puts the message back at any point and
cancels a running RPC.  `CommitFailed` and `TaskFails` are the retries of an RPC and of a database task, or
the end of the chain once they are used up.  The sweep selects, releases, refunds and marks each order, and commits all
marks at the end; Redis effects of a sweep that dies stay.  `queue` counts copies of messages and has
no order.  `Orders` start where `checkout` or `buy_flashsale` have persisted them (`Place`).

**FlashBuy.**  One request is `Count` (INCRBY and the limit, or a missing address), `Reserve` or
`ReserveFails` (refused, unreachable, or the answer lost), `Persist`, and the compensations `Uncount`
and `Release`/`Releasing`.  `Persist` has three outcomes: a COMMIT, a failure, and a COMMIT whose answer is
lost, which the handler takes for a failure (`disowned`).  Whatever raises outside of a handler, or in one,
ends the request (`BreaksOff`): the EXPIRE or the SELECT after the INCRBY, any DECRBY, the RPC of the release,
or the process; `ReleaseDies` is a release cut off in the inventory service.  One sale, one variant, which
stays active for the run.  `patient`, chosen
once at the start, are the users whose client waits for an answer before it sends the next request;
`unanswered` records the reservations whose answer never reached the route.

**Checkout.**  The cart endpoints are one Redis command each, but for an add beyond the cap, whose
increment is taken back by a second one (`AddLine`, `RollbackLine`).  A checkout is `ReadCart`,
`Reserve` or `ReserveFails`, `Resolve` (a variant may have gone meanwhile: `RemoveVariant`), `Persist`,
`Clear`, and the compensation `Release`/`Releasing` or `ReleaseFails`; `BreakOff` is the failure after the order
is there, and `Abandon` the failure before it that sends no release (the SELECT of checkout.py:137, outside
of every `try`).  A rollback of an add that never comes is one that stays in `rollback`.
The key is the user and the lines (`IdemKey`), so that retries and twins share a reservation.  `Fulfil`
and `Selling` stand for the chain, of which only the commit of the reservation matters here.

**SaleLifecycle.**  Time opens and closes windows; a purchase passes the gate once (`PassGate`) and
reports to ClickHouse after its answer, or never.  A post-mortem pass selects (`Select`, no row lock),
asks for the figures of each sale (`Stats`) and commits all (`Commit`); messages are acknowledged late
(`WorkerLost` repeats the pass, `PassFails` does not).  `Refresh` is the load-test script.

**Catalogue.**  A reader that missed is `Select` and `SetCache`; a write is `Load`, `Commit`, `Sync`
(pushes the *session's* copy) and `Evict`; a reindex selects once and pushes chunk by chunk, waiting for
each task.  Meilisearch accepts tasks (`queue`) and works them off in order (`WorkOff`).
`doubtful` and `mayBeStale` record which races and failures happened, for the properties to name.

**TokenBucket.**  Integers: the clock in ticks, the bucket in fractions of a token, `Rate` fractions per
tick, a request costs `Cost`.  `stamp` is the `now` a caller read before its EVALSHA, so that calls of
different callers overtake each other; `late` counts those that reached the script after a call with a later
`now` (`Overtaken`).  `ref` is the bucket of `bucket.py` fed with the same calls.

Definitions named in comments as *mutants* are faulty variants of the definition that follows them;
each one makes a property fail in its run, which shows that the property depends on that code.

## Runs

| Run | What it shows | Bounds |
|---|---|---|
| `reserve` | with TTLs, while calls on one reservation follow each other: free + reserved never exceeds on hand, and equals it until a reservation lapses; a commit always fits; a retry finds its reservation; the ledger is implemented | 2 variants x 2 units, 3 reservations, 2 keys, 2 coroutines |
| `crash` | coroutines that die half way, and TTLs: each death repeats at most its own effect; one key, one reservation | as `reserve`, 1 death per reservation |
| `boot` | skipping only for a loader, counters that do get loaded and never go below zero while reservations, commits and releases go on | 2 replicas, 1 variant, 2 reservations, 1 restart, 1 kill and 1 failure inside a load |
| `rows` | Postgres mode: nothing oversold, open reservations accounted for, a claimed key backed, reservations never deadlock, through refusals, failures and lost answers | 2 rows, 3 baskets in both orders, 3 reservations, 2 keys, 3 coroutines, 1 of them lost |
| `fulfil` | redelivery, failed hand-offs, TTLs and sweeps: sold once, invoiced once, statuses advance, cancelled orders are void, every order is fulfilled or cancelled | 2 orders, 1 worker, 1 sweep, 1 process death outside a running RPC |
| `parallel` | copies of a chain side by side, failing tasks, an unreachable service, dying coroutines, TTLs: nothing dispatched unsold; nothing sold or invoiced again without a death | 1 order, 2 workers, 1 sweep, 2 process deaths, 1 dying coroutine, 1 retry of the commit |
| `lost` | ends in a violation, see below | 1 order, 1 worker |
| `buys` | bursts, patient clients, refusals, lost answers and a request that breaks off: the limit, the exact allowance, orders backed by reservations of their own, no stock held for nobody, each up to what these leave behind | 4 requests of 2 users for 1 or 2 units, limit 2, 3 units, 3 reservations, 1 request that breaks off, 1 dying release |
| `carts` | cart edits beside checkouts of the same cart that fail and break off: the cap, orders on a reservation of their lines, no stock held for nobody but where no release is sent | 1 user, 1 variant, cap 1, 1 add beyond it in flight, 3 checkouts, 3 units, 1 checkout that breaks off after its order |
| `reports` | overlapping, failing and repeated passes against late purchases and a new window: one row per window, no sale ended early, no figure missing, every sale ended | 1 sale, 2 purchases, 2 workers, 1 queued message, 1 loss, 1 refresh |
| `catalogue` | writes, a reindex and a reader overlap and fail: stale only by race and never for good; the index agrees at rest | 1 product with 2 names, 2 writers, 1 reader, 1 reindex, 3 starts, 1 fault |
| `bucket` | two processes whose calls overtake each other: the rate, the advertised wait, agreement with `bucket.py` | 2 callers, calls in flight for 2 ticks, 3 tokens of burst, 13 ticks, 1 outage |

Two variants and two units let a counter run out while reservations are open and let a release stop
between its INCRBYs; three reservations let a key be used again after its reservation ended; two
coroutines are what a race takes, and three what a cycle of waiting transactions beside a third party
takes.  In `buys` one user's requests add up to twice the limit, one of them asks for two units, and a second
user competes for the stock.  In `carts` an add in flight lifts the one line to twice
the cap, so that carts of two sizes are checked out, and three checkouts are a twin and a successor.
Products never interact in `Catalogue` except inside a reindex; two products with one name each pass as
well.  In `reports` two workers are what an overlap takes, and a refresh gives the sale its second
window.  Thirteen ticks are two full refills of the bucket, which pass its idle TTL (8), and two
callers are what it takes to overtake a call.
`MaxRetries` counts the failed commits of an order over all copies of its message, where Celery counts
per copy.

The inventory's guarantees are stated for calls on one reservation that follow each other
(`CallsOverlap = FALSE`), the case of a route that compensates and of one worker; `parallel`, `buys` and
`carts` allow overlap.  `buys` and `carts` keep reservations alive.  `fulfil` and `parallel` keep TTLs and
sweeps away from orders whose chain is at work (`Races = FALSE`); see below for what races do.  `fulfil` has
one worker process that dies between RPCs, which is where `SoldOnce` and `OneInvoice` hold as they are;
docker-compose.yml:184 starts a pool of one process per CPU, and for any number of them `parallel` and the
theorem `DeathsBoundRepeats` say how often a sale or an invoice can be repeated.

### The run that ends in a violation

`lost` states what the header of `tasks/order.py` claims, that every task is replay-safe: a worker dies
after the transaction and before the DEL of its CommitReservation, and the redelivered task sells the units
again.  The quote is under `findings` in `PROJECT.json`.

### Known limits of what holds

The preconditions of the passing runs are needed.  With the constants changed as given, TLC finds the
property named violated:

* `InventoryBoot`, a restart while reservations are open (`MaxRestarts = 1`, no kills): `NoOverPromise`;
  `quantity_reserved` is 0 in Redis mode, so open reservations are promised again (server.py:71 against
  :63-64).  After a kill, which `CountersGetLoaded` and `SkipsOnlyForALoader` except, the loader's lock
  stays and everybody skips.  A load that outlasts the lock lets a second replica load beside it.
* `OrderFulfilment`, `TTLExpires` and `Races`: `DispatchedIsSold`; a commit that comes after the
  reservation's TTL is answered with success.
* `OrderFulfilment`, `Races` with sweeps: `StatusAdvances`; a task that read an order before the sweep
  cancelled it writes its status afterwards.
* `OrderFulfilment`, two workers and one death: `OneInvoice` and `SoldOnce`; two copies look before either
  writes.  `RepeatsNeedDeaths` is what is left of both: one repetition per death.
* `OrderFulfilment`, two sweeps and `Races`: `CancelledIsVoid`; both sweeps can refund the allowance.
* `OrderFulfilment`, workers in `Unreachable`: `OrdersGetSettled`; an order whose commit used up its
  retries stays paid, and the sweep selects pending ones only.
* `FlashBuy`, requests of one user that overlap: two orders can share a reservation, because a concurrent
  rejection makes the count, and the key, repeat (flashsales.py:274 against :269-272).

The properties name these exceptions, each of which the code has:

* `PerUserLimit`, `AllowanceExact`, `PatientOrdersAreBacked`, `NoStrandedStock`: when the answer of a COMMIT is
  lost the order exists, but the handler gives its count back and releases its reservation
  (flashsales.py:364-368), so that the order comes on top of the limit and is backed by nothing.  A request
  that breaks off at the EXPIRE (:233), the SELECT (:250) or a DECRBY (:236, :257, :290, :310, :367) leaves
  the counter raised, for as long as the key lives; one that breaks off at :367 or at the RPC of the release (:368)
  leaves its reservation to the TTL.
* `NoStrandedReservation`: a lost answer, and the requests that break off at checkout.py:137-141, see below.
* `CartWithinCap`: the cap holds up to the adds whose HINCRBY has still to be taken back.  If the second HINCRBY
  fails (cart.py:158) it never is, and the line stays beyond the cap until it is edited.
* `StatusAdvances`: where two copies of a chain run side by side, the capture of the second may put a dispatched
  order back to paid; that copy dispatches it again.
* `RateBound`: each call that was overtaken lets through what flows in during its flight, see below.
* `ClaimIsBacked`: a coroutine that dies after SET NX leaves its claim behind, and the TTL of a hash leaves
  the claim (and the units) until a restart.  The loser of SET NX gets the id of a transaction that may
  still fail.
* `PatientCheckoutsAreBacked`: twins, and a checkout that broke off before it emptied the cart and is
  repeated, persist two orders on one reservation; a twin that fails releases it for both.
* `StaleOnlyByRace`: a reader that read before a PATCH may store after its DEL (products.py:189), and a
  push that raises skips the DEL.
* `SearchAgrees`: `_sync_to_search` finds the product in the session, not in the table, and may push a
  product another request has deleted; the reindex never removes documents.
* `OneRowPerWindow`, `EndedIsOver`: passes that overlap write a row each, although scheduled.py:3-4 calls a
  double firing harmless; a sale refreshed while a pass holds it is ended inside of its new window.

One more that no property is about: lines added to the cart while a checkout runs are deleted with it
(checkout.py:198).

### Comments the code does not keep

The models follow the code.  Where a comment says something else, the properties state what the code does:

* service.py:153-155: the idempotency record outlives the reservation "so retries within the window after a
  release still get the original id".  Commit and release delete the record (service.py:404-407 in Redis mode),
  so that such a retry reserves anew.  `IdemNamesReservation` says that a record names a reservation that is
  open, has lapsed, or is being settled by a call about to delete the record; a `DelIdem` that
  left the record to its TTL, as the comment has it (`KeepIdem`), would violate it.
* worker.py:64-66 (sweeping every 5 minutes finds a reservation "still in Redis" that "can be released cleanly")
  and scheduled.py:5-7, :76-79 (the sweep releases the reservation of a stuck order): an order is swept 30
  minutes after it was placed (scheduled.py:54), its reservation lived 300 s, and a lapsed reservation is not
  refunded, as scheduled.py:50-52 knows.  `Release` then answers an absent hash with success; that a cancelled
  order returned its units is therefore no property here.
* checkout.py:13-14: a release "on any DB failure after a successful reserve".  The SELECT of the variants
  (checkout.py:137-141) is outside every `try`: if it raises, no release is sent (`Abandon`), and the
  reservation holds its units until it lapses, which does not refund them either.
* bucket.lua:3-7, :41-43 ("We never *refund* tokens"): a call with an older `now` adds nothing, but it stores that
  `now` (:64), and the next call is credited the interval again.  `RateBound` without its term for `late` is
  violated by two callers.
* tasks/order.py:15-26: every task is replay-safe.  See `lost`.
* scheduled.py:3-4: a double firing of beat is harmless.  Two passes of the post-mortem that overlap write a row
  each, and two sweeps that overlap can refund an allowance twice.

## Fairness

`FairBootSpec` (`boot`): a replica that starts goes on (its coroutine is always runnable) and Redis expires
the lock.  `FairFlowSpec` (`fulfil`): a worker or sweep that can take a step takes one (the processes run), every
message in the queue is eventually delivered (`WF` per order and task, not per worker), routes go on to
the hand-off, TTLs and the 30 minutes pass, and beat keeps starting sweeps.  `SaleLifecycle`: beat keeps
firing and each worker goes on with its pass; nobody has to buy and ClickHouse never has to answer.
`Catalogue`: Redis expires every cache entry, and nothing else is required.  Deaths, failures and
crashes are never required.  Only weak fairness is used.  The other runs check safety without any.

`CHECK_DEADLOCK FALSE` stands where the modelled work is finite: orders, requests and ticks run out.

## Proofs

All theorems hold for every value of the constants that meets the assumptions named in the modules.  Three of
those only make sums well defined or say what a constant has to contain: reservation ids and adds are finitely
many (a run of the program issues no more), and the lines a cart can come to hold are among the requests of
`Checkout`.  A hypothesis beyond them is named below; it is always one of the environments of the runs, and
*Known limits* says for most what fails without it.

`InventoryProofs` has three parts.  With calls on one reservation that overlap, TTLs and any crashes:

* `TypeCorrect` and `NeverNegative`, from `Inv`: the types, and what a coroutine in each phase holds (its id was
  issued, its copy names its reservation, `todo` lies within its items).

When calls on one reservation follow each other (`CallsOverlap = FALSE`):

* `SettlesOnce` and `IdempotentReserve`, still with TTLs and crashes.  Neither is inductive: `SerialInv` says
  that one coroutine at most works on a reservation, `SettleInv` relates its phase, the presence of the hash and
  the units already moved, and `IndexInv` ties every hash to the record of its key.  For the other modules the
  same is proved of any calls whose reads come alone (`IInvAlone`).

When, besides, no coroutine dies half way (`MaxCrashes = 0`) and there is a variant:

* `RetriesFindTheirs`: `RecordInv` says that a record names an open hash or one whose coroutine is about to
  delete the record;
* `LedgerImplemented`, `Spec => ImplementsLedger`: a promise, a sale, a variant given back or a lapse is one step
  of the service, and all its other steps are invisible.  `CopyInv` says that a coroutine works on the hash as it
  is, or as it was before its TTL, and has moved all the units it has not still to move; with it `HeldWhere`
  reads what a reservation holds off its hash or off its coroutine, and each action is matched with a step of
  the ledger;
* `PromisesAreCovered`, `OnlyLapsesLoseUnits` and `CommitsGoThrough`, when the counters start within, or at, the
  levels.  They are about the total held by all reservations.  A step of the ledger moves one reservation, so
  it moves the total by as much (`TotalMoves`).  The total is stated as the cardinality of a set of pairs
  (`UnitsIn`), because the provers have no induction for sums.

The last part is about replicas: `BootNeverNegative` and `SkipsForALoader`, for any number of them, of kills,
failures and restarts.  `BootInv` adds to `Inv` that the lock is there only while a replica loads or after a kill;
a load keeps `Inv` because it cuts what it stores off at zero.

`OrderFulfilmentProofs` (any orders, workers, sweeps, baskets, lost processes and retries; unless said otherwise
with unreachable services and dying calls).  `FlowInv` says which call each worker and sweep waits for, and that no
two orders share a reservation; `FlowServes` that every step of the flow is a step of the service or none of its
business, so that what `InventoryProofs` keeps is kept here:

* `FlowTypeCorrect`: types, and no negative counter, whatever races;
* `DeathsBoundRepeats`, whatever races and for any number of workers: `CopiesInv`, once an order is handed off the
  messages for it, and the workers at a task of it, are at most one more than the processes lost; `InvoiceInv`
  and `SaleInv` count the copies that may still write an invoice, or sell, to those that have.

With sweeps and TTLs away from orders whose chain is at work (`Races = FALSE`), `ApartInv` says that an order is in
the hands of a chain or of one sweep, and that what a chain did past its capture is done to a paid order.  Then:

* `CancelledOrdersAreVoid`: `RefundInv` counts a refund to the mark that follows it, or to a sweep that died;
* `DispatchedOrdersAreSold`: `CommitInv`, no message or task past the commit without the sale, and no hash gone
  from under a chain without it, however many copies of the message there are;
* `StatusesAdvance`, for any number of workers: `GateInv`, the status a task read is the one it meets when it
  writes, unless copies of a chain can run side by side.

`FlashBuyProofs` (any users, requests, quantities and limits, calls that overlap, any number of lost answers,
broken requests and dying releases): `LimitHolds`, `AllowanceKept`, `NothingStranded`, `PatientAreBacked`.
`CountInv` says that a user's counter is the number of units in the orders that were answered, the requests that
broke off before their DECRBY and the open requests that have counted; it is stated as a cardinality too.
Nothing in `PerUserLimit` is inductive without it: the limit is checked against a counter that others decrement.
`HoldInv` names the request, cut short or not, or the order behind every hash.  `KeyInv` and `PatienceInv` say that the counter, and with it the
key, of a user who waits for answers grows between orders, so that a key is never met again with an order
on it.

`CheckoutProofs` (any users, variants, carts, caps and adds, checkouts that overlap, every failure, no further
hypothesis):

* `CapKept`: `CartInv`, which is `CartWithinCap` with its types, is inductive; the work is in the sum over the adds
  in flight, which an add leaves and enters alone;
* `OrdersMatch`: `KeyInv`, the key of a reservation, and so its lines, agree wherever the reservation is known:
  at records, hashes, copies and checkouts;
* `NothingStranded`: `HoldInv` names a checkout behind every hash that is not in `unanswered`, one that will
  release it, has an order on it or was abandoned;
* `PatientUsersAreBacked`: `PatientInv`, a reservation no checkout broke off on is as it was made until its one
  order is there, and is sold for that order only; `ReservationOfOneUser` keeps other users off it.

`InventoryPostgresProofs` (any rows, baskets, coroutines, TTLs and losses; calls may overlap unless said):
`PgTypeCorrect`; `NeverOversells`; `NoDeadlockOfReservations`; `ClaimsAreBacked`; `UnitsAreAccounted`.  `RowInv`
relates the rows a transaction has locked to the free units it saw, which is what makes a decision on rows read
earlier sound; `LockInv` says that a reservation holds locks below the one it waits for only, so that a cycle has
no lowest row (rows are numbered up to some bound); `ClaimInv` follows a claim through its coroutine.
`UnitsAreAccounted` is for calls on one reservation that follow each other: `BookInv` says that each column
`reserved` is the number of units booked and not settled, and which call still relies on the booking.

`SaleLifecycleProofs`: `SaleTypeCorrect`; `EndsInTime` from `OverInv` (a pass that holds a sale nobody
refreshed holds one that is over); `OneRowEach` from `CountInv` (rows written plus rows about to be written
are at most the windows); `RowsAreComplete` from `FigureInv` (what a pass has asked for is complete already).

`CatalogueProofs`: `CatTypeCorrect`; `StaleByRaceOnly` from `StaleInv`, which follows the row each reader
and writer carries; `SearchIsRight` from `PushInv`: the last task queued for a product that is not doubtful
carries its row, where writers and reindex runs that have still to push carry it themselves (`CleanWriter`,
`CleanJob`).

`TokenBucketProofs`, from `BucketAssumption`:

* `RateKept`: `Spec => []RateBound` for any number of callers.  `Budget` strengthens the bound to what the
  bucket has spent since it was full, and lets each late call put back what flows in during `Patience`; an
  expired bucket needs `Timing` (no call is older than `Patience`) and the part of the assumption that says
  the idle TTL refills a bucket;
* `ReferenceAgrees`: `Spec => []AgreesWithReference` for any number of callers.  `RefInv` keeps the
  bucket of `bucket.py` equal to the hash, or full enough once the hash has expired;
* `WaitIsExact`: `Spec => []RetryAfterExact` for any number of callers.  `WaitInv` says that the tick a
  rejected caller was told is the first at which the hash as it is holds a token; the rounded division is
  taken apart by `Division` and `RetryAfterIsLeast`;
* `TypeCorrect`: `Spec => []TypeOK`.

Every invariant and every safety action property the passing runs check is thus stated by a theorem, but for two.
Only model-checked: `SoldOnce` and `OneInvoice`, which hold in the environment of `fulfil` (one worker; the second
bound of `RepeatsNeedDeaths` then says the same of `OneInvoice`, and of `SoldOnce` while no coroutine dies);
liveness (`CountersGetLoaded`, `OrdersGetSettled`, `SalesGetEnded`, `CacheConverges`), which is outside the
prover's reach; and that the faulty variants break what they should.

## Not modelled

`daily_settlement` and `low_stock_alerts`: one read and one insert each, with no state they act on again.
Accounts, addresses, authentication, order history and admin reads: single transactions and pure reads.
The events ClickHouse gets for dashboards, `in_stock` in the index, frontend, gateway, observability,
configuration and migrations: nothing modelled reads them.  A request that names one variant twice, which
neither route builds: the script checks such a list item by item and debits it as a whole.  Variants
of one sale with different limits: they share one counter per user.  Formatting, metrics and logging are left out
everywhere.

## Plan

1. Done: every stateful component named above; a theorem for nearly every invariant and safety action property.
2. Next: theorems about less restricted environments: `StatusAdvances` with sweeps that race, `SettledOnce` with overlapping calls as a bound by the number of readers, the ledger with crashes.
3. `ReserveScript`: the Lua script on item lists that may repeat a variant.
