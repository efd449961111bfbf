# A TLA+ model of the ecommerce services

The repository is a small ecommerce backend in TypeScript (Effect): five
services and one PostgreSQL database.  An order is taken in by the edge API,
which authorizes the payment and leaves an event in an outbox; the
orchestrator picks the event up and runs a saga over the orders, inventory and
payment services.  This directory holds TLA+ modules of that system, the TLC
configurations that check them on small instances, and TLAPS proofs of what
holds for instances of every size.

## 1. Inventory

| Part | State it keeps | Operations | Talks to |
|---|---|---|---|
| Edge API (`services/edge-api`) | `order_ledger`, `order_ledger_items`, first row of `outbox` | `POST /orders` (create), `GET /orders/:id` | payment service (authorize); `NOTIFY order_events` |
| Orchestrator loops (`orchestrator/src/main.ts`) | none; row locks of one transaction | `processEvents`, polling loop, notification loop | outbox and ledger tables |
| Saga executor (`SagaExecutorLive.ts`) | `order_ledger.status`, `order_ledger.order_id`, `outbox.retry_count`, `outbox.next_retry_at` | `executeSaga`, `executeSagaSteps`, `handleStepError` | orders, inventory, payments clients |
| Compensation executor (`CompensationExecutorLive.ts`) | none (a list of errors, logged) | `executeCompensation` | the same clients |
| Retry policy (`RetryPolicy.ts`) | none | `isMaxRetriesExceeded`, `calculateRetryDelay` | |
| Clients (`orchestrator/src/clients`) | none | one method per remote call | HTTP, 10 s timeout |
| Orders service (`services/orders`) | `orders`, `order_items` | create, confirm, cancel, get | |
| Inventory service (`services/inventory`) | `products`, `inventory_reservations`, `inventory_adjustments` | reserve, release, add stock, create product, get | |
| Payment service (`services/payment`) | maps in memory | authorize, capture, void | |
| Tracing (`packages/tracing`) | spans | propagation of context | |

What is hard in it:

* **Concurrency.** A replica of the orchestrator has two loops that process the
  outbox, and the design wants several replicas.  The services handle requests
  of both, and requests nobody waits for any more.
* **Atomicity.** One database transaction spans a whole batch: up to ten sagas
  with up to four remote calls each.  The ledger of all of them is rolled back
  together; what the services did is not.
* **Failure.** A call may be refused, its answer lost, its request delayed past
  the timeout, its body unreadable; a replica may die at any point; the mock
  gateway forgets everything when it restarts.
* **Ordering.** Late requests meet their own retries and the compensation.
* **Repetition.** Clients repeat a request under the same idempotency key, also
  while the first is still being handled.

What makes each part correct: claims are exclusive; ledger and outbox agree;
the ledger follows its state machine and records nothing that did not happen;
stock is conserved; an order is charged at most once and never after it is
settled; an order that completed is whole and a failed one leaves nothing
unlogged; every order is settled; the intake queues an order once, with its own
lines and its own authorization, and what it told the client stays true.
`PROJECT.json` lists the hazards behind these, each at its line.

## 2. Modules

| Module | What it is |
|---|---|
| `Saga` | The orchestrator with the three services: state, one action per step of a worker and per fault, `Spec` and `FairSpec` |
| `SagaProperties` | Type invariant, safety, action and liveness properties, the refinement mapping |
| `OrderPromise` | The abstract specification: an order is charged at most once, by a capture asked for while it is open, is settled once, and does not complete uncharged |
| `MCSaga` | Instance for TLC, with the symmetry of orders and of replicas; one `.cfg` per run |
| `SagaProofs` | Inductive invariant of the ledger and the outbox, for all constants |
| `SagaServiceProofs` | Stock, types, and the ledger against the services, for all constants |
| `SagaPromiseProofs` | The transitions of the ledger and the refinement of `OrderPromise` |
| `SagaOutcomeProofs` | What a settled order leaves behind, under the faults that leave it true |
| `Intake` | `POST /orders` of the edge API with the payment service's `authorize`: one action per statement of the handler and per fault |
| `IntakeProperties` | Its type invariant, safety, action and liveness properties, the inductive invariant, the refinement mapping |
| `OrderArrivals` | The abstract specification of the intake: recorded, then its lines, then the money, then the event, each once; a refused order holds no money |
| `MCIntake` | Four requests for TLC, three of them with one key |
| `IntakeProofs` | Inductive invariant, the refinement of `OrderArrivals` and the count of abandoned ledgers, for all constants |
| `Inventory` | The inventory service on its own: reservations of several lines, releases, stock adjustments and new products, requested concurrently, with row locks, deadlocks and failures |
| `InventoryProperties` | Its type invariant, safety, action and liveness properties, the inductive invariant, the refinement mapping |
| `Warehouse` | The abstract specification of stock: an order reserves as a whole and once, gives back as a whole and once, a key adds once, a product is created once |
| `MCInventory` | Fourteen requests for TLC over four orders and four products |
| `InventoryProofs` | Inductive invariant, deadlocks, refusals, answers and the refinement of `Warehouse`, for all constants |
| `InventoryStockProofs` | Sums over finite sets, and the account of each product, for all constants |

`Intake` and `Saga` meet at the event.  `Intake` ends an accepted order with a ledger that is
`AUTHORIZED` and one `PENDING` event, written in one transaction.  `Saga` takes
that transaction in as its action `OrderAuthorized`, which may come at any time;
before it, a ledger of `Saga` is `AWAITING_AUTHORIZATION` with its payment
authorized, which is what `EventIsBacked` proves of the intake.

`Saga` and `Inventory` meet at `Warehouse`.  `Inventory` shows that the service,
with its transactions, locks and orders of several lines, implements `Warehouse`
(`KeepsStock`); `Saga` calls an inventory of one product that is served in two
steps, possibly late or twice, and shows that this one is a `Warehouse` too
(`UsesWarehouse`).  What the saga relies on is thus what the service promises.

### How `Saga` corresponds to the code

*State.*  `db` is the committed ledger row and outbox event of each order,
`view` the same rows as the transaction that locked them sees them, so that
`view` differs from `db` for what an open batch wrote.  `wk` is what each
worker (a loop of a replica) is doing: `pc` is `"idle"`, `"pick"` (between two
events of its batch) or the name of the remote call under way; `held` are the
locked events, `todo` those not yet processed, `cur` the current one, `undo`
the compensations still to do.  `order`, `rows`, `stock` and `pay` are the
services' state.  `late` holds requests whose client gave up or died.  `report` is what
the last compensation of an order logged.  `faults` and `down` belong to the
environment.

*Actions.*  `Claim` is `claimPendingEvents` with its order and limit,
`BeginEvent` the beginning of `executeSaga`, `Commit` the end of
`sql.withTransaction`.  A remote call has the outcomes `Answered`, `Refused`,
`AnswerLost`, `Delayed` and `Garbled`; each gives a verdict to `Receive`, which
is the rest of the step: `StepSucceeded`, `ScheduleRetry`, `StartCompensation`
or `Compensated`.  `HandlerGoesOn` separates the database transactions of one
handler: lookup and insert of an order, lookup and lock of a reservation, check
and write of a confirmation or cancellation.  `Crash` rolls back the batches of
a replica; the requests it has sent, and the handlers half way through one, are in
other processes and may go on without it, so that any of them may become late.
`Restart` starts a replica again, `GatewayRestart` empties the gateway, `ServeLate`
serves a late request, or the first of its two steps.

*Abstractions.*

* An order takes one unit of one product that exists.  Orders of several lines
  are in `Inventory`.
* A ledger has at most one event: the edge API inserts it with the update of the
  ledger (`EventIsBacked`) and nothing else inserts events.  For the same reason
  the branches for a missing ledger and an unreadable payload are left out.
* Any idle worker may wake up at any time: a poll, a notification and a stale
  notification all run the same `processEvents`.
* `due` stands for `next_retry_at`: false from the moment a retry is scheduled
  until the clock passes it.  Among events that are due, those never retried
  come first (NULLS FIRST); other differences of order are not kept.
* `late` is a set: two identical late requests of one order are one.
* A refused call stands for every failure without effect: no connection, 503,
  or a 500 after a rolled back transaction.
* `Garbled` stands for an answer with a success status whose body does not
  decode, a permanent error for all clients.  The answer of a void never
  decodes (finding 3): that is part of `PaymentsVerdict`.

### How `Intake` corresponds to the code

*State.*  `req` is the handler of each request: the statement it is at, and the
status it answers.  `ledger` and `items` are the rows of a key, with the request
they came from remembered for the properties; `event` counts the ledger's outbox
events; `hold` is `authorizeIdempotencyMap` of the gateway; `late` are
authorizations that nobody waits for any more.

*Actions.*  `FindByClientRequestId` is step 1 of `createOrder`; `Proceed` commits
the statement of step 3, 4 or 6, or the `markAuthorizationFailed` of a declined
payment (`Write`) and goes on; `InsertConflicts` is the unique
`client_request_id`; `AuthorizeAnswered` is step 5, with `Authorize` for what the
gateway does.  `AuthorizeFails` is every way of the client to a
`PaymentGatewayError`: the call may have been served before (`ServeLate` right
after it), may be later, or never.  `DatabaseFails` is an `SqlError`, with the
statement committed or not.  `HandlerStops` is the process dying or the client
hanging up, which interrupts the handler: it happens between statements, since a
statement that is cut off either was committed or was not.  `Answer` sends the
answer.

*Abstractions.*  A request has a key and a body that decodes; without them the
API answers 400 and changes nothing.  The amount is computed from the lines with
a fixed price, so that lines of one request stand for its amount too.  The
gateway keeps its memory: what a restart does to an authorization is in `Saga`.
Its branch for a repeated key is in `Authorize`, and the invariant shows that the
intake never gets there: only the request that inserted the ledger authorizes.

### How `Inventory` corresponds to the code

*State.*  `catalogue` and `stock` are `products`; `rows` are
`inventory_reservations` by order and product; `adjustments` gives each key of
`inventory_adjustments` the request that made its row, remembered for the
properties.  `lock` is who holds a product's row, or the `RESERVED` rows of an
order.  `req` is the handler of each request: `pc` is the statement it is at,
`next` the product it locks or waits for, `todo` those after it, `seen` the stock
it read, `answer` the status it sent.

*Actions.*  A handler has one READ COMMITTED transaction.  What it writes is seen
by others only once it is committed, so that all its writes are one step, `Write`
in `Commit`; before it come the locks, one by one, and each lookup that takes none.
`ReserveLookup` is step 1 of `reserveStockAtomic`, `LockProduct` a row of step 2
(`ORDER BY id FOR UPDATE`), `ReserveRefused` the ends of steps 3 and 4 and the
constraints that steps 5 and 6 may meet, `ReserveStock` their success.
`LockReservations` is step 1 of `releaseByOrderId`, `LockProduct` an `UPDATE` of
step 3, in any order; `ReleaseStock` is the commit.  `addStockAtomic` is one statement: `AddStockChecks` is its snapshot,
`AddStock` or `AddStockConflicts` what follows when it has the product's lock.
`FindBySku`, `InsertProduct` and `InsertConflicts` are the two statements of
`create`.  `DeadlockDetected` is the database failing one of the statements that
wait for each other; `DatabaseFails` is any other `SqlError`, with the commit done
or not; `HandlerStops` is a process that dies or a client that hangs up.

*Abstractions.*

* A product is a number, where its id sorts; a new product stands for its sku.
  Nobody reserves or restocks a new product before it is there, since its id is
  made by the insert (`Send`); ids that never exist are there too.
* The `RESERVED` rows of an order are locked in one step: they are found by the
  same scan every time.
* The rows that a release finds have no `ORDER BY`.  Usually they come in the order
  of their insertion, which is that of the product ids, but nothing guarantees it,
  so that the model allows every order.  The deadlocks of a release with a
  reservation are thus what the statements allow, not what PostgreSQL often does.
* The deadlock detector is PostgreSQL's, not the code's.  It is modelled from what
  the handlers see of it and may pick any of the statements that wait.
* The pool of connections is large enough; stock does not reach the limit of
  `INT`; the time and the notes of an adjustment are left out.
* Requests have a valid body and, for an adjustment, a key; otherwise the API
  answers 400 and changes nothing.  A request is one request: a client that
  repeats one is another, with the same body (`retry1` of `reserve1`, `again2` of
  `release2`, `readd1` of `add1`); `add2` uses the key of `add1` for something else.

## 3. Runs

| Run | Faults and bounds | Checks | Distinct states |
|---|---|---|---|
| `saga_refused` | 4 of refuse, wipe; two loops, 2 orders, 1 unit | `RemaindersAreLogged`, `LedgerStepsValid`, `EveryOrderSettles` | 126 000 |
| `saga_crash` | 3 crashes, late requests of the dead; 2 replicas, 2 orders, 1 unit | `PaidAsSettled` | 309 000 |
| `saga_unreliable` | 3 of refuse, lose, delay, garble | `CompletedIsFulfilled`, `LedgerNeverAhead`, `StockConserved`, `UsesWarehouse` | 292 000 |
| `saga_faults` | 3 of refuse, lose, garble, crash with late requests; 2 replicas, 2 units | `TypeOK`, `OutboxAgreesWithLedger`, `OneTransactionPerEvent`, `LedgerInvariant`, `KeepsPromise` | 856 000 |
| `saga_completes` | 2 of refuse, lose, crash with late requests; 3 attempts, 3 units | `EveryOrderCompletes` | 203 000 |
| `intake_faults` | 2 of database, payment, stop; 4 requests, 2 keys | `TypeOK`, `EventIsBacked`, `HoldIsRecorded`, `AnswersAreTrue`, `AbandonedByFaults`, `IntakeInvariant`, `KeepsOrder` | 114 000 |
| `inventory_faults` | 1 of database, stop; any 3 of 14 requests, 4 orders, 4 products | `TypeOK`, `StockAccounted`, `AnswersAreTrue`, `OnlyReleasesDeadlock`, `NobodyIsStuck`, `InventoryInvariant`, `RefusalsAreForced`, `KeepsStock`, `EveryRequestEnds` | 71 000 |

Which faults a property survives is as much a result as the property.
`AllOrNothing` survives neither a lost answer nor a single crash: a replica dies
when the inventory has looked up its order and found no reservation; the replay's
request finds none either; then the first takes the last unit, the second is
refused for lack of the stock its own order holds, and the compensation, chosen
from `ORDER_CREATED`, does not release it.  (`FaultKinds = {"crash"}` and
`MaxFaults = 1` in `MCSagaLostAnswer.cfg` show this.)  What crashes do keep is
`PaidAsSettled`: a completed order lacks nothing, and the payment of a failed
one is voided; stock and an uncancelled order are what may stay behind.
`CompletedIsFulfilled` survives every fault of the calls, and every crash, but not
a refusal and a crash together.  `KeepsPromise` survives all but a gateway that
forgets.  It does not say that a failed order is never charged: a capture that was
asked for while the order was open (`astray` in `OrderPromise`) may be served when
it is settled, and this is the only way.  `EveryOrderCompletes` needs stock to
spare, since a replay may otherwise be refused as above, and fewer failures than
attempts.  What nothing breaks is
the bookkeeping: `OutboxAgreesWithLedger`, `OneTransactionPerEvent`,
`StockConserved`, and, except for a gateway that forgets, `LedgerNeverAhead`.

The safety of the intake survives every fault modelled.  What does not is its
liveness: a handler that fails or stops leaves a ledger that is never resolved,
and nothing else does (`AbandonedByFaults` counts them).

The inventory keeps all of its promises under every interleaving and fault.  What
it shows besides is who pays for it: reservations never deadlock with each other,
but a release can deadlock with one, and then one of them is answered 500; of
requests that repeat each other the later one is often refused rather than given
the result of the first.  `RefusalsAreForced` lists the reasons there are.

Five runs are expected to find a violation and stand for the findings:

1. `saga_lost_answer`: the last attempt of a step took effect, its answer was
   lost, and the compensation, chosen from the last recorded status, does not
   undo it.  An order is left created, stock reserved or money captured behind
   a `FAILED` ledger.
2. `saga_replay`: at `INVENTORY_RESERVED`, the void is refused, the release is
   done, and the process dies before the commit.  The replay starts from
   `INVENTORY_RESERVED` again, captures the payment and confirms an order whose
   stock has been given back.
3. `saga_void`: without any fault, a void that was done is logged as an error,
   since the client expects a `void_id` the service does not send.
4. `intake_stops`: a handler that stops after the insert leaves its ledger
   `AWAITING_AUTHORIZATION` for good, although the design says that requests
   survive crashes.
5. `inventory_repeats`: an adjustment and its repeat, with the same key, product
   and quantity, are under way at once.  The row of the product serializes them;
   the second is answered 500, although the design says that it will see the first one's
   changes and return its result: the statement looks for the key in a snapshot
   that is older than the lock it waits for.  The stock is added once all the
   same.

Disagreements that no run states:

* A step is attempted one time more than the comment of
  `RetryPolicy.ts`, `isMaxRetriesExceeded`, allows: the count is compared before
  it is increased (`ScheduleRetry`).
* A request whose authorization timed out is answered 503 with `is_retryable`,
  and its retry with the same key is answered 409; of two concurrent requests
  with one key, the second may be answered 500 instead of 409
  (`InsertConflicts`).
* A reservation that is repeated while the first is under way passes the lookup,
  which locks nothing, and is then refused with 409 or 500 for what its own first
  request did.  An order whose reservation was released, or that names a product
  twice, is answered 500 for good, which the orchestrator takes for worth a retry.
* Of two concurrent creations of a sku the second is answered 500, not 409.
* The comment "prevents deadlocks" of `reserveStockAtomic` holds among
  reservations only, and the lock timeout of `engineering-design.md` is not set.

*Bounds.*  Two orders are enough for two workers to hold different events and
for one unit of stock to be contested; `saga_crash` has one unit, so that a late
request of a dead replica and the calls of its replay compete for it, with each
other and with the second order.  `BatchSize` 2 (10 in the code) already commits
and rolls back several sagas together.  `MaxAttempts` 1 gives each step a first and
a last attempt; `saga_completes` takes 3, so that its two failures stay below the
attempts, whether these are counted as in the code or as in its comments.  Two or three faults are enough for a fault in a step, one in its
retry or compensation, and a crash on top.  In `Intake` a key of three requests
allows a race between two and a latecomer, one of them with a card that is
declined; a request with a key of its own shows that keys do not interfere.  Two
faults stop the request that owns a ledger and one that repeats it.  In
`Inventory` the two orders name the same two products in opposite order and not
both fit on the shelf; one of them is reserved from the beginning, so that three
requests suffice for a release, a reservation it deadlocks with and one that
waits for both, or for a reservation, its retry and its release.

*Fairness.*  `FairSpec` asks that an idle polling loop wakes up in the end (it is a
`repeat` without end), that a loop of either kind goes on with what it has claimed
(the clients have timeouts), that time passes (`RetryTimeReached`), and that a
crashed replica is started again.  Of a notification loop that is idle nothing is
asked: the connection it listens on may be gone.  The restart is an assumption on
the deployment; the code exits on a fatal error and leaves it to whoever runs it.
Nothing is asked of the environment: faults need not occur and late requests need
not be served.  In `Intake` a handler that has begun goes on (`HandlerStep`): it is a
fiber of the runtime, and its remote call has a timeout; requests need not come.
In `Inventory` some handler goes on while one can; that a wait for a lock ends is
not assumed but follows, since requests are finitely many and the database breaks
deadlocks.  Where the last request has ended, the model stops, so that the cfgs of
`Inventory` do not check for deadlock; that nobody is stuck is `EveryRequestEnds`.

## 4. Proofs

All for every number of orders, replicas, requests, products, attempts and
faults, from `ConstantsAssumption`, `IntakeAssumption` and `InventoryAssumption`.
Some theorems about the saga hold under some kinds of faults only; they say so in
a hypothesis on `FaultKinds`, which the run that checks the property meets;
findings 1 and 2 are what happens beyond it.

`OutboxAgreesWithLedger` is not inductive: that a commit writes agreeing rows
depends on what the worker did to its view since the claim.  `LedgerInvariant`
adds that claims are exclusive, that an unlocked row is seen as committed, and
for each locked row what the `pc` of its worker says about it (`HeldRow`).
`SagaProofs` shows that it holds initially and that every action preserves it,
action by action, with one lemma for the four ways a call can end; from it
follow `OutboxAgreement` and `ClaimsAreExclusive`.

`SagaServiceProofs` looks at the services.  Every step of the system either
leaves them alone, serves one call, or wipes the gateway
(`WhoChangesServices`).  `StockIsConserved` then needs only what a served call
does to `stock` and to the set of reserved rows.  `LedgerIsNeverAhead` is
inductive together with the ledger's invariant: services never forget an order,
a row or a capture, and a worker records only what was answered.  It assumes
that the gateway keeps its memory (`"wipe" \notin FaultKinds`).

`SagaPromiseProofs` begins with `TransitionsAreValid`: what a step writes to a
ledger follows from the `pc` of the worker, and a batch that is rolled back writes
nothing.  `ImplementsOrderPromise` (no `"wipe"`) needs besides that the ledger is not ahead
of the services, and that a ledger that is settled is not claimed any more: a
capture is under way only for a ledger that is open as committed
(`OpenWhileCalling`), and so is every capture at the moment it becomes late
(`ForsakenWhileOpen`).  An order is charged by one or the other.

`SagaOutcomeProofs` has one invariant for each way a settled order can go wrong.

* `CompletedStaysFulfilled` (any faults of calls, no `"crash"`, no `"wipe"`):
  `SparedInvariant` says that of an order whose ledger is not given up nothing has
  been undone, and no request to undo it is on its way (`Spared`).  A crash breaks
  it, by finding 2: it takes back that a ledger was given up, and not what was
  undone.
* `CrashesKeepPaidAsSettled` (nothing but `"crash"`): a late request of a dead
  replica may change the services at any moment, so that the ledger bounds what they
  have done and does not determine it.  What is used instead is that the condition
  under which a call is made stays true until it is served (`Permitted`): an order is
  captured only when it has its stock, and its replay is then never refused; its
  compensation voids the payment before anything else, and does that only for an
  order of which no capture can come any more (`Uncharged`).  `CrashInvariant` adds
  what follows for the services (`ServicesKnow`), the ledger (`LedgerKnows`) and the
  calls under way (`CallKnows`).
* `RemaindersLogged` (`"refuse"` and `"wipe"`): nothing is late (`NothingIsLate`)
  and no answer is lost, so that each
  worker knows exactly what the services hold for its order.  `LogInvariant` states
  that correspondence, call by call (`Holds`, `Pending`), and for a compensation
  that what is not yet undone is either still to do or logged (`Accounted`,
  `PaymentLogged`).

`SagaUsesWarehouse` needs no more than the types: each served call of the
inventory is a step of `Warehouse` or changes nothing of it.

`IntakeProofs` rests on one idea: a request owns a ledger from its insertion on.
Whether a step keeps `EventIsBacked` depends on who else may be writing to the
ledger; `IntakeInvariant` says of every handler, by its `pc`, what is stored and
held for it (`HandlerKnows`), and of a late authorization that its ledger is
otherwise at rest (`LateKnows`).  `IntakeCorrect` proves it inductive, action by
action; `EventsAreBacked`, `HoldsAreRecorded` and `AnswersStayTrue` follow, and
`IntakeKeepsOrder` shows with it that each step is a step of `OrderArrivals` or
changes nothing of it.  `FaultsAbandon` compares the abandoned ledgers with the
faults: a step without a fault abandons none, one with a fault at most the ledger
of its handler.  It needs that a ledger has the key of its request
(`KeysAreOwn`), and finitely many keys.

`InventoryProofs` starts from `InventoryAssumption`: ids are numbers, orders have
lines, and there are finitely many orders and keys.  Neither the stock nor the
rows of an order are protected by their values, only by who has locked them, so
that `InventoryInvariant` says of each handler what it holds: a reservation all
listed products before the one it waits for, a release the rows of its order and
products out of these; and that what was seen under a lock is still so.  `WriteRespects` shows that a commit changes only what
no other handler has locked, `OthersUndisturbed` that the others then know what
they knew; each action has a lemma for its own handler.  From `InventoryCorrect`
follow

* `DeadlocksHaveReleases`: in a deadlock of reservations alone, the one that
  waits for the smallest product holds only smaller ones, for which nobody waits
  (by the least element of a set of numbers);
* `WaitsEnd`, the part of `EveryRequestEnds` that is within the prover's reach:
  whoever is waited for is at work, and a smallest set of handlers that wait for
  each other is a deadlock, of finitely many since each step sends one request;
* `RefusalsHaveReasons`: what a handler decides from what it has seen is true;
* `AnswersStayTrue`, with the fact that who made an adjustment is over
  (`OriginalsAreOver`);
* `ImplementsWarehouse`: each commit is a step of `Warehouse`, and nothing else
  changes what it sees.

`InventoryStockProofs` proves `StockAccounted` (`UnitsAreAccounted`), a statement
about sums over sets of any finite size.  `MapThenSumSet` is a recursive function,
and the library's induction takes an operator, which the provers cannot
instantiate.  The induction is done on a set instead: a set of numbers that has 0
and each successor has all numbers, by the least element of its complement
(`AllNumbers`, `AllSubsets`).  From it, such sums exist, are unique, and grow by
the value of an element whichever element is chosen (`SumsAdd`); `Total` is the
sum with the lemmas that follow.  Then no commit changes the `Account` of a
product, one lemma for each kind of commit; a new product has neither reservations
(`Whole`) nor adjustments (`RecordsAreKnown`).

## 5. Only model-checked

Liveness (`EveryOrderSettles`, `EveryOrderCompletes`, `EveryRequestEnds`), which
is out of the prover's reach under fairness.  Every safety property of a passing
run is stated by a theorem; what TLC adds there are the findings, and the mixes of
faults in `PROJECT.json` that the theorems about the saga's outcome exclude.

## 6. Not modelled

Reads without effect (`GET`), operations that nothing calls (`findByOrderId`,
`updateStock`), tracing, configuration, health endpoints, validation of request
bodies, the pool of database connections, and the parts that section 7 plans.

## 7. Plan

1. `RetryPolicy`: the delay function and the schedule of one event, with proofs
   about the number of attempts.
2. The intake composed with the promise of the saga: what `OrderArrivals` queues
   is what `OrderPromise` settles.
