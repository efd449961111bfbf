--------------------------- MODULE SagaProperties ---------------------------
(***************************************************************************)
(* What is claimed of the saga orchestrator.  Which property holds under   *)
(* which faults is said by the configurations that check it.               *)
(***************************************************************************)
EXTENDS Saga

WorkerRecord == [pc: Calls \cup {"idle", "pick"}, held: SUBSET Orders,
                 todo: SUBSET Orders, cur: Orders \cup {None},
                 undo: SUBSET Undo]

\* The types of all variables.
TypeOK ==
  /\ db \in [Orders -> Row]
  /\ view \in [Orders -> Row]
  /\ wk \in [Workers -> WorkerRecord]
  /\ order \in [Orders -> {"none", "CREATED", "CONFIRMED", "CANCELLED"}]
  /\ rows \in [Orders -> {"none", "RESERVED", "RELEASED"}]
  /\ stock \in Nat
  /\ pay \in [Orders -> {"AUTHORIZED", "CAPTURED", "VOIDED", "missing"}]
  /\ late \subseteq Calls \X Orders
  /\ report \in [Orders -> SUBSET (Undo \cup {"refund"})]
  /\ faults \in 0..MaxFaults
  /\ down \subseteq Replicas

-----------------------------------------------------------------------------
(* Ledger and outbox. *)

Agrees(row) ==
  \/ row.status = "AWAITING_AUTHORIZATION" /\ row.event = "none"
  \/ row.status \in Open /\ row.event = "PENDING"
  \/ row.status = "COMPLETED" /\ row.event = "PROCESSED"
  \/ row.status = "FAILED" /\ row.event = "FAILED"

\* Whatever a reader of the database sees, ledger and outbox tell the same
\* story: an event is there as soon as its ledger is authorized, it is PENDING
\* exactly while the ledger is open, and no ledger is ever seen COMPENSATING (the
\* two tables are written by different repositories, one event of a batch after
\* the other, with crashes between).
OutboxAgreesWithLedger == \A o \in Orders : Agrees(db[o])

\* No event is in two transactions at once, whatever loops and replicas poll
\* at the same time: the promise of FOR UPDATE SKIP LOCKED.
OneTransactionPerEvent ==
  \A v, w \in Workers : v # w => wk[v].held \cap wk[w].held = {}

\* What a worker holds while it is between calls and during one.
WorkerConsistent(w) ==
  /\ wk[w].todo \subseteq wk[w].held
  /\ wk[w].pc = "idle" => wk[w].held = {}
  /\ wk[w].pc \in Calls => wk[w].cur \in wk[w].held \ wk[w].todo

\* An event that is between two saga runs or settled.
AtRest(row) == Agrees(row) /\ row.event # "none"

\* The row of an event a worker has locked: the event is still PENDING for
\* everybody else; the worker's own view is in the middle of a step, in the
\* middle of a compensation, or settled one way or the other.
HeldRow(w, o) ==
  /\ db[o].event = "PENDING"
  /\ IF wk[w].pc \in Calls /\ o = wk[w].cur
     THEN /\ view[o].event = "PENDING"
          /\ view[o].status = IF wk[w].pc \in ForwardCalls
                              THEN StatusDuring[wk[w].pc] ELSE "COMPENSATING"
     ELSE AtRest(view[o])

\* The inductive strengthening of OutboxAgreesWithLedger: with the locks
\* exclusive, the view of a locked row is as its worker left it, and that of an
\* unlocked row is what is committed.
LedgerInvariant ==
  /\ OutboxAgreesWithLedger
  /\ OneTransactionPerEvent
  /\ \A w \in Workers : WorkerConsistent(w)
  /\ \A w \in Workers : \A o \in wk[w].held : HeldRow(w, o)
  /\ \A o \in Orders : o \notin Locked => view[o] = db[o]

\* domain/SagaState.ts, without the failed authorization.
VALID_TRANSITIONS == [s \in LedgerStatus \ Terminal |->
  CASE s = "AWAITING_AUTHORIZATION" -> {"AUTHORIZED"}
    [] s = "AUTHORIZED"             -> {"ORDER_CREATED", "COMPENSATING"}
    [] s = "ORDER_CREATED"          -> {"INVENTORY_RESERVED", "COMPENSATING"}
    [] s = "INVENTORY_RESERVED"     -> {"PAYMENT_CAPTURED", "COMPENSATING"}
    [] s = "PAYMENT_CAPTURED"       -> {"COMPLETED", "COMPENSATING"}
    [] s = "COMPENSATING"           -> {"FAILED"}]

\* The executor never consults the table of valid transitions, yet every write
\* to a ledger obeys it, and any other change is a rollback to what was
\* committed; a settled ledger is never touched again.
LedgerStepsValid ==
  [][\A o \in Orders : view'[o].status # view[o].status =>
       \/ /\ view[o].status \notin Terminal
          /\ view'[o].status \in VALID_TRANSITIONS[view[o].status]
       \/ view'[o] = db[o]]_vars

-----------------------------------------------------------------------------
(* The ledger and the services. *)

NotAhead(row, o) ==
  /\ row.status \in (Open \cup {"COMPLETED"}) \ {"AUTHORIZED"} => row.orderId
  /\ row.orderId => order[o] # "none"
  /\ row.status \in {"INVENTORY_RESERVED", "PAYMENT_CAPTURED", "COMPLETED"}
       => rows[o] # "none"
  /\ row.status \in {"PAYMENT_CAPTURED", "COMPLETED"} => pay[o] = "CAPTURED"

\* The ledger never records what has not happened: a recorded order exists, a
\* recorded reservation was made, a recorded capture took the money and no
\* later void took it back, through lost answers, late requests and rollbacks.
LedgerNeverAhead == \A o \in Orders : NotAhead(db[o], o) /\ NotAhead(view[o], o)

\* No unit of stock is lost or sold twice: what is on the shelf and what is
\* reserved add up to the initial stock, whatever is retried, late or crashed.
StockConserved ==
  stock + Cardinality({o \in Orders : rows[o] = "RESERVED"}) = InitialStock

Fulfilled(o) == order[o] = "CONFIRMED" /\ rows[o] = "RESERVED" /\ pay[o] = "CAPTURED"

NothingLeft(o) ==
  order[o] \in {"none", "CANCELLED"} /\ rows[o] # "RESERVED" /\ pay[o] # "CAPTURED"

\* A completed order is confirmed, its stock is still reserved and its payment
\* captured.
CompletedIsFulfilled ==
  \A o \in Orders : db[o].status = "COMPLETED" => Fulfilled(o)

\* Money follows the outcome: a completed order lacks nothing, and the payment of a
\* failed one is voided for good, although the processes that ran its saga died at
\* any point and what they had asked for was done behind the back of the replay.
PaidAsSettled ==
  /\ CompletedIsFulfilled
  /\ \A o \in Orders : db[o].status = "FAILED" => pay[o] = "VOIDED"

\* engineering-design.md, "Saga orchestrator guarantees all-or-nothing
\* semantics": a completed order has everything and a failed one nothing.
AllOrNothing ==
  /\ CompletedIsFulfilled
  /\ \A o \in Orders : db[o].status = "FAILED" => NothingLeft(o)

\* Every remainder of a failed order is in the log of its compensation: an order
\* left uncancelled and a reservation left unreleased have their error there, a
\* captured payment has its refund, and no other payment that the gateway knows.
RemaindersAreLogged ==
  \A o \in Orders : db[o].status = "FAILED" =>
    /\ "cancel" \notin report[o] => order[o] \in {"none", "CANCELLED"}
    /\ "release" \notin report[o] => rows[o] # "RESERVED"
    /\ pay[o] = "CAPTURED" => "refund" \in report[o]
    /\ "refund" \in report[o] => pay[o] \in {"CAPTURED", "missing"}

\* CompensationExecutor.test.ts, "should void payment and cancel order when last
\* status is ORDER_CREATED" expects CompensationCompleted: where nothing fails,
\* a compensation has no errors.
CompensationCompletes ==
  \A o \in Orders : db[o].status = "FAILED" => Undo \cap report[o] = {}

-----------------------------------------------------------------------------
(* Progress, and the abstract promise. *)

\* Every authorised order is settled in the end: no crash, lost answer or
\* missed notification leaves it open for ever.
EveryOrderSettles ==
  \A o \in Orders : db[o].status = "AUTHORIZED" ~> db[o].status \in Terminal

\* With stock to spare, fewer failures than an event has attempts, of calls or of
\* replicas, cost no order: each one completes in the end, since a repeated call is
\* recognized by the service that has served it already.
EveryOrderCompletes ==
  \A o \in Orders : db[o].status = "AUTHORIZED" ~> db[o].status = "COMPLETED"

Outcome(status) ==
  IF status \in Terminal
  THEN IF status = "COMPLETED" THEN "completed" ELSE "failed"
  ELSE "open"

Promise == INSTANCE OrderPromise WITH
  outcome <- [o \in Orders |-> Outcome(db[o].status)],
  charged <- [o \in Orders |-> pay[o] = "CAPTURED"],
  astray <- {o \in Orders : <<"capture", o>> \in late}

\* The orchestrator keeps the promise of OrderPromise: retries, replays and
\* compensations, of workers and of replicas that died, never capture for an order
\* that is settled; only a capture asked for before can still come late.
KeepsPromise == Promise!Spec

Stocks == INSTANCE Warehouse WITH
  Products <- {1}, Catalogue <- {1}, catalogue <- {1},
  Shelf <- [p \in {1} |-> InitialStock], stock <- [p \in {1} |-> stock],
  Demand <- [o \in Orders |-> [p \in {1} |-> 1]],
  Standing <- {}, reservation <- rows,
  Keys <- {}, used <- <<>>, Amounts <- {}

\* The saga's reservations, served in two steps and perhaps late or twice, are
\* those of Warehouse for one product of which every order takes one; Inventory,
\* with its locks and lines, implements the same Warehouse.
UsesWarehouse == Stocks!Spec

=============================================================================
