-------------------------------- MODULE Saga --------------------------------
(***************************************************************************)
(* The saga orchestrator (services/orchestrator) with the three services   *)
(* it calls.                                                               *)
(*                                                                         *)
(* A worker is one loop (polling or LISTEN/NOTIFY) of one replica of the   *)
(* orchestrator.  It claims a batch of outbox events with FOR UPDATE SKIP  *)
(* LOCKED and runs the saga of each event inside ONE database transaction, *)
(* so what it writes to the ledger and to the outbox is visible to nobody  *)
(* until the whole batch commits, while what it asks of the orders,        *)
(* inventory and payments services takes effect at once.  A crash rolls    *)
(* the transaction back and keeps the remote effects.                      *)
(*                                                                         *)
(* A remote call is one action of the worker per database transaction or   *)
(* statement group of the service's handler: a handler that first looks    *)
(* and then writes is two steps (create/createInsert, reserve/reserveLock, *)
(* confirm/confirmWrite, cancel/cancelWrite).  The environment may refuse  *)
(* a call, lose its answer, delay the request past the client's timeout,   *)
(* garble the answer, crash a replica or wipe the payment gateway;         *)
(* FaultKinds says which of these a run allows, MaxFaults how many.        *)
(***************************************************************************)
EXTENDS Naturals, FiniteSets

CONSTANTS
  Orders,        \* order ledgers, each with its one outbox event
  Replicas,      \* orchestrator processes
  Loops,         \* the loops a process runs, out of {"poll", "notify"}
  BatchSize,     \* events one transaction claims at most (10 in the code)
  MaxAttempts,   \* config.maxRetryAttempts
  InitialStock,  \* units of the one product, of which an order takes one
  FaultKinds,    \* the faults the environment may inject
  MaxFaults,     \* bound on the number of injected faults
  None           \* no order

AllFaults == {"refuse", "lose", "delay", "garble", "crash", "wipe"}

ASSUME ConstantsAssumption ==
  /\ IsFiniteSet(Orders)
  /\ None \notin Orders
  /\ Loops \subseteq {"poll", "notify"}
  /\ BatchSize \in Nat \ {0}
  /\ MaxAttempts \in Nat
  /\ InitialStock \in Nat
  /\ FaultKinds \subseteq AllFaults
  /\ MaxFaults \in Nat

Workers == Replicas \X Loops

VARIABLES
  db,      \* committed ledger and outbox rows, per order
  view,    \* the same rows as the transaction that locked the event sees them
  wk,      \* what each worker is doing
  order,   \* orders service: the order created for a ledger
  rows,    \* inventory service: the reservation row of an order
  stock,   \* inventory service: products.stock_quantity
  pay,     \* payment gateway: the authorization of an order
  late,    \* requests whose client gave up and that may still be served
  report,  \* what the last compensation of an order logged
  faults,  \* injected faults so far
  down     \* crashed replicas

services == <<order, rows, stock, pay>>
vars == <<db, view, wk, order, rows, stock, pay, late, report, faults, down>>

-----------------------------------------------------------------------------
(* Ledger, outbox and worker records. *)

Open == {"AUTHORIZED", "ORDER_CREATED", "INVENTORY_RESERVED", "PAYMENT_CAPTURED"}
Terminal == {"COMPLETED", "FAILED"}
LedgerStatus ==
  {"AWAITING_AUTHORIZATION", "COMPENSATING"} \cup Open \cup Terminal

Row == [status: LedgerStatus, orderId: BOOLEAN,
        event: {"none", "PENDING", "PROCESSED", "FAILED"},
        retryCount: 0..MaxAttempts, due: BOOLEAN]

ForwardCalls == {"create", "createInsert", "reserve", "reserveLock",
                 "capture", "confirm", "confirmWrite"}
Undo == {"void", "release", "cancel"}
CompensationCalls == Undo \cup {"cancelWrite"}
Calls == ForwardCalls \cup CompensationCalls

\* Mutant of StepFor: the capture is forgotten.
StepForWithoutCapture == [s \in Open |->
  CASE s = "AUTHORIZED"    -> "create"
    [] s = "ORDER_CREATED" -> "reserve"
    [] OTHER               -> "confirm"]

\* The first call of the step that a ledger in an open status needs next.
StepFor == [s \in Open |->
  CASE s = "AUTHORIZED"         -> "create"
    [] s = "ORDER_CREATED"      -> "reserve"
    [] s = "INVENTORY_RESERVED" -> "capture"
    [] s = "PAYMENT_CAPTURED"   -> "confirm"]

\* The status a ledger has while a forward call of it is under way.
StatusDuring == [c \in ForwardCalls |->
  CASE c \in {"create", "createInsert"}   -> "AUTHORIZED"
    [] c \in {"reserve", "reserveLock"}   -> "ORDER_CREATED"
    [] c = "capture"                      -> "INVENTORY_RESERVED"
    [] c \in {"confirm", "confirmWrite"}  -> "PAYMENT_CAPTURED"]

\* The status recorded once a step has succeeded.
StatusAfter == [s \in Open |->
  CASE s = "AUTHORIZED"         -> "ORDER_CREATED"
    [] s = "ORDER_CREATED"      -> "INVENTORY_RESERVED"
    [] s = "INVENTORY_RESERVED" -> "PAYMENT_CAPTURED"
    [] s = "PAYMENT_CAPTURED"   -> "COMPLETED"]

\* Mutant of Mark: a compensated event is left for the next poll.
MarkOnlyCompleted(status) == IF status = "COMPLETED" THEN "PROCESSED" ELSE "PENDING"

\* The outbox mark that goes with the end of a saga.
Mark(status) == IF status = "COMPLETED" THEN "PROCESSED" ELSE "FAILED"

IdleWorker == [pc |-> "idle", held |-> {}, todo |-> {}, cur |-> None, undo |-> {}]

\* Every payment is authorized, and the edge API has yet to say so in the ledgers.
Init ==
  /\ db = [o \in Orders |->
            [status |-> "AWAITING_AUTHORIZATION", orderId |-> FALSE,
             event |-> "none", retryCount |-> 0, due |-> TRUE]]
  /\ view = db
  /\ wk = [w \in Workers |-> IdleWorker]
  /\ order = [o \in Orders |-> "none"]
  /\ rows = [o \in Orders |-> "none"]
  /\ stock = InitialStock
  /\ pay = [o \in Orders |-> "AUTHORIZED"]
  /\ late = {}
  /\ report = [o \in Orders |-> {}]
  /\ faults = 0
  /\ down = {}

-----------------------------------------------------------------------------
(* The services.  Handle(c, o, reply) is the effect of serving call c for  *)
(* order o; reply is the HTTP status, or "more" when the handler goes on   *)
(* to the second step of the call.                                         *)

Replies == {"200", "201", "404", "409", "500", "more"}

SecondStep == [c \in {"create", "reserve", "confirm", "cancel"} |->
  CASE c = "create"  -> "createInsert"
    [] c = "reserve" -> "reserveLock"
    [] c = "confirm" -> "confirmWrite"
    [] c = "cancel"  -> "cancelWrite"]

\* Orders service: look the order up by its ledger id ...
CreateLookup(o, reply) ==
  /\ reply = IF order[o] = "none" THEN "more" ELSE "201"
  /\ UNCHANGED services

\* ... and insert it; the unique order_ledger_id makes a second insert fail.
CreateInsert(o, reply) ==
  /\ \/ order[o] = "none" /\ reply = "201" /\ order' = [order EXCEPT ![o] = "CREATED"]
     \/ order[o] # "none" /\ reply = "500" /\ order' = order
  /\ UNCHANGED <<rows, stock, pay>>

\* Orders service, confirm and cancel: the status is read and checked ...
CheckOrder(o, target, reply) ==
  /\ \/ order[o] = target /\ reply = "200"
     \/ order[o] = "CREATED" /\ reply = "more"
     \/ /\ order[o] \notin {target, "CREATED"}
        /\ reply = IF order[o] = "none" THEN "404" ELSE "409"
  /\ UNCHANGED services

\* ... and written without looking at it again.
WriteOrder(o, target, reply) ==
  /\ reply = "200"
  /\ order' = [order EXCEPT ![o] = target]
  /\ UNCHANGED <<rows, stock, pay>>

\* Inventory service: rows that are RESERVED answer a repeated request ...
ReserveLookup(o, reply) ==
  /\ reply = IF rows[o] = "RESERVED" THEN "201" ELSE "more"
  /\ UNCHANGED services

\* ... otherwise the product is locked, its stock checked and taken, and the
\* row inserted, where the unique (order_id, product_id) refuses a second row.
ReserveLock(o, reply) ==
  /\ \/ stock = 0 /\ reply = "409" /\ UNCHANGED <<stock, rows>>
     \/ stock > 0 /\ rows[o] # "none" /\ reply = "500" /\ UNCHANGED <<stock, rows>>
     \/ /\ stock > 0 /\ rows[o] = "none" /\ reply = "201"
        /\ stock' = stock - 1
        /\ rows' = [rows EXCEPT ![o] = "RESERVED"]
  /\ UNCHANGED <<order, pay>>

\* Mutant of Release: the stock is restored and the row stays RESERVED.
ReleaseUnmarked(o, reply) ==
  /\ reply = "200"
  /\ stock' = IF rows[o] = "RESERVED" THEN stock + 1 ELSE stock
  /\ UNCHANGED <<order, rows, pay>>

\* A release gives the stock of RESERVED rows back; without any it succeeds too.
Release(o, reply) ==
  /\ reply = "200"
  /\ \/ /\ rows[o] = "RESERVED"
        /\ stock' = stock + 1
        /\ rows' = [rows EXCEPT ![o] = "RELEASED"]
     \/ rows[o] # "RESERVED" /\ UNCHANGED <<stock, rows>>
  /\ UNCHANGED <<order, pay>>

Capture(o, reply) ==
  /\ \/ pay[o] = "missing" /\ reply = "404" /\ pay' = pay
     \/ pay[o] = "VOIDED" /\ reply = "409" /\ pay' = pay
     \/ /\ pay[o] \in {"AUTHORIZED", "CAPTURED"} /\ reply = "200"
        /\ pay' = [pay EXCEPT ![o] = "CAPTURED"]
  /\ UNCHANGED <<order, rows, stock>>

VoidAuthorization(o, reply) ==
  /\ \/ pay[o] = "missing" /\ reply = "404" /\ pay' = pay
     \/ pay[o] = "CAPTURED" /\ reply = "409" /\ pay' = pay
     \/ /\ pay[o] \in {"AUTHORIZED", "VOIDED"} /\ reply = "200"
        /\ pay' = [pay EXCEPT ![o] = "VOIDED"]
  /\ UNCHANGED <<order, rows, stock>>

OrdersService(c, o, reply) ==
  \/ c = "create"       /\ CreateLookup(o, reply)
  \/ c = "createInsert" /\ CreateInsert(o, reply)
  \/ c = "confirm"      /\ CheckOrder(o, "CONFIRMED", reply)
  \/ c = "confirmWrite" /\ WriteOrder(o, "CONFIRMED", reply)
  \/ c = "cancel"       /\ CheckOrder(o, "CANCELLED", reply)
  \/ c = "cancelWrite"  /\ WriteOrder(o, "CANCELLED", reply)

InventoryService(c, o, reply) ==
  \/ c = "reserve"     /\ ReserveLookup(o, reply)
  \/ c = "reserveLock" /\ ReserveLock(o, reply)
  \/ c = "release"     /\ Release(o, reply)

PaymentsService(c, o, reply) ==
  \/ c = "capture" /\ Capture(o, reply)
  \/ c = "void"    /\ VoidAuthorization(o, reply)

Handle(c, o, reply) ==
  \/ OrdersService(c, o, reply)
  \/ InventoryService(c, o, reply)
  \/ PaymentsService(c, o, reply)

\* What the clients make of a reply: a success, an error worth a retry, or a
\* permanent error.
Classified(successes, reply) ==
  CASE reply \in successes -> "ok"
    [] reply = "500"        -> "retry"
    [] OTHER                -> "permanent"

\* The client takes a 409 for a success if the order already has the status
\* asked for, but the service answers that case with 200.
OrdersVerdict(reply) == Classified({"200", "201"}, reply)

\* Mutant of InventoryVerdict: a conflict is taken for an earlier reservation.
InventoryVerdictConflictIsSuccess(c, reply) == Classified({"200", "201", "409"}, reply)

\* Nothing to release is a success.
InventoryVerdict(c, reply) ==
  Classified(IF c = "release" THEN {"200", "404"} ELSE {"201"}, reply)

\* Nothing to void is a success.  The body of a void that was done is not: the
\* client decodes it with a schema that requires a void_id, which the payment
\* service's VoidResponse does not have.
PaymentsVerdict(c, reply) ==
  Classified(IF c = "void" THEN {"404"} ELSE {"200"}, reply)

Verdict(c, reply) ==
  CASE c \in {"reserve", "reserveLock", "release"} -> InventoryVerdict(c, reply)
    [] c \in {"capture", "void"}                   -> PaymentsVerdict(c, reply)
    [] OTHER                                       -> OrdersVerdict(reply)

-----------------------------------------------------------------------------
(* The batch transaction. *)

\* The edge API's last transaction: the ledger is AUTHORIZED and has an event.
OrderAuthorized(o) ==
  /\ db[o].event = "none"
  /\ db' = [db EXCEPT ![o].status = "AUTHORIZED", ![o].event = "PENDING"]
  /\ view' = [view EXCEPT ![o].status = "AUTHORIZED", ![o].event = "PENDING"]
  /\ UNCHANGED <<wk, services, late, report, faults, down>>

Up(w) == w[1] \notin down

Locked == UNION {wk[w].held : w \in Workers}

\* PENDING events whose next_retry_at is null or has passed.
Due == {o \in Orders : db[o].event = "PENDING" /\ db[o].due}

\* Mutant of Claimable: FOR UPDATE SKIP LOCKED is forgotten.
ClaimableIgnoringLocks == Due

Claimable == Due \ Locked

\* ORDER BY next_retry_at NULLS FIRST: never retried before retried.
FreshFirst(S, T) ==
  \A a \in S, b \in T : view[b].retryCount = 0 => view[a].retryCount = 0

Claim(w) ==
  /\ Up(w)
  /\ wk[w].pc = "idle"
  /\ \E S \in SUBSET Claimable :
       /\ S # {}
       /\ Cardinality(S) <= BatchSize
       /\ S # Claimable => Cardinality(S) = BatchSize
       /\ FreshFirst(S, Claimable \ S)
       /\ wk' = [wk EXCEPT ![w] = [IdleWorker EXCEPT !.pc = "pick",
                                                    !.held = S, !.todo = S]]
  /\ UNCHANGED <<db, view, services, late, report, faults, down>>

\* A poll or a notification that finds no event to claim changes nothing.
ClaimNothing(w) ==
  /\ Up(w)
  /\ wk[w].pc = "idle"
  /\ Claimable = {}
  /\ UNCHANGED vars

\* executeSaga: go to the step the ledger's status asks for; a ledger that is
\* past the saga only has its event marked.
BeginEvent(w) ==
  /\ Up(w)
  /\ wk[w].pc = "pick"
  /\ \E o \in wk[w].todo :
       /\ FreshFirst({o}, wk[w].todo)
       /\ IF view[o].status \in Open
          THEN /\ wk' = [wk EXCEPT ![w].todo = @ \ {o}, ![w].cur = o,
                                   ![w].pc = StepFor[view[o].status]]
               /\ view' = view
          ELSE /\ wk' = [wk EXCEPT ![w].todo = @ \ {o}]
               /\ view' = [view EXCEPT ![o].event = Mark(view[o].status)]
  /\ UNCHANGED <<db, services, late, report, faults, down>>

\* The end of the batch: everything the transaction wrote becomes visible.
Commit(w) ==
  /\ Up(w)
  /\ wk[w].pc = "pick"
  /\ wk[w].todo = {}
  /\ db' = [o \in Orders |-> IF o \in wk[w].held THEN view[o] ELSE db[o]]
  /\ wk' = [wk EXCEPT ![w] = IdleWorker]
  /\ UNCHANGED <<view, services, late, report, faults, down>>

\* The clock passes the next_retry_at of an event.
RetryTimeReached(o) ==
  /\ ~db[o].due
  /\ o \notin Locked
  /\ db' = [db EXCEPT ![o].due = TRUE]
  /\ view' = [view EXCEPT ![o].due = TRUE]
  /\ UNCHANGED <<wk, services, late, report, faults, down>>

-----------------------------------------------------------------------------
(* How a worker goes on once a call has ended with a verdict. *)

\* A row whose saga ended with a status, and the worker that ended it.
Ended(row, status) == [row EXCEPT !.status = status, !.event = Mark(status)]

EventDone(w) == wk' = [wk EXCEPT ![w].pc = "pick", ![w].cur = None]

\* A step succeeded: record it, and go to the next step or finish the event.
StepSucceeded(w, verdict) ==
  LET o == wk[w].cur
      s == StatusAfter[view[o].status]
  IN  /\ verdict = "ok"
      /\ wk[w].pc \in ForwardCalls
      /\ IF s = "COMPLETED"
         THEN /\ view' = [view EXCEPT ![o] = Ended(@, s)]
              /\ EventDone(w)
         ELSE /\ view' = [view EXCEPT ![o].status = s, ![o].orderId = TRUE]
              /\ wk' = [wk EXCEPT ![w].pc = StepFor[s]]
      /\ UNCHANGED report

\* Mutant of isMaxRetriesExceeded: off by one.
exceededOneLate(count) == count > MaxAttempts

isMaxRetriesExceeded(count) == count >= MaxAttempts

\* Mutant of Retried: RequiresRetry is marked like a failure.
RetriedAsFailed(row) ==
  [row EXCEPT !.retryCount = @ + 1, !.due = FALSE, !.event = "FAILED"]

\* The event stays PENDING, with one failure more and a later next_retry_at.
Retried(row) == [row EXCEPT !.retryCount = @ + 1, !.due = FALSE]

\* A retryable error with attempts left.
ScheduleRetry(w, verdict) ==
  LET o == wk[w].cur
  IN  /\ verdict = "retry"
      /\ wk[w].pc \in ForwardCalls
      /\ ~isMaxRetriesExceeded(view[o].retryCount)
      /\ view' = [view EXCEPT ![o] = Retried(@)]
      /\ EventDone(w)
      /\ UNCHANGED report

\* Mutant of Required: a reservation is released only after the capture.
RequiredReleaseTooRarely(last, orderId) ==
  {c \in Undo :
     \/ c = "void" /\ last # "PAYMENT_CAPTURED"
     \/ c = "release" /\ orderId /\ last = "PAYMENT_CAPTURED"
     \/ c = "cancel" /\ orderId /\ last # "AUTHORIZED"}

\* The compensations required after the last successful status.
Required(last, orderId) ==
  {c \in Undo :
     \/ c = "void" /\ last # "PAYMENT_CAPTURED"
     \/ c = "release" /\ orderId /\ last \in {"INVENTORY_RESERVED", "PAYMENT_CAPTURED"}
     \/ c = "cancel" /\ orderId /\ last # "AUTHORIZED"}

\* Mutant of First: the last step is undone first.
FirstLastStep(S) == IF "cancel" \in S THEN "cancel"
                    ELSE IF "release" \in S THEN "release" ELSE "void"

\* Void before release before cancel.
First(S) == IF "void" \in S THEN "void"
            ELSE IF "release" \in S THEN "release" ELSE "cancel"

\* Mutant of Compensating: the ledger is not marked while it is compensated.
CompensatingUnmarked(row) == row

\* The ledger of an order that is about to be compensated.
Compensating(row) == [row EXCEPT !.status = "COMPENSATING"]

\* Any other error of a step: mark the ledger and start compensating.
StartCompensation(w, verdict) ==
  LET o == wk[w].cur
      required == Required(view[o].status, view[o].orderId)
  IN  /\ wk[w].pc \in ForwardCalls
      /\ \/ verdict = "permanent"
         \/ verdict = "retry" /\ isMaxRetriesExceeded(view[o].retryCount)
      /\ view' = [view EXCEPT ![o] = Compensating(@)]
      /\ wk' = [wk EXCEPT ![w].pc = First(required),
                          ![w].undo = required \ {First(required)}]
      /\ report' = [report EXCEPT ![o] =
                      IF "void" \in required THEN {} ELSE {"refund"}]

\* The compensation a call belongs to, as the list of errors names it.
CompensationOf(c) == IF c = "cancelWrite" THEN "cancel" ELSE c

\* A compensation call ended, well or badly: do the next one or give up the
\* order as FAILED.
Compensated(w, verdict) ==
  LET o == wk[w].cur
      rest == wk[w].undo
  IN  /\ wk[w].pc \in CompensationCalls
      /\ report' = [report EXCEPT ![o] =
                      IF verdict = "ok" THEN @ ELSE @ \cup {CompensationOf(wk[w].pc)}]
      /\ IF rest = {}
         THEN /\ view' = [view EXCEPT ![o] = Ended(@, "FAILED")]
              /\ EventDone(w)
         ELSE /\ view' = view
              /\ wk' = [wk EXCEPT ![w].pc = First(rest), ![w].undo = @ \ {First(rest)}]

Receive(w, verdict) ==
  \/ StepSucceeded(w, verdict)
  \/ ScheduleRetry(w, verdict)
  \/ StartCompensation(w, verdict)
  \/ Compensated(w, verdict)

-----------------------------------------------------------------------------
(* The calls of the workers, and what may become of them. *)

Calling(w) == Up(w) /\ wk[w].pc \in Calls

Fault(kind) ==
  /\ kind \in FaultKinds
  /\ faults < MaxFaults
  /\ faults' = faults + 1

\* The handler goes on to its second step.
HandlerGoesOn(w) ==
  /\ Calling(w)
  /\ Handle(wk[w].pc, wk[w].cur, "more")
  /\ wk' = [wk EXCEPT ![w].pc = SecondStep[wk[w].pc]]
  /\ UNCHANGED <<db, view, late, report, faults, down>>

\* The call is served and answered in time.
Answered(w) ==
  /\ Calling(w)
  /\ \E reply \in Replies \ {"more"} :
       /\ Handle(wk[w].pc, wk[w].cur, reply)
       /\ Receive(w, Verdict(wk[w].pc, reply))
  /\ UNCHANGED <<db, late, faults, down>>

\* The call is refused: a dead connection, a 503, a 500 without effect.
Refused(w) ==
  /\ Calling(w)
  /\ Fault("refuse")
  /\ Receive(w, "retry")
  /\ UNCHANGED <<db, services, late, down>>

\* The call is served and its answer does not arrive within the timeout.
AnswerLost(w) ==
  /\ Calling(w)
  /\ Fault("lose")
  /\ \E reply \in Replies \ {"more"} : Handle(wk[w].pc, wk[w].cur, reply)
  /\ Receive(w, "retry")
  /\ UNCHANGED <<db, late, down>>

\* The client times out while its request is still on its way.
Delayed(w) ==
  /\ Calling(w)
  /\ Fault("delay")
  /\ late' = late \cup {<<wk[w].pc, wk[w].cur>>}
  /\ Receive(w, "retry")
  /\ UNCHANGED <<db, services, down>>

\* The call is served with success and the body of its answer does not parse.
Garbled(w) ==
  /\ Calling(w)
  /\ Fault("garble")
  /\ \E reply \in {"200", "201"} : Handle(wk[w].pc, wk[w].cur, reply)
  /\ Receive(w, "permanent")
  /\ UNCHANGED <<db, late, down>>

\* A request nobody waits for any more is served.
ServeLate ==
  /\ \E c \in Calls, o \in Orders, reply \in Replies :
       /\ <<c, o>> \in late
       /\ Handle(c, o, reply)
       /\ late' = (late \ {<<c, o>>}) \cup
                  (IF reply = "more" THEN {<<SecondStep[c], o>>} ELSE {})
  /\ UNCHANGED <<db, view, wk, report, faults, down>>

\* A replica dies, or one of its loops fails and takes the process with it:
\* its transactions roll back; a request it has sent, or the handler that was
\* serving it, may go on without it.
Crash(r) ==
  LET mine == {w \in Workers : w[1] = r}
      lost == UNION {wk[w].held : w \in mine}
      sent == {<<wk[w].pc, wk[w].cur>> : w \in {x \in mine : wk[x].pc \in Calls}}
  IN  /\ r \notin down
      /\ Fault("crash")
      /\ down' = down \cup {r}
      /\ wk' = [w \in Workers |-> IF w \in mine THEN IdleWorker ELSE wk[w]]
      /\ view' = [o \in Orders |-> IF o \in lost THEN db[o] ELSE view[o]]
      /\ \E kept \in SUBSET sent : late' = late \cup kept
      /\ UNCHANGED <<db, services, report>>

Restart(r) ==
  /\ r \in down
  /\ down' = down \ {r}
  /\ UNCHANGED <<db, view, wk, services, late, report, faults>>

\* The mock gateway restarts and forgets every authorization.
GatewayRestart ==
  /\ Fault("wipe")
  /\ pay' = [o \in Orders |-> "missing"]
  /\ UNCHANGED <<db, view, wk, order, rows, stock, late, report, down>>

WorkerStep(w) ==
  \/ Claim(w)
  \/ ClaimNothing(w)
  \/ BeginEvent(w)
  \/ Commit(w)
  \/ HandlerGoesOn(w)
  \/ Answered(w)
  \/ Refused(w)
  \/ AnswerLost(w)
  \/ Delayed(w)
  \/ Garbled(w)

Next ==
  \/ \E w \in Workers : WorkerStep(w)
  \/ \E o \in Orders : OrderAuthorized(o) \/ RetryTimeReached(o)
  \/ ServeLate
  \/ \E r \in Replicas : Crash(r) \/ Restart(r)
  \/ GatewayRestart

Spec == Init /\ [][Next]_vars

\* The polling loops keep running, whoever has claimed a batch goes on with it, a
\* crashed replica is started again and time passes.  Nothing makes a
\* notification arrive, the environment fail or a late request be served.
Fairness ==
  /\ \A w \in Workers : w[2] = "poll" => WF_vars(WorkerStep(w))
  /\ \A w \in Workers : WF_vars(wk[w].pc # "idle" /\ WorkerStep(w))
  /\ \A o \in Orders : WF_vars(RetryTimeReached(o))
  /\ \A r \in Replicas : WF_vars(Restart(r))

FairSpec == Spec /\ Fairness

=============================================================================
