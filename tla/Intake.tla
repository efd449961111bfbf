------------------------------- MODULE Intake -------------------------------
(***************************************************************************)
(* The edge API's POST /orders (services/edge-api) with the authorization  *)
(* of the payment service.                                                 *)
(*                                                                         *)
(* Requests are handled concurrently, several of them with the same        *)
(* idempotency key.  A handler is a sequence of database transactions with *)
(* one remote call between them, and stops wherever its process dies or    *)
(* its client hangs up.  A statement that fails may have been committed;   *)
(* an authorization whose client gave up may still be served.              *)
(***************************************************************************)
EXTENDS Naturals, FiniteSets

CONSTANTS
  Keys,        \* idempotency keys, stored as client_request_id
  Requests,    \* requests of the clients
  Key,         \* the key that a request carries in its header
  BadCards,    \* requests with a payment token that the gateway declines
  FaultKinds,  \* the faults the environment may inject
  MaxFaults,   \* bound on the number of injected faults
  Nobody       \* no request

ASSUME IntakeAssumption ==
  /\ IsFiniteSet(Keys)
  /\ Key \in [Requests -> Keys]
  /\ BadCards \subseteq Requests
  /\ FaultKinds \subseteq {"database", "payment", "stop"}
  /\ MaxFaults \in Nat
  /\ Nobody \notin Requests

VARIABLES
  req,     \* the handler of each request and the status it answers
  ledger,  \* order_ledger: the row with a client_request_id, if there is one
  items,   \* order_ledger_items: whose lines the ledger has
  event,   \* outbox: the number of OrderAuthorized events of the ledger
  hold,    \* payment gateway: whose payment is authorized under a key
  late,    \* authorizations that nobody waits for and that may be served
  faults   \* injected faults so far

store == <<ledger, items, event>>
vars == <<req, ledger, items, event, hold, late, faults>>

\* The statements of a handler that go to the database.
Statements == {"find", "create", "createItems", "markFailed", "update"}
Working == Statements \cup {"authorize", "respond"}

Answers == {"202", "402", "409", "500", "503"}

\* A ledger row remembers, for the properties, the request that inserted it.
NoRow == [status |-> "none", by |-> Nobody]

Init ==
  /\ req = [r \in Requests |-> [pc |-> "unsent", answer |-> "none"]]
  /\ ledger = [k \in Keys |-> NoRow]
  /\ items = [k \in Keys |-> {}]
  /\ event = [k \in Keys |-> 0]
  /\ hold = [k \in Keys |-> Nobody]
  /\ late = {}
  /\ faults = 0

-----------------------------------------------------------------------------
(* The handler of a request. *)

At(r, pc) == req[r].pc = pc

Goto(r, pc) == req' = [req EXCEPT ![r].pc = pc]

Respond(r, answer) == req' = [req EXCEPT ![r] = [pc |-> "respond", answer |-> answer]]

\* A request with an idempotency key and a valid body comes in.
Send(r) ==
  /\ At(r, "unsent")
  /\ Goto(r, "find")
  /\ UNCHANGED <<store, hold, late, faults>>

\* Step 1: is there a ledger with this key already?
FindByClientRequestId(r) ==
  /\ At(r, "find")
  /\ \/ ledger[Key[r]] = NoRow /\ Goto(r, "create")
     \/ ledger[Key[r]] # NoRow /\ Respond(r, "409")
  /\ UNCHANGED <<store, hold, late, faults>>

\* Mutant of InsertLedger: on a conflict the row is taken over.
UpsertLedger(r) ==
  /\ ledger' = [ledger EXCEPT ![Key[r]] =
                  [status |-> "AWAITING_AUTHORIZATION", by |-> r]]
  /\ UNCHANGED <<items, event>>

\* The unique client_request_id admits one row.
InsertLedger(r) ==
  /\ ledger[Key[r]] = NoRow
  /\ ledger' = [ledger EXCEPT ![Key[r]] =
                  [status |-> "AWAITING_AUTHORIZATION", by |-> r]]
  /\ UNCHANGED <<items, event>>

InsertItems(r) ==
  /\ items' = [items EXCEPT ![Key[r]] = @ \cup {r}]
  /\ UNCHANGED <<ledger, event>>

MarkAuthorizationFailed(r) ==
  /\ ledger' = [ledger EXCEPT ![Key[r]].status = "AUTHORIZATION_FAILED"]
  /\ UNCHANGED <<items, event>>

\* Mutant of UpdateWithAuthorizationAndOutbox: the event is left to a second
\* transaction.
UpdateWithoutOutbox(r) ==
  /\ ledger' = [ledger EXCEPT ![Key[r]].status = "AUTHORIZED"]
  /\ UNCHANGED <<items, event>>

\* One transaction for the ledger and for the event.
UpdateWithAuthorizationAndOutbox(r) ==
  /\ ledger' = [ledger EXCEPT ![Key[r]].status = "AUTHORIZED"]
  /\ event' = [event EXCEPT ![Key[r]] = @ + 1]
  /\ UNCHANGED items

\* What the statement a handler is at writes once it is committed.
Write(r) ==
  \/ At(r, "create")      /\ InsertLedger(r)
  \/ At(r, "createItems") /\ InsertItems(r)
  \/ At(r, "markFailed")  /\ MarkAuthorizationFailed(r)
  \/ At(r, "update")      /\ UpdateWithAuthorizationAndOutbox(r)

\* Steps 3, 4 and 6 of createOrder, and the end of a declined one.
Proceed(r) ==
  /\ Write(r)
  /\ \/ At(r, "create")      /\ Goto(r, "createItems")
     \/ At(r, "createItems") /\ Goto(r, "authorize")
     \/ At(r, "markFailed")  /\ Respond(r, "402")
     \/ At(r, "update")      /\ Respond(r, "202")
  /\ UNCHANGED <<hold, late, faults>>

\* A second insert of one key is an SqlError like any other.
InsertConflicts(r) ==
  /\ At(r, "create")
  /\ ledger[Key[r]] # NoRow
  /\ Respond(r, "500")
  /\ UNCHANGED <<store, hold, late, faults>>

-----------------------------------------------------------------------------
(* The payment service, POST /payments/authorize. *)

\* Mutant of Authorize: the funds are held before the card is looked at.
AuthorizeBeforeCheck(r, reply) ==
  /\ reply = IF r \in BadCards THEN "402" ELSE "200"
  /\ hold' = [hold EXCEPT ![Key[r]] = r]

\* The key of an earlier authorization brings that authorization back;
\* otherwise a card is declined or a new authorization made.
Authorize(r, reply) ==
  \/ hold[Key[r]] # Nobody /\ reply = "200" /\ hold' = hold
  \/ hold[Key[r]] = Nobody /\ r \in BadCards /\ reply = "402" /\ hold' = hold
  \/ /\ hold[Key[r]] = Nobody /\ r \notin BadCards /\ reply = "200"
     /\ hold' = [hold EXCEPT ![Key[r]] = r]

\* Mutant of OnDecline: a declined payment is answered and not recorded.
OnDeclineUnrecorded(r) == Respond(r, "402")

\* A declined payment: the ledger is marked before the client hears of it.
OnDecline(r) == Goto(r, "markFailed")

\* Step 5: the authorization, answered in time.
AuthorizeAnswered(r) ==
  /\ At(r, "authorize")
  /\ \/ Authorize(r, "200") /\ Goto(r, "update")
     \/ Authorize(r, "402") /\ OnDecline(r)
  /\ UNCHANGED <<store, late, faults>>

Fault(kind) ==
  /\ kind \in FaultKinds
  /\ faults < MaxFaults
  /\ faults' = faults + 1

\* No connection, a 503, a timeout or an unreadable body: the request has been
\* served, will be, or never is.
AuthorizeFails(r) ==
  /\ At(r, "authorize")
  /\ Fault("payment")
  /\ Respond(r, "503")
  /\ late' = late \cup {r}
  /\ UNCHANGED <<store, hold>>

ServeLate(r) ==
  /\ r \in late
  /\ \E reply \in {"200", "402"} : Authorize(r, reply)
  /\ late' = late \ {r}
  /\ UNCHANGED <<req, store, faults>>

-----------------------------------------------------------------------------
(* Failures of the database and of the handler itself, and the answer. *)

\* A statement fails, before or after its commit.
DatabaseFails(r) ==
  /\ req[r].pc \in Statements
  /\ Fault("database")
  /\ Write(r) \/ UNCHANGED store
  /\ Respond(r, "500")
  /\ UNCHANGED <<hold, late>>

\* The process dies or the client hangs up, which interrupts the handler.
HandlerStops(r) ==
  /\ req[r].pc \in Working
  /\ Fault("stop")
  /\ req' = [req EXCEPT ![r] = [pc |-> "over", answer |-> "lost"]]
  /\ late' = late \cup (IF At(r, "authorize") THEN {r} ELSE {})
  /\ UNCHANGED <<store, hold>>

Answer(r) ==
  /\ At(r, "respond")
  /\ Goto(r, "over")
  /\ UNCHANGED <<store, hold, late, faults>>

HandlerStep(r) ==
  \/ FindByClientRequestId(r)
  \/ Proceed(r)
  \/ InsertConflicts(r)
  \/ AuthorizeAnswered(r)
  \/ AuthorizeFails(r)
  \/ DatabaseFails(r)
  \/ HandlerStops(r)
  \/ Answer(r)

\* Every request has been answered or lost.
AllOver ==
  /\ \A r \in Requests : At(r, "over")
  /\ UNCHANGED vars

Next ==
  \/ \E r \in Requests : Send(r) \/ HandlerStep(r) \/ ServeLate(r)
  \/ AllOver

Spec == Init /\ [][Next]_vars

\* A handler that has begun goes on; its remote call has a timeout.
Fairness == \A r \in Requests : WF_vars(HandlerStep(r))

FairSpec == Spec /\ Fairness

=============================================================================
