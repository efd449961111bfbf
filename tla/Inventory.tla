------------------------------ MODULE Inventory ------------------------------
(***************************************************************************)
(* The inventory service (services/inventory): reservations of orders with *)
(* several lines, their release, stock adjustments and the creation of     *)
(* products, requested concurrently.                                       *)
(*                                                                         *)
(* A request is a handler with one READ COMMITTED transaction.  What it    *)
(* writes is seen by others only from its commit on, so that its writes    *)
(* are one step, the commit; before it, the handler takes the row locks    *)
(* that its statements take, one by one, and waits for those that are      *)
(* held.  A statement of its own (a lookup without a lock, the one         *)
(* statement of addStock up to its wait, an insert) is a step.             *)
(***************************************************************************)
EXTENDS Naturals, FiniteSets

CONSTANTS
  Products,     \* product ids; a number is where the id sorts
  Orders,       \* orders that reserve stock
  Keys,         \* idempotency keys of stock adjustments
  Requests,     \* requests to the service
  Body,         \* what each request asks for
  Lines,        \* the items of an order
  Catalogue,    \* products that are there from the beginning
  Shelf,        \* their stock at the beginning
  Standing,     \* orders whose reservation was made earlier
  MaxRequests,  \* bound on the number of requests that are sent
  FaultKinds,   \* the faults the environment may inject
  MaxFaults,    \* bound on the number of injected faults
  Nobody,       \* no request
  Nothing       \* no product

Bodies ==
  [op : {"reserve", "release"}, order : Orders]
    \cup [op : {"add"}, key : Keys, product : Products, quantity : Nat \ {0}]
    \cup [op : {"create"}, product : Products, quantity : Nat]

\* The products of an order's lines.
Listed(o) == {line.product : line \in Lines[o]}

\* Two lines for one product.
Repeats(o) == \E a, b \in Lines[o] : a # b /\ a.product = b.product

ASSUME InventoryAssumption ==
  /\ Products \subseteq Nat
  /\ Orders \cap Products = {}
  /\ IsFiniteSet(Orders) /\ IsFiniteSet(Keys)
  /\ Body \in [Requests -> Bodies]
  /\ Lines \in [Orders -> SUBSET [no : Nat, product : Products, quantity : Nat \ {0}]]
  /\ \A o \in Orders : Lines[o] # {}
  /\ Catalogue \subseteq Products
  /\ Shelf \in [Products -> Nat]
  /\ Standing \subseteq Orders
  /\ \A o \in Standing : ~Repeats(o) /\ Listed(o) \subseteq Catalogue
  /\ MaxRequests \in Nat
  /\ FaultKinds \subseteq {"database", "stop"}
  /\ MaxFaults \in Nat
  /\ Nobody \notin Requests
  /\ Nothing \notin Products

VARIABLES
  catalogue,    \* products: the ids that are there
  stock,        \* products: stock_quantity
  rows,         \* inventory_reservations: the status of an order's product
  adjustments,  \* inventory_adjustments: the request that made a key's row
  lock,         \* who holds the lock of a product, or of an order's RESERVED rows
  req,          \* the handler of each request and the status it answers
  faults        \* injected faults so far

tables == <<catalogue, stock, rows, adjustments>>
vars == <<tables, lock, req, faults>>

-----------------------------------------------------------------------------
(* Orders, handlers and locks. *)

\* What each order takes of each product, unless it repeats one.
Demand ==
  [o \in Orders |-> [p \in Products |->
     IF p \in Listed(o) THEN (CHOOSE line \in Lines[o] : line.product = p).quantity ELSE 0]]

Reserved(o) == {p \in Products : rows[o][p] = "RESERVED"}

Op(r) == Body[r].op

Unsent == [pc |-> "unsent", todo |-> {}, next |-> Nothing,
           seen |-> [p \in Products |-> 0], answer |-> "none"]

Init ==
  /\ catalogue = Catalogue
  /\ stock = Shelf
  /\ rows = [o \in Orders |-> [p \in Products |->
               IF o \in Standing /\ p \in Listed(o) THEN "RESERVED" ELSE "none"]]
  /\ adjustments = [k \in Keys |-> Nobody]
  /\ lock = [x \in Products \cup Orders |-> Nobody]
  /\ req = [r \in Requests |-> Unsent]
  /\ faults = 0

At(r, pc) == req[r].pc = pc

Goto(r, pc) == req' = [req EXCEPT ![r].pc = pc]

Statements == {"lookup", "rows", "lock", "adjust", "update", "findBySku", "insert"}

Working(r) == req[r].pc \in Statements

\* Mutant of Free: the transaction of a handler that ends is left open.
FreeNothing(r) == lock' = lock

\* The end of a transaction frees its locks.
Free(r) == lock' = [x \in DOMAIN lock |-> IF lock[x] = r THEN Nobody ELSE lock[x]]

\* The handler is over and its answer, if it has one, is sent.
End(r, pc, answer) ==
  /\ req' = [req EXCEPT ![r] = [Unsent EXCEPT !.pc = pc, !.answer = answer]]
  /\ Free(r)

Respond(r, answer) == End(r, "answered", answer)

\* The id of a product that is created is known to nobody before it is there.
Created == {Body[r].product : r \in {q \in Requests : Op(q) = "create"}}
Mentioned(r) ==
  IF Op(r) = "reserve" THEN Listed(Body[r].order)
  ELSE IF Op(r) = "add" THEN {Body[r].product} ELSE {}

\* A request whose body and headers are valid comes in.
Send(r) ==
  /\ At(r, "unsent")
  /\ Cardinality({q \in Requests : ~At(q, "unsent")}) < MaxRequests
  /\ Mentioned(r) \cap Created \subseteq catalogue
  /\ \/ Op(r) = "reserve" /\ Goto(r, "lookup")
     \/ Op(r) = "release" /\ Goto(r, "rows")
     \/ Op(r) = "add"     /\ Goto(r, "adjust")
     \/ Op(r) = "create"  /\ Goto(r, "findBySku")
  /\ UNCHANGED <<tables, lock, faults>>

-----------------------------------------------------------------------------
(* Locking products, which reserve and release have in common.  next is    *)
(* the product that the handler locks or waits for, todo those after it.   *)

\* Mutant of Sorted: the rows are locked in the order in which they are found.
Unsorted(todo) == todo

\* ORDER BY id: the smallest comes first.
Sorted(todo) == {p \in todo : \A q \in todo : p <= q}

\* The products that may come next: a reservation selects them FOR UPDATE in
\* the order of their ids, a release updates them in the order in which its rows
\* are found: without an ORDER BY this may be any, although it is often the order
\* of their insertion.
Following(r, todo) ==
  IF todo = {} THEN {Nothing}
  ELSE IF Op(r) = "reserve" THEN Sorted(todo) ELSE todo

StartLocking(r, products) ==
  \E p \in Following(r, products) :
    req' = [req EXCEPT ![r].pc = "lock", ![r].next = p, ![r].todo = products \ {p}]

\* Mutant of TakeLock: a SELECT without FOR UPDATE.
TakeNoLock(r, p) == lock' = lock

TakeLock(r, p) ==
  /\ lock[p] = Nobody
  /\ lock' = [lock EXCEPT ![p] = r]

\* A handler that waited sees the stock that the last holder left.
LockProduct(r) ==
  LET p == req[r].next
  IN  /\ At(r, "lock")
      /\ p # Nothing
      /\ TakeLock(r, p)
      /\ \E q \in Following(r, req[r].todo) :
           req' = [req EXCEPT ![r].seen[p] = stock[p],
                              ![r].next = q, ![r].todo = @ \ {q}]
      /\ UNCHANGED <<tables, faults>>

\* All locks are taken.
Ready(r, op) == At(r, "lock") /\ req[r].next = Nothing /\ Op(r) = op

-----------------------------------------------------------------------------
(* POST /reservations. *)

\* Step 1: RESERVED rows answer a repeated request; the lookup locks nothing.
ReserveLookup(r) ==
  LET o == Body[r].order
  IN  /\ At(r, "lookup")
      /\ \/ Reserved(o) # {} /\ Respond(r, "201")
         \/ /\ Reserved(o) = {}
            /\ StartLocking(r, Listed(o) \cap catalogue)
            /\ lock' = lock
      /\ UNCHANGED <<tables, faults>>

\* Step 4: what was seen under the locks does not suffice for some line.
Short(r) == \E line \in Lines[Body[r].order] : req[r].seen[line.product] < line.quantity

\* CHECK (stock_quantity >= 0) and UNIQUE (order_id, product_id).
Constraints(o) ==
  /\ ~Repeats(o)
  /\ \A p \in Listed(o) : rows[o][p] = "none" /\ Demand[o][p] <= stock[p]

\* Steps 5 and 6: the stock is taken and the rows are inserted.
InsertReservation(o) ==
  /\ stock' = [p \in Products |-> stock[p] - Demand[o][p]]
  /\ rows' = [rows EXCEPT ![o] =
                [p \in Products |-> IF p \in Listed(o) THEN "RESERVED" ELSE rows[o][p]]]
  /\ UNCHANGED <<catalogue, adjustments>>

ReserveStock(r) ==
  LET o == Body[r].order
  IN  /\ Ready(r, "reserve")
      /\ Listed(o) \subseteq catalogue
      /\ ~Short(r)
      /\ Constraints(o)
      /\ InsertReservation(o)

\* Steps 3 to 6 come to a bad end: nothing is written.
ReserveRefused(r) ==
  LET o == Body[r].order
  IN  /\ Ready(r, "reserve")
      /\ \/ ~(Listed(o) \subseteq catalogue) /\ Respond(r, "404")
         \/ Listed(o) \subseteq catalogue /\ Short(r) /\ Respond(r, "409")
         \/ /\ Listed(o) \subseteq catalogue /\ ~Short(r) /\ ~Constraints(o)
            /\ Respond(r, "500")
      /\ UNCHANGED <<tables, faults>>

-----------------------------------------------------------------------------
(* DELETE /reservations/:order_id. *)

\* Step 1: the RESERVED rows are locked; without any the release is done.
LockReservations(r) ==
  LET o == Body[r].order
  IN  /\ At(r, "rows")
      /\ lock[o] = Nobody
      /\ \/ Reserved(o) = {} /\ Respond(r, "200")
         \/ /\ Reserved(o) # {}
            /\ lock' = [lock EXCEPT ![o] = r]
            /\ StartLocking(r, Reserved(o))
      /\ UNCHANGED <<tables, faults>>

\* Mutant of MarkReleased: the last product's row is forgotten.
MarkReleasedInPart(o) ==
  [p \in Products |->
     IF p \in Reserved(o) /\ \E q \in Reserved(o) \ {p} : q < p THEN "RELEASED" ELSE rows[o][p]]

MarkReleased(o) ==
  [p \in Products |-> IF p \in Reserved(o) THEN "RELEASED" ELSE rows[o][p]]

\* Mutant of Restored: what was reserved is taken again.
RestoredWithWrongSign(o) ==
  [p \in Products |-> IF p \in Reserved(o) THEN stock[p] - Demand[o][p] ELSE stock[p]]

Restored(o) ==
  [p \in Products |-> IF p \in Reserved(o) THEN stock[p] + Demand[o][p] ELSE stock[p]]

\* Steps 3 and 4, committed.
ReleaseStock(r) ==
  LET o == Body[r].order
  IN  /\ Ready(r, "release")
      /\ stock' = Restored(o)
      /\ rows' = [rows EXCEPT ![o] = MarkReleased(o)]
      /\ UNCHANGED <<catalogue, adjustments>>

-----------------------------------------------------------------------------
(* POST /products/:product_id/stock. *)

\* check_existing and check_product see the snapshot of the statement.
AddStockChecks(r) ==
  LET k == Body[r].key
      p == Body[r].product
  IN  /\ At(r, "adjust")
      /\ \/ adjustments[k] # Nobody /\ Respond(r, "409")
         \/ adjustments[k] = Nobody /\ p \notin catalogue /\ Respond(r, "404")
         \/ /\ adjustments[k] = Nobody /\ p \in catalogue
            /\ req' = [req EXCEPT ![r].pc = "update", ![r].seen[p] = stock[p]]
            /\ lock' = lock
      /\ UNCHANGED <<tables, faults>>

\* Mutant of NewStock: the quantity is added to the stock of the snapshot.
NewStockOfSnapshot(r) == req[r].seen[Body[r].product] + Body[r].quantity

NewStock(r) == stock[Body[r].product] + Body[r].quantity

\* Mutant of KeyIsFree: the idempotency_key is not unique.
KeyIsNotUnique(k) == TRUE

KeyIsFree(k) == adjustments[k] = Nobody

\* update_stock waits for the product; insert_adjustment needs the key.
AddStock(r) ==
  LET p == Body[r].product
  IN  /\ At(r, "update")
      /\ lock[p] = Nobody
      /\ KeyIsFree(Body[r].key)
      /\ stock' = [stock EXCEPT ![p] = NewStock(r)]
      /\ adjustments' = [adjustments EXCEPT ![Body[r].key] = r]
      /\ UNCHANGED <<catalogue, rows>>

\* The key was used since the snapshot: the whole statement fails.
AddStockConflicts(r) ==
  /\ At(r, "update")
  /\ lock[Body[r].product] = Nobody
  /\ ~KeyIsFree(Body[r].key)
  /\ Respond(r, "500")
  /\ UNCHANGED <<tables, faults>>

-----------------------------------------------------------------------------
(* POST /products: a lookup by sku, and an insert that the unique sku may   *)
(* still refuse.  A product stands for its sku.                             *)

FindBySku(r) ==
  /\ At(r, "findBySku")
  /\ \/ Body[r].product \in catalogue /\ Respond(r, "409")
     \/ Body[r].product \notin catalogue /\ Goto(r, "insert") /\ lock' = lock
  /\ UNCHANGED <<tables, faults>>

\* Mutant of InsertProduct: the row of a known sku is replaced.
UpsertProduct(r) ==
  /\ At(r, "insert")
  /\ catalogue' = catalogue \cup {Body[r].product}
  /\ stock' = [stock EXCEPT ![Body[r].product] = Body[r].quantity]
  /\ UNCHANGED <<rows, adjustments>>

InsertProduct(r) ==
  /\ At(r, "insert")
  /\ Body[r].product \notin catalogue
  /\ catalogue' = catalogue \cup {Body[r].product}
  /\ stock' = [stock EXCEPT ![Body[r].product] = Body[r].quantity]
  /\ UNCHANGED <<rows, adjustments>>

InsertConflicts(r) ==
  /\ At(r, "insert")
  /\ Body[r].product \in catalogue
  /\ Respond(r, "500")
  /\ UNCHANGED <<tables, faults>>

-----------------------------------------------------------------------------
(* Commits, deadlocks and failures. *)

\* What the handler of r has to commit.
Write(r) == ReserveStock(r) \/ ReleaseStock(r) \/ AddStock(r) \/ InsertProduct(r)

\* The answer to what was committed.
Success == [reserve |-> "201", release |-> "200", add |-> "200", create |-> "201"]

Commit(r) ==
  /\ Write(r)
  /\ Respond(r, Success[Op(r)])
  /\ UNCHANGED faults

\* r waits for a lock of q.
WaitsFor(r, q) ==
  \/ At(r, "lock") /\ req[r].next # Nothing /\ lock[req[r].next] = q
  \/ At(r, "rows") /\ lock[Body[r].order] = q
  \/ At(r, "update") /\ lock[Body[r].product] = q

\* Handlers of which each waits for another of them, and none is just in line.
Deadlocked(C) ==
  /\ C # {}
  /\ \A r \in C : (\E q \in C : WaitsFor(r, q)) /\ (\E q \in C : WaitsFor(q, r))

InDeadlock(r) ==
  \E C \in SUBSET {q \in Requests : Working(q)} : r \in C /\ Deadlocked(C)

\* The database ends a deadlock by failing a statement of it.
DeadlockDetected(r) ==
  /\ InDeadlock(r)
  /\ Respond(r, "500")
  /\ UNCHANGED <<tables, faults>>

Fault(kind) ==
  /\ kind \in FaultKinds
  /\ faults < MaxFaults
  /\ faults' = faults + 1

\* A statement or the commit fails; a commit that failed may have been done.
DatabaseFails(r) ==
  /\ Working(r)
  /\ Fault("database")
  /\ Write(r) \/ UNCHANGED tables
  /\ Respond(r, "500")

\* The process dies or the client hangs up: nothing is answered.
HandlerStops(r) ==
  /\ Working(r)
  /\ Fault("stop")
  /\ Write(r) \/ UNCHANGED tables
  /\ End(r, "stopped", "none")

Handle(r) ==
  \/ LockProduct(r)
  \/ ReserveLookup(r) \/ ReserveRefused(r) \/ LockReservations(r)
  \/ AddStockChecks(r) \/ AddStockConflicts(r)
  \/ FindBySku(r) \/ InsertConflicts(r)
  \/ Commit(r)
  \/ DeadlockDetected(r)

Next ==
  \E r \in Requests : Send(r) \/ Handle(r) \/ DatabaseFails(r) \/ HandlerStops(r)

Spec == Init /\ [][Next]_vars

\* While some handler can go on, one does.
FairSpec == Spec /\ WF_vars(\E r \in Requests : Handle(r))

=============================================================================
