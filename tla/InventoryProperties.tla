------------------------ MODULE InventoryProperties ------------------------
(***************************************************************************)
(* What is claimed of the inventory service.                               *)
(***************************************************************************)
EXTENDS Inventory, FiniteSetsExt

Handler == [pc : Statements \cup {"unsent", "answered", "stopped"},
            todo : SUBSET Products, next : Products \cup {Nothing},
            seen : [Products -> Nat],
            answer : {"none", "200", "201", "404", "409", "500"}]

\* The types of all variables.
TypeOK ==
  /\ catalogue \in SUBSET Products
  /\ stock \in [Products -> Nat]
  /\ rows \in [Orders -> [Products -> {"none", "RESERVED", "RELEASED"}]]
  /\ adjustments \in [Keys -> Requests \cup {Nobody}]
  /\ lock \in [Products \cup Orders -> Requests \cup {Nobody}]
  /\ req \in [Requests -> Handler]
  /\ faults \in 0..MaxFaults

-----------------------------------------------------------------------------
(* Stock. *)

\* What a product started with: on the shelf and in standing reservations, or by
\* a request that creates it.
Start(p) ==
  IF p \in Catalogue
  THEN {Shelf[p] + MapThenSumSet(LAMBDA o : Demand[o][p], Standing)}
  ELSE {Body[r].quantity : r \in {q \in Requests : Op(q) = "create" /\ Body[q].product = p}}

ReservedOf(p) == MapThenSumSet(LAMBDA o : Demand[o][p], {o \in Orders : p \in Reserved(o)})

AddedTo(p) ==
  MapThenSumSet(LAMBDA k : Body[adjustments[k]].quantity,
    {k \in Keys : adjustments[k] # Nobody /\ Body[adjustments[k]].product = p})

\* Every unit is accounted for: what is on the shelf and what is reserved is
\* what a product started with and what the recorded adjustments added, however
\* reservations, releases, repeated adjustments and failures interleave.
StockAccounted ==
  \A p \in catalogue : stock[p] + ReservedOf(p) - AddedTo(p) \in Start(p)

\* An answer is backed by what is stored, and stays so: an order answered 201
\* has all of its rows, a 200 is the one adjustment of its key, a 409 for an
\* adjustment has an original to show, and a product is created once.
AnswersAreTrue ==
  \A r \in Requests :
    LET answered(answer) == req[r].answer = answer
    IN  /\ Op(r) = "reserve" /\ answered("201") =>
             \A p \in Listed(Body[r].order) : rows[Body[r].order][p] # "none"
        /\ Op(r) = "add" =>
             /\ answered("200") => adjustments[Body[r].key] = r
             /\ answered("409") => adjustments[Body[r].key] \notin {r, Nobody}
        /\ Op(r) = "create" /\ answered("201") =>
             /\ Body[r].product \in catalogue
             /\ \A q \in Requests \ {r} :
                  ~(Op(q) = "create" /\ Body[q].product = Body[r].product
                      /\ req[q].answer = "201")

\* What has become of an order's reservation.
Status(o) ==
  IF \E p \in Products : rows[o][p] = "RESERVED" THEN "RESERVED"
  ELSE IF \E p \in Products : rows[o][p] = "RELEASED" THEN "RELEASED" ELSE "none"

\* What may stand against a request.
Reason(r, answer) ==
  LET o == Body[r].order
      used == adjustments[Body[r].key] # Nobody
      known == Body[r].product \in catalogue
  IN  \/ answer = "404" /\ Op(r) = "reserve" /\ ~(Listed(o) \subseteq catalogue)
      \/ /\ answer = "409" /\ Op(r) = "reserve"
         /\ \E line \in Lines[o] : stock[line.product] < line.quantity
      \/ answer = "500" /\ Op(r) = "reserve" /\ (Repeats(o) \/ Status(o) # "none")
      \/ answer = "404" /\ Op(r) = "add" /\ ~known
      \/ answer \in {"409", "500"} /\ Op(r) = "add" /\ used
      \/ answer \in {"409", "500"} /\ Op(r) = "create" /\ known
      \/ answer = "500" /\ InDeadlock(r)

\* The step answers r, and refuses what it asks for.
Refused(r) ==
  /\ Working(r)
  /\ req'[r].pc = "answered"
  /\ req'[r].answer \in {"404", "409", "500"}

\* Where no statement fails, a refusal has a reason that is true when it is
\* given.  A reservation is refused for lack of stock only while the stock is
\* lacking, and otherwise only fails for an order that has rows already or names
\* a product twice, never on the CHECK of the stock; a release only fails in a
\* deadlock; an adjustment or a creation only when its like has been done.
RefusalsAreForced ==
  [][\A r \in Requests :
       Refused(r) /\ faults' = faults => Reason(r, req'[r].answer)]_vars

-----------------------------------------------------------------------------
(* Locks. *)

\* Sorting the products prevents deadlocks of reservations with each other: a
\* deadlock has a release in it, which takes its products in any order.
OnlyReleasesDeadlock ==
  \A C \in SUBSET {r \in Requests : Working(r)} :
    Deadlocked(C) => \E r \in C : Op(r) = "release"

\* Nobody is stuck: handlers that wait, and only for each other or for one that
\* is no longer under way, have a deadlock among them, which the database ends.
\* Every other wait leads to a handler that can go on.
NobodyIsStuck ==
  \A D \in SUBSET {r \in Requests : Working(r)} :
    /\ D # {}
    /\ \A r \in D : \E q \in Requests : WaitsFor(r, q)
    /\ \A r \in D, q \in Requests : WaitsFor(r, q) /\ Working(q) => q \in D
    => \E r \in D : InDeadlock(r)

Held(r) == {p \in Products : lock[p] = r}
Rest(r) == req[r].todo \cup ({req[r].next} \ {Nothing})

\* The rows of an order are inserted together and released together.
Whole(o) ==
  \/ rows[o] = [p \in Products |-> "none"]
  \/ /\ ~Repeats(o)
     /\ Listed(o) \subseteq catalogue
     /\ \E status \in {"RESERVED", "RELEASED"} :
          rows[o] = [p \in Products |-> IF p \in Listed(o) THEN status ELSE "none"]

\* A reservation holds the products before those it has yet to lock, and what
\* it saw of them is still true.
ReserveHolds(r) ==
  LET o == Body[r].order
  IN  /\ lock[o] # r
      /\ Held(r) \cap Rest(r) = {}
      /\ Held(r) \cup Rest(r) = Listed(o) \cap catalogue
      /\ \A p \in Held(r) : req[r].seen[p] = stock[p] /\ \A q \in Rest(r) : p < q
      /\ req[r].next # Nothing => \A q \in req[r].todo : req[r].next < q

\* A release holds the rows of its order, and products out of these.
ReleaseHolds(r) ==
  LET o == Body[r].order
  IN  /\ lock[o] = r
      /\ Reserved(o) # {}
      /\ Held(r) \cap Rest(r) = {}
      /\ Held(r) \cup Rest(r) = Reserved(o)

\* What the state of a handler says about its request and its locks.
HandlerKnows(r) ==
  /\ ~At(r, "unsent") => Mentioned(r) \cap Created \subseteq catalogue
  /\ At(r, "lookup") => Op(r) = "reserve"
  /\ At(r, "rows") => Op(r) = "release"
  /\ req[r].pc \in {"adjust", "update"} => Op(r) = "add"
  /\ req[r].pc \in {"findBySku", "insert"} => Op(r) = "create"
  /\ At(r, "update") => Body[r].product \in catalogue
  /\ IF At(r, "lock")
     THEN /\ \A o \in Orders : lock[o] = r => Op(r) = "release" /\ o = Body[r].order
          /\ req[r].next \notin req[r].todo
          /\ req[r].next = Nothing => req[r].todo = {}
          /\ \/ Op(r) = "reserve" /\ ReserveHolds(r)
             \/ Op(r) = "release" /\ ReleaseHolds(r)
     ELSE \A x \in Products \cup Orders : lock[x] # r

\* The inductive invariant: handlers hold the locks their statements have
\* taken, in their order, and the tables change only under these.
InventoryInvariant ==
  /\ \A r \in Requests : HandlerKnows(r)
  /\ \A o \in Orders : Whole(o)

-----------------------------------------------------------------------------
(* Progress, and the abstract specification. *)

\* Every request is answered, or its handler stops, and in the end nothing is
\* under way: nobody waits for a lock for ever, since transactions end, free what
\* they hold, and are failed when they wait for each other.
EveryRequestEnds == <>[](\A r \in Requests : ~Working(r))

Amounts == {Body[r].quantity : r \in {q \in Requests : Op(q) \in {"add", "create"}}}

Promise == INSTANCE Warehouse WITH
  reservation <- [o \in Orders |-> Status(o)],
  used <- [k \in Keys |-> adjustments[k] # Nobody]

\* The service keeps the promise of Warehouse.
KeepsStock == Promise!Spec

\* engineering-design.md 6.5, "Even if both requests start simultaneously, the row
\* lock on `products` during UPDATE serializes them. The second request will see
\* the first's changes and correctly return the existing result": where nothing
\* fails, the repeat of an adjustment that was made (the same key, product and
\* quantity) is not answered 500.
RepeatsReturnTheOriginal ==
  \A r, q \in Requests :
    /\ r # q /\ Op(r) = "add"
    /\ Body[q] = Body[r] /\ adjustments[Body[r].key] = q
    => req[r].answer # "500"

=============================================================================
