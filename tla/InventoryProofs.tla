--------------------------- MODULE InventoryProofs ---------------------------
(***************************************************************************)
(* The inventory's inductive invariant and what follows from it, for any   *)
(* number of products, orders, keys, requests and faults.                  *)
(***************************************************************************)
EXTENDS InventoryProperties, TLAPS, WellFoundedInduction, FiniteSetTheorems

-----------------------------------------------------------------------------
(* Orders and their lines. *)

LEMMA LinesTypes ==
  ASSUME NEW o \in Orders
  PROVE  /\ Listed(o) \subseteq Products /\ Listed(o) # {}
         /\ \A line \in Lines[o] : line.quantity \in Nat \ {0}
<1>1. Lines[o] \subseteq [no : Nat, product : Products, quantity : Nat \ {0}]
  BY InventoryAssumption
<1>2. Lines[o] # {}
  BY InventoryAssumption
<1>. QED BY <1>1, <1>2 DEF Listed

\* The demand of a product that is listed is the quantity of a line for it, and
\* of the only one unless the order repeats a product.
LEMMA DemandOf ==
  ASSUME NEW o \in Orders, NEW p \in Products
  PROVE  /\ Demand[o][p] \in Nat
         /\ p \notin Listed(o) => Demand[o][p] = 0
         /\ p \in Listed(o) =>
              \E line \in Lines[o] : line.product = p /\ Demand[o][p] = line.quantity
         /\ ~Repeats(o) =>
              \A line \in Lines[o] : line.product = p => Demand[o][p] = line.quantity
<1>1. CASE p \notin Listed(o)
  BY <1>1 DEF Demand, Listed
<1>2. CASE p \in Listed(o)
  <2>. DEFINE chosen == CHOOSE line \in Lines[o] : line.product = p
  <2>1. chosen \in Lines[o] /\ chosen.product = p
    BY <1>2 DEF Listed
  <2>2. Demand[o][p] = chosen.quantity
    BY <1>2 DEF Demand
  <2>. HIDE DEF chosen
  <2>. QED BY <1>2, <2>1, <2>2, LinesTypes DEF Repeats
<1>. QED BY <1>1, <1>2

LEMMA BodyTypes ==
  ASSUME NEW r \in Requests
  PROVE  /\ Op(r) \in {"reserve", "release", "add", "create"}
         /\ Op(r) \in {"reserve", "release"} => Body[r].order \in Orders
         /\ Op(r) \in {"add", "create"} =>
              Body[r].product \in Products /\ Body[r].quantity \in Nat
         /\ Op(r) = "add" => Body[r].key \in Keys
<1>1. Body[r] \in Bodies
  BY InventoryAssumption
<1>. QED BY <1>1 DEF Bodies, Op

\* What comes next is one of the products, or nothing if there is none left.
LEMMA FollowingFacts ==
  ASSUME NEW r, NEW todo \in SUBSET Products, NEW q \in Following(r, todo)
  PROVE  /\ q \in todo \cup {Nothing}
         /\ q = Nothing => todo = {}
         /\ Op(r) = "reserve" => \A p \in todo \ {q} : q < p
<1>. USE InventoryAssumption
<1>1. CASE todo = {}
  BY <1>1 DEF Following
<1>2. CASE todo # {} /\ Op(r) = "reserve"
  <2>1. q \in todo /\ \A p \in todo : q <= p
    BY <1>2 DEF Following, Sorted
  <2>. QED BY <1>2, <2>1
<1>3. CASE todo # {} /\ Op(r) # "reserve"
  BY <1>3 DEF Following
<1>. QED BY <1>1, <1>2, <1>3

-----------------------------------------------------------------------------
(* What a step must respect of the handlers that do not take it. *)

\* Products that are created now were not mentioned by requests that were sent.
LEMMA MentionedStays ==
  ASSUME NEW q \in Requests, NEW o, o = Body[q].order, Op(q) = "reserve",
         Mentioned(q) \cap Created \subseteq catalogue,
         catalogue \subseteq catalogue', catalogue' \ catalogue \subseteq Created
  PROVE  Listed(o) \cap catalogue' = Listed(o) \cap catalogue
BY DEF Mentioned

\* Another handler still knows what it knew: it keeps its locks, and nobody
\* changes the stock or the rows that it has locked.
LEMMA OthersUndisturbed ==
  ASSUME NEW q \in Requests, HandlerKnows(q),
         req'[q] = req[q],
         \A x \in Products \cup Orders : lock'[x] = q <=> lock[x] = q,
         catalogue \subseteq catalogue', catalogue' \ catalogue \subseteq Created,
         \A p \in Held(q) : stock'[p] = stock[p],
         At(q, "lock") /\ Op(q) = "release" =>
           rows'[Body[q].order] = rows[Body[q].order]
  PROVE  HandlerKnows(q)'
<1>. DEFINE o == Body[q].order
<1>1. /\ Held(q)' = Held(q) /\ Rest(q)' = Rest(q)
      /\ Op(q)' = Op(q) /\ Mentioned(q)' = Mentioned(q) /\ Created' = Created
      /\ \A pc : At(q, pc)' = At(q, pc)
  BY DEF Held, Rest, Op, Mentioned, Created, At, Listed
<1>2. ASSUME At(q, "lock"), Op(q) = "reserve", ReserveHolds(q)
      PROVE  ReserveHolds(q)'
  <2>1. Listed(o) \cap catalogue' = Listed(o) \cap catalogue
    BY <1>2, MentionedStays DEF HandlerKnows, At
  <2>2. o \in Orders
    BY <1>2, BodyTypes
  <2>. QED BY <1>1, <1>2, <2>1, <2>2 DEF ReserveHolds, Listed
<1>3. ASSUME At(q, "lock"), Op(q) = "release", ReleaseHolds(q)
      PROVE  ReleaseHolds(q)'
  <2>1. o \in Orders /\ Reserved(o)' = Reserved(o)
    BY <1>3, BodyTypes DEF Reserved
  <2>. QED BY <1>1, <1>3, <2>1 DEF ReleaseHolds
<1>. QED BY <1>1, <1>2, <1>3 DEF HandlerKnows, At

\* A handler that ends knows nothing and holds nothing.
LEMMA EndedKnows ==
  ASSUME TypeOK, NEW r \in Requests, HandlerKnows(r), ~At(r, "unsent"),
         NEW pc \in {"answered", "stopped"}, NEW answer, End(r, pc, answer),
         catalogue \subseteq catalogue'
  PROVE  /\ HandlerKnows(r)'
         /\ \A q \in Requests \ {r} :
              /\ req'[q] = req[q]
              /\ \A x \in Products \cup Orders : lock'[x] = q <=> lock[x] = q
<1>1. /\ req'[r].pc = pc /\ \A q \in Requests \ {r} : req'[q] = req[q]
  BY DEF End, TypeOK, Unsent
<1>2. \A x \in Products \cup Orders :
        lock'[x] = IF lock[x] = r THEN Nobody ELSE lock[x]
  BY DEF End, Free, TypeOK
<1>3. r # Nobody /\ \A q \in Requests : q # Nobody
  BY InventoryAssumption
<1>4. Mentioned(r)' = Mentioned(r) /\ Created' = Created
  BY DEF Op, Mentioned, Created, Listed
<1>5. HandlerKnows(r)'
  BY <1>1, <1>2, <1>3, <1>4 DEF HandlerKnows, At
<1>. QED BY <1>1, <1>2, <1>3, <1>5

-----------------------------------------------------------------------------
(* What is committed. *)

\* The rows of an order, once they are known to be whole.
LEMMA WholeFacts ==
  ASSUME NEW o \in Orders, Whole(o)
  PROVE  /\ Reserved(o) # {} =>
              /\ Reserved(o) = Listed(o) /\ Listed(o) \subseteq catalogue /\ ~Repeats(o)
              /\ rows[o] = [p \in Products |-> IF p \in Listed(o) THEN "RESERVED" ELSE "none"]
         /\ (\A p \in Listed(o) : rows[o][p] = "none") =>
              rows[o] = [p \in Products |-> "none"] /\ Reserved(o) = {}
         /\ \A p \in Products \ Listed(o) : rows[o][p] = "none"
<1>. USE LinesTypes
<1>1. CASE rows[o] = [p \in Products |-> "none"]
  BY <1>1 DEF Reserved
<1>2. ASSUME ~Repeats(o), Listed(o) \subseteq catalogue,
             NEW status \in {"RESERVED", "RELEASED"},
             rows[o] = [p \in Products |-> IF p \in Listed(o) THEN status ELSE "none"]
      PROVE  /\ Reserved(o) # {} => Reserved(o) = Listed(o) /\ status = "RESERVED"
             /\ \E p \in Listed(o) : rows[o][p] # "none"
             /\ \A p \in Products \ Listed(o) : rows[o][p] = "none"
  BY <1>2 DEF Reserved
<1>. QED BY <1>1, <1>2 DEF Whole

\* A handler that is ready has locked everything it needs.
LEMMA ReadyHolds ==
  ASSUME NEW r \in Requests, HandlerKnows(r)
  PROVE  /\ Ready(r, "reserve") =>
              /\ Held(r) = Listed(Body[r].order) \cap catalogue
              /\ \A p \in Held(r) : req[r].seen[p] = stock[p]
         /\ Ready(r, "release") =>
              /\ lock[Body[r].order] = r /\ Reserved(Body[r].order) # {}
              /\ Held(r) = Reserved(Body[r].order)
BY DEF Ready, HandlerKnows, ReserveHolds, ReleaseHolds, Rest, At

\* A commit changes the stock of products, and rows of orders, that no other
\* handler has locked.
LEMMA WriteRespects ==
  ASSUME TypeOK, InventoryInvariant, NEW r \in Requests, Write(r)
  PROVE  /\ catalogue \subseteq catalogue' /\ catalogue' \ catalogue \subseteq Created
         /\ \A o \in Orders : Whole(o)'
         /\ \A q \in Requests \ {r} :
              /\ \A p \in Held(q) : stock'[p] = stock[p]
              /\ At(q, "lock") /\ Op(q) = "release" =>
                   rows'[Body[q].order] = rows[Body[q].order]
<1>. DEFINE o == Body[r].order
            Respects(q) == /\ \A p \in Held(q) : stock'[p] = stock[p]
                           /\ At(q, "lock") /\ Op(q) = "release" =>
                                rows'[Body[q].order] = rows[Body[q].order]
<1>. USE DEF InventoryInvariant
<1>1. CASE ReserveStock(r)
  <2>1. o \in Orders /\ Held(r) = Listed(o) \cap catalogue /\ Whole(o)
    BY <1>1, ReadyHolds, BodyTypes DEF ReserveStock, Ready
  <2>2. /\ Listed(o) \subseteq catalogue /\ ~Repeats(o)
        /\ \A p \in Listed(o) : rows[o][p] = "none"
    BY <1>1 DEF ReserveStock, Constraints
  <2>3. rows[o] = [p \in Products |-> "none"] /\ Reserved(o) = {}
    BY <2>1, <2>2, WholeFacts
  <2>4. /\ stock' = [p \in Products |-> stock[p] - Demand[o][p]]
        /\ rows' = [rows EXCEPT ![o] = [p \in Products |->
                      IF p \in Listed(o) THEN "RESERVED" ELSE rows[o][p]]]
        /\ catalogue' = catalogue
    BY <1>1 DEF ReserveStock, InsertReservation
  <2>5. ASSUME NEW q \in Requests \ {r} PROVE Respects(q)
    <3>1. ASSUME NEW p \in Held(q) PROVE stock'[p] = stock[p]
      <4>1. p \in Products /\ p \notin Listed(o)
        BY <2>1, <2>2 DEF Held
      <4>2. Demand[o][p] = 0 /\ stock[p] \in Nat
        BY <4>1, <2>1, DemandOf DEF TypeOK
      <4>. QED BY <4>1, <4>2, <2>4
    <3>2. ASSUME At(q, "lock"), Op(q) = "release"
          PROVE  rows'[Body[q].order] = rows[Body[q].order]
      <4>1. Reserved(Body[q].order) # {}
        BY <3>2 DEF HandlerKnows, ReleaseHolds
      <4>2. Body[q].order # o /\ Body[q].order \in Orders
        BY <4>1, <2>3, <3>2, BodyTypes
      <4>. QED BY <4>2, <2>4 DEF TypeOK
    <3>. QED BY <3>1, <3>2
  <2>6. ASSUME NEW x \in Orders PROVE Whole(x)'
    <3>1. CASE x = o
      <4>1. rows'[o] = [p \in Products |-> IF p \in Listed(o) THEN "RESERVED" ELSE "none"]
        BY <2>1, <2>3, <2>4 DEF TypeOK
      <4>. QED BY <3>1, <4>1, <2>2, <2>4 DEF Whole, Listed, Repeats
    <3>2. CASE x # o
      <4>1. rows'[x] = rows[x]
        BY <3>2, <2>1, <2>4 DEF TypeOK
      <4>. QED BY <4>1, <2>4 DEF Whole, Listed, Repeats
    <3>. QED BY <3>1, <3>2
  <2>. QED BY <2>4, <2>5, <2>6
<1>2. CASE ReleaseStock(r)
  <2>1. /\ o \in Orders /\ Held(r) = Reserved(o) /\ lock[o] = r /\ Whole(o)
        /\ Reserved(o) # {}
    BY <1>2, ReadyHolds, BodyTypes DEF ReleaseStock, Ready
  <2>2. /\ stock' = Restored(o) /\ rows' = [rows EXCEPT ![o] = MarkReleased(o)]
        /\ catalogue' = catalogue
    BY <1>2 DEF ReleaseStock
  <2>3. ASSUME NEW q \in Requests \ {r} PROVE Respects(q)
    <3>1. ASSUME NEW p \in Held(q) PROVE stock'[p] = stock[p]
      BY <3>1, <2>1, <2>2 DEF Held, Restored
    <3>2. ASSUME At(q, "lock"), Op(q) = "release"
          PROVE  rows'[Body[q].order] = rows[Body[q].order]
      <4>1. lock[Body[q].order] = q /\ Body[q].order \in Orders
        BY <3>2, BodyTypes DEF HandlerKnows, ReleaseHolds
      <4>. QED BY <4>1, <2>1, <2>2 DEF TypeOK
    <3>. QED BY <3>1, <3>2
  <2>4. ASSUME NEW x \in Orders PROVE Whole(x)'
    <3>1. CASE x = o
      <4>1. rows'[o] = [p \in Products |-> IF p \in Listed(o) THEN "RELEASED" ELSE "none"]
        BY <2>1, <2>2, WholeFacts DEF MarkReleased, TypeOK
      <4>2. Listed(o) \subseteq catalogue /\ ~Repeats(o)
        BY <2>1, WholeFacts
      <4>. QED BY <3>1, <4>1, <4>2, <2>2 DEF Whole, Listed, Repeats
    <3>2. CASE x # o
      BY <3>2, <2>1, <2>2 DEF Whole, TypeOK, Listed, Repeats
    <3>. QED BY <3>1, <3>2
  <2>. QED BY <2>2, <2>3, <2>4
<1>3. CASE AddStock(r)
  <2>1. /\ lock[Body[r].product] = Nobody
        /\ stock' = [stock EXCEPT ![Body[r].product] = NewStock(r)]
        /\ catalogue' = catalogue /\ rows' = rows
    BY <1>3 DEF AddStock
  <2>2. \A q \in Requests \ {r} : Respects(q)
    BY <2>1, InventoryAssumption DEF Held, TypeOK
  <2>3. \A x \in Orders : Whole(x)'
    BY <2>1 DEF Whole, Listed, Repeats
  <2>. QED BY <2>1, <2>2, <2>3
<1>4. CASE InsertProduct(r)
  <2>. DEFINE n == Body[r].product
  <2>1. /\ n \notin catalogue /\ catalogue' = catalogue \cup {n} /\ rows' = rows
        /\ stock' = [stock EXCEPT ![n] = Body[r].quantity]
    BY <1>4 DEF InsertProduct
  <2>2. n \in Created
    BY <1>4 DEF InsertProduct, HandlerKnows, At, Created
  <2>3. ASSUME NEW q \in Requests \ {r} PROVE Held(q) \subseteq catalogue
    <3>1. CASE At(q, "lock") /\ Op(q) = "reserve"
      BY <3>1 DEF HandlerKnows, ReserveHolds
    <3>2. CASE At(q, "lock") /\ Op(q) = "release"
      <4>1. Held(q) \subseteq Reserved(Body[q].order) /\ Reserved(Body[q].order) # {}
        BY <3>2 DEF HandlerKnows, ReleaseHolds
      <4>2. Body[q].order \in Orders
        BY <3>2, BodyTypes
      <4>3. Reserved(Body[q].order) \subseteq catalogue
        BY <4>1, <4>2, WholeFacts
      <4>. QED BY <4>1, <4>3
    <3>3. CASE ~At(q, "lock")
      BY <3>3 DEF HandlerKnows, Held
    <3>. QED BY <3>1, <3>2, <3>3 DEF HandlerKnows
  <2>4. \A q \in Requests \ {r} : Respects(q)
    BY <2>1, <2>3 DEF Held, TypeOK
  <2>5. \A x \in Orders : Whole(x)'
    BY <2>1 DEF Whole, Listed, Repeats
  <2>. QED BY <2>1, <2>2, <2>4, <2>5
<1>. QED BY <1>1, <1>2, <1>3, <1>4 DEF Write

-----------------------------------------------------------------------------
(* Types. *)

LEMMA EndTypes ==
  ASSUME TypeOK, NEW r \in Requests, NEW pc \in {"answered", "stopped"},
         NEW answer \in {"none", "200", "201", "404", "409", "500"}, End(r, pc, answer)
  PROVE  /\ req' \in [Requests -> Handler]
         /\ lock' \in [Products \cup Orders -> Requests \cup {Nobody}]
<1>1. [Unsent EXCEPT !.pc = pc, !.answer = answer] \in Handler
  BY InventoryAssumption DEF Unsent, Handler
<1>. QED BY <1>1 DEF End, Free, TypeOK

LEMMA WriteTypes ==
  ASSUME TypeOK, NEW r \in Requests, HandlerKnows(r), Write(r)
  PROVE  /\ catalogue' \in SUBSET Products
         /\ stock' \in [Products -> Nat]
         /\ rows' \in [Orders -> [Products -> {"none", "RESERVED", "RELEASED"}]]
         /\ adjustments' \in [Keys -> Requests \cup {Nobody}]
<1>. DEFINE o == Body[r].order
<1>1. CASE ReserveStock(r)
  <2>1. o \in Orders
    BY <1>1, BodyTypes DEF ReserveStock, Ready
  <2>2. \A p \in Products : stock[p] - Demand[o][p] \in Nat
    <3>. TAKE p \in Products
    <3>1. Demand[o][p] \in Nat /\ stock[p] \in Nat /\ Demand[o][p] <= stock[p]
      BY <1>1, <2>1, DemandOf DEF ReserveStock, Constraints, TypeOK
    <3>. QED BY <3>1
  <2>3. stock' \in [Products -> Nat] /\ catalogue' = catalogue /\ adjustments' = adjustments
    BY <1>1, <2>2 DEF ReserveStock, InsertReservation
  <2>4. rows' \in [Orders -> [Products -> {"none", "RESERVED", "RELEASED"}]]
    BY <1>1, <2>1 DEF ReserveStock, InsertReservation, TypeOK
  <2>. QED BY <2>3, <2>4 DEF TypeOK
<1>2. CASE ReleaseStock(r)
  <2>1. o \in Orders
    BY <1>2, BodyTypes DEF ReleaseStock, Ready
  <2>2. \A p \in Products : Demand[o][p] \in Nat /\ stock[p] \in Nat
    BY <2>1, DemandOf DEF TypeOK
  <2>3. stock' \in [Products -> Nat] /\ catalogue' = catalogue /\ adjustments' = adjustments
    BY <1>2, <2>2 DEF ReleaseStock, Restored
  <2>4. rows' \in [Orders -> [Products -> {"none", "RESERVED", "RELEASED"}]]
    BY <1>2, <2>1 DEF ReleaseStock, MarkReleased, TypeOK
  <2>. QED BY <2>3, <2>4 DEF TypeOK
<1>3. CASE AddStock(r)
  <2>1. /\ stock' = [stock EXCEPT ![Body[r].product] = stock[Body[r].product] + Body[r].quantity]
        /\ adjustments' = [adjustments EXCEPT ![Body[r].key] = r]
        /\ catalogue' = catalogue /\ rows' = rows
    BY <1>3 DEF AddStock, NewStock
  <2>2. stock' \in [Products -> Nat]
    <3>1. Body[r].product \in Products /\ Body[r].quantity \in Nat
      BY <1>3, BodyTypes DEF AddStock, HandlerKnows, At
    <3>. QED BY <2>1, <3>1 DEF TypeOK
  <2>. QED BY <2>1, <2>2 DEF TypeOK
<1>4. CASE InsertProduct(r)
  <2>1. Body[r].product \in Products /\ Body[r].quantity \in Nat
    BY <1>4, BodyTypes DEF InsertProduct, HandlerKnows, At
  <2>. QED BY <1>4, <2>1 DEF InsertProduct, TypeOK
<1>. QED BY <1>1, <1>2, <1>3, <1>4 DEF Write

-----------------------------------------------------------------------------
(* Steps. *)

\* A handler that ends, having committed or not, keeps the invariant.
LEMMA EndStep ==
  ASSUME TypeOK, InventoryInvariant, NEW r \in Requests, ~At(r, "unsent"),
         NEW pc \in {"answered", "stopped"},
         NEW answer \in {"none", "200", "201", "404", "409", "500"}, End(r, pc, answer),
         Write(r) \/ UNCHANGED tables, faults' \in 0..MaxFaults
  PROVE  TypeOK' /\ InventoryInvariant'
<1>1. HandlerKnows(r) /\ \A q \in Requests : HandlerKnows(q)
  BY DEF InventoryInvariant
<1>2. /\ catalogue \subseteq catalogue' /\ catalogue' \ catalogue \subseteq Created
      /\ \A o \in Orders : Whole(o)'
      /\ \A q \in Requests \ {r} :
           /\ \A p \in Held(q) : stock'[p] = stock[p]
           /\ At(q, "lock") /\ Op(q) = "release" =>
                rows'[Body[q].order] = rows[Body[q].order]
  <2>1. CASE Write(r)
    BY <2>1, WriteRespects
  <2>2. CASE UNCHANGED tables
    BY <2>2 DEF tables, InventoryInvariant, Whole, Listed, Repeats
  <2>. QED BY <2>1, <2>2
<1>3. HandlerKnows(r)'
  BY <1>1, <1>2, EndedKnows
<1>4. ASSUME NEW q \in Requests \ {r} PROVE HandlerKnows(q)'
  <2>1. /\ req'[q] = req[q]
        /\ \A x \in Products \cup Orders : lock'[x] = q <=> lock[x] = q
    BY <1>1, <1>2, EndedKnows
  <2>. QED BY <1>1, <1>2, <2>1, OthersUndisturbed
<1>5. /\ catalogue' \in SUBSET Products
      /\ stock' \in [Products -> Nat]
      /\ rows' \in [Orders -> [Products -> {"none", "RESERVED", "RELEASED"}]]
      /\ adjustments' \in [Keys -> Requests \cup {Nobody}]
  <2>1. CASE Write(r)
    BY <1>1, <2>1, WriteTypes
  <2>2. CASE UNCHANGED tables
    BY <2>2 DEF tables, TypeOK
  <2>. QED BY <2>1, <2>2
<1>6. TypeOK'
  BY <1>5, EndTypes DEF TypeOK
<1>. QED BY <1>2, <1>3, <1>4, <1>6 DEF InventoryInvariant

\* So does a handler that goes on and commits nothing, as long as it knows what
\* it should.
LEMMA OwnStep ==
  ASSUME TypeOK, InventoryInvariant, NEW r \in Requests,
         NEW row \in Handler, req' = [req EXCEPT ![r] = row],
         lock' \in [Products \cup Orders -> Requests \cup {Nobody}],
         \A q \in Requests \ {r}, x \in Products \cup Orders : lock'[x] = q <=> lock[x] = q,
         UNCHANGED <<tables, faults>>,
         HandlerKnows(r)'
  PROVE  TypeOK' /\ InventoryInvariant'
<1>1. TypeOK'
  BY DEF TypeOK, tables
<1>2. ASSUME NEW q \in Requests \ {r} PROVE HandlerKnows(q)'
  <2>1. HandlerKnows(q) /\ req'[q] = req[q]
    BY DEF InventoryInvariant, TypeOK
  <2>2. catalogue' = catalogue /\ stock' = stock /\ rows' = rows
    BY DEF tables
  <2>. QED BY <2>1, <2>2, OthersUndisturbed
<1>3. \A o \in Orders : Whole(o)'
  BY DEF InventoryInvariant, tables, Whole, Listed, Repeats
<1>. QED BY <1>1, <1>2, <1>3 DEF InventoryInvariant

\* A handler with no product locked yet, that has selected some to be locked.
LEMMA StartsLocking ==
  ASSUME TypeOK, InventoryInvariant, NEW r \in Requests, At(r, "lookup") \/ At(r, "rows"),
         NEW products \in SUBSET Products, StartLocking(r, products),
         UNCHANGED <<tables, faults>>,
         \/ /\ Op(r) = "reserve" /\ lock' = lock
            /\ products = Listed(Body[r].order) \cap catalogue
         \/ /\ Op(r) = "release" /\ lock' = [lock EXCEPT ![Body[r].order] = r]
            /\ lock[Body[r].order] = Nobody
            /\ products = Reserved(Body[r].order) /\ products # {}
  PROVE  TypeOK' /\ InventoryInvariant'
<1>. DEFINE o == Body[r].order
<1>1. PICK p \in Following(r, products) :
        req' = [req EXCEPT ![r].pc = "lock", ![r].next = p, ![r].todo = products \ {p}]
  BY DEF StartLocking
<1>. DEFINE row == [req[r] EXCEPT !.pc = "lock", !.next = p, !.todo = products \ {p}]
<1>2. /\ p \in products \cup {Nothing}
      /\ p = Nothing => products = {}
      /\ Op(r) = "reserve" => \A q \in products \ {p} : p < q
  BY FollowingFacts
<1>3. row \in Handler /\ req' = [req EXCEPT ![r] = row]
  <2>1. req[r] \in Handler
    BY DEF TypeOK
  <2>2. p \in Products \cup {Nothing} /\ products \ {p} \in SUBSET Products
    BY <1>2
  <2>3. row \in Handler
    BY <2>1, <2>2 DEF Handler, Statements
  <2>. QED BY <1>1, <2>3
<1>4. /\ req'[r].pc = "lock" /\ req'[r].next = p /\ req'[r].todo = products \ {p}
      /\ req'[r].seen = req[r].seen
  BY <1>3 DEF TypeOK, Handler
<1>5. o \in Orders /\ o \notin Products /\ r # Nobody
  BY BodyTypes, InventoryAssumption
<1>6. /\ lock' \in [Products \cup Orders -> Requests \cup {Nobody}]
      /\ \A q \in Requests \ {r}, x \in Products \cup Orders : lock'[x] = q <=> lock[x] = q
      /\ \A x \in Products : lock'[x] = lock[x]
  <2>1. CASE lock' = lock
    BY <2>1 DEF TypeOK
  <2>2. CASE lock' = [lock EXCEPT ![o] = r] /\ lock[o] = Nobody
    <3>1. \A q \in Requests : q # Nobody
      BY InventoryAssumption
    <3>2. \A x \in Products \cup Orders : lock'[x] = IF x = o THEN r ELSE lock[x]
      BY <1>5, <2>2 DEF TypeOK
    <3>. QED BY <1>5, <2>2, <3>1, <3>2 DEF TypeOK
  <2>. QED BY <2>1, <2>2
<1>7. /\ \A x \in Products \cup Orders : lock[x] # r
      /\ Mentioned(r) \cap Created \subseteq catalogue
  BY DEF InventoryInvariant, HandlerKnows, At
<1>8. Held(r)' = {} /\ Rest(r)' = products
  <2>1. Nothing \notin Products
    BY InventoryAssumption
  <2>2. Held(r)' = {}
    BY <1>6, <1>7 DEF Held
  <2>. QED BY <2>1, <2>2, <1>2, <1>4 DEF Rest
<1>9. /\ Op(r)' = Op(r) /\ Mentioned(r)' = Mentioned(r) /\ Created' = Created
      /\ Reserved(o)' = Reserved(o) /\ Listed(o)' = Listed(o) /\ catalogue' = catalogue
  BY DEF Op, Mentioned, Created, Reserved, Listed, tables
<1>10. CASE Op(r) = "reserve"
  <2>1. lock' = lock /\ products = Listed(o) \cap catalogue
    BY <1>10
  <2>2. ReserveHolds(r)'
    BY <1>2, <1>4, <1>5, <1>7, <1>8, <1>9, <1>10, <2>1 DEF ReserveHolds
  <2>3. HandlerKnows(r)'
    BY <1>2, <1>4, <1>7, <1>9, <1>10, <2>1, <2>2 DEF HandlerKnows, At
  <2>. QED BY <1>3, <1>6, <2>3, OwnStep
<1>11. CASE Op(r) = "release"
  <2>1. lock' = [lock EXCEPT ![o] = r] /\ products = Reserved(o) /\ products # {}
    BY <1>11
  <2>2. lock'[o] = r /\ \A x \in Orders : lock'[x] = r => x = o
    BY <1>5, <1>7, <2>1 DEF TypeOK
  <2>3. ReleaseHolds(r)'
    BY <1>8, <1>9, <2>1, <2>2 DEF ReleaseHolds
  <2>4. HandlerKnows(r)'
    BY <1>2, <1>4, <1>7, <1>9, <1>11, <2>2, <2>3 DEF HandlerKnows, At
  <2>. QED BY <1>3, <1>6, <2>4, OwnStep
<1>. QED BY <1>10, <1>11

LEMMA SendStep ==
  ASSUME TypeOK, InventoryInvariant, NEW r \in Requests, Send(r)
  PROVE  TypeOK' /\ InventoryInvariant'
<1>1. /\ Mentioned(r) \cap Created \subseteq catalogue
      /\ UNCHANGED <<tables, lock, faults>>
      /\ \A x \in Products \cup Orders : lock[x] # r
  BY DEF Send, InventoryInvariant, HandlerKnows, At
<1>2. PICK pc \in {"lookup", "rows", "adjust", "findBySku"} :
        /\ Goto(r, pc)
        /\ pc = "lookup" => Op(r) = "reserve"
        /\ pc = "rows" => Op(r) = "release"
        /\ pc = "adjust" => Op(r) = "add"
        /\ pc = "findBySku" => Op(r) = "create"
  BY DEF Send
<1>. DEFINE row == [req[r] EXCEPT !.pc = pc]
<1>3. row \in Handler /\ req' = [req EXCEPT ![r] = row] /\ req'[r].pc = pc
  <2>1. req[r] \in Handler
    BY DEF TypeOK
  <2>2. row \in Handler
    BY <2>1 DEF Handler, Statements
  <2>. QED BY <1>2, <2>1, <2>2 DEF Goto, TypeOK
<1>4. /\ Op(r)' = Op(r) /\ Mentioned(r)' = Mentioned(r) /\ Created' = Created
      /\ catalogue' = catalogue
  BY <1>1 DEF Op, Mentioned, Created, Listed, tables
<1>5. HandlerKnows(r)'
  BY <1>1, <1>2, <1>3, <1>4 DEF HandlerKnows, At
<1>. QED BY <1>1, <1>3, <1>5, OwnStep DEF TypeOK

\* The statements of addStock and of create up to their waits.
LEMMA GoesOn ==
  ASSUME TypeOK, InventoryInvariant, NEW r \in Requests,
         NEW row \in Handler, req' = [req EXCEPT ![r] = row],
         \/ /\ row.pc = "update" /\ Op(r) = "add" /\ Body[r].product \in catalogue
         \/ /\ row.pc = "insert" /\ Op(r) = "create",
         ~At(r, "unsent"), ~At(r, "lock"), UNCHANGED <<tables, lock, faults>>
  PROVE  TypeOK' /\ InventoryInvariant'
<1>1. req'[r] = row
  BY DEF TypeOK
<1>2. /\ Op(r)' = Op(r) /\ Mentioned(r)' = Mentioned(r) /\ Created' = Created
      /\ catalogue' = catalogue
  BY DEF Op, Mentioned, Created, Listed, tables
<1>3. /\ \A x \in Products \cup Orders : lock[x] # r
      /\ Mentioned(r) \cap Created \subseteq catalogue
  BY DEF InventoryInvariant, HandlerKnows, At
<1>4. HandlerKnows(r)'
  BY <1>1, <1>2, <1>3 DEF HandlerKnows, At
<1>. QED BY <1>4, OwnStep DEF TypeOK

LEMMA LockStep ==
  ASSUME TypeOK, InventoryInvariant, NEW r \in Requests, LockProduct(r)
  PROVE  TypeOK' /\ InventoryInvariant'
<1>. DEFINE p == req[r].next  todo == req[r].todo  o == Body[r].order
<1>1. /\ At(r, "lock") /\ p # Nothing /\ lock[p] = Nobody /\ lock' = [lock EXCEPT ![p] = r]
      /\ UNCHANGED <<tables, faults>>
  BY DEF LockProduct, TakeLock
<1>2. p \in Products /\ todo \in SUBSET Products /\ req[r] \in Handler /\ stock[p] \in Nat
  BY <1>1 DEF TypeOK, Handler
<1>3. PICK q \in Following(r, todo) :
        req' = [req EXCEPT ![r].seen[p] = stock[p], ![r].next = q, ![r].todo = @ \ {q}]
  BY DEF LockProduct
<1>4. /\ q \in todo \cup {Nothing}
      /\ q = Nothing => todo = {}
      /\ Op(r) = "reserve" => \A x \in todo \ {q} : q < x
  BY <1>2, FollowingFacts
<1>. DEFINE row == [req[r] EXCEPT !.seen[p] = stock[p], !.next = q, !.todo = todo \ {q}]
<1>5. row \in Handler
  <2>1. q \in Products \cup {Nothing} /\ todo \ {q} \in SUBSET Products
    BY <1>2, <1>4
  <2>2. [req[r].seen EXCEPT ![p] = stock[p]] \in [Products -> Nat]
    BY <1>2 DEF Handler
  <2>. QED BY <1>2, <2>1, <2>2 DEF Handler
<1>6. /\ req'[r].pc = "lock" /\ req'[r].next = q /\ req'[r].todo = todo \ {q}
      /\ req'[r].seen = [req[r].seen EXCEPT ![p] = stock[p]]
      /\ \A s \in Requests \ {r} : req'[s] = req[s]
  BY <1>1, <1>2, <1>3 DEF TypeOK, Handler, At
<1>. HIDE DEF row
<1>7. req' = [req EXCEPT ![r] = row]
  BY <1>3 DEF TypeOK, row
<1>8. /\ lock' \in [Products \cup Orders -> Requests \cup {Nobody}]
      /\ \A x \in Products \cup Orders : lock'[x] = IF x = p THEN r ELSE lock[x]
  BY <1>1, <1>2 DEF TypeOK
<1>9. r # Nobody /\ (\A s \in Requests : s # Nobody) /\ Nothing \notin Products /\ p \notin Orders
  BY <1>2, InventoryAssumption
<1>10. \A s \in Requests \ {r}, x \in Products \cup Orders : lock'[x] = s <=> lock[x] = s
  BY <1>1, <1>8, <1>9
<1>11. /\ Held(r)' = Held(r) \cup {p} /\ p \notin Held(r)
  BY <1>1, <1>2, <1>8, <1>9 DEF Held
<1>12. /\ \A x \in Orders : lock[x] = r => Op(r) = "release" /\ x = o
       /\ p \notin todo
       /\ \/ Op(r) = "reserve" /\ ReserveHolds(r)
          \/ Op(r) = "release" /\ ReleaseHolds(r)
       /\ Mentioned(r) \cap Created \subseteq catalogue
  BY <1>1 DEF InventoryInvariant, HandlerKnows, At
<1>13. Rest(r) = todo \cup {p} /\ Rest(r)' = todo
  BY <1>1, <1>4, <1>6, <1>9 DEF Rest
<1>14. /\ Op(r)' = Op(r) /\ Mentioned(r)' = Mentioned(r) /\ Created' = Created
       /\ Reserved(o)' = Reserved(o) /\ Listed(o)' = Listed(o) /\ catalogue' = catalogue
       /\ stock' = stock
  BY <1>1 DEF Op, Mentioned, Created, Reserved, Listed, tables
<1>15. o \in Orders /\ lock'[o] = lock[o]
  BY <1>8, <1>9, <1>12, BodyTypes
<1>16. CASE Op(r) = "reserve"
  <2>1. ReserveHolds(r)
    BY <1>12, <1>16
  <2>2. \A x \in Held(r)' : req'[r].seen[x] = stock'[x]
    BY <1>2, <1>6, <1>11, <1>14, <2>1 DEF ReserveHolds, Held, Handler
  <2>3. /\ \A x \in Held(r)' : \A y \in Rest(r)' : x < y
        /\ req'[r].next # Nothing => \A x \in req'[r].todo : req'[r].next < x
    BY <1>1, <1>4, <1>6, <1>11, <1>13, <1>16, <2>1 DEF ReserveHolds
  <2>4. /\ Held(r)' \cap Rest(r)' = {}
        /\ Held(r)' \cup Rest(r)' = Listed(o)' \cap catalogue'
    BY <1>11, <1>12, <1>13, <1>14, <2>1 DEF ReserveHolds
  <2>5. ReserveHolds(r)'
    BY <1>15, <2>1, <2>2, <2>3, <2>4 DEF ReserveHolds
  <2>6. HandlerKnows(r)'
    BY <1>4, <1>6, <1>8, <1>9, <1>12, <1>14, <1>16, <2>5 DEF HandlerKnows, At
  <2>. QED BY <1>1, <1>5, <1>7, <1>8, <1>10, <2>6, OwnStep
<1>17. CASE Op(r) = "release"
  <2>1. ReleaseHolds(r)
    BY <1>12, <1>17
  <2>2. ReleaseHolds(r)'
    BY <1>11, <1>12, <1>13, <1>14, <1>15, <2>1 DEF ReleaseHolds
  <2>3. HandlerKnows(r)'
    BY <1>4, <1>6, <1>8, <1>9, <1>12, <1>14, <1>17, <2>2 DEF HandlerKnows, At
  <2>. QED BY <1>1, <1>5, <1>7, <1>8, <1>10, <2>3, OwnStep
<1>. QED BY <1>12, <1>16, <1>17

LEMMA WriteNotUnsent ==
  ASSUME NEW r \in Requests, Write(r)
  PROVE  Working(r) /\ ~At(r, "unsent")
BY DEF Write, ReserveStock, ReleaseStock, AddStock, InsertProduct, Ready, At, Working,
       Statements

\* Every step of a handler keeps the invariant.
LEMMA HandleStep ==
  ASSUME TypeOK, InventoryInvariant, NEW r \in Requests, Handle(r)
  PROVE  TypeOK' /\ InventoryInvariant'
<1>. DEFINE Ends == /\ ~At(r, "unsent") /\ UNCHANGED faults
                    /\ \E answer \in {"200", "201", "404", "409", "500"} : Respond(r, answer)
                    /\ Write(r) \/ UNCHANGED tables
<1>1. ASSUME Ends PROVE TypeOK' /\ InventoryInvariant'
  BY <1>1, EndStep DEF Respond, TypeOK
<1>2. CASE LockProduct(r)
  BY <1>2, LockStep
<1>3. CASE ReserveLookup(r)
  <2>1. /\ At(r, "lookup") /\ UNCHANGED <<tables, faults>> /\ Op(r) = "reserve"
    BY <1>3 DEF ReserveLookup, InventoryInvariant, HandlerKnows
  <2>2. CASE Respond(r, "201")
    BY <1>1, <2>1, <2>2 DEF At
  <2>3. CASE StartLocking(r, Listed(Body[r].order) \cap catalogue) /\ lock' = lock
    <3>1. Listed(Body[r].order) \cap catalogue \in SUBSET Products
      BY DEF TypeOK
    <3>. QED BY <2>1, <2>3, <3>1, StartsLocking
  <2>. QED BY <1>3, <2>2, <2>3 DEF ReserveLookup
<1>4. CASE ReserveRefused(r)
  BY <1>1, <1>4 DEF ReserveRefused, Ready, At
<1>5. CASE LockReservations(r)
  <2>1. /\ At(r, "rows") /\ UNCHANGED <<tables, faults>> /\ Op(r) = "release"
        /\ lock[Body[r].order] = Nobody
    BY <1>5 DEF LockReservations, InventoryInvariant, HandlerKnows
  <2>2. CASE Respond(r, "200")
    BY <1>1, <2>1, <2>2 DEF At
  <2>3. CASE /\ lock' = [lock EXCEPT ![Body[r].order] = r]
             /\ Reserved(Body[r].order) # {} /\ StartLocking(r, Reserved(Body[r].order))
    <3>1. Reserved(Body[r].order) \in SUBSET Products
      BY DEF Reserved
    <3>. QED BY <2>1, <2>3, <3>1, StartsLocking
  <2>. QED BY <1>5, <2>2, <2>3 DEF LockReservations
<1>6. CASE AddStockChecks(r)
  <2>. DEFINE p == Body[r].product
              row == [req[r] EXCEPT !.pc = "update", !.seen[p] = stock[p]]
  <2>1. /\ At(r, "adjust") /\ UNCHANGED <<tables, faults>> /\ Op(r) = "add"
    BY <1>6 DEF AddStockChecks, InventoryInvariant, HandlerKnows, At
  <2>2. CASE Respond(r, "409") \/ Respond(r, "404")
    BY <1>1, <2>1, <2>2 DEF At
  <2>3. CASE /\ p \in catalogue /\ lock' = lock
             /\ req' = [req EXCEPT ![r].pc = "update", ![r].seen[p] = stock[p]]
    <3>1. p \in Products /\ req[r] \in Handler /\ stock[p] \in Nat
      BY <2>3 DEF TypeOK
    <3>2. [req[r].seen EXCEPT ![p] = stock[p]] \in [Products -> Nat]
      BY <3>1 DEF Handler
    <3>3. row \in Handler /\ row.pc = "update"
      BY <3>1, <3>2 DEF Handler, Statements
    <3>. HIDE DEF row
    <3>4. req' = [req EXCEPT ![r] = row]
      BY <2>3 DEF TypeOK, row
    <3>. QED BY <2>1, <2>3, <3>3, <3>4, GoesOn DEF At
  <2>. QED BY <1>6, <2>2, <2>3 DEF AddStockChecks
<1>7. CASE AddStockConflicts(r)
  BY <1>1, <1>7 DEF AddStockConflicts, At
<1>8. CASE FindBySku(r)
  <2>. DEFINE row == [req[r] EXCEPT !.pc = "insert"]
  <2>1. /\ At(r, "findBySku") /\ UNCHANGED <<tables, faults>> /\ Op(r) = "create"
    BY <1>8 DEF FindBySku, InventoryInvariant, HandlerKnows, At
  <2>2. CASE Respond(r, "409")
    BY <1>1, <2>1, <2>2 DEF At
  <2>3. CASE Goto(r, "insert") /\ lock' = lock
    <3>1. req[r] \in Handler
      BY DEF TypeOK
    <3>2. row \in Handler /\ row.pc = "insert"
      BY <3>1 DEF Handler, Statements
    <3>3. req' = [req EXCEPT ![r] = row]
      BY <2>3 DEF Goto
    <3>. QED BY <2>1, <2>3, <3>2, <3>3, GoesOn DEF At
  <2>. QED BY <1>8, <2>2, <2>3 DEF FindBySku
<1>9. CASE InsertConflicts(r)
  BY <1>1, <1>9 DEF InsertConflicts, At
<1>10. CASE Commit(r)
  <2>1. Success[Op(r)] \in {"200", "201"}
    BY BodyTypes DEF Success
  <2>. QED BY <1>1, <1>10, <2>1, WriteNotUnsent DEF Commit
<1>11. CASE DeadlockDetected(r)
  <2>1. Working(r)
    BY <1>11 DEF DeadlockDetected, InDeadlock
  <2>. QED BY <1>1, <1>11, <2>1 DEF DeadlockDetected, Working, Statements, At
<1>. QED BY <1>2, <1>3, <1>4, <1>5, <1>6, <1>7, <1>8, <1>9, <1>10, <1>11 DEF Handle

LEMMA NextStep ==
  ASSUME TypeOK, InventoryInvariant, [Next]_vars
  PROVE  TypeOK' /\ InventoryInvariant'
<1>1. CASE UNCHANGED vars
  BY <1>1 DEF vars, tables, TypeOK, InventoryInvariant, HandlerKnows, Whole, ReserveHolds,
     ReleaseHolds, Held, Rest, Reserved, At, Op, Mentioned, Created, Listed, Repeats
<1>2. ASSUME NEW r \in Requests, DatabaseFails(r)
      PROVE  TypeOK' /\ InventoryInvariant'
  <2>1. ~At(r, "unsent") /\ faults' \in 0..MaxFaults
    BY <1>2, InventoryAssumption DEF DatabaseFails, Fault, Working, Statements, At, TypeOK
  <2>. QED BY <1>2, <2>1, EndStep DEF DatabaseFails, Respond
<1>3. ASSUME NEW r \in Requests, HandlerStops(r)
      PROVE  TypeOK' /\ InventoryInvariant'
  <2>1. ~At(r, "unsent") /\ faults' \in 0..MaxFaults
    BY <1>3, InventoryAssumption DEF HandlerStops, Fault, Working, Statements, At, TypeOK
  <2>. QED BY <1>3, <2>1, EndStep DEF HandlerStops
<1>. QED BY <1>1, <1>2, <1>3, SendStep, HandleStep DEF Next

LEMMA InitHolds ==
  ASSUME Init
  PROVE  TypeOK /\ InventoryInvariant
<1>. USE InventoryAssumption
<1>1. \A r \in Requests : At(r, "unsent") /\ req[r] = Unsent
  BY DEF Init, At, Unsent
<1>2. TypeOK
  <2>1. Unsent \in Handler
    BY DEF Unsent, Handler, Statements
  <2>2. rows \in [Orders -> [Products -> {"none", "RESERVED", "RELEASED"}]]
    BY DEF Init
  <2>. QED BY <2>1, <2>2 DEF Init, TypeOK
<1>3. \A x \in Products \cup Orders, r \in Requests : lock[x] # r
  BY DEF Init
<1>4. \A r \in Requests : HandlerKnows(r)
  BY <1>1, <1>3 DEF HandlerKnows, At
<1>5. ASSUME NEW o \in Orders PROVE Whole(o)
  <2>1. CASE o \in Standing
    <3>1. rows[o] = [p \in Products |-> IF p \in Listed(o) THEN "RESERVED" ELSE "none"]
      BY <2>1 DEF Init
    <3>. QED BY <2>1, <3>1 DEF Init, Whole
  <2>2. CASE o \notin Standing
    BY <2>2 DEF Init, Whole
  <2>. QED BY <2>1, <2>2
<1>. QED BY <1>2, <1>4, <1>5 DEF InventoryInvariant

\* The variables have their types, and handlers hold the locks that their
\* statements have taken, in their order, while the rows and the stock they have
\* locked stay as they are: for any products, orders, requests and faults.
THEOREM InventoryCorrect == Spec => [](TypeOK /\ InventoryInvariant)
<1>1. Init => TypeOK /\ InventoryInvariant
  BY InitHolds
<1>2. TypeOK /\ InventoryInvariant /\ [Next]_vars => TypeOK' /\ InventoryInvariant'
  BY NextStep
<1>. QED BY <1>1, <1>2, PTL DEF Spec

\* Every variable of the service keeps its type: stock is never negative, and a
\* handler answers with one of the statuses that its routes know.
THEOREM InventoryTypes == Spec => []TypeOK
BY InventoryCorrect, PTL

-----------------------------------------------------------------------------
(* Deadlocks. *)

\* A reservation whose product is held by another one waits for a later product
\* than any that the other has yet to lock.
LEMMA WaitsInOrder ==
  ASSUME TypeOK, InventoryInvariant, NEW C \in SUBSET {r \in Requests : Working(r)},
         Deadlocked(C), \A r \in C : Op(r) # "release"
  PROVE  \A r \in C : /\ req[r].next \in Nat
                      /\ \E q \in C : req[q].next < req[r].next
<1>. DEFINE Waits(r) == At(r, "lock") /\ Op(r) = "reserve" /\ req[r].next \in Products
                          /\ req[r].next \in Rest(r) /\ ReserveHolds(r)
<1>1. ASSUME NEW r \in C PROVE Waits(r)
  <2>1. PICK p \in C : WaitsFor(r, p)
    BY DEF Deadlocked
  <2>2. PICK q \in C : WaitsFor(q, r)
    BY DEF Deadlocked
  <2>3. HandlerKnows(r) /\ HandlerKnows(q) /\ r \in Requests /\ q \in Requests
    BY DEF InventoryInvariant
  <2>4. \E x \in Products \cup Orders : lock[x] = r
    BY <2>2, <2>3, BodyTypes DEF WaitsFor, HandlerKnows, At, TypeOK, Handler
  <2>5. At(r, "lock") /\ Op(r) = "reserve" /\ ReserveHolds(r)
    BY <2>3, <2>4 DEF HandlerKnows
  <2>6. req[r].next # Nothing /\ req[r].next \in Products
    BY <2>1, <2>3, <2>5 DEF WaitsFor, At, TypeOK, Handler
  <2>. QED BY <2>5, <2>6 DEF Rest
<1>2. ASSUME NEW r \in C PROVE \E q \in C : req[q].next < req[r].next
  <2>1. PICK q \in C : WaitsFor(q, r)
    BY DEF Deadlocked
  <2>2. Waits(r) /\ Waits(q)
    BY <1>1
  <2>3. req[q].next \in Held(r)
    BY <2>1, <2>2 DEF WaitsFor, At, Held
  <2>. QED BY <2>2, <2>3 DEF ReserveHolds
<1>. QED BY <1>1, <1>2, InventoryAssumption

\* In every deadlock there is a release: a reservation that waits holds smaller
\* products than it waits for, so that the one that waits for the smallest holds
\* nothing that another of them waits for.
THEOREM DeadlocksHaveReleases == Spec => []OnlyReleasesDeadlock
<1>1. ASSUME TypeOK, InventoryInvariant PROVE OnlyReleasesDeadlock
  <2>1. SUFFICES ASSUME NEW C \in SUBSET {r \in Requests : Working(r)}, Deadlocked(C),
                        \A r \in C : Op(r) # "release"
                 PROVE  FALSE
    BY DEF OnlyReleasesDeadlock
  <2>. DEFINE T == {req[r].next : r \in C}
  <2>2. /\ \A r \in C : req[r].next \in Nat
        /\ \A r \in C : \E q \in C : req[q].next < req[r].next
    BY <1>1, <2>1, WaitsInOrder
  <2>3. T \subseteq Nat /\ T # {}
    BY <2>1, <2>2 DEF Deadlocked
  <2>4. \E x \in T : \A y \in T : ~(<<y, x>> \in OpToRel(<, Nat))
    <3>. HIDE DEF T
    <3>. QED BY <2>3, NatLessThanWellFounded, WFMin
  <2>5. PICK r \in C : \A q \in C : ~(<<req[q].next, req[r].next>> \in OpToRel(<, Nat))
    BY <2>4
  <2>6. \A q \in C : ~(req[q].next < req[r].next)
    BY <2>2, <2>5 DEF OpToRel
  <2>. QED BY <2>2, <2>6
<1>. QED BY <1>1, InventoryCorrect, PTL

-----------------------------------------------------------------------------
(* Answers. *)

\* What a response does to the handlers.
LEMMA Responded ==
  ASSUME TypeOK, NEW r \in Requests, NEW pc, NEW answer, End(r, pc, answer)
  PROVE  /\ req'[r].pc = pc /\ req'[r].answer = answer
         /\ \A q \in Requests \ {r} : req'[q] = req[q]
BY DEF End, TypeOK, Unsent

\* What is refused has its reason.
LEMMA RefusedForReason ==
  ASSUME TypeOK, InventoryInvariant, NEW r \in Requests, ReserveRefused(r)
  PROVE  \E answer \in {"404", "409", "500"} : Respond(r, answer) /\ Reason(r, answer)
<1>. DEFINE o == Body[r].order
<1>1. /\ o \in Orders /\ Op(r) = "reserve" /\ Held(r) = Listed(o) \cap catalogue
      /\ \A p \in Held(r) : req[r].seen[p] = stock[p]
  BY ReadyHolds, BodyTypes DEF ReserveRefused, Ready, InventoryInvariant
<1>2. CASE ~(Listed(o) \subseteq catalogue) /\ Respond(r, "404")
  BY <1>1, <1>2 DEF Reason
<1>3. ASSUME Listed(o) \subseteq catalogue, NEW line \in Lines[o]
      PROVE  req[r].seen[line.product] = stock[line.product]
  BY <1>1, <1>3 DEF Listed
<1>4. CASE Listed(o) \subseteq catalogue /\ Short(r) /\ Respond(r, "409")
  <2>1. \E line \in Lines[o] : stock[line.product] < line.quantity
    BY <1>3, <1>4 DEF Short
  <2>. QED BY <1>1, <1>4, <2>1 DEF Reason
<1>5. CASE Listed(o) \subseteq catalogue /\ ~Short(r) /\ ~Constraints(o) /\ Respond(r, "500")
  <2>1. ASSUME NEW p \in Listed(o) PROVE Demand[o][p] <= stock[p]
    <3>1. p \in Products /\ stock[p] \in Nat
      BY <1>1, <2>1, LinesTypes DEF TypeOK
    <3>2. PICK line \in Lines[o] : line.product = p /\ Demand[o][p] = line.quantity
      BY <1>1, <2>1, <3>1, DemandOf
    <3>3. ~(stock[p] < line.quantity) /\ line.quantity \in Nat
      BY <1>1, <1>3, <1>5, <3>2, LinesTypes DEF Short
    <3>. QED BY <3>1, <3>2, <3>3
  <2>2. Repeats(o) \/ \E p \in Listed(o) : rows[o][p] # "none"
    BY <1>5, <2>1 DEF Constraints
  <2>3. Repeats(o) \/ Status(o) # "none"
    BY <1>1, <2>2, LinesTypes DEF Status, TypeOK
  <2>. QED BY <1>1, <1>5, <2>3 DEF Reason
<1>. QED BY <1>2, <1>4, <1>5 DEF ReserveRefused

\* What a step of a handler comes to: it goes on, it commits, or it answers
\* without a commit, and then for a reason.
LEMMA Outcome ==
  ASSUME TypeOK, InventoryInvariant, NEW r \in Requests, Handle(r)
  PROVE  /\ UNCHANGED faults
         /\ \A q \in Requests \ {r} : req'[q] = req[q]
         /\ \/ /\ UNCHANGED tables
               /\ req'[r].pc \in Statements /\ req'[r].answer = req[r].answer
            \/ /\ Write(r)
               /\ req'[r].pc = "answered" /\ req'[r].answer = Success[Op(r)]
            \/ /\ UNCHANGED tables /\ req'[r].pc = "answered"
               /\ \/ /\ req'[r].answer = "201" /\ Op(r) = "reserve"
                     /\ Reserved(Body[r].order) # {}
                  \/ req'[r].answer = "200" /\ Op(r) = "release"
                  \/ /\ req'[r].answer \in {"404", "409", "500"}
                     /\ Reason(r, req'[r].answer)
<1>. DEFINE Proceeds ==
       /\ UNCHANGED <<tables, faults>> /\ \A q \in Requests \ {r} : req'[q] = req[q]
       /\ req'[r].pc \in Statements /\ req'[r].answer = req[r].answer
<1>1. ASSUME NEW answer, Respond(r, answer)
      PROVE  /\ \A q \in Requests \ {r} : req'[q] = req[q]
             /\ req'[r].pc = "answered" /\ req'[r].answer = answer
  BY <1>1, Responded DEF Respond
<1>2. HandlerKnows(r) /\ req[r] \in Handler
  BY DEF InventoryInvariant, TypeOK
<1>3. ASSUME NEW products, StartLocking(r, products), UNCHANGED <<tables, faults>>
      PROVE  Proceeds
  BY <1>3 DEF StartLocking, TypeOK, Handler, Statements
<1>4. CASE LockProduct(r)
  BY <1>4 DEF LockProduct, TypeOK, Handler, Statements, At
<1>5. CASE ReserveLookup(r)
  <2>1. Op(r) = "reserve" /\ UNCHANGED <<tables, faults>>
    BY <1>2, <1>5 DEF ReserveLookup, HandlerKnows
  <2>. QED BY <1>1, <1>3, <1>5, <2>1 DEF ReserveLookup
<1>6. CASE ReserveRefused(r)
  <2>1. UNCHANGED <<tables, faults>>
    BY <1>6 DEF ReserveRefused
  <2>. QED BY <1>1, <1>6, <2>1, RefusedForReason
<1>7. CASE LockReservations(r)
  <2>1. Op(r) = "release" /\ UNCHANGED <<tables, faults>>
    BY <1>2, <1>7 DEF LockReservations, HandlerKnows
  <2>. QED BY <1>1, <1>3, <1>7, <2>1 DEF LockReservations
<1>8. CASE AddStockChecks(r)
  <2>1. Op(r) = "add" /\ UNCHANGED <<tables, faults>>
    BY <1>2, <1>8 DEF AddStockChecks, HandlerKnows, At
  <2>2. CASE adjustments[Body[r].key] # Nobody /\ Respond(r, "409")
    BY <1>1, <2>1, <2>2 DEF Reason
  <2>3. CASE Body[r].product \notin catalogue /\ Respond(r, "404")
    BY <1>1, <2>1, <2>3 DEF Reason
  <2>4. CASE req' = [req EXCEPT ![r].pc = "update",
                                ![r].seen[Body[r].product] = stock[Body[r].product]]
    BY <2>1, <2>4 DEF TypeOK, Handler, Statements
  <2>. QED BY <1>8, <2>2, <2>3, <2>4 DEF AddStockChecks
<1>9. CASE AddStockConflicts(r)
  <2>1. Op(r) = "add" /\ UNCHANGED <<tables, faults>> /\ adjustments[Body[r].key] # Nobody
    BY <1>2, <1>9 DEF AddStockConflicts, HandlerKnows, At, KeyIsFree
  <2>2. Reason(r, "500")
    BY <2>1 DEF Reason
  <2>. QED BY <1>1, <1>9, <2>1, <2>2 DEF AddStockConflicts
<1>10. CASE FindBySku(r)
  <2>1. Op(r) = "create" /\ UNCHANGED <<tables, faults>>
    BY <1>2, <1>10 DEF FindBySku, HandlerKnows, At
  <2>2. CASE Body[r].product \in catalogue /\ Respond(r, "409")
    BY <1>1, <2>1, <2>2 DEF Reason
  <2>3. CASE Goto(r, "insert")
    BY <2>1, <2>3 DEF Goto, TypeOK, Handler, Statements
  <2>. QED BY <1>10, <2>2, <2>3 DEF FindBySku
<1>11. CASE InsertConflicts(r)
  <2>1. Op(r) = "create" /\ UNCHANGED <<tables, faults>> /\ Body[r].product \in catalogue
    BY <1>2, <1>11 DEF InsertConflicts, HandlerKnows, At
  <2>2. Reason(r, "500")
    BY <2>1 DEF Reason
  <2>. QED BY <1>1, <1>11, <2>1, <2>2 DEF InsertConflicts
<1>12. CASE Commit(r)
  BY <1>1, <1>12 DEF Commit
<1>13. CASE DeadlockDetected(r)
  <2>1. Reason(r, "500") /\ UNCHANGED <<tables, faults>>
    BY <1>13 DEF DeadlockDetected, Reason
  <2>. QED BY <1>1, <1>13, <2>1 DEF DeadlockDetected
<1>. QED BY <1>4, <1>5, <1>6, <1>7, <1>8, <1>9, <1>10, <1>11, <1>12, <1>13 DEF Handle

\* No other step answers a request, unless something fails.
LEMMA OtherSteps ==
  ASSUME TypeOK, InventoryInvariant, NEW r \in Requests,
         Send(r) \/ DatabaseFails(r) \/ HandlerStops(r)
  PROVE  /\ \A q \in Requests \ {r} : req'[q] = req[q]
         /\ Write(r) \/ UNCHANGED tables
         /\ \/ UNCHANGED tables /\ req'[r].pc \in Statements /\ req'[r].answer = req[r].answer
            \/ /\ Working(r) /\ faults' # faults /\ req'[r].pc \in {"answered", "stopped"}
               /\ req'[r].answer \in {"none", "500"}
<1>1. CASE Send(r)
  BY <1>1 DEF Send, Goto, TypeOK, Handler, Statements
<1>2. CASE DatabaseFails(r)
  BY <1>2, Responded DEF DatabaseFails, Respond, Fault, TypeOK
<1>3. CASE HandlerStops(r)
  BY <1>3, Responded DEF HandlerStops, Fault, TypeOK
<1>. QED BY <1>1, <1>2, <1>3

\* Where nothing fails, a request is refused only for a reason that holds then:
\* what was seen of the stock, of the keys and of the products is not stale.
THEOREM RefusalsHaveReasons == Spec => RefusalsAreForced
<1>. DEFINE Forced(r) == Refused(r) /\ faults' = faults => Reason(r, req'[r].answer)
<1>1. ASSUME TypeOK, InventoryInvariant, Next, NEW r \in Requests
      PROVE  Forced(r)
  <2>1. PICK q \in Requests : Send(q) \/ Handle(q) \/ DatabaseFails(q) \/ HandlerStops(q)
    BY <1>1 DEF Next
  <2>2. CASE q # r
    <3>1. req'[r] = req[r]
      BY <1>1, <2>1, <2>2, OtherSteps, Outcome
    <3>. QED BY <3>1 DEF Refused, Working, Statements
  <2>3. CASE Handle(r) /\ q = r
    <3>1. Success[Op(r)] \in {"200", "201"}
      BY BodyTypes DEF Success
    <3>. QED BY <1>1, <2>3, <3>1, Outcome DEF Refused, Statements
  <2>4. CASE ~Handle(r) /\ q = r
    BY <1>1, <2>1, <2>4, OtherSteps DEF Refused, Statements
  <2>. QED BY <2>2, <2>3, <2>4
<1>2. TypeOK /\ InventoryInvariant /\ [Next]_vars => [\A r \in Requests : Forced(r)]_vars
  BY <1>1
<1>3. [](TypeOK /\ InventoryInvariant) /\ [][Next]_vars
        => [][\A r \in Requests : Forced(r)]_vars
  BY <1>2, PTL
<1>. QED BY <1>3, InventoryCorrect DEF Spec, RefusalsAreForced

\* What is stored is not taken back: rows are released, never removed, and a
\* key keeps the adjustment that used it.
LEMMA TablesGrow ==
  ASSUME TypeOK, InventoryInvariant, NEW r \in Requests, Write(r) \/ UNCHANGED tables
  PROVE  /\ catalogue \subseteq catalogue'
         /\ \A o \in Orders, p \in Products : rows[o][p] # "none" => rows'[o][p] # "none"
         /\ \A k \in Keys : /\ adjustments[k] # Nobody => adjustments'[k] = adjustments[k]
                            /\ adjustments'[k] \in {adjustments[k], r}
<1>1. CASE UNCHANGED tables
  BY <1>1 DEF tables
<1>2. CASE ReserveStock(r)
  BY <1>2 DEF ReserveStock, InsertReservation, TypeOK
<1>3. CASE ReleaseStock(r)
  <2>1. Body[r].order \in Orders
    BY <1>3, BodyTypes DEF ReleaseStock, Ready
  <2>. QED BY <1>3, <2>1 DEF ReleaseStock, MarkReleased, TypeOK
<1>4. CASE AddStock(r)
  BY <1>4 DEF AddStock, KeyIsFree, TypeOK
<1>5. CASE InsertProduct(r)
  BY <1>5 DEF InsertProduct, TypeOK
<1>. QED BY <1>1, <1>2, <1>3, <1>4, <1>5 DEF Write

\* A request that made a row of the adjustments is over.
OriginalsAreOver ==
  \A k \in Keys, r \in Requests : adjustments[k] = r => req[r].pc \in {"answered", "stopped"}

\* An answer that was true stays true.
LEMMA AnswerStays ==
  ASSUME TypeOK, InventoryInvariant, AnswersAreTrue, NEW q \in Requests,
         req'[q].answer = req[q].answer,
         catalogue \subseteq catalogue',
         \A o \in Orders, p \in Products : rows[o][p] # "none" => rows'[o][p] # "none",
         \A k \in Keys : adjustments[k] # Nobody => adjustments'[k] = adjustments[k],
         NEW o, o = Body[q].order
  PROVE  /\ Op(q) = "reserve" /\ req'[q].answer = "201" =>
              \A p \in Listed(o) : rows'[o][p] # "none"
         /\ Op(q) = "add" =>
              /\ req'[q].answer = "200" => adjustments'[Body[q].key] = q
              /\ req'[q].answer = "409" => adjustments'[Body[q].key] \notin {q, Nobody}
         /\ Op(q) = "create" /\ req'[q].answer = "201" => Body[q].product \in catalogue'
<1>1. q # Nobody
  BY InventoryAssumption
<1>2. ASSUME Op(q) = "reserve", req'[q].answer = "201"
      PROVE  \A p \in Listed(o) : rows'[o][p] # "none"
  <2>1. o \in Orders /\ Listed(o) \subseteq Products
    BY <1>2, BodyTypes, LinesTypes
  <2>. QED BY <1>2, <2>1 DEF AnswersAreTrue
<1>3. ASSUME Op(q) = "add"
      PROVE  /\ req'[q].answer = "200" => adjustments'[Body[q].key] = q
             /\ req'[q].answer = "409" => adjustments'[Body[q].key] \notin {q, Nobody}
  <2>1. Body[q].key \in Keys
    BY <1>3, BodyTypes
  <2>. QED BY <1>1, <1>3, <2>1 DEF AnswersAreTrue
<1>. QED BY <1>2, <1>3 DEF AnswersAreTrue

\* The commit of each request.
LEMMA WriteOf ==
  ASSUME TypeOK, InventoryInvariant, NEW r \in Requests, Write(r)
  PROVE  /\ Op(r) = "reserve" => ReserveStock(r)
         /\ Op(r) = "release" => ReleaseStock(r)
         /\ Op(r) = "add" => AddStock(r)
         /\ Op(r) = "create" => InsertProduct(r)
<1>1. HandlerKnows(r)
  BY DEF InventoryInvariant
<1>. QED BY <1>1 DEF Write, ReserveStock, ReleaseStock, AddStock, InsertProduct, Ready,
           HandlerKnows, At

\* What is under way is not over.
LEMMA MoversAreNotOver ==
  ASSUME NEW q \in Requests, Send(q) \/ Handle(q) \/ DatabaseFails(q) \/ HandlerStops(q)
  PROVE  req[q].pc \notin {"answered", "stopped"}
<1>1. Handle(q) => Working(q)
  BY DEF Handle, LockProduct, ReserveLookup, ReserveRefused, LockReservations, Ready,
     AddStockChecks, AddStockConflicts, FindBySku, InsertConflicts, Commit, Write,
     ReserveStock, ReleaseStock, AddStock, InsertProduct, DeadlockDetected, InDeadlock,
     Working, Statements, At
<1>. QED BY <1>1 DEF Send, DatabaseFails, HandlerStops, Working, Statements, At

\* An answer that is given now is true now.
LEMMA AnswerGiven ==
  ASSUME TypeOK, InventoryInvariant, AnswersAreTrue, OriginalsAreOver,
         NEW q \in Requests, Handle(q), ~(req'[q].pc \in Statements),
         NEW o, o = Body[q].order
  PROVE  /\ Op(q) = "reserve" /\ req'[q].answer = "201" =>
              \A p \in Listed(o) : rows'[o][p] # "none"
         /\ Op(q) = "add" =>
              /\ req'[q].answer = "200" => adjustments'[Body[q].key] = q
              /\ req'[q].answer = "409" => adjustments'[Body[q].key] \notin {q, Nobody}
         /\ Op(q) = "create" /\ req'[q].answer = "201" =>
              Body[q].product \in catalogue' \ catalogue
<1>1. CASE Write(q) /\ req'[q].answer = Success[Op(q)]
  <2>1. CASE Op(q) = "reserve"
    <3>1. o \in Orders /\ ReserveStock(q)
      BY <1>1, <2>1, WriteOf, BodyTypes
    <3>2. \A p \in Listed(o) : rows'[o][p] = "RESERVED"
      BY <3>1, LinesTypes DEF ReserveStock, InsertReservation, TypeOK
    <3>. QED BY <2>1, <3>2
  <2>2. CASE Op(q) = "add"
    <3>1. AddStock(q) /\ Body[q].key \in Keys
      BY <1>1, <2>2, WriteOf, BodyTypes
    <3>2. adjustments'[Body[q].key] = q
      BY <3>1 DEF AddStock, TypeOK
    <3>. QED BY <1>1, <2>2, <3>2 DEF Success
  <2>3. CASE Op(q) = "create"
    BY <1>1, <2>3, WriteOf DEF InsertProduct
  <2>. QED BY <2>1, <2>2, <2>3
<1>2. CASE UNCHANGED tables /\ req'[q].answer = "201" /\ Op(q) = "reserve" /\ Reserved(o) # {}
  <2>1. o \in Orders /\ Whole(o)
    BY <1>2, BodyTypes DEF InventoryInvariant
  <2>2. \A p \in Listed(o) : rows[o][p] = "RESERVED"
    BY <1>2, <2>1, WholeFacts DEF Reserved
  <2>. QED BY <1>2, <2>2 DEF tables
<1>3. CASE req'[q].answer = "200" /\ Op(q) = "release"
  BY <1>3
<1>4. CASE /\ UNCHANGED tables /\ req'[q].answer \in {"404", "409", "500"}
           /\ Reason(q, req'[q].answer)
  <2>1. ASSUME Op(q) = "add", req'[q].answer = "409"
        PROVE  adjustments[Body[q].key] \notin {q, Nobody}
    <3>1. adjustments[Body[q].key] # Nobody /\ Body[q].key \in Keys
      BY <1>4, <2>1, BodyTypes DEF Reason
    <3>2. req[q].pc \notin {"answered", "stopped"}
      BY MoversAreNotOver
    <3>. QED BY <3>1, <3>2 DEF OriginalsAreOver
  <2>. QED BY <1>4, <2>1 DEF tables
<1>. QED BY <1>1, <1>2, <1>3, <1>4, Outcome

LEMMA AnswersStep ==
  ASSUME TypeOK, InventoryInvariant, AnswersAreTrue, OriginalsAreOver, [Next]_vars
  PROVE  AnswersAreTrue' /\ OriginalsAreOver'
<1>1. CASE UNCHANGED vars
  BY <1>1 DEF vars, tables, AnswersAreTrue, OriginalsAreOver, Listed, Op
<1>2. CASE Next
  <2>1. PICK q \in Requests : Send(q) \/ Handle(q) \/ DatabaseFails(q) \/ HandlerStops(q)
    BY <1>2 DEF Next
  <2>2. /\ \A r \in Requests \ {q} : req'[r] = req[r]
        /\ Write(q) \/ UNCHANGED tables
        /\ UNCHANGED tables \/ req'[q].pc \in {"answered", "stopped"}
    BY <2>1, Outcome, OtherSteps
  <2>3. /\ catalogue \subseteq catalogue'
        /\ \A o \in Orders, p \in Products : rows[o][p] # "none" => rows'[o][p] # "none"
        /\ \A k \in Keys : /\ adjustments[k] # Nobody => adjustments'[k] = adjustments[k]
                           /\ adjustments'[k] \in {adjustments[k], q}
    BY <2>2, TablesGrow
  <2>. DEFINE
         o(r) == Body[r].order
         True(r) ==
           /\ Op(r) = "reserve" /\ req'[r].answer = "201" =>
                \A p \in Listed(o(r)) : rows'[o(r)][p] # "none"
           /\ Op(r) = "add" =>
                /\ req'[r].answer = "200" => adjustments'[Body[r].key] = r
                /\ req'[r].answer = "409" => adjustments'[Body[r].key] \notin {r, Nobody}
           /\ Op(r) = "create" /\ req'[r].answer = "201" => Body[r].product \in catalogue'
         Kept(r) == req'[r].answer = req[r].answer
         New(r) == Op(r) = "create" /\ req'[r].answer = "201"
                     => Body[r].product \in catalogue' \ catalogue
  <2>4. ASSUME NEW r \in Requests, Kept(r) PROVE True(r)
    BY <2>3, <2>4, AnswerStays
  <2>5. True(q) /\ (Kept(q) \/ New(q))
    <3>1. CASE Kept(q)
      BY <2>4, <3>1
    <3>2. CASE Handle(q) /\ ~Kept(q)
      <4>1. ~(req'[q].pc \in Statements)
        BY <3>2, Outcome, WriteNotUnsent DEF Statements
      <4>. QED BY <3>2, <4>1, AnswerGiven
    <3>3. CASE ~Handle(q) /\ ~Kept(q)
      BY <2>1, <3>3, OtherSteps
    <3>. QED BY <3>1, <3>2, <3>3
  <2>6. ASSUME NEW r \in Requests, NEW s \in Requests \ {r},
               Op(r) = "create", req'[r].answer = "201",
               Op(s) = "create", req'[s].answer = "201", Body[s].product = Body[r].product
        PROVE  FALSE
    <3>1. /\ Kept(r) \/ New(r)
          /\ Kept(s) \/ New(s)
          /\ Kept(r) \/ Kept(s)
      BY <2>2, <2>5
    <3>2. /\ Kept(r) => Body[r].product \in catalogue
          /\ Kept(s) => Body[s].product \in catalogue
          /\ ~(Kept(r) /\ Kept(s))
      BY <2>6 DEF AnswersAreTrue
    <3>. QED BY <2>6, <3>1, <3>2
  <2>7. \A r \in Requests : True(r)
    BY <2>2, <2>4, <2>5
  <2>8. AnswersAreTrue'
    BY <2>6, <2>7 DEF AnswersAreTrue, Op, Listed
  <2>9. OriginalsAreOver'
    <3>1. ASSUME NEW k \in Keys, NEW r \in Requests, adjustments'[k] = r
          PROVE  req'[r].pc \in {"answered", "stopped"}
      <4>1. CASE adjustments[k] = r
        BY <2>1, <2>2, <4>1, MoversAreNotOver DEF OriginalsAreOver
      <4>2. CASE adjustments[k] # r
        BY <2>2, <2>3, <3>1, <4>2 DEF tables
      <4>. QED BY <4>1, <4>2
    <3>. QED BY <3>1 DEF OriginalsAreOver
  <2>. QED BY <2>8, <2>9
<1>. QED BY <1>1, <1>2

\* The answers that were given are backed by what is stored, for as long as the
\* service runs.
THEOREM AnswersStayTrue == Spec => []AnswersAreTrue
<1>. DEFINE I == TypeOK /\ InventoryInvariant
            A == AnswersAreTrue /\ OriginalsAreOver
<1>1. Init => A
  <2>1. ASSUME Init PROVE /\ \A r \in Requests : req[r].answer = "none"
                          /\ \A k \in Keys, r \in Requests : adjustments[k] # r
    BY <2>1, InventoryAssumption DEF Init, Unsent
  <2>. QED BY <2>1 DEF AnswersAreTrue, OriginalsAreOver
<1>2. I /\ A /\ [Next]_vars => A'
  BY AnswersStep
<1>3. Spec => []I
  BY InventoryCorrect
<1>4. A => AnswersAreTrue
  OBVIOUS
<1>. HIDE DEF I, A
<1>. QED BY <1>1, <1>2, <1>3, <1>4, PTL DEF Spec

-----------------------------------------------------------------------------
(* The promise of Warehouse. *)

\* The status of an order that is whole, and of one without changes.
LEMMA StatusFacts ==
  ASSUME NEW o \in Orders, Whole(o)
  PROVE  /\ Reserved(o) # {} <=> Status(o) = "RESERVED"
         /\ rows[o] = [p \in Products |-> "none"] => Status(o) = "none"
BY DEF Status, Reserved

LEMMA StatusStays ==
  ASSUME NEW o \in Orders, rows'[o] = rows[o]
  PROVE  Status(o)' = Status(o)
BY DEF Status

\* A committed reservation reserves an order's lines, all of them.
LEMMA ReservesOrder ==
  ASSUME TypeOK, InventoryInvariant, NEW r \in Requests, ReserveStock(r)
  PROVE  \E o \in Orders : Promise!Reserve(o)
<1>. DEFINE o == Body[r].order
<1>1. /\ o \in Orders /\ Listed(o) \subseteq catalogue /\ Listed(o) # {}
      /\ Listed(o) \subseteq Products /\ Whole(o)
      /\ \A p \in Listed(o) : rows[o][p] = "none" /\ Demand[o][p] <= stock[p]
      /\ stock' = [p \in Products |-> stock[p] - Demand[o][p]]
      /\ rows' = [rows EXCEPT ![o] =
                    [p \in Products |-> IF p \in Listed(o) THEN "RESERVED" ELSE rows[o][p]]]
      /\ catalogue' = catalogue /\ adjustments' = adjustments
  BY BodyTypes, LinesTypes DEF ReserveStock, Constraints, InsertReservation, Ready,
     InventoryInvariant
<1>2. Status(o) = "none"
  BY <1>1, WholeFacts, StatusFacts
<1>3. \A p \in Products : Demand[o][p] > 0 => p \in catalogue /\ Demand[o][p] <= stock[p]
  BY <1>1, DemandOf
<1>4. Status(o)' = "RESERVED"
  BY <1>1 DEF Status, TypeOK
<1>5. \A x \in Orders \ {o} : Status(x)' = Status(x)
  BY <1>1, StatusStays DEF TypeOK
<1>6. [x \in Orders |-> Status(x)]' = [[x \in Orders |-> Status(x)] EXCEPT ![o] = "RESERVED"]
  BY <1>1, <1>4, <1>5
<1>7. UNCHANGED <<catalogue, [k \in Keys |-> adjustments[k] # Nobody]>>
  BY <1>1
<1>. QED BY <1>1, <1>2, <1>3, <1>6, <1>7 DEF Promise!Reserve

\* A committed release gives back what the order took.
LEMMA ReleasesOrder ==
  ASSUME TypeOK, InventoryInvariant, NEW r \in Requests, ReleaseStock(r)
  PROVE  \E o \in Orders : Promise!Release(o)
<1>. DEFINE o == Body[r].order
<1>1. /\ o \in Orders /\ Whole(o) /\ Reserved(o) # {}
      /\ stock' = Restored(o) /\ rows' = [rows EXCEPT ![o] = MarkReleased(o)]
      /\ catalogue' = catalogue /\ adjustments' = adjustments
  BY ReadyHolds, BodyTypes DEF ReleaseStock, Ready, InventoryInvariant
<1>2. Status(o) = "RESERVED" /\ Reserved(o) = Listed(o) /\ Listed(o) \subseteq Products
  BY <1>1, StatusFacts, WholeFacts, LinesTypes
<1>3. stock' = [p \in Products |-> stock[p] + Demand[o][p]]
  <2>1. \A p \in Products : p \notin Reserved(o) => stock[p] + Demand[o][p] = stock[p]
    BY <1>1, <1>2, DemandOf DEF TypeOK
  <2>. QED BY <1>1, <2>1 DEF Restored
<1>4. Status(o)' = "RELEASED"
  <2>1. rows'[o] = MarkReleased(o)
    BY <1>1 DEF TypeOK
  <2>2. \A p \in Products : rows'[o][p] # "RESERVED"
    BY <2>1 DEF MarkReleased, Reserved
  <2>3. \E p \in Products : rows'[o][p] = "RELEASED"
    BY <1>1, <2>1 DEF MarkReleased, Reserved
  <2>. QED BY <2>2, <2>3 DEF Status
<1>5. \A x \in Orders \ {o} : Status(x)' = Status(x)
  BY <1>1, StatusStays DEF TypeOK
<1>6. [x \in Orders |-> Status(x)]' = [[x \in Orders |-> Status(x)] EXCEPT ![o] = "RELEASED"]
  BY <1>1, <1>4, <1>5
<1>7. UNCHANGED <<catalogue, [k \in Keys |-> adjustments[k] # Nobody]>>
  BY <1>1
<1>. QED BY <1>1, <1>2, <1>3, <1>6, <1>7 DEF Promise!Release

\* A committed adjustment adds its quantity once for its key.
LEMMA AddsOnce ==
  ASSUME TypeOK, InventoryInvariant, NEW r \in Requests, AddStock(r)
  PROVE  \E p \in Products, quantity \in Amounts, k \in Keys : Promise!Add(k, p, quantity)
<1>. DEFINE p == Body[r].product  k == Body[r].key  quantity == Body[r].quantity
<1>1. Op(r) = "add" /\ p \in catalogue
  BY DEF AddStock, InventoryInvariant, HandlerKnows, At
<1>2. p \in Products /\ k \in Keys /\ quantity \in Amounts
  BY <1>1, BodyTypes DEF Amounts
<1>3. /\ adjustments[k] = Nobody /\ adjustments' = [adjustments EXCEPT ![k] = r]
      /\ stock' = [stock EXCEPT ![p] = stock[p] + quantity]
      /\ catalogue' = catalogue /\ rows' = rows
  BY DEF AddStock, KeyIsFree, NewStock
<1>4. [x \in Keys |-> adjustments[x] # Nobody]'
        = [[x \in Keys |-> adjustments[x] # Nobody] EXCEPT ![k] = TRUE]
  <2>1. r # Nobody
    BY InventoryAssumption
  <2>2. \A x \in Keys : adjustments'[x] = IF x = k THEN r ELSE adjustments[x]
    BY <1>2, <1>3 DEF TypeOK
  <2>3. \A x \in Keys : (adjustments'[x] # Nobody) = IF x = k THEN TRUE ELSE adjustments[x] # Nobody
    BY <2>1, <2>2
  <2>. QED BY <1>2, <2>3
<1>5. UNCHANGED <<catalogue, [x \in Orders |-> Status(x)]>>
  BY <1>3 DEF Status
<1>6. ~[x \in Keys |-> adjustments[x] # Nobody][k]
  BY <1>2, <1>3
<1>. QED BY <1>1, <1>2, <1>3, <1>4, <1>5, <1>6 DEF Promise!Add

LEMMA CreatesOnce ==
  ASSUME TypeOK, InventoryInvariant, NEW r \in Requests, InsertProduct(r)
  PROVE  \E p \in Products, quantity \in Amounts : Promise!Create(p, quantity)
<1>. DEFINE p == Body[r].product
<1>1. Op(r) = "create"
  BY DEF InsertProduct, InventoryInvariant, HandlerKnows, At
<1>2. p \in Products /\ Body[r].quantity \in Amounts
  BY <1>1, BodyTypes DEF Amounts
<1>3. UNCHANGED <<[x \in Orders |-> Status(x)], [x \in Keys |-> adjustments[x] # Nobody]>>
  BY DEF InsertProduct, Status
<1>. QED BY <1>2, <1>3 DEF InsertProduct, Promise!Create

\* The service implements Warehouse: what it commits, it commits as one step of
\* a reservation, a release, an adjustment or a creation, each made once.
THEOREM ImplementsWarehouse == Spec => KeepsStock
<1>. DEFINE reservation == [o \in Orders |-> Status(o)]
            used == [k \in Keys |-> adjustments[k] # Nobody]
<1>1. Init => Promise!Init
  <2>1. ASSUME Init PROVE Promise!Init
    <3>1. reservation = [o \in Orders |-> IF o \in Standing THEN "RESERVED" ELSE "none"]
      <4>1. \A o \in Orders : Listed(o) # {} /\ Listed(o) \subseteq Products
        BY LinesTypes
      <4>2. \A o \in Orders, p \in Products :
              rows[o][p] = IF o \in Standing /\ p \in Listed(o) THEN "RESERVED" ELSE "none"
        BY <2>1 DEF Init
      <4>3. \A o \in Orders : Status(o) = IF o \in Standing THEN "RESERVED" ELSE "none"
        BY <4>1, <4>2 DEF Status
      <4>. QED BY <4>3
    <3>2. used = [k \in Keys |-> FALSE]
      BY <2>1 DEF Init
    <3>. QED BY <2>1, <3>1, <3>2 DEF Init, Promise!Init
  <2>. QED BY <2>1
<1>2. ASSUME TypeOK, InventoryInvariant, [Next]_vars
      PROVE  [Promise!Next]_<<catalogue, stock, reservation, used>>
  <2>1. CASE UNCHANGED tables
    BY <2>1 DEF tables, Status
  <2>2. ASSUME NEW r \in Requests, Write(r) PROVE Promise!Next
    BY <1>2, <2>2, ReservesOrder, ReleasesOrder, AddsOnce, CreatesOnce DEF Write, Promise!Next
  <2>3. UNCHANGED tables \/ \E r \in Requests : Write(r)
    <3>1. CASE UNCHANGED vars
      BY <3>1 DEF vars
    <3>2. CASE Next
      BY <1>2, <3>2, Outcome, OtherSteps DEF Next
    <3>. QED BY <1>2, <3>1, <3>2
  <2>. QED BY <2>1, <2>2, <2>3
<1>3. TypeOK /\ InventoryInvariant /\ [Next]_vars
        => [Promise!Next]_<<catalogue, stock, reservation, used>>
  BY <1>2
<1>. QED BY <1>1, <1>3, InventoryCorrect, PTL DEF Spec, KeepsStock, Promise!Spec

-----------------------------------------------------------------------------
(* Waiting. *)

\* Whoever is waited for is at work: locks are freed by all that end.
LEMMA HoldersWork ==
  ASSUME InventoryInvariant, TypeOK, NEW r \in Requests, NEW q \in Requests, WaitsFor(r, q)
  PROVE  Working(q)
<1>1. PICK x \in Products \cup Orders : lock[x] = q
  <2>1. HandlerKnows(r)
    BY DEF InventoryInvariant
  <2>2. CASE At(r, "lock") /\ req[r].next # Nothing /\ lock[req[r].next] = q
    BY <2>2 DEF TypeOK, Handler
  <2>3. CASE At(r, "rows") /\ lock[Body[r].order] = q
    BY <2>1, <2>3, BodyTypes DEF HandlerKnows
  <2>4. CASE At(r, "update") /\ lock[Body[r].product] = q
    BY <2>1, <2>4, BodyTypes DEF HandlerKnows, At
  <2>. QED BY <2>2, <2>3, <2>4 DEF WaitsFor
<1>2. At(q, "lock")
  BY <1>1 DEF InventoryInvariant, HandlerKnows
<1>. QED BY <1>2 DEF Working, Statements, At

\* Finitely many that wait for each other have some among them that wait in a
\* circle: a smallest set of such.
LEMMA CircleOfWaiters ==
  ASSUME NEW D \in SUBSET Requests, IsFiniteSet(D), D # {},
         \A r \in D : \E q \in D : WaitsFor(r, q)
  PROVE  \E C \in SUBSET D : Deadlocked(C)
<1>. DEFINE Closed(C) == C # {} /\ \A r \in C : \E q \in C : WaitsFor(r, q)
            Sizes == {n \in Nat : \E C \in SUBSET D : Closed(C) /\ Cardinality(C) = n}
<1>1. \A C \in SUBSET D : IsFiniteSet(C) /\ Cardinality(C) \in Nat
  BY FS_Subset, FS_CardinalityType
<1>2. Sizes # {}
  BY <1>1
<1>3. \E n \in Sizes : \A m \in Sizes : ~(<<m, n>> \in OpToRel(<, Nat))
  BY <1>2, NatLessThanWellFounded, WFMin
<1>4. PICK n \in Sizes : \A m \in Sizes : ~(m < n)
  BY <1>3 DEF OpToRel
<1>5. PICK C \in SUBSET D : Closed(C) /\ Cardinality(C) = n
  BY <1>4
<1>6. ASSUME NEW r \in C, \A q \in C : ~WaitsFor(q, r) PROVE FALSE
  <2>1. Closed(C \ {r})
    BY <1>5, <1>6
  <2>2. Cardinality(C \ {r}) = Cardinality(C) - 1
    BY <1>1, <1>6, FS_RemoveElement
  <2>3. C \ {r} \in SUBSET D /\ Cardinality(C \ {r}) \in Sizes
    BY <1>1, <2>1
  <2>. HIDE DEF Sizes
  <2>. QED BY <1>1, <1>4, <1>5, <2>2, <2>3
<1>. QED BY <1>5, <1>6 DEF Deadlocked

\* The requests that were sent.
Sent == {q \in Requests : ~At(q, "unsent")}

\* They are finitely many.
LEMMA SentStep ==
  ASSUME TypeOK, InventoryInvariant, IsFiniteSet(Sent), [Next]_vars
  PROVE  IsFiniteSet(Sent')
<1>1. CASE UNCHANGED vars
  <2>1. Sent' = Sent
    BY <1>1 DEF vars, Sent, At
  <2>. QED BY <2>1
<1>2. CASE Next
  <2>1. PICK q \in Requests : Send(q) \/ Handle(q) \/ DatabaseFails(q) \/ HandlerStops(q)
    BY <1>2 DEF Next
  <2>2. \A r \in Requests \ {q} : req'[r] = req[r]
    BY <2>1, Outcome, OtherSteps
  <2>3. Sent' \subseteq Sent \cup {q}
    BY <2>2 DEF Sent, At
  <2>4. IsFiniteSet(Sent \cup {q})
    BY FS_AddElement
  <2>. QED BY <2>3, <2>4, FS_Subset
<1>. QED BY <1>1, <1>2

\* Waiting for each other, they are in a circle.
LEMMA WaitersGoOn ==
  ASSUME TypeOK, InventoryInvariant, IsFiniteSet(Sent)
  PROVE  NobodyIsStuck
<1>. SUFFICES ASSUME NEW D \in SUBSET {r \in Requests : Working(r)}, D # {},
                     \A r \in D : \E q \in Requests : WaitsFor(r, q),
                     \A r \in D, q \in Requests : WaitsFor(r, q) /\ Working(q) => q \in D
              PROVE  \E r \in D : InDeadlock(r)
  BY DEF NobodyIsStuck
<1>1. \A r \in D : \E q \in D : WaitsFor(r, q)
  BY HoldersWork
<1>2. D \subseteq Sent
  BY DEF Sent, Working, Statements, At
<1>3. IsFiniteSet(D)
  BY <1>2, FS_Subset
<1>4. PICK C \in SUBSET D : Deadlocked(C)
  BY <1>1, <1>3, CircleOfWaiters
<1>5. PICK r \in C : TRUE
  BY <1>4 DEF Deadlocked
<1>. QED BY <1>4, <1>5 DEF InDeadlock

\* Every wait for a lock leads to a handler that can go on or to a deadlock that
\* the database ends, for any number of requests under way.
THEOREM WaitsEnd == Spec => []NobodyIsStuck
<1>. DEFINE I == TypeOK /\ InventoryInvariant
            Few == IsFiniteSet(Sent)
<1>1. Init => Few
  <2>1. Init => Sent = {}
    BY DEF Init, Sent, At, Unsent
  <2>. QED BY <2>1, FS_EmptySet
<1>2. I /\ Few /\ [Next]_vars => Few'
  BY SentStep
<1>3. I /\ Few => NobodyIsStuck
  BY WaitersGoOn
<1>4. Spec => []I
  BY InventoryCorrect
<1>. HIDE DEF I, Few
<1>. QED BY <1>1, <1>2, <1>3, <1>4, PTL DEF Spec

=============================================================================
