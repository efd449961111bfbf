----------------------------- MODULE MCInventory -----------------------------
(***************************************************************************)
(* The inventory for TLC: two orders that contend for two products, the    *)
(* second with its reservation made, an order that names a product twice,  *)
(* one with a product that does not exist; repeated reservations and       *)
(* releases; an adjustment, its repeat, and another one that uses its key; *)
(* and two creations of a product.                                         *)
(***************************************************************************)
EXTENDS InventoryProperties, TLC

CONSTANTS o1, o2, o3, o4, k1, k2,
          reserve1, retry1, reserve2, reserve3, reserve4, release1, release2, again2,
          add1, readd1, add2, add3, create1, create2

MCProducts == 1..4
MCOrders == {o1, o2, o3, o4}
MCKeys == {k1, k2}
MCCatalogue == {1, 2}
MCShelf == <<0, 2, 0, 0>>

Line(no, p, quantity) == [no |-> no, product |-> p, quantity |-> quantity]
MCLines == [o \in MCOrders |->
  CASE o = o1 -> {Line(1, 2, 2), Line(2, 1, 1)}
    [] o = o2 -> {Line(1, 1, 1), Line(2, 2, 1)}
    [] o = o3 -> {Line(1, 2, 1), Line(2, 2, 1)}
    [] o = o4 -> {Line(1, 2, 1), Line(2, 4, 1)}]

ForOrder(op, o) == [op |-> op, order |-> o]
Add(k, p, quantity) == [op |-> "add", key |-> k, product |-> p, quantity |-> quantity]

MCBody ==
  (reserve1 :> ForOrder("reserve", o1)) @@ (retry1 :> ForOrder("reserve", o1))
  @@ (reserve2 :> ForOrder("reserve", o2)) @@ (reserve3 :> ForOrder("reserve", o3))
  @@ (reserve4 :> ForOrder("reserve", o4))
  @@ (release1 :> ForOrder("release", o1)) @@ (again2 :> ForOrder("release", o2))
  @@ (release2 :> ForOrder("release", o2))
  @@ (add1 :> Add(k1, 1, 1)) @@ (readd1 :> Add(k1, 1, 1))
  @@ (add2 :> Add(k1, 2, 1)) @@ (add3 :> Add(k2, 4, 1))
  @@ (create1 :> [op |-> "create", product |-> 3, quantity |-> 1])
  @@ (create2 :> [op |-> "create", product |-> 3, quantity |-> 2])

MCRequests == DOMAIN MCBody

=============================================================================
