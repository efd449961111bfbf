----------------------------- MODULE Warehouse -----------------------------
(***************************************************************************)
(* What the inventory service promises to those who call it: an order's    *)
(* reservation is made as a whole, only with stock for all of its lines,   *)
(* and at most once; what it took is given back as a whole, at most once;  *)
(* a key adds stock once; a product is created once; and nothing else      *)
(* changes the stock.                                                      *)
(***************************************************************************)
EXTENDS Naturals

CONSTANTS Products, Orders, Keys, Demand, Catalogue, Shelf, Standing, Amounts

VARIABLES catalogue, stock, reservation, used

Init ==
  /\ catalogue = Catalogue
  /\ stock = Shelf
  /\ reservation = [o \in Orders |-> IF o \in Standing THEN "RESERVED" ELSE "none"]
  /\ used = [k \in Keys |-> FALSE]

Reserve(o) ==
  /\ reservation[o] = "none"
  /\ \A p \in Products :
       Demand[o][p] > 0 => p \in catalogue /\ Demand[o][p] <= stock[p]
  /\ stock' = [p \in Products |-> stock[p] - Demand[o][p]]
  /\ reservation' = [reservation EXCEPT ![o] = "RESERVED"]
  /\ UNCHANGED <<catalogue, used>>

Release(o) ==
  /\ reservation[o] = "RESERVED"
  /\ stock' = [p \in Products |-> stock[p] + Demand[o][p]]
  /\ reservation' = [reservation EXCEPT ![o] = "RELEASED"]
  /\ UNCHANGED <<catalogue, used>>

Add(k, p, quantity) ==
  /\ ~used[k]
  /\ p \in catalogue
  /\ stock' = [stock EXCEPT ![p] = @ + quantity]
  /\ used' = [used EXCEPT ![k] = TRUE]
  /\ UNCHANGED <<catalogue, reservation>>

Create(p, quantity) ==
  /\ p \notin catalogue
  /\ catalogue' = catalogue \cup {p}
  /\ stock' = [stock EXCEPT ![p] = quantity]
  /\ UNCHANGED <<reservation, used>>

Next ==
  \/ \E o \in Orders : Reserve(o) \/ Release(o)
  \/ \E p \in Products, quantity \in Amounts :
       Create(p, quantity) \/ \E k \in Keys : Add(k, p, quantity)

Spec == Init /\ [][Next]_<<catalogue, stock, reservation, used>>

=============================================================================
