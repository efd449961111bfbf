------------------------- MODULE InventoryStockProofs -------------------------
(***************************************************************************)
(* Every unit of stock is accounted for, for any products, orders, keys    *)
(* and requests.  StockAccounted speaks of sums over sets, which Folds     *)
(* defines by a recursive function: first what such sums are, then the     *)
(* account of a product, which no step changes.                            *)
(***************************************************************************)
EXTENDS InventoryProofs

-----------------------------------------------------------------------------
(* Sums over finite sets.  Induction on the number of elements is by way of *)
(* the set of the numbers for which a statement holds.                     *)

\* A set of numbers with 0 and with the successor of each of its members.
LEMMA AllNumbers ==
  ASSUME NEW A \in SUBSET Nat, 0 \in A, \A n \in A : n + 1 \in A
  PROVE  \A n \in Nat : n \in A
<1>. SUFFICES ASSUME Nat \ A # {} PROVE FALSE
  OBVIOUS
<1>1. \E x \in Nat \ A : \A y \in Nat \ A : ~(<<y, x>> \in OpToRel(<, Nat))
  BY NatLessThanWellFounded, WFMin
<1>2. PICK x \in Nat \ A : \A y \in Nat \ A : ~(y < x)
  BY <1>1 DEF OpToRel
<1>3. x # 0 /\ x - 1 \in Nat /\ x - 1 < x
  BY <1>2
<1>4. x - 1 \in A
  BY <1>2, <1>3
<1>. QED BY <1>2, <1>3, <1>4

\* A set of subsets of S with {} and with each member enlarged by an element.
LEMMA AllSubsets ==
  ASSUME NEW S, IsFiniteSet(S), NEW P \in SUBSET SUBSET S, {} \in P,
         \A T \in P : \A x \in S \ T : T \cup {x} \in P
  PROVE  S \in P
<1>. DEFINE A == {n \in Nat : \A T \in SUBSET S : Cardinality(T) = n => T \in P}
<1>1. \A T \in SUBSET S : IsFiniteSet(T) /\ Cardinality(T) \in Nat
  BY FS_Subset, FS_CardinalityType
<1>2. 0 \in A
  BY <1>1, FS_EmptySet
<1>3. ASSUME NEW n \in A PROVE n + 1 \in A
  <2>. SUFFICES ASSUME NEW T \in SUBSET S, Cardinality(T) = n + 1 PROVE T \in P
    OBVIOUS
  <2>1. PICK x \in T : TRUE
    BY <1>1, FS_EmptySet
  <2>2. Cardinality(T \ {x}) = n
    BY <1>1, <2>1, FS_RemoveElement
  <2>3. T \ {x} \in P
    BY <1>3, <2>2
  <2>4. T = (T \ {x}) \cup {x}
    BY <2>1
  <2>. QED BY <2>1, <2>3, <2>4
<1>4. Cardinality(S) \in A
  <2>. HIDE DEF A
  <2>1. A \in SUBSET Nat
    BY DEF A
  <2>. QED BY <1>1, <1>2, <1>3, <2>1, AllNumbers
<1>. QED BY <1>4

\* The element of s that is added first.
One(s) == CHOOSE x \in s : TRUE

\* It leaves one element fewer.
LEMMA OneOf ==
  ASSUME NEW s, IsFiniteSet(s), s # {}
  PROVE  One(s) \in s /\ Cardinality(s \ {One(s)}) = Cardinality(s) - 1
<1>1. One(s) \in s
  BY DEF One
<1>2. PICK x \in s : x = One(s)
  BY <1>1
<1>. QED BY <1>2, FS_RemoveElement

\* The sums of F over the subsets of S, as MapThenSumSet computes them.
Sums(F, S, sum) ==
  sum = [s \in SUBSET S |-> IF s = {} THEN 0 ELSE F[One(s)] + sum[s \ {One(s)}]]

\* Such sums are there, and are numbers.
LEMMA SumsExist ==
  ASSUME NEW S, IsFiniteSet(S), NEW F, \A x \in S : F[x] \in Nat
  PROVE  \E sum \in [SUBSET S -> Nat] : Sums(F, S, sum)
<1>. DEFINE Value(sum, s) == IF s = {} THEN 0 ELSE F[One(s)] + sum[s \ {One(s)}]
            Upto(n, sum) ==
              \A s \in SUBSET S : Cardinality(s) <= n => sum[s] = Value(sum, s)
            A == {n \in Nat : \E sum \in [SUBSET S -> Nat] : Upto(n, sum)}
<1>1. \A s \in SUBSET S : IsFiniteSet(s) /\ Cardinality(s) \in Nat
  BY FS_Subset, FS_CardinalityType
<1>2. \A s \in SUBSET S : s # {} => One(s) \in s
  BY DEF One
<1>3. 0 \in A
  <2>. DEFINE zero == [s \in SUBSET S |-> 0]
  <2>1. \A s \in SUBSET S : Cardinality(s) <= 0 => s = {}
    BY <1>1, FS_EmptySet
  <2>2. zero \in [SUBSET S -> Nat] /\ Upto(0, zero)
    BY <2>1
  <2>. QED BY <2>2
<1>4. ASSUME NEW n \in A PROVE n + 1 \in A
  <2>1. PICK sum \in [SUBSET S -> Nat] : Upto(n, sum)
    BY <1>4
  <2>. DEFINE more == [s \in SUBSET S |-> Value(sum, s)]
  <2>2. more \in [SUBSET S -> Nat]
    BY <1>2
  <2>3. Upto(n + 1, more)
    <3>. SUFFICES ASSUME NEW s \in SUBSET S, Cardinality(s) <= n + 1, s # {}
                  PROVE  Value(more, s) = Value(sum, s)
      OBVIOUS
    <3>1. Cardinality(s \ {One(s)}) <= n
      <4>1. IsFiniteSet(s) /\ Cardinality(s) \in Nat /\ n \in Nat
        BY <1>1
      <4>2. Cardinality(s \ {One(s)}) = Cardinality(s) - 1
        BY <4>1, OneOf
      <4>. QED BY <4>1, <4>2
    <3>2. sum[s \ {One(s)}] = Value(sum, s \ {One(s)})
      BY <2>1, <3>1
    <3>3. more[s \ {One(s)}] = Value(sum, s \ {One(s)})
      OBVIOUS
    <3>. QED BY <3>2, <3>3
  <2>4. n + 1 \in Nat
    OBVIOUS
  <2>. HIDE DEF Upto, more
  <2>. QED BY <2>2, <2>3, <2>4
<1>5. Cardinality(S) \in A
  <2>. HIDE DEF A
  <2>1. A \in SUBSET Nat
    BY DEF A
  <2>. QED BY <1>1, <1>3, <1>4, <2>1, AllNumbers
<1>6. PICK sum \in [SUBSET S -> Nat] : Upto(Cardinality(S), sum)
  BY <1>5
<1>7. \A s \in SUBSET S : sum[s] = Value(sum, s)
  BY <1>1, <1>6, FS_Subset
<1>8. sum = [s \in SUBSET S |-> Value(sum, s)]
  BY <1>7
<1>. QED BY <1>8 DEF Sums

\* Sums depend on the values that are added and on nothing else.
LEMMA SumsAgree ==
  ASSUME NEW S, NEW F, NEW sum, Sums(F, S, sum),
         NEW R, NEW G, NEW other, Sums(G, R, other),
         NEW T \in SUBSET (S \cap R), IsFiniteSet(T), \A x \in T : F[x] = G[x]
  PROVE  sum[T] = other[T]
<1>. DEFINE A == {n \in Nat : \A s \in SUBSET T : Cardinality(s) = n => sum[s] = other[s]}
<1>1. \A s \in SUBSET T : IsFiniteSet(s) /\ Cardinality(s) \in Nat
  BY FS_Subset, FS_CardinalityType
<1>3. 0 \in A
  <2>1. \A s \in SUBSET T : Cardinality(s) = 0 => s = {}
    BY <1>1, FS_EmptySet
  <2>2. sum[{}] = 0 /\ other[{}] = 0
    BY DEF Sums
  <2>. QED BY <2>1, <2>2
<1>4. ASSUME NEW n \in A PROVE n + 1 \in A
  <2>. SUFFICES ASSUME NEW s \in SUBSET T, Cardinality(s) = n + 1 PROVE sum[s] = other[s]
    OBVIOUS
  <2>1. s # {}
    BY FS_EmptySet
  <2>2. One(s) \in s /\ Cardinality(s \ {One(s)}) = n
    <3>1. IsFiniteSet(s) /\ n \in Nat
      BY <1>1
    <3>. QED BY <2>1, <3>1, OneOf
  <2>3. sum[s \ {One(s)}] = other[s \ {One(s)}]
    BY <1>4, <2>2
  <2>4. s \in SUBSET S /\ s \in SUBSET R
    OBVIOUS
  <2>5. sum[s] = F[One(s)] + sum[s \ {One(s)}]
    BY <2>1, <2>4 DEF Sums
  <2>6. other[s] = G[One(s)] + other[s \ {One(s)}]
    BY <2>1, <2>4 DEF Sums
  <2>7. F[One(s)] = G[One(s)]
    BY <2>2
  <2>. QED BY <2>3, <2>5, <2>6, <2>7
<1>5. Cardinality(T) \in A
  <2>. HIDE DEF A
  <2>1. A \in SUBSET Nat
    BY DEF A
  <2>. QED BY <1>1, <1>3, <1>4, <2>1, AllNumbers
<1>. QED BY <1>5

\* In whatever order the elements are chosen, each adds its value.
Additive(F, S, sum) ==
  \A s \in SUBSET S : \A x \in S \ s : sum[s \cup {x}] = F[x] + sum[s]

LEMMA SumsAdd ==
  ASSUME NEW S, IsFiniteSet(S), NEW F, \A x \in S : F[x] \in Nat,
         NEW sum, sum \in [SUBSET S -> Nat], Sums(F, S, sum)
  PROVE  Additive(F, S, sum)
<1>. SUFFICES ASSUME NEW T \in SUBSET S, NEW a \in S \ T
              PROVE  sum[T \cup {a}] = F[a] + sum[T]
  BY DEF Additive
<1>. DEFINE Adds(s, x) == sum[s \cup {x}] = F[x] + sum[s]
            A == {n \in Nat : \A s \in SUBSET S : \A x \in S \ s :
                    Cardinality(s) = n => Adds(s, x)}
<1>1. \A s \in SUBSET S : IsFiniteSet(s) /\ Cardinality(s) \in Nat
  BY FS_Subset, FS_CardinalityType
<1>2. \A s \in SUBSET S : s # {} =>
         One(s) \in s /\ sum[s] = F[One(s)] + sum[s \ {One(s)}]
  BY DEF One, Sums
<1>3. 0 \in A
  <2>. SUFFICES ASSUME NEW s \in SUBSET S, NEW x \in S \ s, Cardinality(s) = 0
                PROVE  Adds(s, x)
    OBVIOUS
  <2>1. s = {}
    BY <1>1, FS_EmptySet
  <2>2. One({x}) = x /\ {x} \ {x} = {}
    BY DEF One
  <2>3. sum[{x}] = F[x] + sum[{}]
    BY <1>2, <2>2
  <2>. QED BY <2>1, <2>3
<1>4. ASSUME NEW n \in A PROVE n + 1 \in A
  <2>. SUFFICES ASSUME NEW s \in SUBSET S, NEW x \in S \ s, Cardinality(s) = n + 1
                PROVE  Adds(s, x)
    OBVIOUS
  <2>. DEFINE u == s \cup {x}
              c == One(u)
  <2>1. c \in u /\ sum[u] = F[c] + sum[u \ {c}]
    BY <1>2
  <2>2. CASE c = x
    <3>1. u \ {c} = s
      BY <2>2
    <3>. QED BY <2>1, <2>2, <3>1
  <2>3. CASE c # x
    <3>. DEFINE rest == s \ {c}
    <3>1. c \in s /\ Cardinality(rest) = n
      <4>1. c \in s
        BY <2>1, <2>3
      <4>. HIDE DEF c
      <4>. QED BY <1>1, <4>1, FS_RemoveElement
    <3>2. u \ {c} = rest \cup {x} /\ s = rest \cup {c} /\ x \notin rest /\ c \notin rest
      BY <2>3, <3>1
    <3>3. Adds(rest, x) /\ Adds(rest, c)
      BY <1>4, <3>1, <3>2
    <3>4. sum[rest] \in Nat /\ F[c] \in Nat /\ F[x] \in Nat
      BY <3>1
    <3>5. sum[rest \cup {x}] = F[x] + sum[rest] /\ sum[s] = F[c] + sum[rest]
      BY <3>2, <3>3
    <3>6. sum[u] = F[c] + (F[x] + sum[rest])
      BY <2>1, <3>2, <3>5
    <3>. HIDE DEF rest, c, u
    <3>7. sum[u] = F[x] + sum[s]
      BY <3>4, <3>5, <3>6
    <3>. QED BY <3>7 DEF u
  <2>. QED BY <2>2, <2>3
<1>5. Cardinality(T) \in A
  <2>. HIDE DEF A
  <2>1. A \in SUBSET Nat
    BY DEF A
  <2>. QED BY <1>1, <1>3, <1>4, <2>1, AllNumbers
<1>. QED BY <1>5

\* The sum of F over T.
Total(F, T) == (CHOOSE sum : Sums(F, T, sum))[T]

\* It is the one that any sums over a larger set give.
LEMMA TotalIsSum ==
  ASSUME NEW S, IsFiniteSet(S), NEW F, \A x \in S : F[x] \in Nat,
         NEW sum, Sums(F, S, sum), NEW T \in SUBSET S
  PROVE  Total(F, T) = sum[T]
<1>1. IsFiniteSet(T) /\ \A x \in T : F[x] \in Nat
  BY FS_Subset
<1>. DEFINE own == CHOOSE g : Sums(F, T, g)
<1>2. Sums(F, T, own)
  BY <1>1, SumsExist
<1>. HIDE DEF own
<1>3. own[T] = sum[T]
  BY <1>1, <1>2, SumsAgree
<1>. QED BY <1>3 DEF Total, own

\* It is a number.
LEMMA TotalType ==
  ASSUME NEW T, IsFiniteSet(T), NEW F, \A x \in T : F[x] \in Nat
  PROVE  Total(F, T) \in Nat
<1>1. PICK sum \in [SUBSET T -> Nat] : Sums(F, T, sum)
  BY SumsExist
<1>2. Total(F, T) = sum[T]
  BY <1>1, TotalIsSum
<1>. QED BY <1>1, <1>2

\* It is 0 if there is nothing to add.
LEMMA TotalOfNone ==
  ASSUME NEW F, NEW T, T = {}
  PROVE  Total(F, T) = 0
<1>1. IsFiniteSet(T) /\ \A x \in T : F[x] \in Nat
  BY FS_EmptySet
<1>2. PICK sum : Sums(F, T, sum)
  BY <1>1, SumsExist
<1>3. Total(F, T) = sum[T]
  BY <1>1, <1>2, TotalIsSum
<1>. QED BY <1>2, <1>3 DEF Sums

\* One more element adds its value.
LEMMA TotalAdds ==
  ASSUME NEW T, IsFiniteSet(T), NEW F, \A x \in T : F[x] \in Nat,
         NEW a, a \notin T, F[a] \in Nat
  PROVE  Total(F, T \cup {a}) = F[a] + Total(F, T)
<1>. DEFINE S == T \cup {a}
<1>1. IsFiniteSet(S) /\ \A x \in S : F[x] \in Nat
  BY FS_AddElement
<1>2. T \in SUBSET S /\ a \in S \ T /\ S \in SUBSET S
  OBVIOUS
<1>3. S = T \cup {a}
  OBVIOUS
<1>. HIDE DEF S
<1>4. PICK sum \in [SUBSET S -> Nat] : Sums(F, S, sum)
  BY <1>1, SumsExist
<1>5. Total(F, S) = sum[S] /\ Total(F, T) = sum[T]
  BY <1>1, <1>2, <1>4, TotalIsSum
<1>6. Additive(F, S, sum)
  BY <1>1, <1>4, SumsAdd
<1>7. sum[T \cup {a}] = F[a] + sum[T]
  BY <1>2, <1>6 DEF Additive
<1>. QED BY <1>3, <1>5, <1>7

\* It depends on the values of T only.
LEMMA TotalAgrees ==
  ASSUME NEW T, IsFiniteSet(T), NEW F, \A x \in T : F[x] \in Nat,
         NEW G, \A x \in T : F[x] = G[x]
  PROVE  Total(F, T) = Total(G, T)
<1>1. PICK sum : Sums(F, T, sum)
  BY SumsExist
<1>2. \A x \in T : G[x] \in Nat
  OBVIOUS
<1>3. PICK other : Sums(G, T, other)
  BY <1>2, SumsExist
<1>4. Total(F, T) = sum[T] /\ Total(G, T) = other[T]
  BY <1>1, <1>2, <1>3, TotalIsSum
<1>5. sum[T] = other[T]
  BY <1>1, <1>3, SumsAgree
<1>. QED BY <1>4, <1>5

\* Elements of no value do not count.
LEMMA TotalOfZeros ==
  ASSUME NEW S, IsFiniteSet(S), NEW F, \A x \in S : F[x] \in Nat,
         NEW T \in SUBSET S, \A x \in S \ T : F[x] = 0
  PROVE  Total(F, S) = Total(F, T)
<1>. DEFINE D == S \ T
            P == {Z \in SUBSET D : Total(F, T \cup Z) = Total(F, T)}
<1>1. {} \in P
  OBVIOUS
<1>2. ASSUME NEW Z \in P, NEW x \in D \ Z PROVE Z \cup {x} \in P
  <2>1. IsFiniteSet(T \cup Z) /\ \A y \in T \cup Z : F[y] \in Nat
    BY FS_Subset
  <2>2. x \notin T \cup Z /\ F[x] = 0
    OBVIOUS
  <2>3. Total(F, (T \cup Z) \cup {x}) = 0 + Total(F, T \cup Z)
    BY <2>1, <2>2, TotalAdds
  <2>4. Total(F, T \cup Z) \in Nat
    BY <2>1, TotalType
  <2>5. (T \cup Z) \cup {x} = T \cup (Z \cup {x}) /\ Total(F, T \cup Z) = Total(F, T)
    OBVIOUS
  <2>6. Total(F, T \cup (Z \cup {x})) = Total(F, T)
    <3>. HIDE DEF P, D
    <3>1. 0 + Total(F, T \cup Z) = Total(F, T \cup Z)
      BY <2>4
    <3>. QED BY <2>3, <2>5, <3>1, Zenon
  <2>7. Z \cup {x} \in SUBSET D
    OBVIOUS
  <2>. QED BY <2>6, <2>7
<1>3. IsFiniteSet(D)
  BY FS_Subset
<1>4. D \in P
  <2>1. P \in SUBSET SUBSET D
    OBVIOUS
  <2>. HIDE DEF P, D
  <2>. QED BY <1>1, <1>2, <1>3, <2>1, AllSubsets
<1>5. T \cup D = S
  OBVIOUS
<1>. QED BY <1>4, <1>5

-----------------------------------------------------------------------------
(* The sums that StockAccounted speaks of. *)

\* What each order takes of p, and what the row of each key added.
DemandFor(p) == [o \in Orders |-> Demand[o][p]]
Quantities == [k \in Keys |-> Body[adjustments[k]].quantity]

\* Who has reserved a product, and which keys have added to it.
Holders(p) == {o \in Orders : p \in Reserved(o)}
Uses(p) == {k \in Keys : adjustments[k] # Nobody /\ Body[adjustments[k]].product = p}

\* All sums are over finite sets.
LEMMA SubsetsAreFinite ==
  /\ \A T \in SUBSET Orders : IsFiniteSet(T)
  /\ \A T \in SUBSET Keys : IsFiniteSet(T)
BY InventoryAssumption, FS_Subset

\* The sums, as the properties write them, are totals.
DemandSum(p, T) == MapThenSumSet(LAMBDA o : Demand[o][p], T)

LEMMA DemandTotal ==
  ASSUME NEW p \in Products, NEW T \in SUBSET Orders
  PROVE  DemandSum(p, T) = Total(DemandFor(p), T) /\ Total(DemandFor(p), T) \in Nat
<1>. DEFINE F == DemandFor(p)
            Mapped(g) == g = [s \in SUBSET T |->
              IF s = {} THEN 0
              ELSE Demand[CHOOSE x \in s : TRUE][p] + g[s \ {CHOOSE x \in s : TRUE}]]
            sum == CHOOSE g : Mapped(g)
<1>1. DemandSum(p, T) = sum[T]
  BY Zenon DEF DemandSum, MapThenSumSet, MapThenFoldSet
<1>2. \A x \in T : F[x] \in Nat /\ F[x] = Demand[x][p]
  BY DemandOf DEF DemandFor
<1>3. \A g : Mapped(g) <=> Sums(F, T, g)
  <2>1. \A s \in SUBSET T : s # {} => F[One(s)] = Demand[One(s)][p]
    BY <1>2 DEF One
  <2>2. ASSUME NEW g
        PROVE  [s \in SUBSET T |->
                  IF s = {} THEN 0 ELSE Demand[One(s)][p] + g[s \ {One(s)}]]
               = [s \in SUBSET T |-> IF s = {} THEN 0 ELSE F[One(s)] + g[s \ {One(s)}]]
    BY <2>1
  <2>. QED BY <2>2 DEF Sums, One
<1>4. IsFiniteSet(T)
  BY SubsetsAreFinite
<1>. HIDE DEF F, Mapped
<1>5. Sums(F, T, sum)
  BY <1>2, <1>3, <1>4, SumsExist
<1>6. Total(F, T) = sum[T]
  <2>. HIDE DEF sum
  <2>. QED BY <1>2, <1>4, <1>5, TotalIsSum
<1>7. Total(F, T) \in Nat
  BY <1>2, <1>4, TotalType
<1>. QED BY <1>1, <1>6, <1>7 DEF F

QuantitySum(T) == MapThenSumSet(LAMBDA k : Body[adjustments[k]].quantity, T)

LEMMA QuantityTotal ==
  ASSUME NEW T \in SUBSET Keys, \A k \in T : Body[adjustments[k]].quantity \in Nat
  PROVE  QuantitySum(T) = Total(Quantities, T) /\ Total(Quantities, T) \in Nat
<1>. DEFINE F == Quantities
            Mapped(g) == g = [s \in SUBSET T |->
              IF s = {} THEN 0
              ELSE Body[adjustments[CHOOSE x \in s : TRUE]].quantity
                     + g[s \ {CHOOSE x \in s : TRUE}]]
            sum == CHOOSE g : Mapped(g)
<1>1. QuantitySum(T) = sum[T]
  BY Zenon DEF QuantitySum, MapThenSumSet, MapThenFoldSet
<1>2. \A x \in T : F[x] \in Nat /\ F[x] = Body[adjustments[x]].quantity
  BY DEF Quantities
<1>3. \A g : Mapped(g) <=> Sums(F, T, g)
  <2>1. \A s \in SUBSET T : s # {} => F[One(s)] = Body[adjustments[One(s)]].quantity
    BY <1>2 DEF One
  <2>2. ASSUME NEW g
        PROVE  [s \in SUBSET T |->
                  IF s = {} THEN 0
                  ELSE Body[adjustments[One(s)]].quantity + g[s \ {One(s)}]]
               = [s \in SUBSET T |-> IF s = {} THEN 0 ELSE F[One(s)] + g[s \ {One(s)}]]
    BY <2>1
  <2>. QED BY <2>2 DEF Sums, One
<1>4. IsFiniteSet(T)
  BY SubsetsAreFinite
<1>. HIDE DEF F, Mapped
<1>5. Sums(F, T, sum)
  BY <1>2, <1>3, <1>4, SumsExist
<1>6. Total(F, T) = sum[T]
  <2>. HIDE DEF sum
  <2>. QED BY <1>2, <1>4, <1>5, TotalIsSum
<1>7. Total(F, T) \in Nat
  BY <1>2, <1>4, TotalType
<1>. QED BY <1>1, <1>6, <1>7 DEF F

\* What a product has on the shelf and in reservations, but for what was added.
Account(p) == stock[p] + Total(DemandFor(p), Holders(p)) - Total(Quantities, Uses(p))

\* What is recorded is of products that are there.
RecordsAreKnown ==
  /\ Catalogue \subseteq catalogue
  /\ \A k \in Keys : adjustments[k] # Nobody =>
       /\ Op(adjustments[k]) = "add"
       /\ Body[adjustments[k]].product \in catalogue

\* What a recorded adjustment added is a number.
LEMMA Recorded ==
  ASSUME TypeOK, RecordsAreKnown, NEW k \in Keys, adjustments[k] # Nobody
  PROVE  Body[adjustments[k]].quantity \in Nat
<1>1. adjustments[k] \in Requests /\ Op(adjustments[k]) = "add"
  BY DEF TypeOK, RecordsAreKnown
<1>. QED BY <1>1, BodyTypes

\* The account is what StockAccounted looks at.
LEMMA AccountOf ==
  ASSUME TypeOK, RecordsAreKnown, NEW p \in Products
  PROVE  stock[p] + ReservedOf(p) - AddedTo(p) = Account(p)
<1>1. ReservedOf(p) = DemandSum(p, Holders(p))
  BY DEF ReservedOf, DemandSum, Holders
<1>2. AddedTo(p) = QuantitySum(Uses(p))
  BY DEF AddedTo, QuantitySum, Uses
<1>3. Holders(p) \in SUBSET Orders /\ Uses(p) \in SUBSET Keys
  BY DEF Holders, Uses
<1>4. \A k \in Uses(p) : Body[adjustments[k]].quantity \in Nat
  BY Recorded DEF Uses
<1>5. DemandSum(p, Holders(p)) = Total(DemandFor(p), Holders(p))
  BY <1>3, DemandTotal
<1>6. QuantitySum(Uses(p)) = Total(Quantities, Uses(p))
  BY <1>3, <1>4, QuantityTotal
<1>. QED BY <1>1, <1>2, <1>5, <1>6 DEF Account

\* The account of each product is what it started with.
Balanced == \A p \in catalogue : Account(p) \in Start(p)

\* One more reservation of p adds its demand.
LEMMA TotalDemand ==
  ASSUME NEW p \in Products, NEW T \in SUBSET Orders, NEW o \in Orders \ T
  PROVE  Total(DemandFor(p), T \cup {o}) = Demand[o][p] + Total(DemandFor(p), T)
<1>. DEFINE F == DemandFor(p)
<1>1. \A x \in Orders : F[x] \in Nat /\ F[x] = Demand[x][p]
  BY DemandOf DEF DemandFor
<1>2. IsFiniteSet(T) /\ o \notin T
  BY SubsetsAreFinite
<1>. HIDE DEF F
<1>3. Total(F, T \cup {o}) = F[o] + Total(F, T)
  BY <1>1, <1>2, TotalAdds
<1>. QED BY <1>1, <1>3 DEF F

\* At the beginning, standing reservations are what is reserved.
LEMMA BalancedInitially ==
  ASSUME Init
  PROVE  Balanced /\ RecordsAreKnown
<1>1. RecordsAreKnown
  BY DEF Init, RecordsAreKnown
<1>2. ASSUME NEW p \in catalogue PROVE Account(p) \in Start(p)
  <2>. DEFINE F == DemandFor(p)
  <2>1. p \in Products /\ p \in Catalogue /\ stock[p] = Shelf[p]
    BY InventoryAssumption DEF Init
  <2>2. Uses(p) = {}
    BY DEF Init, Uses
  <2>3. Total(Quantities, Uses(p)) = 0
    BY <2>2, TotalOfNone
  <2>4. Holders(p) = {o \in Standing : p \in Listed(o)} /\ Standing \in SUBSET Orders
    BY <2>1, InventoryAssumption DEF Init, Holders, Reserved
  <2>5. Total(F, Standing) = Total(F, Holders(p))
    <3>1. \A o \in Standing : F[o] \in Nat /\ (o \notin Holders(p) => F[o] = 0)
      BY <2>1, <2>4, DemandOf DEF DemandFor
    <3>2. IsFiniteSet(Standing) /\ Holders(p) \in SUBSET Standing
      BY <2>4, SubsetsAreFinite
    <3>. HIDE DEF F
    <3>. QED BY <3>1, <3>2, TotalOfZeros
  <2>6. DemandSum(p, Standing) = Total(F, Standing) /\ Total(F, Standing) \in Nat
    BY <2>1, <2>4, DemandTotal
  <2>7. Start(p) = {Shelf[p] + DemandSum(p, Standing)}
    BY <2>1 DEF Start, DemandSum
  <2>8. Shelf[p] \in Nat
    BY <2>1, InventoryAssumption
  <2>. HIDE DEF F
  <2>9. Account(p) = Shelf[p] + Total(F, Standing)
    BY <2>1, <2>3, <2>5, <2>6, <2>8 DEF Account, F
  <2>. QED BY <2>6, <2>7, <2>9
<1>. QED BY <1>1, <1>2 DEF Balanced

\* What is taken from the shelf is reserved.
LEMMA ReserveBalances ==
  ASSUME TypeOK, InventoryInvariant, NEW r \in Requests, ReserveStock(r), NEW p \in Products,
         Total(Quantities, Uses(p)) \in Nat
  PROVE  Account(p)' = Account(p)
<1>. DEFINE o == Body[r].order
<1>1. /\ o \in Orders /\ Whole(o) /\ Listed(o) \subseteq Products
      /\ \A q \in Listed(o) : rows[o][q] = "none" /\ Demand[o][q] <= stock[q]
      /\ stock' = [q \in Products |-> stock[q] - Demand[o][q]]
      /\ rows' = [rows EXCEPT ![o] =
                    [q \in Products |-> IF q \in Listed(o) THEN "RESERVED" ELSE rows[o][q]]]
      /\ adjustments' = adjustments
  BY BodyTypes, LinesTypes DEF ReserveStock, Constraints, InsertReservation, Ready,
     InventoryInvariant
<1>2. Total(Quantities, Uses(p))' = Total(Quantities, Uses(p))
  BY <1>1 DEF Quantities, Uses
<1>3. stock[p] \in Nat /\ Demand[o][p] \in Nat /\ stock'[p] = stock[p] - Demand[o][p]
  BY <1>1, DemandOf DEF TypeOK
<1>4. Holders(p) \in SUBSET Orders /\ Total(DemandFor(p), Holders(p)) \in Nat
  BY DemandTotal DEF Holders
<1>5. CASE p \in Listed(o)
  <2>1. o \notin Holders(p) /\ Holders(p)' = Holders(p) \cup {o}
    BY <1>1, <1>5 DEF Holders, Reserved, TypeOK
  <2>2. Total(DemandFor(p), Holders(p))' = Demand[o][p] + Total(DemandFor(p), Holders(p))
    BY <1>1, <1>4, <2>1, TotalDemand
  <2>3. Demand[o][p] <= stock[p]
    BY <1>1, <1>5
  <2>. QED BY <1>2, <1>3, <1>4, <2>2, <2>3 DEF Account
<1>6. CASE p \notin Listed(o)
  <2>1. Holders(p)' = Holders(p)
    BY <1>1, <1>6 DEF Holders, Reserved, TypeOK
  <2>2. Total(DemandFor(p), Holders(p))' = Total(DemandFor(p), Holders(p))
    BY <2>1
  <2>3. stock'[p] = stock[p]
    BY <1>1, <1>3, <1>6, DemandOf
  <2>. QED BY <1>2, <2>2, <2>3 DEF Account
<1>. QED BY <1>5, <1>6

\* What is given back to the shelf is reserved no longer.
LEMMA ReleaseBalances ==
  ASSUME TypeOK, InventoryInvariant, NEW r \in Requests, ReleaseStock(r), NEW p \in Products,
         Total(Quantities, Uses(p)) \in Nat
  PROVE  Account(p)' = Account(p)
<1>. DEFINE o == Body[r].order
<1>1. /\ o \in Orders
      /\ stock' = Restored(o) /\ rows' = [rows EXCEPT ![o] = MarkReleased(o)]
      /\ adjustments' = adjustments
  BY BodyTypes DEF ReleaseStock, Ready
<1>2. Total(Quantities, Uses(p))' = Total(Quantities, Uses(p))
  BY <1>1 DEF Quantities, Uses
<1>3. stock[p] \in Nat /\ Demand[o][p] \in Nat
  BY <1>1, DemandOf DEF TypeOK
<1>4. Holders(p)' \in SUBSET Orders /\ Total(DemandFor(p), Holders(p)') \in Nat
  BY DemandTotal DEF Holders
<1>5. CASE p \in Reserved(o)
  <2>1. o \notin Holders(p)' /\ Holders(p) = Holders(p)' \cup {o}
    BY <1>1, <1>5 DEF Holders, Reserved, MarkReleased, TypeOK
  <2>2. Total(DemandFor(p), Holders(p)) = Demand[o][p] + Total(DemandFor(p), Holders(p)')
    BY <1>1, <1>4, <2>1, TotalDemand
  <2>3. stock'[p] = stock[p] + Demand[o][p]
    BY <1>1, <1>5 DEF Restored
  <2>. QED BY <1>2, <1>3, <1>4, <2>2, <2>3 DEF Account
<1>6. CASE p \notin Reserved(o)
  <2>1. Holders(p)' = Holders(p)
    BY <1>1, <1>6 DEF Holders, Reserved, MarkReleased, TypeOK
  <2>2. Total(DemandFor(p), Holders(p))' = Total(DemandFor(p), Holders(p))
    BY <2>1
  <2>3. stock'[p] = stock[p]
    BY <1>1, <1>6 DEF Restored
  <2>. QED BY <1>2, <2>2, <2>3 DEF Account
<1>. QED BY <1>5, <1>6

\* An adjustment that is recorded is one that was made.
LEMMA AddBalances ==
  ASSUME TypeOK, InventoryInvariant, RecordsAreKnown, NEW r \in Requests, AddStock(r),
         NEW p \in Products
  PROVE  Account(p)' = Account(p)
<1>. DEFINE key == Body[r].key  n == Body[r].product
            F == Quantities  G == Quantities'  T == Uses(p)
<1>1. /\ Op(r) = "add" /\ r # Nobody
      /\ key \in Keys /\ n \in Products /\ Body[r].quantity \in Nat
  BY BodyTypes, InventoryAssumption DEF AddStock, InventoryInvariant, HandlerKnows, At
<1>2. /\ adjustments[key] = Nobody /\ adjustments' = [adjustments EXCEPT ![key] = r]
      /\ stock' = [stock EXCEPT ![n] = stock[n] + Body[r].quantity]
      /\ rows' = rows
  BY DEF AddStock, KeyIsFree, NewStock
<1>3. Total(DemandFor(p), Holders(p))' = Total(DemandFor(p), Holders(p))
  BY <1>2 DEF Holders, Reserved
<1>4. Holders(p) \in SUBSET Orders /\ Total(DemandFor(p), Holders(p)) \in Nat
  BY DemandTotal DEF Holders
<1>5. stock[p] \in Nat
  BY DEF TypeOK
<1>6. \A k \in Keys : adjustments'[k] = IF k = key THEN r ELSE adjustments[k]
  BY <1>1, <1>2 DEF TypeOK
<1>7. T \in SUBSET Keys /\ key \notin T /\ IsFiniteSet(T)
  BY <1>2, SubsetsAreFinite DEF Uses
<1>8. \A k \in T : F[k] \in Nat /\ F[k] = G[k]
  BY <1>2, <1>6, <1>7, Recorded DEF Quantities, Uses
<1>9. G[key] = Body[r].quantity
  BY <1>1, <1>6 DEF Quantities
<1>10. Uses(p)' = IF p = n THEN T \cup {key} ELSE T
  <2>1. \A k \in Keys : k \in Uses(p)' <=>
          adjustments'[k] # Nobody /\ Body[adjustments'[k]].product = p
    BY DEF Uses
  <2>2. \A k \in Keys : k \in T <=> adjustments[k] # Nobody /\ Body[adjustments[k]].product = p
    BY DEF Uses
  <2>3. Uses(p)' \subseteq Keys
    BY DEF Uses
  <2>4. \A k \in Keys : k \in Uses(p)' <=> IF k = key THEN p = n ELSE k \in T
    BY <1>1, <1>6, <2>1, <2>2
  <2>. HIDE DEF T, key, n
  <2>5. CASE p = n
    BY <1>1, <1>7, <2>3, <2>4, <2>5
  <2>6. CASE p # n
    BY <1>1, <1>7, <2>3, <2>4, <2>6
  <2>. QED BY <2>5, <2>6
<1>. HIDE DEF F, G, T
<1>11. Total(F, T) \in Nat /\ Total(F, T) = Total(G, T)
  BY <1>7, <1>8, TotalType, TotalAgrees
<1>12. Total(G, T \cup {key}) = G[key] + Total(G, T)
  <2>1. (\A k \in T : G[k] \in Nat) /\ G[key] \in Nat
    BY <1>1, <1>8, <1>9
  <2>. QED BY <1>7, <2>1, TotalAdds
<1>13. Account(p) = stock[p] + Total(DemandFor(p), Holders(p)) - Total(F, T)
  BY DEF Account, F, T
<1>14. Account(p)' = stock'[p] + Total(DemandFor(p), Holders(p)) - Total(G, Uses(p)')
  BY <1>3 DEF Account, G
<1>15. CASE p = n
  <2>1. stock'[p] = stock[p] + Body[r].quantity
    BY <1>2, <1>15 DEF TypeOK
  <2>2. Total(G, Uses(p)') = Body[r].quantity + Total(F, T)
    BY <1>9, <1>10, <1>11, <1>12, <1>15
  <2>. QED BY <1>1, <1>4, <1>5, <1>11, <1>13, <1>14, <2>1, <2>2
<1>16. CASE p # n
  <2>1. stock'[p] = stock[p]
    BY <1>2, <1>16 DEF TypeOK
  <2>2. Total(G, Uses(p)') = Total(F, T)
    BY <1>10, <1>11, <1>16
  <2>. QED BY <1>13, <1>14, <2>1, <2>2
<1>. QED BY <1>15, <1>16

\* A product that is created starts with what it is created with: it was in no
\* reservation and no adjustment.
LEMMA CreateBalances ==
  ASSUME TypeOK, InventoryInvariant, RecordsAreKnown, NEW r \in Requests, InsertProduct(r),
         NEW p \in Products
  PROVE  /\ p # Body[r].product => Account(p)' = Account(p)
         /\ p = Body[r].product => Account(p)' \in Start(p)
<1>1. Op(r) = "create" /\ Body[r].quantity \in Nat
  BY BodyTypes DEF InsertProduct, InventoryInvariant, HandlerKnows, At
<1>2. /\ Body[r].product \notin catalogue
      /\ stock' = [stock EXCEPT ![Body[r].product] = Body[r].quantity]
      /\ rows' = rows /\ adjustments' = adjustments
  BY DEF InsertProduct
<1>3. Holders(p)' = Holders(p) /\ Uses(p)' = Uses(p) /\ Quantities' = Quantities
  BY <1>2 DEF Holders, Uses, Quantities, Reserved
<1>4. Account(p)' = stock'[p] + Total(DemandFor(p), Holders(p)) - Total(Quantities, Uses(p))
  BY <1>3 DEF Account
<1>5. ASSUME p # Body[r].product PROVE Account(p)' = Account(p)
  <2>1. stock'[p] = stock[p]
    BY <1>2, <1>5 DEF TypeOK
  <2>. QED BY <1>4, <2>1 DEF Account
<1>6. ASSUME p = Body[r].product PROVE Account(p)' \in Start(p)
  <2>1. Holders(p) = {}
    <3>1. ASSUME NEW o \in Orders, p \in Reserved(o) PROVE FALSE
      <4>1. Whole(o)
        BY DEF InventoryInvariant
      <4>2. Reserved(o) \subseteq catalogue
        BY <3>1, <4>1, WholeFacts
      <4>. QED BY <1>2, <1>6, <3>1, <4>2
    <3>. QED BY <3>1 DEF Holders
  <2>2. Uses(p) = {}
    BY <1>2, <1>6 DEF Uses, RecordsAreKnown
  <2>3. Total(DemandFor(p), Holders(p)) = 0 /\ Total(Quantities, Uses(p)) = 0
    BY <2>1, <2>2, TotalOfNone
  <2>4. Account(p)' = Body[r].quantity
    BY <1>1, <1>2, <1>4, <1>6, <2>3 DEF TypeOK
  <2>5. p \notin Catalogue
    BY <1>2, <1>6 DEF RecordsAreKnown
  <2>. QED BY <1>1, <1>6, <2>4, <2>5 DEF Start
<1>. QED BY <1>5, <1>6

\* No commit changes an account.
LEMMA WriteBalances ==
  ASSUME TypeOK, InventoryInvariant, RecordsAreKnown, Balanced,
         NEW r \in Requests, Write(r)
  PROVE  RecordsAreKnown' /\ Balanced'
<1>1. ASSUME NEW p \in Products
      PROVE  Total(Quantities, Uses(p)) \in Nat
  <2>1. Uses(p) \in SUBSET Keys /\ \A k \in Uses(p) : Body[adjustments[k]].quantity \in Nat
    BY Recorded DEF Uses
  <2>. QED BY <2>1, QuantityTotal
<1>2. \A p : Start(p)' = Start(p)
  OBVIOUS
<1>3. CASE ReserveStock(r) \/ ReleaseStock(r)
  <2>1. catalogue' = catalogue /\ adjustments' = adjustments
    BY <1>3 DEF ReserveStock, InsertReservation, ReleaseStock
  <2>2. \A p \in Products : Account(p)' = Account(p)
    BY <1>1, <1>3, ReserveBalances, ReleaseBalances
  <2>. QED BY <1>2, <2>1, <2>2 DEF RecordsAreKnown, Balanced, TypeOK, Op
<1>4. CASE AddStock(r)
  <2>1. catalogue' = catalogue /\ adjustments' = [adjustments EXCEPT ![Body[r].key] = r]
    BY <1>4 DEF AddStock
  <2>2. \A p \in Products : Account(p)' = Account(p)
    BY <1>4, AddBalances
  <2>3. Op(r) = "add" /\ Body[r].product \in catalogue
    BY <1>4 DEF AddStock, InventoryInvariant, HandlerKnows, At
  <2>4. RecordsAreKnown'
    BY <2>1, <2>3 DEF RecordsAreKnown, TypeOK, Op
  <2>. QED BY <1>2, <2>1, <2>2, <2>4 DEF Balanced, TypeOK
<1>5. CASE InsertProduct(r)
  <2>1. catalogue' = catalogue \cup {Body[r].product} /\ adjustments' = adjustments
    BY <1>5 DEF InsertProduct
  <2>2. Body[r].product \in Products
    BY <1>5, BodyTypes DEF InsertProduct, InventoryInvariant, HandlerKnows, At
  <2>3. RecordsAreKnown'
    BY <2>1 DEF RecordsAreKnown, Op
  <2>4. \A p \in catalogue' : Account(p)' \in Start(p)
    BY <1>5, <2>1, <2>2, CreateBalances DEF Balanced, TypeOK
  <2>. QED BY <1>2, <2>3, <2>4 DEF Balanced
<1>. QED BY <1>3, <1>4, <1>5 DEF Write

\* No step does.
LEMMA BalanceStep ==
  ASSUME TypeOK, InventoryInvariant, RecordsAreKnown, Balanced, [Next]_vars
  PROVE  RecordsAreKnown' /\ Balanced'
<1>1. CASE UNCHANGED tables
  <2>1. \A p : Account(p)' = Account(p)
    BY <1>1 DEF tables, Account, Holders, Uses, Quantities, Reserved
  <2>2. \A p : Start(p)' = Start(p)
    OBVIOUS
  <2>. QED BY <1>1, <2>1, <2>2 DEF tables, RecordsAreKnown, Balanced, Op
<1>2. CASE \E r \in Requests : Write(r)
  BY <1>2, WriteBalances
<1>3. UNCHANGED tables \/ \E r \in Requests : Write(r)
  <2>1. CASE UNCHANGED vars
    BY <2>1 DEF vars
  <2>2. CASE Next
    BY <2>2, Outcome, OtherSteps DEF Next
  <2>. QED BY <2>1, <2>2
<1>. QED BY <1>1, <1>2, <1>3

\* However reservations, releases, adjustments, creations and failures
\* interleave, no unit of stock is lost and none is made up.
THEOREM UnitsAreAccounted == Spec => []StockAccounted
<1>. DEFINE I == TypeOK /\ InventoryInvariant
            J == RecordsAreKnown /\ Balanced
<1>1. Init => J
  BY BalancedInitially
<1>2. I /\ J /\ [Next]_vars => J'
  BY BalanceStep
<1>3. Spec => []I
  BY InventoryCorrect
<1>4. I /\ J => StockAccounted
  <2>. SUFFICES ASSUME I, J, NEW p \in catalogue
                PROVE  stock[p] + ReservedOf(p) - AddedTo(p) \in Start(p)
    BY DEF StockAccounted
  <2>1. p \in Products
    BY DEF TypeOK
  <2>. QED BY <2>1, AccountOf DEF Balanced
<1>. HIDE DEF I, J
<1>. QED BY <1>1, <1>2, <1>3, <1>4, PTL DEF Spec

=============================================================================
