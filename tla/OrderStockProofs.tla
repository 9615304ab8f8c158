-------------------------- MODULE OrderStockProofs --------------------------
(***************************************************************************)
(* Theorems about OrderStock for every set of orders and variants, every   *)
(* line quantity and every stock level.                                    *)
(***************************************************************************)
EXTENDS OrderStock, FiniteSetTheorems, TLAPS

(***************************************************************************)
(* Counting units.  UnitsIn is Units over an explicit table of lines, so   *)
(* that the lemmas apply to the lines before and after a step.             *)
(***************************************************************************)

UnitsIn(table, v, S) ==
  {u \in S \X (1 .. MaxQuantity) : u[2] <= table[u[1]][v]}

Tables == [Orders -> [Variants -> Quantities]]

\* Finitely many orders hold finitely many units.
LEMMA UnitsFinite ==
  ASSUME NEW table \in Tables, NEW v \in Variants, NEW S \in SUBSET Orders
  PROVE  /\ IsFiniteSet(UnitsIn(table, v, S))
         /\ Cardinality(UnitsIn(table, v, S)) \in Nat
<1>1. IsFiniteSet(S)
  BY OrdersFinite, FS_Subset
<1>2. IsFiniteSet(1 .. MaxQuantity)
  BY QuantityBound, FS_Interval
<1>3. IsFiniteSet(S \X (1 .. MaxQuantity))
  BY <1>1, <1>2, FS_Product
<1>4. UnitsIn(table, v, S) \in SUBSET (S \X (1 .. MaxQuantity))
  BY DEF UnitsIn
<1>. QED
  BY <1>3, <1>4, FS_Subset, FS_CardinalityType

\* More orders hold no fewer units.
LEMMA UnitsMonotone ==
  ASSUME NEW table \in Tables, NEW v \in Variants,
         NEW S \in SUBSET Orders, NEW T \in SUBSET S
  PROVE  Cardinality(UnitsIn(table, v, T)) <= Cardinality(UnitsIn(table, v, S))
<1>1. UnitsIn(table, v, T) \in SUBSET UnitsIn(table, v, S)
  BY DEF UnitsIn
<1>. QED
  BY <1>1, UnitsFinite, FS_Subset

\* Setting some orders of S aside takes exactly their units away.
LEMMA UnitsDifference ==
  ASSUME NEW table \in Tables, NEW v \in Variants,
         NEW S \in SUBSET Orders, NEW T \in SUBSET Orders
  PROVE  Cardinality(UnitsIn(table, v, S \ T))
           = Cardinality(UnitsIn(table, v, S))
               - Cardinality(UnitsIn(table, v, S \cap T))
<1>1. UnitsIn(table, v, S \ T)
        = UnitsIn(table, v, S) \ UnitsIn(table, v, T)
  BY DEF UnitsIn
<1>2. UnitsIn(table, v, S) \cap UnitsIn(table, v, T)
        = UnitsIn(table, v, S \cap T)
  BY DEF UnitsIn
<1>. QED
  BY <1>1, <1>2, UnitsFinite, FS_Difference

\* One order holds as many units as its line asks for.
LEMMA UnitsOfOne ==
  ASSUME NEW table \in Tables, NEW v \in Variants, NEW o \in Orders
  PROVE  Cardinality(UnitsIn(table, v, {o})) = table[o][v]
<1>. DEFINE n == table[o][v]
            f == [i \in 1 .. n |-> <<o, i>>]
<1>1. n \in Nat /\ n <= MaxQuantity
  BY QuantityBound DEF Tables, Quantities
<1>2. IsFiniteSet(1 .. n) /\ Cardinality(1 .. n) = n
  <2>. HIDE DEF n
  <2>1. 1 \in Int /\ n \in Int
    BY <1>1
  <2>2. /\ IsFiniteSet(1 .. n)
        /\ Cardinality(1 .. n) = IF 1 > n THEN 0 ELSE n - 1 + 1
    BY <2>1, FS_Interval
  <2>. QED
    BY <1>1, <2>2
<1>3. f \in Bijection(1 .. n, UnitsIn(table, v, {o}))
  <2>1. f \in [1 .. n -> UnitsIn(table, v, {o})]
    BY <1>1, QuantityBound DEF UnitsIn
  <2>2. \A i, j \in 1 .. n : f[i] = f[j] => i = j
    OBVIOUS
  <2>3. \A u \in UnitsIn(table, v, {o}) : \E i \in 1 .. n : f[i] = u
    <3>. SUFFICES ASSUME NEW u \in UnitsIn(table, v, {o})
                  PROVE  \E i \in 1 .. n : f[i] = u
      OBVIOUS
    <3>1. u \in {o} \X (1 .. MaxQuantity) /\ u[2] <= table[u[1]][v]
      BY DEF UnitsIn
    <3>2. u = <<o, u[2]>> /\ u[2] \in 1 .. n
      BY <3>1, <1>1, QuantityBound
    <3>. QED
      BY <3>2
  <2>. QED
    BY <2>1, <2>2, <2>3 DEF Bijection, Injection, Surjection, IsInjective
<1>4. ExistsBijection(1 .. n, UnitsIn(table, v, {o}))
  BY <1>3 DEF ExistsBijection
<1>. QED
  BY <1>2, <1>4, FS_Bijection

\* An order that leaves S takes what its line asks for.
LEMMA UnitsWithout ==
  ASSUME NEW table \in Tables, NEW v \in Variants,
         NEW S \in SUBSET Orders, NEW o \in S
  PROVE  Cardinality(UnitsIn(table, v, S \ {o}))
           = Cardinality(UnitsIn(table, v, S)) - table[o][v]
<1>1. {o} \in SUBSET Orders /\ S \cap {o} = {o}
  OBVIOUS
<1>2. Cardinality(UnitsIn(table, v, S \ {o}))
        = Cardinality(UnitsIn(table, v, S))
            - Cardinality(UnitsIn(table, v, S \cap {o}))
  BY <1>1, UnitsDifference
<1>3. Cardinality(UnitsIn(table, v, {o})) = table[o][v]
  BY UnitsOfOne
<1>. QED
  BY <1>1, <1>2, <1>3

\* Units reads the lines of the moment.
LEMMA UnitsNow ==
  \A v, S : /\ Units(v, S) = UnitsIn(lines, v, S)
            /\ Units(v, S)' = UnitsIn(lines', v', S')
BY DEF Units, UnitsIn

(***************************************************************************)
(* The inductive invariant.  ReservationExact speaks of freed orders, so   *)
(* it needs to know that among the orders awaiting payment the freed ones  *)
(* are the cancelled ones.                                                 *)
(***************************************************************************)

\* The columns of one order row agree with each other.
RowsAgree ==
  \A o \in Orders : status[o] = "absent" <=> payment[o] = "absent"

\* An order awaits payment and is cancelled just when CancelOrder freed it.
FreedAgrees ==
  \A o \in Orders :
    /\ payment[o] \in Awaiting => (status[o] = "cancelled" <=> o \in freed)
    /\ o \in freed => payment[o] # "absent"

IInv ==
  /\ TypeOK
  /\ RowsAgree
  /\ FreedAgrees
  /\ StockWithinBounds
  /\ NoPhantomReservation
  /\ ReservationExact
  /\ ChargeNeverAhead

THEOREM InitIInv == Init => IInv
<1>. SUFFICES ASSUME Init PROVE IInv
  OBVIOUS
<1>0. \A v \in Variants : stock[v] \in 0 .. IntMax /\ reserved[v] = 0
  BY ColumnWidth DEF Init
<1>1. TypeOK
  <2>1. stock \in [Variants -> 0 .. IntMax]
    BY <1>0 DEF Init
  <2>2. lines \in [Orders -> [Variants -> Quantities]]
    BY QuantityBound DEF Init, Quantities
  <2>. QED
    BY <2>1, <2>2, ColumnWidth DEF Init, TypeOK, Statuses, Payments
<1>2. RowsAgree /\ FreedAgrees /\ ChargeNeverAhead
  BY DEF Init, RowsAgree, FreedAgrees, ChargeNeverAhead, Awaiting
<1>3. StockWithinBounds
  BY <1>0, ColumnWidth DEF StockWithinBounds
<1>4. Holding = {}
  BY DEF Init, Holding, Awaiting
<1>5. \A v : Cardinality(Units(v, Holding)) = 0
  <2>1. \A v : Units(v, Holding) = {}
    BY <1>4 DEF Units
  <2>. QED
    BY <2>1, FS_EmptySet
<1>6. NoPhantomReservation /\ ReservationExact
  BY <1>5 DEF Init, NoPhantomReservation, ReservationExact, ReleasedOnce
<1>. QED
  BY <1>1, <1>2, <1>3, <1>6 DEF IInv

(***************************************************************************)
(* Consecution, one lemma per action that moves reservations.              *)
(***************************************************************************)

\* Placing an order reserves its units for it and for it alone.
LEMMA CreateOrderKeeps ==
  ASSUME IInv, NEW o \in Orders, NEW cart \in [Variants -> Quantities],
         CreateOrder(o, cart)
  PROVE  IInv'
<1>. USE DEF IInv
<1>1. \A v \in Variants : /\ cart[v] \in Nat
                          /\ stock[v] \in Nat /\ reserved[v] \in Nat
                          /\ stock[v] <= IntMax
                          /\ reserved[v] + cart[v] <= stock[v]
  BY QuantityBound, ColumnWidth
  DEF CreateOrder, Reserve, TypeOK, StockWithinBounds, Quantities
<1>2. payment[o] = "absent" /\ o \notin freed /\ o \notin Holding
  BY DEF CreateOrder, Reserve, RowsAgree, FreedAgrees, Holding, Awaiting
<1>3. TypeOK'
  BY <1>1, ColumnWidth DEF CreateOrder, Reserve, TypeOK, Statuses, Payments
<1>4. RowsAgree' /\ FreedAgrees' /\ ChargeNeverAhead'
  BY <1>2
  DEF CreateOrder, Reserve, TypeOK, RowsAgree, FreedAgrees, ChargeNeverAhead, Awaiting
<1>5. StockWithinBounds'
  BY <1>1 DEF CreateOrder, Reserve, StockWithinBounds
<1>6. Holding' = Holding \cup {o}
  BY DEF CreateOrder, Reserve, TypeOK, Holding, Awaiting
<1>7. ASSUME NEW v \in Variants
      PROVE  Cardinality(Units(v, Holding)')
               = Cardinality(Units(v, Holding)) + cart[v]
  <2>1. lines \in Tables /\ lines' \in Tables /\ lines'[o][v] = cart[v]
    BY <1>3 DEF CreateOrder, Reserve, TypeOK, Tables
  <2>2. UnitsIn(lines', v, Holding) = UnitsIn(lines, v, Holding)
    BY <1>2 DEF CreateOrder, Reserve, TypeOK, UnitsIn, Holding
  <2>3. Holding' \ {o} = Holding /\ o \in Holding'
    BY <1>2, <1>6
  <2>4. Holding \in SUBSET Orders /\ Holding' \in SUBSET Orders
    BY <1>6 DEF Holding
  <2>5. Cardinality(UnitsIn(lines', v, Holding' \ {o}))
          = Cardinality(UnitsIn(lines', v, Holding')) - lines'[o][v]
    BY <2>1, <2>3, <2>4, UnitsWithout
  <2>6. Cardinality(UnitsIn(lines', v, Holding')) \in Nat
    BY <2>1, <2>4, UnitsFinite
  <2>7. Cardinality(UnitsIn(lines, v, Holding))
          = Cardinality(UnitsIn(lines', v, Holding')) - cart[v]
    BY <2>1, <2>2, <2>3, <2>5
  <2>8. Cardinality(UnitsIn(lines', v, Holding'))
          = Cardinality(UnitsIn(lines, v, Holding)) + cart[v]
    BY <1>1, <2>6, <2>7
  <2>. QED
    BY <2>8, UnitsNow
<1>8. \A v \in Variants : Cardinality(Units(v, Holding)) \in Nat
  BY UnitsFinite, UnitsNow DEF TypeOK, Tables, Holding
<1>9. NoPhantomReservation'
  BY <1>1, <1>7, <1>8 DEF CreateOrder, Reserve, NoPhantomReservation
<1>10. ReservationExact'
  BY <1>1, <1>2, <1>7, <1>8
  DEF CreateOrder, Reserve, TypeOK, ReservationExact, ReleasedOnce, Awaiting
<1>. QED
  BY <1>3, <1>4, <1>5, <1>9, <1>10

\* Cancelling an unpaid order gives back what it held.
LEMMA CancelOrderKeeps ==
  ASSUME IInv, NEW o \in Orders, CancelOrder(o)
  PROVE  IInv'
<1>. USE DEF IInv
<1>1. \A v \in Variants : /\ lines[o][v] \in Nat
                          /\ stock[v] \in Nat /\ reserved[v] \in Nat
                          /\ stock[v] <= IntMax
                          /\ Cardinality(Units(v, Holding)) \in Nat
  BY QuantityBound, ColumnWidth, UnitsFinite, UnitsNow
  DEF TypeOK, Tables, Quantities, Holding
<1>2. status[o] # "cancelled" /\ payment[o] # "absent"
  BY DEF CancelOrder, CanTransitionTo, RowsAgree
<1>3. CASE payment[o] \notin Awaiting
  <2>1. UNCHANGED <<reserved, freed, stock, payment, lines, referenced, age,
                    charge>>
    BY <1>3 DEF CancelOrder
  <2>2. TypeOK' /\ RowsAgree' /\ FreedAgrees' /\ ChargeNeverAhead'
    BY <1>2, <1>3, <2>1
    DEF CancelOrder, CanTransitionTo, TypeOK, RowsAgree, FreedAgrees,
        ChargeNeverAhead, Statuses
  <2>3. Holding' = Holding
    BY <1>3, <2>1 DEF CancelOrder, TypeOK, Holding
  <2>4. StockWithinBounds' /\ NoPhantomReservation' /\ ReservationExact'
    BY <2>1, <2>3
    DEF StockWithinBounds, NoPhantomReservation, ReservationExact,
        ReleasedOnce, Units
  <2>. QED
    BY <2>2, <2>4
<1>4. CASE payment[o] \in Awaiting
  <2>1. UNCHANGED <<stock, payment, lines, referenced, age, charge>>
    BY DEF CancelOrder
  <2>2. Holding' = Holding \ {o} /\ o \in Holding
    BY <1>2, <1>4, <2>1 DEF CancelOrder, TypeOK, Holding
  <2>3. ASSUME NEW v \in Variants
        PROVE  /\ Cardinality(Units(v, Holding)')
                    = Cardinality(Units(v, Holding)) - lines[o][v]
               /\ reserved'[v] = AtLeastZero(reserved[v] - lines[o][v])
    <3>1. lines \in Tables /\ Holding \in SUBSET Orders
      BY DEF TypeOK, Tables, Holding
    <3>2. Cardinality(UnitsIn(lines, v, Holding \ {o}))
            = Cardinality(UnitsIn(lines, v, Holding)) - lines[o][v]
      BY <2>2, <3>1, UnitsWithout
    <3>3. Units(v, Holding)' = UnitsIn(lines, v, Holding \ {o})
      BY <2>1, <2>2, UnitsNow
    <3>4. Cardinality(Units(v, {o})) = lines[o][v]
      BY <3>1, UnitsOfOne, UnitsNow
    <3>5. reserved'[v] = AtLeastZero(reserved[v] - Cardinality(Units(v, {o})))
      BY <1>4 DEF CancelOrder, ReleaseItems
    <3>. QED
      BY <3>2, <3>3, <3>4, <3>5, UnitsNow
  <2>4. \A v \in Variants : reserved'[v] \in Nat /\ reserved'[v] <= reserved[v]
    BY <1>1, <2>3 DEF AtLeastZero
  <2>5. TypeOK'
    <3>1. reserved' \in [Variants -> 0 .. IntMax]
      <4>1. \A v \in Variants : reserved'[v] \in 0 .. IntMax
        BY <1>1, <2>4, ColumnWidth DEF TypeOK
      <4>. QED
        BY <1>4, <4>1 DEF CancelOrder, ReleaseItems
    <3>2. status' \in [Orders -> Statuses] /\ freed' \subseteq Orders
      BY <1>4 DEF CancelOrder, TypeOK, Statuses
    <3>. QED
      BY <2>1, <3>1, <3>2 DEF TypeOK
  <2>6. RowsAgree' /\ FreedAgrees' /\ ChargeNeverAhead'
    BY <1>2, <1>4, <2>1
    DEF CancelOrder, CanTransitionTo, TypeOK, RowsAgree, FreedAgrees,
        ChargeNeverAhead
  <2>7. StockWithinBounds'
    BY <1>1, <2>1, <2>4 DEF StockWithinBounds
  <2>8. \A v \in Variants : Cardinality(Units(v, Holding)') \in Nat
    <3>1. lines' \in Tables /\ Holding' \in SUBSET Orders
      BY <2>2, <2>5 DEF TypeOK, Tables, Holding
    <3>. QED
      BY <3>1, UnitsFinite, UnitsNow
  <2>9. NoPhantomReservation'
    BY <1>1, <2>3, <2>8 DEF NoPhantomReservation, AtLeastZero
  <2>10. ReservationExact'
    <3>. SUFFICES ASSUME NEW v \in Variants,
                         \A p \in freed' :
                           lines'[p][v] > 0 => payment'[p] \in Awaiting
                  PROVE  reserved'[v] = Cardinality(Units(v, Holding)')
      BY DEF ReservationExact, ReleasedOnce
    <3>1. \A p \in freed : lines[p][v] > 0 => payment[p] \in Awaiting
      BY <1>4, <2>1 DEF CancelOrder
    <3>2. reserved[v] = Cardinality(Units(v, Holding))
      BY <3>1 DEF ReservationExact, ReleasedOnce
    <3>. QED
      BY <1>1, <2>3, <2>8, <3>2 DEF AtLeastZero
  <2>. QED
    BY <2>5, <2>6, <2>7, <2>9, <2>10
<1>. QED
  BY <1>3, <1>4

\* Paying an order takes its units from the shelf and from the reservation,
\* even when a cancellation had released them before.
LEMMA ConfirmOrderPaymentKeeps ==
  ASSUME IInv, NEW o \in Orders, ConfirmOrderPayment(o)
  PROVE  IInv'
<1>. USE DEF IInv
<1>1. \A v \in Variants : /\ lines[o][v] \in Nat
                          /\ stock[v] \in Nat /\ reserved[v] \in Nat
                          /\ stock[v] <= IntMax /\ reserved[v] <= stock[v]
                          /\ lines[o][v] <= stock[v]
                          /\ Cardinality(Units(v, Holding)) \in Nat
  BY QuantityBound, ColumnWidth, UnitsFinite, UnitsNow
  DEF ConfirmOrderPayment, Claim, StockWithinBounds, TypeOK, Tables, Quantities, Holding
<1>2. /\ payment[o] \in Awaiting /\ UNCHANGED <<lines, referenced, freed>>
      /\ \A v \in Variants :
           /\ stock'[v] = stock[v] - lines[o][v]
           /\ reserved'[v] = AtLeastZero(reserved[v] - lines[o][v])
  BY DEF ConfirmOrderPayment, Claim
<1>3. \A v \in Variants : /\ stock'[v] \in 0 .. IntMax
                          /\ reserved'[v] \in 0 .. IntMax
                          /\ reserved'[v] <= stock'[v]
  BY <1>1, <1>2, ColumnWidth DEF AtLeastZero
<1>4. TypeOK'
  <2>1. stock' \in [Variants -> 0 .. IntMax] /\ reserved' \in [Variants -> 0 .. IntMax]
    BY <1>3 DEF ConfirmOrderPayment, Claim
  <2>2. status' \in [Orders -> Statuses] /\ payment' \in [Orders -> Payments]
    BY DEF ConfirmOrderPayment, Claim, TypeOK, Statuses, Payments
  <2>3. /\ age' \in [Orders -> 0 .. 2]
        /\ charge' \in [Orders -> {"none", "pending", "paid", "refunded"}]
    BY DEF ConfirmOrderPayment, Claim, TypeOK
  <2>. QED
    BY <1>2, <2>1, <2>2, <2>3 DEF TypeOK
<1>5. RowsAgree' /\ FreedAgrees'
  BY <1>2
  DEF ConfirmOrderPayment, Claim, TypeOK, RowsAgree, FreedAgrees, Awaiting
<1>6. ChargeNeverAhead'
  BY DEF ConfirmOrderPayment, Claim, TypeOK, ChargeNeverAhead, Awaiting
<1>7. StockWithinBounds'
  BY <1>3 DEF StockWithinBounds
<1>8. Holding' = Holding \ {o}
  BY DEF ConfirmOrderPayment, Claim, TypeOK, Holding, Awaiting
<1>9. \A v \in Variants : Cardinality(Units(v, Holding)') \in Nat
  <2>1. lines' \in Tables /\ Holding' \in SUBSET Orders
    BY <1>4, <1>8 DEF TypeOK, Tables, Holding
  <2>. QED
    BY <2>1, UnitsFinite, UnitsNow
<1>10. ASSUME NEW v \in Variants
       PROVE  Cardinality(Units(v, Holding)')
                = Cardinality(Units(v, Holding))
                    - (IF o \in Holding THEN lines[o][v] ELSE 0)
  <2>1. Units(v, Holding)' = UnitsIn(lines, v, Holding \ {o})
    BY <1>2, <1>8, UnitsNow
  <2>2. lines \in Tables /\ Holding \in SUBSET Orders
    BY DEF TypeOK, Tables, Holding
  <2>3. CASE o \in Holding
    BY <2>1, <2>2, <2>3, UnitsWithout, UnitsNow
  <2>4. CASE o \notin Holding
    <3>1. Holding \ {o} = Holding
      BY <2>4
    <3>. QED
      BY <1>1, <2>1, <2>4, <3>1, UnitsNow
  <2>. QED
    BY <2>3, <2>4
<1>11. NoPhantomReservation'
  BY <1>1, <1>2, <1>9, <1>10 DEF NoPhantomReservation, AtLeastZero
<1>12. ReservationExact'
  <2>. SUFFICES ASSUME NEW v \in Variants,
                       \A p \in freed' :
                         lines'[p][v] > 0 => payment'[p] \in Awaiting
                PROVE  reserved'[v] = Cardinality(Units(v, Holding)')
    BY DEF ReservationExact, ReleasedOnce
  <2>1. payment'[o] = "paid"
    BY DEF ConfirmOrderPayment, Claim, TypeOK
  <2>2. o \in freed => lines[o][v] = 0
    BY <1>1, <1>2, <2>1 DEF Awaiting
  <2>3. \A p \in freed : lines[p][v] > 0 => payment[p] \in Awaiting
    BY <1>2, <2>2 DEF ConfirmOrderPayment, Claim, TypeOK
  <2>4. reserved[v] = Cardinality(Units(v, Holding))
    BY <2>3 DEF ReservationExact, ReleasedOnce
  <2>5. o \notin Holding => lines[o][v] = 0
    BY <1>2, <2>2 DEF Holding, FreedAgrees
  <2>. QED
    BY <1>1, <1>2, <1>9, <1>10, <2>4, <2>5 DEF AtLeastZero
<1>. QED
  BY <1>4, <1>5, <1>6, <1>7, <1>11, <1>12

\* A cleanup pass releases what its batch holds, and no more than that even
\* when it releases a cancelled order a second time.
LEMMA ExpireOrdersKeeps ==
  ASSUME IInv, NEW pass \in Awaiting, ExpireOrders(pass)
  PROVE  IInv'
<1>. USE DEF IInv
<1>1. PICK batch \in SUBSET Expirable(pass) :
        /\ status' = [o \in Orders |-> IF o \in batch THEN "cancelled"
                                                      ELSE status[o]]
        /\ payment' = [o \in Orders |-> IF o \in batch THEN "failed"
                                                       ELSE payment[o]]
        /\ ReleaseItems(batch)
        /\ age' = [o \in Orders |-> IF o \in batch THEN 0 ELSE age[o]]
        /\ UNCHANGED <<stock, lines, referenced, charge, freed>>
  BY DEF ExpireOrders
<1>2. batch \in SUBSET Orders /\ \A o \in batch : payment[o] \in Awaiting
  BY DEF Expirable
<1>3. lines \in Tables /\ Holding \in SUBSET Orders
  BY DEF TypeOK, Tables, Holding
<1>4. \A v \in Variants : /\ stock[v] \in Nat /\ reserved[v] \in Nat
                          /\ stock[v] <= IntMax /\ reserved[v] <= stock[v]
                          /\ Cardinality(Units(v, Holding)) \in Nat
                          /\ Cardinality(Units(v, batch)) \in Nat
  BY <1>2, <1>3, ColumnWidth, UnitsFinite, UnitsNow
  DEF StockWithinBounds, TypeOK
<1>5. \A v \in Variants :
        reserved'[v] = AtLeastZero(reserved[v] - Cardinality(Units(v, batch)))
  BY <1>1 DEF ReleaseItems
<1>6. \A v \in Variants : reserved'[v] \in 0 .. IntMax /\ reserved'[v] <= stock[v]
  BY <1>4, <1>5, ColumnWidth DEF AtLeastZero
<1>7. TypeOK'
  <2>1. reserved' \in [Variants -> 0 .. IntMax]
    BY <1>1, <1>6 DEF ReleaseItems
  <2>2. status' \in [Orders -> Statuses] /\ payment' \in [Orders -> Payments]
    BY <1>1 DEF TypeOK, Statuses, Payments
  <2>3. age' \in [Orders -> 0 .. 2]
    BY <1>1 DEF TypeOK
  <2>. QED
    BY <1>1, <2>1, <2>2, <2>3 DEF TypeOK
<1>8. RowsAgree' /\ FreedAgrees' /\ ChargeNeverAhead'
  BY <1>1, <1>2
  DEF TypeOK, RowsAgree, FreedAgrees, ChargeNeverAhead, Awaiting
<1>9. StockWithinBounds'
  BY <1>1, <1>6 DEF StockWithinBounds
<1>10. Holding' = Holding \ batch
  BY <1>1, <1>2 DEF Holding, Awaiting
<1>11. ASSUME NEW v \in Variants
       PROVE  /\ Cardinality(Units(v, Holding)') \in Nat
              /\ Cardinality(Units(v, Holding)')
                   = Cardinality(Units(v, Holding))
                       - Cardinality(Units(v, Holding \cap batch))
              /\ Cardinality(Units(v, Holding \cap batch)) \in Nat
              /\ Cardinality(Units(v, Holding \cap batch))
                   <= Cardinality(Units(v, batch))
  <2>1. Units(v, Holding)' = UnitsIn(lines, v, Holding \ batch)
    BY <1>1, <1>10, UnitsNow
  <2>2. Cardinality(UnitsIn(lines, v, Holding \ batch))
          = Cardinality(UnitsIn(lines, v, Holding))
              - Cardinality(UnitsIn(lines, v, Holding \cap batch))
    <3>1. batch \in SUBSET Orders
      BY <1>2
    <3>2. \A S, T \in SUBSET Orders :
            Cardinality(UnitsIn(lines, v, S \ T))
              = Cardinality(UnitsIn(lines, v, S))
                  - Cardinality(UnitsIn(lines, v, S \cap T))
      BY <1>3, UnitsDifference, Zenon
    <3>. QED
      BY <1>3, <3>1, <3>2, Zenon
  <2>3. /\ Cardinality(UnitsIn(lines, v, Holding \ batch)) \in Nat
        /\ Cardinality(UnitsIn(lines, v, Holding \cap batch)) \in Nat
    BY <1>2, <1>3, UnitsFinite
  <2>4. Cardinality(UnitsIn(lines, v, Holding \cap batch))
          <= Cardinality(UnitsIn(lines, v, batch))
    BY <1>2, <1>3, UnitsMonotone
  <2>. QED
    BY <2>1, <2>2, <2>3, <2>4, UnitsNow
<1>12. NoPhantomReservation'
  BY <1>4, <1>5, <1>11 DEF NoPhantomReservation, AtLeastZero
<1>13. ReservationExact'
  <2>. SUFFICES ASSUME NEW v \in Variants,
                       \A p \in freed' :
                         lines'[p][v] > 0 => payment'[p] \in Awaiting
                PROVE  reserved'[v] = Cardinality(Units(v, Holding)')
    BY DEF ReservationExact, ReleasedOnce
  <2>1. \A p \in freed : lines[p][v] > 0 => p \notin batch
    BY <1>1, <1>2 DEF Awaiting
  <2>2. \A p \in freed : lines[p][v] > 0 => payment[p] \in Awaiting
    BY <1>1, <2>1 DEF TypeOK
  <2>3. reserved[v] = Cardinality(Units(v, Holding))
    BY <2>2 DEF ReservationExact, ReleasedOnce
  <2>4. Units(v, batch) = Units(v, Holding \cap batch)
    <3>1. ASSUME NEW o \in batch, NEW i \in 1 .. MaxQuantity, i <= lines[o][v]
          PROVE  o \in Holding
      <4>1. lines[o][v] > 0
        BY <1>2, <1>3, <3>1, QuantityBound DEF Tables, Quantities
      <4>. QED
        BY <1>2, <2>1, <4>1 DEF FreedAgrees, Holding
    <3>. QED
      BY <3>1 DEF Units
  <2>. QED
    BY <1>4, <1>5, <1>11, <2>3, <2>4 DEF AtLeastZero
<1>. QED
  BY <1>7, <1>8, <1>9, <1>12, <1>13

\* A step that moves no reservation, no line and no order in or out of the
\* orders awaiting payment disturbs neither statement about reservations.
LEMMA HoldsUntouched ==
  ASSUME IInv, UNCHANGED <<reserved, lines, freed, status>>,
         \A o \in Orders : payment'[o] \in Awaiting <=> payment[o] \in Awaiting
  PROVE  NoPhantomReservation' /\ ReservationExact'
<1>1. Holding' = Holding
  BY DEF Holding
<1>2. \A v \in Variants : Units(v, Holding)' = Units(v, Holding)
  BY <1>1 DEF Units
<1>3. freed \subseteq Orders
  BY DEF IInv, TypeOK
<1>. QED
  BY <1>2, <1>3 DEF IInv, NoPhantomReservation, ReservationExact, ReleasedOnce

\* What every step keeps.
THEOREM NextIInv == IInv /\ [Next]_vars => IInv'
<1>. SUFFICES ASSUME IInv, [Next]_vars PROVE IInv'
  OBVIOUS
<1>1. ASSUME NEW o \in Orders, NEW cart \in [Variants -> Quantities],
             CreateOrder(o, cart)
      PROVE  IInv'
  BY <1>1, CreateOrderKeeps
<1>2. ASSUME NEW o \in Orders, CreateMainCharge(o)
      PROVE  IInv'
  <2>1. TypeOK' /\ RowsAgree' /\ FreedAgrees' /\ ChargeNeverAhead'
    BY <1>2
    DEF CreateMainCharge, IInv, TypeOK, RowsAgree, FreedAgrees,
        ChargeNeverAhead
  <2>2. StockWithinBounds'
    BY <1>2 DEF CreateMainCharge, IInv, StockWithinBounds
  <2>3. NoPhantomReservation' /\ ReservationExact'
    BY <1>2, HoldsUntouched DEF CreateMainCharge
  <2>. QED
    BY <2>1, <2>2, <2>3 DEF IInv
<1>3. ASSUME NEW o \in Orders, CancelOrder(o)
      PROVE  IInv'
  BY <1>3, CancelOrderKeeps
<1>4. ASSUME NEW o \in Orders, MarkPendingPayment(o)
      PROVE  IInv'
  <2>1. TypeOK'
    BY <1>4 DEF MarkPendingPayment, IInv, TypeOK, Payments
  <2>2. RowsAgree' /\ FreedAgrees' /\ ChargeNeverAhead'
    BY <1>4
    DEF MarkPendingPayment, IInv, TypeOK, RowsAgree, FreedAgrees,
        ChargeNeverAhead, Awaiting
  <2>3. StockWithinBounds'
    BY <1>4 DEF MarkPendingPayment, IInv, StockWithinBounds
  <2>4. NoPhantomReservation' /\ ReservationExact'
    <3>1. \A p \in Orders :
            payment'[p] \in Awaiting <=> payment[p] \in Awaiting
      BY <1>4 DEF MarkPendingPayment, IInv, TypeOK, Awaiting
    <3>. QED
      BY <1>4, <3>1, HoldsUntouched DEF MarkPendingPayment
  <2>. QED
    BY <2>1, <2>2, <2>3, <2>4 DEF IInv
<1>5. ASSUME NEW o \in Orders, ConfirmOrderPayment(o)
      PROVE  IInv'
  BY <1>5, ConfirmOrderPaymentKeeps
<1>6. ASSUME NEW pass \in Awaiting, ExpireOrders(pass)
      PROVE  IInv'
  BY <1>6, ExpireOrdersKeeps
<1>7. ASSUME NEW o \in Orders, NEW outcome \in {"refunded", "partially_refunded"},
             NEW back \in [Variants -> Quantities], RefundOrder(o, outcome, back)
      PROVE  IInv'
  <2>1. \A v \in Variants : /\ stock'[v] \in 0 .. IntMax
                            /\ stock[v] <= stock'[v]
                            /\ stock[v] \in Nat /\ reserved[v] \in Nat
                            /\ stock'[v] \in Nat
    <3>1. \A v \in Variants : back[v] \in Nat
      BY QuantityBound DEF Quantities
    <3>2. \A v \in Variants : stock[v] \in Nat /\ reserved[v] \in Nat
      BY ColumnWidth DEF IInv, TypeOK
    <3>. QED
      BY <1>7, <3>1, <3>2, ColumnWidth DEF RefundOrder, Restock
  <2>2. TypeOK'
    <3>1. stock' \in [Variants -> 0 .. IntMax]
      BY <1>7, <2>1 DEF RefundOrder, Restock
    <3>2. payment' \in [Orders -> Payments]
      BY <1>7 DEF RefundOrder, Restock, IInv, TypeOK, Payments
    <3>3. charge' \in [Orders -> {"none", "pending", "paid", "refunded"}]
      BY <1>7 DEF RefundOrder, Restock, IInv, TypeOK
    <3>. QED
      BY <1>7, <3>1, <3>2, <3>3 DEF RefundOrder, Restock, IInv, TypeOK
  <2>3. RowsAgree' /\ FreedAgrees' /\ ChargeNeverAhead'
    BY <1>7
    DEF RefundOrder, Restock, IInv, TypeOK, RowsAgree, FreedAgrees, ChargeNeverAhead,
        Awaiting
  <2>4. StockWithinBounds'
    BY <1>7, <2>1 DEF RefundOrder, Restock, IInv, StockWithinBounds
  <2>5. NoPhantomReservation' /\ ReservationExact'
    <3>1. \A p \in Orders :
            payment'[p] \in Awaiting <=> payment[p] \in Awaiting
      BY <1>7 DEF RefundOrder, Restock, IInv, TypeOK, Awaiting
    <3>. QED
      BY <1>7, <3>1, HoldsUntouched DEF RefundOrder, Restock
  <2>. QED
    BY <2>2, <2>3, <2>4, <2>5 DEF IInv
<1>8. ASSUME NEW v \in Variants, NEW level \in StockLevels, SetStock(v, level)
      PROVE  IInv'
  <2>1. TypeOK'
    BY <1>8, ColumnWidth DEF SetStock, IInv, TypeOK
  <2>2. RowsAgree' /\ FreedAgrees' /\ ChargeNeverAhead'
    BY <1>8 DEF SetStock, IInv, RowsAgree, FreedAgrees, ChargeNeverAhead
  <2>3. StockWithinBounds'
    BY <1>8 DEF SetStock, IInv, TypeOK, StockWithinBounds
  <2>4. NoPhantomReservation' /\ ReservationExact'
    BY <1>8, HoldsUntouched DEF SetStock
  <2>. QED
    BY <2>1, <2>2, <2>3, <2>4 DEF IInv
<1>9. ASSUME NEW o \in Orders, GrowOld(o)
      PROVE  IInv'
  <2>1. TypeOK'
    BY <1>9 DEF GrowOld, IInv, TypeOK
  <2>2. RowsAgree' /\ FreedAgrees' /\ ChargeNeverAhead' /\ StockWithinBounds'
    BY <1>9
    DEF GrowOld, IInv, RowsAgree, FreedAgrees, ChargeNeverAhead,
        StockWithinBounds
  <2>3. NoPhantomReservation' /\ ReservationExact'
    BY <1>9, HoldsUntouched DEF GrowOld
  <2>. QED
    BY <2>1, <2>2, <2>3 DEF IInv
<1>10. CASE UNCHANGED vars
  <2>1. /\ TypeOK' /\ RowsAgree' /\ FreedAgrees' /\ ChargeNeverAhead'
        /\ StockWithinBounds'
    BY <1>10
    DEF vars, IInv, TypeOK, RowsAgree, FreedAgrees, ChargeNeverAhead,
        StockWithinBounds
  <2>2. NoPhantomReservation' /\ ReservationExact'
    BY <1>10, HoldsUntouched DEF vars
  <2>. QED
    BY <2>1, <2>2 DEF IInv
<1>. QED
  BY <1>1, <1>2, <1>3, <1>4, <1>5, <1>6, <1>7, <1>8, <1>9, <1>10 DEF Next

(***************************************************************************)
(* Theorems                                                                *)
(***************************************************************************)

\* Every reachable state satisfies the inductive invariant.
THEOREM Invariance == Spec => []IInv
BY InitIInv, NextIInv, PTL DEF Spec

\* The columns keep the values their tables allow.
THEOREM TypeCorrect == Spec => []TypeOK
<1>1. IInv => TypeOK
  BY DEF IInv
<1>. QED
  BY <1>1, Invariance, PTL

\* The guards of Reserve, Claim and SetStock alone keep every reservation
\* within the stock: the CHECK constraint of variant_stock never fires.
THEOREM BoundsHold == Spec => []StockWithinBounds
<1>1. IInv => StockWithinBounds
  BY DEF IInv
<1>. QED
  BY <1>1, Invariance, PTL

\* However cancellations, payments, cleanup passes and refunds interleave, no
\* unit stays off sale that no payable order holds.
THEOREM NoPhantoms == Spec => []NoPhantomReservation
<1>1. IInv => NoPhantomReservation
  BY DEF IInv
<1>. QED
  BY <1>1, Invariance, PTL

\* Only an order that was cancelled unpaid and then expired or paid makes
\* stock_reserved drift from the live holds.
THEOREM DriftHasOneCause == Spec => []ReservationExact
<1>1. IInv => ReservationExact
  BY DEF IInv
<1>. QED
  BY <1>1, Invariance, PTL

\* Unless a release was repeated, every unit of a live order is on the shelf
\* when its payment comes: neither sales nor recounts take it away.
THEOREM HoldersPay == Spec => []HoldersCanPay
<1>1. IInv => HoldersCanPay
  <2>. SUFFICES ASSUME IInv, NEW o \in Holding, NEW v \in Variants,
                       ReleasedOnce(v)
                PROVE  stock[v] >= lines[o][v]
    BY DEF HoldersCanPay
  <2>1. lines \in Tables /\ Holding \in SUBSET Orders
    BY DEF IInv, TypeOK, Tables, Holding
  <2>2. Cardinality(UnitsIn(lines, v, {o})) = lines[o][v]
    BY <2>1, UnitsOfOne
  <2>3. Cardinality(UnitsIn(lines, v, {o}))
          <= Cardinality(UnitsIn(lines, v, Holding))
    BY <2>1, UnitsMonotone
  <2>4. Cardinality(UnitsIn(lines, v, Holding)) = reserved[v]
    BY UnitsNow DEF IInv, ReservationExact
  <2>5. stock[v] \in Int /\ reserved[v] \in Int /\ lines[o][v] \in Int
    BY <2>1, QuantityBound DEF IInv, TypeOK, Tables, Quantities
  <2>. QED
    BY <2>2, <2>3, <2>4, <2>5 DEF IInv, StockWithinBounds
<1>. QED
  BY <1>1, Invariance, PTL

\* The main charge never says more than its order.
THEOREM ChargeFollows == Spec => []ChargeNeverAhead
<1>1. IInv => ChargeNeverAhead
  BY DEF IInv
<1>. QED
  BY <1>1, Invariance, PTL

(***************************************************************************)
(* The repository implements the ledger.                                   *)
(***************************************************************************)

\* Any database the service starts on is a ledger without orders.
LEMMA LedgerStarts == Init => Ledger!Init
<1>. SUFFICES ASSUME Init PROVE Ledger!Init
  OBVIOUS
<1>1. Phase = [o \in Orders |-> "absent"]
  BY DEF Init, Phase, Awaiting
<1>2. stock \in [Variants -> Nat]
  <2>1. \A v \in Variants : stock[v] \in 0 .. IntMax
    BY ColumnWidth DEF Init
  <2>2. \A v \in Variants : stock[v] \in Nat
    BY <2>1, ColumnWidth
  <2>. QED
    BY <2>2 DEF Init
<1>. QED
  BY <1>1, <1>2 DEF Init, Ledger!Init

\* A step that keeps every payment, the lines and the stock is invisible.
LEMMA LedgerStutters ==
  ASSUME UNCHANGED <<lines, stock>>,
         \A o \in Orders : Phase'[o] = Phase[o]
  PROVE  UNCHANGED Ledger!vars
<1>1. Phase' = Phase
  BY DEF Phase
<1>. QED
  BY <1>1 DEF Ledger!vars

\* Every step is a step of the ledger or invisible to it.
LEMMA LedgerSteps == IInv /\ [Next]_vars => [Ledger!Next]_Ledger!vars
<1>. SUFFICES ASSUME IInv, [Next]_vars
              PROVE  Ledger!Next \/ UNCHANGED Ledger!vars
  BY DEF Ledger!vars
<1>. USE DEF Awaiting
<1>1. /\ payment \in [Orders -> Payments] /\ stock \in [Variants -> 0 .. IntMax]
      /\ lines \in [Orders -> [Variants -> Quantities]]
      /\ IntMax \in Nat
  BY ColumnWidth DEF IInv, TypeOK
<1>2. ASSUME NEW o \in Orders, NEW cart \in [Variants -> Quantities],
             CreateOrder(o, cart)
      PROVE  Ledger!Place(o)
  <2>1. payment[o] = "absent"
    BY <1>2 DEF CreateOrder, Reserve, IInv, RowsAgree
  <2>2. Phase' = [Phase EXCEPT ![o] = "awaiting"]
    BY <1>1, <1>2 DEF CreateOrder, Reserve, Phase
  <2>. QED
    BY <1>2, <2>1, <2>2 DEF CreateOrder, Reserve, Phase, Ledger!Place
<1>3. ASSUME NEW o \in Orders, CreateMainCharge(o) \/ CancelOrder(o) \/ GrowOld(o)
      PROVE  UNCHANGED Ledger!vars
  BY <1>3, LedgerStutters DEF CreateMainCharge, CancelOrder, GrowOld, Phase
<1>4. ASSUME NEW o \in Orders, MarkPendingPayment(o)
      PROVE  UNCHANGED Ledger!vars
  <2>1. \A p \in Orders : Phase'[p] = Phase[p]
    BY <1>1, <1>4 DEF MarkPendingPayment, Phase
  <2>. QED
    BY <1>4, <2>1, LedgerStutters DEF MarkPendingPayment
<1>5. ASSUME NEW o \in Orders, ConfirmOrderPayment(o)
      PROVE  Ledger!Settle(o)
  <2>1. Phase' = [Phase EXCEPT ![o] = "settled"]
    BY <1>1, <1>5 DEF ConfirmOrderPayment, Claim, Phase
  <2>. QED
    BY <1>5, <2>1 DEF ConfirmOrderPayment, Claim, Phase, Ledger!Settle
<1>6. ASSUME NEW pass \in Awaiting, ExpireOrders(pass)
      PROVE  \E S \in SUBSET Orders : Ledger!WriteOff(S)
  <2>1. PICK batch \in SUBSET Expirable(pass) :
          /\ payment' = [o \in Orders |-> IF o \in batch THEN "failed"
                                                         ELSE payment[o]]
          /\ UNCHANGED <<stock, lines>>
    BY <1>6 DEF ExpireOrders
  <2>2. batch \in SUBSET Orders /\ \A o \in batch : payment[o] \in Awaiting
    BY DEF Expirable
  <2>3. Phase' = [o \in Orders |-> IF o \in batch THEN "void" ELSE Phase[o]]
    BY <2>1, <2>2 DEF Phase
  <2>. QED
    BY <2>1, <2>2, <2>3 DEF Phase, Ledger!WriteOff
<1>7. ASSUME NEW o \in Orders, NEW outcome \in {"refunded", "partially_refunded"},
             NEW back \in [Variants -> Quantities], RefundOrder(o, outcome, back)
      PROVE  Ledger!Reverse(o)
  <2>1. Phase' = [Phase EXCEPT ![o] = outcome]
    BY <1>1, <1>7 DEF RefundOrder, Restock, Phase
  <2>2. stock' = [v \in Variants |-> stock[v] + back[v]] /\ UNCHANGED lines
    BY <1>7 DEF RefundOrder, Restock
  <2>3. Phase[o] = "settled"
    BY <1>7 DEF RefundOrder, Restock, Phase
  <2>. QED
    BY <2>1, <2>2, <2>3 DEF Ledger!Reverse, Ledger!Outcomes
<1>8. ASSUME NEW v \in Variants, NEW level \in StockLevels, SetStock(v, level)
      PROVE  Ledger!Count(v)
  <2>1. stock'[v] = level /\ level \in Nat
    BY <1>1, <1>8, ColumnWidth DEF SetStock
  <2>2. Phase' = Phase
    BY <1>8 DEF SetStock, Phase
  <2>. QED
    BY <1>8, <2>1, <2>2 DEF SetStock, Ledger!Count
<1>9. CASE UNCHANGED vars
  BY <1>9, LedgerStutters DEF vars, Phase
<1>. QED
  BY <1>2, <1>3, <1>4, <1>5, <1>6, <1>7, <1>8, <1>9 DEF Next, Ledger!Next

\* Whatever cancellations, cleanup passes and payments do to reservations, an
\* order is settled at most once and its units leave the shelf with its money.
THEOREM LedgerRefined == Spec => LedgerImplemented
BY LedgerStarts, LedgerSteps, Invariance, PTL
DEF Spec, LedgerImplemented, Ledger!Spec
=============================================================================
