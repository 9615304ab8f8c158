----------------------------- MODULE OrderStock -----------------------------
(***************************************************************************)
(* The order aggregate and the stock rows it drives                        *)
(* (internal/orders, internal/variants, the order and webhook handlers).   *)
(*                                                                         *)
(* Every repository method below is one database transaction.  It locks    *)
(* the order row it changes and re-evaluates each stock guard under the    *)
(* lock of the stock row, so its committed effect is one atomic step; a    *)
(* method whose guard fails rolls back, which is the absence of a step.    *)
(*                                                                         *)
(* Abstractions.                                                           *)
(*  - Orders ship from the default source, the only one the                *)
(*    SingleSourceAllocator returns, so a stock row is one per variant; a  *)
(*    variant without a stock row is one with stock 0.                     *)
(*  - Cart lines are unique per variant: an order's lines are a function   *)
(*    from variants to quantities, 0 where there is no line.               *)
(*  - Age counts the expiry windows an order has outlived while it awaits  *)
(*    its payment; nobody reads the age of any other order, so it is 0.    *)
(*  - UpdateOrderTracking writes a column nothing here reads, and          *)
(*    UpdateOrderStatus has no caller in the program: neither is a step.   *)
(***************************************************************************)
EXTENDS Integers, FiniteSets

CONSTANTS
  Orders,      \* identifiers of the orders that may be placed
  Variants,    \* product variants
  MaxQuantity, \* largest quantity of one line
  StockLevels, \* absolute stock levels an administrator may set
  IntMax       \* largest value of the INT columns: beyond it an UPDATE fails

ASSUME OrdersFinite == IsFiniteSet(Orders)
ASSUME QuantityBound == MaxQuantity \in Nat
ASSUME ColumnWidth == IntMax \in Nat /\ StockLevels \subseteq 0 .. IntMax

VARIABLES
  stock,       \* variant_stock.stock
  reserved,    \* variant_stock.stock_reserved
  status,      \* orders.status, "absent" before the row exists
  payment,     \* orders.payment_status
  lines,       \* order_items: units of each variant frozen on the order
  referenced,  \* orders.payment_reference IS NOT NULL
  age,         \* expiry windows passed since created_at, while awaiting
  charge,      \* status of the order's main row in payment_charges
  freed        \* history: orders whose reservation CancelOrder released

vars == <<stock, reserved, status, payment, lines, referenced, age, charge,
          freed>>

Quantities == 0 .. MaxQuantity

Awaiting == {"unpaid", "pending_payment"}
Statuses == {"absent", "pending", "processing", "shipped", "delivered",
             "cancelled"}
Payments == {"absent", "unpaid", "pending_payment", "paid", "failed",
             "refunded", "partially_refunded"}

(***************************************************************************)
(* Helpers                                                                 *)
(***************************************************************************)

\* validTransitions: the order status machine.
CanTransitionTo(from, to) ==
  <<from, to>> \in {<<"pending", "processing">>, <<"pending", "cancelled">>,
                    <<"processing", "shipped">>, <<"processing", "cancelled">>,
                    <<"shipped", "delivered">>}

\* Release without GREATEST: a faulty variant of the next definition.
NotClamped(n) == n

\* GREATEST(n, 0)
AtLeastZero(n) == IF n > 0 THEN n ELSE 0

\* The units of v on the orders of S, one element each: as many as the
\* quantities of those orders' lines on v add up to.
Units(v, S) == {u \in S \X (1 .. MaxQuantity) : u[2] <= lines[u[1]][v]}

\* releaseOrderItems for every order of S, in one transaction.
ReleaseItems(S) ==
  reserved' = [v \in Variants |->
                 AtLeastZero(reserved[v] - Cardinality(Units(v, S)))]

\* Units on hold are reserved again: a faulty variant of the next definition.
ReserveOnHand(cart) ==
  /\ \A v \in Variants : cart[v] > 0 => stock[v] >= cart[v]
  /\ reserved' = [v \in Variants |-> reserved[v] + cart[v]]

\* Reserve, for every line: the units must be available.
Reserve(cart) ==
  /\ \A v \in Variants : cart[v] > 0 => stock[v] - reserved[v] >= cart[v]
  /\ reserved' = [v \in Variants |-> reserved[v] + cart[v]]

\* Claim, for every line of o: the units must exist, reserved or not.
Claim(o) ==
  /\ \A v \in Variants : stock[v] >= lines[o][v]
  /\ stock' = [v \in Variants |-> stock[v] - lines[o][v]]
  /\ reserved' = [v \in Variants |-> AtLeastZero(reserved[v] - lines[o][v])]

\* Restock, for every returned line.
Restock(back) ==
  /\ \A v \in Variants : stock[v] + back[v] <= IntMax
  /\ stock' = [v \in Variants |-> stock[v] + back[v]]

\* The orders whose units are on hold: placed, neither paid nor cancelled.
Holding == {o \in Orders : status[o] # "cancelled" /\ payment[o] \in Awaiting}

(***************************************************************************)
(* Faulty variants: each is one of the definitions below as a plausible    *)
(* bug would have it.  No specification uses them; each shows that the     *)
(* property it is paired with can fail.                                    *)
(***************************************************************************)

\* Cancelling flips the status and forgets the reservation.
CancelKeepingHold(o) ==
  /\ CanTransitionTo(status[o], "cancelled")
  /\ status' = [status EXCEPT ![o] = "cancelled"]
  /\ UNCHANGED <<stock, reserved, payment, lines, referenced, age, charge,
                 freed>>

\* Starting a payment without the guard on payment_status.
MarkPendingUnguarded(o) ==
  /\ status[o] # "absent"
  /\ payment' = [payment EXCEPT ![o] = "pending_payment"]
  /\ referenced' = [referenced EXCEPT ![o] = TRUE]
  /\ UNCHANGED <<stock, reserved, status, lines, age, charge, freed>>

\* A duplicate webhook claims again.
ConfirmTwice(o) ==
  /\ payment[o] \in Awaiting \cup {"paid"}
  /\ Claim(o)
  /\ payment' = [payment EXCEPT ![o] = "paid"]
  /\ status' = [status EXCEPT ![o] = "processing"]
  /\ UNCHANGED <<lines, referenced, age, charge, freed>>

\* The cleanup query joins payment_charges: it misses every order whose
\* best-effort charge was lost.
ExpirableWithCharge(pass) ==
  {o \in Orders : /\ payment[o] = pass
                  /\ ~referenced[o]
                  /\ age[o] >= (IF pass = "unpaid" THEN 1 ELSE 2)
                  /\ charge[o] = "pending"}

\* A partially refunded order may be refunded again.
RefundAgain(o, outcome, back) ==
  /\ payment[o] \in {"paid", "partially_refunded"}
  /\ referenced[o]
  /\ \A v \in Variants : back[v] > 0 => lines[o][v] > 0
  /\ Restock(back)
  /\ payment' = [payment EXCEPT ![o] = outcome]
  /\ UNCHANGED <<reserved, status, lines, referenced, age, charge, freed>>

\* Setting stock without the guard against live reservations.
SetStockUnguarded(v, level) ==
  /\ stock' = [stock EXCEPT ![v] = level]
  /\ UNCHANGED <<reserved, status, payment, lines, referenced, age, charge,
                 freed>>

(***************************************************************************)
(* Actions                                                                 *)
(***************************************************************************)

\* Any consistent database the service may be started on, before its orders.
Init ==
  /\ stock \in [Variants -> StockLevels]
  /\ reserved = [v \in Variants |-> 0]
  /\ status = [o \in Orders |-> "absent"]
  /\ payment = [o \in Orders |-> "absent"]
  /\ lines = [o \in Orders |-> [v \in Variants |-> 0]]
  /\ referenced = [o \in Orders |-> FALSE]
  /\ age = [o \in Orders |-> 0]
  /\ charge = [o \in Orders |-> "none"]
  /\ freed = {}

\* CreateOrderFromCart up to its commit: every line is reserved or none is.
CreateOrder(o, cart) ==
  /\ status[o] = "absent"
  /\ \E v \in Variants : cart[v] > 0
  /\ Reserve(cart)
  /\ status' = [status EXCEPT ![o] = "pending"]
  /\ payment' = [payment EXCEPT ![o] = "unpaid"]
  /\ lines' = [lines EXCEPT ![o] = cart]
  /\ UNCHANGED <<stock, referenced, age, charge, freed>>

\* The best-effort insert of the main charge after that commit; another
\* request may already have touched the order, and a crash loses the insert.
CreateMainCharge(o) ==
  /\ status[o] # "absent"
  /\ charge[o] = "none"
  /\ charge' = [charge EXCEPT ![o] = "pending"]
  /\ UNCHANGED <<stock, reserved, status, payment, lines, referenced, age,
                 freed>>

CancelOrder(o) ==
  /\ CanTransitionTo(status[o], "cancelled")
  /\ status' = [status EXCEPT ![o] = "cancelled"]
  /\ IF payment[o] \in Awaiting
       THEN ReleaseItems({o}) /\ freed' = freed \cup {o}
       ELSE UNCHANGED <<reserved, freed>>
  /\ UNCHANGED <<stock, payment, lines, referenced, age, charge>>

\* The end of Pay.  Neither Pay nor this guard looks at the order status.
MarkPendingPayment(o) ==
  /\ payment[o] \in Awaiting
  /\ payment' = [payment EXCEPT ![o] = "pending_payment"]
  /\ referenced' = [referenced EXCEPT ![o] = TRUE]
  /\ UNCHANGED <<stock, reserved, status, lines, age, charge, freed>>

\* A paid webhook: claim every line, or roll back and answer 500.
ConfirmOrderPayment(o) ==
  /\ payment[o] \in Awaiting
  /\ Claim(o)
  /\ payment' = [payment EXCEPT ![o] = "paid"]
  /\ status' = [status EXCEPT ![o] = "processing"]
  /\ charge' = [charge EXCEPT ![o] = IF @ = "none" THEN "none" ELSE "paid"]
  /\ age' = [age EXCEPT ![o] = 0]
  /\ UNCHANGED <<lines, referenced, freed>>

\* The passes of the two cleanup workers and the age each waits for.
Window(pass) == IF pass = "unpaid" THEN 1 ELSE 2

Expirable(pass) ==
  {o \in Orders : payment[o] = pass /\ ~referenced[o] /\ age[o] >= Window(pass)}

\* One pass.  SKIP LOCKED and LIMIT make its batch any eligible orders.
ExpireOrders(pass) ==
  \E batch \in SUBSET Expirable(pass) \ {{}} :
    /\ status' = [o \in Orders |-> IF o \in batch THEN "cancelled"
                                                  ELSE status[o]]
    /\ payment' = [o \in Orders |-> IF o \in batch THEN "failed"
                                                   ELSE payment[o]]
    /\ ReleaseItems(batch)
    /\ age' = [o \in Orders |-> IF o \in batch THEN 0 ELSE age[o]]
    /\ UNCHANGED <<stock, lines, referenced, charge, freed>>

\* RefundOrder, the PSP having accepted: lines flagged restock come back in
\* the quantity the request names, which is not compared with the order's.
RefundOrder(o, outcome, back) ==
  /\ payment[o] = "paid"
  /\ referenced[o]
  /\ \A v \in Variants : back[v] > 0 => lines[o][v] > 0
  /\ Restock(back)
  /\ payment' = [payment EXCEPT ![o] = outcome]
  /\ charge' = [charge EXCEPT ![o] = IF @ = "none" THEN "none" ELSE "refunded"]
  /\ UNCHANGED <<reserved, status, lines, referenced, age, freed>>

\* An administrator's absolute count, refused below what is reserved.
SetStock(v, level) ==
  /\ reserved[v] <= level
  /\ stock' = [stock EXCEPT ![v] = level]
  /\ UNCHANGED <<reserved, status, payment, lines, referenced, age, charge,
                 freed>>

\* Time: the order outlives the 15 minute, then the 30 minute window.
GrowOld(o) ==
  /\ payment[o] \in Awaiting
  /\ age[o] < 2
  /\ age' = [age EXCEPT ![o] = @ + 1]
  /\ UNCHANGED <<stock, reserved, status, payment, lines, referenced, charge,
                 freed>>

Next ==
  \/ \E o \in Orders, cart \in [Variants -> Quantities] : CreateOrder(o, cart)
  \/ \E o \in Orders : CreateMainCharge(o)
  \/ \E o \in Orders : CancelOrder(o)
  \/ \E o \in Orders : MarkPendingPayment(o)
  \/ \E o \in Orders : ConfirmOrderPayment(o)
  \/ \E pass \in Awaiting : ExpireOrders(pass)
  \/ \E o \in Orders, outcome \in {"refunded", "partially_refunded"},
        back \in [Variants -> Quantities] : RefundOrder(o, outcome, back)
  \/ \E v \in Variants, level \in StockLevels : SetStock(v, level)
  \/ \E o \in Orders : GrowOld(o)

Spec == Init /\ [][Next]_vars

\* The workers tick forever and clocks advance; shoppers, administrators and
\* the PSP owe the service nothing.
Fairness ==
  /\ \A o \in Orders : WF_vars(GrowOld(o))
  /\ \A pass \in Awaiting : WF_vars(ExpireOrders(pass))

FairSpec == Spec /\ Fairness

(***************************************************************************)
(* Properties that hold                                                    *)
(***************************************************************************)

\* Every row has the columns and values its table allows.
TypeOK ==
  /\ stock \in [Variants -> 0 .. IntMax]
  /\ reserved \in [Variants -> 0 .. IntMax]
  /\ status \in [Orders -> Statuses]
  /\ payment \in [Orders -> Payments]
  /\ lines \in [Orders -> [Variants -> Quantities]]
  /\ referenced \in [Orders -> BOOLEAN]
  /\ age \in [Orders -> 0 .. 2]
  /\ charge \in [Orders -> {"none", "pending", "paid", "refunded"}]
  /\ freed \subseteq Orders

\* No sequence of reservations, replayed releases, claims of other orders'
\* units, restocks and recounts makes the CHECK constraint of variant_stock
\* fire: the guards of the statements are enough without it.
StockWithinBounds == \A v \in Variants : reserved[v] <= stock[v]

\* A reserved unit always belongs to an order that may still be paid: no
\* order of events leaves units off sale that nobody holds.
NoPhantomReservation ==
  \A v \in Variants : reserved[v] <= Cardinality(Units(v, Holding))

\* No order with units of v that CancelOrder released was expired or paid
\* afterwards, which would have released or claimed those units again.
ReleasedOnce(v) == \A o \in freed : lines[o][v] > 0 => payment[o] \in Awaiting

\* The drift of stock_reserved has one cause: as long as no order that
\* CancelOrder released went on to be expired or paid, stock_reserved of the
\* variants on it is exactly the sum of the live holds.
ReservationExact ==
  \A v \in Variants :
    ReleasedOnce(v) => reserved[v] = Cardinality(Units(v, Holding))

\* Whoever holds units can pay for them: unless a release was repeated, no
\* purchase, refund or recount takes a unit of a live order off the shelf, so
\* the Claim of its webhook never meets ErrStockClaimConflict.
HoldersCanPay ==
  \A o \in Holding : \A v \in Variants :
    ReleasedOnce(v) => stock[v] >= lines[o][v]

\* The main charge never says more than the order: a charge marked paid or
\* refunded belongs to an order whose money did move.
ChargeNeverAhead ==
  \A o \in Orders :
    /\ charge[o] = "paid" => payment[o] = "paid"
    /\ charge[o] = "refunded" => payment[o] \in {"refunded",
                                                 "partially_refunded"}

\* The stages of an order's money, as the bookkeeper of SalesLedger sees them.
Phase ==
  [o \in Orders |->
     IF payment[o] \in Awaiting THEN "awaiting"
     ELSE IF payment[o] = "paid" THEN "settled"
     ELSE IF payment[o] = "failed" THEN "void"
     ELSE payment[o]]

Ledger == INSTANCE SalesLedger WITH phase <- Phase, onHand <- stock

\* Whatever happens to the reservations, goods and money move together: the
\* repository implements the ledger of SalesLedger.
LedgerImplemented == Ledger!Spec

\* An abandoned checkout, one whose payment was never started, is closed and
\* its units go back on sale, whatever other orders the batches pick first.
AbandonedHoldsFreed ==
  \A o \in Orders : payment[o] = "unpaid" ~> payment[o] # "unpaid"

(***************************************************************************)
(* What a comment says and the code does not do                            *)
(***************************************************************************)

\* An order that reached pending_payment gets its longer grace period and then
\* gives its units back all the same, if it is not paid (repository.go:39).
StartedHoldsFreed ==
  \A o \in Orders :
    payment[o] = "pending_payment" /\ o \in Holding ~> o \notin Holding

\* An order that exists changes status only as validTransitions lists
\* (models/order.go:38).
StatusFollowsTable ==
  [][\A o \in Orders : status[o] \notin {"absent", status'[o]}
                         => CanTransitionTo(status[o], status'[o])]_vars
=============================================================================
