---------------------------- MODULE SalesLedger ----------------------------
(***************************************************************************)
(* What the orders and variant_stock tables together promise to whoever    *)
(* counts the goods and the money: an order is settled at most once, its   *)
(* units leave the shelf in the very step that settles it, and nothing but *)
(* a settlement, a reversal or an administrator's count moves physical     *)
(* stock.  Reservations, the order status, payment references and the age  *)
(* of an order are invisible at this level.                                *)
(***************************************************************************)
EXTENDS Integers

CONSTANTS
  Orders,      \* identifiers of the orders that may be placed
  Variants,    \* product variants, each with one stock row
  Quantities   \* quantities an order line or a returned line may have

VARIABLES
  phase,       \* phase[o]: absent, awaiting, settled, void or an outcome
  lines,       \* lines[o][v]: units of v frozen on order o
  onHand       \* onHand[v]: physical units of v

vars == <<phase, lines, onHand>>

\* How a settled order may be reversed, once.
Outcomes == {"refunded", "partially_refunded"}

Init ==
  /\ phase = [o \in Orders |-> "absent"]
  /\ lines = [o \in Orders |-> [v \in Variants |-> 0]]
  /\ onHand \in [Variants -> Nat]

Place(o) ==
  /\ phase[o] = "absent"
  /\ phase' = [phase EXCEPT ![o] = "awaiting"]
  /\ \E cart \in [Variants -> Quantities] :
       lines' = [lines EXCEPT ![o] = cart]
  /\ UNCHANGED onHand

\* Several abandoned orders may be written off in one step.
WriteOff(S) ==
  /\ \A o \in S : phase[o] = "awaiting"
  /\ phase' = [o \in Orders |-> IF o \in S THEN "void" ELSE phase[o]]
  /\ UNCHANGED <<lines, onHand>>

Settle(o) ==
  /\ phase[o] = "awaiting"
  /\ \A v \in Variants : lines[o][v] <= onHand[v]
  /\ phase' = [phase EXCEPT ![o] = "settled"]
  /\ onHand' = [v \in Variants |-> onHand[v] - lines[o][v]]
  /\ UNCHANGED lines

Reverse(o) ==
  /\ phase[o] = "settled"
  /\ \E outcome \in Outcomes : phase' = [phase EXCEPT ![o] = outcome]
  /\ \E back \in [Variants -> Quantities] :
       onHand' = [v \in Variants |-> onHand[v] + back[v]]
  /\ UNCHANGED lines

Count(v) ==
  /\ onHand'[v] \in Nat
  /\ onHand' = [onHand EXCEPT ![v] = onHand'[v]]
  /\ UNCHANGED <<phase, lines>>

Next ==
  \/ \E o \in Orders : Place(o) \/ Settle(o) \/ Reverse(o)
  \/ \E S \in SUBSET Orders : WriteOff(S)
  \/ \E v \in Variants : Count(v)

Spec == Init /\ [][Next]_vars
=============================================================================
