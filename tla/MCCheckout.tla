----------------------------- MODULE MCCheckout -----------------------------
(***************************************************************************)
(* Checkout for TLC.  Requests, keys and goods are each alike: an order is *)
(* named after its request, and the only choice made by CHOOSE is from a   *)
(* set that OneAcknowledgedOrder keeps to one element.                     *)
(***************************************************************************)
EXTENDS Checkout, TLC

Symmetry == Permutations(Requests) \cup Permutations(Goods)
=============================================================================
