------------------------------- MODULE MCCart -------------------------------
(***************************************************************************)
(* The cart for TLC.  The percentage of one unit ends in half a cent; both *)
(* coupons together are worth more than one unit and the cheap freight;    *)
(* two units are needed for the fixed coupon.  Clients send the freight of *)
(* two destinations, and one that is refused.                              *)
(***************************************************************************)
EXTENDS Cart, TLC

CONSTANTS v1, v2, percent, fixed

MCPriceOf == v1 :> 2002 @@ v2 :> 998
MCOffer == percent :> [kind |-> "percent", value |-> 75, min |-> 0]
        @@ fixed :> [kind |-> "fixed", value |-> 3000, min |-> 2000]

MCFreights == {-1} \cup {Quote(cep) : cep \in {c \in {0, 5} : Available(c)}}

Symmetry == Permutations(Tabs)
=============================================================================
