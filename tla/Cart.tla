-------------------------------- MODULE Cart --------------------------------
(***************************************************************************)
(* What a shopper is shown and what they are charged: the cart's handlers  *)
(* and the pricing of an order, statement by statement, in several tabs of *)
(* one shopper (internal/cart, internal/handlers/cart_handler.go,          *)
(* internal/promotions, internal/orders/creation.go).                      *)
(*                                                                         *)
(* Two handlers price a cart, each with statements of its own: GetCart     *)
(* reads the codes, the lines and then every coupon; the creation of an    *)
(* order reads the lines, the codes and every coupon.  Other tabs and      *)
(* other shoppers move between any two of them.                            *)
(*                                                                         *)
(* Abstractions.  A line costs its variant's price: that never changes     *)
(* once the variant exists.  A coupon ends when it expires, is switched    *)
(* off or used up; no code revives one, and its use count is in Checkout.  *)
(* The codes of a cart are priced in any order.  The freight of an order is*)
(* what the client sends: nobody compares it with a quote.  Keys, stock and*)
(* the order's life are in Checkout and OrderStock, and their failures are *)
(* failures here.                                                          *)
(***************************************************************************)
EXTENDS Pricing

CONSTANTS
  Tabs,        \* of the shopper, each with one request at a time
  Variants,
  PriceOf,     \* the price of each variant, in cents
  Codes,       \* of coupons
  Offer,       \* what each coupon offers: [kind, value, min]
  Freights,    \* shipping_cost_cents a client may send
  MaxQuantity, \* bound on the quantity of a line
  None         \* the absent value

ASSUME VariantsAreFinite == IsFiniteSet(Variants)
ASSUME CodesAreFinite == IsFiniteSet(Codes)
ASSUME QuantityBound == MaxQuantity \in Nat
ASSUME FreightsSent == Freights \subseteq Int
ASSUME PricesPaid == PriceOf \in [Variants -> Nat]
ASSUME Offers ==
  Offer \in [Codes -> [kind : {"percent", "fixed"}, value : Nat, min : Nat]]
\* The column has no bound of its own; its comment gives this one.
ASSUME Percentages ==
  \A c \in Codes : Offer[c].kind = "percent" => Offer[c].value <= 100

VARIABLES
  quantity, \* cart_items: the quantity of each variant, 0 without a line
  applied,  \* carts.applied_coupon_codes
  ended,    \* coupons that are no longer valid for anybody
  pc,       \* what the handler of each tab does next
  job,      \* what it is for: [goal, code, freight]
  lines,    \* the quantities it has read
  codes,    \* the codes it has read or checks
  todo,     \* of these, the ones it has yet to price or redeem
  fresh,    \* history: tabs whose last GetCart no write to the cart has overtaken
  shown,    \* history: what it has shown there, [total, priced]
  bill      \* history: the order the last step has placed, if it has

vars == <<quantity, applied, ended, pc, job, lines, codes, todo, shown, fresh,
          bill>>
cart == <<quantity, applied, ended>>

Empty == [v \in Variants |-> 0]

\* sumLineItems
Subtotal(q) == SumFunction([v \in Variants |-> PriceOf[v] * q[v]])

\* The discounts of a set of coupons, each taken of the full subtotal.
Discounts(C, q) == [c \in C |-> computeDiscountCents(Subtotal(q), Offer[c])]
Sum(d) == SumFunction(d)

Init ==
  /\ quantity = Empty /\ applied = {} /\ ended = {}
  /\ pc = [t \in Tabs |-> "idle"]
  /\ job = [t \in Tabs |-> None]
  /\ lines = [t \in Tabs |-> Empty]
  /\ codes = [t \in Tabs |-> {}]
  /\ todo = [t \in Tabs |-> {}]
  /\ shown = [t \in Tabs |-> None]
  /\ fresh = {}
  /\ bill = None

Job(goal, code, freight) == [goal |-> goal, code |-> code, freight |-> freight]

\* A handler begins, or goes on, with the statement named step.
Go(t, j, step) ==
  /\ pc' = [pc EXCEPT ![t] = step]
  /\ job' = [job EXCEPT ![t] = j]
  /\ lines' = [lines EXCEPT ![t] = Empty]
  /\ codes' = [codes EXCEPT ![t] = {}]
  /\ todo' = [todo EXCEPT ![t] = {}]

\* GetCart, as a handler or as the end of another.
Reshow(t) == Go(t, Job("show", None, 0), "codes")

\* The handler of t ends.
End(t) == Go(t, None, "idle")

\* Whatever was read or shown of the cart before is out of date.
Overtaken == fresh' = {} /\ shown' = [t \in Tabs |-> None]

(***************************************************************************)
(* Requests                                                                *)
(***************************************************************************)

GetCart(t) ==
  /\ pc[t] = "idle"
  /\ Reshow(t)
  /\ fresh' = fresh \ {t} /\ shown' = [shown EXCEPT ![t] = None]
  /\ UNCHANGED <<cart>>

\* The upsert adds to the quantity of a line there is.
AddItem(t, v, n) ==
  /\ pc[t] = "idle" /\ n > 0
  /\ quantity[v] + n <= MaxQuantity
  /\ quantity' = [quantity EXCEPT ![v] = @ + n]
  /\ Overtaken
  /\ UNCHANGED <<applied, ended, pc, job, lines, codes, todo>>

\* UpdateItemQuantity and RemoveItem need a line.
SetQuantity(t, v, n) ==
  /\ pc[t] = "idle" /\ quantity[v] > 0
  /\ quantity' = [quantity EXCEPT ![v] = n]
  /\ Overtaken
  /\ Reshow(t)
  /\ UNCHANGED <<applied, ended>>

UpdateItem(t, v, n) == n > 0 /\ SetQuantity(t, v, n)
DeleteItem(t, v) == SetQuantity(t, v, 0)

RemoveCoupon(t, c) ==
  /\ pc[t] = "idle"
  /\ applied' = applied \ {c}
  /\ Overtaken
  /\ Reshow(t)
  /\ UNCHANGED <<quantity, ended>>

\* The codes stay.
ClearCart(t) ==
  /\ pc[t] = "idle"
  /\ quantity' = Empty
  /\ Overtaken
  /\ UNCHANGED <<applied, ended, pc, job, lines, codes, todo>>

\* The code is checked before it is attached.
AddCoupon(t, c) ==
  /\ pc[t] = "idle"
  /\ Go(t, Job("attach", c, 0), "items")
  /\ UNCHANGED <<cart, shown, fresh>>

\* POST /api/orders: a negative freight is refused.
CreateOrder(t, freight) ==
  /\ pc[t] = "idle"
  /\ freight >= 0
  /\ Go(t, Job("order", None, freight), "items")
  /\ UNCHANGED <<cart, shown, fresh>>

(***************************************************************************)
(* The statements they share                                               *)
(***************************************************************************)

\* GetCartItems
ReadItems(t) ==
  /\ pc[t] = "items"
  /\ job[t].goal = "order" => quantity # Empty
  /\ lines' = [lines EXCEPT ![t] = quantity]
  /\ IF job[t].goal = "attach"
       THEN codes' = [codes EXCEPT ![t] = {job[t].code}]
       ELSE UNCHANGED codes
  /\ todo' = [todo EXCEPT ![t] = codes'[t]]
  /\ pc' = [pc EXCEPT ![t] = IF job[t].goal = "order" THEN "codes" ELSE "price"]
  /\ UNCHANGED <<cart, job, shown, fresh>>

\* GetOrCreateCartByUserID, or the SELECT of the order's transaction.
ReadCodes(t) ==
  /\ pc[t] = "codes"
  /\ codes' = [codes EXCEPT ![t] = applied]
  /\ IF job[t].goal = "order"
       THEN /\ todo' = [todo EXCEPT ![t] = applied]
            /\ pc' = [pc EXCEPT ![t] = "price"]
            /\ UNCHANGED fresh
       ELSE /\ pc' = [pc EXCEPT ![t] = "items"]
            /\ fresh' = fresh \cup {t}
            /\ UNCHANGED todo
  /\ UNCHANGED <<cart, job, lines, shown>>

\* resolveValidCoupon
Valid(c, subtotal) == c \notin ended /\ subtotal >= Offer[c].min

PriceCode(t, c) ==
  /\ pc[t] = "price" /\ c \in todo[t]
  /\ Valid(c, Subtotal(lines[t]))
  /\ todo' = [todo EXCEPT ![t] = @ \ {c}]
  /\ UNCHANGED <<cart, pc, job, lines, codes, shown, fresh>>

Priced(t, goal) == pc[t] = "price" /\ todo[t] = {} /\ job[t].goal = goal

Display(t, total, priced) ==
  /\ shown' = [shown EXCEPT ![t] =
                  IF t \in fresh THEN [total |-> total, priced |-> priced]
                                 ELSE None]
  /\ End(t)
  /\ UNCHANGED <<cart, fresh>>

\* The end of GetCart.
Show(t) ==
  /\ Priced(t, "show")
  /\ LET q == lines[t]
     IN  Display(t, AtLeastZero(Subtotal(q) - Sum(Discounts(codes[t], q))), TRUE)

\* One code is refused, or its statement fails: the cart is shown without any
\* discount.
ShowUnpriced(t) ==
  /\ pc[t] = "price" /\ todo[t] # {} /\ job[t].goal = "show"
  /\ Display(t, Subtotal(lines[t]), FALSE)

\* AddCouponCode, and GetCart after it.
AddCouponCode(t) ==
  /\ Priced(t, "attach")
  /\ applied' = applied \cup codes[t]
  /\ Overtaken
  /\ Reshow(t)
  /\ UNCHANGED <<quantity, ended>>

\* The discount is on the order and not in its total: a faulty variant of the
\* next definition.
TotalBeforeDiscount(subtotal, freight, discount) == subtotal + freight

totalCents(subtotal, freight, discount) ==
  AtLeastZero(subtotal + freight - discount)

\* The order, its applied_discounts, and an empty cart that keeps its codes.
CommitOrder(t) ==
  /\ Priced(t, "order")
  /\ LET d == Discounts(codes[t], lines[t])
         s == Subtotal(lines[t])
         f == job[t].freight
     IN  bill' = [subtotal |-> s, freight |-> f, discounts |-> d,
                  total |-> totalCents(s, f, Sum(d)), shown |-> shown[t]]
  /\ quantity' = Empty
  /\ Overtaken
  /\ pc' = [pc EXCEPT ![t] = "redeem"]
  /\ todo' = [todo EXCEPT ![t] = codes[t]]
  /\ UNCHANGED <<applied, ended, job, lines, codes>>

\* redeemCoupons: best effort, and it may use the coupon up.
Redeem(t, c) ==
  /\ pc[t] = "redeem" /\ c \in todo[t]
  /\ ended' \in {ended, ended \cup {c}}
  /\ todo' = [todo EXCEPT ![t] = @ \ {c}]
  /\ UNCHANGED <<quantity, applied, pc, job, lines, codes, shown, fresh>>

Redeemed(t) ==
  /\ pc[t] = "redeem" /\ todo[t] = {}
  /\ End(t)
  /\ UNCHANGED <<cart, shown, fresh>>

\* A statement fails, or a coupon, the stock or an empty cart stops an order or
\* the attachment of a code: nothing is left behind.
Fails(t) ==
  /\ \/ pc[t] \in {"codes", "items"}
     \/ pc[t] = "price" /\ job[t].goal # "show"
  /\ End(t)
  /\ fresh' = IF shown[t] = None THEN fresh \ {t} ELSE fresh
  /\ UNCHANGED <<cart, shown>>

\* A coupon expires or other shoppers use it up.
EndCoupon(c) ==
  /\ c \notin ended
  /\ ended' = ended \cup {c}
  /\ UNCHANGED <<quantity, applied, pc, job, lines, codes, todo, shown, fresh>>

OtherStep ==
  \/ \E t \in Tabs :
       \/ GetCart(t) \/ ClearCart(t)
       \/ \E v \in Variants :
            \/ DeleteItem(t, v)
            \/ \E n \in 1..MaxQuantity : AddItem(t, v, n) \/ UpdateItem(t, v, n)
       \/ \E c \in Codes :
            \/ AddCoupon(t, c) \/ RemoveCoupon(t, c)
            \/ PriceCode(t, c) \/ Redeem(t, c)
       \/ \E freight \in Freights : CreateOrder(t, freight)
       \/ ReadItems(t) \/ ReadCodes(t)
       \/ Show(t) \/ ShowUnpriced(t) \/ AddCouponCode(t)
       \/ Redeemed(t) \/ Fails(t)
  \/ \E c \in Codes : EndCoupon(c)

Next ==
  \/ \E t \in Tabs : CommitOrder(t)
  \/ OtherStep /\ bill' = None

Spec == Init /\ [][Next]_vars

(***************************************************************************)
(* Properties                                                              *)
(***************************************************************************)

\* GetCart and the creation of an order price a cart in separate statements,
\* in a different order, while coupons end around them.  All the same a shopper
\* whose cart nobody has written to since it was shown never pays more than
\* the shown total and the freight; and they pay less only if the cart was
\* shown unpriced, or if stacked coupons are worth more than the goods and eat
\* into the freight.
QuoteHolds ==
  bill # None /\ bill.shown # None =>
    /\ bill.total <= bill.shown.total + bill.freight
    /\ \/ bill.total = bill.shown.total + bill.freight
       \/ ~bill.shown.priced
       \/ Sum(bill.discounts) > bill.subtotal

\* Freight is paid in full unless coupons stack: one coupon alone never takes
\* off more than the goods cost.
FreightIsPaid ==
  bill # None =>
    Cardinality(DOMAIN bill.discounts) > 1 \/ bill.total >= bill.freight

\* Handing out the leftover cents rounds a percentage half up, to the cent.
PercentRoundsHalfUp ==
  bill # None =>
    \A c \in DOMAIN bill.discounts :
      Offer[c].kind = "percent" =>
        bill.discounts[c] = (2 * bill.subtotal * Offer[c].value + 100) \div 200
=============================================================================
