------------------------------ MODULE Checkout ------------------------------
(***************************************************************************)
(* One shopper's checkout: the POST /api/orders handler with its           *)
(* Idempotency-Key, statement by statement, beside the shopper's cart and  *)
(* the use count of a coupon (internal/handlers/order_handler.go,          *)
(* internal/orders/idempotency.go and creation.go, internal/cart,          *)
(* internal/promotions, internal/coupons).                                 *)
(*                                                                         *)
(* Each database statement, or transaction, of a handler is one step, and  *)
(* handlers interleave between them.  Every statement may fail; a client   *)
(* that disconnects cancels the request's context, after which every       *)
(* statement of its handler fails; the process may crash between any two   *)
(* steps.  A statement whose connection breaks may have taken effect       *)
(* although its caller sees an error.                                      *)
(*                                                                         *)
(* Abstractions.                                                           *)
(*  - A good is one unit the shopper put in the cart; the quantity of a    *)
(*    line is the number of its goods.  Keys and carts belong to one user, *)
(*    so one shopper shows everything but the coupon count, which all      *)
(*    shoppers share and several attempts of one shopper race on alike.    *)
(*  - An order is named after the request that made it.  The stock it      *)
(*    reserves, its main charge and its life are in OrderStock; a shortage *)
(*    of stock is one of the ways in which the creation fails.             *)
(*  - request_hash is written and never read; it is left out.              *)
(***************************************************************************)
EXTENDS Naturals, FiniteSets

CONSTANTS
  Requests,  \* POST /api/orders attempts
  Keys,      \* values of the Idempotency-Key header
  Goods,     \* units the shopper may put in the cart
  MaxUses,   \* coupons.max_uses
  None       \* neither a key nor an order

ASSUME KeyNames == None \notin Keys \cup Requests
ASSUME RecordStates == {"absent", "inflight"} \cap Requests = {}
ASSUME UseLimit == MaxUses \in Nat
ASSUME RequestsFinite == IsFiniteSet(Requests)

VARIABLES
  pc,         \* pc[r]: the statement the handler of r runs next
  key,        \* key[r]: the Idempotency-Key of r, None without the header
  gone,       \* requests whose context is cancelled: the client left
  items,      \* items[r]: the cart items r read
  told,       \* told[r]: the order a 201 answer to r names, or None
  record,     \* idempotency_keys: absent, in flight, or the finalized order
  cart,       \* cart_items
  placed,     \* placed[r]: goods on the order r committed, {} without one
  coupon,     \* the cart's coupon: off, checked by AddCoupon, or on
  priced,     \* requests whose price includes the coupon
  used,       \* coupons.used_count
  added,      \* history: goods that were ever in the cart
  seen,       \* history: seen[r], the orders committed when r read the cart
  doubt,      \* history: orders whose commit reported an error
  stuck       \* history: keys whose owner ended before it finished them

vars == <<pc, key, gone, items, told, record, cart, placed, coupon, priced,
          used, added, seen, doubt, stuck>>

Placed == {r \in Requests : placed[r] # {}}

\* The statements between a won claim and the end of its key.
OwnerSteps == {"price", "create", "redeem", "save", "release"}
Steps == OwnerSteps \cup {"idle", "lookup", "load", "claim", "relook", "done"}

Keyed(r) == key[r] \in Keys
Owner(r) == Keyed(r) /\ pc[r] \in OwnerSteps

\* The handler r goes on to a statement.
Goto(r, step) == pc' = [pc EXCEPT ![r] = step]

\* Whom handler steps leave alone.
CartSide == <<cart, coupon, added>>
OrderSide == <<placed, priced, used, doubt>>

(***************************************************************************)
(* Faulty variants: each is one of the definitions below as a plausible    *)
(* bug would have it.  No specification uses them; each shows that the     *)
(* property it is paired with can fail.                                    *)
(***************************************************************************)

\* The claim upserts: it wins over whatever row is there.
ClaimByUpsert(r) ==
  /\ pc[r] = "claim" /\ r \notin gone
  /\ record' = [record EXCEPT ![key[r]] = "inflight"]
  /\ Goto(r, "price")
  /\ UNCHANGED <<key, gone, items, told, seen, stuck>>
  /\ UNCHANGED CartSide /\ UNCHANGED OrderSide

\* Losing the claim to a request in flight, the handler creates all the same.
ProceedOnConflict(r) ==
  /\ pc[r] = "relook" /\ r \notin gone
  /\ IF record[key[r]] \in Requests
       THEN told' = [told EXCEPT ![r] = record[key[r]]] /\ Goto(r, "done")
       ELSE Goto(r, "price") /\ UNCHANGED told
  /\ UNCHANGED <<key, gone, items, seen, record, stuck>>
  /\ UNCHANGED CartSide /\ UNCHANGED OrderSide

\* A failed creation forgets to drop the key.
AbortKeepingKey(r) ==
  /\ pc[r] \in {"price", "create"}
  /\ Goto(r, "done")
  /\ UNCHANGED <<key, gone, items, told, seen, record, stuck>>
  /\ UNCHANGED CartSide /\ UNCHANGED OrderSide

\* The order commits and the cart keeps its items.
CommitKeepingCart(r) ==
  /\ pc[r] = "create" /\ r \notin gone
  /\ placed' = [placed EXCEPT ![r] = items[r]]
  /\ Goto(r, "redeem")
  /\ UNCHANGED <<key, gone, items, told, seen, record, stuck, priced, used,
                 doubt>>
  /\ UNCHANGED CartSide

\* The coupon is redeemed when it is priced, before the order exists.
RedeemWhilePricing(r) ==
  /\ pc[r] = "price" /\ r \notin gone
  /\ coupon = "on" => used < MaxUses
  /\ priced' = IF coupon = "on" THEN priced \cup {r} ELSE priced
  /\ used' = IF coupon = "on" THEN used + 1 ELSE used
  /\ Goto(r, "create")
  /\ UNCHANGED <<key, gone, items, told, seen, record, stuck, placed, doubt>>
  /\ UNCHANGED CartSide

(***************************************************************************)
(* The handler                                                             *)
(***************************************************************************)

Init ==
  /\ pc = [r \in Requests |-> "idle"]
  /\ key = [r \in Requests |-> None]
  /\ gone = {}
  /\ items = [r \in Requests |-> {}]
  /\ told = [r \in Requests |-> None]
  /\ record = [k \in Keys |-> "absent"]
  /\ cart = {}
  /\ placed = [r \in Requests |-> {}]
  /\ coupon = "off"
  /\ priced = {}
  /\ used = 0
  /\ added = {}
  /\ seen = [r \in Requests |-> {}]
  /\ doubt = {}
  /\ stuck = {}

\* A request arrives, with a key or without.
Arrive(r, k) ==
  /\ pc[r] = "idle"
  /\ key' = [key EXCEPT ![r] = k]
  /\ Goto(r, IF k = None THEN "load" ELSE "lookup")
  /\ UNCHANGED <<gone, items, told, seen, record, stuck>>
  /\ UNCHANGED CartSide /\ UNCHANGED OrderSide

\* replayIdempotentOrder: replay a finalized key, refuse one in flight.
Lookup(r) ==
  /\ pc[r] = "lookup" /\ r \notin gone
  /\ told' = [told EXCEPT ![r] = IF record[key[r]] \in Requests
                                   THEN record[key[r]] ELSE None]
  /\ Goto(r, IF record[key[r]] = "absent" THEN "load" ELSE "done")
  /\ UNCHANGED <<key, gone, items, seen, record, stuck>>
  /\ UNCHANGED CartSide /\ UNCHANGED OrderSide

\* loadOrderPrerequisites: the cart is read here, outside any transaction.
Load(r) ==
  /\ pc[r] = "load" /\ r \notin gone
  /\ items' = [items EXCEPT ![r] = cart]
  /\ seen' = [seen EXCEPT ![r] = Placed]
  /\ Goto(r, IF cart = {} THEN "done" ELSE IF Keyed(r) THEN "claim" ELSE "price")
  /\ UNCHANGED <<key, gone, told, record, stuck>>
  /\ UNCHANGED CartSide /\ UNCHANGED OrderSide

\* ClaimIdempotencyKey: the insert that only one request wins.
ClaimKey(r) ==
  /\ pc[r] = "claim" /\ r \notin gone
  /\ IF record[key[r]] = "absent"
       THEN record' = [record EXCEPT ![key[r]] = "inflight"] /\ Goto(r, "price")
       ELSE UNCHANGED record /\ Goto(r, "relook")
  /\ UNCHANGED <<key, gone, items, told, seen, stuck>>
  /\ UNCHANGED CartSide /\ UNCHANGED OrderSide

\* The insert took effect and its caller sees an error: a 500, no release.
ClaimInDoubt(r) ==
  /\ pc[r] = "claim"
  /\ record[key[r]] = "absent"
  /\ record' = [record EXCEPT ![key[r]] = "inflight"]
  /\ stuck' = stuck \cup {key[r]}
  /\ Goto(r, "done")
  /\ UNCHANGED <<key, gone, items, told, seen>>
  /\ UNCHANGED CartSide /\ UNCHANGED OrderSide

\* The second lookup, after a lost claim: replay or 409.
Relook(r) ==
  /\ pc[r] = "relook" /\ r \notin gone
  /\ told' = [told EXCEPT ![r] = IF record[key[r]] \in Requests
                                   THEN record[key[r]] ELSE None]
  /\ Goto(r, "done")
  /\ UNCHANGED <<key, gone, items, seen, record, stuck>>
  /\ UNCHANGED CartSide /\ UNCHANGED OrderSide

\* A statement of a request that owns no key fails, and so does the request.
StatementFails(r) ==
  /\ pc[r] \in {"lookup", "load", "claim", "relook"}
  /\ Goto(r, "done")
  /\ UNCHANGED <<key, gone, items, told, seen, record, stuck>>
  /\ UNCHANGED CartSide /\ UNCHANGED OrderSide

\* freezeCartDiscounts: the coupon still has uses left, or the cart has none.
PriceCart(r) ==
  /\ pc[r] = "price" /\ r \notin gone
  /\ coupon = "on" => used < MaxUses
  /\ priced' = IF coupon = "on" THEN priced \cup {r} ELSE priced
  /\ Goto(r, "create")
  /\ UNCHANGED <<key, gone, items, told, seen, record, stuck, placed, used,
                 doubt>>
  /\ UNCHANGED CartSide

\* The creation fails and rolls back: the coupon is used up, stock is short,
\* a statement fails or the client has left.
AbortCreation(r) ==
  /\ pc[r] \in {"price", "create"}
  /\ Goto(r, IF Keyed(r) THEN "release" ELSE "done")
  /\ UNCHANGED <<key, gone, items, told, seen, record, stuck>>
  /\ UNCHANGED CartSide /\ UNCHANGED OrderSide

\* The rest of CreateOrderFromCart's transaction: the order of the items read
\* before, and an empty cart whatever it holds by now.
CommitOrder(r) ==
  /\ pc[r] = "create" /\ r \notin gone
  /\ placed' = [placed EXCEPT ![r] = items[r]]
  /\ cart' = {}
  /\ Goto(r, "redeem")
  /\ UNCHANGED <<key, gone, items, told, seen, record, stuck, coupon, added,
                 priced, used, doubt>>

\* The commit took effect and reports an error: handled as a rollback.
CommitInDoubt(r) ==
  /\ pc[r] = "create"
  /\ placed' = [placed EXCEPT ![r] = items[r]]
  /\ cart' = {}
  /\ doubt' = doubt \cup {r}
  /\ Goto(r, IF Keyed(r) THEN "release" ELSE "done")
  /\ UNCHANGED <<key, gone, items, told, seen, record, stuck, coupon, added,
                 priced, used>>

\* redeemCoupons, best effort; without a key the 201 follows.
Redeem(r) ==
  /\ pc[r] = "redeem"
  /\ \/ used' = used
     \/ r \in priced \ gone /\ used' = used + 1
  /\ IF Keyed(r) THEN Goto(r, "save") /\ UNCHANGED told
                 ELSE Goto(r, "done") /\ told' = [told EXCEPT ![r] = r]
  /\ UNCHANGED <<key, gone, items, seen, record, stuck, placed, priced, doubt>>
  /\ UNCHANGED CartSide

\* SaveIdempotencyKey and the 201.
SaveKey(r) ==
  /\ pc[r] = "save" /\ r \notin gone
  /\ record' = [record EXCEPT ![key[r]] = r]
  /\ told' = [told EXCEPT ![r] = r]
  /\ Goto(r, "done")
  /\ UNCHANGED <<key, gone, items, seen, stuck>>
  /\ UNCHANGED CartSide /\ UNCHANGED OrderSide

\* The save fails, is logged, and the 201 is written all the same.
SaveFails(r) ==
  /\ pc[r] = "save"
  /\ stuck' = stuck \cup {key[r]}
  /\ told' = [told EXCEPT ![r] = r]
  /\ Goto(r, "done")
  /\ UNCHANGED <<key, gone, items, seen, record>>
  /\ UNCHANGED CartSide /\ UNCHANGED OrderSide

\* ReleaseIdempotencyKey deletes a row that is still in flight.
ReleaseKey(r) ==
  /\ pc[r] = "release" /\ r \notin gone
  /\ record' = [record EXCEPT ![key[r]] = IF @ = "inflight" THEN "absent" ELSE @]
  /\ Goto(r, "done")
  /\ UNCHANGED <<key, gone, items, told, seen, stuck>>
  /\ UNCHANGED CartSide /\ UNCHANGED OrderSide

ReleaseFails(r) ==
  /\ pc[r] = "release"
  /\ stuck' = stuck \cup {key[r]}
  /\ Goto(r, "done")
  /\ UNCHANGED <<key, gone, items, told, seen, record>>
  /\ UNCHANGED CartSide /\ UNCHANGED OrderSide

(***************************************************************************)
(* The environment                                                         *)
(***************************************************************************)

\* The client closes its connection: the request's context is cancelled.
Disconnect(r) ==
  /\ pc[r] \notin {"idle", "done"} /\ r \notin gone
  /\ gone' = gone \cup {r}
  /\ UNCHANGED <<pc, key, items, told, seen, record, stuck>>
  /\ UNCHANGED CartSide /\ UNCHANGED OrderSide

\* The process dies with every handler in it; the database survives.
Crash ==
  /\ \E r \in Requests : pc[r] \notin {"idle", "done"}
  /\ pc' = [r \in Requests |-> IF pc[r] = "idle" THEN "idle" ELSE "done"]
  /\ stuck' = stuck \cup {k \in Keys : record[k] = "inflight"}
  /\ UNCHANGED <<key, gone, items, told, seen, record>>
  /\ UNCHANGED CartSide /\ UNCHANGED OrderSide

\* AddItem, or UpdateItemQuantity to more.
AddItems(S) ==
  /\ S # {} /\ S \cap added = {}
  /\ cart' = cart \cup S
  /\ added' = added \cup S
  /\ UNCHANGED <<pc, key, gone, items, told, seen, record, stuck, coupon>>
  /\ UNCHANGED OrderSide

\* RemoveItem, UpdateItemQuantity to less, or ClearCart.
RemoveItems(S) ==
  /\ S # {} /\ S \subseteq cart
  /\ cart' = cart \ S
  /\ UNCHANGED <<pc, key, gone, items, told, seen, record, stuck, coupon, added>>
  /\ UNCHANGED OrderSide

\* AddCoupon: the code is validated, then attached.
CheckCoupon ==
  /\ coupon = "off"
  /\ used < MaxUses
  /\ coupon' = "checked"
  /\ UNCHANGED <<pc, key, gone, items, told, seen, record, stuck, cart, added>>
  /\ UNCHANGED OrderSide

AddCouponCode ==
  /\ coupon = "checked"
  /\ coupon' = "on"
  /\ UNCHANGED <<pc, key, gone, items, told, seen, record, stuck, cart, added>>
  /\ UNCHANGED OrderSide

RemoveCouponCode ==
  /\ coupon = "on"
  /\ coupon' = "off"
  /\ UNCHANGED <<pc, key, gone, items, told, seen, record, stuck, cart, added>>
  /\ UNCHANGED OrderSide

Handler(r) ==
  \/ Lookup(r) \/ Load(r) \/ ClaimKey(r) \/ ClaimInDoubt(r) \/ Relook(r)
  \/ StatementFails(r) \/ PriceCart(r) \/ AbortCreation(r)
  \/ CommitOrder(r) \/ CommitInDoubt(r) \/ Redeem(r)
  \/ SaveKey(r) \/ SaveFails(r) \/ ReleaseKey(r) \/ ReleaseFails(r)

Next ==
  \/ \E r \in Requests : Handler(r) \/ Disconnect(r)
  \/ \E r \in Requests, k \in Keys \cup {None} : Arrive(r, k)
  \/ Crash
  \/ \E S \in SUBSET Goods : AddItems(S) \/ RemoveItems(S)
  \/ CheckCoupon \/ AddCouponCode \/ RemoveCouponCode

Spec == Init /\ [][Next]_vars

(***************************************************************************)
(* Properties that hold                                                    *)
(***************************************************************************)

\* Every variable has its values; a key column never names a missing row.
TypeOK ==
  /\ pc \in [Requests -> Steps]
  /\ key \in [Requests -> Keys \cup {None}]
  /\ gone \subseteq Requests
  /\ items \in [Requests -> SUBSET Goods]
  /\ told \in [Requests -> Requests \cup {None}]
  /\ record \in [Keys -> {"absent", "inflight"} \cup Requests]
  /\ cart \subseteq Goods
  /\ placed \in [Requests -> SUBSET Goods]
  /\ coupon \in {"off", "checked", "on"}
  /\ priced \subseteq Requests
  /\ used \in Nat
  /\ added \subseteq Goods
  /\ seen \in [Requests -> SUBSET Requests]
  /\ doubt \subseteq Requests
  /\ stuck \subseteq Keys

\* The orders of key k whose commit their handler saw succeed.
Acknowledged(k) == {r \in Placed \ doubt : key[r] = k}

\* However attempts with one key interleave, disconnect and crash, a second
\* order under that key exists only when the first one's commit was in doubt.
OneAcknowledgedOrder ==
  \A k \in Keys : \A r, s \in Acknowledged(k) : r = s

\* A key is in flight because a handler still works on it, or because its
\* handler ended in a crash, a cancelled context or a failed statement: no
\* path through the handler forgets the key it claimed.
StuckKeyHasCause ==
  \A k \in Keys :
    record[k] = "inflight"
      => k \in stuck \/ \E r \in Requests : key[r] = k /\ Owner(r)

\* A good ends up on two orders only when each of their requests read the
\* cart before the other committed: the DELETE of the cart stops all others.
OrderedTwiceOnlyByOverlap ==
  \A r, s \in Placed :
    r # s /\ placed[r] \cap placed[s] # {} => s \notin seen[r]

\* used_count counts redemptions of orders that exist, at most one for each.
UseCountNeverAhead == used <= Cardinality(priced \cap Placed)

\* The order acknowledged under each key, and what keyed requests were told.
OrderIn(orders) == IF orders = {} THEN None ELSE CHOOSE r \in orders : TRUE
OrderOf == [k \in Keys |-> OrderIn(Acknowledged(k))]
KeyedTold == [r \in Requests |-> IF Keyed(r) THEN told[r] ELSE None]

ShopperOrders ==
  INSTANCE ExactlyOnce WITH outcome <- OrderOf, told <- KeyedTold

\* Exactly one order per key is acknowledged, and every replay names it.
KeyPromiseKept == ShopperOrders!Spec

(***************************************************************************)
(* What a comment says and the code does not do                            *)
(***************************************************************************)

\* max_uses is enforced across orders (coupons/repository.go:28).
CouponWithinLimit == Cardinality(priced \cap Placed) <= MaxUses
=============================================================================
