--------------------------- MODULE CheckoutProofs ---------------------------
(***************************************************************************)
(* Proofs about Checkout, for any keys, goods and use limit and any finite *)
(* set of requests.                                                        *)
(*                                                                         *)
(* The inductive invariant IInv has four parts: what the handler of a      *)
(* request knows at each statement (HandlerKnows), what the row of a key   *)
(* says about the requests that carry it (KeyTells), how goods move from   *)
(* the cart to orders (GoodsMove), and how far the use count has come      *)
(* (CountFollows).                                                         *)
(***************************************************************************)
EXTENDS Checkout, FiniteSetTheorems, TLAPS

\* The statements before an order can exist.
Before == {"idle", "lookup", "load", "claim", "relook", "price", "create"}

\* What holds when the handler of r is about to run a statement.
HandlerKnows ==
  \A r \in Requests :
    /\ pc[r] = "idle" => key[r] = None
    /\ pc[r] \in {"lookup", "claim", "relook", "save", "release"} => Keyed(r)
    /\ pc[r] \in Before => placed[r] = {} /\ r \notin doubt
    /\ pc[r] \in {"claim", "relook", "price", "create"} => items[r] # {}
    /\ pc[r] \in {"redeem", "save"} => placed[r] # {} /\ r \notin doubt
    /\ pc[r] = "release" => placed[r] = {} \/ r \in doubt
    /\ pc[r] # "done" => told[r] = None

\* A request whose commit its handler saw succeed.
Acked(r) == placed[r] # {} /\ r \notin doubt

\* What the row of a key says.  An acknowledged order leaves its key in
\* flight or finalized for good, and no other request can own the key again.
KeyTells ==
  /\ \A r \in Requests : Owner(r) => record[key[r]] = "inflight"
  /\ \A r, s \in Requests : Owner(r) /\ Owner(s) /\ key[r] = key[s] => r = s
  /\ \A k \in Keys : record[k] \in Requests =>
       key[record[k]] = k /\ Acked(record[k])
  /\ \A r \in Requests : Keyed(r) /\ Acked(r) =>
       /\ record[key[r]] \in {r, "inflight"}
       /\ \A s \in Requests : Owner(s) /\ key[s] = key[r]
            => s = r /\ pc[s] \in {"redeem", "save"}
  /\ \A r \in Requests : Keyed(r) /\ told[r] # None =>
       told[r] \in Requests /\ key[told[r]] = key[r] /\ Acked(told[r])

\* Goods are in the cart or on orders, and a request that read the cart after
\* an order committed holds none of that order's goods.
GoodsMove ==
  /\ cart \subseteq added
  /\ \A r \in Requests : /\ items[r] \subseteq added
                         /\ cart \cap placed[r] = {}
                         /\ placed[r] \in {{}, items[r]}
                         /\ seen[r] \subseteq Placed
  /\ \A r, q \in Requests : items[r] \cap placed[q] # {} => q \notin seen[r]

\* The discounted orders whose redemption is over, done or lost.
Counted == {r \in priced \cap Placed : pc[r] # "redeem"}

CountFollows == used <= Cardinality(Counted)

IInv ==
  /\ TypeOK
  /\ HandlerKnows
  /\ KeyTells
  /\ OneAcknowledgedOrder
  /\ StuckKeyHasCause
  /\ GoodsMove
  /\ CountFollows

\* Before any request there is nothing to disagree about.
THEOREM InitIInv == Init => IInv
<1>. SUFFICES ASSUME Init PROVE IInv
  OBVIOUS
<1>. USE DEF Init
<1>1. TypeOK
  BY UseLimit DEF TypeOK, Steps, OwnerSteps
<1>2. Placed = {} /\ priced = {}
  BY DEF Placed
<1>3. HandlerKnows
  BY DEF HandlerKnows
<1>4. KeyTells /\ StuckKeyHasCause
  BY RecordStates DEF KeyTells, StuckKeyHasCause, Owner, OwnerSteps, Acked
<1>5. OneAcknowledgedOrder
  BY <1>2 DEF OneAcknowledgedOrder, Acknowledged
<1>6. GoodsMove
  BY DEF GoodsMove
<1>7. CountFollows
  BY <1>2, FS_EmptySet DEF CountFollows, Counted
<1>. QED
  BY <1>1, <1>3, <1>4, <1>5, <1>6, <1>7 DEF IInv

(***************************************************************************)
(* Consecution, one part of the invariant at a time.                       *)
(***************************************************************************)

\* The variables keep their values.
LEMMA TypeOKKept == IInv /\ Next => TypeOK'
<1>. SUFFICES ASSUME IInv, Next PROVE TypeOK'
  OBVIOUS
<1>. USE DEF IInv, TypeOK, Goto, CartSide, OrderSide, Steps, OwnerSteps
<1>1. ASSUME NEW r \in Requests, NEW k \in Keys \cup {None}, Arrive(r, k)
      PROVE  TypeOK'
  BY <1>1 DEF Arrive
<1>2. ASSUME NEW r \in Requests, Lookup(r) \/ Relook(r) PROVE TypeOK'
  BY <1>2 DEF Lookup, Relook
<1>3. ASSUME NEW r \in Requests, Load(r) PROVE TypeOK'
  BY <1>3 DEF Load, Placed
<1>4. ASSUME NEW r \in Requests, ClaimKey(r) \/ ClaimInDoubt(r) PROVE TypeOK'
  <2>1. key[r] \in Keys
    BY <1>4 DEF ClaimKey, ClaimInDoubt, HandlerKnows, Keyed
  <2>. QED
    BY <1>4, <2>1 DEF ClaimKey, ClaimInDoubt
<1>5. ASSUME NEW r \in Requests, StatementFails(r) \/ AbortCreation(r) \/ Disconnect(r)
      PROVE  TypeOK'
  BY <1>5 DEF StatementFails, AbortCreation, Disconnect
<1>6. ASSUME NEW r \in Requests, PriceCart(r) PROVE TypeOK'
  BY <1>6 DEF PriceCart
<1>7. ASSUME NEW r \in Requests, CommitOrder(r) \/ CommitInDoubt(r) PROVE TypeOK'
  BY <1>7 DEF CommitOrder, CommitInDoubt
<1>8. ASSUME NEW r \in Requests, Redeem(r) PROVE TypeOK'
  BY <1>8 DEF Redeem
<1>9. ASSUME NEW r \in Requests,
             SaveKey(r) \/ SaveFails(r) \/ ReleaseKey(r) \/ ReleaseFails(r)
      PROVE  TypeOK'
  <2>1. key[r] \in Keys
    BY <1>9 DEF SaveKey, SaveFails, ReleaseKey, ReleaseFails, HandlerKnows, Keyed
  <2>. QED
    BY <1>9, <2>1 DEF SaveKey, SaveFails, ReleaseKey, ReleaseFails
<1>10. CASE Crash
  BY <1>10 DEF Crash
<1>11. ASSUME NEW S \in SUBSET Goods, AddItems(S) \/ RemoveItems(S) PROVE TypeOK'
  BY <1>11 DEF AddItems, RemoveItems
<1>12. CASE CheckCoupon \/ AddCouponCode \/ RemoveCouponCode
  BY <1>12 DEF CheckCoupon, AddCouponCode, RemoveCouponCode
<1>. QED
  BY <1>1, <1>2, <1>3, <1>4, <1>5, <1>6, <1>7, <1>8, <1>9, <1>10, <1>11, <1>12
     DEF Next, Handler

\* Each statement leaves behind what the next one relies on.
LEMMA HandlerKnowsKept == IInv /\ Next => HandlerKnows'
<1>. SUFFICES ASSUME IInv, Next PROVE HandlerKnows'
  OBVIOUS
<1>. USE DEF IInv, TypeOK, HandlerKnows, Keyed, Before, Goto, CartSide, OrderSide
<1>1. ASSUME NEW r \in Requests, NEW k \in Keys \cup {None}, Arrive(r, k)
      PROVE  HandlerKnows'
  BY <1>1 DEF Arrive
<1>2. ASSUME NEW r \in Requests, Lookup(r) \/ Relook(r) PROVE HandlerKnows'
  <2>1. /\ pc[r] \in {"lookup", "relook"} /\ pc'[r] \in {"load", "done"}
        /\ pc'[r] = "load" => told'[r] = None
        /\ \A q \in Requests \ {r} : pc'[q] = pc[q] /\ told'[q] = told[q]
        /\ UNCHANGED <<key, items, placed, doubt>>
    BY <1>2, RecordStates DEF Lookup, Relook
  <2>. QED
    BY <2>1
<1>3. ASSUME NEW r \in Requests, Load(r) PROVE HandlerKnows'
  BY <1>3 DEF Load
<1>4. ASSUME NEW r \in Requests, ClaimKey(r) \/ ClaimInDoubt(r)
      PROVE  HandlerKnows'
  BY <1>4 DEF ClaimKey, ClaimInDoubt
<1>5. ASSUME NEW r \in Requests, StatementFails(r) \/ AbortCreation(r) \/ Disconnect(r)
      PROVE  HandlerKnows'
  BY <1>5 DEF StatementFails, AbortCreation, Disconnect
<1>6. ASSUME NEW r \in Requests, PriceCart(r) PROVE HandlerKnows'
  BY <1>6 DEF PriceCart
<1>7. ASSUME NEW r \in Requests, CommitOrder(r) \/ CommitInDoubt(r)
      PROVE  HandlerKnows'
  BY <1>7 DEF CommitOrder, CommitInDoubt
<1>8. ASSUME NEW r \in Requests, Redeem(r) PROVE HandlerKnows'
  BY <1>8 DEF Redeem
<1>9. ASSUME NEW r \in Requests,
             SaveKey(r) \/ SaveFails(r) \/ ReleaseKey(r) \/ ReleaseFails(r)
      PROVE  HandlerKnows'
  BY <1>9 DEF SaveKey, SaveFails, ReleaseKey, ReleaseFails
<1>10. CASE Crash
  BY <1>10 DEF Crash
<1>11. ASSUME NEW S \in SUBSET Goods, AddItems(S) \/ RemoveItems(S)
       PROVE  HandlerKnows'
  BY <1>11 DEF AddItems, RemoveItems
<1>12. CASE CheckCoupon \/ AddCouponCode \/ RemoveCouponCode
  BY <1>12 DEF CheckCoupon, AddCouponCode, RemoveCouponCode
<1>. QED
  BY <1>1, <1>2, <1>3, <1>4, <1>5, <1>6, <1>7, <1>8, <1>9, <1>10, <1>11, <1>12
     DEF Next, Handler

\* The goods of an order left the cart with its commit.
LEMMA GoodsMoveKept == IInv /\ Next => GoodsMove'
<1>. SUFFICES ASSUME IInv, Next PROVE GoodsMove'
  OBVIOUS
<1>. USE DEF IInv, TypeOK, HandlerKnows, GoodsMove, Before, Placed, Goto,
             CartSide, OrderSide
<1>1. CASE UNCHANGED <<items, seen, cart, placed, added>>
  BY <1>1
<1>2. ASSUME NEW r \in Requests, Load(r) PROVE GoodsMove'
  BY <1>2 DEF Load
<1>3. ASSUME NEW r \in Requests, CommitOrder(r) \/ CommitInDoubt(r)
      PROVE  GoodsMove'
  <2>1. /\ cart' = {} /\ placed' = [placed EXCEPT ![r] = items[r]]
        /\ UNCHANGED <<items, seen, added>> /\ placed[r] = {}
    BY <1>3 DEF CommitOrder, CommitInDoubt
  <2>2. \A q \in Requests : r \notin seen[q]
    BY <2>1
  <2>. QED
    BY <2>1, <2>2
<1>4. ASSUME NEW S \in SUBSET Goods, AddItems(S) \/ RemoveItems(S)
      PROVE  GoodsMove'
  BY <1>4 DEF AddItems, RemoveItems
<1>5. ASSUME NEW r \in Requests, NEW k \in Keys \cup {None},
             \/ Arrive(r, k) \/ Lookup(r) \/ ClaimKey(r) \/ ClaimInDoubt(r)
             \/ Relook(r) \/ StatementFails(r) \/ PriceCart(r)
             \/ AbortCreation(r) \/ Redeem(r) \/ SaveKey(r) \/ SaveFails(r)
             \/ ReleaseKey(r) \/ ReleaseFails(r) \/ Disconnect(r)
      PROVE  GoodsMove'
  BY <1>1, <1>5 DEF Arrive, Lookup, ClaimKey, ClaimInDoubt, Relook,
     StatementFails, PriceCart, AbortCreation, Redeem, SaveKey, SaveFails,
     ReleaseKey, ReleaseFails, Disconnect
<1>6. CASE Crash \/ CheckCoupon \/ AddCouponCode \/ RemoveCouponCode
  BY <1>1, <1>6 DEF Crash, CheckCoupon, AddCouponCode, RemoveCouponCode
<1>. QED
  BY <1>2, <1>3, <1>4, <1>5, <1>6 DEF Next, Handler

\* Nobody takes over a key that an acknowledged order has used.
LEMMA KeyTellsKept ==
  IInv /\ Next => KeyTells' /\ OneAcknowledgedOrder' /\ StuckKeyHasCause'
<1>. DEFINE Kept == KeyTells' /\ OneAcknowledgedOrder' /\ StuckKeyHasCause'
<1>. SUFFICES ASSUME IInv, Next PROVE Kept
  OBVIOUS
<1>. USE DEF IInv, TypeOK, HandlerKnows, KeyTells, OneAcknowledgedOrder,
             StuckKeyHasCause, Acknowledged, Placed, Acked, Owner, Keyed,
             Before, OwnerSteps, Goto, CartSide, OrderSide
<1>. USE RecordStates, KeyNames
<1>1. ASSUME NEW r \in Requests, NEW k \in Keys \cup {None}, Arrive(r, k)
      PROVE  Kept
  BY <1>1 DEF Arrive
<1>2. ASSUME NEW r \in Requests, Lookup(r) PROVE Kept
  BY <1>2 DEF Lookup
<1>3. ASSUME NEW r \in Requests, Relook(r) PROVE Kept
  BY <1>3 DEF Relook
<1>4. ASSUME NEW r \in Requests, Load(r) PROVE Kept
  BY <1>4 DEF Load
<1>5. ASSUME NEW r \in Requests, ClaimKey(r) PROVE Kept
  BY <1>5 DEF ClaimKey
<1>6. ASSUME NEW r \in Requests, ClaimInDoubt(r) PROVE Kept
  BY <1>6 DEF ClaimInDoubt
<1>7. ASSUME NEW r \in Requests, StatementFails(r) PROVE Kept
  BY <1>7 DEF StatementFails
<1>8. ASSUME NEW r \in Requests, PriceCart(r) PROVE Kept
  BY <1>8 DEF PriceCart
<1>9. ASSUME NEW r \in Requests, AbortCreation(r) PROVE Kept
  BY <1>9 DEF AbortCreation
<1>10. ASSUME NEW r \in Requests, CommitOrder(r) PROVE Kept
  BY <1>10 DEF CommitOrder
<1>11. ASSUME NEW r \in Requests, CommitInDoubt(r) PROVE Kept
  BY <1>11 DEF CommitInDoubt
<1>12. ASSUME NEW r \in Requests, Redeem(r) PROVE Kept
  BY <1>12 DEF Redeem
<1>13. ASSUME NEW r \in Requests, SaveKey(r) PROVE Kept
  BY <1>13 DEF SaveKey
<1>14. ASSUME NEW r \in Requests, SaveFails(r) PROVE Kept
  BY <1>14 DEF SaveFails
<1>15. ASSUME NEW r \in Requests, ReleaseKey(r) PROVE Kept
  BY <1>15 DEF ReleaseKey
<1>16. ASSUME NEW r \in Requests, ReleaseFails(r) PROVE Kept
  BY <1>16 DEF ReleaseFails
<1>17. CASE Crash
  BY <1>17 DEF Crash
<1>18. CASE UNCHANGED <<pc, key, record, placed, doubt, told, stuck>>
  BY <1>18
<1>19. ASSUME NEW r \in Requests, Disconnect(r) PROVE Kept
  BY <1>18, <1>19 DEF Disconnect
<1>20. ASSUME NEW S \in SUBSET Goods, AddItems(S) \/ RemoveItems(S) PROVE Kept
  BY <1>18, <1>20 DEF AddItems, RemoveItems
<1>21. CASE CheckCoupon \/ AddCouponCode \/ RemoveCouponCode
  BY <1>18, <1>21 DEF CheckCoupon, AddCouponCode, RemoveCouponCode
<1>. HIDE DEF Kept, IInv, TypeOK, HandlerKnows, KeyTells, Owner, Keyed
<1>. QED
  BY <1>1, <1>2, <1>3, <1>4, <1>5, <1>6, <1>7, <1>8, <1>9, <1>10, <1>11,
     <1>12, <1>13, <1>14, <1>15, <1>16, <1>17, <1>19, <1>20, <1>21
     DEF Next, Handler

\* More requests count for no less.
LEMMA CountedGrows ==
  ASSUME NEW S \in SUBSET Requests, NEW T \in SUBSET Requests, S \subseteq T
  PROVE  Cardinality(S) \in Nat /\ Cardinality(S) <= Cardinality(T)
<1>1. IsFiniteSet(T)
  BY RequestsFinite, FS_Subset
<1>. QED
  BY <1>1, FS_Subset, FS_CardinalityType

\* Each redemption is of an order of its own.
LEMMA CountFollowsKept == IInv /\ Next => CountFollows'
<1>. SUFFICES ASSUME IInv, Next PROVE CountFollows'
  OBVIOUS
<1>. USE DEF IInv, TypeOK, HandlerKnows, Before, Goto, CartSide, OrderSide
<1>1. Counted \in SUBSET Requests /\ Counted' \in SUBSET Requests
  BY DEF Counted, Placed
<1>2. Counted \subseteq Counted' /\ used' = used => CountFollows'
  BY <1>1, CountedGrows DEF CountFollows
<1>3. ASSUME NEW r \in Requests, NEW k \in Keys \cup {None},
             \/ Arrive(r, k) \/ Lookup(r) \/ Load(r) \/ ClaimKey(r)
             \/ ClaimInDoubt(r) \/ Relook(r) \/ StatementFails(r)
             \/ AbortCreation(r) \/ SaveKey(r) \/ SaveFails(r)
             \/ ReleaseKey(r) \/ ReleaseFails(r) \/ Disconnect(r)
      PROVE  CountFollows'
  <2>1. /\ UNCHANGED <<placed, priced, used>>
        /\ \A q \in Requests : pc'[q] = "redeem" => pc[q] = "redeem"
    BY <1>3 DEF Arrive, Lookup, Load, ClaimKey, ClaimInDoubt, Relook,
       StatementFails, AbortCreation, SaveKey, SaveFails, ReleaseKey,
       ReleaseFails, Disconnect
  <2>. QED
    BY <1>2, <2>1 DEF Counted, Placed
<1>4. ASSUME NEW r \in Requests, PriceCart(r) PROVE CountFollows'
  <2>1. /\ priced \subseteq priced' /\ UNCHANGED <<placed, used>>
        /\ \A q \in Requests : pc'[q] = "redeem" => pc[q] = "redeem"
    BY <1>4 DEF PriceCart
  <2>. QED
    BY <1>2, <2>1 DEF Counted, Placed
<1>5. ASSUME NEW r \in Requests, CommitOrder(r) \/ CommitInDoubt(r)
      PROVE  CountFollows'
  <2>1. /\ UNCHANGED <<priced, used>> /\ placed[r] = {}
        /\ \A q \in Requests \ {r} : placed'[q] = placed[q] /\ pc'[q] = pc[q]
    BY <1>5 DEF CommitOrder, CommitInDoubt
  <2>. QED
    BY <1>2, <2>1 DEF Counted, Placed
<1>6. ASSUME NEW r \in Requests, Redeem(r) PROVE CountFollows'
  <2>1. /\ UNCHANGED <<priced, placed>> /\ pc[r] = "redeem" /\ pc'[r] # "redeem"
        /\ \A q \in Requests \ {r} : pc'[q] = pc[q]
        /\ used' = used \/ (r \in priced /\ used' = used + 1)
    BY <1>6 DEF Redeem
  <2>2. Counted \subseteq Counted'
    BY <2>1 DEF Counted, Placed
  <2>3. CASE used' # used
    <3>1. r \in Placed
      BY <2>1 DEF Placed
    <3>2. Counted' = Counted \cup {r} /\ r \notin Counted
      BY <2>1, <2>3, <3>1 DEF Counted, Placed
    <3>3. IsFiniteSet(Counted)
      BY <1>1, RequestsFinite, FS_Subset
    <3>4. Cardinality(Counted') = Cardinality(Counted) + 1
      BY <3>2, <3>3, FS_AddElement
    <3>. QED
      BY <2>1, <2>3, <3>3, <3>4, FS_CardinalityType DEF CountFollows
  <2>. QED
    BY <1>2, <2>2, <2>3
<1>7. CASE Crash
  <2>1. /\ UNCHANGED <<placed, priced, used>>
        /\ \A q \in Requests : pc'[q] # "redeem"
    BY <1>7 DEF Crash
  <2>. QED
    BY <1>2, <2>1 DEF Counted, Placed
<1>8. ASSUME NEW S \in SUBSET Goods, AddItems(S) \/ RemoveItems(S)
      PROVE  CountFollows'
  BY <1>2, <1>8 DEF AddItems, RemoveItems, Counted, Placed
<1>9. CASE CheckCoupon \/ AddCouponCode \/ RemoveCouponCode
  BY <1>2, <1>9 DEF CheckCoupon, AddCouponCode, RemoveCouponCode, Counted, Placed
<1>. HIDE DEF IInv, TypeOK, HandlerKnows
<1>. QED
  BY <1>3, <1>4, <1>5, <1>6, <1>7, <1>8, <1>9 DEF Next, Handler

\* What every step keeps.
THEOREM NextIInv == IInv /\ [Next]_vars => IInv'
<1>1. CASE UNCHANGED vars
  BY <1>1 DEF vars, IInv, TypeOK, HandlerKnows, KeyTells, OneAcknowledgedOrder,
     StuckKeyHasCause, GoodsMove, CountFollows, Counted, Acked, Acknowledged,
     Owner, Keyed, Placed
<1>2. IInv /\ Next => IInv'
  BY TypeOKKept, HandlerKnowsKept, KeyTellsKept, GoodsMoveKept, CountFollowsKept
     DEF IInv
<1>. QED
  BY <1>1, <1>2

(***************************************************************************)
(* Theorems                                                                *)
(***************************************************************************)

\* Every reachable state satisfies the inductive invariant.
THEOREM Invariance == Spec => []IInv
BY InitIInv, NextIInv, PTL DEF Spec

\* The variables keep their values; a key's row never names a missing order.
THEOREM TypeCorrect == Spec => []TypeOK
<1>1. IInv => TypeOK
  BY DEF IInv
<1>. QED
  BY <1>1, Invariance, PTL

\* However many attempts carry a key, one order of theirs is acknowledged.
THEOREM KeysOrderOnce == Spec => []OneAcknowledgedOrder
<1>1. IInv => OneAcknowledgedOrder
  BY DEF IInv
<1>. QED
  BY <1>1, Invariance, PTL

\* No path through the handler forgets a key that it claimed.
THEOREM StuckKeysExplained == Spec => []StuckKeyHasCause
<1>1. IInv => StuckKeyHasCause
  BY DEF IInv
<1>. QED
  BY <1>1, Invariance, PTL

\* Only requests that read the cart before each other's commit order a good
\* twice.
THEOREM GoodsOrderedOnce == Spec => []OrderedTwiceOnlyByOverlap
<1>1. IInv => OrderedTwiceOnlyByOverlap
  BY DEF IInv, GoodsMove, OrderedTwiceOnlyByOverlap, Placed
<1>. QED
  BY <1>1, Invariance, PTL

\* The use count of a coupon never runs ahead of the orders discounted by it.
THEOREM UsesAreOrders == Spec => []UseCountNeverAhead
<1>1. IInv => UseCountNeverAhead
  <2>. SUFFICES ASSUME IInv PROVE UseCountNeverAhead
    OBVIOUS
  <2>1. Counted \subseteq priced \cap Placed /\ priced \cap Placed \in SUBSET Requests
    BY DEF Counted, Placed
  <2>2. Cardinality(Counted) \in Nat
          /\ Cardinality(Counted) <= Cardinality(priced \cap Placed)
    BY <2>1, CountedGrows
  <2>3. Cardinality(priced \cap Placed) \in Nat
    BY <2>1, CountedGrows
  <2>. QED
    BY <2>2, <2>3 DEF IInv, TypeOK, CountFollows, UseCountNeverAhead
<1>. QED
  BY <1>1, Invariance, PTL

(***************************************************************************)
(* Checkout implements ExactlyOnce.  A commit whose handler sees it        *)
(* succeed acknowledges the order; a reply that names an order tells of    *)
(* it; every other step leaves the abstract state alone.                   *)
(***************************************************************************)

\* The mapping picks the one order that a key has.
LEMMA OrderOfKey ==
  ASSUME IInv
  PROVE  /\ \A k \in Keys : Acknowledged(k) = {} => OrderOf[k] = None
         /\ \A r \in Requests : Keyed(r) /\ Acked(r) => OrderOf[key[r]] = r
<1>1. ASSUME NEW r \in Requests, Keyed(r), Acked(r) PROVE OrderOf[key[r]] = r
  <2>1. key[r] \in Keys /\ r \in Acknowledged(key[r])
    BY <1>1 DEF Keyed, Acked, Acknowledged, Placed
  <2>2. \A q \in Requests : q \in Acknowledged(key[r]) => q = r
    BY <2>1 DEF IInv, OneAcknowledgedOrder
  <2>3. Acknowledged(key[r]) = {r}
    BY <2>1, <2>2 DEF Acknowledged, Placed
  <2>4. OrderIn({r}) = r
    BY DEF OrderIn
  <2>. QED
    BY <2>1, <2>3, <2>4 DEF OrderOf
<1>. QED
  BY <1>1 DEF OrderOf, OrderIn

\* The abstract state rests on the orders, their doubts, keys and replies.
LEMMA SameOrders ==
  ASSUME \A k \in Keys : Acknowledged(k)' = Acknowledged(k)
  PROVE  OrderOf' = OrderOf
BY DEF OrderOf

\* A request that is told what it was not told before: one abstract step.
LEMMA TellStep ==
  ASSUME IInv, NEW r \in Requests, NEW o \in Requests,
         Keyed(r), told[r] = None, key[o] = key[r], Acked(o),
         told' = [told EXCEPT ![r] = o], UNCHANGED <<key, placed, doubt>>
  PROVE  ShopperOrders!Next
<1>1. key[r] \in Keys /\ Keyed(o) /\ OrderOf[key[r]] = o
  BY OrderOfKey DEF Keyed
<1>2. OrderOf' = OrderOf
  BY SameOrders DEF Acknowledged, Placed
<1>3. KeyedTold[r] = None /\ KeyedTold' = [KeyedTold EXCEPT ![r] = o]
  BY DEF KeyedTold, Keyed, IInv, TypeOK
<1>4. o # None
  BY KeyNames
<1>. QED
  BY <1>1, <1>2, <1>3, <1>4 DEF ShopperOrders!Next, ShopperOrders!Tell

\* A reply from the key's row names the order the key has.
LEMMA ReplayStep ==
  ASSUME IInv, NEW r \in Requests, pc[r] \in {"lookup", "relook"},
         told' = [told EXCEPT ![r] = IF record[key[r]] \in Requests
                                       THEN record[key[r]] ELSE None],
         UNCHANGED <<key, placed, doubt>>
  PROVE  ShopperOrders!Next \/ UNCHANGED ShopperOrders!vars
<1>1. Keyed(r) /\ told[r] = None
  BY DEF IInv, HandlerKnows
<1>2. CASE record[key[r]] \in Requests
  <2>1. key[record[key[r]]] = key[r] /\ Acked(record[key[r]])
    BY <1>1, <1>2 DEF IInv, KeyTells, Keyed
  <2>. QED
    BY <1>1, <1>2, <2>1, TellStep
<1>3. CASE record[key[r]] \notin Requests
  <2>1. told' = told
    BY <1>1, <1>3 DEF IInv, TypeOK
  <2>2. OrderOf' = OrderOf
    BY SameOrders DEF Acknowledged, Placed
  <2>3. KeyedTold' = KeyedTold
    BY <2>1 DEF KeyedTold, Keyed
  <2>. QED
    BY <2>2, <2>3 DEF ShopperOrders!vars
<1>. QED
  BY <1>2, <1>3

\* An arrival with a key is an abstract arrival.
LEMMA ArriveStep ==
  ASSUME IInv, NEW r \in Requests, NEW k \in Keys \cup {None}, Arrive(r, k)
  PROVE  ShopperOrders!Next \/ UNCHANGED ShopperOrders!vars
<1>. USE DEF IInv, TypeOK, HandlerKnows, Before
<1>1. /\ key[r] = None /\ placed[r] = {} /\ told[r] = None
      /\ key' = [key EXCEPT ![r] = k]
      /\ UNCHANGED <<placed, doubt, told>>
  BY DEF Arrive, OrderSide
<1>2. OrderOf' = OrderOf
  <2>1. \A j \in Keys : Acknowledged(j)' = Acknowledged(j)
    BY <1>1 DEF Acknowledged, Placed
  <2>. QED
    BY <2>1, SameOrders
<1>3. KeyedTold' = KeyedTold
  BY <1>1 DEF KeyedTold, Keyed
<1>4. CASE k = None
  <2>1. key' = key
    BY <1>1, <1>4
  <2>. QED
    BY <1>2, <1>3, <2>1 DEF ShopperOrders!vars
<1>5. CASE k \in Keys
  BY <1>1, <1>2, <1>3, <1>5 DEF ShopperOrders!Next, ShopperOrders!Arrive
<1>. QED
  BY <1>4, <1>5

\* The commit of an order acknowledges it under its key.
LEMMA CommitStep ==
  ASSUME IInv, NEW r \in Requests, CommitOrder(r)
  PROVE  ShopperOrders!Next \/ UNCHANGED ShopperOrders!vars
<1>1. /\ pc[r] = "create" /\ placed[r] = {} /\ r \notin doubt /\ items[r] # {}
      /\ placed' = [placed EXCEPT ![r] = items[r]]
      /\ UNCHANGED <<key, doubt, told>>
  BY DEF CommitOrder, IInv, HandlerKnows, Before
<1>2. KeyedTold' = KeyedTold
  BY <1>1 DEF KeyedTold, Keyed
<1>3. \A k \in Keys : Acknowledged(k)' = IF k = key[r] THEN Acknowledged(k) \cup {r}
                                                      ELSE Acknowledged(k)
  BY <1>1 DEF Acknowledged, Placed, IInv, TypeOK
<1>4. CASE Keyed(r)
  <2>1. key[r] \in Keys /\ Acknowledged(key[r]) = {}
    <3>1. Owner(r)
      BY <1>1, <1>4 DEF Owner, OwnerSteps
    <3>2. \A q \in Requests : Keyed(q) /\ Acked(q) => key[q] # key[r]
      BY <1>1, <3>1 DEF IInv, KeyTells
    <3>. QED
      BY <1>4, <3>2 DEF Keyed, Acknowledged, Acked, Placed
  <2>2. OrderOf[key[r]] = None
    BY <2>1 DEF OrderOf, OrderIn
  <2>3. \A k \in Keys : OrderIn(Acknowledged(k)') =
                         IF k = key[r] THEN OrderIn({r}) ELSE OrderIn(Acknowledged(k))
    BY <1>3, <2>1
  <2>4. OrderIn({r}) = r
    BY DEF OrderIn
  <2>5. OrderOf' = [OrderOf EXCEPT ![key[r]] = r]
    BY <2>1, <2>3, <2>4 DEF OrderOf
  <2>. QED
    BY <1>1, <1>2, <2>1, <2>2, <2>5 DEF ShopperOrders!Next, ShopperOrders!Acknowledge
<1>5. CASE ~Keyed(r)
  <2>1. OrderOf' = OrderOf
    BY <1>3, <1>5, SameOrders DEF Keyed
  <2>. QED
    BY <1>1, <1>2, <2>1 DEF ShopperOrders!vars
<1>. QED
  BY <1>4, <1>5

\* Every step of a checkout is a step of the promise, or none.
LEMMA PromiseStep ==
  IInv /\ Next => ShopperOrders!Next \/ UNCHANGED ShopperOrders!vars
<1>. SUFFICES ASSUME IInv, Next
              PROVE  ShopperOrders!Next \/ UNCHANGED ShopperOrders!vars
  OBVIOUS
<1>1. ASSUME UNCHANGED <<key, placed, doubt, KeyedTold>>
      PROVE  UNCHANGED ShopperOrders!vars
  <2>1. OrderOf' = OrderOf
    BY <1>1, SameOrders DEF Acknowledged, Placed
  <2>. QED
    BY <1>1, <2>1 DEF ShopperOrders!vars
<1>2. ASSUME NEW r \in Requests,
             \/ Load(r) \/ ClaimKey(r) \/ ClaimInDoubt(r) \/ StatementFails(r)
             \/ PriceCart(r) \/ AbortCreation(r) \/ ReleaseKey(r)
             \/ ReleaseFails(r) \/ Disconnect(r)
      PROVE  UNCHANGED <<key, placed, doubt, told>>
  BY <1>2 DEF Load, ClaimKey, ClaimInDoubt, StatementFails, PriceCart,
     AbortCreation, ReleaseKey, ReleaseFails, Disconnect, OrderSide
<1>3. ASSUME NEW S \in SUBSET Goods,
             \/ Crash \/ AddItems(S) \/ RemoveItems(S)
             \/ CheckCoupon \/ AddCouponCode \/ RemoveCouponCode
      PROVE  UNCHANGED <<key, placed, doubt, told>>
  BY <1>3 DEF Crash, AddItems, RemoveItems, CheckCoupon, AddCouponCode,
     RemoveCouponCode, OrderSide
<1>4. ASSUME UNCHANGED <<key, placed, doubt, told>>
      PROVE  UNCHANGED ShopperOrders!vars
  BY <1>1, <1>4 DEF KeyedTold, Keyed
<1>5. ASSUME NEW r \in Requests, Lookup(r) \/ Relook(r)
      PROVE  ShopperOrders!Next \/ UNCHANGED ShopperOrders!vars
  <2>1. /\ pc[r] \in {"lookup", "relook"} /\ UNCHANGED <<key, placed, doubt>>
        /\ told' = [told EXCEPT ![r] = IF record[key[r]] \in Requests
                                         THEN record[key[r]] ELSE None]
    BY <1>5 DEF Lookup, Relook, OrderSide
  <2>. QED
    BY <2>1, ReplayStep
\* The keyed order is in doubt, so nothing is acknowledged.
<1>6. ASSUME NEW r \in Requests, CommitInDoubt(r)
      PROVE  UNCHANGED ShopperOrders!vars
  <2>1. /\ placed[r] = {} /\ placed' = [placed EXCEPT ![r] = items[r]]
        /\ doubt' = doubt \cup {r} /\ UNCHANGED <<key, told>>
    BY <1>6 DEF CommitInDoubt, IInv, HandlerKnows, Before
  <2>2. \A k \in Keys : Acknowledged(k)' = Acknowledged(k)
    BY <2>1 DEF Acknowledged, Placed, IInv, TypeOK
  <2>3. KeyedTold' = KeyedTold
    BY <2>1 DEF KeyedTold, Keyed
  <2>. QED
    BY <2>1, <2>2, <2>3, SameOrders DEF ShopperOrders!vars
\* An order without a key is not part of the promise.
<1>7. ASSUME NEW r \in Requests, Redeem(r)
      PROVE  UNCHANGED ShopperOrders!vars
  <2>1. UNCHANGED <<key, placed, doubt>>
    BY <1>7 DEF Redeem
  <2>2. CASE Keyed(r)
    BY <1>4, <1>7, <2>1, <2>2 DEF Redeem
  <2>3. CASE ~Keyed(r)
    <3>1. told' = [told EXCEPT ![r] = r]
      BY <1>7, <2>3 DEF Redeem
    <3>2. KeyedTold' = KeyedTold
      BY <2>1, <2>3, <3>1 DEF KeyedTold, Keyed, IInv, TypeOK
    <3>. QED
      BY <1>1, <2>1, <3>2
  <2>. QED
    BY <2>2, <2>3
<1>8. ASSUME NEW r \in Requests, SaveKey(r) \/ SaveFails(r)
      PROVE  ShopperOrders!Next
  <2>1. /\ pc[r] = "save" /\ told' = [told EXCEPT ![r] = r]
        /\ UNCHANGED <<key, placed, doubt>>
    BY <1>8 DEF SaveKey, SaveFails, OrderSide
  <2>2. Keyed(r) /\ Acked(r) /\ told[r] = None
    BY <2>1 DEF IInv, HandlerKnows, Acked
  <2>. QED
    BY <2>1, <2>2, TellStep
<1>. QED
  BY <1>2, <1>3, <1>4, <1>5, <1>6, <1>7, <1>8, ArriveStep, CommitStep
     DEF Next, Handler

\* For any number of attempts and keys, the checkout keeps the promise of its
\* idempotency keys: one acknowledged order per key, and every answer names it.
THEOREM KeysKeepTheirPromise == Spec => KeyPromiseKept
<1>1. Init => ShopperOrders!Init
  <2>. SUFFICES ASSUME Init PROVE ShopperOrders!Init
    OBVIOUS
  <2>1. \A k \in Keys : Acknowledged(k) = {}
    BY DEF Init, Acknowledged, Placed
  <2>2. OrderOf = [k \in Keys |-> None]
    BY <2>1 DEF OrderOf, OrderIn
  <2>3. KeyedTold = [r \in Requests |-> None]
    BY DEF Init, KeyedTold, Keyed
  <2>. QED
    BY <2>2, <2>3 DEF Init, ShopperOrders!Init
<1>2. UNCHANGED vars => UNCHANGED ShopperOrders!vars
  BY SameOrders DEF vars, ShopperOrders!vars, Acknowledged, Placed, KeyedTold, Keyed
<1>3. IInv /\ [Next]_vars => [ShopperOrders!Next]_(ShopperOrders!vars)
  BY <1>2, PromiseStep
<1>. QED
  BY <1>1, <1>3, Invariance, PTL DEF Spec, KeyPromiseKept, ShopperOrders!Spec
=============================================================================
