---------------------------- MODULE PaymentFlow ----------------------------
(***************************************************************************)
(* An order's money: POST /api/orders/{id}/pay, the payment webhook, the   *)
(* cleanup workers and the administrator's refund, against a payment       *)
(* provider that keeps books of its own (internal/handlers/order_handler,  *)
(* webhook_handler and order_refund_handler, internal/payment/propay,      *)
(* internal/orders).                                                       *)
(*                                                                         *)
(* OrderStock has the transactions these requests end in; here are the     *)
(* steps before them, and what the provider does meanwhile.  A handler may *)
(* fail, be cancelled or crash between any two of its steps.               *)
(*                                                                         *)
(* Abstractions.                                                           *)
(*  - No guard of these handlers reads orders.status, so neither it nor    *)
(*    CancelOrder, which writes nothing else that is visible here, appears.*)
(*  - Stock is in OrderStock.  Units that are gone are one of the reasons  *)
(*    why a webhook answers 500, for good if they do not come back, and a  *)
(*    restocked variant that is not on the order is one of the ways in     *)
(*    which a refund rolls back.                                           *)
(*  - Ages: any order awaiting its payment may have outlived the windows.  *)
(*  - An event is the set of the words the provider writes into its type.  *)
(*  - Signatures are valid; a webhook without one changes nothing.         *)
(*                                                                         *)
(* The provider is external.  It creates one charge for an Idempotency-Key,*)
(* which is the order's id; its charge is paid only by someone who has its *)
(* QR code, and only an answer of Pay carries that.  Events are delivered  *)
(* in any order, each until it is answered 2xx or was refused so often     *)
(* that the provider gives up.                                             *)
(***************************************************************************)
EXTENDS Naturals, FiniteSets

CONSTANTS
  Orders,   \* orders, placed and unpaid to begin with
  Pays,     \* POST .../pay attempts
  Refunds,  \* POST .../refund attempts
  Total,    \* total_cents of every order
  MaxRefusals,  \* refused deliveries after which the provider gives up
  None      \* no order

ASSUME TotalPositive == Total \in Nat \ {0}
ASSUME RefusalBound == MaxRefusals \in Nat \ {0}
ASSUME NoneIsNoOrder == None \notin Orders

VARIABLES
  payment,     \* orders.payment_status
  referenced,  \* orders.payment_reference IS NOT NULL
  refunded,    \* orders.refund_amount_cents
  pay,         \* pay[p]: the step the pay handler p takes next
  payOf,       \* payOf[p]: the order it pays
  shown,       \* pay attempts answered with the QR code
  refund,      \* refund[a]: the step the refund handler a takes next
  refundOf,    \* refundOf[a]: the order it refunds
  due,         \* due[a]: the amount it resolved
  charge,      \* the provider's charge for an order
  returned,    \* the cents the provider has given back for an order
  inbox,       \* events the provider still delivers
  refused,     \* deliveries of a completed charge that were not answered 2xx
  moved,       \* history: refund attempts whose money the provider moved
  astray       \* history: orders with such a refund rolled back afterwards

payVars == <<pay, payOf, shown>>
refundVars == <<refund, refundOf, due, moved, astray>>
orderVars == <<payment, referenced, refunded>>
pspVars == <<charge, returned, inbox, refused>>
vars == <<orderVars, payVars, refundVars, pspVars>>

Awaiting == {"unpaid", "pending_payment"}
Returned == {"refunded", "partially_refunded"}
Payments == Awaiting \cup Returned \cup {"paid", "failed"}

\* What the provider may say of a charge.
Approved == {"charge", "approved"}
Completed == {"charge", "completed"}
Expired == {"charge", "expired"}
RefundDone == {"refund", "completed"}
Events == {Approved, Completed, Expired, RefundDone}

\* A refund's transaction locks its order from the first read to the commit.
Locked(o) == \E a \in Refunds : refundOf[a] = o /\ refund[a] \in {"call", "apply"}

(***************************************************************************)
(* Faulty variants: each is one of the definitions below as a plausible    *)
(* bug would have it.  No specification uses them; each shows that the     *)
(* property it is paired with can fail.                                    *)
(***************************************************************************)

\* An authorization is taken for a payment.
ApprovedMeansPaid(event) ==
  IF "refund" \in event THEN "charge.refunded"
  ELSE IF "expired" \in event THEN "charge.expired"
  ELSE IF event \cap {"paid", "completed", "confirmed", "approved"} # {}
    THEN "charge.paid" ELSE "unknown"

\* The QR code is shown although the order is no longer payable.
ShowRegardless(p) ==
  /\ pay[p] = "mark"
  /\ payment' = [payment EXCEPT ![payOf[p]] = IF @ \in Awaiting
                                                THEN "pending_payment" ELSE @]
  /\ referenced' = [referenced EXCEPT ![payOf[p]] =
                      @ \/ payment[payOf[p]] \in Awaiting]
  /\ shown' = shown \cup {p}
  /\ pay' = [pay EXCEPT ![p] = "done"]
  /\ UNCHANGED <<refunded, payOf, refundVars, pspVars>>

\* Every webhook is answered 200, whether the order could be confirmed or not.
AnswerAlways(o, event) ==
  /\ <<o, event>> \in inbox
  /\ inbox' = inbox \ {<<o, event>>}
  /\ payment' \in {payment, [payment EXCEPT ![o] = "paid"]}
  /\ payment' # payment => payment[o] \in Awaiting /\ event = Completed
  /\ UNCHANGED <<referenced, refunded, charge, returned, refused, payVars,
                 refundVars>>

\* The order is read without FOR UPDATE.
ResolveUnlocked(a, o, amount) ==
  /\ refund[a] = "idle"
  /\ payment[o] = "paid" /\ referenced[o]
  /\ due' = [due EXCEPT ![a] = IF amount = 0 THEN Total - refunded[o] ELSE amount]
  /\ due'[a] \in 1 .. (Total - refunded[o])
  /\ refundOf' = [refundOf EXCEPT ![a] = o]
  /\ refund' = [refund EXCEPT ![a] = "call"]
  /\ UNCHANGED <<moved, astray, orderVars, payVars, pspVars>>

\* Any refund settles the whole order.
ApplyAsFull(a) ==
  /\ refund[a] = "apply"
  /\ payment' = [payment EXCEPT ![refundOf[a]] = "refunded"]
  /\ refunded' = [refunded EXCEPT ![refundOf[a]] = @ + due[a]]
  /\ refund' = [refund EXCEPT ![a] = "done"]
  /\ UNCHANGED <<referenced, refundOf, due, moved, astray, payVars, pspVars>>

(***************************************************************************)
(* Paying                                                                  *)
(***************************************************************************)

Init ==
  /\ payment = [o \in Orders |-> "unpaid"]
  /\ referenced = [o \in Orders |-> FALSE]
  /\ refunded = [o \in Orders |-> 0]
  /\ pay = [p \in Pays |-> "idle"]
  /\ payOf = [p \in Pays |-> None]
  /\ shown = {}
  /\ refund = [a \in Refunds |-> "idle"]
  /\ refundOf = [a \in Refunds |-> None]
  /\ due = [a \in Refunds |-> 0]
  /\ charge = [o \in Orders |-> "none"]
  /\ returned = [o \in Orders |-> 0]
  /\ inbox = {}
  /\ refused = [o \in Orders |-> 0]
  /\ moved = {}
  /\ astray = {}

\* Pay reads the order; the status it checks may change before it is used.
LoadOrder(p, o) ==
  /\ pay[p] = "idle"
  /\ payment[o] \in Awaiting
  /\ payOf' = [payOf EXCEPT ![p] = o]
  /\ pay' = [pay EXCEPT ![p] = "start"]
  /\ UNCHANGED <<shown, orderVars, refundVars, pspVars>>

\* StartFlow: the provider has the charge of this order, or creates it.
StartFlow(p) ==
  /\ pay[p] = "start"
  /\ charge' = [charge EXCEPT ![payOf[p]] = IF @ = "none" THEN "open" ELSE @]
  /\ pay' = [pay EXCEPT ![p] = "mark"]
  /\ UNCHANGED <<returned, inbox, refused, payOf, shown, orderVars, refundVars>>

\* The charge was created and its answer lost: a 502.
StartFlowUnanswered(p) ==
  /\ pay[p] = "start"
  /\ charge' = [charge EXCEPT ![payOf[p]] = IF @ = "none" THEN "open" ELSE @]
  /\ pay' = [pay EXCEPT ![p] = "done"]
  /\ UNCHANGED <<returned, inbox, refused, payOf, shown, orderVars, refundVars>>

\* MarkPendingPayment; only then is the shopper shown the QR code, unless the
\* commit or the answer is lost on its way.
MarkPendingPayment(p) ==
  /\ pay[p] = "mark"
  /\ payment[payOf[p]] \in Awaiting
  /\ payment' = [payment EXCEPT ![payOf[p]] = "pending_payment"]
  /\ referenced' = [referenced EXCEPT ![payOf[p]] = TRUE]
  /\ shown' \in {shown, shown \cup {p}}
  /\ pay' = [pay EXCEPT ![p] = "done"]
  /\ UNCHANGED <<refunded, payOf, refundVars, pspVars>>

\* An error, a conflict, a client that left or a crash ends the attempt.
PayFails(p) ==
  /\ pay[p] \in {"start", "mark"}
  /\ pay' = [pay EXCEPT ![p] = "done"]
  /\ UNCHANGED <<payOf, shown, orderVars, refundVars, pspVars>>

(***************************************************************************)
(* The webhook and the workers                                             *)
(***************************************************************************)

\* normalizeEventType looks for words, the first of these that it finds.
NormalizeEventType(event) ==
  IF "refund" \in event THEN "charge.refunded"
  ELSE IF "expired" \in event THEN "charge.expired"
  ELSE IF event \cap {"paid", "completed", "confirmed"} # {} THEN "charge.paid"
  ELSE "unknown"

\* HandlePayment: a paid event confirms an order that awaits it, all others
\* change nothing; a 2xx that reaches the provider ends the deliveries.
HandlePayment(o, event) ==
  /\ <<o, event>> \in inbox
  /\ payment' = IF NormalizeEventType(event) = "charge.paid"
                     /\ payment[o] \in Awaiting
                  THEN [payment EXCEPT ![o] = "paid"] ELSE payment
  /\ inbox' \in {inbox, inbox \ {<<o, event>>}}
  /\ UNCHANGED <<referenced, refunded, charge, returned, refused, payVars,
                 refundVars>>

\* The event of a payment is answered 500, or not at all: the order's units
\* are gone (ErrStockClaimConflict), a statement or the commit fails.  The
\* transaction rolls back, and the provider tries again until it gives up.
ConfirmationFails(o, event) ==
  /\ <<o, event>> \in inbox
  /\ NormalizeEventType(event) = "charge.paid"
  /\ refused[o] < MaxRefusals
  /\ refused' = [refused EXCEPT ![o] = @ + 1]
  /\ inbox' = IF refused'[o] = MaxRefusals THEN inbox \ {<<o, event>>} ELSE inbox
  /\ UNCHANGED <<charge, returned, orderVars, payVars, refundVars>>

\* A pass of a cleanup worker over orders without a reference.
ExpireOrders(pass) ==
  \E batch \in SUBSET {o \in Orders : payment[o] = pass /\ ~referenced[o]} \ {{}} :
    /\ payment' = [o \in Orders |-> IF o \in batch THEN "failed" ELSE payment[o]]
    /\ UNCHANGED <<referenced, refunded, payVars, refundVars, pspVars>>

(***************************************************************************)
(* Refunding: one transaction that holds the order's row, and the          *)
(* provider's refund in the middle of it.                                  *)
(***************************************************************************)

\* resolveRefund: 0 asks for the whole remaining balance.
ResolveRefund(a, o, amount) ==
  /\ refund[a] = "idle"
  /\ ~Locked(o)
  /\ payment[o] = "paid" /\ referenced[o]
  /\ LET refundable == Total - refunded[o]
         resolved == IF amount = 0 THEN refundable ELSE amount
     IN /\ resolved \in 1 .. refundable
        /\ due' = [due EXCEPT ![a] = resolved]
  /\ refundOf' = [refundOf EXCEPT ![a] = o]
  /\ refund' = [refund EXCEPT ![a] = "call"]
  /\ UNCHANGED <<moved, astray, orderVars, payVars, pspVars>>

\* The provider refunds, unless it would give back more than it captured.
CallRefund(a) ==
  /\ refund[a] = "call"
  /\ returned[refundOf[a]] + due[a] <= Total
  /\ returned' = [returned EXCEPT ![refundOf[a]] = @ + due[a]]
  /\ inbox' = inbox \cup {<<refundOf[a], RefundDone>>}
  /\ moved' = moved \cup {a}
  /\ refund' = [refund EXCEPT ![a] = "apply"]
  /\ UNCHANGED <<refundOf, due, astray, charge, refused, orderVars, payVars>>

\* applyRefundStatus, the restocking and the commit.
ApplyRefund(a) ==
  /\ refund[a] = "apply"
  /\ LET o == refundOf[a]
     IN /\ payment' = [payment EXCEPT ![o] =
                         IF due[a] >= Total - refunded[o] THEN "refunded"
                                                          ELSE "partially_refunded"]
        /\ refunded' = [refunded EXCEPT ![o] = @ + due[a]]
  /\ refund' = [refund EXCEPT ![a] = "done"]
  /\ UNCHANGED <<referenced, refundOf, due, moved, astray, payVars, pspVars>>

\* The provider refuses or is not heard, a variant is not on the order, a
\* statement or the commit fails, the process ends: the order stays paid.
RollBackRefund(a) ==
  /\ refund[a] \in {"call", "apply"}
  /\ astray' = IF refund[a] = "apply" THEN astray \cup {refundOf[a]} ELSE astray
  /\ refund' = [refund EXCEPT ![a] = "done"]
  /\ UNCHANGED <<refundOf, due, moved, orderVars, payVars, pspVars>>

(***************************************************************************)
(* The provider                                                            *)
(***************************************************************************)

\* A shopper with the QR code authorizes the payment.
Approve(o) ==
  /\ charge[o] = "open"
  /\ \E p \in shown : payOf[p] = o
  /\ charge' = [charge EXCEPT ![o] = "approved"]
  /\ inbox' = inbox \cup {<<o, Approved>>}
  /\ UNCHANGED <<returned, refused, orderVars, payVars, refundVars>>

Capture(o) ==
  /\ charge[o] = "approved"
  /\ charge' = [charge EXCEPT ![o] = "captured"]
  /\ inbox' = inbox \cup {<<o, Completed>>}
  /\ UNCHANGED <<returned, refused, orderVars, payVars, refundVars>>

\* pixChargeTTL passes, or the authorization lapses.
ExpireCharge(o) ==
  /\ charge[o] \in {"open", "approved"}
  /\ charge' = [charge EXCEPT ![o] = "expired"]
  /\ inbox' = inbox \cup {<<o, Expired>>}
  /\ UNCHANGED <<returned, refused, orderVars, payVars, refundVars>>

Next ==
  \/ \E p \in Pays, o \in Orders : LoadOrder(p, o)
  \/ \E p \in Pays : StartFlow(p) \/ StartFlowUnanswered(p)
  \/ \E p \in Pays : MarkPendingPayment(p) \/ PayFails(p)
  \/ \E o \in Orders, event \in Events :
       HandlePayment(o, event) \/ ConfirmationFails(o, event)
  \/ \E pass \in Awaiting : ExpireOrders(pass)
  \/ \E a \in Refunds, o \in Orders, amount \in 0 .. Total + 1 :
       ResolveRefund(a, o, amount)
  \/ \E a \in Refunds : CallRefund(a) \/ ApplyRefund(a) \/ RollBackRefund(a)
  \/ \E o \in Orders : Approve(o) \/ Capture(o) \/ ExpireCharge(o)

Spec == Init /\ [][Next]_vars

(***************************************************************************)
(* Properties that hold                                                    *)
(***************************************************************************)

\* Every variable has its values; what a refund resolved is refundable.
TypeOK ==
  /\ payment \in [Orders -> Payments]
  /\ referenced \in [Orders -> BOOLEAN]
  /\ refunded \in [Orders -> 0 .. Total]
  /\ pay \in [Pays -> {"idle", "start", "mark", "done"}]
  /\ payOf \in [Pays -> Orders \cup {None}]
  /\ shown \subseteq Pays
  /\ refund \in [Refunds -> {"idle", "call", "apply", "done"}]
  /\ refundOf \in [Refunds -> Orders \cup {None}]
  /\ due \in [Refunds -> 0 .. Total]
  /\ charge \in [Orders -> {"none", "open", "approved", "captured", "expired"}]
  /\ returned \in [Orders -> 0 .. Total]
  /\ inbox \subseteq Orders \X Events
  /\ refused \in [Orders -> 0 .. MaxRefusals]
  /\ moved \subseteq Refunds
  /\ astray \subseteq Orders

\* Goods are claimed for captured money only: no event but a completed charge
\* confirms an order, however often and in whatever order events arrive.
PaidMeansCaptured ==
  \A o \in Orders :
    payment[o] \in Returned \cup {"paid"} => charge[o] = "captured"

\* Money never meets a dead order.  An order whose charge was paid is known
\* by its reference, so the cleanup never failed it and it can be refunded:
\* Pay records the payment before it shows the QR code, under the same guard
\* as the cleanup.
MoneyHasOrder ==
  \A o \in Orders :
    charge[o] \in {"approved", "captured"}
      => referenced[o] /\ payment[o] # "failed"

\* The two sets of books disagree about an order only while its refund runs,
\* or after one was rolled back with the money already moved.
BooksAgree ==
  \A o \in Orders \ astray :
    ~Locked(o) => /\ returned[o] = refunded[o]
                  /\ payment[o] = "refunded" <=> refunded[o] = Total

\* The provider is asked twice to refund an order only after such a rollback.
SecondRefundHasCause ==
  \A a, b \in moved : a # b /\ refundOf[a] = refundOf[b] => refundOf[a] \in astray

\* No payment is forgotten by an answer.  An order whose charge was captured
\* and that still awaits its payment has the event on its way, or the provider
\* gave up on a handler that refused it every time: a 2xx for an order that
\* can be confirmed goes out only after its confirmation is committed.
AcknowledgedIsConfirmed ==
  \A o \in Orders :
    charge[o] = "captured" /\ payment[o] \in Awaiting
      => <<o, Completed>> \in inbox \/ refused[o] = MaxRefusals
=============================================================================
