------------------------- MODULE PaymentFlowProofs -------------------------
(***************************************************************************)
(* Proofs about PaymentFlow, for any orders, pay attempts, refund          *)
(* attempts, any positive total and any patience of the provider.          *)
(*                                                                         *)
(* The inductive invariant IInv adds to the properties what the handlers   *)
(* carry from one step to the next: whom a running handler works for, what *)
(* its transaction has locked, and why the QR code was shown.              *)
(***************************************************************************)
EXTENDS PaymentFlow, TLAPS

\* A handler past its first step has an order; a shown QR code ended its own.
HandlersHaveOrders ==
  /\ \A p \in shown : pay[p] = "done"
  /\ \A p \in Pays : (pay[p] \in {"start", "mark"} \/ p \in shown)
                       => payOf[p] \in Orders
  /\ \A a \in Refunds : (refund[a] \in {"call", "apply"} \/ a \in moved)
                          => refundOf[a] \in Orders

\* A QR code was shown for a recorded payment; an order with a recorded
\* payment has left the reach of the cleanup.
ShownIsRecorded ==
  /\ \A p \in shown : referenced[payOf[p]]
  /\ \A o \in Orders : referenced[o] => payment[o] \notin {"unpaid", "failed"}

\* Completed charges are captured charges.
CompletedIsCaptured ==
  \A o \in Orders : <<o, Completed>> \in inbox => charge[o] = "captured"

\* What the lock of a running refund guarantees.
RefundHoldsOrder ==
  /\ \A a \in Refunds : refund[a] \in {"call", "apply"} =>
       /\ payment[refundOf[a]] = "paid"
       /\ due[a] \in 1 .. Total - refunded[refundOf[a]]
       /\ \A b \in Refunds : refund[b] \in {"call", "apply"}
                               /\ refundOf[b] = refundOf[a] => b = a
  /\ \A a \in moved : refund[a] \in {"apply", "done"}
  /\ \A a \in Refunds : refund[a] = "apply" => a \in moved

\* The amounts behind each payment status.
RefundedAmounts ==
  \A o \in Orders :
    /\ payment[o] \notin Returned => refunded[o] = 0
    /\ payment[o] = "refunded" => refunded[o] = Total
    /\ payment[o] = "partially_refunded" => refunded[o] < Total

\* The provider's book, order by order: what an order says, and the refund
\* that is not yet applied.
Ahead ==
  \A o \in Orders \ astray :
    /\ (\A a \in Refunds : refundOf[a] = o => refund[a] # "apply")
         => returned[o] = refunded[o]
    /\ \A a \in Refunds : refundOf[a] = o /\ refund[a] = "apply"
         => returned[o] = refunded[o] + due[a]

\* A refund that moved money is still running or has ended its order.
MovedIsKnown ==
  \A a \in moved :
    refundOf[a] \notin astray /\ refund[a] = "done"
      => payment[refundOf[a]] \in Returned

IInv ==
  /\ TypeOK
  /\ HandlersHaveOrders
  /\ ShownIsRecorded
  /\ CompletedIsCaptured
  /\ PaidMeansCaptured
  /\ MoneyHasOrder
  /\ RefundHoldsOrder
  /\ RefundedAmounts
  /\ Ahead
  /\ MovedIsKnown
  /\ SecondRefundHasCause
  /\ AcknowledgedIsConfirmed

\* No other event is a completed charge.
LEMMA EventsDiffer ==
  /\ Approved # Completed /\ Expired # Completed /\ RefundDone # Completed
  /\ {Approved, Completed, Expired, RefundDone} \subseteq Events
<1>1. "completed" \in Completed /\ "completed" \notin Approved \cup Expired
  BY DEF Approved, Completed, Expired
<1>2. "refund" \in RefundDone /\ "refund" \notin Completed
  BY DEF RefundDone, Completed
<1>. QED
  BY <1>1, <1>2 DEF Events

\* The words in which normalizeEventType finds a payment are in one event
\* only.
LEMMA OnlyCompletedPays ==
  ASSUME NEW event \in Events, NormalizeEventType(event) = "charge.paid"
  PROVE  event = Completed
<1>1. CASE event = Approved
  <2>1. event \cap {"paid", "completed", "confirmed"} = {}
    BY <1>1 DEF Approved
  <2>. QED
    BY <2>1 DEF NormalizeEventType
<1>2. CASE event = Expired
  BY <1>2 DEF Expired, NormalizeEventType
<1>3. CASE event = RefundDone
  BY <1>3 DEF RefundDone, NormalizeEventType
<1>. QED
  BY <1>1, <1>2, <1>3 DEF Events

\* The service starts with unpaid orders and without requests.
THEOREM InitIInv == Init => IInv
<1>. SUFFICES ASSUME Init PROVE IInv
  OBVIOUS
<1>. USE DEF Init
<1>1. TypeOK
  BY TotalPositive, RefusalBound DEF TypeOK, Payments, Awaiting
<1>2. HandlersHaveOrders /\ ShownIsRecorded /\ CompletedIsCaptured
  BY DEF HandlersHaveOrders, ShownIsRecorded, CompletedIsCaptured
<1>3. PaidMeansCaptured /\ MoneyHasOrder /\ SecondRefundHasCause
  BY DEF PaidMeansCaptured, MoneyHasOrder, SecondRefundHasCause, Returned
<1>4. RefundHoldsOrder /\ MovedIsKnown
  BY DEF RefundHoldsOrder, MovedIsKnown
<1>5. RefundedAmounts /\ Ahead
  BY DEF RefundedAmounts, Ahead, Returned
<1>6. AcknowledgedIsConfirmed
  BY DEF AcknowledgedIsConfirmed
<1>. QED
  BY <1>1, <1>2, <1>3, <1>4, <1>5, <1>6 DEF IInv

(***************************************************************************)
(* Consecution: first the steps that refund nothing, then each step of a   *)
(* refund.                                                                 *)
(***************************************************************************)

\* What speaks of refunds holds on when no refund, amount or settled payment
\* changes.
LEMMA RefundsUntouched ==
  ASSUME IInv, UNCHANGED <<refundVars, refunded, returned>>,
         \A o \in Orders : payment[o] \notin Awaiting => payment'[o] = payment[o],
         \A o \in Orders : payment[o] \in Awaiting => payment'[o] \notin Returned
  PROVE  /\ RefundHoldsOrder' /\ RefundedAmounts' /\ Ahead' /\ MovedIsKnown'
         /\ SecondRefundHasCause'
<1>. USE DEF IInv, refundVars
<1>1. RefundHoldsOrder'
  BY DEF RefundHoldsOrder, HandlersHaveOrders, Awaiting
<1>2. RefundedAmounts'
  BY DEF RefundedAmounts, Awaiting, Returned
<1>3. Ahead'
  BY DEF Ahead
<1>4. MovedIsKnown'
  BY DEF MovedIsKnown, HandlersHaveOrders, TypeOK, Awaiting, Returned
<1>5. SecondRefundHasCause'
  BY DEF SecondRefundHasCause
<1>. QED
  BY <1>1, <1>2, <1>3, <1>4, <1>5

\* The seven conjuncts that are not about refunds.
PayersAgree ==
  /\ TypeOK
  /\ HandlersHaveOrders
  /\ ShownIsRecorded
  /\ CompletedIsCaptured
  /\ PaidMeansCaptured
  /\ MoneyHasOrder
  /\ AcknowledgedIsConfirmed

\* An answer owed to a payment stays owed while the provider and its events
\* are left alone and no order begins to await its payment.
LEMMA AnswersUntouched ==
  ASSUME AcknowledgedIsConfirmed, UNCHANGED <<charge, inbox, refused>>,
         \A o \in Orders : payment'[o] \in Awaiting => payment[o] \in Awaiting
  PROVE  AcknowledgedIsConfirmed'
BY DEF AcknowledgedIsConfirmed

\* Pay reads an order or gives up: only its own step changes.
LEMMA LoadOrderKeeps ==
  ASSUME IInv, NEW p \in Pays,
         (\E o \in Orders : LoadOrder(p, o)) \/ PayFails(p)
  PROVE  PayersAgree'
<1>1. UNCHANGED <<orderVars, refundVars, pspVars, shown>>
  BY DEF LoadOrder, PayFails
<1>. USE <1>1 DEF IInv, orderVars, refundVars, pspVars
<1>2. TypeOK'
  BY DEF LoadOrder, PayFails, TypeOK
<1>3. p \notin shown
  BY DEF HandlersHaveOrders, LoadOrder, PayFails
<1>4. HandlersHaveOrders' /\ ShownIsRecorded'
  BY <1>3 DEF LoadOrder, PayFails, TypeOK, HandlersHaveOrders, ShownIsRecorded
<1>5. CompletedIsCaptured' /\ PaidMeansCaptured' /\ MoneyHasOrder'
  BY DEF CompletedIsCaptured, PaidMeansCaptured, MoneyHasOrder
<1>6. AcknowledgedIsConfirmed'
  BY AnswersUntouched
<1>. QED
  BY <1>2, <1>4, <1>5, <1>6 DEF PayersAgree

\* Starting a charge opens it and captures nothing.
LEMMA StartFlowKeeps ==
  ASSUME IInv, NEW p \in Pays, StartFlow(p) \/ StartFlowUnanswered(p)
  PROVE  PayersAgree'
<1>1. /\ UNCHANGED <<orderVars, refundVars, payOf, shown, returned, inbox,
                   refused>>
      /\ charge' = [charge EXCEPT ![payOf[p]] = IF @ = "none" THEN "open" ELSE @]
      /\ pay[p] = "start"
  BY DEF StartFlow, StartFlowUnanswered
<1>. USE DEF IInv, orderVars, refundVars
<1>2. TypeOK'
  BY <1>1 DEF StartFlow, StartFlowUnanswered, TypeOK
<1>3. HandlersHaveOrders' /\ ShownIsRecorded'
  BY <1>1 DEF StartFlow, StartFlowUnanswered, TypeOK, HandlersHaveOrders,
              ShownIsRecorded
<1>4. \A o \in Orders : \/ charge'[o] = charge[o]
                        \/ charge[o] = "none" /\ charge'[o] = "open"
  BY <1>1 DEF TypeOK
<1>5. CompletedIsCaptured' /\ PaidMeansCaptured' /\ MoneyHasOrder'
  BY <1>1, <1>4 DEF CompletedIsCaptured, PaidMeansCaptured, MoneyHasOrder
<1>6. AcknowledgedIsConfirmed'
  BY <1>1, <1>4 DEF AcknowledgedIsConfirmed
<1>. QED
  BY <1>2, <1>3, <1>5, <1>6 DEF PayersAgree

\* The payment is recorded no later than its QR code is shown.
LEMMA MarkPendingPaymentKeeps ==
  ASSUME IInv, NEW p \in Pays, MarkPendingPayment(p)
  PROVE  PayersAgree'
<1>. USE DEF IInv, MarkPendingPayment, refundVars, pspVars
<1>1. payOf[p] \in Orders
  BY DEF HandlersHaveOrders
<1>2. TypeOK'
  BY <1>1 DEF TypeOK, Payments, Awaiting
<1>3. HandlersHaveOrders'
  BY DEF TypeOK, HandlersHaveOrders
<1>4. \A o \in Orders :
        /\ payment'[o] = IF o = payOf[p] THEN "pending_payment" ELSE payment[o]
        /\ referenced[o] \/ o = payOf[p] => referenced'[o]
        /\ o # payOf[p] /\ ~referenced[o] => ~referenced'[o]
  BY <1>1 DEF TypeOK
<1>5. ShownIsRecorded'
  <2>1. \A q \in shown' : payOf[q] \in Orders /\ referenced'[payOf[q]]
    BY <1>1, <1>4 DEF HandlersHaveOrders, ShownIsRecorded, TypeOK
  <2>2. \A o \in Orders : referenced'[o] => payment'[o] \notin {"unpaid", "failed"}
    BY <1>4 DEF ShownIsRecorded
  <2>. QED
    BY <2>1, <2>2 DEF ShownIsRecorded
<1>6. CompletedIsCaptured' /\ PaidMeansCaptured' /\ MoneyHasOrder'
  BY <1>4 DEF CompletedIsCaptured, PaidMeansCaptured, MoneyHasOrder, Returned
<1>7. AcknowledgedIsConfirmed'
  BY <1>4, AnswersUntouched
<1>. QED
  BY <1>2, <1>3, <1>5, <1>6, <1>7 DEF PayersAgree

\* A webhook confirms an order only if its charge was captured.
LEMMA HandlePaymentKeeps ==
  ASSUME IInv, NEW o \in Orders, NEW event \in Events, HandlePayment(o, event)
  PROVE  PayersAgree'
<1>. USE DEF IInv, HandlePayment, refundVars, payVars
<1>1. \A q \in Orders :
        \/ payment'[q] = payment[q]
        \/ payment'[q] = "paid" /\ payment[q] \in Awaiting
             /\ charge[q] = "captured"
  BY OnlyCompletedPays DEF TypeOK, CompletedIsCaptured
<1>2. inbox' \subseteq inbox
  OBVIOUS
<1>3. TypeOK'
  BY <1>2 DEF TypeOK, Payments
<1>4. HandlersHaveOrders' /\ ShownIsRecorded'
  BY <1>1 DEF HandlersHaveOrders, ShownIsRecorded
<1>5. CompletedIsCaptured' /\ PaidMeansCaptured' /\ MoneyHasOrder'
  BY <1>1, <1>2 DEF CompletedIsCaptured, PaidMeansCaptured, MoneyHasOrder
<1>6. \A q \in Orders : payment'[q] \in Awaiting =>
        /\ payment[q] \in Awaiting
        /\ <<q, Completed>> \in inbox => <<q, Completed>> \in inbox'
  <2>1. NormalizeEventType(Completed) = "charge.paid"
    BY DEF NormalizeEventType, Completed
  <2>. QED
    BY <1>1, <2>1 DEF TypeOK, Awaiting
<1>7. AcknowledgedIsConfirmed'
  BY <1>6 DEF AcknowledgedIsConfirmed
<1>. QED
  BY <1>3, <1>4, <1>5, <1>7 DEF PayersAgree

\* A refused delivery changes no order and takes no event that is not given
\* up.
LEMMA ConfirmationFailsKeeps ==
  ASSUME IInv, NEW o \in Orders, NEW event \in Events,
         ConfirmationFails(o, event)
  PROVE  PayersAgree'
<1>. USE DEF IInv, ConfirmationFails, orderVars, refundVars, payVars
<1>1. /\ event = Completed /\ inbox' \subseteq inbox
      /\ refused' = [refused EXCEPT ![o] = @ + 1]
      /\ refused[o] \in Nat /\ refused[o] < MaxRefusals
  BY OnlyCompletedPays DEF TypeOK
<1>2. TypeOK'
  <2>1. refused[o] + 1 \in 0 .. MaxRefusals
    BY <1>1, RefusalBound
  <2>. QED
    BY <1>1, <2>1 DEF TypeOK
<1>3. HandlersHaveOrders' /\ ShownIsRecorded'
  BY DEF HandlersHaveOrders, ShownIsRecorded
<1>4. CompletedIsCaptured' /\ PaidMeansCaptured' /\ MoneyHasOrder'
  BY <1>1 DEF CompletedIsCaptured, PaidMeansCaptured, MoneyHasOrder
<1>5. \A q \in Orders :
        /\ refused[q] = MaxRefusals => refused'[q] = MaxRefusals
        /\ <<q, Completed>> \in inbox
             => <<q, Completed>> \in inbox' \/ refused'[q] = MaxRefusals
  BY <1>1 DEF TypeOK
<1>6. AcknowledgedIsConfirmed'
  BY <1>5 DEF AcknowledgedIsConfirmed
<1>. QED
  BY <1>2, <1>3, <1>4, <1>6 DEF PayersAgree

\* The cleanup fails orders that no shopper was shown a QR code for.
LEMMA ExpireOrdersKeeps ==
  ASSUME IInv, NEW pass \in Awaiting, ExpireOrders(pass)
  PROVE  PayersAgree'
<1>. USE DEF IInv, refundVars, payVars
<1>1. PICK batch \in SUBSET {o \in Orders : payment[o] = pass /\ ~referenced[o]} :
        /\ payment' = [o \in Orders |-> IF o \in batch THEN "failed"
                                                       ELSE payment[o]]
        /\ UNCHANGED <<referenced, refunded, payVars, refundVars, pspVars>>
  BY DEF ExpireOrders
<1>. USE <1>1 DEF pspVars
<1>2. TypeOK'
  BY DEF TypeOK, Payments
<1>3. HandlersHaveOrders' /\ ShownIsRecorded'
  BY DEF HandlersHaveOrders, ShownIsRecorded
<1>4. CompletedIsCaptured' /\ PaidMeansCaptured' /\ MoneyHasOrder'
  BY DEF CompletedIsCaptured, PaidMeansCaptured, MoneyHasOrder, Returned
<1>5. AcknowledgedIsConfirmed'
  BY AnswersUntouched DEF Awaiting
<1>. QED
  BY <1>2, <1>3, <1>4, <1>5 DEF PayersAgree

\* What happens at the provider takes a shown QR code, and no captured charge
\* goes back.
LEMMA ProviderKeeps ==
  ASSUME IInv, NEW o \in Orders, Approve(o) \/ Capture(o) \/ ExpireCharge(o)
  PROVE  PayersAgree'
<1>. USE DEF IInv, orderVars, refundVars, payVars
<1>1. UNCHANGED <<orderVars, payVars, refundVars, returned, refused>>
  BY DEF Approve, Capture, ExpireCharge
<1>2. TypeOK'
  BY <1>1, EventsDiffer DEF Approve, Capture, ExpireCharge, TypeOK
<1>3. HandlersHaveOrders' /\ ShownIsRecorded'
  BY <1>1 DEF HandlersHaveOrders, ShownIsRecorded
<1>4. \A q \in Orders :
        /\ charge[q] = "captured" => charge'[q] = "captured"
        /\ charge'[q] \in {"approved", "captured"} =>
             charge[q] \in {"approved", "captured"} \/ referenced[q]
        /\ <<q, Completed>> \in inbox' =>
             <<q, Completed>> \in inbox \/ charge'[q] = "captured"
  BY EventsDiffer
     DEF Approve, Capture, ExpireCharge, TypeOK, ShownIsRecorded
<1>5. CompletedIsCaptured' /\ PaidMeansCaptured' /\ MoneyHasOrder'
  BY <1>1, <1>4 DEF CompletedIsCaptured, PaidMeansCaptured, MoneyHasOrder,
                    ShownIsRecorded
<1>6. \A q \in Orders :
        /\ <<q, Completed>> \in inbox => <<q, Completed>> \in inbox'
        /\ charge'[q] = "captured"
             => charge[q] = "captured" \/ <<q, Completed>> \in inbox'
  BY DEF Approve, Capture, ExpireCharge, TypeOK
<1>7. AcknowledgedIsConfirmed'
  BY <1>1, <1>6 DEF AcknowledgedIsConfirmed
<1>. QED
  BY <1>2, <1>3, <1>5, <1>7 DEF PayersAgree

\* The refund takes the lock.
LEMMA ResolveRefundKeeps ==
  ASSUME IInv, NEW a \in Refunds, NEW o \in Orders, NEW amount \in Nat,
         ResolveRefund(a, o, amount)
  PROVE  IInv'
<1>. USE DEF IInv, orderVars, payVars, pspVars
<1>1. /\ refund[a] = "idle" /\ ~Locked(o) /\ payment[o] = "paid"
      /\ refundOf' = [refundOf EXCEPT ![a] = o]
      /\ refund' = [refund EXCEPT ![a] = "call"]
      /\ UNCHANGED <<moved, astray, orderVars, payVars, pspVars>>
      /\ \E d \in 1 .. Total - refunded[o] : due' = [due EXCEPT ![a] = d]
  BY DEF ResolveRefund
<1>2. TypeOK'
  BY <1>1, TotalPositive DEF TypeOK
<1>3. a \notin moved
  BY <1>1 DEF RefundHoldsOrder
<1>4. HandlersHaveOrders' /\ ShownIsRecorded' /\ CompletedIsCaptured'
  BY <1>1, <1>3 DEF HandlersHaveOrders, ShownIsRecorded, CompletedIsCaptured,
                    TypeOK
<1>5. PaidMeansCaptured' /\ MoneyHasOrder' /\ RefundedAmounts'
  BY <1>1 DEF PaidMeansCaptured, MoneyHasOrder, RefundedAmounts
<1>6. RefundHoldsOrder'
  BY <1>1, <1>3 DEF RefundHoldsOrder, TypeOK, Locked
<1>7. Ahead'
  BY <1>1 DEF Ahead, TypeOK
<1>8. MovedIsKnown' /\ SecondRefundHasCause'
  BY <1>1, <1>3 DEF MovedIsKnown, SecondRefundHasCause, TypeOK
<1>9. AcknowledgedIsConfirmed'
  BY <1>1, AnswersUntouched
<1>. QED
  BY <1>2, <1>4, <1>5, <1>6, <1>7, <1>8, <1>9

\* The provider moves the money of an order whose earlier refunds, if it had
\* any, were all rolled back.
LEMMA CallRefundKeeps ==
  ASSUME IInv, NEW a \in Refunds, CallRefund(a)
  PROVE  IInv'
<1>. USE DEF IInv, CallRefund, orderVars, payVars
<1>1. refundOf[a] \in Orders /\ payment[refundOf[a]] = "paid" /\ a \notin moved
  BY DEF HandlersHaveOrders, RefundHoldsOrder
<1>2. TypeOK'
  BY <1>1, EventsDiffer, TotalPositive DEF TypeOK
<1>3. HandlersHaveOrders' /\ ShownIsRecorded' /\ CompletedIsCaptured'
  BY <1>1, EventsDiffer
     DEF HandlersHaveOrders, ShownIsRecorded, CompletedIsCaptured, TypeOK
<1>4. PaidMeansCaptured' /\ MoneyHasOrder' /\ RefundedAmounts'
  BY DEF PaidMeansCaptured, MoneyHasOrder, RefundedAmounts
<1>5. RefundHoldsOrder'
  BY DEF RefundHoldsOrder, TypeOK
<1>6. \A b \in Refunds : refundOf[b] = refundOf[a] /\ b # a
                           => refund[b] # "apply"
  BY DEF RefundHoldsOrder
<1>7. Ahead'
  <2>. SUFFICES ASSUME NEW o \in Orders \ astray
                PROVE  /\ (\A b \in Refunds : refundOf[b] = o => refund'[b] # "apply")
                            => returned'[o] = refunded[o]
                       /\ \A b \in Refunds : refundOf[b] = o /\ refund'[b] = "apply"
                            => returned'[o] = refunded[o] + due[b]
    BY DEF Ahead
  <2>1. CASE o = refundOf[a]
    <3>1. returned[o] = refunded[o]
      BY <1>6, <2>1 DEF Ahead
    <3>2. returned'[o] = refunded[o] + due[a]
      BY <2>1, <3>1 DEF TypeOK
    <3>. QED
      BY <1>6, <2>1, <3>2 DEF TypeOK
  <2>2. CASE o # refundOf[a]
    BY <2>2 DEF Ahead, TypeOK
  <2>. QED
    BY <2>1, <2>2
<1>8. MovedIsKnown'
  BY DEF MovedIsKnown, TypeOK
<1>9. \A b \in moved : refundOf[b] = refundOf[a] => refundOf[a] \in astray
  BY <1>1, <1>6 DEF MovedIsKnown, RefundHoldsOrder, TypeOK, Returned
<1>10. SecondRefundHasCause'
  BY <1>9 DEF SecondRefundHasCause
<1>11. AcknowledgedIsConfirmed'
  BY EventsDiffer DEF AcknowledgedIsConfirmed
<1>. QED
  BY <1>2, <1>3, <1>4, <1>5, <1>7, <1>8, <1>10, <1>11

\* The commit books what the provider moved.
LEMMA ApplyRefundKeeps ==
  ASSUME IInv, NEW a \in Refunds, ApplyRefund(a)
  PROVE  IInv'
<1>. DEFINE o == refundOf[a]
<1>. USE DEF IInv, ApplyRefund, pspVars, payVars
<1>1. /\ o \in Orders /\ payment[o] = "paid" /\ a \in moved
      /\ due[a] \in 1 .. Total - refunded[o]
  BY DEF HandlersHaveOrders, RefundHoldsOrder
<1>2. refunded[o] + due[a] \in 0 .. Total
  BY <1>1, TotalPositive DEF TypeOK
<1>3. TypeOK'
  BY <1>1, <1>2 DEF TypeOK, Payments, Returned
<1>4. \A q \in Orders \ {o} : payment'[q] = payment[q] /\ refunded'[q] = refunded[q]
  BY DEF TypeOK
<1>5. payment'[o] \in Returned /\ refunded'[o] = refunded[o] + due[a]
  BY <1>1 DEF TypeOK, Returned
<1>6. HandlersHaveOrders' /\ ShownIsRecorded' /\ CompletedIsCaptured'
  BY <1>1, <1>4, <1>5 DEF HandlersHaveOrders, ShownIsRecorded,
                          CompletedIsCaptured, TypeOK, Returned
<1>7. PaidMeansCaptured' /\ MoneyHasOrder'
  BY <1>1, <1>4, <1>5 DEF PaidMeansCaptured, MoneyHasOrder, Returned
<1>8. RefundHoldsOrder'
  BY <1>1, <1>4 DEF RefundHoldsOrder, HandlersHaveOrders, TypeOK
<1>9. /\ payment'[o] = "refunded" => refunded'[o] = Total
      /\ payment'[o] = "partially_refunded" => refunded'[o] < Total
  BY <1>1, <1>5, TotalPositive DEF TypeOK
<1>10. RefundedAmounts'
  BY <1>4, <1>5, <1>9 DEF RefundedAmounts
<1>11. \A b \in Refunds : refundOf[b] = o /\ b # a => refund[b] # "apply"
  BY DEF RefundHoldsOrder
<1>12. Ahead'
  BY <1>1, <1>4, <1>5, <1>11 DEF Ahead, TypeOK
<1>13. MovedIsKnown' /\ SecondRefundHasCause'
  BY <1>4, <1>5 DEF MovedIsKnown, SecondRefundHasCause, HandlersHaveOrders, TypeOK
<1>14. AcknowledgedIsConfirmed'
  BY <1>4, <1>5, AnswersUntouched DEF Returned, Awaiting
<1>. QED
  BY <1>3, <1>6, <1>7, <1>8, <1>10, <1>12, <1>13, <1>14

\* A rollback after the money moved sends the order's books astray.
LEMMA RollBackRefundKeeps ==
  ASSUME IInv, NEW a \in Refunds, RollBackRefund(a)
  PROVE  IInv'
<1>. USE DEF IInv, RollBackRefund, orderVars, pspVars, payVars
<1>1. refundOf[a] \in Orders
  BY DEF HandlersHaveOrders
<1>2. TypeOK' /\ astray \subseteq astray'
  BY <1>1 DEF TypeOK
<1>3. HandlersHaveOrders' /\ ShownIsRecorded' /\ CompletedIsCaptured'
  BY DEF HandlersHaveOrders, ShownIsRecorded, CompletedIsCaptured, TypeOK
<1>4. PaidMeansCaptured' /\ MoneyHasOrder' /\ RefundedAmounts'
  BY DEF PaidMeansCaptured, MoneyHasOrder, RefundedAmounts
<1>5. RefundHoldsOrder'
  BY DEF RefundHoldsOrder, TypeOK
<1>6. Ahead'
  BY <1>2 DEF Ahead, TypeOK
<1>7. MovedIsKnown' /\ SecondRefundHasCause'
  BY <1>2 DEF MovedIsKnown, SecondRefundHasCause, RefundHoldsOrder, TypeOK
<1>8. AcknowledgedIsConfirmed'
  BY AnswersUntouched
<1>. QED
  BY <1>2, <1>3, <1>4, <1>5, <1>6, <1>7, <1>8

\* What every step keeps.
THEOREM NextIInv == IInv /\ [Next]_vars => IInv'
<1>. SUFFICES ASSUME IInv, [Next]_vars PROVE IInv'
  OBVIOUS
<1>1. PayersAgree' /\ UNCHANGED <<refundVars, refunded, returned>>
        /\ (\A o \in Orders : payment[o] \notin Awaiting => payment'[o] = payment[o])
        /\ (\A o \in Orders : payment[o] \in Awaiting => payment'[o] \notin Returned)
      => IInv'
  BY RefundsUntouched DEF PayersAgree, IInv
<1>. USE DEF orderVars, payVars, pspVars
<1>2. ASSUME NEW p \in Pays, NEW o \in Orders, LoadOrder(p, o)
      PROVE  IInv'
  BY <1>1, <1>2, LoadOrderKeeps DEF LoadOrder, Awaiting, Returned
<1>3. ASSUME NEW p \in Pays, StartFlow(p) \/ StartFlowUnanswered(p)
      PROVE  IInv'
  BY <1>1, <1>3, StartFlowKeeps DEF StartFlow, StartFlowUnanswered, Awaiting,
     Returned
<1>4. ASSUME NEW p \in Pays, MarkPendingPayment(p)
      PROVE  IInv'
  <2>1. \A o \in Orders : \/ payment'[o] = payment[o]
                          \/ payment[o] \in Awaiting /\ payment'[o] = "pending_payment"
    BY <1>4 DEF MarkPendingPayment, IInv, TypeOK
  <2>. QED
    BY <1>1, <1>4, <2>1, MarkPendingPaymentKeeps
       DEF MarkPendingPayment, Awaiting, Returned
<1>5. ASSUME NEW p \in Pays, PayFails(p)
      PROVE  IInv'
  BY <1>1, <1>5, LoadOrderKeeps DEF PayFails, Awaiting, Returned
<1>6. ASSUME NEW o \in Orders, NEW event \in Events, HandlePayment(o, event)
      PROVE  IInv'
  <2>1. \A q \in Orders : \/ payment'[q] = payment[q]
                          \/ payment[q] \in Awaiting /\ payment'[q] = "paid"
    BY <1>6 DEF HandlePayment, IInv, TypeOK
  <2>. QED
    BY <1>1, <1>6, <2>1, HandlePaymentKeeps DEF HandlePayment, Awaiting, Returned
<1>7. ASSUME NEW pass \in Awaiting, ExpireOrders(pass)
      PROVE  IInv'
  <2>1. \A q \in Orders : \/ payment'[q] = payment[q]
                          \/ payment[q] \in Awaiting /\ payment'[q] = "failed"
    BY <1>7 DEF ExpireOrders
  <2>2. UNCHANGED <<refundVars, refunded, returned>>
    BY <1>7 DEF ExpireOrders
  <2>. QED
    BY <1>1, <1>7, <2>1, <2>2, ExpireOrdersKeeps DEF Awaiting, Returned
<1>8. ASSUME NEW o \in Orders, Approve(o) \/ Capture(o) \/ ExpireCharge(o)
      PROVE  IInv'
  BY <1>1, <1>8, ProviderKeeps
     DEF Approve, Capture, ExpireCharge, Awaiting, Returned
<1>9. ASSUME NEW a \in Refunds, NEW o \in Orders, NEW amount \in 0 .. Total + 1,
             ResolveRefund(a, o, amount)
      PROVE  IInv'
  BY <1>9, ResolveRefundKeeps
<1>10. ASSUME NEW o \in Orders, NEW event \in Events,
              ConfirmationFails(o, event)
       PROVE  IInv'
  BY <1>1, <1>10, ConfirmationFailsKeeps
     DEF ConfirmationFails, Awaiting, Returned
<1>11. CASE UNCHANGED vars
  <2>1. PayersAgree'
    BY <1>11 DEF vars, refundVars, PayersAgree, IInv, TypeOK, HandlersHaveOrders,
       ShownIsRecorded, CompletedIsCaptured, PaidMeansCaptured, MoneyHasOrder,
       AcknowledgedIsConfirmed
  <2>. QED
    BY <1>1, <1>11, <2>1 DEF vars, Awaiting, Returned
<1>. QED
  BY <1>2, <1>3, <1>4, <1>5, <1>6, <1>7, <1>8, <1>9, <1>10, <1>11,
     CallRefundKeeps, ApplyRefundKeeps, RollBackRefundKeeps DEF Next

(***************************************************************************)
(* Theorems                                                                *)
(***************************************************************************)

\* Every reachable state satisfies the inductive invariant.
THEOREM Invariance == Spec => []IInv
BY InitIInv, NextIInv, PTL DEF Spec

\* The variables keep their values, the amounts within the order's total.
THEOREM TypeCorrect == Spec => []TypeOK
<1>1. IInv => TypeOK
  BY DEF IInv
<1>. QED
  BY <1>1, Invariance, PTL

\* Only captured money confirms an order.
THEOREM OnlyCapturedIsPaid == Spec => []PaidMeansCaptured
<1>1. IInv => PaidMeansCaptured
  BY DEF IInv
<1>. QED
  BY <1>1, Invariance, PTL

\* While the provider's patience lasts, captured money that its order has not
\* been confirmed for is announced again.
THEOREM PaymentsAreKept == Spec => []AcknowledgedIsConfirmed
<1>1. IInv => AcknowledgedIsConfirmed
  BY DEF IInv
<1>. QED
  BY <1>1, Invariance, PTL

\* Whoever paid has an order that the cleanup did not fail and that can be
\* found, and refunded, by its reference.
THEOREM PayersHaveOrders == Spec => []MoneyHasOrder
<1>1. IInv => MoneyHasOrder
  BY DEF IInv
<1>. QED
  BY <1>1, Invariance, PTL

\* The order's and the provider's amounts agree, but for a rolled back refund.
THEOREM BooksDivergeByRollback == Spec => []BooksAgree
<1>1. IInv => BooksAgree
  <2>. SUFFICES ASSUME IInv, NEW o \in Orders \ astray, ~Locked(o)
                PROVE  /\ returned[o] = refunded[o]
                       /\ payment[o] = "refunded" <=> refunded[o] = Total
    BY DEF BooksAgree
  <2>1. returned[o] = refunded[o]
    BY DEF IInv, Ahead, Locked
  <2>2. payment[o] = "refunded" <=> refunded[o] = Total
    BY TotalPositive DEF IInv, RefundedAmounts, Returned
  <2>. QED
    BY <2>1, <2>2
<1>. QED
  BY <1>1, Invariance, PTL

\* The row lock leaves one cause for a second refund at the provider.
THEOREM SecondRefundsExplained == Spec => []SecondRefundHasCause
<1>1. IInv => SecondRefundHasCause
  BY DEF IInv
<1>. QED
  BY <1>1, Invariance, PTL
=============================================================================
