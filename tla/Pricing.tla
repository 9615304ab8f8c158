------------------------------ MODULE Pricing ------------------------------
(***************************************************************************)
(* Amounts, in cents: the split of an amount by weights, what a coupon     *)
(* takes off a cart and what freight costs (internal/money,                *)
(* internal/promotions, internal/shipping).  All amounts that are split    *)
(* here are at least 0.                                                    *)
(***************************************************************************)
EXTENDS Integers, FiniteSets, FiniteSetsExt, SequencesExt

(***************************************************************************)
(* Largest-remainder allocation                                            *)
(***************************************************************************)

Share(cents, weights, i) ==
  (cents * weights[i]) \div SumFunction(weights)

Remainder(cents, weights, i) ==
  (cents * weights[i]) % SumFunction(weights)

\* The shares that come before i when the leftover cents are handed out.
Ahead(cents, weights, i) ==
  LET r(j) == Remainder(cents, weights, j)
  IN  {j \in DOMAIN weights : r(j) > r(i) \/ (r(j) = r(i) /\ j < i)}

\* Every share is rounded down.  Alone, it loses the leftover cents: a faulty
\* variant of the next definition.
AllocateFloors(cents, weights) ==
  [i \in DOMAIN weights |-> Share(cents, weights, i)]

\* The cents left over go, one each, to the largest remainders, the first of
\* equal ones.
Allocate(cents, weights) ==
  LET leftover == cents - SumFunction(AllocateFloors(cents, weights))
  IN  [i \in DOMAIN weights |->
         AllocateFloors(cents, weights)[i]
           + IF Cardinality(Ahead(cents, weights, i)) < leftover THEN 1 ELSE 0]

(***************************************************************************)
(* Coupons                                                                 *)
(***************************************************************************)

\* A fixed coupon pays out in full: a faulty variant of the next definition.
FixedPaysInFull(subtotal, offer) ==
  IF offer.kind = "percent"
    THEN Allocate(subtotal, <<offer.value, 100 - offer.value>>)[1]
    ELSE offer.value

\* What an offer [kind, value, min] takes off a subtotal.
computeDiscountCents(subtotal, offer) ==
  IF offer.kind = "percent"
    THEN Allocate(subtotal, <<offer.value, 100 - offer.value>>)[1]
    ELSE Min({offer.value, subtotal})

AtLeastZero(n) == Max({0, n})

(***************************************************************************)
(* Freight                                                                 *)
(***************************************************************************)

Rule(from, to, cost) == [from |-> from, to |-> to, cost |-> cost]

\* The table of rules; a CEP is told by its first two digits.
DefaultBrazilRules ==
  <<Rule(1, 39, 1500), Rule(40, 65, 3500), Rule(66, 69, 4500),
    Rule(70, 76, 2800), Rule(77, 78, 4500), Rule(79, 79, 2800),
    Rule(80, 99, 2200)>>

cepInRange(cep, rule) == rule.from <= cep /\ cep <= rule.to

Available(cep) ==
  \E i \in DOMAIN DefaultBrazilRules : cepInRange(cep, DefaultBrazilRules[i])

\* The first rule that matches.
Quote(cep) ==
  LET first == SelectInSeq(DefaultBrazilRules, LAMBDA r : cepInRange(cep, r))
  IN  DefaultBrazilRules[first].cost
=============================================================================
