---------------------------- MODULE ExactlyOnce ----------------------------
(***************************************************************************)
(* What an Idempotency-Key promises the shopper who repeats a checkout: of *)
(* all the attempts that carry one key, one order is ever acknowledged,    *)
(* and every attempt that is told of an order is told of that one.  An     *)
(* attempt may also be told nothing (an error, a conflict, a lost reply).  *)
(***************************************************************************)
CONSTANTS
  Requests,  \* attempts; an order is named after the attempt that made it
  Keys,      \* idempotency keys of one shopper
  None       \* no order

VARIABLES
  key,      \* key[r]: the key attempt r carries, None without a key
  outcome,  \* outcome[k]: the order acknowledged under key k, or None
  told      \* told[r]: the order the keyed attempt r was told of, or None

vars == <<key, outcome, told>>

Init ==
  /\ key = [r \in Requests |-> None]
  /\ outcome = [k \in Keys |-> None]
  /\ told = [r \in Requests |-> None]

Arrive(r, k) ==
  /\ key[r] = None
  /\ key' = [key EXCEPT ![r] = k]
  /\ UNCHANGED <<outcome, told>>

Acknowledge(r) ==
  /\ key[r] \in Keys
  /\ outcome[key[r]] = None
  /\ outcome' = [outcome EXCEPT ![key[r]] = r]
  /\ UNCHANGED <<key, told>>

Tell(r) ==
  /\ key[r] \in Keys
  /\ told[r] = None
  /\ outcome[key[r]] # None
  /\ told' = [told EXCEPT ![r] = outcome[key[r]]]
  /\ UNCHANGED <<key, outcome>>

Next ==
  \E r \in Requests : (\E k \in Keys : Arrive(r, k)) \/ Acknowledge(r) \/ Tell(r)

Spec == Init /\ [][Next]_vars
=============================================================================
