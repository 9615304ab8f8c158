------------------------------ MODULE Reviews ------------------------------
(***************************************************************************)
(* Product reviews and the aggregate kept beside them, together with the   *)
(* accounts that write them (internal/reviews, the review handler).        *)
(*                                                                         *)
(* A handler first changes the reviews and then, in a statement of its     *)
(* own, recomputes the product's aggregate.  The recomputation counts the  *)
(* reviews in the snapshot its statement starts with and writes the        *)
(* product's row when it gets that row's lock: two steps, between which    *)
(* another recomputation may write.  Its failure is only logged.           *)
(*                                                                         *)
(* Titles, texts and the list of reviews, which is read as it is, are not  *)
(* modelled.  rating_avg and rating_count are the sum and the number of    *)
(* the ratings; rounding the average is left out.                          *)
(***************************************************************************)
EXTENDS Accounts

CONSTANTS
  Products,     \* products that may be reviewed
  RatingInputs, \* ratings a request may carry, good or bad
  StatusInputs, \* statuses a moderator may ask for, good or bad
  Handlers      \* requests served at the same time

VARIABLES
  rating,    \* rating[p][u]: the rating, 0 when there is no review
  status,    \* status[p][u]: the review's status
  aggregate, \* rating_avg and rating_count of each product
  at,        \* the step each handler is in
  product,   \* the product whose aggregate it recomputes
  seen,      \* what its recomputation has counted
  fresh,     \* history: nobody has written that aggregate since
  excused    \* history: products whose last recomputation failed or was late

vars == <<step, email, tokens, edited, rating, status, aggregate, at, product,
          seen, fresh, excused>>

Nothing   == [sum |-> 0, count |-> 0]
NoProduct == "no product"

ASSUME RatingsAreIntegers == RatingInputs \subseteq Int
ASSUME ProductsAreProducts == NoProduct \notin Products

Exists(p, u) == rating[p][u] # 0

\* The reviews the public list shows.
Approved(p) == {u \in Users : Exists(p, u) /\ status[p][u] = "approved"}

\* Their stars, one by one.
Stars(p) == {x \in Approved(p) \X (1 .. 5) : x[2] <= rating[p][x[1]]}

\* What RecomputeAggregate computes in one snapshot.
Summary(p) == [sum |-> Cardinality(Stars(p)), count |-> Cardinality(Approved(p))]

Init ==
  /\ AccountInit
  /\ rating = [p \in Products |-> [u \in Users |-> 0]]
  /\ status = [p \in Products |-> [u \in Users |-> "none"]]
  /\ aggregate = [p \in Products |-> Nothing]
  /\ at = [h \in Handlers |-> "idle"]
  /\ product = [h \in Handlers |-> NoProduct]
  /\ seen = [h \in Handlers |-> Nothing]
  /\ fresh = [h \in Handlers |-> FALSE]
  /\ excused = {}

\* Any number of stars: a faulty variant of the next definition.
AnyStars(n) == n >= 1

\* The handler's check, and the column's.
ValidRating(n) == n >= 1 /\ n <= 5

validReviewStatus(s) == s \in {"pending", "approved", "rejected"}

\* The handler goes on to recompute the aggregate of p.
RecomputesNext(h, p) ==
  /\ at' = [at EXCEPT ![h] = "recompute"]
  /\ product' = [product EXCEPT ![h] = p]
  /\ UNCHANGED <<aggregate, seen, fresh, excused>>

\* Create: one review per product and user, approved from the start.
Create(p, u, n) ==
  /\ ~Exists(p, u)
  /\ rating' = [rating EXCEPT ![p][u] = n]
  /\ status' = [status EXCEPT ![p][u] = "approved"]

\* CreateReview, up to its recomputation.
CreateReview(h, u, p, n) ==
  /\ at[h] = "idle"
  /\ Authenticated(u)
  /\ ValidRating(n)
  /\ Create(p, u, n)
  /\ RecomputesNext(h, p)
  /\ UNCHANGED accountVars

\* Moderate: any status may follow any other.
Moderate(p, u, s) ==
  /\ Exists(p, u)
  /\ status' = [status EXCEPT ![p][u] = s]
  /\ UNCHANGED rating

\* No recomputation: a faulty variant of the next definition.
ModerateOnly(h, u, p, s) ==
  /\ at[h] = "idle"
  /\ validReviewStatus(s)
  /\ Moderate(p, u, s)
  /\ UNCHANGED <<step, email, tokens, edited, aggregate, at, product,
                 seen, fresh, excused>>

\* ModerateReview, up to its recomputation.
ModerateReview(h, u, p, s) ==
  /\ at[h] = "idle"
  /\ validReviewStatus(s)
  /\ Moderate(p, u, s)
  /\ RecomputesNext(h, p)
  /\ UNCHANGED accountVars

\* RecomputeAggregate: the snapshot of its statement ...
Count(h) ==
  /\ at[h] = "recompute"
  /\ at' = [at EXCEPT ![h] = "write"]
  /\ seen' = [seen EXCEPT ![h] = Summary(product[h])]
  /\ fresh' = [fresh EXCEPT ![h] = TRUE]
  /\ UNCHANGED <<step, email, tokens, edited, rating, status, aggregate,
                 product, excused>>

\* The request is over; the counts of the handlers in G are outdated.
Done(h, G) ==
  /\ at' = [at EXCEPT ![h] = "idle"]
  /\ product' = [product EXCEPT ![h] = NoProduct]
  /\ seen' = [seen EXCEPT ![h] = Nothing]
  /\ fresh' = [g \in Handlers |-> fresh[g] /\ g \notin G]
  /\ UNCHANGED <<step, email, tokens, edited, rating, status>>

\* ... and the write, under the lock of the product's row.
Write(h) ==
  /\ at[h] = "write"
  /\ aggregate' = [aggregate EXCEPT ![product[h]] = seen[h]]
  /\ excused' = IF seen[h] = Summary(product[h]) THEN excused \ {product[h]}
                ELSE IF fresh[h] THEN excused
                ELSE excused \cup {product[h]}
  /\ Done(h, {g \in Handlers : product[g] = product[h]})

\* The statement fails; the handler logs it and answers as if it had not.
RecomputeFails(h) ==
  /\ at[h] \in {"recompute", "write"}
  /\ excused' = excused \cup {product[h]}
  /\ UNCHANGED aggregate
  /\ Done(h, {h})

ReviewNext ==
  \E h \in Handlers :
    \/ \E p \in Products, u \in Users :
         \/ \E n \in RatingInputs : CreateReview(h, u, p, n)
         \/ \E s \in StatusInputs : ModerateReview(h, u, p, s)
    \/ Count(h)
    \/ Write(h)
    \/ RecomputeFails(h)

Next ==
  \/ AccountNext /\ UNCHANGED <<rating, status, aggregate, at, product, seen,
                               fresh, excused>>
  \/ ReviewNext

Spec == Init /\ [][Next]_vars

(***************************************************************************)
(* Properties                                                              *)
(***************************************************************************)

TypeOK ==
  /\ AccountsTypeOK
  /\ rating \in [Products -> [Users -> 0 .. 5]]
  /\ status \in [Products ->
       [Users -> {"none", "pending", "approved", "rejected"}]]
  /\ \A p \in Products : \A u \in Users : Exists(p, u) =>
       HasAccount(u) /\ status[p][u] # "none"
  /\ aggregate \in [Products -> [sum : Nat, count : Nat]]
  /\ at \in [Handlers -> {"idle", "recompute", "write"}]
  /\ product \in [Handlers -> Products \cup {NoProduct}]
  /\ seen \in [Handlers -> [sum : Nat, count : Nat]]
  /\ fresh \in [Handlers -> BOOLEAN]
  /\ excused \subseteq Products

\* A product's aggregate differs from its approved reviews only while somebody
\* has yet to count them, or is about to write the right count, or after a
\* recomputation failed or wrote later than one that had counted more.  Every
\* other interleaving of reviews and moderation leaves it right.
StaleHasCause ==
  \A p \in Products :
    \/ aggregate[p] = Summary(p)
    \/ p \in excused
    \/ \E h \in Handlers :
         /\ product[h] = p
         /\ at[h] = "recompute" \/ seen[h] = Summary(p)
=============================================================================
