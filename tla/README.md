# bullet-commerce in TLA+

Specifications, model checks and machine-checked proofs of the core logic of
bullet-commerce, a Go service that sells goods over HTTP with PostgreSQL as its
only shared state and an external payment provider (PSP). Source references
below are relative to `src/`. `PROJECT.json` holds the machine-readable side:
which lines each definition models, the runs, the hazards, the mutants and the
theorems.

## 1. The system

### Parts, state and operations

| Part | State | Operations that change it |
|---|---|---|
| Order aggregate (`internal/orders`) | `orders` (status, payment status, reference, age), `order_items` | create from cart, cancel, mark pending payment, confirm payment, refund, expire |
| Stock (`internal/variants`) | `variant_stock.stock`, `.stock_reserved` | reserve, release, claim, restock, set absolute count |
| Charges (`internal/charges`, `orders/creation.go`) | `payment_charges` | insert after creation, mark paid, mark refunded |
| Checkout (`internal/handlers/order_handler.go`, `orders/idempotency.go`) | `idempotency_keys` | look up, claim, save, release |
| Cart (`internal/cart`) | `carts`, `cart_items`, the coupon codes on a cart | add, change, remove, clear, attach or detach a code |
| Coupons (`internal/coupons`, `internal/promotions`) | `coupons.used_count` | validate and price, redeem |
| Payments (`internal/payment`, `handlers/webhook_handler.go`) | the PSP's charge | start a charge, receive webhooks, refund |
| Cleanup workers (`cmd/main.go` `runCleanup`) | none | two tickers that expire abandoned orders |
| Accounts (`internal/users`, `internal/addresses`) | users, addresses with default flags | register, create, update, set default |
| Catalog (`internal/products`, `variants`, `categories`) | products with versions, variants, categories | create, versioned update, soft delete, add a variant, name or drop a category |
| Reviews (`internal/reviews`) | reviews and the aggregate kept on the product | write, moderate, recompute |
| Assistant (`internal/ai`) | one conversation per request | a bounded loop of streamed model turns and tool calls |
| Rate limiter (`internal/middleware`) | a token bucket per client address | admit or refuse, sweep |
| Money and freight (`internal/money`, `internal/shipping`) | none | allocation of cents, freight table |
| Authentication (`internal/auth`) | signed tokens | issue, validate |
| Event bus, media, search, configuration | rows of media | stateless or plain I/O; nothing subscribes to the bus |

### How the parts interact

Every request runs in a goroutine of its own; any number of them, and of
processes, share the database. A repository method opens a transaction, locks
rows with `SELECT ... FOR UPDATE` or with guarded `UPDATE`s, and commits. A
handler strings several such methods together, so other requests run between
them. The order repository calls the stock repository, inside its own
transaction, to reserve, release, claim and restock. `RefundOrder` calls the PSP
inside its transaction. The PSP calls back with webhooks, at least once and in
any order. The workers call `ExpireOrders`. The rate limiter stands before the
handlers and keeps its table of buckets in memory, behind a mutex. A chat with
the assistant runs two goroutines that meet at an unbuffered channel.

### What is hard

* **Interleaving across transactions.** Cancellation, payment start, webhook,
  expiry and refund each look at some of the columns `status`,
  `payment_status` and `payment_reference`, and none looks at all of them.
* **Check, then act.** The cart is read before the transaction that orders it;
  the coupon's limit before the commit that uses it; the idempotency key in one
  statement and finalized in another.
* **Partial failure.** Statements after a commit (main charge, coupon count,
  key) are best effort. A client that disconnects cancels the context under
  which its key would have been released. A commit may take effect and report
  an error.
* **The outside world.** Late, repeated and overtaking webhooks; a PSP refund
  that precedes a commit that may fail.
* **Time.** Two windows (15 and 30 minutes) decide which orders are abandoned.
  The limiter reads the clock before it takes its mutex, so requests enter out
  of the order of their times.
* **Two statements where one is meant.** Default marks are cleared and set,
  e-mails looked up and inserted, aggregates counted and written, products read
  and their price copied, carts priced twice, each in separate statements.
* **Leaving.** A shopper may leave a streamed answer at any moment, and a `select`
  with two ready cases may take either.

`PROJECT.json` lists each hazard at its line, with the properties that cover it.

### What makes each part correct

* Stock: never oversold; reserved units belong to orders that may still be
  paid; goods move exactly when money moves.
* Orders: settled at most once; status changes as `validTransitions` lists;
  abandoned orders give their units back.
* Checkout: one acknowledged order per key, and every replay names it; a claimed
  key is always finished; a good is ordered once.
* Coupons: used no more often than allowed.
* Payments: paid implies captured; captured implies paid, or known; one refund.
* Addresses: one default per purpose, never lost. Accounts: one per mailbox, and
  nobody else can lock its owner out.
* Catalog: no lost update; a refusal that is true. Reviews: the aggregate is
  that of the approved reviews.
* Cart: the price paid is the price shown; freight is paid; amounts are right to
  the cent.
* Assistant: both goroutines end; every tool call is answered; done means done.
* Rate limiter: no more than the burst and the refill; evicting a bucket is
  invisible; Retry-After is honest.

## 2. Modules

| Module | What it is |
|---|---|
| `SalesLedger` | abstract: orders are settled at most once, and goods leave the shelf in that step |
| `OrderStock` | the order, stock and charge rows with every transaction on them |
| `OrderStockProofs` | the inductive invariant of `OrderStock` and the refinement of `SalesLedger`, proved |
| `ExactlyOnce` | abstract: what an idempotency key promises |
| `Checkout` | the create-order handler, statement by statement, beside cart and coupon |
| `MCCheckout` | `Checkout` for TLC, with symmetry |
| `CheckoutProofs` | the inductive invariant of `Checkout` and the refinement of `ExactlyOnce`, proved |
| `PaymentFlow` | pay, webhook, cleanup and refund against a provider that keeps its own books |
| `PaymentFlowProofs` | the inductive invariant of `PaymentFlow` and its safety properties, proved |
| `AddressBook` | one user's addresses and default marks, statement by statement, with row locks and unique indexes |
| `TokenBucket` | abstract: a bucket per client that is never forgotten |
| `RateLimit` | the limiter with its clock, mutex, table and sweep |
| `MCRateLimit` | `RateLimit` for TLC, with symmetry |
| `RateLimitProofs` | the inductive invariant of `RateLimit` and the refinement of `TokenBucket`, proved |
| `Accounts` | registration, login, tokens and `UpdateMe` |
| `Reviews` | reviews, moderation and the aggregate; composes `Accounts`, whose users write the reviews |
| `MCUsers` | `AddressBook` beside `Reviews` and `Accounts`, for TLC |
| `UserProofs` | the inductive invariants of `AddressBook`, `Accounts` and `Reviews` and their safety properties, proved |
| `SerialEdits` | abstract: nobody replaces a text they have not read |
| `Catalog` | products, variants and categories under several administrators |
| `MCCatalog` | `Catalog` for TLC, with symmetry |
| `CatalogProofs` | the inductive invariant of `Catalog` and the refinement of `SerialEdits`, proved |
| `Pricing` | allocation of cents, discounts and the freight table, as operators |
| `Cart` | the cart's handlers and the pricing of an order; uses `Pricing` |
| `MCCart` | `Cart` for TLC: prices, offers, symmetry |
| `CartProofs` | sums, shares of cents, the inductive invariant of `Cart` and its safety properties, proved |
| `Assistant` | one chat: the agent, the pump of each turn, the provider, the shopper |
| `AssistantProofs` | the inductive invariant of `Assistant` and its safety properties, proved |

`OrderStock` and `Checkout` meet at the creation of an order. `Checkout` keeps
the statements of the handler apart and treats the order's life afterwards as
out of sight; `OrderStock` takes the creation as one step and follows the order
to its end. What makes it one step is the argument of the next section.
`PaymentFlow` opens the other end of the order's life: the steps that precede
`MarkPendingPayment`, `ConfirmOrderPayment` and `RefundOrder` of `OrderStock`,
and the provider's side of them. It leaves out stock and the order status, which
none of its guards reads. `Cart` opens the creation on the side of the money: the
same statements of `CreateOrder` as in `Checkout`, told by what they read and
price instead of by keys and goods.

### OrderStock

| TLA+ | Code |
|---|---|
| `stock`, `reserved` | `variant_stock.stock`, `.stock_reserved` at the default source |
| `status`, `payment`, `referenced`, `lines` | `orders.status`, `.payment_status`, `.payment_reference IS NOT NULL`, `order_items` |
| `age` | how many of the two expiry windows `created_at` lies behind |
| `charge` | status of the row of `payment_charges` with purpose main |
| `CreateOrder`, `CreateMainCharge` | `CreateOrderFromCart` to its commit; `createMainCharge` after it |
| `CancelOrder`, `MarkPendingPayment`, `ConfirmOrderPayment` | the methods of those names in `orders/repository.go` |
| `ExpireOrders` | `ExpireUnpaidOrders` and `ExpireOrphanedPayments`, both `expireOrders` |
| `RefundOrder` | `orders/refund.go`, after the PSP accepted |
| `SetStock` | `variants.SetStock`, an absolute count |
| `Reserve`, `Claim`, `Restock`, `ReleaseItems` | the stock statements those methods run |

*Why a method is one step.* Each method runs in one transaction, whose first
write or `FOR UPDATE` locks the order row; a concurrent method on the same order
waits, and PostgreSQL re-evaluates the guard after the wait. Each stock
statement is an `UPDATE` whose `WHERE` holds its guard, evaluated under the row
lock that is kept until the commit. So the guards hold when the method commits,
and nobody else saw the state in between. A guard that fails rolls the whole
method back: no step. What the code does *outside* the transaction (the main
charge) is an action of its own that may never come.

*History.* `freed` remembers which orders `CancelOrder` released. No action
reads it; properties do.

### Checkout

| TLA+ | Code |
|---|---|
| `pc` | the statement the handler runs next |
| `record` | the row of `idempotency_keys`: none, with `order_id` null, or with an order |
| `cart`, `items` | `cart_items`, and the copy the handler read of it |
| `placed` | the orders committed, with the goods on them |
| `coupon`, `priced`, `used` | the cart's code, the requests priced with it, `coupons.used_count` |
| `gone` | the request's context is cancelled |
| `told` | the order the 201 names |
| `Lookup` .. `ReleaseFails` | the statements of `CreateOrder` in `order_handler.go`, in their order, with the ways each ends |
| `AddItems`, `RemoveItems`, `CheckCoupon`, ... | the cart endpoints of the same shopper |
| `Disconnect`, `Crash` | the client leaves; the process ends |

`CheckCoupon` and `AddCouponCode` are two actions because `AddCoupon` validates
in one statement and attaches in another. An insert or a commit whose connection
breaks may have taken effect: `ClaimInDoubt`, `CommitInDoubt`. `doubt`, `stuck`,
`seen`, `added` are history.

### PaymentFlow

| TLA+ | Code |
|---|---|
| `payment`, `referenced`, `refunded` | `orders.payment_status`, `.payment_reference IS NOT NULL`, `.refund_amount_cents` |
| `pay`, `payOf`, `shown` | where a `Pay` handler stands, its order, whether its 200 with the QR code went out |
| `refund`, `refundOf`, `due` | where a `RefundOrder` transaction stands, its order, the resolved amount |
| `charge`, `returned`, `inbox`, `refused` | the provider's charge, the cents it gave back, the events it still delivers, how often the event of a payment was not answered 2xx (external) |
| `LoadOrder`, `StartFlow`, `MarkPendingPayment` | the three steps of `Pay` |
| `HandlePayment`, `ConfirmationFails`, `NormalizeEventType` | the webhook that answers 200; the one whose confirmation rolls back (`variants.Claim` conflicts, a statement or the commit fails), a 500; the event type found by searching for words |
| `ResolveRefund`, `CallRefund`, `ApplyRefund`, `RollBackRefund` | the refund: read under `FOR UPDATE`, provider, updates and commit, or rollback |

Three assumptions about the provider come from how the code uses it: one charge
per `Idempotency-Key`, which is the order's id; delivery at least once until a
2xx, or until the provider gives up (after `MaxRefusals` deliveries that were
refused); and that a charge is paid by someone who has its QR code, which only a
200 of `Pay` carries. ProPay's client has no `Refund` method, so with ProPay the
endpoint answers 501; the refund is modelled from the `Refunder` contract that the
repository is written against.

### AddressBook

| TLA+ | Code |
|---|---|
| `book`, `marks` | rows of `addresses`; the committed `is_default`, `is_default_billing`, `is_default_shipping` |
| `stage`, `job` | the statement a request is in, and what it was asked |
| `todo`, `cleared` | rows the clearing `UPDATE` found in its snapshot and has still to lock; rows it has changed in an open transaction |
| `AddAddress`, `UpdateAddress`, `SetDefault...Address` | the handlers that change a default; they begin with the clearing statement |
| `ClearRow`, `Cleared` | one row is locked and cleared; the statement ends |
| `Insert`, `Rewrite`, `Set`, `Commit` | the `INSERT` of `Create`, the `UPDATE` of `Update`, the setter's second statement, its commit |
| `Duplicate`, `WaitsFor`, `Victim` | the partial unique indexes; who waits for whose lock; the deadlock the database breaks |
| `Cancel` | the request's context ends; a transaction rolls back |
| `Add`, `Edit`, `Delete` | requests of one statement |

Users do not interact, so there is one. A clearing statement finds its rows in a
snapshot and waits for each row's lock, as PostgreSQL does at READ COMMITTED; it
is what lets two requests leave two `is_default` marks. `BookInit`, `BookNext` and
`BookSpec` bear the book's name, so that one module can prove things about
addresses and reviews. `Create` and `Update`
clear in a statement of their own that commits at once; the three setters clear
and set in one transaction. `alone` is history: no other request has been
changing `is_default` since this one began.

### RateLimit

| TLA+ | Code |
|---|---|
| `now`, `lastSweep` | the clock, `rl.lastSweep` |
| `known`, `tokens`, `lastSeen` | the table `rl.buckets` and its entries |
| `stamp`, `sender` | the time a request has read, and its client |
| `Arrive`, `Allow` | `rl.nowFn()` before the mutex; all that `allow` does under it, `sweepLocked` included |
| `Tick` | time passes; a request waits at most `MaxDelay` for the mutex |

Time is in ticks, and tokens are counted in the ticks that refill them, so a
bucket gains one unit a tick and a request costs `TokenTime`. `spent` and `due`
are history. `tokens` may be negative: a request that was overtaken refills a
negative elapsed time.

### Accounts and Reviews

| TLA+ | Code |
|---|---|
| `step`, `email` | how far a registration is; `users.email`, as a mailbox and a spelling |
| `tokens` | who holds a token that `ValidateToken` accepts |
| `RegisterLooks`, `RegisterCreates`, `RegisterFails` | `Register`: the lookup, then the hash and the insert |
| `Login`, `TokenExpires`, `UpdateMe` | the handlers, and time |
| `rating`, `status` | rows of the reviews table |
| `aggregate` | `products.rating_avg`, `.rating_count`, as sum and number |
| `CreateReview`, `ModerateReview` | the handlers, which go on to recompute |
| `Count`, `Write`, `RecomputeFails` | the one statement of `RecomputeAggregate`: its snapshot, its write under the row lock, its failure, which is logged |

`edited` remembers who used `UpdateMe`; `fresh` and `excused` which
recomputations were overtaken or failed. `Reviews` extends `Accounts`: only the
holder of a token of an existing account writes a review.

### Catalog

| TLA+ | Code |
|---|---|
| `life`, `text`, `category`, `version` | a row of `products`: there, soft-deleted, its columns, its version |
| `called`, `variant` | names of `categories`; rows of `product_variants` |
| `held` | the product a client has read and may send back |
| `at`, `loaded`, `answer` | the second statement of a request, what it has read, how an update was refused |
| `CreateProduct`, `GetProduct`, `ListProducts`, `DeleteProduct` | the handlers |
| `UpdateProduct`, `UpdateMisses`, `Probe` | the guarded `UPDATE`; its miss; the second statement (`existsLive`) that tells 409 from 404 |
| `LoadForVariant`, `CreateVariant` | `loadProductForAdmin`, then the insert of the row built from it |
| `CreateCategory`, `UpdateCategory`, `DeleteCategory` | the category handlers, with the foreign key's `SET NULL` |

An inheriting variant keeps the price in a column of its own, as
`buildVariantModel` copies it; no handler writes that column again.

### Pricing and Cart

| TLA+ | Code |
|---|---|
| `Allocate`, `computeDiscountCents`, `Quote` | `money.Allocate`, the coupon's amount, the first matching rule of the freight table |
| `quantity`, `applied`, `ended` | `cart_items`, `carts.applied_coupon_codes`, coupons that are no longer valid |
| `pc`, `job`, `lines`, `codes`, `todo` | the next statement of each tab's handler, what it is for, what it has read, the codes still to be priced |
| `GetCart`, `AddItem`, `UpdateItem`, `DeleteItem`, `ClearCart`, `AddCoupon`, `RemoveCoupon`, `CreateOrder` | the handlers |
| `ReadItems`, `ReadCodes`, `PriceCode` | the statements they share |
| `Show`, `ShowUnpriced`, `AddCouponCode`, `CommitOrder`, `Redeem` | how they end |
| `EndCoupon` | a coupon expires, or other shoppers use it up |

The freight of an order is `shipping_cost_cents` as the client sends it, refused
if negative (`Freights`); `Quote` serves to choose the freights that TLC tries.
Most cart handlers answer with the cart, so they end in the statements of
`GetCart` (`Reshow`). `GetCart` reads the codes first and the creation of an order
the lines first. `shown` and `fresh` remember the total a tab was shown and
whether a write to the cart has overtaken it; `bill` is the order the last step
placed.

### Assistant

| TLA+ | Code |
|---|---|
| `pc`, `iter`, `transcript` | the agent's loop, and the messages it sends to the model |
| `turn`, `results`, `events` | what `streamTurn` has received; what `executeTools` has collected; what was emitted to the shopper |
| `pump`, `outbox`, `deltas`, `err` | the goroutine of `provider.go`, what it is about to send, its error |
| `gone` | the context of the request is cancelled |
| `Stream`, `TakeTurn`, `RunTool`, `FeedBack`, `Answer`, `Fallback`, `TurnFails` | the branches of `Run` |
| `SdkText`, `SdkEnds`, `SdkFails` | what the provider's stream yields (external) |
| `Deliver`, `Bail`, `Close` | a send that is received; a send that gives up; the deferred `close` |

The channel has no buffer, so a delivery is a step of both goroutines. Once the
context is cancelled, `Bail` and `Deliver` are both possible, as in the `select`
of `send`. `meant` is history: the calls of the turns the model has finished.

## 3. What is checked

| Run | Shows | Bounds |
|---|---|---|
| `order_stock` | `StockWithinBounds`, `NoPhantomReservation`, `ReservationExact`, `HoldersCanPay`, `ChargeNeverAhead`, the refinement of `SalesLedger`; `AbandonedHoldsFreed`: an order whose payment nobody starts is closed | 2 orders, 2 variants, quantity 1, counts 1 or 2 |
| `started_holds_freed` | an order whose payment was started holds its units for ever (violation) | 1 order, 1 variant |
| `status_follows_table` | the code leaves `validTransitions` (violation) | 2 orders, 1 variant |
| `checkout` | `OneAcknowledgedOrder`, `StuckKeyHasCause`, `OrderedTwiceOnlyByOverlap`, `UseCountNeverAhead`, the refinement of `ExactlyOnce` | 3 attempts, 1 key (or none), 1 good, coupon limit 1 |
| `coupon_within_limit` | a coupon exceeds its limit (violation) | 2 attempts |
| `payment_flow` | `PaidMeansCaptured`, `MoneyHasOrder`, `BooksAgree`, `SecondRefundHasCause`, `AcknowledgedIsConfirmed` | 2 orders, 2 attempts to pay, 2 to refund, 2 cents, 2 refused deliveries |
| `users` | `OneDefaultPerPurpose`, `PurposeNeverLost`, `AloneLeavesOne`, `RequestsEnd`; `OneAccountPerMailbox`, `NobodyLocksOut`, `StaleHasCause` | 2 addresses, 2 requests; 3 users, 1 mailbox in 2 spellings, 1 product, 2 handlers |
| `rate_limit` | `WithinRate`, `IdleForgotten`, `RetryIsHonest`, the refinement of `TokenBucket` | 2 clients, 2 requests, 9 ticks, the other times below |
| `catalog` | `RefusalIsTrue`, the refinement of `SerialEdits` | 1 product, 1 variant, 2 categories, 2 administrators, 4 forms, version 4 |
| `price_follows` | an inherited price goes stale (violation) | 1 product, 1 variant, 1 administrator, version 2 |
| `cart` | `QuoteHolds`, `FreightIsPaid`, `PercentRoundsHalfUp` | 2 tabs, 2 variants, 2 coupons, quantity 2, the freights below |
| `assistant` | `TranscriptPairs`, `DoneIsClean`, `ChatEnds` | 2 turns, 3 tool names, 1 piece of text, 2 calls a turn |

`TypeOK` is checked by `order_stock`, `users` and `catalog`, where it says more
than types (`catalog`'s includes the foreign key of the category); elsewhere it
is proved only. The inductive invariants of section 4 hold on the runs' instances
too.

*Bounds.* The drift of reservations takes one order that is released twice and one
other order that loses its units, so `order_stock` has two; on two variants one of
them may be whole while the other is not. A stock of one or two makes the orders
compete. Liveness is checked in the same run, so without symmetry. With a stock of
at most `IntMax`, restocking reaches the width of the column. Larger quantities
and more orders and variants are covered by the proofs, which bound none of them.
In `checkout`, three attempts are the owner of a key, a rival that loses the
claim, and a late retry; one good already shows an order placed twice. `Goods`
added once are never added again, which bounds the behaviours; the good is a unit,
not a product. In `payment_flow` orders meet only in the batches of the cleanup,
so two are enough; two attempts of each kind race for one order; two cents are the
least that can be refunded in part; of two refused deliveries one is retried and
the other ends the provider's patience.

The two parts of `users` share no row and no request, so `MCUsers` moves either
while the other is as it was at the start; that adds the state counts instead of
multiplying them and loses no behaviour of either. Of its address book, two
requests and two rows are what a race for a default, and a deadlock between a
billing and a shipping change, take. In `rate_limit` a token takes 2 ticks, the
burst is 2, a second is 2 ticks, the sweep interval 2, `bucketTTL` 6 and the delay
at the mutex at most 1: within the 9 ticks (`MaxTime`) a bucket is drained, left
idle, swept and made anew, with a client that overtakes another. The proofs have
no such bounds but `TTLCoversRefill`. In the reviews of `users`, ratings 5 and 6
and the statuses approved, rejected and spam hold a refused input of each kind; a
review starts out approved, and one in pending counts as little as a rejected one.
Three users are the least for two accounts of one mailbox and a third who races
for it. In `catalog`, one form lacks a status, one has a bad status and one a bad
price for a creation; `MaxVersion` 4 leaves room for three updates, so that two
clients can overtake each other in turn. In `cart`, prices of 2002 and 998 cents
and a coupon of 75 % end in half a cent for one unit; with the fixed coupon of
3000 cents from 2000 on they exceed one unit and the cheap freight; the freights
are one that is refused and those the table has for the CEPs 0 and 5, as far as it
serves them. In `assistant`, two turns instead of the five of `maxToolIters` are
one that is fed back and one that meets the ceiling; one of the three tool names
is not registered.

*Deadlock.* Requests come to an end, so deadlock is not checked in `Checkout` and
`PaymentFlow`, and a chat ends, so it is not in `Assistant`. Everywhere else it
is.

*Fairness.* `runCleanup` runs two tickers until shutdown: each pass is weakly
fair. Clocks advance: `GrowOld` is weakly fair. Nothing is assumed of shoppers,
administrators and the PSP, and no action of theirs is fair. Weak fairness of the
pass, not of an order, is what the code justifies: a batch is any set of eligible
orders (`SKIP LOCKED`, `LIMIT`). `AbandonedHoldsFreed` holds because there are
finitely many orders, so they cannot be overtaken for ever. `PaymentFlow` assumes
no fairness: the provider retries, but `Claim` may conflict every time (point 5
below), so nothing in the code makes a webhook succeed in the end. In
`AddressBook` the next statement of each request is strongly fair: PostgreSQL
grants row locks in the order of the queue, so a request whose lock comes free
again and again gets it. In `Assistant` the agent, the delivery and the provider
are weakly fair: Go runs a goroutine that can run. That the provider's stream
yields, ends or fails in the end is an assumption about the provider, for the code
sets it no timeout; only a shopper who leaves cuts it short. Neither `Bail` nor
the shopper's departure is fair.

*Faulty variants.* Each property is paired in `PROJECT.json` with a variant of
one definition, written beside it in the module, under which the run's
configuration violates it: `CancelKeepingHold`, `ConfirmTwice`, `ClaimByUpsert`
and so on. No specification uses them.

### Where the code and its comments part

With a run that shows it:

1. *A cancelled order goes to processing* (`StatusFollowsTable`), when its paid
   webhook is late.
2. *A coupon exceeds its limit* (`CouponWithinLimit`) under concurrent checkouts.
3. *An order whose payment was started and never finished holds its units for
   ever*, unless someone cancels it (`StartedHoldsFreed`). The comment at
   `internal/orders/repository.go:39` has the 30 minute pass close it; the pass
   looks for orders without a reference, and `MarkPendingPayment` stores status
   and reference together, so it finds none. The predicate itself is documented
   (`repository.go:416`); what it leaves of the pass is not.
4. *An inherited price goes stale* (`InheritedPriceFollows`). The comment at
   `product_variant_handler.go:222` and `DEVDOCS/PRD-catalog-v2.md:110` have a
   change of the product's price reach the variants that inherit it; no handler
   passes it on. `models/product_variant.go:22` calls that a follow-up.

Delimited by a property that names the only cause:

5. *A cancelled order releases twice.* `CancelOrder` leaves `payment_status` at
   `unpaid`; `expireOrders` and `ConfirmOrderPayment` look at that column only.
   The second release takes units out of other orders' reservations; those orders
   may then fail to be claimed when they are paid, and their webhook is answered
   500 until the provider gives up. `ReservationExact` says that this is the only
   cause of drift and `HoldersCanPay` that without it no live order's claim
   conflicts; `AcknowledgedIsConfirmed` says that no captured payment is forgotten
   before the provider has given up.
6. *A key stays in flight* after a crash, a disconnect or a failed save; retries
   then get 409 without end. `StuckKeyHasCause` says that nothing else does it.
7. *An order is refunded twice* when the transaction fails after the provider's
   refund: a variant that is not on the order is noticed only then.
   `SecondRefundHasCause` says that nothing else does it.
8. *An aggregate goes stale* when a recomputation fails, or counts before and
   writes after another (`StaleHasCause`).

These properties do not catch the failure they name; they catch any other way
into it.

Seen while modelling, outside what a property demands:

9. `Create` and `Update` of an address clear the default in a statement of their
   own (the comment at `addresses/repository.go:271` asks for a transaction): cut
   off in between, or aimed at an address that is not there, they leave no
   `is_default`; overlapping requests may leave two. Billing and shipping are
   safe (`OneDefaultPerPurpose`, `PurposeNeverLost`), and a change that runs alone
   repairs the rest (`AloneLeavesOne`).
10. `UpdateMe` stores an e-mail as it was typed, while login looks it up
    normalised: its owner may not be found again. Nobody else can cause that
    (`NobodyLocksOut`).
11. An order, like `ClearCart`, leaves the coupon codes on the cart. Each of
    several codes is priced on the full subtotal; together they may take off more
    than the goods cost and eat into the freight (`QuoteHolds` and `FreightIsPaid`
    allow this case and no other). The freight itself is what the client sends.
12. A streamed turn that is cut off because the shopper left is reported as done
    (`DoneIsClean` allows it for that reason only).

## 4. What is proved

`OrderStockProofs` proves, for every set of orders that is finite
(`OrdersFinite`), any variants, any largest quantity (`QuantityBound`) and any
column width and stock levels that fit it (`ColumnWidth`):

| Theorem | Statement |
|---|---|
| `TypeCorrect` | `Spec => []TypeOK` |
| `BoundsHold` | `Spec => []StockWithinBounds` |
| `NoPhantoms` | `Spec => []NoPhantomReservation` |
| `DriftHasOneCause` | `Spec => []ReservationExact` |
| `HoldersPay` | `Spec => []HoldersCanPay` |
| `ChargeFollows` | `Spec => []ChargeNeverAhead` |
| `LedgerRefined` | `Spec => Ledger!Spec` |

*The argument.* The inductive invariant `IInv` is the type invariant, the safety
properties on bounds, reservations and charge, and two facts that tie the columns
of a row together: `RowsAgree` (a row has a payment status exactly when it has a
status) and `FreedAgrees` (an order that awaits payment is cancelled exactly when
`CancelOrder` released it). Without `FreedAgrees` a step that pays a cancelled
order could not be told from one that pays a live order, and the two move the live
holds differently. `HoldersCanPay` is not in `IInv`: the units of one live holder
are at most those of all, which are the reservation (`ReservationExact`), and that
is at most the stock (`StockWithinBounds`).

Holds are counted as the cardinality of a set of pairs (order, unit number), so
sums need no recursion: the lemmas `UnitsFinite` to `UnitsWithout` say what
adding, removing and intersecting orders does to the count. One lemma per
reservation-moving action (`CreateOrderKeeps`, `CancelOrderKeeps`,
`ConfirmOrderPaymentKeeps`, `ExpireOrdersKeeps`) carries its share of the
induction. The key inequality of the last two is that `GREATEST(n, 0)` may clamp
the release of units that were released before, and that the reservation still
never exceeds the holds that remain.

The refinement maps `payment` to the phases of the ledger and `stock` to
`onHand`; every action is a ledger step or invisible, by `LedgerSteps`, which
needs `TypeOK` and `RowsAgree` of `IInv`.

`CheckoutProofs` proves, for any finite set of requests (`RequestsFinite`), any
keys and goods and any use limit (`UseLimit`), with `None` and the two states of
a record told apart from requests and keys (`KeyNames`, `RecordStates`):

| Theorem | Statement |
|---|---|
| `TypeCorrect` | `Spec => []TypeOK` |
| `KeysOrderOnce` | `Spec => []OneAcknowledgedOrder` |
| `StuckKeysExplained` | `Spec => []StuckKeyHasCause` |
| `GoodsOrderedOnce` | `Spec => []OrderedTwiceOnlyByOverlap` |
| `UsesAreOrders` | `Spec => []UseCountNeverAhead` |
| `KeysKeepTheirPromise` | `Spec => KeyPromiseKept` |

Its `IInv` has four parts besides the properties themselves. `HandlerKnows` is
what a handler may rely on at each statement: no order before the commit, a key
wherever the key is used, an order that is not in doubt from the redemption on.
`KeyTells` is the heart of it: the row of an owned key is in flight, a key has
one owner, a finalized row names an acknowledged order of its key, and after an
acknowledged order nobody but its own handler owns the key. A release deletes
the row, so without the last part a second request could claim the key of an
order that exists; with it, only an order in doubt leaves its key to be claimed.
`GoodsMove` says that goods are in the cart or on orders, and that a request
which read the cart after a commit holds none of that order's goods.
`CountFollows` counts the discounted orders whose redemption is over, so that a
redemption can be charged to one order; the count is a cardinality, which is why
the requests must be finite.

The refinement maps a key to the order acknowledged under it (`OrderOf`, a
choice from a set of at most one) and a request to what its answer named
(`KeyedTold`). `CommitOrder` is the abstract acknowledgement, `SaveKey`,
`SaveFails` and the two lookups tell, and all other steps are invisible; a
commit in doubt is among them, because its caller was told that it failed.

`PaymentFlowProofs` proves, for any orders, attempts, positive total
(`TotalPositive`) and any patience of the provider (`RefusalBound`); that `None`
is no order is assumed and not needed:

| Theorem | Statement |
|---|---|
| `TypeCorrect` | `Spec => []TypeOK` |
| `OnlyCapturedIsPaid` | `Spec => []PaidMeansCaptured` |
| `PaymentsAreKept` | `Spec => []AcknowledgedIsConfirmed` |
| `PayersHaveOrders` | `Spec => []MoneyHasOrder` |
| `BooksDivergeByRollback` | `Spec => []BooksAgree` |
| `SecondRefundsExplained` | `Spec => []SecondRefundHasCause` |

Its `IInv` adds what the handlers carry between steps. `ShownIsRecorded`: a QR
code was shown for a recorded payment, and an order with one has left the
cleanup's reach; with it a charge can be paid only for an order that cannot be
failed any more. `RefundHoldsOrder`: the order of a running refund is paid, no
other refund runs on it, and its amount is still refundable. `Ahead` and
`MovedIsKnown` tie the provider's book to the order's: a second refund of an
order that never went astray would find either a running refund, against the
lock, or a refunded order, against the guard.

`UserProofs` is about three modules. About `AddressBook`, for any rows and any
requests, with no assumption:

| Theorem | Statement |
|---|---|
| `TypeCorrect` | `BookSpec => []BookTypeOK` |
| `OnePerPurpose` | `BookSpec => []OneDefaultPerPurpose` |
| `PurposeKept` | `BookSpec => PurposeNeverLost` |
| `AloneRepairs` | `BookSpec => AloneLeavesOne` |

Its `IInv` adds `CommitsSafely`: a setter that is ready to commit marks a row that
is there and cannot be deleted, is the only one ready in its index, and has
cleared every other mark of it. Without it `Commit` could not be seen to leave
one mark; the unique index establishes it in `Set`, and the row locks keep it.
The last theorem needs a second invariant, `AloneSeesAll`: while a request is
alone, every `is_default` mark is one that its snapshot found or that it has
cleared, so nothing is marked beside its own row when it ends.

About `Accounts` and `Reviews`, for any finite set of users (`UsersAreFinite`),
any products (`NoProduct` is none of them, `ProductsAreProducts`), any handlers and
ratings that are integers (`RatingsAreIntegers`):

| Theorem | Statement |
|---|---|
| `ReviewsTyped` | `Spec => []TypeOK` |
| `OneAccount` | `Spec => []OneAccountPerMailbox` |
| `SignIn` | `Spec => []NobodyLocksOut` |
| `StaleForCause` | `Spec => []StaleHasCause` |

The first half of `RInv` is `Unique` (no two rows share an e-mail as it is stored)
and `Spelled` (what nobody has edited is stored normalised): together they make
two accounts of one mailbox the work of an edit. The second half is `FreshCounts`:
a count that nobody has overtaken and that is wrong belongs to a product whose
reviews have changed since, and then somebody else has yet to count, or carries a
count that is right. `StaleHasCause` alone is not inductive, because the write of
a wrong count would break it: `FreshCounts` says that such a write was overtaken,
or leaves a repair on its way.

`RateLimitProofs` proves, for any clients, requests and positive times
(`TimesArePositive`) with a `bucketTTL` in which a bucket fills up
(`TTLCoversRefill`; the code's is 10 minutes):

| Theorem | Statement |
|---|---|
| `TypeCorrect` | `Spec => []TypeOK` |
| `RateIsKept` | `Spec => []WithinRate` |
| `SweptTable` | `Spec => []IdleForgotten` |
| `RetryHonest` | `Spec => RetryIsHonest` |
| `EvictionIsInvisible` | `Spec => NothingForgotten` |

Its `IInv` is the type invariant and three facts. `Balanced`: what a client with a
bucket has spent and what the bucket holds stay within the burst and `lastSeen`;
a client without one has spent nothing, or all of it well before the last sweep.
`IdleForgotten`. `DueIsCovered`: a bucket that refused a request holds a token's
worth at the time it told. The refinement maps a client to what its bucket is
worth now, a full one if there is none; an evicted bucket was full, by
`TTLCoversRefill`, which allows for a stamp that lags by `MaxDelay` at either end.
A request that was overtaken pays from an older time: that is the `Slack` of
`TokenBucket`.

`CatalogProofs` proves, for any products, variants, categories, names,
administrators and versions, with the absent value told apart from rows and names
(`NoneIsNoName`, `NoneIsNoRow`) and forms of the right fields (`FormFields`,
`VersionBound`):

| Theorem | Statement |
|---|---|
| `TypeCorrect` | `Spec => []TypeOK` |
| `RefusalTrue` | `Spec => []RefusalIsTrue` |
| `EditsSerial` | `Spec => EditsAreSerial` |

Its `IInv` adds `CopiesTrue` (a client's copy is no newer than the row, and equal
to it if the versions are) and `MissesLast` (between the miss and the probe the
reason for the miss persists) to the types and `RefusalIsTrue`. Versions only grow
and deleted products stay deleted (`Onwards`). `CopiesTrue` is what makes a
matching version mean an unchanged text, which is what `SerialEdits` demands of an
edit.

`CartProofs` proves, for any finite sets of variants and coupon codes
(`VariantsAreFinite`, `CodesAreFinite`), any tabs, freights that are integers
(`FreightsSent`), any quantity bound (`QuantityBound`), any prices (`PricesPaid`)
and any offers (`Offers`) whose percentages are at most 100 (`Percentages`):

| Theorem | Statement |
|---|---|
| `Typing` | `Spec => []TypeOK` |
| `ShoppersPayWhatTheyWereShown` | `Spec => []QuoteHolds` |
| `OneCouponLeavesTheFreight` | `Spec => []FreightIsPaid` |
| `PercentagesRoundHalfUp` | `Spec => []PercentRoundsHalfUp` |
| `AllocatePreservesTotal` | for any `weights \in Seq(Nat)` that are not all 0 and any `cents \in Nat`, `SumFunction(Allocate(cents, weights)) = cents` |

The first part of the module is about amounts. Totals are the community module's
`SumFunction`, a recursive function inside a `CHOOSE`: that it is the sum of its
values is shown by induction on the size of the domain (`SumExists`, `SumIs`). The
induction itself is `InductiveSet`, a consequence of the pigeonhole principle: the
library's induction theorems take an operator as a parameter, which the installed
provers cannot instantiate, while a *set* of naturals they can.
`AllocatePreservesTotal` is what `money.go` promises of `Allocate`, and with it
that fewer cents are left over than there are parts: the remainders add up to the
leftover times the weights' total (`SumOfCombination`, `SumBounded`,
`LeftoverWithin`), each part has a place of its own in the order of the remainders
and so exactly as many parts get a cent as are left over (`Places`), and the parts
add up to the floors and those cents (`SumOfMarked`). `PercentIs` follows the
largest-remainder split of two shares through quotient and remainder and finds
that the first share is the percentage rounded half up, never more than the
amount.

The second part is the invariant: a `GetCart` that no write has overtaken holds
the codes and lines of the cart as it is (`ShowsCurrent`); what a tab was shown
since the last write is that cart's total, priced with its coupons or without
(`QuoteCurrent`); and an order such a tab has begun has read the same
(`OrdersCurrent`). `QuoteHolds` needs all three: the order reads the lines first
and the codes second, the quote the other way round, and a coupon may end between
them.

`AssistantProofs` proves, for any tool names, ceiling and bounds (`Bounds`):

| Theorem | Statement |
|---|---|
| `Typed` | `Spec => []TypeOK` |
| `EveryCallIsAnswered` | `Spec => []TranscriptPairs` |
| `DoneMeansWhole` | `Spec => []DoneIsClean` |

Its `IInv` says what the two goroutines hold of a turn between them. `Flushing`:
the calls received, followed by those in the outbox, are the calls the model
meant, and the end comes last. `EndedWhole`: hence a turn that has a stop is
whole, and one without was cut off by an error or by a shopper who left. Without
it `TakeTurn` could put half a turn into the transcript. `TranscriptLength` and
`AnswersSoFar` place the message that is added next, and `NotOver` says that
nothing final was emitted before the last step.

*Model-checked only.* Liveness under fairness (`AbandonedHoldsFreed`,
`RequestsEnd`, `ChatEnds`), which the prover does not reach. All invariants and
action properties of the runs are proved, and so are the four refinements, for the
safety part that their abstract specifications state. The four violations are
counterexamples and need no proof. `Allocate` is proved for natural amounts and
weights, which is what its callers pass; an amount below zero and the order in
which equal remainders are served are not part of the theorem.

## 5. Not modelled, and why

* The amounts of money in refunds: which status a refund ends in is a free choice
  of the model, as the request chooses the amount.
* `UpdateOrderTracking` writes a column that nothing reads; `UpdateOrderStatus`
  has no caller in the program. Neither have `SetCategories`, `LinkVariant`,
  `SplitInPayables` and the event bus's subscriptions.
* Several stock sources: the only allocator returns the default source.
* Deadlock between two checkouts that lock stock rows in opposite order: the
  database aborts one, which is the failed creation `Checkout` already has.
* Widths and rounding outside stock: cents are `int64` and far from their limit,
  token counts of the limiter are floats, the average rating is rounded by the
  database.
* Search, media, attributes, configuration, the event bus: stateless, or I/O
  without an invariant across steps.

## 6. Plan

1. Done: all modules of section 2 and the proofs of section 4.
2. What `OrderStock` and `PaymentFlow` say of the same columns, as a theorem: an
   abstract life of a payment that both implement, so that a property proved of
   one may be read in the other.
3. The same for the creation of an order in `Checkout` and in `OrderStock`, whose
   connection is an argument in section 2.
4. The stock statements with their row locks, for the deadlock of two checkouts
   that no property covers.
