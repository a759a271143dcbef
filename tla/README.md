# A TLA+ model of the shop backend

The repository is the backend of an online shop (NestJS, TypeORM on MySQL): a
catalogue, orders with stock and coupons, online payment through SSLCommerz and
Stripe, risk checks, content pages, notifications and chat. This directory holds
TLA+ modules of its transactional core, the TLC runs that check them on small
instances, and TLAPS proofs of the theorems that matter most. Paths below are
relative to the repository; `module/` stands for `src/module/` in it.

    tlc -config payment_races.cfg MCPaymentLifecycle.tla    # one run
    tlapm PaymentLifecycleProofs.tla                        # one proof module

## 1. The system

| Component | State it keeps | Operations | Talks to |
|---|---|---|---|
| order service (`module/order/order.service.ts`) | `orders`, `order_summary`, product stock | create, change status, courier data, listings | coupon, pricing, notification, mail |
| order expiry worker (`order-expiry.worker.ts`) | orders, payments, stock | every minute under `GET_LOCK`: cancel unpaid orders whose window is over | gateway inquiry |
| payments service | `payments`, `payment_refunds`, audit log | open a session, retry, refund, review, verified reconciliation, outbox replay, Stripe handlers | gateway, confirmation |
| payment confirmation | payments, orders, refunds, outbox rows | confirm, fail, cancel an attempt | gateway validation, outbox |
| reconciliation worker | payments | every few minutes under `GET_LOCK`: ask the gateway about open attempts | gateway, confirmation |
| webhook inbox | `payment_webhook_inbox` | store a notification, process it under a lease | confirmation |
| payment outbox | `payment_outbox_events`, delivery attempts | enqueue in a transaction, dispatch under a lease | consumers (simulated by a log line) |
| Stripe (in the payments service) | payments, orders, intents and sessions at Stripe | open an intent or session, webhook events, success page, reconciliation | expiry worker, outbox |
| risk (`module/risk`) | checkout rows, `outbox_events`, blacklist | checkout with an idempotency claim, review, blacklist | its own outbox processor |
| coupon, unique codes, pricing | coupons and redemptions, counters | redeem in the order's transaction, next code, totals | order service |
| profit report, storefront, dashboard | none | sums over orders and their items | orders |
| products, reviews, comments, categories, roles | their tables | look up, upload, write | the shop's pages |
| accounts (auth, users, profiles) | users, profiles, reset codes | sign up, sign in, reset a password, edit a profile | mail |
| chat and notifications | conversations, messages, notices, socket rooms | send, answer, load a thread, mark as read | browsers |
| content pages, settings, SEO | their tables | create, read, update, delete | the shop's pages |

The components share rows, not memory. Three kinds of interaction are hard:

* **Handlers that await between a read and a write.** Browser callbacks, the inbox
  worker, two cron workers and administrators work on the same payment. Some
  decide in a transaction under row locks (order, then payment); others read
  without a lock, ask the gateway for seconds, and `save()` the entity they read,
  which writes every column back.
* **Leases.** The inbox and the outbox are processed by a cron job in every
  instance of the server; instances die, and leases end in the middle of work.
* **Things only a worker can finish.** A lost callback is repaired by
  reconciliation; an abandoned order by the expiry worker, which in turn waits for
  reconciliation.
* **Row locks and connections.** Orders lock several products, a coupon and, by a
  foreign key, the customer; each holds a connection and asks for another one.
  Plain reads in the same transaction see a snapshot from before the locks.
* **Look up, work, write.** Sign-ups, profiles, products and galleries have no
  transaction at all: whoever comes in between is overwritten or doubled.
* **Sums computed twice.** The price of a cart, and what was earned, is computed
  at five places each.

What makes each component correct: the money of an attempt has exactly one
consequence (payment, confirmation); PAID is backed by money and announced
(confirmation, outbox); an active order holds its items, and a paid one is not
expired (order, expiry, retry); an abandoned order does not stay for ever
(workers); a queued row is delivered once per queueing and never lost (inbox,
outbox); no more money goes back than came in, and the order says how much
(refunds); no unit is sold twice or lost, a coupon stays within its limit, every
call ends (order creation); a Stripe payment is announced once and a cancelled
order can no longer be paid (Stripe); a checkout is made once and no block is
overtaken (risk); every place computes the same sum (sales); nobody misses a
message (chat); calls that are alone leave consistent rows (accounts, catalogue).

`PROJECT.json` lists every component, also those left out, and every hazard with
its line and the properties aimed at it.

## 2. Modules

| Module | Models | State |
|---|---|---|
| `PaymentStateMachine` | the transition tables of attempts and orders, the stock groups | none |
| `PaymentLifecycle` | one order, its SSLCommerz attempts, and every handler that writes them | rows, gateway, handler activations |
| `WorkerBatches` | `PaymentLifecycle` among all the other orders: workers read a bounded batch | the other rows a worker finds |
| `PaymentOutbox` | the payment outbox of several instances | rows, workers, counters of deliveries |
| `WebhookInbox` | the notification inbox of several instances | rows, workers |
| `PaymentRefunds` | the refunds of one paid attempt | refund rows, order payment status, gateway calls |
| `StockLedger` | abstract: orders take their items at once and give them back at most once | stock, state and items of orders |
| `OrderCreation` | order creation, status changes and edits of products and coupons, with their locks; implements `StockLedger` | rows, calls in flight, the pool |
| `StripePayments` | one order paid through Stripe, three ways | rows, intents, session, events, handlers |
| `RiskCheckout` | checkout under subject locks, the blacklist, review, the risk outbox | rows, calls, processors |
| `Sales` | prices, orders and every sum over them | product, discount and coupon rows, orders |
| `Messaging` | chat, socket rooms, order notifications | rows, browsers, calls in flight |
| `Accounts` | registration, Google login, password reset, profiles | rows, calls |
| `Catalogue` | products, galleries, reviews, comments, categories, roles | rows, calls |
| `MC...` | instances for TLC; `MCPaymentServices` and `MCShop` put components that share no row into one run, `MCRiskCheckout` separates the blacklist from the outbox | `part` |
| `SetSums` | lemmas about the sum of a function over a finite set, for the proofs | |
| `PaymentLifecycleProofs`, `PaymentOutboxProofs`, `OrderCreationProofs`, `RiskCheckoutProofs`, `StripePaymentsProofs` | theorems about the module of that name | |
| `PaymentServicesProofs` | theorems about `WebhookInbox` and `PaymentRefunds` | |
| `ShopProofs` | theorems about `Sales`, `Messaging`, `Accounts`, `Catalogue` | |

Definitions under a comment `Mutant` are not used by the specifications. Each is
the form another definition would take with a plausible slip in the code (a
dropped guard, a `>` for a `>=`, a forgotten event); it stands beside the
definition it imitates and shows which property notices the slip.

### PaymentLifecycle

`order` and `att` are the rows of `orders` and `payments` cut down to the columns
handlers decide by: status, payment status, whether the payment window is over;
attempt status, review flag, number of reconciliations. `gw` is what the gateway
would answer for an attempt. `held` counts how often the items were taken from
stock minus how often they were given back. `confirmed` counts the
PAYMENT_CONFIRMED rows of the outbox, `refunded` the automatic refund rows.
`proc[p]` is a handler in flight: where it is, and what it read.

* A transaction that takes the row locks it decides by is one action
  (`ConfirmOrder`, `LatePayment`, `ExpiryCommit`, `RetryRevive`, `AdminReject`,
  `AdminReconcileCommit`, `UpdateOrderStatus`). Every `await` outside such a
  transaction separates actions (`ConfirmRead`, `ConfirmValidated`, ...;
  `ReconcileRead`, `ReconcilePending`, `ReconcileSave`).
* `Save` is TypeORM's `save()` of a loaded entity: the row becomes the remembered
  one with the change. `overwritten` records that it was another one by then,
  `orderLost` the same of the order row (`CourierSave`).
* `Abort` ends an activation with nothing more written: a guard that is not met, a
  failed call, a rollback, a crash. Early returns without effect are merged into
  it. So is the unique-key error of a second automatic refund.
* `HasSummaries` is the key under which item rows are found. Two handlers look
  them up by the human-readable number, where there are none; `order.service.ts`
  uses the id.
* `FailRead` and `CancelCall` ask nothing of the gateway: the callbacks of
  `payments.controller.ts` are public and believe whoever calls them, so an attempt
  whose payment the gateway holds may be reported as failed.
* Abstracted: one attempt (one order) of a worker's batch per activation, which
  allows every order of work on a batch, and leaves out that a batch may be full of
  others (`WorkerBatches` has that); the two-minute cooldown between sessions,
  the age and `nextCheckAt` of the reconciliation query (anything may be inspected
  at any moment); whether items are in stock for a retry (both outcomes); amounts,
  of which only match and mismatch matter; histories, audit rows and mail.
* `Ops` selects the handlers of an instance. `GatewaySettles`,
  `PaymentWindowElapses` and confirmations are always there.

### WorkerBatches

Both cron workers take twenty rows a run (`order-expiry.worker.ts:69`,
`reconciliation.service.ts:72`) and leave in place what they skip or postpone: an
attempt under review, one the gateway calls VALID, an inquiry that failed. The
query of the expiry worker has no order, the one of reconciliation an order that
need not favour this row. `others` is how many other rows the query finds, at most
one batch, and changes at any time; while it is below `BatchSize` (`HasRoom`) this
order is read for certain, otherwise it may be.

### PaymentOutbox and WebhookInbox

Time is one bit of a row, `ripe`: the next attempt is due, or the lease is over.
It may become true at any moment after it was reset, also during a dispatch. A
worker of the outbox claims a batch in one transaction with SKIP LOCKED, renews
its lease (`Heartbeat`), and completes each row under token and status. The token
of a batch is the worker's name, since a worker has one batch at a time and asks
only about rows of it. `busy` is `isProcessing`: it is set before the claim and
reset only after a batch, so `ClaimNothing` and `ClaimFails` leave it set.
`LockTables` says what the driver makes of `['SKIP LOCKED']`, which
`payment-outbox.service.ts:85` passes as the third argument of `setLock`: that
argument is a list of tables to lock, and TypeORM throws for it on MySQL, the type
`typeorm.config.ts` sets. Without it every claim is `ClaimFails`. The runs are with
it, as what else the outbox does is worth checking; section 5 tells the rest.

A worker of the inbox reads its list without a lock and claims each row by the
lease it read there, so old lists matter and tokens must be told apart:
`FreshToken` draws one that no row and no worker remembers. The completion is
fenced by the token; the failure path writes by id, whatever the row is by then.
The list is not cut at ten rows, a bound no instance reaches.

`confirmPayment` is an opaque call of the inbox that returns or throws; its effect
on the payment is `ConfirmCall` in `PaymentLifecycle`, which may happen any number
of times. `Enqueue` of the outbox is `Emit` there.

### PaymentRefunds

One row for each idempotency key; asking again with a stored key changes nothing.
`Automatic` is the key of the refund that a late payment causes.
`call[k]` is what `initiateAdminRefund` still has to do after its commit: ask the
gateway, or save the answer it has. A lost answer leaves open what the gateway
did. `SaveAnswer` writes the entity of the first transaction over any mark set
meanwhile (`overwritten`). A mark is `misjudged` when the call has not ended or
the gateway did otherwise. The attempt stays PAID and no other handler writes the
order's payment status in this module.

### OrderCreation and StockLedger

`call[c]` is a call of `OrdersService.create`: `Submit` looks up the idempotency
key before the transaction, `VerifyPayment` asks Stripe about an advance payment,
`StartTransaction` takes a connection, `LockProduct` locks the next product in
ascending order, `CheckStock` compares the stock under the locks and fixes the
snapshot (`seen`) that later plain reads see, `DrawNumber` is `getUniqueOrderId`,
which takes a second connection, `Redeem` locks the coupon, and `Commit` writes
order, items, redemption and stock. Everything a transaction wrote before its
commit is invisible to others and is part of `Commit`. `Contend` is a dead-lock or
lock timeout with the retry of the code, `Fail` any other exception. `admin[a]` is
`updateOrderStatus`: the order and, through its join, the customer are locked,
then the products to restock. Locks and connections in use are read off the
records of the calls. `supply` is history: what the shop put up for sale, adjusted
when a product form overwrites the stock.

Removing a product, an order or a coupon, and noting the courier of an order, is
`findOne` without a lock and `save` of the entity, which writes every column that
differs from the row that `save` loads first. `ReadProduct`, `ReadOrder` and
`ReadCoupon` remember the entity in `unsaved`; `SaveProduct`, `SaveOrder` and
`SaveCoupon` write it later, each column with its old value or the one of the
moment, as the row may change between the load and the update. `rewound` is
history: orders whose status such a save set back.

`StockLedger` says what all of this amounts to: `Place` takes a whole cart if it
is there, `Return` gives it back once, `Rewind` sets the state of an order back
without its items, and the order is known by name from then on. `LedgerHolds` maps
the shelf to the quantity column, an order to the group of its status; commits map
to `Place` and `Return`, forms and removals of products to `SetAnew`, saves of
orders to `Rewind` or a stutter, everything else to stutters.

Abstracted: prices (module `Sales`), dates of the coupon (`active` is one bit),
the number drawn, mail and socket events after the commit. Size variants are one
number next to the total.

### StripePayments

One order that is made in one of three ways (`kind`): placed and then paid through
`initiateStripePayment`, paid in advance through `createPayment`, or placed by a
checkout session. `Bare` is the intent of `createPayment`, `Own` the one Stripe
opens for a session; neither carries the number of an order, so their events find
the order (`Found`) only where `orders.paymentIntentId` names them. That column is
written by the first save of the session's webhook, and back to null by the second
save of `createCheckoutSession`, whose entity is older. `SessionRead` and
`SessionSave` are the two halves of the webhook. `intent`, `session` and `hooks`
are Stripe: an event stays in `hooks` for ever, so it may be delivered any number
of times and in any order. `req[r]` is a handler between its read and its save.
`Confirm` is the transaction of `handlePaymentIntentSucceeded`;
`FailedRead`/`FailedSave` the one of a failed charge, which locks nothing;
`ReconcileAsk`/`ReconcileCommit` the administrator;
`ExpiryRead`/`ExpiryAsk`/`ExpiryCommit` the Stripe branch of the order expiry
worker. `undone` and `judged` are history: that someone took a PAID back, and
which intents the worker asked about when it cancelled. Amounts are one bit,
`matches`. Items are not modelled: what the handlers do to them is nothing.

### RiskCheckout

`checkout[c]` is one transaction: `Claim` waits for the key row and reads it,
`LockSubject` locks the rows of address, phone and network in the order of their
names, `Evaluate` reads the blacklist and computes the score, `Decide` writes key
row, order, subject and event. `blind` marks a checkout whose blacklist query
failed, which the code takes for "not blocked". An address is a few bits and a
text: ranges are matched by the bits (`ip-security.service.ts:73-97`), while the
name of a network's lock is cut out of the text (`:41-58`), so one network written
in two ways (10.1, 010.001) has two locks. Scores are those of the code. A
blacklist entry is created under the lock of its phone or network; revoking and
expiry need none. The processor claims a batch of at most `BatchSize`, without a
token, and remembers the counts from before the claim, so `FailPublish` may hit a
row another processor has by now, with an old count. `ClaimThrows` is the claim
that MySQL refuses (`LockTables`, as in `PaymentOutbox`). Nothing in the
repository calls the processor, so nothing is said of what it eventually does. The
classes are provided by no module of the application; the model is of the code as
it is written.

### Sales, Messaging, Accounts, Catalogue

`Sales` has the sums of the code as operators (`UnitPrice`, `Discount`,
`PreviewTotal`, `Bill`, `CardAmount`, `Summary` ..., in hundredths, rounded where
the code rounds) and the few actions that change what they are computed from:
`Place`, `Reprice`, `SetMega`, `Move`, `RemoveSale`. Items keep price and cost of
their day, as order-summary rows do. The reports are read as the code writes them:
`ProductRow` takes from each product its `Share` of the coupons, `CategoryRow` takes
none off, the dashboard adds up `ThisYears` orders, and its list of categories goes
by name and holds `TopSize` of them; names that sold alike are in no order, hence
the set `TopLists`.

`Messaging`: a message is found or given a conversation, stored, committed with
the counter, and then announced to the sockets in its room, one step each. A
window loads a thread in the order of the code: counter reset, page fetched, page
shown. A window joins and leaves rooms and loses its socket. `answered` and
`skipped` are history: which messages an administrator was answered with, and
which a page of older messages or an error passed over. Notifications have the
unique key (type, order).

`Accounts` and `Catalogue`: a call reads in one action, uploads or hashes, and
writes in another; `met` and `together` remember which calls were in flight at
once, since the code gives promises only to calls that were not. `ResetPassword`
checks the code a given call mailed; `CodeExpires` is the clock. In `Catalogue` a
call does one of `Jobs`; `UniqueSlug` appends the first free number, as the loop of
the code does; a gallery
is written row by row, and when one insert fails the call has answered while the
others go on (`failed`). `RenameEntry` looks up one row of the new slug and goes on
when that is its own: `named` keeps the calls a slug goes back to, `claims` what a
call found of it. A rating is computed and written after its review.

## 3. Runs

| Run | Instance | Distinct states | Shows |
|---|---|---|---|
| `payment_races` | 1 attempt, 2 activations, all handlers but the order endpoints | 2.0 million | `TypeOK`, `PaidMeansCaptured`, `OneConsequence`, `PaidOrderIsAnnounced`, `PaidStays` |
| `order_stock` | 2 attempts, 2 activations; initiate, retry, fail, expiry, reject | 0.9 million | `ActiveOrderHoldsStock` |
| `order_expiry` | 2 attempts, 2 activations; initiate, expiry, courier, admin reconciliation | 0.8 million | `ExpiredOrderUnconfirmed` |
| `worker_liveness` | `WorkerBatches`: 1 attempt, 2 activations, both workers, status endpoint, batches of 1; `FairSpec` | 67 000 | `UnpaidOrderIsResolved` |
| `outbox_dispatch` | 1 row, 2 instances, 2 retries, 4 queueings; `FairSpec` | 19 000 | fencing, log, dead letters, leases, `ClaimedRowSettles` |
| `payment_services` | 1 notification, 2 instances, 2 retries, fair; beside it the automatic refund and 2 keys, amount 3 | 50 000 | `ProcessedWasConfirmed`, `LiveLeaseNotClaimed`, `AcknowledgedIsHandled`; `ReturnsWithinPayment`, `OrderTellsRefunds` |
| `order_creation` | 2 products (one with sizes), 2 calls, 1 status change, 1 other edit or removal, stock 2, coupon limit 1, 2 tries, pools of 2 and 3; `FairSpec` | 0.25 million | `StockBalance`, `EveryUseCounted`, `RedeemsWithinLimit`, `CreationsDoNotDeadlock`, `LedgerHolds`, `CallIsAnswered` |
| `stripe_payments` | 1 attempt, the bare intent and the one of a session, 2 handlers; fair events | 0.9 million | `StripeSafety`, `ExpiryLeavesNoOpenIntent`, `CapturedIsRecorded` |
| `risk_checkout` | 2 checkouts of one key or two and one phone, 5 entries, addresses of 2 bits in 2 spellings, 2 processors, 3 claims | 1.3 million | `RiskSafety`, `NoOrderOfBlocked`, `GivenUpWhenExhausted` |
| `shop` | sales: 2 products, 2 orders; chat: 3 messages, 1 window; 1 order to notify of; accounts: 4 calls, 1 e-mail; catalogue: 3 calls | 0.8 million | `PricesAgree`, `ReportsAgree`, `UnreadIsCounted`, `WindowIsCurrent`, `NothingHappensTwice`, `QuietCatalogueIsConsistent` |
| `expired_not_restocked` | | | `ExpiredOrderIsRestocked` is violated |
| `outbox_stops` | `FairSpec` | | `QueuedRowIsClaimed` is violated |

Each run of a component also checks its one type invariant.

**Bounds.** Every race of the payment handlers is between two of them that
remember an old row, so two activations show it; a second attempt is needed where
the order is paid through one while another is open, and no handler looks at more
than one attempt besides the sets it tests. `MaxRecon` is 1 where the code has 5:
only reaching the limit matters. `MaxHeld` bounds how often the items can be taken
or given back; `MaxQueued` how often faults and replays queue an outbox row again;
`MaxRetries` is the 5 of both queues and the 3 of order creation. Two instances
suffice for a lost lease: one that lost it, one that took it. Two refund keys
beside the automatic refund and an amount of three units give a partial refund, a
blocked one and one that would exceed the amount. One outbox row is queued, failed
twice, given up and replayed while two instances hold an old batch of it; the same
safety properties also hold of two rows in batches of two (3.2 million states),
and are proved for any number. Larger variants hold as well and are left out for
their time: the two-item inbox (8.7 million states), three refund keys (0.8
million), the three-million-state variants of `order_expiry` with the status
endpoint, three checkouts of one key.

Two order creations of two products meet in every order of locks; stock 2 is
enough for one of them and a half; a pool of 2 is exhausted by both and one of 3
is not. `MaxEdits` is one edit of an administrator besides the status change, as
each edit, and each removal with its two steps, interferes with a call by itself.
One Stripe attempt besides the two intents without an order gives an attempt and
an intent the order knows from elsewhere, and two handlers one that remembers and
one that writes. The blacklist has a phone listed twice (one is looked at), a
network range in two spellings and a suspicious address, so that every decision
but the score of the code's remaining weights is reached; an event is given up
after `MaxAttempts` of 1, and `MaxClaims` of 3 lets it be claimed once more by a
processor with an old count. Chat: three messages and pages of two make a page
with and without a cursor; one window is enough, as windows share only the counter
that the administrators' calls reset. Accounts: four calls are a registration, a
mail, and two resets or profile edits at once. Catalogue: three calls are two at
once on the row of a third; each call puts in one picture, of which two calls
mixed show.

**Deadlock** is not checked: an order that is settled, and queues that are empty,
may rest for ever; `MaxHeld` and `MaxQueued` also end behaviours.

**Fairness.** Only liveness runs assume any.
* `WorkersRun` (`WorkerBatches`): a handler that started ends (`WF` of
  `Progress`). The cron jobs run every few minutes for as long as the server does,
  and a gateway inquiry or a transaction that may fail each time does not fail
  every time (`SF` of the workers' steps, since another activation, a held lock or
  an `Abort` disables them in between). That a worker reads this order is fair
  only while `HasRoom`: `UnpaidOrderIsResolved` says nothing of a behaviour in
  which other rows fill the batch again and again, which section 5 shows to be
  possible. Customers, callbacks, the gateway and administrators have no fairness.
* `Polls` (`PaymentOutbox`, `WebhookInbox`): the clock goes on; every instance
  polls; a batch that was started goes on. `SF` of the completions and claims:
  restarts do not hit every dispatch at the same step. `ClaimedRowSettles` excepts
  the case that every instance has stopped polling, which `outbox_stops` shows.
  `FinishBatch` and `FinishList` are also fair, as the code reaches them by
  itself.
* `FairSpec` (`OrderCreation`): a transaction goes on (`WF`), since a lock wait
  ends with the lock or with the lock timeout; the pool serves its queue in turn
  (`SF` of the two steps that need a connection). No request has to be made.
  `CallIsAnswered` excepts the exhausted pool, from which the code has no way out
  (section 5).
* `StripeFairness`: Stripe repeats an event until it is answered (`WF` of the
  webhook of a succeeded intent, `SF` of the two halves of the one of a session,
  between which another handler may take the place or an `Abort` end them), and a
  handler that is in flight ends (`WF` of `Abort`, which a timeout or the end of the
  request is in the worst case). Customers and administrators have none.

## 4. Proofs

TLAPS 1.4.5 proves every safety property that a passing run checks, for every
value of the constants: any number of rows, calls and workers, any prices, any
bound.

| Theorem | States |
|---|---|
| **PaymentLifecycleProofs** | |
| `Invariance`, `TypeCorrect` | the inductive invariant and `TypeOK` |
| `PaidOnlyWithMoney` | `PaidMeansCaptured` |
| `MoneyHasOneConsequence` | `OneConsequence` |
| `PaidOrdersAreAnnounced` | `PaidOrderIsAnnounced` |
| `ActiveOrdersHoldStock` | `ActiveOrderHoldsStock`, when no status, courier or admin-reconciliation call is made |
| `ExpiredOrdersUnconfirmed` | `ExpiredOrderUnconfirmed`, when no retry is made |
| `PaidAttemptsStay` | `PaidStays` |
| **PaymentOutboxProofs** | |
| `TypeCorrect` | `TypeOK` of the outbox |
| `DeliveredOncePerQueueing` | `OneDeliveryPerQueueing` |
| `DeliveryLogIsTrue` | `LogIsTrue` |
| `DeadLettersAreExhausted` | `DeadLetterIffExhausted` |
| `LeasesHold` | `LiveLeaseRespected` |
| **OrderCreationProofs** | |
| `TypeCorrect` | `TypeOK` of order creation |
| `StockIsBalanced` | `StockBalance` |
| `UsesAreCounted`, `LimitIsKept` | `EveryUseCounted`, `RedeemsWithinLimit` |
| `NoDeadlockOfCreations` | `CreationsDoNotDeadlock` |
| `TransactionsImplementLedger` | `LedgerHolds`: the refinement of `StockLedger` |
| **RiskCheckoutProofs** | |
| `CheckoutIsSafe` | `RiskSafety` |
| `BlockedPlaceNoOrder` | `NoOrderOfBlocked` |
| `GivenUpLast` | `GivenUpWhenExhausted` |
| **StripePaymentsProofs** | |
| `PaymentAnnouncedOnce` | `StripeSafety` |
| `NoOpenIntentLeft` | `ExpiryLeavesNoOpenIntent` |
| **PaymentServicesProofs** | |
| `ReturnsAreBounded`, `OrderTellsTheRefunds` | `ReturnsWithinPayment`, `OrderTellsRefunds` |
| `ProcessedMeansConfirmed`, `LiveLeasesHold` | `ProcessedWasConfirmed`, `LiveLeaseNotClaimed` |
| `ServicesTypes` | `ServicesTypeOK` |
| **ShopProofs** | |
| `NothingIsDoneTwice` | `NothingHappensTwice` |
| `UnreadStaysCounted`, `WindowsStayCurrent` | `UnreadIsCounted`, `WindowIsCurrent` |
| `PricesStayAgreed`, `ReportsStayAgreed` | `PricesAgree`, `ReportsAgree` |
| `CatalogueStaysConsistent` | `QuietCatalogueIsConsistent` |
| `ShopTypesHold` | `ShopTypeOK` |

**Assumptions.** Each module names what it asks of its constants
(`LifecycleAssumption`, `CreationAssumption`, ...), and TLC evaluates it on every
run. Most of them say that a name for "nobody" is no real name and that bounds are
numbers. The others:
* Sets that the code counts or adds over are finite: instances of the outbox,
  notifications, refund keys, calls of order creation, products, categories and
  orders of a report, messages, calls of the catalogue.
* A request carries a well-formed cart, in which the units with a size are among
  the total; a blacklist entry is of one of the three types. Neither the percentage
  off a product nor the one of a coupon is bounded, because the forms bound neither;
  the shop-wide one is at most 100.
* Nobody is an order call and an administrator, a customer and an administrator.
* The theorems that leave out some endpoints say so in their hypothesis (`Ops`).

### The arguments

None of the properties is inductive: a step acts on what it read, and the reason
why that is still good lies elsewhere. Each proof module has an invariant of its
own, stated before its lemmas, that says what a call may rely on.

**Payments.** `IInv` adds what each activation remembers (`Sound`): a remembered
row that says PAID is backed by captured money; a row about to be saved as FAILED
or CANCELLED was not PAID when it was read; an activation about to commit has
validated its attempt; a row about to be counted once more is below the limit; a
remembered order that says PAID belongs to captured money and an event.
`SessionsDistinct` and `NoSessionNoRow` say that a fresh attempt number is held by
one activation and has no row yet, so saving it replaces nothing. `Grows` collects
what no step takes back (rows, captured money, opened sessions, events), so that
what was sound when it was remembered stays sound however long the activation
sleeps. One lemma for each group of handlers, by what they write, shows that its
step grows and turns at most one activation into another sound one (`Turns`,
`TurnStep`); `Invariance` puts them together over `Next`. The second half of the
module classifies the steps by what they do to the order (`OrderStep`) and shows
by which endpoint an activation reaches a step that writes the order unlooked
(`StepEntry`). `ActiveOrdersHoldStock` and `ExpiredOrdersUnconfirmed` then have an
invariant of a few lines each, one case for each class. `PaidAttemptsStay` looks
at the writers of attempts once more.

**Outbox.** Every action is reduced to what it does to one row (`RowStep`) and to
one instance (`DispatchKeeps`, `OneWorkerChanges`). `IInv` says what an instance
relies on without looking: the rows of its batch had retries left when it read
them (`BatchInv`), so no failure is written past the limit; a leased row is
PROCESSING; and a row that waits for its dispatch was queued once more than it was
delivered (`DeliveryInv`), so the one completion the fence accepts is paid for.
`LogInv` counts the instances between an accepted completion and its log entry.

**Inbox.** Whoever finds the lease it read in its list finds it ended
(`WorkerInv`), although the list was read without a lock, because a token is not
drawn again while a row or a worker remembers it. That one can always be drawn is
a counting argument: there are more tokens than rows and memories
(`FreshTokenExists`).

**Refunds.** While no mark of an administrator is wrong, at most one refund is in
flight, and it fits into what the succeeded ones leave (`Fits`); the status of the
order is the comparison of that sum with the payment.

**Order creation.** A transaction that has locked a product read the stock that is
there, and it is enough (`StockHolds`); one that holds the coupon read the count
that is there (`CallInv`); an order being restocked is locked (`AdminInv`); locks
exclude (`LocksExclude`). A row that is still to be saved says little: of a
removed product and a removed coupon nothing is claimed, and an order whose status
a save may set back is in `rewound` from then on. The balance of the stock then
follows from what a commit does to one cart, and the refinement of `StockLedger`
from the same facts, one lemma for each kind of step (`LedgerCommit`,
`LedgerReturn`, `LedgerChangeStatus`, `LedgerUpdate`, `LedgerSaveProduct`,
`LedgerSaveOrder`, `LedgerStutters`). `NoCircle`: in a set of calls that all wait
for another one of it, the one that holds the largest thing waits for something
larger, because products are locked upwards and the coupon last; one that waits
for its first connection holds nothing and is waited for by nobody, so what is
left is a set with a call that holds a connection and asks for the second.

**Risk.** A checkout that has concluded "not blocked" holds the rows of its
address, phone and network; whoever adds an entry that covers it needs one of them
(`CoverIsLocked`) and waits (`NotOvertaken`). A key row is locked by one call, and
an ordered call left it done (`KeysExclude`, `CheckoutInv`). The count a processor
remembers of its batch is below the one of the row, which only grows
(`GivenUpLast`).

**Stripe.** What was announced is PAID, order and attempt, unless something took
that back (`Counted`), so a repeated event finds it confirmed. An intent is opened
by the handler that inserted its row (`OneOpener`, `NoIntentBefore`), so one that
the worker saw canceled stays so.

**Shop.**
* Accounts: calls in flight at once have met (`FlightsMeet`); a row that a call did
  not find, and that is there now, was written by a call it met (`LookedUp`); a code
  is used by the call that then is done with it (`CodesInv`).
* Chat: a window that loaded a thread is in its room (`LoadedInRooms`), so what is
  announced later reaches it, and what was announced before is in the page, being
  among the newest (`LastPage`). The counter is compared with the messages nobody
  was answered with, across the steps of one commit or one reset (`ChatInv`).
* Prices: the operators' sums are compared for arbitrary numbers, rounding
  included (`PreviewAgrees`, `CardSuffices`, `ListingAgrees`).
* Reports: the rows of an order add up to its subtotal (`SaleIsSound`); a sum by
  days, products or categories is the sum over the orders, taken in another order
  (`SplitByDay`, `SplitByKind`, with `SumPartition` and `SumSwap`). The shares of
  one coupon are rounded down each, so together they are at most the coupon and
  less by less than a hundredth for each product.
* Catalogue: two rows with one key were written by calls that met, and a call about
  to write has met every writer of a row its look missed, or takes the row it found
  along with the calls its name goes back to. This is stated once
  (`KeysApart`, `KeysStayApart`) and applied to slugs, categories, reviews and
  pictures. A rating is the average of the reviews, or somebody is still to
  compute it, or the calls that changed the reviews met (`RatingsFollow`).
  `SlugIsFree`: among one more numbers than products, one is free.

**Sums** are `SumFunctionOnSet` of module `Functions`. The library's induction
takes the property to prove as a parameter, which the installed provers cannot
instantiate, so `SetSums` does induction on sets: a family of subsets that is not
empty has a smallest member (`MinimalSubset`), and a smallest counterexample would
have one element to take away. The recursion equation, addition, partition and the
exchange of two sums follow.

**Only model-checked.** Liveness under fairness, which this prover does not do:
`UnpaidOrderIsResolved`, `ClaimedRowSettles`, `AcknowledgedIsHandled`,
`CallIsAnswered`, `CapturedIsRecorded`. The two runs of section 5
are counterexamples. The theorems about the life cycle with a hypothesis on `Ops`
say nothing of the endpoints they leave out, and section 5 says why.

## 5. Disagreements with the repository's own words

Two runs report one each, with the line it contradicts (`PROJECT.json`,
`findings`). Modelling and earlier runs showed others, which no run repeats; the
properties are stated so that they hold, and name the exception where there is
one.

Payments
* `reconciliation.service.ts:158` saves the entity read before the gateway was
  asked and can put PAID back to PENDING, which `payment-state-machine.ts:6` rules
  out. `PaidStays` excepts such saves. `:58` has `nextCheckAt: undefined` in its
  second condition, so the back-off delays nothing.
* Both cron workers take twenty rows, and what they skip stays in the query: twenty
  orders that wait for a review, or whose inquiry fails each time, fill the batch of
  the expiry worker run after run, since the query has no order
  (`order-expiry.worker.ts:69`), and no other order expires. `UnpaidOrderIsResolved`
  excepts it.
* `setLock(..., undefined, ['SKIP LOCKED'])` (`payment-outbox.service.ts:85`,
  `module/risk/.../outbox-processor.service.ts:60`) passes the words as tables to
  lock. TypeORM throws for them on MySQL, so that neither outbox claims anything
  there; what the rest of their code does is checked as if it did.
* The expiry worker looks at the review flag (`order-expiry.worker.ts:115`) before
  it asks the gateway and not again at `:195`: an attempt flagged in between is
  cancelled.
* MARK_SUCCEEDED (`payments.service.ts:1461`) accepts FAILED refunds without the
  sum that `:1260` checks: the refunds of a payment can add up to more than it.
* `payments.service.ts:652` "Prevents duplicate sessions if an unexpired session
  already exists": the check looks back two minutes, a session is open for twenty.
* `payments.service.ts:862` "Revives CANCELLED orders atomically": two retries
  that read CANCELLED both take the items; under the lock only PAID is checked
  again. REJECT twice gives them back twice. No property covers the two:
  `ActiveOrderHoldsStock` bounds the items of an order from below only.
* `payments.service.ts:1622` answers APPROVE with "verified with gateway and
  marked as PAID" whatever `confirmPayment` returned. REJECT locks the payment and
  then the order, confirmation the order and then the payment.
* `order.service.ts:44` lets no status follow REJECTED; a payment confirmed later
  (`payment-confirmation.service.ts:478`) makes the order ORDER_PLACED, its items
  given back.
* `payment-outbox.service.ts:258` "Fenced Failure Update" accepts a row without a
  lease: when the delivery log cannot be written, a published row is queued again.
* `payment-webhook-inbox.service.ts:64` "Fencing Lease Token": the failure path
  has none and takes back the completion of another worker.
* `updateCourierInfo` (`order.service.ts:1069`) saves the order it read: a paid
  order can be PENDING again, and then no worker ever resolves it, because the
  expiry worker leaves alone what has a PAID attempt.
* `tryReReserveStock` finds no item rows, so the recovery of a late payment that
  `failure-injection.spec.ts` describes ends in a refund every time.

Stripe
* The save of a failed charge overwrites PAID (`payments.service.ts:448` and
  `:461` say never); so do `InitiateLink`, which puts an expired attempt back to
  PENDING, and the session-expired hook, which does it to the order.
* A successful charge revives a CANCELLED order whose items were given back; two
  attempts of one order can both be charged, and no refund follows.
* The event of a payment made in advance is acknowledged and forgotten when it
  arrives before the order is placed.
* The intent of a checkout session carries no order number, so the event of its
  payment is forgotten unless `orders.paymentIntentId` names it by then; and
  `createCheckoutSession` saves its older entity after the webhook and takes that
  name away again.

Orders
* Two calls with one idempotency key place two orders (`order.service.ts:267`
  looks before the transaction, and no constraint of the table does).
* The limit of a coupon for one user is counted by a plain read of the snapshot,
  and two orders at once exceed it.
* Removing a product or an order, or noting a courier, saves a row that was read
  before: stock sold meanwhile is back on the shelf of the removed product, a
  cancelled order is active again and can be restocked a second time. Removing a
  coupon sets its count back. `StockBalance`, `LedgerHolds` and `EveryUseCounted`
  name these exceptions.
* Twenty calls that hold a connection each and wait for the second one for their
  number (`typeorm.config.ts:58`) wait for ever.
* The preview of FREE_SHIPPING outside Dhaka takes off 60 of a fee of 120
  (`order.service.ts:113` calls the preview authoritative). `createPayment` with a
  fixed coupon above the subtotal charges less than the order costs, which is then
  refused; it also does not look at the start, the limits and the least order of
  the coupon.
* The price filter of products without a shop-wide discount, and the one with it,
  use one of the two discounts; the price shown uses both. A percentage off a
  product has no upper bound (`create-product.dto.ts:58`): above 100 the filter
  compares a price below zero, and the product is sold for nothing.
* A report for one main category sets the revenue of whole orders against the
  costs of the category. `productDiscount` is always 0. What `getCategories` calls
  net revenue has no coupon taken off (`profit-report.service.ts:335`), while the
  one of `getProducts` has. The five categories of the dashboard are told apart by
  name only. The summary and the list of orders differ when a coupon exceeds its
  subtotal. The percentage of a coupon has no upper bound (`create-coupon.dto.ts`
  asks for `@Min(0)` only): with one above 100 the dashboard's sums exceed what
  the customers paid.

Notifications, chat
* The unique key (type, order) drops notices: customer and administrators share
  ORDER_PLACED; Rejected, Cancelled and Returned share a type.
* The last message of a conversation may be older than its newest one. The unread
  counter is also reset by pages with a cursor and when the query then fails; the
  event that carries it says 1 or 0 whatever it is.
* A page is cut by `createdAt`, which is the time of the insert and not of the
  commit: a message inserted before, and committed after, a full page of newer ones
  is on no page that a window loads first. `WindowIsCurrent` excepts messages older
  than a full page of what the window shows.

Catalogue, accounts
* The storefront shows replies that "Pending admin approval"
  (`product-comment.service.ts:51`) announces as held back. Removing a review
  leaves the rating. Calls at once make two rows of one slug, two reviews of one
  customer, or a gallery of both. Where two rows share a slug already, a rename to
  it passes when the row that is found is its own. An update whose picture fails
  is answered while its other pictures are still put in, behind the next update's
  back. `roles` does not look for the name on update. `abstract.repository`'s
  restore looks among rows that are not deleted, and restores none.
* `updatePassword` compares with a column that the query did not load and fails
  every time. Google login never works for an e-mail whose account was deleted. A
  code that is requested while a reset is in flight is cleared by it. Two profile
  edits at once make two profiles.

Risk
* The checkout, review and processor classes are not provided by any module. A
  score of 70 is BLOCK, for which the policy throws. Of several entries of a phone
  one is looked at, also when it is the expired one. A blacklist query that fails
  counts as "not blocked" (`blacklist.service.ts:78`); `NoOrderOfBlocked` excepts
  both. A network written in another way has another lock, so a range may be
  blocked while a checkout of it goes on, the third exception. An event is claimed
  eleven times before it is FAILED, where the constant says ten. `failEventPhase3`
  overwrites PROCESSED.

## 6. Not modelled

Left out for good: listings, metrics and logs, which change no state; the content
pages, settings and SEO, which are rows one administrator edits and the shop
reads; the gateway client with its masking; mail and the audit log, whose failures
their callers catch; guards and strategies, migrations, scripts and wiring.
`PROJECT.json` names what is left out of each component that is modelled in part.
Time is never measured: every timeout may pass at any moment. Database isolation
is taken as one-action transactions for the rows they lock, and as separate steps
for locks where their order matters (`OrderCreation`, `RiskCheckout`); elsewhere a
lock cycle (REJECT against confirmation) appears as an `Abort`.

## 7. Plan

Done: the models of the parts listed in section 1, and a theorem for every safety
property of a passing run. What is left, in this order:

1. Abstract specifications beside `StockLedger`: the outbox as a queue that
   delivers each entry at most once for each time it was queued, and the refunds
   as a counter that never exceeds the payment; with refinements, from the
   invariants that are proved already.
2. `ActiveOrdersHoldStock` with the status endpoint of the administrator, for the
   transitions that do not leave a final state: the present hypothesis leaves out
   the whole endpoint.
3. Items taken twice by two retries, or given back twice by two rejections, as
   properties of their own once the code settles which of the two it means to
   prevent.
4. The content pages and settings, whose cached rows may be stale.
