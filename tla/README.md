# Tetyhub server: a TLA+ model of orders, bookings, subscriptions, accounts and queues

Tetyhub is a marketplace server (Express, PostgreSQL, Redis, Paystack): customers
buy products of several vendors in one order and book services of vendors;
vendors ship, hold sessions, subscribe to plans and are paid out.  This directory
models the parts of it that several processes act on at once, checks them with
TLC on small instances, and proves for every instance with TLAPS what does not
need fairness.

Every definition names in PROJECT.json (`map`) the lines it was translated from.
Paths below are relative to the repository's `src/`.

## 1. Inventory

### What runs, and where state lives

An HTTP request runs a handler that makes one or more PostgreSQL transactions
(`utils/checkout.js`, `transaction`); between two of them, or between two
statements outside of one, any other request, worker or instance of the server
may run, and the process may stop.  Three workers are written to run beside the
requests: the checkout worker every 30 s (`services/checkout.worker.js`), the
Paystack event worker every 5 s (`services/webhook.js`), and the hourly
subscription job (`services/subscription-lifecycle.service.js`).  Paystack is
called over HTTP with a 15-second timeout and reports charges by webhooks that
may be repeated, late or early.  All state is in PostgreSQL, save sessions and
rate-limit counters (Redis).

| Component | State | Operations | What is hard | Correct when |
|---|---|---|---|---|
| Cart and checkout (`cart.model`, `checkout.service`) | cart, stock, orders, order items, coupon usage | quote, idempotent checkout, release, cancel, expire | checkouts, expiry and catalogue edits race for stock and coupons; retries | nothing oversold or leaked; a key names one order |
| Product payment (`payment.model`, `utils/payment`) | payments, payment events | initiate (lease, provider call, recovery), verify, settle | call outside a transaction, lost replies, crashes, late and repeated charges | charged once; goods only against money; a cancelled order never revives; no charge forgotten |
| Marketplace ledger (`marketplace-ledger`) | ledger entries | book a sale inside the settlement | a failing insert rolls the settlement back | one entry per sale |
| Bookings (`booking.model`, `booking-payment.model`, `utils/booking`) | bookings, their payments | request, decide, pay, reschedule, cancel, start, complete, expire | slots held by deadlines that pass while others decide; proposals hold nothing; late charges | never overbooked; each charge earned or owed back; requests end |
| Fulfillment (`order.model`, `shipment.model`, `order-fulfillment`, `shipment`) | order, per-vendor fulfillment, shipments | vendor status, shipment create/update, sync, confirm delivery | three status machines kept together by vendors acting concurrently | order = least advanced part; nothing goes back |
| Returns and payouts (`return.model`, `payout.model`) | returns, payout rows | request, vendor/admin update, process, settle | read and write in separate statements; disputes after confirmations | a payout follows a confirmation; paid stays paid |
| Durable queues (`webhook`, `subscription-lifecycle`, `checkout.worker`) | events, renewal mails, confirmations | insert, claim under a lease, handle, mark, retry, give up | crashes between effect and mark; leases that lapse; poisoned rows | at least once, in one hand, never lost |
| Subscriptions and lifecycle (`subscription.service`, `subscription-lifecycle`, `subscription-plans`) | subscription, plan versions, events | trial, checkout, change, cancel, provider events, hourly job | provider events in any order; job against requests; calls outside the transaction | entitled exactly while paid, in trial or in grace |
| Entitlements (`entitlements`, `services.model`, `service-packages.model`) | active services, packages | create, activate, deactivate excess | count-then-insert races | never above the limit of the plan |
| Support (`support`, ticket models) | tickets, messages, attachments | create, reply, transfer, update, poll | ids from a sequence, visibility from the commit; concurrent agents; uploads outside the transaction | no message skipped; transfers current; loads balanced; attachments match messages |
| Catalogue (`products.model`, `services.model`, `service-packages.model`, `s3bucket`) | listings, images, variants, packages | create, edit, delete | uploads inside transactions, deletions after them; edits against reservations | row and storage agree; no old stock returns for sale; limits hold |
| Promotions, commission, pricing | rules | choose, round | numeric edges | the best applicable rule; no over-discount |
| Reviews (`review.model`) | reviews | create, edit, delete, moderate | pages that are stale, reviews written anew | nothing is decided on unseen |
| Accounts and sessions (`auth.controller`, `session.service`, `auth-token`) | users (PostgreSQL), sessions, their index and links (Redis) | sign up, verify, sign in, request, sign out, revoke, reset | every wait lets another request in; clean-ups that fail | no session outlives its password or access; a link works once |
| Administration (`admins.model`, `access-control`) | admins, grants, invitations | invite, accept, suspend, revoke, replace permissions | pages and grants read before they are used; administrators who administer each other | rows agree; revoked means gone; no lost update; no rights out of nowhere |
| Vendors and their staff, categories | vendors, invitations, categories | approve, invite, CRUD | little beyond administration | – |
| Notifications, mail, settings, wishlist, bookmarks, HTTP layer, configuration, schema | – | CRUD, I/O | little | – |

PROJECT.json lists each component with its modules and, where it is not modelled,
the reason; its `hazards` list what a test would hardly reach, at its line.

### How they interact

Checkout creates the order that payment initiation charges; settlement moves the
order into fulfillment, books the sale and queues the confirmation; fulfillment
ends in a confirmed delivery, which creates the payout.  Expiry (a worker)
competes with checkout, cancellation, initiation and settlement for one order
row.  The event queue carries `charge.success` to the settlement of orders,
bookings and subscriptions, and the other events to the subscriptions.  Bookings
repeat the pattern with a service's calendar in the place of stock.
Entitlements limit the services and packages that the catalogue activates; the
lifecycle job takes services back.  Administration and accounts share one column,
`users.status`, and one number, `auth_version`, which ends sessions.

## 2. Modules

| Module | Models |
|---|---|
| `OrderPromise` | abstract: what checkout promises about one order |
| `Checkout` | carts, stock, coupons, orders, payments, provider, settlement |
| `CheckoutProofs` | theorems about `Checkout` |
| `ServiceCalendar` | abstract: what booking promises about one service's calendar |
| `Booking` | bookings of one service, their payments and refunds |
| `BookingProofs` | theorems about `Booking` |
| `Fulfillment` | one paid order: fulfillments, shipments, return, payouts |
| `DurableQueue` | the three database queues and their workers |
| `DeliveryProofs` | theorems about `Fulfillment` and `DurableQueue` |
| `Subscription` | one provider: plan, checkouts, events of Paystack, job, active services |
| `SubscriptionProofs` | theorems about `Subscription` |
| `Support` | tickets, messages, attachments, readers with cursors |
| `SupportProofs` | theorems about `Support` |
| `Reviews` | the review of one customer and the moderators |
| `Catalogue` | one product or service: images, stock, variant, packages; extends `Reviews` |
| `CatalogueProofs` | theorems about `Catalogue` and `Reviews` |
| `Accounts` | one account over PostgreSQL and Redis |
| `AccountsProofs` | theorems about `Accounts` |
| `Administration` | administrators of one scope and their permissions |
| `AdministrationProofs` | theorems about `Administration` |
| `MC...` | for each, the values and symmetries that a cfg cannot write |

A formula marked *a mutant* stands directly before the definition it would
replace: it is the same definition with a plausible mistake, and the property
named with it in PROJECT.json (`mutants`) does not survive the replacement.

### Checkout

One action is one transaction, or one step of a request between transactions.
Rows are locked in the code (`FOR UPDATE` on cart, product, coupon and order;
`processCheckout` runs under the user's cart lock), so a transaction is atomic.

* `cart`, `stock`, `tracked`: cart items, `products.stock`, `track_inventory`.
  A SKU stands for a product or a variant.
* `orders` keeps status, payment status, the reservation (`live` until its 30
  minutes pass, then `lapsed`, `none` when released or paid), the key and payload
  of the request, and the status its fulfillments share until vendors act.
* `qty`, `reserved`, `usage`, `usageCount`: order items with their
  `stock_reserved` flag, `coupon_usage`, `coupons.usage_count`.
* `payments`, `events`, `ledger`, `mail`: the rows settlement writes.
* `requests` are initiations in progress: the call to Paystack happens outside
  any transaction, so `InitiatePayment`, `ProviderAccepts`, `InitSucceeds` /
  `InitFails`, `RecoverByVerify` and `RequestDies` are separate steps.
* `provider` is Paystack: per reference nothing, an open page, or a charge.

Data that no property tells apart is left out: prices, shipping, addresses,
commission, item snapshots.  A coupon either leaves something to pay or (a member
of `FreeCoupons`) nothing, which skips payment.  Only NGN passes the quote, so
only Paystack is modelled.  A batch expiry is a sequence of single ones, since
`FOR UPDATE SKIP LOCKED` admits every part of a batch.  A provider call cannot
outlive its 60-second lease (15-second timeout, `config/paystack.js`).  A
rejected request changes nothing and is no step.

### Booking

One instance is one service, whose row lock serialises requests, reschedule
approvals and expiry; sessions take `Duration` instants and then `Buffer`.  The
clock is a number up to `Horizon`; 0 stands for NULL.  `decide()` is two steps
(`BeginDecide`; `Accept`, `Decline` or `AbortDecision`), because it locks the
booking only and checks the reservation once: its commit may come at any time, also
after the reservation has lapsed and the slot was sold.  The history variable
`overbooked` has the bookings that such an acceptance puts on top of others, until
they move to a slot that has room.  A refund is `none`, `partial` or `full`:
the fee is data, who owes it is not.  The database's and the server's clock are
one; `NOW()` is the start of the transaction, which makes a slot free no earlier.

### Fulfillment

One instance is one paid order; no transaction touches two.  `Synced` is
`syncOrder`, part of every shipment action.  `payouts` are read by one statement
and written by another (`ReadPending` / `ProcessPending`, `ReadProcessing` /
`SettlePaid`): `Clients` bounds how many such requests are between the two.  A
return request of an order of one vendor closes the order at once, and the vendor's
next status opens it again if its part was still active (`Reopens`): only cancelled
and refunded orders are turned away (`order.model.js:301`).
Histories, notifications and notes are left out, and so are shipments without a
vendor (legacy rows).  The approval of a refund never commits
(`Payment.processRefund` throws), so `UpdateReturnStatus` excludes it.

### DurableQueue

The three queues have one shape and differ in how they claim (`Leased`,
`Postponed`), in their effect (`Effect`: an event settles at most once under its
key, a mail goes out every time) and in what a failure writes (`FailEvent`,
`FailRenewal`, `FailOrder`); `kind`, chosen once, says which queue it is.  A claim
takes the `BatchSize` ready rows that are first in the queue's order; `job[w]` maps
their ids to the attempts the worker has counted.  It handles them in any order:
`UPDATE ... RETURNING` promises none.  Times
are what is left of them, and one `Tick` lowers all.  A `Falter` is any exception
of handling or marking, a `Crash` also the failed update of the catch block; both
are bounded by `MaxFaults`, as is a lease that ends under its worker, which sets
`overran`.  With `Paced` every worker runs exactly once per unit of time.

Enqueuing is modelled where the code does it: `EnqueueEvent` (webhooks),
`EnqueueReminder` (the lifecycle job, once per period) and `EnqueueConfirmation`
(the settlement).

### Subscription

One instance is one provider.  Every transaction takes the provider's advisory
lock or locks its row, and changes no other provider, so a transaction is one
action.  `sub` is the row of `subscriptions`, `checkouts` the `checkout.*` rows of
`subscription_events`, `applied` the keys that make an event happen once,
`current` the versions of the plans.  Paystack is outside: `charges`, `failures`
and `recurring` are what it did, `Handle` delivers any of it at any later time and
again.  `startCheckout` is `StartCheckout` and `Pay`; `cancelAtPeriodEnd` is
`BeginCancel` and `FinishCancel` or `CancelDies`, with anything between.
`RunSubscriptionLifecycle` is the hourly job in the order of its statements
(`MoveEnded`, `MarkPastDue`, `MoveLapsed`) with the services it deactivates.
Prices, mails and the other limits of a plan are data: they are counted like
`active`.  A checkout whose call to Paystack fails is one that nobody pays: that the
code then marks its event, so that a charge would not be matched
(`subscription.service.js:361` and 498), is left out, since nobody has its page.

### Support

Creating and replying take steps: `Upload`, `WriteCreate` or `WriteReply`,
`Commit`, with `Fail`, `Cleanup` and `Die`.  The id of a message is that of the
sequence at the write; it becomes visible at the commit.  A write holds the lock
of its ticket, a creation the lock that serialises the choice of the agent.
Transfers and updates check and commit under the lock of one ticket and are one
action.  `Poll` is one page behind a cursor.

### Reviews and Catalogue

`Reviews` has one listing and one customer; `pages` are what moderators loaded, by
id and revision.  `Catalogue` adds the listing.  An edit locks the row, uploads
one object after the other (`Upload`, `S3upload`), writes and commits (`Commit`) or
rolls back (`Fail`), and deletes after the end (`Cleanup`, `S3delete`), each of
which may fail; `CommitUnanswered` is a COMMIT that succeeded and was reported as
an error, `Crash` a server that stops.  The history variables `orphans` and
`deprived` name the objects that such faults left or took, so that the property
excepts these and no others.  `held` are units of orders (`Reserve`,
`ReleaseProduct`, `ReleaseVariant`).  Prices, attributes, the status active/draft
and listings are left out.

### Accounts

Every step is one access to PostgreSQL or to Redis: a sign-in reads the row,
stores its session, adds it to the index (`UserSignin`, `SaveSession`,
`IndexSession`); a request reads its session, is admitted or rejected, saves the
session back (`Receive`, `Admit`, `SaveBack`); a reset checks, consumes the link,
writes the password (`CheckPassword`, `ConsumeLink`, `ChangePassword`).
`revokeUserSessions` reads the index (`ReadIndex`) and deletes what it read
(`DeleteSessions`), or fails.  The password and the number of changes of access
of that moment are kept with a session as history, to say what `auth_version`
should mean.

### Administration

The constant `Scope` says whose administrators they are.  A request is admitted by
its middleware (`admitted`, the right it showed), may load a page (`LoadVersion`
and `LoadGrants` are two queries) and replaces permissions in two steps,
`CheckReplacement` and `ReplacePermissions`, under the lock of its target;
`Rollback` ends a transaction that failed or that PostgreSQL chose in a deadlock.
Other transactions are one action.  `LapseGrant` is the passing of an
`expires_at`.  `activated` of a row stands for an `activated_at`: whoever has one
is verified, so that the verification link cannot reactivate it.

## 3. What TLC checks

| Run | Instance | Shows |
|---|---|---|
| `pay` | 2 customers, 2 orders, 1 unit, 1 coupon use, 3 references, 2 initiations | `IInv`: stock and coupons add up, a key names one order, goods only against money; `ChargedOnce`; `CancelledIsFinal`; `HeldUntilRelease` |
| `live` | 1 customer, 2 orders, 2 references, 1 initiation, fairness | `ChargeReconciled`, `ReservationResolved`; `KeepsPromise`: `Checkout` implements `OrderPromise` with its liveness |
| `booking_paid` | 2 bookings of an instant, starts 3 and 4, windows of 2, decisions of any length, 1 initiation, clock to 4, fairness | `BookingsSound` (capacity beside late acceptances, deadlines, keys), `MoneyAccounted`, `ClosedAndPaidKept`, `RequestsResolved`, `ChargeReconciled`; `KeepsCalendar`: `Booking` implements `ServiceCalendar` |
| `fulfillment` | 2 vendors, 1 payout request at a time | `PartsAgree` (order, parts, shipments, payouts), `DeliveredByAll`, `NeverUndone`, `ReturnDisputesPayout`, `OthersFollowOnlyTheirReturn` |
| `payout_race` | 1 vendor, 2 payout requests at a time | violation of `PaidIsFinal`: a paid payout is processed again |
| `queue` | 3 rows, 2 workers, 1 poisoned, 1 moot, 2 faults, 3 attempts, fairness | `RowsSafe` (one owner, done means delivered, no duplicate without a fault, nothing given up early), `Resolved`, `TransientFaultsRecover` |
| `subscription` | 2 references: PRO renewed by Paystack, BUSINESS paid by hand; trial, month and grace of 1, clock to 2, 2 versions, 1 renewal, fairness | `PlanAsPaid`, `FreeWithinLimit`, `PaidTermsOnly`, `PaidTimeKept`, `CheckoutCredited`, `LapsedIsMoved` |
| `trial_forever` | as `subscription`, no renewals | violation of `TrialEnds`: a trial whose plan is edited never ends |
| `support` | 2 tickets, 2 agents, a super administrator, 2 requests, 3 messages, 1 upload, 2 changes, pages of 1, readers keep polling | `CursorComplete`, `TicketsAgree` (transfers, loads, attachments), `AnswersByAssignee`, `MessagesArrive` |
| `catalogue` | 2 edits, 4 bodies, 3 objects, 1 unit, 2 moderators, 2 reviews, 3 revisions | `ListingConsistent`, `NothingRevived`, `DecidesOnWhatIsShown` |
| `accounts` | 1 sign-in, 1 request, 2 confirmations of a reset, 2 sessions, 1 link, 2 changes of access, 1 clean-up | `SessionsCurrent`, `LinksWorkOnce`, `EndedStaysEnded` |
| `administration` | the platform, 2 administrators, 1 right that expires, 2 at work, versions to 4 | `AdministrationSound`, `NoLostUpdate`, `NoEscalation` |

Each module's `TypeOK` is a conjunct of its first invariant.

### Why the bounds are enough

The races are between two actors over one thing: two customers for one unit and
one coupon use, two initiations for one order, two vendors of one order, two
workers for one row, two bookings of one slot, two edits of one listing, two
replies to one ticket, two confirmations of one link, two administrators who
administer each other.  `pay` has a third reference so that a retry has another to
be tempted by.  Two bookings of an instant can have the same slot or stand side by
side; duration and buffer enter as their sum only, and longer sessions are left to
the proofs.  With windows of 2 and a clock to 4 a request made at 0 is under
decision while its reservation lapses at 2 and its slot is sold, is accepted, paid
and moved, and a request made at 1 or 2 has its windows cut by the start.  An order
of one vendor is left to the proofs too, which are for any number of vendors; a
return request reopens it (`Reopens`), as TLC shows with `Vendors = {v1}`.
Three queue rows put one before and one after the poisoned one, with
batches of two.  In `subscription` a clock to 2 lets a trial or a paid month
end and its grace pass, and an automatic and a manual checkout are paid in either
order.  In `support` three messages and pages of one let a message commit behind
another that a reader has seen.  In `catalogue` three objects are a thumbnail and
an image with a replacement of either.  Its `Bound` keeps the product of edits
and reviews small: reviews are written while the listing has at most one image, no
orders, no packages and one edit; the two meet only in whether the listing exists,
and the theorems of `CatalogueProofs` need no bound.

The other bounds (`Horizon`, `MaxQty`, `MaxFaults`, `MaxAttempts`, `Lease`,
`Backoff`, `MaxVersion`, `MaxRenewals`, `MaxChanges`, `MaxSession`, `MaxLinks`,
`MaxCleanups`, `MaxWorking`, `MaxRevision` and the sets of ids) are named constants
and stand in the guards.  Symmetry is used in runs without liveness only (`pay`,
`accounts`, `administration`, `catalogue`).

Deadlock is not checked where the system really ends: all parts of an order
closed, the model's clock at its horizon, all messages written, nothing left to
edit.

### Fairness

`FairSpec` of `Checkout` and `Booking` assumes that time passes, that the expiry
worker runs (its timers), that open decisions end, and that a charge's event is
settled: Paystack redelivers until the event is stored and the worker retries.
The queue run shows the last step by itself, for fewer faults than attempts (ten
in the code).  Nothing is assumed of customers, vendors, initiations in progress,
cancellations or verifications.  `QueueFairSpec` of `DurableQueue` assumes weak fairness of each worker and of time; faults are not fair.  `Subscription` assumes time, the hourly
job, its calls that disable a replaced subscription, the end of a cancellation in
progress, and the handling of the charge of a checkout; events of renewals,
failures and disabled subscriptions may be lost.  `Support` assumes that readers
keep polling, as `docs/support.md` asks of a client, and nothing of requests.

**The server as committed starts none of these workers**: the three calls at
`src/index.js:173-175` are commented out.  All liveness results are about a
server that does start them, as `docs/checkout.md` and `docs/subscriptions.md`
describe; without them `ReservationResolved` and `RequestsResolved` fail at once.

### Findings

PROJECT.json (`findings`) quotes, for each violation, the statement it refutes.

1. `payout_race`: a payout that is paid goes back to processing, and can be paid
   again (`payout.model.js:69`).
2. `trial_forever`: a trial whose plan was edited waits for a checkout as its
   scheduled change, and the job never moves it (`subscription-lifecycle.service.js:328`).

Formulas that stand in the modules, are false, and can be tried by giving a cfg
the constants named:

* `PromptChargeBooked` of `Checkout` with `LedgerTable = FALSE`: the migration
  `20261019083102_leger_entry` drops `marketplace_ledger_entries`, into which every
  settlement inserts; all first settlements roll back.
* `NeverOverbooked` of `Booking`: `decide()` commits an acceptance after its
  reservation lapsed and its slot was sold.  Nothing else overbooks
  (`SlotsWithinCapacity`, proved).
* `ReturnedIsKept` of `Fulfillment` with `Vendors = {v1}`: the next status of the part
  reopens an order that a return request closed (`return.model.js:121`,
  `order.model.js:301`).
* `ParentReflectsActive`, `OnlyOwnFulfillment` of `Fulfillment`: once a vendor
  cancels, the order keeps its old status; `syncOrder` overwrites the parts of
  other vendors.  What it can do to them is `OthersFollowOnlyTheirReturn`, checked and proved.
* `FailuresIndependent` of `DurableQueue` with one worker, `Paced = TRUE` and two
  poisoned rows: undeliverable confirmations starve all others.

Noted while modelling:

* Orders and bookings: the workers above; `service_bookings` lacks the columns
  (`updated_at`, `refund_due`, `cancellation_reason`) that its UPDATEs name after
  `20260912145208_bookings`; no vendor can approve a refund; attempts of a mail
  are compared with their bound only when a failure is caught, so a row that kills
  its worker is claimed for ever; the three chores of the checkout worker share one
  `try` block.
* Fulfillment: the order of one vendor that a return request closed follows its part
  again when the vendor goes on with it, and becomes delivered with the return open.
* Subscriptions: `subscription.service.js:736` assigns to a constant, so
  `subscription.create` never links a code by itself; a row that is cancelled gets
  five days of grace as well; an older checkout that is still open may be paid
  later and then lowers the plan; `cancelAtPeriodEnd` reads the code outside its
  transaction; the job disables subscriptions on other connections than its
  transaction's; a reminder whose hour passes without a run of the job is never
  queued; `20261016235145` (line 71) drops the default of
  `subscriptions.updated_at`.
* Support and catalogue: when only the answer to COMMIT is lost, the clean-up
  deletes the attachment of a message, or the images of a listing, that exist;
  services keep images that were replaced, as `docs/services.md:19` says, products
  delete them.
* Administration and accounts: `canDelegateGrant` does not compare `expires_at`,
  so a right granted for a time is handed on without a term; two administrators
  who change each other wait for each other until PostgreSQL ends one; the
  verification link sets `users.status` to active for any unverified user,
  invited and revoked ones included; a request in progress saves back a session
  that was ended meanwhile (its `auth_version` still bars it after a reset);
  `revokeUserSessions` deletes an index key to which a sign-in added meanwhile; the
  request of a stale session ends all newer ones; the OTP functions of
  `auth.model.js:92-293` have no caller.

## 4. What is proved

Every theorem is about the unfair specification `Spec` of its module (`QueueSpec`
in `DurableQueue`) and holds for every value of the constants that satisfies the
module's assumptions.  In each module `Invariant` (`Invariance` in
`CheckoutProofs`, `FulfillmentInvariant` and `QueueInvariant` in `DeliveryProofs`)
is the inductive invariant from which the others follow; TLC found it to hold of the instance in section 3
before it was proved.  The assumptions are those of the modules
(`ConstantsAssumption`, ...): naturals for times and limits, finite sets where
something is counted, and `None` none of the ids, rows or messages it stands
beside.

### Checkout

`CheckoutProofs` proves, for any customers, SKUs, orders, references, requests
and stock:

| Theorem | Says |
|---|---|
| `TypeCorrect` | `[]TypeOK`; in particular stock never goes negative |
| `Invariance` | `[]IInv` |
| `StockIsConserved`, `CouponsAccounted`, `KeysNameOneOrder` | stock and coupons add up; a key names one order |
| `NoDoubleCharge`, `FulfillmentIsBacked`, `InitializationIsSerialized` | the safety of payment |
| `CancellationIsFinal`, `HoldingsStayUntilRelease` | the action properties |
| `CheckoutImplementsPromise` | `Checkout` implements `OrderPromise!PromiseSpec` |

The argument.  No invariant above is inductive alone, so `IInv` adds three parts:
`OrdersWellFormed` (an unused id has no history), `PaymentsWellFormed` (an order
has at most one payment, which is why a retry meets the reference the provider
already knows, and requests refer to real payments) and `LeaseHeld` (a call in
progress has the lease unless a settlement took it).  `ChargedOnce` follows from
the single payment.  Each action is first reduced to its effect on what an
invariant reads (`PlaceEffect`, `ReleaseEffect`, `ChargeEffect`, `CallCases` and
so on), so that each part of `IInv` is preserved by a few cases instead of one
per action.  `StockConserved` counts reserved units as a set of pairs, whose
changes the theorems on cardinality give.  The refinement maps an order's status
to the promise's states and `charged` to the existence of a charge.

### Catalogue and reviews

`CatalogueProofs` proves, for any editors, bodies, objects, quantities, moderators
and contents:

| Theorem | Says |
|---|---|
| `Invariant` | `[]CatalogueInv` |
| `StorageSafe` | `[]ListingConsistent`: images in use are stored, no object is lost track of, packages stay within the limit |
| `ModerationSafe` | `[]DecidesOnWhatIsShown` |
| `StockSafe` | `NothingRevived`, the action property on what is sellable |

The argument.  That a page with the review's id and revision shows the review
holds because no page is ahead of the row and because each revision of an id has
one text; `ReviewsInv` says so.  `ListingConsistent` is not inductive: an upload
could hit a key in use, or a clean-up delete what another edit just committed.
`CatalogueInv` therefore adds that one edit is open at a time (`OneEditor`, the
row lock), that keys not handed out occur nowhere, and that what an open edit
uploaded, what finished edits still delete and what the row refers to are disjoint
(`ObjectsSeparate`), with `EditsSound` and `RowExists` on the stages of an edit.
There is one lemma per stage (`BeginStep`, `UploadStep`, `SaveStep`, `CommitStep`,
`CleanupStep`, ...), and the quiet steps of reviews and orders share two.
`StockSafe` rests on `WrittenQuantity`: what an edit leaves sellable is what it
found or what its body states.

### Fulfillment

`DeliveryProofs` proves, for any vendors (finitely many, at least one) and any
number of payout requests:

| Theorem | Says |
|---|---|
| `FulfillmentInvariant` | `[]FulfillmentInv` |
| `PartsAlwaysAgree` | `[]PartsAgree`: the order is its least advanced part, no part lags behind its shipment, payouts follow confirmations |
| `AllDeliver` | `DeliveredByAll` |
| `ProgressKept` | `NeverUndone`: no order or part falls back, and what is closed stays closed, except the order of one vendor that a return request closed before its part (`Reopens`) |
| `ReturnsDispute` | `ReturnDisputesPayout` |
| `OthersStay` | `OthersFollowOnlyTheirReturn`: a shipment update changes the part of another vendor in one case only |
| `PaidOnce` | `PaidForGood`: a payout that is paid, and that no process request in progress has read as pending, stays paid |

The argument.  `PartsAgree` lacks two facts: an order that no return froze is
closed only with all of its parts (`ClosedTogether`), and a payout request has
read a row that exists (`RowsRead`).  The lemmas are about the pure part of the
code: `LeastAdvancedIn` and `AggregateCases` say what the aggregate of the parts
is, `Advances` and `Transitions` that a part follows its shipment, or moves by
`validTransitions`, forwards or into a closed status.  `Syncs` is `syncOrder`; its
proof shows that the condition by which the code refuses to take a packed order
back to awaiting shipment is never needed: the parts only advance.  For `ProgressKept` the step that opens a
closed order is traced to its cause (`ClosedParts`, `OnlyReopens`): with two vendors
or more an order is closed with all parts only, so it is the order of one vendor, a
return was requested, and its part was still active.  `PaidOnce` holds for any number
of requests at a time: what run `payout_race` shows is a request that has read
'pending' before the payout was paid, and without one nothing takes a paid payout
back (`PaidOutStays`).

`OthersStay` says how far `docs/notifications.md:65` ("only the matching vendor
fulfillment") is true.  `FulfillmentFollowsShipment` is not enough for it, since it
says nothing of an order with a return.  But a return closes an order without its
parts only if there is one part: `SharedFollows` says that where vendors share the
order, it is closed with all parts only and no part ever lags behind its shipment,
so that `syncOrder` finds nothing to advance in the others.  What is left is a part
that was cancelled or refunded and whose shipment came back: it becomes returned.

### Queues

`DeliveryProofs` proves, for any rows, workers, poisoned and moot rows, lengths of
leases, delays and batches, and any number of faults:

| Theorem | Says |
|---|---|
| `QueueInvariant` | `[]QueueInv` |
| `RowsAlwaysSafe` | `[]RowsSafe`: one owner while leases hold, done means delivered, one repetition per fault, nothing given up before its attempts are used up |
| `AttemptsUsedUp` | `[]AttemptsInv`: attempts counted at a claim never exceed those of the row, and a row that is given up has used all of them |
| `SettledStaysSettled` | `SettledIsFinal`: what is processed or given up is neither reopened nor overwritten while batches end within their leases |

The argument.  A worker writes the outcome of a row by its id alone; that the row
is still its own rests on the lease.  `HeldLeased` says that until a lease has ended
under its worker (`overran`) whatever is held is open and under its lease, so that
`OneOwner` survives a claim, and `LeasesKept` that only claimed rows have one.  "At
most one effect plus one for each fault" is not inductive, since a crash after the
effect leaves no trace but a row that is claimed again.  `EffectsBudgeted` counts
that in advance: the effects a row has had, the workers that may still let it take
effect (`Due`), and one more if it can be claimed without another fault (`Free`) are
together at most one more than the faults.  A claim trades `Free` for a worker in
`Due`, handling trades that for an effect, and only a fault adds one; `BudgetKept`
is the sum, and `ClaimKeeps`, `HandleKeeps`, `FailKeeps`, `CrashKeeps` and
`TickKeeps` show it for each step.  `BatchBounded` shows that a batch keeps to its
`LIMIT`: the claimed row that is last in the order has all the others before it.
The worker of events compares with its limit the attempts it counted at its claim,
that of mails those in the row; `AttemptsCounted` says that the former lag behind
the latter, never ahead, so that two workers with one row give it up late rather
than early.

### Booking

`BookingProofs` proves, for any bookings, users, keys, capacity, duration, buffer
and windows:

| Theorem | Says |
|---|---|
| `Invariant` | `[]BookingInv` |
| `MoneyAlwaysAccounted` | `[]MoneyAccounted` |
| `ClosedAndPaidStay` | `ClosedAndPaidKept` |
| `DeadlinesAndKeysKept` | `[](OnTime /\ OneBookingPerKey)` |
| `BookingsAlwaysSound` | `[]BookingsSound`: with these, beside the bookings that a late acceptance put on top of a sold slot no slot holds more than its capacity |
| `BookingImplementsCalendar` | `KeepsCalendar`: `Booking` implements `ServiceCalendar` |

None has a condition on how long decisions take.

The argument.  What is not about the calendar is about one booking at a time:
`RowGood` relates its status, deadline, decision, payment, charge and refund, and
`BookingInv` is `RowGood` of all bookings, that calls to the provider follow the
row of their payment, and that a key names one booking; deadlines, keys and money
follow.  The calendar is proved
through the refinement: `slotBar` and `firmBar` are what a booking occupies and
which bookings are paid, but for those in `overbooked`; `CalendarSteps` shows that
each action takes one slot that has room, gives one up, makes one firm, brings back
one that moves to a slot with room or leaves them alone, `CapacityStep` that
such steps never overbook, and `StepIsCalendars` that they are those of
`ServiceCalendar`.  `overbooked` excuses one line only: `decide()` checks a
reservation under the lock of the booking, not of the service, and an acceptance
that commits after its reservation has lapsed takes a slot that may be sold.  A
booking gets into `overbooked` by such an acceptance and leaves it by a move; an
acceptance in time, or into a slot that still has room, is a step of the calendar
(`DecisionTakes`), and so is every request, payment, move, cancellation and expiry,
which count the bookings in `overbooked` as well.

### Subscription

`SubscriptionProofs` proves, for any checkouts, offers, limits of plans, lengths of
trial, month and grace period, and any events in any order and number:

| Theorem | Says |
|---|---|
| `Invariant` | `[]SubscriptionInv` |
| `PlanAlwaysAsPaid` | `[]PlanAsPaid` |
| `FreeAlwaysWithinLimit` | `[]FreeWithinLimit` |
| `TermsArePaid` | `PaidTermsOnly` |
| `PaidTimeIsKept` | `PaidTimeKept` |

The argument.  `PlanAsPaid` is not inductive: a charge could sell terms that were
never published, a late event could find a row past due without a grace period.
`RowGood` adds that whatever is past due has its grace, and that a plan has a
period; `CheckoutsPublished` that a checkout is about published terms of a paid plan,
`RenewalsNamed` that a renewal bills the code it names, so that a row which it
finds has a plan (`CodeHasPlan`).  Every version published later leaves `RowGood`
true (`RowGoodMonotone`).  The job is one step of three statements: `Aged` says what
each may make of a row, and is transitive.  `TermsKeptNext` collects the steps that
leave plan, version and period, so that the action properties have four cases.

### Support

`SupportProofs` proves, for any staff, owners, readers, tickets, uploads and length
of a page:

| Theorem | Says |
|---|---|
| `Invariant` | `[]SupportInv` |
| `CursorsComplete` | `[]CursorComplete` |
| `TicketsAlwaysAgree` | `[]TicketsAgree` |
| `AssigneeAnswers` | `AnswersByAssignee` |

The argument.  Ids come from one sequence at the write and are visible from the
commit, so that in general a message may appear behind one that a reader has seen.
It cannot within a ticket: `LocksHeld` says that one reply at a time writes in a
ticket, and `IdsInOrder` that its id is above all committed ids of that ticket; a
cursor is such an id, and `PageWhole` shows that a page leaves nothing out before
its end.  `LoadsBalanced` needs that one creation at a time has chosen its agent,
and that this agent is still a least loaded one (`CreationsAssign`), which holds as
long as no ticket is resolved or transferred.  `AttachmentsOwned` gives each stored
object one owner: a message, a request, or the list of what a crash has leaked.
The assumption that agents and super administrators are different people is the
column `users.role`, which has one value.

### Accounts

`AccountsProofs` proves, for any sign-ins, requests, resets, changes and sessions:

| Theorem | Says |
|---|---|
| `Invariant` | `[]AccountsInv` |
| `SessionsAreCurrent` | `[]SessionsCurrent` |
| `ResetsOnce` | `[]LinksWorkOnce` |
| `SessionsEnd` | `EndedStaysEnded` |

The argument.  A session is opened from a row that was read some waits ago, and is
saved back by requests that read it some waits ago.  `ProofsBehind` therefore speaks
of what sign-ins and requests hold in hand as well: each has an older `auth_version`
than the row, or its password and access.  That a changed password raises
`auth_version` is not enough; `VersionsCounted` says that it counts changes and used
links, so that two rows with the same number are the same.  `LinkLedger` follows a
link from the mail through the one confirmation that consumes it to its use.  No
clean-up of sessions is needed for `SessionsCurrent`: each may fail.

### Administration

`AdministrationProofs` proves, for any administrators and rights, in either scope:

| Theorem | Says |
|---|---|
| `Invariant` | `[]AdministrationInv` |
| `AccountsAgree` | `[]AdministrationSound` |
| `UpdatesSeen` | `NoLostUpdate` |
| `RightsNotRaised` | `NoEscalation` |

The argument.  `PagesBehind` says that a page of the present version shows the
present rights, since every change of the rights raises the version, and that a
transaction which has checked the version knows them; `LocksHeld` that one
transaction at a time has done so for a target.  With `RevokedCleared` (a revoked
administrator has no grant and no token) and `StatusesAgree` `AdministrationInv` is
inductive.  `StatusesAgree` says of one who was activated that a revocation leaves an
inactive user and no session, which lasts: whoever has an `activated_at` is verified,
and the verification link finds unverified users only.

### Only model-checked

Every invariant of a passing run, and every property of one that is not liveness,
has a theorem.

* Liveness (`ChargeReconciled`, `ReservationResolved`, `RequestsResolved`,
  `Resolved`, `TransientFaultsRecover`, `CheckoutCredited`, `LapsedIsMoved`,
  `MessagesArrive`, and the fairness of `OrderPromise` in `KeepsPromise`): it needs
  ENABLED, which is beyond the prover.
* `PaidIsFinal` and `NeverOverbooked` are false; what holds instead is proved
  (`PaidOnce`, `BookingsAlwaysSound`).

## 5. Plan

1. `Pricing`: the choice of a promotion, commission and rounding as operators
   checked against reference definitions.
2. Payout accounts of vendors (`vendor-payout.service.js`, recipients at Paystack),
   approval of a vendor, invitations of its staff (`Administration` with
   `Scope = "vendor"` has the permissions).

## 6. Not modelled

* Stripe: never reached with NGN.
* Promotions and commission (planned); coupons are in `Checkout`, without amounts.
* Categories, activity, settings, bookmarks, wishlist, transaction history: single
  rows, one statement each, read by nothing that is modelled.
* Notifications: inserted in the transaction of their event and only read later.
* Mail templates and SMTP: I/O; `DurableQueue` sees deliver or throw.
* Query helpers: each call is one statement of the action that makes it.
* HTTP layer: routing, validation and authorization decide which inputs the models
  admit; its only state is the counters of the rate limiter.
* Prices, taxes, availability rules, ratings, listings and search: data.
* Configuration, schema, scripts: declarative; unique keys, checks and cascades of
  the schema are guards of the actions that write the tables.

Row-lock deadlocks are resolved by PostgreSQL by aborting a transaction, which in
the models is one that did not happen; only `Administration`, where two
administrators can make one, has the waiting steps.
