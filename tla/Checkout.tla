------------------------------ MODULE Checkout ------------------------------
(***************************************************************************)
(* Product checkout: carts, stock reservations, coupon redemptions, orders *)
(* and the payment that confirms them (checkout.service.js,                *)
(* payment.model.js, cart.model.js and the customer part of                *)
(* order.model.js).  Definitions marked "a mutant" are plausible mistakes  *)
(* the model does not use; the properties must reject each of them.        *)
(*                                                                         *)
(* Every database transaction of the code locks the rows it decides on     *)
(* (the user's advisory lock, the order row, the payment row, the product  *)
(* rows) before it reads them, so a transaction is one action.  What is    *)
(* NOT one action is what the code does outside a transaction: initiating  *)
(* a payment is a transaction, a call to the provider, and an update.      *)
(*                                                                         *)
(* quote() admits only NGN and assertGatewayCurrency() pairs NGN with      *)
(* Paystack, so every order of this module is a Paystack order.  A SKU is  *)
(* a simple product or one variant: the code treats the two tables alike.  *)
(* Rejections that depend on data left out here (price changed since the   *)
(* preview, product unlisted, shipping destination) leave the database     *)
(* unchanged; in the model that request simply does not happen.            *)
(***************************************************************************)
EXTENDS Naturals, FiniteSets

CONSTANTS
  Users, Skus, Coupons,
  Keys,          \* idempotency keys a client may send
  Orders,        \* order ids: bounds the number of checkouts
  Refs,          \* gateway references minted by randomUUID
  Requests,      \* payment initiations that can be in progress at once
  None,          \* SQL NULL
  MaxQty,        \* largest quantity of a cart line (100 in the code)
  InitialStock,  \* units of every SKU before the first checkout
  UsageLimit,    \* coupons.usage_limit
  FreeCoupons,   \* coupons whose discount brings the total to zero
  LedgerTable    \* does the table recordProductSale() inserts into exist?

ASSUME ConstantsAssumption ==
  /\ MaxQty \in Nat
  /\ InitialStock \in [Skus -> Nat]
  /\ UsageLimit \in [Coupons -> Nat]
  /\ FreeCoupons \subseteq Coupons
  /\ LedgerTable \in BOOLEAN
  /\ IsFiniteSet(Orders)
  /\ None \notin Users \cup Keys \cup Coupons \cup Orders \cup Refs

VARIABLES
  cart,        \* cart_items: quantity of every SKU in a user's cart
  stock,       \* products.stock / product_variants.stock
  tracked,     \* SKUs with track_inventory
  orders,      \* orders, and the status all their vendor fulfillments share
  qty,         \* order_items.quantity
  reserved,    \* order_items with stock_reserved
  usage,       \* coupon_usage: the coupon an order redeems
  usageCount,  \* coupons.usage_count
  payments,    \* payments, by gateway_ref
  events,      \* payment_events: references whose charge event is recorded
  ledger,      \* orders whose sale is recorded in the marketplace ledger
  mail,        \* checkout_notifications: orders with a queued confirmation
  requests,    \* initiatePayment calls between their transaction and their end
  provider     \* the provider's view of every reference

shop == <<cart, stock, tracked, qty, reserved, usage, usageCount>>
vars == <<cart, stock, tracked, orders, qty, reserved, usage, usageCount,
          payments, events, ledger, mail, requests, provider>>

Statuses == {"absent", "pending", "processing", "cancelled", "payment_review"}
EmptyCart == [s \in Skus |-> 0]

OrderRow == [status : Statuses,
             paid : BOOLEAN,                       \* payment_status = 'paid'
             reservation : {"none", "live", "lapsed"},
             fulfillment : {"none", "pending", "processing", "cancelled"},
             user : Users \cup {None},
             key : Keys \cup {None},
             payload : Coupons \cup {None}]        \* what checkout_hash covers

PaymentRow == [order : Orders \cup {None},
               status : {"pending", "success"},
               checkout_data : BOOLEAN,            \* is the payment link saved?
               initializing : BOOLEAN]             \* initializing_until > now

Idle == [step |-> "idle", ref |-> None]
RequestRow == {Idle} \cup [step : {"calling", "accepted", "failed"}, ref : Refs]

NoOrder == [status |-> "absent", paid |-> FALSE, reservation |-> "none",
            fulfillment |-> "none", user |-> None, key |-> None,
            payload |-> None]
NoPayment == [order |-> None, status |-> "pending",
              checkout_data |-> FALSE, initializing |-> FALSE]

TypeOK ==
  /\ cart \in [Users -> [Skus -> 0..MaxQty]]
  /\ stock \in [Skus -> Nat]
  /\ tracked \subseteq Skus
  /\ orders \in [Orders -> OrderRow]
  /\ qty \in [Orders -> [Skus -> 0..MaxQty]]
  /\ reserved \in [Orders -> SUBSET Skus]
  /\ usage \in [Orders -> Coupons \cup {None}]
  /\ usageCount \in [Coupons -> Nat]
  /\ payments \in [Refs -> PaymentRow]
  /\ events \subseteq Refs
  /\ ledger \subseteq Orders
  /\ mail \subseteq Orders
  /\ requests \in [Requests -> RequestRow]
  /\ provider \in [Refs -> {"none", "open", "paid"}]

Init ==
  /\ cart = [u \in Users |-> EmptyCart]
  /\ stock = InitialStock
  /\ tracked = Skus
  /\ orders = [o \in Orders |-> NoOrder]
  /\ qty = [o \in Orders |-> EmptyCart]
  /\ reserved = [o \in Orders |-> {}]
  /\ usage = [o \in Orders |-> None]
  /\ usageCount = [c \in Coupons |-> 0]
  /\ payments = [p \in Refs |-> NoPayment]
  /\ events = {}
  /\ ledger = {}
  /\ mail = {}
  /\ requests = [r \in Requests |-> Idle]
  /\ provider = [p \in Refs |-> "none"]

-----------------------------------------------------------------------------
(* The cart and the catalogue                                              *)

unchangedByCart ==
  <<stock, tracked, orders, qty, reserved, usage, usageCount, payments,
    events, ledger, mail, requests, provider>>

InStock(s, n) == s \in tracked => n <= stock[s]

AddToCart(u, s, n) ==
  /\ cart[u][s] + n <= MaxQty
  /\ InStock(s, cart[u][s] + n)
  /\ cart' = [cart EXCEPT ![u][s] = @ + n]
  /\ UNCHANGED unchangedByCart

UpdateCart(u, s, n) ==
  /\ cart[u][s] > 0
  /\ InStock(s, n)
  /\ cart' = [cart EXCEPT ![u][s] = n]
  /\ UNCHANGED unchangedByCart

RemoveFromCart(u, s) ==
  /\ cart[u][s] > 0
  /\ cart' = [cart EXCEPT ![u][s] = 0]
  /\ UNCHANGED unchangedByCart

\* The vendor edits track_inventory; order_items keep the value of their sale.
SetTracking(s, on) ==
  /\ tracked' = IF on THEN tracked \cup {s} ELSE tracked \ {s}
  /\ UNCHANGED <<cart, stock, orders, qty, reserved, usage, usageCount,
                 payments, events, ledger, mail, requests, provider>>

-----------------------------------------------------------------------------
(* Checkout and release                                                    *)

CouponUsable(u, c) ==
  /\ usageCount[c] < UsageLimit[c]
  /\ \A o \in Orders : usage[o] = c => orders[o].user # u

Quotable(u, c) ==
  /\ \E s \in Skus : cart[u][s] > 0
  /\ \A s \in Skus : InStock(s, cart[u][s])
  /\ c # None => CouponUsable(u, c)

KeyUsed(u, k) == \E o \in Orders : orders[o].user = u /\ orders[o].key = k

RecordProductSale(o) ==
  /\ LedgerTable
  /\ ledger' = ledger \cup {o}

PlaceOrder(o, u, k, c) ==
  /\ orders' = [orders EXCEPT ![o] =
       [status |-> IF c \in FreeCoupons THEN "processing" ELSE "pending",
        paid |-> c \in FreeCoupons,
        reservation |-> "live",
        fulfillment |-> IF c \in FreeCoupons THEN "processing" ELSE "pending",
        user |-> u, key |-> k, payload |-> c]]
  /\ qty' = [qty EXCEPT ![o] = cart[u]]
  /\ reserved' = [reserved EXCEPT ![o] = {s \in tracked : cart[u][s] > 0}]
  /\ stock' = [s \in Skus |-> IF s \in tracked THEN stock[s] - cart[u][s]
                                               ELSE stock[s]]
  /\ usage' = [usage EXCEPT ![o] = c]
  /\ usageCount' = IF c = None THEN usageCount
                               ELSE [usageCount EXCEPT ![c] = @ + 1]
  /\ cart' = [cart EXCEPT ![u] = EmptyCart]

\* processCheckout: a key already used returns its order (or 409) unchanged.
Checkout(u, k, c) ==
  /\ ~KeyUsed(u, k)
  /\ Quotable(u, c)
  /\ \E o \in Orders :
       /\ orders[o].status = "absent"
       /\ PlaceOrder(o, u, k, c)
       /\ IF c \in FreeCoupons
            THEN RecordProductSale(o) /\ mail' = mail \cup {o}
            ELSE UNCHANGED <<ledger, mail>>
  /\ UNCHANGED <<tracked, payments, events, requests, provider>>

ReleasedRow(row) == [row EXCEPT !.reservation = "none",          \* a mutant
                                !.fulfillment = "cancelled"]
CancelledRow(row) == [row EXCEPT !.status = "cancelled", !.reservation = "none",
                                 !.fulfillment = "cancelled"]

RestockEverything(o) == [s \in Skus |-> stock[s] + qty[o][s]]    \* a mutant
Restock(o) ==
  [s \in Skus |-> IF s \in reserved[o] THEN stock[s] + qty[o][s] ELSE stock[s]]

ReleaseReservation(o) ==
  /\ stock' = Restock(o)
  /\ reserved' = [reserved EXCEPT ![o] = {}]
  /\ usageCount' =
       [c \in Coupons |-> IF usage[o] = c /\ usageCount[c] > 0
                            THEN usageCount[c] - 1 ELSE usageCount[c]]
  /\ usage' = [usage EXCEPT ![o] = None]
  /\ orders' = [orders EXCEPT ![o] = CancelledRow(@)]
  /\ UNCHANGED <<cart, tracked, qty, payments, events, ledger, mail, requests,
                 provider>>

Unpaid(o) == orders[o].status = "pending" /\ ~orders[o].paid

CancelOrder(o) == Unpaid(o) /\ ReleaseReservation(o)

\* Thirty minutes pass.
ReservationLapses(o) ==
  /\ orders[o].reservation = "live"
  /\ orders' = [orders EXCEPT ![o] = [@ EXCEPT !.reservation = "lapsed"]]
  /\ UNCHANGED <<shop, payments, events, ledger, mail, requests, provider>>

\* expireReservations releases a batch in one transaction.  FOR UPDATE SKIP
\* LOCKED makes every part of a batch a possible batch, so a batch is the same
\* as its orders released one after the other.
ExpireUninitiated(o) ==                                          \* a mutant
  /\ Unpaid(o)
  /\ orders[o].reservation = "lapsed"
  /\ \A p \in Refs : payments[p].order # o
  /\ ReleaseReservation(o)
ExpireReservation(o) ==
  /\ Unpaid(o)
  /\ orders[o].reservation = "lapsed"
  /\ ReleaseReservation(o)

-----------------------------------------------------------------------------
(* Initiating a payment                                                    *)

Calling(r) == requests[r].step \in {"calling", "accepted"}

PaymentsOf(o) == {p \in Refs : payments[p].order = o}

\* The references an initiation may use: the order's own, else an unused one.
NewReference(o) == PaymentsOf(None)                              \* a mutant
ReferenceFor(o) == IF PaymentsOf(o) = {} THEN PaymentsOf(None) ELSE PaymentsOf(o)

\* The transaction of initiatePayment: reuse the order's payment or insert one
\* under a new reference, then take the 60-second lease.
InitiatePayment(r, o) ==
  /\ requests[r] = Idle
  /\ Unpaid(o)
  /\ orders[o].reservation = "live"
  /\ \E p \in ReferenceFor(o) :
       /\ ~payments[p].checkout_data
       /\ ~payments[p].initializing
       /\ payments' = [payments EXCEPT ![p] =
                         [@ EXCEPT !.order = o, !.initializing = TRUE]]
       /\ requests' = [requests EXCEPT ![r] = [step |-> "calling", ref |-> p]]
  /\ UNCHANGED <<shop, orders, events, ledger, mail, provider>>

\* The provider opens a transaction for a reference it has not seen; it
\* refuses a reference it knows, so that call can only end in InitFails.
ProviderAccepts(r) ==
  /\ requests[r].step = "calling"
  /\ provider[requests[r].ref] = "none"
  /\ provider' = [provider EXCEPT ![requests[r].ref] = "open"]
  /\ requests' = [requests EXCEPT ![r] = [@ EXCEPT !.step = "accepted"]]
  /\ UNCHANGED <<shop, orders, payments, events, ledger, mail>>

\* The reply arrives and the payment link is saved.
InitSucceeds(r) ==
  /\ requests[r].step = "accepted"
  /\ payments' = [payments EXCEPT ![requests[r].ref] =
                    [@ EXCEPT !.checkout_data = TRUE, !.initializing = FALSE]]
  /\ requests' = [requests EXCEPT ![r] = Idle]
  /\ UNCHANGED <<shop, orders, events, ledger, mail, provider>>

\* The call fails or times out, whether or not the provider accepted it.
InitFails(r) ==
  /\ Calling(r)
  /\ payments' = [payments EXCEPT ![requests[r].ref] =
                    [@ EXCEPT !.initializing = FALSE]]
  /\ requests' = [requests EXCEPT ![r] = [@ EXCEPT !.step = "failed"]]
  /\ UNCHANGED <<shop, orders, events, ledger, mail, provider>>

\* The server stops while the request is between two of its steps.
RequestDies(r) ==
  /\ requests[r].step # "idle"
  /\ requests' = [requests EXCEPT ![r] = Idle]
  /\ UNCHANGED <<shop, orders, payments, events, ledger, mail, provider>>

\* Sixty seconds pass.  A provider call lasts at most 15 seconds (the client's
\* timeout), so no call of a live request outlives its lease.
LeaseLapses(p) ==
  /\ payments[p].initializing
  /\ \A r \in Requests : Calling(r) => requests[r].ref # p
  /\ payments' = [payments EXCEPT ![p] = [@ EXCEPT !.initializing = FALSE]]
  /\ UNCHANGED <<shop, orders, events, ledger, mail, requests, provider>>

-----------------------------------------------------------------------------
(* The provider and settlement                                             *)

\* The customer is charged.  A lost reply may have left the link unknown to
\* the database; the provider's page can still take the money.
CustomerPays(p) ==
  /\ provider[p] = "open"
  /\ provider' = [provider EXCEPT ![p] = "paid"]
  /\ UNCHANGED <<shop, orders, payments, events, ledger, mail, requests>>

\* A charge in time starts fulfillment; after a cancellation it is reviewed.
ResurrectedRow(row) ==                                           \* a mutant
  [row EXCEPT !.paid = TRUE, !.status = "processing",
              !.reservation = "none", !.fulfillment = "processing"]
PaidRow(row) ==
  IF row.status = "pending"
    THEN [row EXCEPT !.paid = TRUE, !.status = "processing",
                     !.reservation = "none", !.fulfillment = "processing"]
    ELSE [row EXCEPT !.paid = TRUE, !.status = "payment_review",
                     !.reservation = "none"]

\* The part of settle() that a first success reaches.
ApplyCharge(p) ==
  LET o == payments[p].order
  IN /\ payments' = [payments EXCEPT ![p] = [@ EXCEPT !.status = "success",
                                                      !.initializing = FALSE]]
     /\ orders' = [orders EXCEPT ![o] = PaidRow(@)]
     /\ IF orders[o].status = "pending"
          THEN RecordProductSale(o) /\ mail' = mail \cup {o}
          ELSE UNCHANGED <<ledger, mail>>

SettledOrClosed(p) ==                                            \* a mutant
  payments[p].status = "success" \/ orders[payments[p].order].status # "pending"
Settled(p) ==
  payments[p].status = "success" \/ orders[payments[p].order].paid

\* settle() for a reference the provider reports as charged.  A webhook carries
\* an event id, recorded in the same transaction; a verification carries none.
\* A report that the reference is not charged changes no order and no payment.
Settle(p, webhook) ==
  /\ payments[p].order # None
  /\ provider[p] = "paid"
  /\ IF webhook THEN p \notin events /\ events' = events \cup {p}
                ELSE UNCHANGED events
  /\ IF Settled(p) THEN UNCHANGED <<payments, orders, ledger, mail>>
                   ELSE ApplyCharge(p)
  /\ UNCHANGED <<shop, provider>>

\* The webhook worker verifies the reference of a queued charge.success event
\* and settles it under the event's key (processPaystackEvent).
SettleByWebhook(p) == Settle(p, TRUE) /\ UNCHANGED requests

\* The customer returns from the provider's page and asks for verification.
VerifyPayment(p) == Settle(p, FALSE) /\ UNCHANGED requests

\* After a failed call: verify the reference and settle what it reports; a
\* verification that fails too is swallowed and the first error rethrown.
RecoverByVerify(r) ==
  /\ requests[r].step = "failed"
  /\ requests' = [requests EXCEPT ![r] = Idle]
  /\ \/ Settle(requests[r].ref, FALSE)
     \/ UNCHANGED <<shop, orders, payments, events, ledger, mail, provider>>

-----------------------------------------------------------------------------
CartStep ==
  \E u \in Users, s \in Skus :
    \/ \E n \in 1..MaxQty : AddToCart(u, s, n) \/ UpdateCart(u, s, n)
    \/ RemoveFromCart(u, s)

CatalogueStep == \E s \in Skus, on \in BOOLEAN : SetTracking(s, on)

OrderStep ==
  \/ \E u \in Users, k \in Keys, c \in Coupons \cup {None} : Checkout(u, k, c)
  \/ \E o \in Orders : \/ CancelOrder(o)
                       \/ ReservationLapses(o)
                       \/ ExpireReservation(o)

InitiationStep ==
  \/ \E r \in Requests, o \in Orders : InitiatePayment(r, o)
  \/ \E r \in Requests : \/ ProviderAccepts(r)
                         \/ InitSucceeds(r)
                         \/ InitFails(r)
                         \/ RecoverByVerify(r)
                         \/ RequestDies(r)
  \/ \E p \in Refs : LeaseLapses(p)

SettlementStep ==
  \E p \in Refs : CustomerPays(p) \/ SettleByWebhook(p) \/ VerifyPayment(p)

Next == CartStep \/ CatalogueStep \/ OrderStep \/ InitiationStep \/ SettlementStep

Spec == Init /\ [][Next]_vars

\* Time passes; the maintenance worker runs every 30 seconds and
\* the webhook worker every 5; the provider redelivers until acknowledged.
Fairness ==
  /\ \A o \in Orders : /\ WF_vars(ReservationLapses(o))
                       /\ WF_vars(ExpireReservation(o))
  /\ \A p \in Refs : WF_vars(SettleByWebhook(p))

FairSpec == Spec /\ Fairness

\* Behaviours in which customers do not cancel and pay within the half hour.
PromptNext ==
  \/ CartStep
  \/ \E u \in Users, k \in Keys, c \in Coupons \cup {None} : Checkout(u, k, c)
  \/ InitiationStep
  \/ SettlementStep
PromptSpec == Init /\ [][PromptNext]_vars
                   /\ \A p \in Refs : WF_vars(SettleByWebhook(p))

-----------------------------------------------------------------------------
(* Safety                                                                  *)

HeldUnits(s) ==
  {u \in Orders \X (1..MaxQty) : s \in reserved[u[1]] /\ u[2] <= qty[u[1]][s]}

\* No unit of stock is lost or invented: what a SKU has on the shelf and what
\* unreleased orders hold add up to its initial stock, however checkouts,
\* cancellations, expiries and edits of track_inventory interleave.
StockConserved ==
  \A s \in Skus : stock[s] + Cardinality(HeldUnits(s)) = InitialStock[s]

Redemptions(c) == {o \in Orders : usage[o] = c}

\* usage_count is the number of coupon_usage rows (the GREATEST(0, ...) of
\* releaseReservation never hides a double release), it stays within the
\* limit, and a user has at most one live redemption of a coupon.
CouponAccounting ==
  /\ \A c \in Coupons : /\ usageCount[c] = Cardinality(Redemptions(c))
                         /\ usageCount[c] <= UsageLimit[c]
  /\ \A c \in Coupons : \A o1, o2 \in Redemptions(c) :
       orders[o1].user = orders[o2].user => o1 = o2

\* A retried checkout never creates a second order: a user's idempotency key
\* names one order.
OneOrderPerKey ==
  \A o1, o2 \in Orders :
    /\ orders[o1].status # "absent"
    /\ orders[o1].user = orders[o2].user
    /\ orders[o1].key = orders[o2].key
    => o1 = o2

ChargesFor(o) == {p \in PaymentsOf(o) : provider[p] = "paid"}

\* However often initiation is retried, times out or dies half-way, a customer
\* is charged at most once for an order, and never for a free one.
ChargedOnce ==
  \A o \in Orders :
    /\ \A p1, p2 \in ChargesFor(o) : p1 = p2
    /\ orders[o].payload \in FreeCoupons => ChargesFor(o) = {}

\* Goods leave only against money: an order in fulfillment was free or has a
\* settled charge, its sale is booked and its confirmation queued; no other
\* order has any of that; a charge settled late leads to review.
FulfillmentBacked ==
  \A o \in Orders :
    LET settled == \E p \in ChargesFor(o) : payments[p].status = "success"
    IN /\ orders[o].paid <=> (settled \/ orders[o].payload \in FreeCoupons)
       /\ orders[o].paid <=> orders[o].status \in {"processing", "payment_review"}
       /\ orders[o].fulfillment = "processing" <=> orders[o].status = "processing"
       /\ o \in ledger <=> orders[o].status = "processing"
       /\ o \in mail <=> orders[o].status = "processing"

\* A cancelled order, paid late or not, holds neither stock nor a coupon.
ReleasedHoldsNothing ==
  \A o \in Orders :
    orders[o].status \in {"absent", "cancelled", "payment_review"} =>
      reserved[o] = {} /\ usage[o] = None

\* docs/checkout.md: "Initialization is serialized": never two provider calls
\* in progress for one order.
InitializationSerialized ==
  \A r1, r2 \in Requests :
    /\ Calling(r1)
    /\ Calling(r2)
    /\ payments[requests[r1].ref].order = payments[requests[r2].ref].order
    => r1 = r2

\* A recorded event has had its effect (the event row and the settlement
\* commit together), so dropping a redelivery drops nothing; and a payment
\* link handed out again belongs to a transaction the provider opened.
RecordsTruthful ==
  \A p \in Refs :
    /\ p \in events => payments[p].status = "success"
    /\ payments[p].checkout_data => provider[p] # "none"
    /\ payments[p].status = "success" => provider[p] = "paid"

(* The inductive invariant the proofs use                                  *)

\* An id without an order has no history; a placed order has its customer; the
\* fulfillments of a released order are cancelled.
OrdersWellFormed ==
  \A o \in Orders :
    /\ orders[o].status = "absent" => orders[o] = NoOrder
    /\ orders[o].status # "absent" => orders[o].user # None
    /\ orders[o].status \in {"cancelled", "payment_review"} =>
         orders[o].fulfillment = "cancelled"

\* An order has at most one payment, which is what makes the reference stable;
\* payments belong to placed orders with something to pay; the provider and
\* the requests in progress know only references that have a payment.
PaymentsWellFormed ==
  /\ \A p1, p2 \in Refs :
       payments[p1].order # None /\ payments[p1].order = payments[p2].order
         => p1 = p2
  /\ \A p \in Refs :
       IF payments[p].order = None
         THEN payments[p] = NoPayment /\ provider[p] = "none"
         ELSE /\ orders[payments[p].order].status # "absent"
              /\ orders[payments[p].order].payload \notin FreeCoupons
  /\ \A r \in Requests :
       /\ requests[r].step # "idle" => payments[requests[r].ref].order # None
       /\ requests[r].step = "accepted" => provider[requests[r].ref] # "none"

\* A call in progress still holds the lease, unless a settlement took it away,
\* after which the order can no longer be initiated.
LeaseHeld ==
  \A r \in Requests : Calling(r) =>
    \/ payments[requests[r].ref].initializing
    \/ payments[requests[r].ref].status = "success"

IInv ==
  /\ TypeOK
  /\ OrdersWellFormed
  /\ PaymentsWellFormed
  /\ StockConserved
  /\ CouponAccounting
  /\ OneOrderPerKey
  /\ ReleasedHoldsNothing
  /\ FulfillmentBacked
  /\ RecordsTruthful
  /\ LeaseHeld
  /\ InitializationSerialized

(* What a step may never do                                                *)

\* "A cancelled reservation must never be resurrected into fulfillment"
\* (payment.model.js): a late charge changes neither the goods nor the
\* vendors' fulfillments of a cancelled order.
CancelledIsFinal ==
  [][\A o \in Orders : orders[o].status \in {"cancelled", "payment_review"} =>
       /\ orders'[o].status \in {"cancelled", "payment_review"}
       /\ orders'[o].fulfillment = "cancelled"
       /\ UNCHANGED <<qty[o], reserved[o], usage[o]>>]_vars

\* A placed order keeps its stock and coupon until it is cancelled, and only
\* an unpaid order is ever cancelled.
HeldUntilRelease ==
  [][\A o \in Orders : orders[o].status # "absent" =>
       \/ UNCHANGED <<qty[o], reserved[o], usage[o]>>
       \/ Unpaid(o) /\ orders'[o].status = "cancelled"]_vars

(* Liveness                                                                *)

\* A charge the provider took is eventually known to the shop: the order is
\* in fulfillment or in review.
ChargeReconciled ==
  \A p \in Refs : provider[p] = "paid" ~>
    /\ payments[p].status = "success"
    /\ orders[payments[p].order].status \in {"processing", "payment_review"}

\* No order waits for payment for ever, so no stock is held for ever by an
\* unpaid order, even when every initiation died half-way.
ReservationResolved ==
  \A o \in Orders : orders[o].status = "pending" ~> orders[o].status # "pending"

\* With customers who pay in time, a charge leads to a booked sale.
PromptChargeBooked ==
  \A p \in Refs : provider[p] = "paid" ~> payments[p].order \in ledger

(* Refinement                                                              *)

stateBar ==
  [o \in Orders |-> CASE orders[o].status = "absent" -> "absent"
                      [] orders[o].status = "pending" -> "awaiting"
                      [] orders[o].status = "processing" -> "confirmed"
                      [] orders[o].status = "cancelled" -> "released"
                      [] OTHER -> "review"]
chargedBar == [o \in Orders |-> ChargesFor(o) # {}]

Promise == INSTANCE OrderPromise WITH state <- stateBar, charged <- chargedBar

\* Checkout keeps the promise of OrderPromise, safety and liveness.
KeepsPromise == Promise!FairPromise
=============================================================================
