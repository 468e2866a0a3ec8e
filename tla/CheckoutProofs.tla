--------------------------- MODULE CheckoutProofs ---------------------------
(***************************************************************************)
(* Proofs about Checkout for every set of users, SKUs, coupons, keys,      *)
(* orders, references and requests.                                        *)
(***************************************************************************)
EXTENDS Checkout, FiniteSetTheorems, TLAPS

USE ConstantsAssumption

-----------------------------------------------------------------------------
(* Type correctness                                                        *)

\* Placing an order writes rows of the right type.
LEMMA PlaceOrderType ==
  ASSUME TypeOK, NEW o \in Orders, NEW u \in Users, NEW k \in Keys,
         NEW c \in Coupons \cup {None}, Quotable(u, c), PlaceOrder(o, u, k, c)
  PROVE  /\ cart' \in [Users -> [Skus -> 0..MaxQty]]
         /\ stock' \in [Skus -> Nat]
         /\ orders' \in [Orders -> OrderRow]
         /\ qty' \in [Orders -> [Skus -> 0..MaxQty]]
         /\ reserved' \in [Orders -> SUBSET Skus]
         /\ usage' \in [Orders -> Coupons \cup {None}]
         /\ usageCount' \in [Coupons -> Nat]
<1>1. \A s \in Skus : cart[u][s] \in 0..MaxQty /\ stock[s] \in Nat
  BY DEF TypeOK
<1>2. cart' \in [Users -> [Skus -> 0..MaxQty]]
  BY DEF TypeOK, PlaceOrder, EmptyCart
<1>3. stock' \in [Skus -> Nat]
  BY <1>1 DEF PlaceOrder, Quotable, InStock
<1>4. orders' \in [Orders -> OrderRow]
  BY DEF TypeOK, PlaceOrder, OrderRow, Statuses
<1>5. qty' \in [Orders -> [Skus -> 0..MaxQty]]
  BY DEF TypeOK, PlaceOrder
<1>6. reserved' \in [Orders -> SUBSET Skus]
  BY DEF TypeOK, PlaceOrder
<1>7. usage' \in [Orders -> Coupons \cup {None}]
  BY DEF TypeOK, PlaceOrder
<1>8. usageCount' \in [Coupons -> Nat]
  BY DEF TypeOK, PlaceOrder
<1> QED
  BY <1>2, <1>3, <1>4, <1>5, <1>6, <1>7, <1>8

\* So does releasing one.
LEMMA ReleaseType ==
  ASSUME TypeOK, NEW o \in Orders, ReleaseReservation(o)
  PROVE  TypeOK'
<1>1. \A s \in Skus : qty[o][s] \in 0..MaxQty /\ stock[s] \in Nat
  BY DEF TypeOK
<1>2. stock' \in [Skus -> Nat]
  BY <1>1 DEF ReleaseReservation, Restock
<1>3. usageCount' \in [Coupons -> Nat]
  BY DEF TypeOK, ReleaseReservation
<1>4. orders' \in [Orders -> OrderRow]
  <2>1. orders[o] \in OrderRow
    BY DEF TypeOK
  <2>2. CancelledRow(orders[o]) \in OrderRow
    BY <2>1 DEF OrderRow, Statuses, CancelledRow
  <2> QED
    BY <2>2 DEF TypeOK, ReleaseReservation
<1> QED
  BY <1>2, <1>3, <1>4 DEF TypeOK, ReleaseReservation

\* And so does a settlement, from a webhook or a verification.
LEMMA SettleType ==
  ASSUME TypeOK, NEW p \in Refs, NEW webhook \in BOOLEAN, Settle(p, webhook)
  PROVE  /\ orders' \in [Orders -> OrderRow]
         /\ payments' \in [Refs -> PaymentRow]
         /\ events' \subseteq Refs
         /\ ledger' \subseteq Orders
         /\ mail' \subseteq Orders
<1>1. payments[p].order \in Orders
  BY DEF TypeOK, PaymentRow, Settle
<1>2. events' \subseteq Refs
  BY DEF TypeOK, Settle
<1>3. CASE Settled(p)
  BY <1>2, <1>3 DEF TypeOK, Settle
<1>4. CASE ApplyCharge(p)
  <2> DEFINE o == payments[p].order
  <2>1. payments' \in [Refs -> PaymentRow]
    <3>1. payments[p] \in PaymentRow
      BY DEF TypeOK
    <3>2. [payments[p] EXCEPT !.status = "success", !.initializing = FALSE]
            \in PaymentRow
      BY <3>1 DEF PaymentRow
    <3> QED
      BY <1>4, <3>2 DEF TypeOK, ApplyCharge
  <2>2. orders' \in [Orders -> OrderRow]
    <3>1. orders[o] \in OrderRow
      BY <1>1 DEF TypeOK
    <3>2. PaidRow(orders[o]) \in OrderRow
      BY <3>1 DEF OrderRow, Statuses, PaidRow
    <3> QED
      BY <1>1, <1>4, <3>2 DEF TypeOK, ApplyCharge
  <2>3. ledger' \subseteq Orders /\ mail' \subseteq Orders
    BY <1>1, <1>4 DEF TypeOK, ApplyCharge, RecordProductSale
  <2> QED
    BY <1>2, <2>1, <2>2, <2>3
<1> QED
  BY <1>3, <1>4 DEF Settle

LEMMA TypeInit == Init => TypeOK
BY DEF Init, TypeOK, EmptyCart, NoOrder, NoPayment, Idle, OrderRow, PaymentRow,
       RequestRow, Statuses

LEMMA TypeStep == TypeOK /\ [Next]_vars => TypeOK'
<1> SUFFICES ASSUME TypeOK, [Next]_vars
             PROVE  TypeOK'
  OBVIOUS
<1>1. ASSUME NEW u \in Users, NEW s \in Skus, NEW n \in 1..MaxQty,
             AddToCart(u, s, n) \/ UpdateCart(u, s, n)
      PROVE  TypeOK'
  <2>1. cart[u] \in [Skus -> 0..MaxQty]
    BY DEF TypeOK
  <2>2. PICK m \in 0..MaxQty : cart' = [cart EXCEPT ![u] = [@ EXCEPT ![s] = m]]
    <3>1. cart[u][s] \in 0..MaxQty /\ n \in 0..MaxQty
      BY <2>1
    <3>2. CASE AddToCart(u, s, n)
      <4>1. cart[u][s] + n \in 0..MaxQty
        BY <3>1, <3>2 DEF AddToCart
      <4> QED
        BY <3>2, <4>1 DEF AddToCart
    <3>3. CASE UpdateCart(u, s, n)
      BY <3>1, <3>3 DEF UpdateCart
    <3> QED
      BY <1>1, <3>2, <3>3
  <2>3. cart' \in [Users -> [Skus -> 0..MaxQty]]
    BY <2>1, <2>2 DEF TypeOK
  <2> QED
    BY <1>1, <2>3 DEF TypeOK, AddToCart, UpdateCart, unchangedByCart
<1>2. ASSUME NEW u \in Users, NEW s \in Skus, RemoveFromCart(u, s)
      PROVE  TypeOK'
  <2>1. cart[u] \in [Skus -> 0..MaxQty]
    BY DEF TypeOK
  <2>2. cart' \in [Users -> [Skus -> 0..MaxQty]]
    BY <1>2, <2>1 DEF TypeOK, RemoveFromCart
  <2> QED
    BY <1>2, <2>2 DEF TypeOK, RemoveFromCart, unchangedByCart
<1>3. ASSUME NEW s \in Skus, NEW on \in BOOLEAN, SetTracking(s, on)
      PROVE  TypeOK'
  BY <1>3 DEF TypeOK, SetTracking
<1>4. ASSUME NEW u \in Users, NEW k \in Keys, NEW c \in Coupons \cup {None},
             Checkout(u, k, c)
      PROVE  TypeOK'
  <2>1. PICK o \in Orders :
          /\ PlaceOrder(o, u, k, c)
          /\ IF c \in FreeCoupons
               THEN RecordProductSale(o) /\ mail' = mail \cup {o}
               ELSE UNCHANGED <<ledger, mail>>
    BY <1>4 DEF Checkout
  <2>2. ledger' \subseteq Orders /\ mail' \subseteq Orders
    BY <2>1 DEF TypeOK, RecordProductSale
  <2>3. UNCHANGED <<tracked, payments, events, requests, provider>>
    BY <1>4 DEF Checkout
  <2> QED
    BY <1>4, <2>1, <2>2, <2>3, PlaceOrderType DEF TypeOK, Checkout
<1>5. ASSUME NEW o \in Orders, CancelOrder(o) \/ ExpireReservation(o)
      PROVE  TypeOK'
  BY <1>5, ReleaseType DEF CancelOrder, ExpireReservation
<1>6. ASSUME NEW o \in Orders, ReservationLapses(o)
      PROVE  TypeOK'
  <2>1. orders[o] \in OrderRow
    BY DEF TypeOK
  <2>2. [orders[o] EXCEPT !.reservation = "lapsed"] \in OrderRow
    BY <2>1 DEF OrderRow
  <2> QED
    BY <1>6, <2>2 DEF TypeOK, ReservationLapses, shop
<1>7. ASSUME NEW r \in Requests, NEW o \in Orders, InitiatePayment(r, o)
      PROVE  TypeOK'
  <2>1. PICK p \in Refs :
          /\ payments' = [payments EXCEPT ![p] =
                            [@ EXCEPT !.order = o, !.initializing = TRUE]]
          /\ requests' = [requests EXCEPT ![r] = [step |-> "calling", ref |-> p]]
    BY <1>7 DEF InitiatePayment, ReferenceFor, PaymentsOf
  <2>2. payments[p] \in PaymentRow
    BY DEF TypeOK
  <2>3. [payments[p] EXCEPT !.order = o, !.initializing = TRUE] \in PaymentRow
    BY <2>2 DEF PaymentRow
  <2>4. [step |-> "calling", ref |-> p] \in RequestRow
    BY DEF RequestRow
  <2> QED
    BY <1>7, <2>1, <2>3, <2>4 DEF TypeOK, InitiatePayment, shop
<1>8. \A r \in Requests : requests[r] \in RequestRow
  BY DEF TypeOK
<1>9. ASSUME NEW r \in Requests, ProviderAccepts(r)
      PROVE  TypeOK'
  <2>1. [requests[r] EXCEPT !.step = "accepted"] \in RequestRow
    BY <1>8, <1>9 DEF RequestRow, ProviderAccepts, Idle
  <2> QED
    BY <1>9, <2>1 DEF TypeOK, ProviderAccepts, shop
<1>10. ASSUME NEW r \in Requests, InitSucceeds(r) \/ InitFails(r)
       PROVE  TypeOK'
  <2>1. /\ [requests[r] EXCEPT !.step = "failed"] \in RequestRow
        /\ Idle \in RequestRow
        /\ requests[r].ref \in Refs
    BY <1>8, <1>10 DEF RequestRow, Idle, InitSucceeds, InitFails, Calling
  <2>2. payments[requests[r].ref] \in PaymentRow
    BY <2>1 DEF TypeOK
  <2>3. payments' \in [Refs -> PaymentRow]
    <3>1. CASE InitSucceeds(r)
      <4>1. [payments[requests[r].ref] EXCEPT !.checkout_data = TRUE,
                                              !.initializing = FALSE] \in PaymentRow
        BY <2>2 DEF PaymentRow
      <4> QED
        BY <3>1, <4>1 DEF TypeOK, InitSucceeds
    <3>2. CASE InitFails(r)
      <4>1. [payments[requests[r].ref] EXCEPT !.initializing = FALSE] \in PaymentRow
        BY <2>2 DEF PaymentRow
      <4> QED
        BY <3>2, <4>1 DEF TypeOK, InitFails
    <3> QED
      BY <1>10, <3>1, <3>2
  <2>4. requests' \in [Requests -> RequestRow]
    BY <1>10, <2>1 DEF TypeOK, InitSucceeds, InitFails
  <2> QED
    BY <1>10, <2>3, <2>4 DEF TypeOK, InitSucceeds, InitFails, shop
<1>11. ASSUME NEW r \in Requests, RequestDies(r)
       PROVE  TypeOK'
  BY <1>11 DEF TypeOK, RequestDies, RequestRow, Idle, shop
<1>12. ASSUME NEW p \in Refs, LeaseLapses(p)
       PROVE  TypeOK'
  <2>1. payments[p] \in PaymentRow
    BY DEF TypeOK
  <2>2. [payments[p] EXCEPT !.initializing = FALSE] \in PaymentRow
    BY <2>1 DEF PaymentRow
  <2> QED
    BY <1>12, <2>2 DEF TypeOK, LeaseLapses, shop
<1>13. ASSUME NEW p \in Refs, CustomerPays(p)
       PROVE  TypeOK'
  BY <1>13 DEF TypeOK, CustomerPays, shop
<1>14. ASSUME NEW p \in Refs, SettleByWebhook(p) \/ VerifyPayment(p)
       PROVE  TypeOK'
  <2>1. PICK webhook \in BOOLEAN : Settle(p, webhook) /\ UNCHANGED requests
    BY <1>14 DEF SettleByWebhook, VerifyPayment
  <2> QED
    BY <2>1, SettleType DEF TypeOK, Settle, shop
<1>15. ASSUME NEW r \in Requests, RecoverByVerify(r)
       PROVE  TypeOK'
  <2>1. requests' \in [Requests -> RequestRow]
    BY <1>15 DEF TypeOK, RecoverByVerify, RequestRow, Idle
  <2>2. CASE Settle(requests[r].ref, FALSE)
    <3>1. requests[r].ref \in Refs
      BY <1>8, <1>15 DEF RecoverByVerify, RequestRow, Idle
    <3> QED
      BY <2>1, <2>2, <3>1, SettleType DEF TypeOK, Settle, shop
  <2>3. CASE UNCHANGED <<shop, orders, payments, events, ledger, mail, provider>>
    BY <2>1, <2>3 DEF TypeOK, shop
  <2> QED
    BY <1>15, <2>2, <2>3 DEF RecoverByVerify
<1> QED
  BY <1>1, <1>2, <1>3, <1>4, <1>5, <1>6, <1>7, <1>9, <1>10, <1>11, <1>12,
     <1>13, <1>14, <1>15
     DEF Next, CartStep, CatalogueStep, OrderStep, InitiationStep,
         SettlementStep, vars, TypeOK

\* Every reachable state is well typed, for all values of the constants.
THEOREM TypeCorrect == Spec => []TypeOK
<1>1. TypeOK /\ [Next]_vars => TypeOK'
  BY TypeStep
<1> QED
  BY <1>1, TypeInit, PTL DEF Spec

-----------------------------------------------------------------------------
(* Which steps touch what an order holds                                   *)

LEMMA HoldingsChange ==
  ASSUME [Next]_vars
  PROVE  \/ \E o \in Orders, u \in Users, k \in Keys, c \in Coupons \cup {None} :
              /\ orders[o].status = "absent"
              /\ ~KeyUsed(u, k)
              /\ Quotable(u, c)
              /\ PlaceOrder(o, u, k, c)
         \/ \E o \in Orders : Unpaid(o) /\ ReleaseReservation(o)
         \/ UNCHANGED <<stock, qty, reserved, usage, usageCount>>
<1>1. ASSUME NEW u \in Users, NEW k \in Keys, NEW c \in Coupons \cup {None},
             Checkout(u, k, c)
      PROVE  \E o \in Orders : /\ orders[o].status = "absent"
                               /\ ~KeyUsed(u, k)
                               /\ Quotable(u, c)
                               /\ PlaceOrder(o, u, k, c)
  BY <1>1 DEF Checkout
<1>2. ASSUME NEW o \in Orders, CancelOrder(o) \/ ExpireReservation(o)
      PROVE  Unpaid(o) /\ ReleaseReservation(o)
  BY <1>2 DEF CancelOrder, ExpireReservation
<1>3. ASSUME CartStep \/ CatalogueStep
      PROVE  UNCHANGED <<stock, qty, reserved, usage, usageCount>>
  BY <1>3 DEF CartStep, CatalogueStep, AddToCart, UpdateCart, RemoveFromCart,
              SetTracking, unchangedByCart
<1>4. ASSUME NEW o \in Orders, ReservationLapses(o)
      PROVE  UNCHANGED <<stock, qty, reserved, usage, usageCount>>
  BY <1>4 DEF ReservationLapses, shop
<1>5. ASSUME InitiationStep
      PROVE  UNCHANGED <<stock, qty, reserved, usage, usageCount>>
  BY <1>5 DEF InitiationStep, InitiatePayment, ProviderAccepts, InitSucceeds,
              InitFails, RecoverByVerify, RequestDies, LeaseLapses, Settle, shop
<1>6. ASSUME SettlementStep
      PROVE  UNCHANGED <<stock, qty, reserved, usage, usageCount>>
  BY <1>6 DEF SettlementStep, CustomerPays, SettleByWebhook, VerifyPayment,
              Settle, shop
<1>7. CASE UNCHANGED vars
  BY <1>7 DEF vars
<1> QED
  BY <1>1, <1>2, <1>3, <1>4, <1>5, <1>6, <1>7 DEF Next, OrderStep

-----------------------------------------------------------------------------
(* Stock is conserved                                                      *)

\* The units one order line holds.
LEMMA LineUnits ==
  ASSUME NEW o, NEW n \in Nat
  PROVE  /\ IsFiniteSet({o} \X (1..n))
         /\ Cardinality({o} \X (1..n)) = n
<1>1. IsFiniteSet(1..n) /\ Cardinality(1..n) = n
  BY FS_Interval
<1>2. IsFiniteSet({o}) /\ Cardinality({o}) = 1
  BY FS_Singleton
<1>3. Cardinality({o} \X (1..n)) = 1 * n
  BY <1>1, <1>2, FS_Product
<1> QED
  BY <1>1, <1>2, <1>3, FS_Product

LEMMA HeldUnitsFinite ==
  ASSUME NEW s \in Skus
  PROVE  IsFiniteSet(HeldUnits(s)) /\ Cardinality(HeldUnits(s)) \in Nat
<1>1. IsFiniteSet(1..MaxQty)
  BY FS_Interval
<1>2. IsFiniteSet(Orders \X (1..MaxQty))
  BY <1>1, FS_Product
<1>3. IsFiniteSet(HeldUnits(s))
  BY <1>2, FS_Subset DEF HeldUnits
<1> QED
  BY <1>3, FS_CardinalityType

\* A checkout takes from the shelf exactly the units its order now holds.
LEMMA PlaceConserves ==
  ASSUME TypeOK, StockConserved, NEW o \in Orders, reserved[o] = {},
         NEW u \in Users, NEW k, NEW c,
         Quotable(u, c), PlaceOrder(o, u, k, c)
  PROVE  StockConserved'
<1> SUFFICES ASSUME NEW s \in Skus
             PROVE  stock'[s] + Cardinality(HeldUnits(s)') = InitialStock[s]
  BY DEF StockConserved
<1> DEFINE n == IF s \in tracked THEN cart[u][s] ELSE 0
           line == {o} \X (1..n)
<1>1. cart[u][s] \in 0..MaxQty /\ stock[s] \in Nat /\ n \in 0..MaxQty
  BY DEF TypeOK
<1>2. stock'[s] = stock[s] - n
  BY <1>1 DEF PlaceOrder
<1>3. HeldUnits(s)' = HeldUnits(s) \cup line
  <2>1. /\ s \in reserved'[o] <=> s \in tracked /\ cart[u][s] > 0
        /\ qty'[o][s] = cart[u][s]
        /\ \A x \in Orders \ {o} : reserved'[x] = reserved[x] /\ qty'[x] = qty[x]
    BY DEF PlaceOrder, TypeOK
  <2>2. ASSUME NEW v \in Orders \X (1..MaxQty)
        PROVE  v \in HeldUnits(s)' <=> v \in HeldUnits(s) \cup line
    <3>1. CASE v[1] = o
      BY <1>1, <2>1, <3>1 DEF HeldUnits
    <3>2. CASE v[1] # o
      BY <2>1, <3>2 DEF HeldUnits
    <3> QED
      BY <3>1, <3>2
  <2>3. line \subseteq Orders \X (1..MaxQty)
    BY <1>1
  <2> QED
    BY <2>2, <2>3 DEF HeldUnits
<1>4. HeldUnits(s) \cap line = {}
  BY DEF HeldUnits
<1>5. Cardinality(HeldUnits(s)') = Cardinality(HeldUnits(s)) + n
  <2>1. IsFiniteSet(line) /\ Cardinality(line) = n
    <3>1. n \in Nat
      BY <1>1
    <3> HIDE DEF n
    <3> QED
      BY <3>1, LineUnits, Zenon
  <2>2. Cardinality(HeldUnits(s) \cup line)
          = Cardinality(HeldUnits(s)) + n - Cardinality({})
    BY <1>4, <2>1, HeldUnitsFinite, FS_Union
  <2> QED
    BY <1>1, <1>3, <2>2, HeldUnitsFinite, FS_EmptySet
<1> QED
  BY <1>1, <1>2, <1>5, HeldUnitsFinite DEF StockConserved

\* A release puts back exactly the units its order held.
LEMMA ReleaseConserves ==
  ASSUME TypeOK, StockConserved, NEW o \in Orders, ReleaseReservation(o)
  PROVE  StockConserved'
<1> SUFFICES ASSUME NEW s \in Skus
             PROVE  stock'[s] + Cardinality(HeldUnits(s)') = InitialStock[s]
  BY DEF StockConserved
<1> DEFINE n == IF s \in reserved[o] THEN qty[o][s] ELSE 0
           line == {o} \X (1..n)
<1>1. qty[o][s] \in 0..MaxQty /\ stock[s] \in Nat /\ n \in 0..MaxQty
  BY DEF TypeOK
<1>2. stock'[s] = stock[s] + n
  BY <1>1 DEF ReleaseReservation, Restock
<1>3. HeldUnits(s)' = HeldUnits(s) \ line
  <2>1. /\ reserved'[o] = {}
        /\ \A x \in Orders \ {o} : reserved'[x] = reserved[x]
        /\ qty' = qty
    BY DEF ReleaseReservation, TypeOK
  <2> QED
    BY <1>1, <2>1 DEF HeldUnits
<1>4. HeldUnits(s) \cap line = line
  BY <1>1 DEF HeldUnits
<1>5. Cardinality(HeldUnits(s)') = Cardinality(HeldUnits(s)) - n
  <2>1. IsFiniteSet(line) /\ Cardinality(line) = n
    <3>1. n \in Nat
      BY <1>1
    <3> HIDE DEF n
    <3> QED
      BY <3>1, LineUnits, Zenon
  <2>2. Cardinality(HeldUnits(s) \ line)
          = Cardinality(HeldUnits(s)) - Cardinality(HeldUnits(s) \cap line)
    BY HeldUnitsFinite, FS_Difference
  <2> QED
    BY <1>3, <1>4, <2>1, <2>2
<1> QED
  BY <1>1, <1>2, <1>5, HeldUnitsFinite DEF StockConserved

LEMMA StockStep ==
  ASSUME TypeOK, OrdersWellFormed, ReleasedHoldsNothing, StockConserved,
         [Next]_vars
  PROVE  StockConserved'
<1>1. ASSUME NEW o \in Orders, NEW u \in Users, NEW k, NEW c,
             orders[o].status = "absent", Quotable(u, c), PlaceOrder(o, u, k, c)
      PROVE  StockConserved'
  <2>1. reserved[o] = {}
    BY <1>1 DEF ReleasedHoldsNothing
  <2> QED
    BY <1>1, <2>1, PlaceConserves
<1>2. ASSUME NEW o \in Orders, ReleaseReservation(o)
      PROVE  StockConserved'
  BY <1>2, ReleaseConserves
<1>3. CASE UNCHANGED <<stock, qty, reserved, usage, usageCount>>
  BY <1>3 DEF StockConserved, HeldUnits
<1> QED
  BY <1>1, <1>2, <1>3, HoldingsChange

-----------------------------------------------------------------------------
(* What each step does to the rows, field by field                         *)

LEMMA PlaceEffect ==
  ASSUME TypeOK, NEW o \in Orders, NEW u \in Users, NEW k \in Keys,
         NEW c \in Coupons \cup {None}, PlaceOrder(o, u, k, c)
  PROVE  /\ \A x \in Orders \ {o} : /\ orders'[x] = orders[x]
                                    /\ reserved'[x] = reserved[x]
                                    /\ usage'[x] = usage[x]
         /\ orders'[o].status = IF c \in FreeCoupons THEN "processing"
                                                    ELSE "pending"
         /\ orders'[o].paid = (c \in FreeCoupons)
         /\ orders'[o].fulfillment = IF c \in FreeCoupons THEN "processing"
                                                         ELSE "pending"
         /\ orders'[o].user = u
         /\ orders'[o].key = k
         /\ orders'[o].payload = c
         /\ usage'[o] = c
BY DEF TypeOK, PlaceOrder

LEMMA ReleaseEffect ==
  ASSUME TypeOK, NEW o \in Orders, Unpaid(o), ReleaseReservation(o)
  PROVE  /\ \A x \in Orders \ {o} : /\ orders'[x] = orders[x]
                                    /\ reserved'[x] = reserved[x]
                                    /\ usage'[x] = usage[x]
         /\ orders[o].status = "pending"
         /\ orders[o].paid = FALSE
         /\ orders'[o].status = "cancelled"
         /\ orders'[o].fulfillment = "cancelled"
         /\ orders'[o].paid = orders[o].paid
         /\ orders'[o].user = orders[o].user
         /\ orders'[o].key = orders[o].key
         /\ orders'[o].payload = orders[o].payload
         /\ reserved'[o] = {}
         /\ usage'[o] = None
<1>1. orders[o] \in OrderRow
  BY DEF TypeOK
<1>2. orders'[o] = CancelledRow(orders[o])
  BY DEF TypeOK, ReleaseReservation
<1>3. orders[o].status = "pending" /\ orders[o].paid = FALSE
  BY <1>1 DEF Unpaid, OrderRow
<1> QED
  BY <1>1, <1>2, <1>3 DEF TypeOK, ReleaseReservation, CancelledRow, OrderRow

LEMMA LapseEffect ==
  ASSUME TypeOK, NEW o \in Orders, ReservationLapses(o)
  PROVE  /\ \A x \in Orders \ {o} : orders'[x] = orders[x]
         /\ orders[o].reservation = "live"
         /\ orders'[o].status = orders[o].status
         /\ orders'[o].fulfillment = orders[o].fulfillment
         /\ orders'[o].paid = orders[o].paid
         /\ orders'[o].user = orders[o].user
         /\ orders'[o].key = orders[o].key
         /\ orders'[o].payload = orders[o].payload
<1>1. orders[o] \in OrderRow
  BY DEF TypeOK
<1> QED
  BY <1>1 DEF TypeOK, ReservationLapses, OrderRow

LEMMA ChargeEffect ==
  ASSUME TypeOK, NEW p \in Refs, payments[p].order \in Orders, ApplyCharge(p)
  PROVE  LET o == payments[p].order
         IN /\ \A x \in Orders \ {o} : orders'[x] = orders[x]
            /\ orders'[o].status = IF orders[o].status = "pending"
                                     THEN "processing" ELSE "payment_review"
            /\ orders[o].status = "pending" => orders'[o].fulfillment = "processing"
            /\ orders[o].status # "pending"
                 => orders'[o].fulfillment = orders[o].fulfillment
            /\ orders'[o].paid = TRUE
            /\ orders'[o].user = orders[o].user
            /\ orders'[o].key = orders[o].key
            /\ orders'[o].payload = orders[o].payload
            /\ \A q \in Refs \ {p} : payments'[q] = payments[q]
            /\ payments'[p].order = o
            /\ payments'[p].status = "success"
            /\ payments'[p].checkout_data = payments[p].checkout_data
<1> DEFINE o == payments[p].order
<1>1. orders[o] \in OrderRow /\ payments[p] \in PaymentRow
  BY DEF TypeOK
<1>2. orders'[o] = PaidRow(orders[o])
  BY DEF TypeOK, ApplyCharge
<1>3. /\ payments'[p].order = o
      /\ payments'[p].status = "success"
      /\ payments'[p].checkout_data = payments[p].checkout_data
      /\ \A q \in Refs \ {p} : payments'[q] = payments[q]
  BY <1>1 DEF TypeOK, ApplyCharge, PaymentRow
<1>4. \A x \in Orders \ {o} : orders'[x] = orders[x]
  BY DEF TypeOK, ApplyCharge
<1>5. CASE orders[o].status = "pending"
  BY <1>1, <1>2, <1>3, <1>4, <1>5 DEF PaidRow, OrderRow
<1>6. CASE orders[o].status # "pending"
  BY <1>1, <1>2, <1>3, <1>4, <1>6 DEF PaidRow, OrderRow
<1> QED
  BY <1>5, <1>6

-----------------------------------------------------------------------------
(* The steps by what they change                                           *)

\* The steps that end a request, or leave all of them alone.
NoNewCall ==
  \/ UNCHANGED requests
  \/ \E r \in Requests : requests' = [requests EXCEPT ![r] = Idle]

\* A settlement that changes anything is the first charge of an unpaid order.
FirstCharge(p) ==
  /\ payments[p].order # None
  /\ provider[p] = "paid"
  /\ ~Settled(p)
  /\ ApplyCharge(p)
  /\ events' \in {events, events \cup {p}}
  /\ NoNewCall
  /\ UNCHANGED <<shop, provider>>

Placed(o, u, k, c) ==
  /\ orders[o].status = "absent"
  /\ ~KeyUsed(u, k)
  /\ Quotable(u, c)
  /\ PlaceOrder(o, u, k, c)
  /\ IF c \in FreeCoupons
       THEN ledger' = ledger \cup {o} /\ mail' = mail \cup {o}
       ELSE UNCHANGED <<ledger, mail>>
  /\ UNCHANGED <<payments, events, requests, provider>>

Released(o) == Unpaid(o) /\ ReleaseReservation(o)

holdings == <<qty, reserved, usage, usageCount>>
books == <<orders, ledger, mail>>

\* A step of the initiation of a payment.
CallStep ==
  /\ \/ \E r \in Requests, o \in Orders : InitiatePayment(r, o)
     \/ \E r \in Requests : ProviderAccepts(r) \/ InitSucceeds(r) \/ InitFails(r)
     \/ \E p \in Refs : LeaseLapses(p) \/ CustomerPays(p)
  /\ UNCHANGED <<holdings, books, events>>

\* A step that changes no order, no payment and nothing at the provider, but
\* may record the event of a charge already settled.
QuietStep ==
  /\ UNCHANGED <<holdings, books, payments, provider>>
  /\ NoNewCall
  /\ \/ UNCHANGED events
     \/ \E p \in Refs : /\ payments[p].order # None
                        /\ provider[p] = "paid"
                        /\ Settled(p)
                        /\ events' = events \cup {p}

LEMMA StepCases ==
  ASSUME TypeOK, [Next]_vars
  PROVE  \/ \E o \in Orders, u \in Users, k \in Keys, c \in Coupons \cup {None} :
              Placed(o, u, k, c)
         \/ \E o \in Orders : Released(o) \/ ReservationLapses(o)
         \/ \E p \in Refs : FirstCharge(p)
         \/ CallStep
         \/ QuietStep
<1>1. ASSUME NEW u \in Users, NEW k \in Keys, NEW c \in Coupons \cup {None},
             Checkout(u, k, c)
      PROVE  \E o \in Orders : Placed(o, u, k, c)
  BY <1>1 DEF Checkout, Placed, RecordProductSale
<1>2. ASSUME NEW o \in Orders, CancelOrder(o) \/ ExpireReservation(o)
      PROVE  Released(o)
  BY <1>2 DEF CancelOrder, ExpireReservation, Released
<1>3. ASSUME CartStep \/ CatalogueStep
      PROVE  QuietStep
  BY <1>3 DEF CartStep, CatalogueStep, AddToCart, UpdateCart, RemoveFromCart,
              SetTracking, unchangedByCart, QuietStep, NoNewCall, holdings, books
<1>4. ASSUME NEW p \in Refs, NEW webhook, Settle(p, webhook), NoNewCall
      PROVE  FirstCharge(p) \/ QuietStep
  BY <1>4 DEF Settle, FirstCharge, shop, QuietStep, holdings, books
<1>5. ASSUME NEW r \in Requests, RecoverByVerify(r)
      PROVE  (\E p \in Refs : FirstCharge(p)) \/ QuietStep
  <2>1. requests[r].ref \in Refs
    BY <1>5 DEF TypeOK, RecoverByVerify, RequestRow, Idle
  <2>2. NoNewCall
    BY <1>5 DEF RecoverByVerify, NoNewCall
  <2> QED
    BY <1>4, <1>5, <2>1, <2>2
       DEF RecoverByVerify, shop, QuietStep, holdings, books
<1>6. ASSUME NEW r \in Requests, RequestDies(r)
      PROVE  QuietStep
  BY <1>6 DEF RequestDies, shop, QuietStep, NoNewCall, holdings, books
<1>7. ASSUME NEW r \in Requests,
             \/ \E o \in Orders : InitiatePayment(r, o)
             \/ ProviderAccepts(r) \/ InitSucceeds(r) \/ InitFails(r)
      PROVE  CallStep
  <2>1. UNCHANGED <<holdings, books, events>>
    BY <1>7 DEF InitiatePayment, ProviderAccepts, InitSucceeds, InitFails, shop,
                holdings, books
  <2> QED
    BY <1>7, <2>1 DEF CallStep
<1>8. ASSUME NEW p \in Refs, LeaseLapses(p) \/ CustomerPays(p)
      PROVE  CallStep
  BY <1>8 DEF LeaseLapses, CustomerPays, shop, CallStep, holdings, books
<1>9. ASSUME NEW p \in Refs, SettleByWebhook(p) \/ VerifyPayment(p)
      PROVE  FirstCharge(p) \/ QuietStep
  BY <1>4, <1>9 DEF SettleByWebhook, VerifyPayment, NoNewCall
<1>10. CASE UNCHANGED vars
  BY <1>10 DEF vars, QuietStep, NoNewCall, holdings, books
<1>11. CASE OrderStep
  BY <1>1, <1>2, <1>11 DEF OrderStep
<1>12. CASE InitiationStep
  BY <1>5, <1>6, <1>7, <1>8, <1>12 DEF InitiationStep
<1>13. CASE SettlementStep
  BY <1>8, <1>9, <1>13 DEF SettlementStep
<1> QED
  BY <1>3, <1>10, <1>11, <1>12, <1>13 DEF Next

\* Which of them touch the orders.
LEMMA OrdersChange ==
  ASSUME TypeOK, [Next]_vars
  PROVE  \/ \E o \in Orders, u \in Users, k \in Keys, c \in Coupons \cup {None} :
              Placed(o, u, k, c)
         \/ \E o \in Orders : Released(o)
         \/ \E o \in Orders : ReservationLapses(o)
         \/ \E p \in Refs : FirstCharge(p)
         \/ UNCHANGED <<orders, qty, reserved, usage, usageCount, ledger, mail>>
BY StepCases DEF CallStep, QuietStep, holdings, books

\* Only a pending or a cancelled order can meet its first charge.
LEMMA FirstChargeState ==
  ASSUME TypeOK, PaymentsWellFormed, FulfillmentBacked, NEW p \in Refs,
         FirstCharge(p)
  PROVE  /\ payments[p].order \in Orders
         /\ orders[payments[p].order].status \in {"pending", "cancelled"}
         /\ orders[payments[p].order].paid = FALSE
         /\ payments[p].status # "success"
<1> DEFINE o == payments[p].order
<1>1. o \in Orders /\ orders[o].status # "absent"
  BY DEF FirstCharge, PaymentsWellFormed, TypeOK, PaymentRow
<1>2. orders[o].status \in Statuses /\ orders[o].paid \in BOOLEAN
  BY <1>1 DEF TypeOK, OrderRow
<1>3. ~orders[o].paid /\ payments[p].status # "success"
  BY DEF FirstCharge, Settled
<1>4. orders[o].paid <=> orders[o].status \in {"processing", "payment_review"}
  BY <1>1 DEF FulfillmentBacked
<1> QED
  BY <1>1, <1>2, <1>3, <1>4 DEF Statuses

-----------------------------------------------------------------------------
(* Orders, coupons and what a released order holds                         *)

LEMMA OrdersWellFormedStep ==
  ASSUME TypeOK, OrdersWellFormed, PaymentsWellFormed, FulfillmentBacked,
         [Next]_vars
  PROVE  OrdersWellFormed'
<1>1. ASSUME NEW o \in Orders, NEW u \in Users, NEW k \in Keys,
             NEW c \in Coupons \cup {None}, Placed(o, u, k, c)
      PROVE  OrdersWellFormed'
  <2>1. /\ \A x \in Orders \ {o} : orders'[x] = orders[x]
        /\ orders'[o].status \in {"pending", "processing"}
        /\ orders'[o].user # None
    BY <1>1, PlaceEffect DEF Placed
  <2> QED
    BY <2>1 DEF OrdersWellFormed
<1>2. ASSUME NEW o \in Orders, Released(o)
      PROVE  OrdersWellFormed'
  <2>1. /\ \A x \in Orders \ {o} : orders'[x] = orders[x]
        /\ orders[o].status = "pending"
        /\ orders'[o].status = "cancelled"
        /\ orders'[o].fulfillment = "cancelled"
        /\ orders'[o].user = orders[o].user
    BY <1>2, ReleaseEffect DEF Released
  <2> QED
    BY <2>1 DEF OrdersWellFormed
<1>3. ASSUME NEW o \in Orders, ReservationLapses(o)
      PROVE  OrdersWellFormed'
  <2>1. orders[o].status # "absent"
    BY <1>3, LapseEffect DEF OrdersWellFormed, NoOrder
  <2> QED
    BY <1>3, <2>1, LapseEffect DEF OrdersWellFormed
<1>4. ASSUME NEW p \in Refs, FirstCharge(p)
      PROVE  OrdersWellFormed'
  <2> DEFINE o == payments[p].order
  <2>1. o \in Orders /\ orders[o].status \in {"pending", "cancelled"}
    BY <1>4, FirstChargeState
  <2>2. /\ \A x \in Orders \ {o} : orders'[x] = orders[x]
        /\ orders'[o].status = IF orders[o].status = "pending"
                                 THEN "processing" ELSE "payment_review"
        /\ orders[o].status # "pending"
             => orders'[o].fulfillment = orders[o].fulfillment
        /\ orders'[o].user = orders[o].user
    BY <1>4, <2>1, ChargeEffect DEF FirstCharge
  <2> QED
    BY <2>1, <2>2 DEF OrdersWellFormed
<1>5. CASE UNCHANGED orders
  BY <1>5 DEF OrdersWellFormed
<1> QED
  BY <1>1, <1>2, <1>3, <1>4, <1>5, OrdersChange

LEMMA OneOrderPerKeyStep ==
  ASSUME TypeOK, OrdersWellFormed, PaymentsWellFormed, OneOrderPerKey, [Next]_vars
  PROVE  OneOrderPerKey'
<1>1. ASSUME NEW o \in Orders, NEW u \in Users, NEW k \in Keys,
             NEW c \in Coupons \cup {None}, Placed(o, u, k, c)
      PROVE  OneOrderPerKey'
  <2>1. /\ \A x \in Orders \ {o} : orders'[x] = orders[x]
        /\ orders'[o].user = u
        /\ orders'[o].key = k
    BY <1>1, PlaceEffect DEF Placed
  <2>2. \A x \in Orders : ~(orders[x].user = u /\ orders[x].key = k)
    BY <1>1 DEF Placed, KeyUsed
  <2> QED
    BY <2>1, <2>2 DEF OneOrderPerKey
<1>2. ASSUME NEW o \in Orders,
             \A x \in Orders \ {o} : orders'[x] = orders[x],
             orders[o].status # "absent",
             orders'[o].user = orders[o].user,
             orders'[o].key = orders[o].key
      PROVE  OneOrderPerKey'
  BY <1>2 DEF OneOrderPerKey
<1>3. ASSUME NEW o \in Orders, Released(o)
      PROVE  OneOrderPerKey'
  <2>1. /\ \A x \in Orders \ {o} : orders'[x] = orders[x]
        /\ orders[o].status = "pending"
        /\ orders'[o].user = orders[o].user
        /\ orders'[o].key = orders[o].key
    BY <1>3, ReleaseEffect DEF Released
  <2> QED
    BY <1>2, <2>1
<1>4. ASSUME NEW o \in Orders, ReservationLapses(o)
      PROVE  OneOrderPerKey'
  <2>1. orders[o].status # "absent"
    BY <1>4, LapseEffect DEF OrdersWellFormed, NoOrder
  <2> QED
    BY <1>2, <1>4, <2>1, LapseEffect
<1>5. ASSUME NEW p \in Refs, FirstCharge(p)
      PROVE  OneOrderPerKey'
  <2>1. /\ payments[p].order \in Orders
        /\ orders[payments[p].order].status # "absent"
    BY <1>5 DEF FirstCharge, PaymentsWellFormed, TypeOK, PaymentRow
  <2> QED
    BY <1>2, <1>5, <2>1, ChargeEffect DEF FirstCharge
<1>6. CASE UNCHANGED orders
  BY <1>6 DEF OneOrderPerKey
<1> QED
  BY <1>1, <1>3, <1>4, <1>5, <1>6, OrdersChange

LEMMA ReleasedHoldsNothingStep ==
  ASSUME TypeOK, PaymentsWellFormed, FulfillmentBacked, ReleasedHoldsNothing,
         [Next]_vars
  PROVE  ReleasedHoldsNothing'
<1>1. ASSUME NEW o \in Orders, NEW u \in Users, NEW k \in Keys,
             NEW c \in Coupons \cup {None}, Placed(o, u, k, c)
      PROVE  ReleasedHoldsNothing'
  <2>1. /\ \A x \in Orders \ {o} : /\ orders'[x] = orders[x]
                                   /\ reserved'[x] = reserved[x]
                                   /\ usage'[x] = usage[x]
        /\ orders'[o].status \in {"pending", "processing"}
    BY <1>1, PlaceEffect DEF Placed
  <2> QED
    BY <2>1 DEF ReleasedHoldsNothing
<1>2. ASSUME NEW o \in Orders, Released(o)
      PROVE  ReleasedHoldsNothing'
  BY <1>2, ReleaseEffect DEF Released, ReleasedHoldsNothing
<1>3. ASSUME NEW o \in Orders, ReservationLapses(o)
      PROVE  ReleasedHoldsNothing'
  <2>1. UNCHANGED <<reserved, usage>>
    BY <1>3 DEF ReservationLapses, shop
  <2> QED
    BY <1>3, <2>1, LapseEffect DEF ReleasedHoldsNothing
<1>4. ASSUME NEW p \in Refs, FirstCharge(p)
      PROVE  ReleasedHoldsNothing'
  <2> DEFINE o == payments[p].order
  <2>1. o \in Orders /\ orders[o].status \in {"pending", "cancelled"}
    BY <1>4, FirstChargeState
  <2>2. /\ \A x \in Orders \ {o} : orders'[x] = orders[x]
        /\ orders'[o].status = IF orders[o].status = "pending"
                                 THEN "processing" ELSE "payment_review"
        /\ UNCHANGED <<reserved, usage>>
    BY <1>4, <2>1, ChargeEffect DEF FirstCharge, shop
  <2> QED
    BY <2>1, <2>2 DEF ReleasedHoldsNothing
<1>5. CASE UNCHANGED <<orders, qty, reserved, usage, usageCount, ledger, mail>>
  BY <1>5 DEF ReleasedHoldsNothing
<1> QED
  BY <1>1, <1>2, <1>3, <1>4, <1>5, OrdersChange

\* usage_count follows the rows of coupon_usage through checkouts and releases.
LEMMA CouponAccountingStep ==
  ASSUME TypeOK, PaymentsWellFormed, ReleasedHoldsNothing, FulfillmentBacked,
         CouponAccounting, [Next]_vars
  PROVE  CouponAccounting'
<1>0. \A c \in Coupons : IsFiniteSet(Redemptions(c))
  BY FS_Subset DEF Redemptions
<1>1. ASSUME NEW o \in Orders, NEW u \in Users, NEW k \in Keys,
             NEW c \in Coupons \cup {None}, Placed(o, u, k, c)
      PROVE  CouponAccounting'
  <2>1. /\ \A x \in Orders \ {o} : orders'[x] = orders[x] /\ usage'[x] = usage[x]
        /\ orders'[o].user = u
        /\ usage'[o] = c
        /\ usage[o] = None
    BY <1>1, PlaceEffect DEF Placed, ReleasedHoldsNothing
  <2>2. ASSUME NEW d \in Coupons, d # c
        PROVE  Redemptions(d)' = Redemptions(d) /\ usageCount'[d] = usageCount[d]
    BY <1>1, <2>1, <2>2 DEF Redemptions, Placed, PlaceOrder, TypeOK
  <2>3. ASSUME c \in Coupons
        PROVE  /\ Redemptions(c)' = Redemptions(c) \cup {o}
               /\ o \notin Redemptions(c)
               /\ usageCount'[c] = usageCount[c] + 1
               /\ CouponUsable(u, c)
    BY <1>1, <2>1, <2>3 DEF Redemptions, Placed, PlaceOrder, Quotable, TypeOK
  <2>4. ASSUME c \in Coupons
        PROVE  /\ usageCount'[c] = Cardinality(Redemptions(c)')
               /\ usageCount'[c] <= UsageLimit[c]
    <3>1. Cardinality(Redemptions(c)') = Cardinality(Redemptions(c)) + 1
      BY <1>0, <2>3, <2>4, FS_AddElement
    <3> QED
      BY <2>3, <2>4, <3>1 DEF CouponAccounting, CouponUsable, TypeOK
  <2>5. \A d \in Coupons : /\ usageCount'[d] = Cardinality(Redemptions(d)')
                           /\ usageCount'[d] <= UsageLimit[d]
    BY <2>2, <2>4 DEF CouponAccounting
  <2>6. ASSUME NEW d \in Coupons, NEW o1 \in Redemptions(d)',
               NEW o2 \in Redemptions(d)', orders'[o1].user = orders'[o2].user
        PROVE  o1 = o2
    BY <2>1, <2>2, <2>3, <2>6 DEF Redemptions, CouponAccounting, CouponUsable
  <2> QED
    BY <2>5, <2>6 DEF CouponAccounting
<1>2. ASSUME NEW o \in Orders, Released(o)
      PROVE  CouponAccounting'
  <2>1. /\ \A x \in Orders \ {o} : orders'[x] = orders[x] /\ usage'[x] = usage[x]
        /\ usage'[o] = None
        /\ \A c \in Coupons : usageCount'[c] =
             IF usage[o] = c /\ usageCount[c] > 0
               THEN usageCount[c] - 1 ELSE usageCount[c]
    BY <1>2, ReleaseEffect DEF Released, ReleaseReservation
  <2>2. ASSUME NEW c \in Coupons
        PROVE  /\ usageCount'[c] = Cardinality(Redemptions(c)')
               /\ usageCount'[c] <= UsageLimit[c]
               /\ Redemptions(c)' \subseteq Redemptions(c) \ {o}
    <3>1. Redemptions(c)' = Redemptions(c) \ {o}
      BY <2>1 DEF Redemptions
    <3>2. usageCount[c] = Cardinality(Redemptions(c)) /\ usageCount[c] \in Nat
      BY DEF CouponAccounting, TypeOK
    <3>3. Cardinality(Redemptions(c) \ {o}) =
            IF o \in Redemptions(c) THEN Cardinality(Redemptions(c)) - 1
                                    ELSE Cardinality(Redemptions(c))
      BY <1>0, FS_RemoveElement
    <3>4. o \in Redemptions(c) <=> usage[o] = c
      BY DEF Redemptions
    <3>5. o \in Redemptions(c) => usageCount[c] > 0
      BY <1>0, <3>2, FS_EmptySet
    <3>6. UsageLimit[c] \in Nat /\ usageCount[c] <= UsageLimit[c]
      BY DEF CouponAccounting
    <3> QED
      BY <2>1, <3>1, <3>2, <3>3, <3>4, <3>5, <3>6
  <2>3. ASSUME NEW c \in Coupons, NEW o1 \in Redemptions(c)',
               NEW o2 \in Redemptions(c)', orders'[o1].user = orders'[o2].user
        PROVE  o1 = o2
    <3>1. o1 \in Orders \ {o} /\ o2 \in Orders \ {o}
      BY <2>2 DEF Redemptions
    <3> QED
      BY <2>1, <2>2, <2>3, <3>1 DEF CouponAccounting
  <2> QED
    BY <2>2, <2>3 DEF CouponAccounting
<1>3. ASSUME NEW o \in Orders,
             \A x \in Orders : orders'[x].user = orders[x].user,
             UNCHANGED <<usage, usageCount>>
      PROVE  CouponAccounting'
  BY <1>3 DEF CouponAccounting, Redemptions
<1>4. ASSUME NEW o \in Orders, ReservationLapses(o)
      PROVE  CouponAccounting'
  <2>1. \A x \in Orders : orders'[x].user = orders[x].user
    BY <1>4, LapseEffect
  <2> QED
    BY <1>3, <1>4, <2>1 DEF ReservationLapses, shop
<1>5. ASSUME NEW p \in Refs, FirstCharge(p)
      PROVE  CouponAccounting'
  <2>1. payments[p].order \in Orders
    BY <1>5, FirstChargeState
  <2>2. \A x \in Orders : orders'[x].user = orders[x].user
    BY <1>5, <2>1, ChargeEffect DEF FirstCharge
  <2> QED
    BY <1>3, <1>5, <2>1, <2>2 DEF FirstCharge, shop
<1>6. CASE UNCHANGED <<orders, qty, reserved, usage, usageCount, ledger, mail>>
  BY <1>6 DEF CouponAccounting, Redemptions
<1> QED
  BY <1>1, <1>2, <1>4, <1>5, <1>6, OrdersChange

-----------------------------------------------------------------------------
(* What the steps of an initiation do to payments and requests             *)

LEMMA InitiateEffect ==
  ASSUME TypeOK, NEW r \in Requests, NEW o \in Orders, InitiatePayment(r, o)
  PROVE  \E p \in Refs :
           /\ IF PaymentsOf(o) = {} THEN payments[p].order = None
                                    ELSE payments[p].order = o
           /\ payments[p].initializing = FALSE
           /\ payments[p].checkout_data = FALSE
           /\ \A q \in Refs \ {p} : payments'[q] = payments[q]
           /\ payments'[p].order = o
           /\ payments'[p].status = payments[p].status
           /\ payments'[p].checkout_data = FALSE
           /\ payments'[p].initializing = TRUE
           /\ \A x \in Requests \ {r} : requests'[x] = requests[x]
           /\ requests'[r].step = "calling"
           /\ requests'[r].ref = p
           /\ UNCHANGED <<orders, provider>>
<1>1. PICK p \in Refs :
        /\ p \in ReferenceFor(o)
        /\ ~payments[p].checkout_data
        /\ ~payments[p].initializing
        /\ payments' = [payments EXCEPT ![p] =
                          [@ EXCEPT !.order = o, !.initializing = TRUE]]
        /\ requests' = [requests EXCEPT ![r] = [step |-> "calling", ref |-> p]]
  BY DEF InitiatePayment, ReferenceFor, PaymentsOf
<1>2. payments[p] \in PaymentRow
  BY DEF TypeOK
<1>3. /\ IF PaymentsOf(o) = {} THEN payments[p].order = None
                               ELSE payments[p].order = o
      /\ payments[p].initializing = FALSE
      /\ payments[p].checkout_data = FALSE
  BY <1>1, <1>2 DEF ReferenceFor, PaymentsOf, PaymentRow
<1>4. /\ \A q \in Refs \ {p} : payments'[q] = payments[q]
      /\ payments'[p] = [payments[p] EXCEPT !.order = o, !.initializing = TRUE]
  BY <1>1 DEF TypeOK
<1>5. /\ payments'[p].order = o
      /\ payments'[p].status = payments[p].status
      /\ payments'[p].checkout_data = FALSE
      /\ payments'[p].initializing = TRUE
  BY <1>2, <1>3, <1>4 DEF PaymentRow
<1>6. /\ \A x \in Requests \ {r} : requests'[x] = requests[x]
      /\ requests'[r].step = "calling"
      /\ requests'[r].ref = p
  BY <1>1 DEF TypeOK
<1> QED
  BY <1>3, <1>4, <1>5, <1>6 DEF InitiatePayment

LEMMA AcceptEffect ==
  ASSUME TypeOK, NEW r \in Requests, ProviderAccepts(r)
  PROVE  /\ requests[r].ref \in Refs
         /\ requests[r].step = "calling"
         /\ provider[requests[r].ref] = "none"
         /\ provider'[requests[r].ref] = "open"
         /\ \A q \in Refs \ {requests[r].ref} : provider'[q] = provider[q]
         /\ \A x \in Requests \ {r} : requests'[x] = requests[x]
         /\ requests'[r].step = "accepted"
         /\ requests'[r].ref = requests[r].ref
         /\ UNCHANGED <<orders, payments>>
<1>1. requests[r] \in RequestRow
  BY DEF TypeOK
<1>2. requests[r].ref \in Refs /\ requests[r].step = "calling"
  BY <1>1 DEF ProviderAccepts, RequestRow, Idle
<1>3. requests'[r] = [requests[r] EXCEPT !.step = "accepted"]
  BY DEF TypeOK, ProviderAccepts
<1>4. requests'[r].step = "accepted" /\ requests'[r].ref = requests[r].ref
  BY <1>1, <1>3 DEF RequestRow, Idle
<1> QED
  BY <1>2, <1>4 DEF TypeOK, ProviderAccepts

LEMMA EndEffect ==
  ASSUME TypeOK, NEW r \in Requests, InitSucceeds(r) \/ InitFails(r)
  PROVE  LET p == requests[r].ref
         IN /\ p \in Refs
            /\ Calling(r)
            /\ \A q \in Refs \ {p} : payments'[q] = payments[q]
            /\ payments'[p].order = payments[p].order
            /\ payments'[p].status = payments[p].status
            /\ payments'[p].checkout_data # payments[p].checkout_data
                 => requests[r].step = "accepted"
            /\ payments'[p].initializing = FALSE
            /\ \A x \in Requests \ {r} : requests'[x] = requests[x]
            /\ ~Calling(r)'
            /\ requests'[r].step # "idle" => requests'[r].ref = p
            /\ requests'[r].step # "accepted"
            /\ UNCHANGED <<orders, provider>>
<1> DEFINE p == requests[r].ref
<1>1. requests[r] \in RequestRow
  BY DEF TypeOK
<1>2. p \in Refs /\ Calling(r)
  BY <1>1 DEF InitSucceeds, InitFails, Calling, RequestRow, Idle
<1>3. payments[p] \in PaymentRow
  BY <1>2 DEF TypeOK
<1>4. CASE InitSucceeds(r)
  <2>1. /\ \A q \in Refs \ {p} : payments'[q] = payments[q]
        /\ payments'[p] = [payments[p] EXCEPT !.checkout_data = TRUE,
                                              !.initializing = FALSE]
        /\ \A x \in Requests \ {r} : requests'[x] = requests[x]
        /\ requests'[r] = Idle
    BY <1>2, <1>4 DEF TypeOK, InitSucceeds
  <2>2. /\ payments'[p].order = payments[p].order
        /\ payments'[p].status = payments[p].status
        /\ payments'[p].initializing = FALSE
    BY <1>3, <2>1 DEF PaymentRow
  <2> QED
    BY <1>2, <1>4, <2>1, <2>2 DEF InitSucceeds, Calling, Idle
<1>5. CASE InitFails(r)
  <2>1. /\ \A q \in Refs \ {p} : payments'[q] = payments[q]
        /\ payments'[p] = [payments[p] EXCEPT !.initializing = FALSE]
        /\ \A x \in Requests \ {r} : requests'[x] = requests[x]
        /\ requests'[r] = [requests[r] EXCEPT !.step = "failed"]
    BY <1>2, <1>5 DEF TypeOK, InitFails
  <2>2. /\ payments'[p].order = payments[p].order
        /\ payments'[p].status = payments[p].status
        /\ payments'[p].checkout_data = payments[p].checkout_data
        /\ payments'[p].initializing = FALSE
    BY <1>3, <2>1 DEF PaymentRow
  <2>3. requests'[r].step = "failed" /\ requests'[r].ref = p
    BY <1>1, <2>1 DEF RequestRow, Idle
  <2> QED
    BY <1>2, <1>5, <2>1, <2>2, <2>3 DEF InitFails, Calling
<1> QED
  BY <1>4, <1>5

LEMMA LeaseEffect ==
  ASSUME TypeOK, NEW p \in Refs, LeaseLapses(p)
  PROVE  /\ payments[p].initializing = TRUE
         /\ \A r \in Requests : Calling(r) => requests[r].ref # p
         /\ \A q \in Refs \ {p} : payments'[q] = payments[q]
         /\ payments'[p].order = payments[p].order
         /\ payments'[p].status = payments[p].status
         /\ payments'[p].checkout_data = payments[p].checkout_data
         /\ UNCHANGED <<orders, requests, provider>>
<1>1. payments[p] \in PaymentRow
  BY DEF TypeOK
<1> QED
  BY <1>1 DEF TypeOK, LeaseLapses, PaymentRow

LEMMA NoNewCallEffect ==
  ASSUME TypeOK, NoNewCall, NEW r \in Requests, requests'[r].step # "idle"
  PROVE  requests'[r] = requests[r]
BY DEF TypeOK, NoNewCall, Idle

-----------------------------------------------------------------------------
(* Payments, requests and the provider                                     *)

\* CallStep, with the actions it consists of.
LEMMA CallCases ==
  ASSUME CallStep
  PROVE  \/ \E r \in Requests, o \in Orders : InitiatePayment(r, o)
         \/ \E r \in Requests : ProviderAccepts(r)
         \/ \E r \in Requests : InitSucceeds(r) \/ InitFails(r)
         \/ \E p \in Refs : LeaseLapses(p)
         \/ \E p \in Refs : CustomerPays(p)
BY DEF CallStep

\* Orders only move forward: a placed order stays placed and keeps its payload.
LEMMA OrdersStay ==
  ASSUME TypeOK, PaymentsWellFormed, FulfillmentBacked, OrdersWellFormed,
         [Next]_vars, NEW x \in Orders, orders[x].status # "absent"
  PROVE  orders'[x].status # "absent" /\ orders'[x].payload = orders[x].payload
<1>1. ASSUME NEW o \in Orders, NEW u \in Users, NEW k \in Keys,
             NEW c \in Coupons \cup {None}, Placed(o, u, k, c)
      PROVE  orders'[x] = orders[x]
  BY <1>1, PlaceEffect DEF Placed
<1>2. ASSUME NEW o \in Orders, Released(o)
      PROVE  orders'[x].status # "absent" /\ orders'[x].payload = orders[x].payload
  BY <1>2, ReleaseEffect DEF Released
<1>3. ASSUME NEW o \in Orders, ReservationLapses(o)
      PROVE  orders'[x].status # "absent" /\ orders'[x].payload = orders[x].payload
  BY <1>3, LapseEffect
<1>4. ASSUME NEW p \in Refs, FirstCharge(p)
      PROVE  orders'[x].status # "absent" /\ orders'[x].payload = orders[x].payload
  <2>1. payments[p].order \in Orders
    BY <1>4, FirstChargeState
  <2> QED
    BY <1>4, <2>1, ChargeEffect DEF FirstCharge
<1> QED
  BY <1>1, <1>2, <1>3, <1>4, OrdersChange

LEMMA PaymentsWellFormedStep ==
  ASSUME TypeOK, OrdersWellFormed, PaymentsWellFormed, FulfillmentBacked,
         [Next]_vars
  PROVE  PaymentsWellFormed'
<1>1. ASSUME UNCHANGED payments,
             \A p \in Refs : provider[p] = "none" <=> provider'[p] = "none",
             \A r \in Requests : requests'[r].step # "idle" =>
                                   requests'[r] = requests[r]
      PROVE  PaymentsWellFormed'
  <2>1. \A x \in Orders : orders[x].status # "absent" =>
          orders'[x].status # "absent" /\ orders'[x].payload = orders[x].payload
    BY OrdersStay
  <2>2. \A p \in Refs : payments[p].order # None => payments[p].order \in Orders
    BY DEF TypeOK, PaymentRow
  <2>3. \A r \in Requests : requests[r].step # "idle" => requests[r].ref \in Refs
    BY DEF TypeOK, RequestRow, Idle
  <2> QED
    BY <1>1, <2>1, <2>2, <2>3 DEF PaymentsWellFormed
<1>2. ASSUME NEW o \in Orders, NEW u \in Users, NEW k \in Keys,
             NEW c \in Coupons \cup {None}, Placed(o, u, k, c)
      PROVE  PaymentsWellFormed'
  BY <1>1, <1>2 DEF Placed
<1>3. ASSUME NEW o \in Orders, Released(o) \/ ReservationLapses(o)
      PROVE  PaymentsWellFormed'
  BY <1>1, <1>3 DEF Released, ReleaseReservation, ReservationLapses
<1>4. ASSUME NEW p \in Refs, FirstCharge(p)
      PROVE  PaymentsWellFormed'
  <2> DEFINE o == payments[p].order
  <2>0. o \in Orders
    BY <1>4, FirstChargeState
  <2>1. /\ \A q \in Refs \ {p} : payments'[q] = payments[q]
        /\ payments'[p].order = o
        /\ UNCHANGED provider
    BY <1>4, <2>0, ChargeEffect DEF FirstCharge
  <2>2. \A q \in Refs : payments'[q].order = payments[q].order
    BY <2>1
  <2>3. \A r \in Requests : requests'[r].step # "idle" => requests'[r] = requests[r]
    BY <1>4, NoNewCallEffect DEF FirstCharge
  <2>4. \A x \in Orders : orders[x].status # "absent" =>
          orders'[x].status # "absent" /\ orders'[x].payload = orders[x].payload
    BY OrdersStay
  <2>5. \A q \in Refs : payments[q].order # None => payments[q].order \in Orders
    BY DEF TypeOK, PaymentRow
  <2>6. \A r \in Requests : requests[r].step # "idle" => requests[r].ref \in Refs
    BY DEF TypeOK, RequestRow, Idle
  <2>7. o # None
    BY <1>4 DEF FirstCharge
  <2> QED
    BY <2>0, <2>1, <2>2, <2>3, <2>4, <2>5, <2>6, <2>7 DEF PaymentsWellFormed
<1>5. ASSUME NEW r \in Requests, NEW o \in Orders, InitiatePayment(r, o)
      PROVE  PaymentsWellFormed'
  <2>1. PICK p \in Refs :
          /\ IF PaymentsOf(o) = {} THEN payments[p].order = None
                                   ELSE payments[p].order = o
          /\ payments[p].initializing = FALSE
          /\ payments[p].checkout_data = FALSE
          /\ \A q \in Refs \ {p} : payments'[q] = payments[q]
          /\ payments'[p].order = o
          /\ payments'[p].status = payments[p].status
          /\ payments'[p].checkout_data = FALSE
          /\ payments'[p].initializing = TRUE
          /\ \A x \in Requests \ {r} : requests'[x] = requests[x]
          /\ requests'[r].step = "calling"
          /\ requests'[r].ref = p
          /\ UNCHANGED <<orders, provider>>
    BY <1>5, InitiateEffect
  <2>2. \A q \in Refs \ {p} : payments[q].order # o
    BY <2>1 DEF PaymentsOf, PaymentsWellFormed
  <2>3. orders[o].status # "absent" /\ orders[o].payload \notin FreeCoupons
    BY <1>5 DEF InitiatePayment, Unpaid, FulfillmentBacked
  <2>4. \A p1, p2 \in Refs :
          payments'[p1].order # None /\ payments'[p1].order = payments'[p2].order
            => p1 = p2
    BY <2>1, <2>2 DEF PaymentsWellFormed
  <2>5. ASSUME NEW q \in Refs
        PROVE  IF payments'[q].order = None
                 THEN payments'[q] = NoPayment /\ provider'[q] = "none"
                 ELSE /\ orders'[payments'[q].order].status # "absent"
                      /\ orders'[payments'[q].order].payload \notin FreeCoupons
    BY <2>1, <2>3 DEF PaymentsWellFormed
  <2>6. ASSUME NEW x \in Requests
        PROVE  /\ requests'[x].step # "idle" => payments'[requests'[x].ref].order # None
               /\ requests'[x].step = "accepted" => provider'[requests'[x].ref] # "none"
    <3>1. requests[x].step # "idle" => requests[x].ref \in Refs
      BY DEF TypeOK, RequestRow, Idle
    <3> QED
      BY <2>1, <3>1 DEF PaymentsWellFormed
  <2> QED
    BY <2>4, <2>5, <2>6 DEF PaymentsWellFormed
<1>6. ASSUME NEW r \in Requests, ProviderAccepts(r)
      PROVE  PaymentsWellFormed'
  <2> DEFINE p == requests[r].ref
  <2>1. /\ p \in Refs
        /\ payments[p].order # None
    BY <1>6, AcceptEffect DEF PaymentsWellFormed
  <2>2. \A x \in Requests : requests[x].step # "idle" => requests[x].ref \in Refs
    BY DEF TypeOK, RequestRow, Idle
  <2>3. /\ provider'[p] = "open"
        /\ \A q \in Refs \ {p} : provider'[q] = provider[q]
        /\ \A x \in Requests \ {r} : requests'[x] = requests[x]
        /\ requests'[r].ref = p
        /\ UNCHANGED <<orders, payments>>
    BY <1>6, AcceptEffect
  <2> HIDE DEF p
  <2> QED
    BY <2>1, <2>2, <2>3 DEF PaymentsWellFormed
<1>7. ASSUME NEW r \in Requests, InitSucceeds(r) \/ InitFails(r)
      PROVE  PaymentsWellFormed'
  <2> DEFINE p == requests[r].ref
  <2>1. p \in Refs /\ payments[p].order # None
    BY <1>7, EndEffect DEF PaymentsWellFormed, Calling
  <2>2. \A x \in Requests : requests[x].step # "idle" => requests[x].ref \in Refs
    BY DEF TypeOK, RequestRow, Idle
  <2>3. /\ \A q \in Refs \ {p} : payments'[q] = payments[q]
        /\ payments'[p].order = payments[p].order
        /\ \A x \in Requests \ {r} : requests'[x] = requests[x]
        /\ requests'[r].step # "idle" => requests'[r].ref = p
        /\ requests'[r].step # "accepted"
        /\ UNCHANGED <<orders, provider>>
    BY <1>7, EndEffect
  <2> HIDE DEF p
  <2>4. \A q \in Refs : payments'[q].order = payments[q].order
    BY <2>3
  <2> QED
    BY <2>1, <2>2, <2>3, <2>4 DEF PaymentsWellFormed
<1>8. ASSUME NEW p \in Refs, LeaseLapses(p)
      PROVE  PaymentsWellFormed'
  <2>1. payments[p].order # None
    <3>1. payments[p].initializing = TRUE
      BY <1>8, LeaseEffect
    <3>2. NoPayment.initializing = FALSE
      BY DEF NoPayment
    <3> QED
      BY <3>1, <3>2 DEF PaymentsWellFormed
  <2>2. \A q \in Refs : payments'[q].order = payments[q].order
    BY <1>8, LeaseEffect
  <2>3. \A x \in Requests : requests[x].step # "idle" => requests[x].ref \in Refs
    BY DEF TypeOK, RequestRow, Idle
  <2>4. /\ \A q \in Refs \ {p} : payments'[q] = payments[q]
        /\ UNCHANGED <<orders, requests, provider>>
    BY <1>8, LeaseEffect
  <2> QED
    BY <2>1, <2>2, <2>3, <2>4 DEF PaymentsWellFormed
<1>9. ASSUME NEW p \in Refs, CustomerPays(p)
      PROVE  PaymentsWellFormed'
  BY <1>1, <1>9 DEF CustomerPays, TypeOK
<1>10. CASE CallStep
  BY <1>5, <1>6, <1>7, <1>8, <1>9, <1>10, CallCases
<1>11. CASE QuietStep
  BY <1>1, <1>11, NoNewCallEffect DEF QuietStep
<1> QED
  BY <1>2, <1>3, <1>4, <1>10, <1>11, StepCases

-----------------------------------------------------------------------------
(* Fulfillment, events and leases                                          *)

\* A payment that is settled, for the order it belongs to.
SettledFor(p, o) ==
  payments[p].order = o /\ provider[p] = "paid" /\ payments[p].status = "success"

\* No step of an initiation settles a payment or undoes a settlement.
LEMMA CallKeepsSettled ==
  ASSUME TypeOK, PaymentsWellFormed, RecordsTruthful, CallStep,
         NEW q \in Refs, NEW x \in Orders
  PROVE  SettledFor(q, x)' <=> SettledFor(q, x)
<1>1. ASSUME NEW r \in Requests, NEW o \in Orders, InitiatePayment(r, o)
      PROVE  SettledFor(q, x)' <=> SettledFor(q, x)
  <2>1. PICK p \in Refs :
          /\ IF PaymentsOf(o) = {} THEN payments[p].order = None
                                   ELSE payments[p].order = o
          /\ payments[p].initializing = FALSE
          /\ payments[p].checkout_data = FALSE
          /\ \A z \in Refs \ {p} : payments'[z] = payments[z]
          /\ payments'[p].order = o
          /\ payments'[p].status = payments[p].status
          /\ payments'[p].checkout_data = FALSE
          /\ payments'[p].initializing = TRUE
          /\ \A y \in Requests \ {r} : requests'[y] = requests[y]
          /\ requests'[r].step = "calling"
          /\ requests'[r].ref = p
          /\ UNCHANGED <<orders, provider>>
    BY <1>1, InitiateEffect
  <2>2. CASE q = p /\ payments[p].order = None
    <3>1. payments[p].status = "pending"
      BY <2>2 DEF PaymentsWellFormed, NoPayment
    <3> QED
      BY <2>1, <2>2, <3>1 DEF SettledFor
  <2>3. CASE ~(q = p /\ payments[p].order = None)
    BY <2>1, <2>3 DEF SettledFor
  <2> QED
    BY <2>2, <2>3
<1>2. ASSUME NEW r \in Requests, ProviderAccepts(r)
      PROVE  SettledFor(q, x)' <=> SettledFor(q, x)
  BY <1>2, AcceptEffect DEF SettledFor, RecordsTruthful
<1>3. ASSUME NEW r \in Requests, InitSucceeds(r) \/ InitFails(r)
      PROVE  SettledFor(q, x)' <=> SettledFor(q, x)
  BY <1>3, EndEffect DEF SettledFor
<1>4. ASSUME NEW p \in Refs, LeaseLapses(p)
      PROVE  SettledFor(q, x)' <=> SettledFor(q, x)
  BY <1>4, LeaseEffect DEF SettledFor
<1>5. ASSUME NEW p \in Refs, CustomerPays(p)
      PROVE  SettledFor(q, x)' <=> SettledFor(q, x)
  <2>1. /\ provider[p] = "open"
        /\ \A y \in Refs \ {p} : provider'[y] = provider[y]
        /\ UNCHANGED payments
    BY <1>5 DEF CustomerPays, TypeOK
  <2>2. payments[p].status # "success"
    BY <2>1 DEF RecordsTruthful
  <2> QED
    BY <2>1, <2>2 DEF SettledFor
<1> QED
  BY <1>1, <1>2, <1>3, <1>4, <1>5, CallCases

LEMMA FulfillmentBackedStep ==
  ASSUME TypeOK, OrdersWellFormed, PaymentsWellFormed, RecordsTruthful,
         FulfillmentBacked, [Next]_vars
  PROVE  FulfillmentBacked'
<1> DEFINE Backed(o) ==
      /\ orders[o].paid <=> ((\E p \in Refs : SettledFor(p, o))
                               \/ orders[o].payload \in FreeCoupons)
      /\ orders[o].paid <=> orders[o].status \in {"processing", "payment_review"}
      /\ orders[o].fulfillment = "processing" <=> orders[o].status = "processing"
      /\ o \in ledger <=> orders[o].status = "processing"
      /\ o \in mail <=> orders[o].status = "processing"
<1>0. SUFFICES ASSUME NEW x \in Orders
               PROVE  Backed(x)'
  BY DEF FulfillmentBacked, ChargesFor, PaymentsOf, SettledFor
<1>1. Backed(x)
  BY DEF FulfillmentBacked, ChargesFor, PaymentsOf, SettledFor
<1>2. ASSUME UNCHANGED <<payments, provider>>, orders'[x] = orders[x],
             x \in ledger' <=> x \in ledger, x \in mail' <=> x \in mail
      PROVE  Backed(x)'
  BY <1>1, <1>2 DEF SettledFor
<1>3. ASSUME NEW o \in Orders, NEW u \in Users, NEW k \in Keys,
             NEW c \in Coupons \cup {None}, Placed(o, u, k, c)
      PROVE  Backed(x)'
  <2>1. CASE x # o
    <3>1. orders'[x] = orders[x]
      BY <1>3, <2>1, PlaceEffect DEF Placed
    <3> QED
      BY <1>2, <1>3, <2>1, <3>1 DEF Placed
  <2>2. CASE x = o
    <3>1. \A p \in Refs : payments'[p].order # o
      BY <1>3 DEF Placed, PaymentsWellFormed
    <3>2. o \notin ledger /\ o \notin mail
      BY <1>1, <1>3, <2>2 DEF Placed
    <3>3. /\ orders'[o].status = IF c \in FreeCoupons THEN "processing"
                                                     ELSE "pending"
          /\ orders'[o].paid = (c \in FreeCoupons)
          /\ orders'[o].fulfillment = IF c \in FreeCoupons THEN "processing"
                                                          ELSE "pending"
          /\ orders'[o].payload = c
      BY <1>3, PlaceEffect DEF Placed
    <3>4. /\ o \in ledger' <=> c \in FreeCoupons
          /\ o \in mail' <=> c \in FreeCoupons
      BY <1>3, <3>2 DEF Placed
    <3> QED
      BY <2>2, <3>1, <3>3, <3>4 DEF SettledFor
  <2> QED
    BY <2>1, <2>2
<1>4. ASSUME NEW o \in Orders, Released(o)
      PROVE  Backed(x)'
  <2>1. UNCHANGED <<payments, provider, ledger, mail>>
    BY <1>4 DEF Released, ReleaseReservation
  <2>2. CASE x # o
    <3>1. orders'[x] = orders[x]
      BY <1>4, <2>2, ReleaseEffect DEF Released
    <3> QED
      BY <1>2, <2>1, <3>1
  <2>3. CASE x = o
    <3>1. /\ orders[x].status = "pending"
          /\ orders'[x].status = "cancelled"
          /\ orders'[x].fulfillment = "cancelled"
          /\ orders'[x].paid = orders[x].paid
          /\ orders'[x].payload = orders[x].payload
      BY <1>4, <2>3, ReleaseEffect DEF Released
    <3> QED
      BY <1>1, <2>1, <3>1 DEF SettledFor
  <2> QED
    BY <2>2, <2>3
<1>5. ASSUME NEW o \in Orders, ReservationLapses(o)
      PROVE  Backed(x)'
  <2>1. UNCHANGED <<payments, provider, ledger, mail>>
    BY <1>5 DEF ReservationLapses
  <2>2. /\ orders'[x].status = orders[x].status
        /\ orders'[x].fulfillment = orders[x].fulfillment
        /\ orders'[x].paid = orders[x].paid
        /\ orders'[x].payload = orders[x].payload
    BY <1>5, LapseEffect
  <2> QED
    BY <1>1, <2>1, <2>2 DEF SettledFor
<1>6. ASSUME NEW p \in Refs, FirstCharge(p)
      PROVE  Backed(x)'
  <2> DEFINE o == payments[p].order
  <2>1. /\ o \in Orders
        /\ orders[o].status \in {"pending", "cancelled"}
    BY <1>6, FirstChargeState
  <2>2. /\ \A y \in Orders \ {o} : orders'[y] = orders[y]
        /\ orders'[o].status = IF orders[o].status = "pending"
                                 THEN "processing" ELSE "payment_review"
        /\ orders[o].status = "pending" => orders'[o].fulfillment = "processing"
        /\ orders[o].status # "pending"
             => orders'[o].fulfillment = orders[o].fulfillment
        /\ orders'[o].paid = TRUE
        /\ \A q \in Refs \ {p} : payments'[q] = payments[q]
        /\ payments'[p].order = o
        /\ payments'[p].status = "success"
    <3>1. ApplyCharge(p)
      BY <1>6 DEF FirstCharge
    <3> QED
      BY <2>1, <3>1, ChargeEffect
  <2>3. provider'[p] = "paid" /\ UNCHANGED provider
    BY <1>6 DEF FirstCharge
  <2>4. IF orders[o].status = "pending"
          THEN ledger' = ledger \cup {o} /\ mail' = mail \cup {o}
          ELSE UNCHANGED <<ledger, mail>>
    BY <1>6 DEF FirstCharge, ApplyCharge, RecordProductSale
  <2>5. CASE x # o
    <3>1. \A q \in Refs : SettledFor(q, x)' <=> SettledFor(q, x)
      BY <2>2, <2>3, <2>5 DEF SettledFor
    <3>2. /\ orders'[x] = orders[x]
          /\ x \in ledger' <=> x \in ledger
          /\ x \in mail' <=> x \in mail
      BY <2>2, <2>4, <2>5
    <3> QED
      BY <1>1, <3>1, <3>2
  <2>6. CASE x = o
    <3>1. SettledFor(p, x)'
      BY <2>2, <2>3, <2>6 DEF SettledFor
    <3>2. orders'[x].paid = TRUE
      BY <2>2, <2>6
    <3>3. /\ orders'[x].status \in {"processing", "payment_review"}
          /\ orders'[x].fulfillment = "processing"
               <=> orders'[x].status = "processing"
          /\ x \in ledger' <=> orders'[x].status = "processing"
          /\ x \in mail' <=> orders'[x].status = "processing"
      BY <1>1, <2>1, <2>2, <2>4, <2>6
    <3> QED
      BY <3>1, <3>2, <3>3
  <2> QED
    BY <2>5, <2>6
<1>7. CASE CallStep
  <2>1. \A q \in Refs : SettledFor(q, x)' <=> SettledFor(q, x)
    BY <1>7, CallKeepsSettled
  <2> QED
    BY <1>1, <1>7, <2>1 DEF CallStep, books
<1>8. CASE QuietStep
  BY <1>2, <1>8 DEF QuietStep, books
<1> QED
  BY <1>3, <1>4, <1>5, <1>6, <1>7, <1>8, StepCases

LEMMA RecordsTruthfulStep ==
  ASSUME TypeOK, PaymentsWellFormed, FulfillmentBacked, RecordsTruthful,
         [Next]_vars
  PROVE  RecordsTruthful'
<1>1. ASSUME UNCHANGED <<payments, events, provider>>
      PROVE  RecordsTruthful'
  BY <1>1 DEF RecordsTruthful
<1>2. ASSUME NEW o \in Orders, NEW u \in Users, NEW k \in Keys,
             NEW c \in Coupons \cup {None}, Placed(o, u, k, c)
      PROVE  RecordsTruthful'
  BY <1>1, <1>2 DEF Placed
<1>3. ASSUME NEW o \in Orders, Released(o) \/ ReservationLapses(o)
      PROVE  RecordsTruthful'
  BY <1>1, <1>3 DEF Released, ReleaseReservation, ReservationLapses
<1>4. ASSUME NEW p \in Refs, FirstCharge(p)
      PROVE  RecordsTruthful'
  <2>1. /\ payments[p].order \in Orders
        /\ ApplyCharge(p)
        /\ provider[p] = "paid"
        /\ events' \subseteq events \cup {p}
        /\ UNCHANGED provider
    BY <1>4, FirstChargeState DEF FirstCharge
  <2>2. /\ \A q \in Refs \ {p} : payments'[q] = payments[q]
        /\ payments'[p].status = "success"
    BY <2>1, ChargeEffect
  <2> QED
    BY <2>1, <2>2 DEF RecordsTruthful
<1>5. ASSUME NEW r \in Requests, NEW o \in Orders, InitiatePayment(r, o),
             UNCHANGED events
      PROVE  RecordsTruthful'
  <2>1. PICK p \in Refs :
          /\ IF PaymentsOf(o) = {} THEN payments[p].order = None
                                   ELSE payments[p].order = o
          /\ payments[p].initializing = FALSE
          /\ payments[p].checkout_data = FALSE
          /\ \A z \in Refs \ {p} : payments'[z] = payments[z]
          /\ payments'[p].order = o
          /\ payments'[p].status = payments[p].status
          /\ payments'[p].checkout_data = FALSE
          /\ payments'[p].initializing = TRUE
          /\ \A y \in Requests \ {r} : requests'[y] = requests[y]
          /\ requests'[r].step = "calling"
          /\ requests'[r].ref = p
          /\ UNCHANGED <<orders, provider>>
    BY <1>5, InitiateEffect
  <2> QED
    BY <1>5, <2>1 DEF RecordsTruthful
<1>6. ASSUME NEW r \in Requests, ProviderAccepts(r), UNCHANGED events
      PROVE  RecordsTruthful'
  BY <1>6, AcceptEffect DEF RecordsTruthful
<1>7. ASSUME NEW r \in Requests, InitSucceeds(r) \/ InitFails(r),
             UNCHANGED events
      PROVE  RecordsTruthful'
  <2> DEFINE p == requests[r].ref
  <2>1. /\ \A q \in Refs \ {p} : payments'[q] = payments[q]
        /\ payments'[p].status = payments[p].status
        /\ payments'[p].checkout_data # payments[p].checkout_data
             => provider[p] # "none"
        /\ UNCHANGED provider
    BY <1>7, EndEffect DEF PaymentsWellFormed
  <2> HIDE DEF p
  <2> QED
    BY <1>7, <2>1 DEF RecordsTruthful
<1>8. ASSUME NEW p \in Refs, LeaseLapses(p), UNCHANGED events
      PROVE  RecordsTruthful'
  <2>1. /\ \A q \in Refs \ {p} : payments'[q] = payments[q]
        /\ payments'[p].status = payments[p].status
        /\ payments'[p].checkout_data = payments[p].checkout_data
        /\ UNCHANGED provider
    BY <1>8, LeaseEffect
  <2> QED
    BY <1>8, <2>1 DEF RecordsTruthful
<1>9. ASSUME NEW p \in Refs, CustomerPays(p), UNCHANGED events
      PROVE  RecordsTruthful'
  BY <1>9 DEF RecordsTruthful, CustomerPays, TypeOK
<1>10. CASE CallStep
  BY <1>5, <1>6, <1>7, <1>8, <1>9, <1>10, CallCases DEF CallStep
<1>11. CASE QuietStep
  <2>1. CASE UNCHANGED events
    BY <1>1, <1>11, <2>1 DEF QuietStep
  <2>2. ASSUME NEW p \in Refs, payments[p].order # None, provider[p] = "paid",
               Settled(p), events' = events \cup {p}
        PROVE  RecordsTruthful'
    <3> DEFINE o == payments[p].order
    <3>1. o \in Orders /\ orders[o].payload \notin FreeCoupons
      BY <2>2 DEF TypeOK, PaymentRow, PaymentsWellFormed
    <3>2. payments[p].status = "success"
      <4>1. CASE orders[o].paid
        <5>1. PICK q \in ChargesFor(o) : payments[q].status = "success"
          BY <3>1, <4>1 DEF FulfillmentBacked
        <5>2. q = p
          BY <2>2, <5>1 DEF ChargesFor, PaymentsOf, PaymentsWellFormed
        <5> QED
          BY <5>1, <5>2
      <4> QED
        BY <2>2, <4>1 DEF Settled
    <3> QED
      BY <1>11, <2>2, <3>2 DEF QuietStep, RecordsTruthful
  <2> QED
    BY <1>11, <2>1, <2>2 DEF QuietStep
<1> QED
  BY <1>2, <1>3, <1>4, <1>10, <1>11, StepCases

LEMMA LeaseHeldStep ==
  ASSUME TypeOK, PaymentsWellFormed, FulfillmentBacked, LeaseHeld,
         InitializationSerialized, [Next]_vars
  PROVE  LeaseHeld'
<1> USE DEF Calling
<1>1. ASSUME UNCHANGED payments,
             \A r \in Requests : requests'[r].step # "idle" =>
                                   requests'[r] = requests[r]
      PROVE  LeaseHeld'
  BY <1>1 DEF LeaseHeld
<1>2. ASSUME NEW o \in Orders, NEW u \in Users, NEW k \in Keys,
             NEW c \in Coupons \cup {None}, Placed(o, u, k, c)
      PROVE  LeaseHeld'
  BY <1>1, <1>2 DEF Placed
<1>3. ASSUME NEW o \in Orders, Released(o) \/ ReservationLapses(o)
      PROVE  LeaseHeld'
  BY <1>1, <1>3 DEF Released, ReleaseReservation, ReservationLapses
<1>4. ASSUME NEW p \in Refs, FirstCharge(p)
      PROVE  LeaseHeld'
  <2>1. /\ \A q \in Refs \ {p} : payments'[q] = payments[q]
        /\ payments'[p].status = "success"
    BY <1>4, FirstChargeState, ChargeEffect DEF FirstCharge
  <2>2. \A r \in Requests : requests'[r].step # "idle" => requests'[r] = requests[r]
    BY <1>4, NoNewCallEffect DEF FirstCharge
  <2>3. \A r \in Requests : requests[r].step # "idle" => requests[r].ref \in Refs
    BY DEF TypeOK, RequestRow, Idle
  <2> QED
    BY <2>1, <2>2, <2>3 DEF LeaseHeld
<1>5. ASSUME NEW r \in Requests, NEW o \in Orders, InitiatePayment(r, o)
      PROVE  LeaseHeld'
  <2>1. PICK p \in Refs :
          /\ IF PaymentsOf(o) = {} THEN payments[p].order = None
                                   ELSE payments[p].order = o
          /\ payments[p].initializing = FALSE
          /\ payments[p].checkout_data = FALSE
          /\ \A z \in Refs \ {p} : payments'[z] = payments[z]
          /\ payments'[p].order = o
          /\ payments'[p].status = payments[p].status
          /\ payments'[p].checkout_data = FALSE
          /\ payments'[p].initializing = TRUE
          /\ \A y \in Requests \ {r} : requests'[y] = requests[y]
          /\ requests'[r].step = "calling"
          /\ requests'[r].ref = p
          /\ UNCHANGED <<orders, provider>>
    BY <1>5, InitiateEffect
  <2>2. \A x \in Requests : requests[x].step # "idle" => requests[x].ref \in Refs
    BY DEF TypeOK, RequestRow, Idle
  <2> QED
    BY <2>1, <2>2 DEF LeaseHeld
<1>6. ASSUME NEW r \in Requests, ProviderAccepts(r)
      PROVE  LeaseHeld'
  BY <1>6, AcceptEffect DEF LeaseHeld
<1>7. ASSUME NEW r \in Requests, InitSucceeds(r) \/ InitFails(r)
      PROVE  LeaseHeld'
  <2> DEFINE p == requests[r].ref
  <2>1. /\ p \in Refs
        /\ Calling(r)
        /\ \A q \in Refs \ {p} : payments'[q] = payments[q]
        /\ \A x \in Requests \ {r} : requests'[x] = requests[x]
        /\ ~Calling(r)'
    BY <1>7, EndEffect
  <2>2. \A x \in Requests \ {r} : Calling(x) => requests[x].ref # p
    BY <2>1 DEF InitializationSerialized
  <2>3. \A x \in Requests : Calling(x) => requests[x].ref \in Refs
    BY DEF TypeOK, RequestRow, Idle
  <2> HIDE DEF p
  <2> QED
    BY <2>1, <2>2, <2>3 DEF LeaseHeld
<1>8. ASSUME NEW p \in Refs, LeaseLapses(p)
      PROVE  LeaseHeld'
  <2>1. \A x \in Requests : Calling(x) => requests[x].ref \in Refs
    BY DEF TypeOK, RequestRow, Idle
  <2>2. /\ \A x \in Requests : Calling(x) => requests[x].ref # p
        /\ \A q \in Refs \ {p} : payments'[q] = payments[q]
        /\ UNCHANGED requests
    BY <1>8, LeaseEffect
  <2> QED
    BY <2>1, <2>2 DEF LeaseHeld
<1>9. ASSUME NEW p \in Refs, CustomerPays(p)
      PROVE  LeaseHeld'
  BY <1>1, <1>9 DEF CustomerPays
<1>10. CASE CallStep
  BY <1>5, <1>6, <1>7, <1>8, <1>9, <1>10, CallCases
<1>11. CASE QuietStep
  BY <1>1, <1>11, NoNewCallEffect DEF QuietStep
<1> QED
  BY <1>2, <1>3, <1>4, <1>10, <1>11, StepCases

LEMMA InitializationSerializedStep ==
  ASSUME TypeOK, PaymentsWellFormed, FulfillmentBacked, RecordsTruthful,
         LeaseHeld, InitializationSerialized, [Next]_vars
  PROVE  InitializationSerialized'
<1> USE DEF Calling
<1>0. \A x \in Requests : requests[x].step # "idle" =>
        requests[x].ref \in Refs /\ payments[requests[x].ref].order # None
  BY DEF TypeOK, RequestRow, Idle, PaymentsWellFormed
<1>1. ASSUME \A q \in Refs : payments'[q].order = payments[q].order,
             \A x \in Requests : Calling(x)' =>
               Calling(x) /\ requests'[x].ref = requests[x].ref
      PROVE  InitializationSerialized'
  BY <1>0, <1>1 DEF InitializationSerialized
<1>2. ASSUME NEW o \in Orders, NEW u \in Users, NEW k \in Keys,
             NEW c \in Coupons \cup {None}, Placed(o, u, k, c)
      PROVE  InitializationSerialized'
  BY <1>1, <1>2 DEF Placed
<1>3. ASSUME NEW o \in Orders, Released(o) \/ ReservationLapses(o)
      PROVE  InitializationSerialized'
  BY <1>1, <1>3 DEF Released, ReleaseReservation, ReservationLapses
<1>4. ASSUME NEW p \in Refs, FirstCharge(p)
      PROVE  InitializationSerialized'
  <2>1. /\ \A q \in Refs \ {p} : payments'[q] = payments[q]
        /\ payments'[p].order = payments[p].order
    BY <1>4, FirstChargeState, ChargeEffect DEF FirstCharge
  <2>2. \A r \in Requests : requests'[r].step # "idle" => requests'[r] = requests[r]
    BY <1>4, NoNewCallEffect DEF FirstCharge
  <2>3. \A q \in Refs : payments'[q].order = payments[q].order
    BY <2>1
  <2> QED
    BY <1>1, <2>2, <2>3
<1>5. ASSUME NEW r \in Requests, NEW o \in Orders, InitiatePayment(r, o)
      PROVE  InitializationSerialized'
  <2>1. PICK p \in Refs :
          /\ IF PaymentsOf(o) = {} THEN payments[p].order = None
                                   ELSE payments[p].order = o
          /\ payments[p].initializing = FALSE
          /\ payments[p].checkout_data = FALSE
          /\ \A z \in Refs \ {p} : payments'[z] = payments[z]
          /\ payments'[p].order = o
          /\ payments'[p].status = payments[p].status
          /\ payments'[p].checkout_data = FALSE
          /\ payments'[p].initializing = TRUE
          /\ \A y \in Requests \ {r} : requests'[y] = requests[y]
          /\ requests'[r].step = "calling"
          /\ requests'[r].ref = p
          /\ UNCHANGED <<orders, provider>>
    BY <1>5, InitiateEffect
  <2>2. ~orders[o].paid /\ ~Calling(r)
    BY <1>5 DEF InitiatePayment, Unpaid, Idle
  <2>3. payments[p].status # "success"
    <3>1. CASE payments[p].order = None
      BY <3>1 DEF PaymentsWellFormed, NoPayment
    <3>2. CASE payments[p].order = o
      BY <2>2, <3>2 DEF FulfillmentBacked, RecordsTruthful, ChargesFor, PaymentsOf
    <3> QED
      BY <2>1, <3>1, <3>2
  <2>4. \A x \in Requests \ {r} : Calling(x) => payments[requests[x].ref].order # o
    <3> SUFFICES ASSUME NEW x \in Requests \ {r}, Calling(x),
                        payments[requests[x].ref].order = o
                 PROVE  FALSE
      OBVIOUS
    <3>1. requests[x].ref \in PaymentsOf(o)
      BY <1>0 DEF PaymentsOf
    <3>2. requests[x].ref = p
      BY <1>0, <2>1, <3>1 DEF PaymentsWellFormed
    <3> QED
      BY <2>1, <2>3, <3>2 DEF LeaseHeld
  <2>5. \A x \in Requests \ {r} : Calling(x) =>
          requests[x].ref # p \/ payments[p].order = o
    BY <1>0, <2>1
  <2>6. \A x \in Requests \ {r} : Calling(x)' =>
          /\ Calling(x)
          /\ requests'[x] = requests[x]
          /\ payments'[requests[x].ref].order = payments[requests[x].ref].order
    BY <1>0, <2>1, <2>5
  <2> QED
    BY <2>1, <2>4, <2>6 DEF InitializationSerialized
<1>6. ASSUME NEW r \in Requests, ProviderAccepts(r)
      PROVE  InitializationSerialized'
  BY <1>1, <1>6, AcceptEffect
<1>7. ASSUME NEW r \in Requests, InitSucceeds(r) \/ InitFails(r)
      PROVE  InitializationSerialized'
  <2> DEFINE p == requests[r].ref
  <2>1. /\ \A q \in Refs \ {p} : payments'[q] = payments[q]
        /\ payments'[p].order = payments[p].order
        /\ \A x \in Requests \ {r} : requests'[x] = requests[x]
        /\ ~Calling(r)'
    BY <1>7, EndEffect
  <2> HIDE DEF p
  <2>2. \A q \in Refs : payments'[q].order = payments[q].order
    BY <2>1
  <2> QED
    BY <1>1, <2>1, <2>2
<1>8. ASSUME NEW p \in Refs, LeaseLapses(p)
      PROVE  InitializationSerialized'
  <2>1. /\ \A q \in Refs : payments'[q].order = payments[q].order
        /\ UNCHANGED requests
    BY <1>8, LeaseEffect
  <2> QED
    BY <1>1, <2>1
<1>9. ASSUME NEW p \in Refs, CustomerPays(p)
      PROVE  InitializationSerialized'
  BY <1>1, <1>9 DEF CustomerPays
<1>10. CASE CallStep
  BY <1>5, <1>6, <1>7, <1>8, <1>9, <1>10, CallCases
<1>11. CASE QuietStep
  BY <1>1, <1>11, NoNewCallEffect DEF QuietStep
<1> QED
  BY <1>2, <1>3, <1>4, <1>10, <1>11, StepCases

-----------------------------------------------------------------------------
(* The inductive invariant and what follows from it                        *)

LEMMA InvInit == Init => IInv
<1> SUFFICES ASSUME Init
             PROVE  IInv
  OBVIOUS
<1>1. TypeOK
  BY TypeInit
<1>2. StockConserved
  <2>1. ASSUME NEW s \in Skus
        PROVE  stock[s] + Cardinality(HeldUnits(s)) = InitialStock[s]
    <3>1. HeldUnits(s) = {}
      BY DEF Init, HeldUnits
    <3> QED
      BY <3>1, FS_EmptySet DEF Init
  <2> QED
    BY <2>1 DEF StockConserved
<1>3. CouponAccounting
  <2>1. ASSUME NEW c \in Coupons
        PROVE  Redemptions(c) = {} /\ usageCount[c] = 0 /\ UsageLimit[c] \in Nat
    BY DEF Init, Redemptions
  <2>2. Cardinality({}) = 0
    BY FS_EmptySet
  <2>3. \A c \in Coupons : /\ usageCount[c] = Cardinality(Redemptions(c))
                           /\ usageCount[c] <= UsageLimit[c]
    BY <2>1, <2>2
  <2> QED
    BY <2>1, <2>3 DEF CouponAccounting
<1>4. \A r \in Requests : requests[r].step = "idle"
  BY DEF Init, Idle
<1>5. /\ \A o \in Orders : orders[o] = NoOrder
      /\ \A p \in Refs : payments[p] = NoPayment /\ provider[p] = "none"
  BY DEF Init
<1>6. OrdersWellFormed
  <2>1. NoOrder.status = "absent"
    BY DEF NoOrder
  <2> QED
    BY <1>5, <2>1 DEF OrdersWellFormed
<1>7. PaymentsWellFormed
  <2>1. NoPayment.order = None
    BY DEF NoPayment
  <2>2. \A r \in Requests : requests[r].step # "accepted"
    BY <1>4
  <2> QED
    BY <1>4, <1>5, <2>1, <2>2 DEF PaymentsWellFormed
<1>8. OneOrderPerKey
  BY <1>5 DEF OneOrderPerKey, NoOrder
<1>9. ReleasedHoldsNothing
  BY DEF Init, ReleasedHoldsNothing
<1>10. FulfillmentBacked
  <2>1. /\ ledger = {} /\ mail = {}
        /\ \A o \in Orders : ChargesFor(o) = {}
    BY <1>5 DEF Init, ChargesFor, PaymentsOf
  <2>2. /\ NoOrder.paid = FALSE
        /\ NoOrder.status = "absent"
        /\ NoOrder.fulfillment = "none"
        /\ NoOrder.payload \notin FreeCoupons
    BY DEF NoOrder
  <2> QED
    BY <1>5, <2>1, <2>2 DEF FulfillmentBacked
<1>11. RecordsTruthful
  BY <1>5 DEF Init, RecordsTruthful, NoPayment
<1>12. LeaseHeld /\ InitializationSerialized
  BY <1>4 DEF LeaseHeld, InitializationSerialized, Calling
<1> QED
  BY <1>1, <1>2, <1>3, <1>6, <1>7, <1>8, <1>9, <1>10, <1>11, <1>12 DEF IInv

LEMMA InvStep == IInv /\ [Next]_vars => IInv'
<1> SUFFICES ASSUME IInv, [Next]_vars
             PROVE  IInv'
  OBVIOUS
<1>1. /\ TypeOK /\ OrdersWellFormed /\ PaymentsWellFormed /\ StockConserved
      /\ CouponAccounting /\ OneOrderPerKey /\ ReleasedHoldsNothing
      /\ FulfillmentBacked /\ RecordsTruthful /\ LeaseHeld
      /\ InitializationSerialized
  BY DEF IInv
<1>2. TypeOK'
  BY <1>1, TypeStep
<1>3. OrdersWellFormed' /\ PaymentsWellFormed'
  BY <1>1, OrdersWellFormedStep, PaymentsWellFormedStep
<1>4. StockConserved' /\ CouponAccounting'
  BY <1>1, StockStep, CouponAccountingStep
<1>5. OneOrderPerKey' /\ ReleasedHoldsNothing'
  BY <1>1, OneOrderPerKeyStep, ReleasedHoldsNothingStep
<1>6. FulfillmentBacked' /\ RecordsTruthful'
  BY <1>1, FulfillmentBackedStep, RecordsTruthfulStep
<1>7. LeaseHeld' /\ InitializationSerialized'
  BY <1>1, LeaseHeldStep, InitializationSerializedStep
<1> QED
  BY <1>2, <1>3, <1>4, <1>5, <1>6, <1>7 DEF IInv

\* The conjunction of all the invariants is inductive.
THEOREM Invariance == Spec => []IInv
<1>1. IInv /\ [Next]_vars => IInv'
  BY InvStep
<1> QED
  BY <1>1, InvInit, PTL DEF Spec

\* Shelf and held units always add up to the initial stock.
THEOREM StockIsConserved == Spec => []StockConserved
<1>1. IInv => StockConserved
  BY DEF IInv
<1> QED
  BY <1>1, Invariance, PTL

\* usage_count equals the redemptions, within the limit, one per user.
THEOREM CouponsAccounted == Spec => []CouponAccounting
<1>1. IInv => CouponAccounting
  BY DEF IInv
<1> QED
  BY <1>1, Invariance, PTL

\* A user's idempotency key never names two orders.
THEOREM KeysNameOneOrder == Spec => []OneOrderPerKey
<1>1. IInv => OneOrderPerKey
  BY DEF IInv
<1> QED
  BY <1>1, Invariance, PTL

\* At most one reference of an order is ever charged, none of a free order.
THEOREM NoDoubleCharge == Spec => []ChargedOnce
<1>1. IInv => ChargedOnce
  <2> SUFFICES ASSUME IInv, NEW o \in Orders
               PROVE  /\ \A p1, p2 \in ChargesFor(o) : p1 = p2
                      /\ orders[o].payload \in FreeCoupons => ChargesFor(o) = {}
    BY DEF ChargedOnce
  <2>1. PaymentsWellFormed /\ o # None
    BY DEF IInv
  <2> QED
    BY <2>1 DEF PaymentsWellFormed, ChargesFor, PaymentsOf
<1> QED
  BY <1>1, Invariance, PTL

\* Fulfillment, ledger and confirmation mail agree with money received.
THEOREM FulfillmentIsBacked == Spec => []FulfillmentBacked
<1>1. IInv => FulfillmentBacked
  BY DEF IInv
<1> QED
  BY <1>1, Invariance, PTL

\* At most one provider call is in progress for an order.
THEOREM InitializationIsSerialized == Spec => []InitializationSerialized
<1>1. IInv => InitializationSerialized
  BY DEF IInv
<1> QED
  BY <1>1, Invariance, PTL

-----------------------------------------------------------------------------
(* What a step may never do                                                *)

LEMMA CancelledStays ==
  ASSUME IInv, [Next]_vars, NEW o \in Orders,
         orders[o].status \in {"cancelled", "payment_review"}
  PROVE  /\ orders'[o].status \in {"cancelled", "payment_review"}
         /\ orders'[o].fulfillment = "cancelled"
         /\ UNCHANGED <<qty[o], reserved[o], usage[o]>>
<1>1. /\ TypeOK /\ PaymentsWellFormed /\ FulfillmentBacked /\ OrdersWellFormed
  BY DEF IInv
<1>2. orders[o].fulfillment = "cancelled"
  BY <1>1 DEF OrdersWellFormed
<1>3. ASSUME NEW x \in Orders, NEW u \in Users, NEW k \in Keys,
             NEW c \in Coupons \cup {None}, Placed(x, u, k, c)
      PROVE  /\ orders'[o] = orders[o]
             /\ UNCHANGED <<qty[o], reserved[o], usage[o]>>
  BY <1>1, <1>3 DEF Placed, PlaceOrder, TypeOK
<1>4. ASSUME NEW x \in Orders, Released(x)
      PROVE  /\ orders'[o] = orders[o]
             /\ UNCHANGED <<qty[o], reserved[o], usage[o]>>
  BY <1>1, <1>4 DEF Released, Unpaid, ReleaseReservation, TypeOK
<1>5. ASSUME NEW x \in Orders, ReservationLapses(x)
      PROVE  /\ orders'[o].status = orders[o].status
             /\ orders'[o].fulfillment = orders[o].fulfillment
             /\ UNCHANGED <<qty[o], reserved[o], usage[o]>>
  BY <1>1, <1>5, LapseEffect DEF ReservationLapses, shop
<1>6. ASSUME NEW p \in Refs, FirstCharge(p)
      PROVE  /\ orders'[o].status \in {"cancelled", "payment_review"}
             /\ orders'[o].fulfillment = "cancelled"
             /\ UNCHANGED <<qty[o], reserved[o], usage[o]>>
  <2> DEFINE x == payments[p].order
  <2>1. x \in Orders /\ UNCHANGED <<qty, reserved, usage>>
    BY <1>1, <1>6, FirstChargeState DEF FirstCharge, shop
  <2>2. /\ \A y \in Orders \ {x} : orders'[y] = orders[y]
        /\ orders'[x].status = IF orders[x].status = "pending"
                                 THEN "processing" ELSE "payment_review"
        /\ orders[x].status # "pending"
             => orders'[x].fulfillment = orders[x].fulfillment
    BY <1>1, <1>6, <2>1, ChargeEffect DEF FirstCharge
  <2> HIDE DEF x
  <2> QED
    BY <1>2, <2>1, <2>2
<1> QED
  BY <1>1, <1>2, <1>3, <1>4, <1>5, <1>6, OrdersChange

\* No step resurrects a cancelled order into fulfillment.
THEOREM CancellationIsFinal == Spec => CancelledIsFinal
<1>1. IInv /\ [Next]_vars =>
        [\A o \in Orders : orders[o].status \in {"cancelled", "payment_review"} =>
           /\ orders'[o].status \in {"cancelled", "payment_review"}
           /\ orders'[o].fulfillment = "cancelled"
           /\ UNCHANGED <<qty[o], reserved[o], usage[o]>>]_vars
  BY CancelledStays
<1> QED
  BY <1>1, Invariance, PTL DEF Spec, CancelledIsFinal

LEMMA HeldStays ==
  ASSUME IInv, [Next]_vars, NEW o \in Orders, orders[o].status # "absent"
  PROVE  \/ UNCHANGED <<qty[o], reserved[o], usage[o]>>
         \/ Unpaid(o) /\ orders'[o].status = "cancelled"
<1>1. TypeOK
  BY DEF IInv
<1>2. ASSUME NEW x \in Orders, NEW u \in Users, NEW k \in Keys,
             NEW c \in Coupons \cup {None}, Placed(x, u, k, c)
      PROVE  UNCHANGED <<qty[o], reserved[o], usage[o]>>
  BY <1>1, <1>2 DEF Placed, PlaceOrder, TypeOK
<1>3. ASSUME NEW x \in Orders, Released(x)
      PROVE  \/ UNCHANGED <<qty[o], reserved[o], usage[o]>>
             \/ Unpaid(o) /\ orders'[o].status = "cancelled"
  <2>1. CASE x = o
    BY <1>1, <1>3, <2>1, ReleaseEffect DEF Released
  <2>2. CASE x # o
    BY <1>1, <1>3, <2>2, ReleaseEffect DEF Released, ReleaseReservation
  <2> QED
    BY <2>1, <2>2
<1>4. ASSUME NEW x \in Orders, ReservationLapses(x)
      PROVE  UNCHANGED <<qty[o], reserved[o], usage[o]>>
  BY <1>4 DEF ReservationLapses, shop
<1>5. ASSUME NEW p \in Refs, FirstCharge(p)
      PROVE  UNCHANGED <<qty[o], reserved[o], usage[o]>>
  BY <1>5 DEF FirstCharge, shop
<1> QED
  BY <1>1, <1>2, <1>3, <1>4, <1>5, OrdersChange

\* A placed order keeps its stock and coupon until it is cancelled unpaid.
THEOREM HoldingsStayUntilRelease == Spec => HeldUntilRelease
<1>1. IInv /\ [Next]_vars =>
        [\A o \in Orders : orders[o].status # "absent" =>
           \/ UNCHANGED <<qty[o], reserved[o], usage[o]>>
           \/ Unpaid(o) /\ orders'[o].status = "cancelled"]_vars
  BY HeldStays
<1> QED
  BY <1>1, Invariance, PTL DEF Spec, HeldUntilRelease

-----------------------------------------------------------------------------
(* Checkout implements OrderPromise                                        *)

\* A step that moves one order moves one promise.
LEMMA BarMoves ==
  ASSUME NEW o \in Orders, \A x \in Orders \ {o} : orders'[x] = orders[x]
  PROVE  /\ stateBar'[o] = CASE orders'[o].status = "absent" -> "absent"
                             [] orders'[o].status = "pending" -> "awaiting"
                             [] orders'[o].status = "processing" -> "confirmed"
                             [] orders'[o].status = "cancelled" -> "released"
                             [] OTHER -> "review"
         /\ stateBar' = [stateBar EXCEPT ![o] = stateBar'[o]]
BY DEF stateBar

LEMMA BarStays ==
  ASSUME \A x \in Orders : orders'[x].status = orders[x].status
  PROVE  stateBar' = stateBar
BY DEF stateBar

\* Who is charged changes only when a customer pays.
LEMMA ChargesStay ==
  ASSUME \A p \in Refs : provider[p] = "paid" =>
           /\ provider'[p] = "paid"
           /\ payments'[p].order = payments[p].order,
         \A p \in Refs : provider'[p] = "paid" => provider[p] = "paid"
  PROVE  chargedBar' = chargedBar
<1>1. \A o \in Orders : ChargesFor(o)' = ChargesFor(o)
  BY DEF ChargesFor, PaymentsOf
<1> QED
  BY <1>1 DEF chargedBar

LEMMA PromiseInitially == Init => Promise!PromiseInit
<1> SUFFICES ASSUME Init
             PROVE  Promise!PromiseInit
  OBVIOUS
<1>1. \A o \in Orders : orders[o].status = "absent" /\ ChargesFor(o) = {}
  BY DEF Init, NoOrder, ChargesFor, PaymentsOf
<1>2. stateBar = [o \in Orders |-> "absent"]
  BY <1>1 DEF stateBar
<1>3. chargedBar = [o \in Orders |-> FALSE]
  BY <1>1 DEF chargedBar
<1> QED
  BY <1>2, <1>3 DEF Promise!PromiseInit

LEMMA CallStepPromise ==
  ASSUME IInv, CallStep
  PROVE  [Promise!PromiseNext]_(Promise!promise)
<1>1. TypeOK /\ PaymentsWellFormed /\ FulfillmentBacked /\ RecordsTruthful
  BY DEF IInv
<1>2. stateBar' = stateBar
  BY BarStays DEF CallStep, books
<1>3. CASE chargedBar' = chargedBar
  BY <1>2, <1>3 DEF Promise!promise
<1>4. ASSUME NEW r \in Requests, NEW o \in Orders, InitiatePayment(r, o)
      PROVE  chargedBar' = chargedBar
  <2>1. PICK p \in Refs :
          /\ IF PaymentsOf(o) = {} THEN payments[p].order = None
                                   ELSE payments[p].order = o
          /\ payments[p].initializing = FALSE
          /\ payments[p].checkout_data = FALSE
          /\ \A z \in Refs \ {p} : payments'[z] = payments[z]
          /\ payments'[p].order = o
          /\ payments'[p].status = payments[p].status
          /\ payments'[p].checkout_data = FALSE
          /\ payments'[p].initializing = TRUE
          /\ \A y \in Requests \ {r} : requests'[y] = requests[y]
          /\ requests'[r].step = "calling"
          /\ requests'[r].ref = p
          /\ UNCHANGED <<orders, provider>>
    BY <1>1, <1>4, InitiateEffect
  <2>2. payments[p].order = None => provider[p] = "none"
    BY <1>1 DEF PaymentsWellFormed
  <2>3. \A q \in Refs : provider[q] = "paid" =>
          /\ provider'[q] = "paid"
          /\ payments'[q].order = payments[q].order
    BY <2>1, <2>2
  <2> QED
    BY <2>1, <2>3, ChargesStay
<1>5. ASSUME NEW r \in Requests, ProviderAccepts(r)
      PROVE  chargedBar' = chargedBar
  <2>1. \A q \in Refs : /\ provider'[q] = "paid" <=> provider[q] = "paid"
                        /\ payments'[q] = payments[q]
    BY <1>1, <1>5, AcceptEffect
  <2> QED
    BY <2>1, ChargesStay
<1>6. ASSUME NEW r \in Requests, InitSucceeds(r) \/ InitFails(r)
      PROVE  chargedBar' = chargedBar
  <2>1. /\ \A q \in Refs : payments'[q].order = payments[q].order
        /\ UNCHANGED provider
    BY <1>1, <1>6, EndEffect
  <2> QED
    BY <2>1, ChargesStay
<1>7. ASSUME NEW p \in Refs, LeaseLapses(p)
      PROVE  chargedBar' = chargedBar
  <2>1. /\ \A q \in Refs : payments'[q].order = payments[q].order
        /\ UNCHANGED provider
    BY <1>1, <1>7, LeaseEffect
  <2> QED
    BY <2>1, ChargesStay
<1>8. ASSUME NEW p \in Refs, CustomerPays(p)
      PROVE  Promise!PromiseNext
  <2>1. /\ provider[p] = "open"
        /\ provider'[p] = "paid"
        /\ \A q \in Refs \ {p} : provider'[q] = provider[q]
        /\ UNCHANGED payments
    BY <1>1, <1>8 DEF CustomerPays, TypeOK
  <2>2. PICK o \in Orders : /\ payments[p].order = o
                            /\ o # None
                            /\ orders[o].status # "absent"
                            /\ orders[o].payload \notin FreeCoupons
    BY <1>1, <2>1 DEF PaymentsWellFormed, TypeOK, PaymentRow
  <2>3. \A q \in PaymentsOf(o) : q = p
    BY <1>1, <2>2 DEF PaymentsOf, PaymentsWellFormed
  <2>4. ChargesFor(o) = {}
    BY <2>1, <2>3 DEF ChargesFor
  <2>5. ~orders[o].paid
    BY <1>1, <2>2, <2>4 DEF FulfillmentBacked
  <2>6. orders[o].status \in {"pending", "cancelled"}
    BY <1>1, <2>2, <2>5 DEF FulfillmentBacked, TypeOK, OrderRow, Statuses
  <2>7. stateBar[o] \in {"awaiting", "released"} /\ chargedBar[o] = FALSE
    BY <2>2, <2>4, <2>6 DEF stateBar, chargedBar
  <2>8. chargedBar' = [chargedBar EXCEPT ![o] = TRUE]
    <3>1. ChargesFor(o)' # {}
      BY <2>1, <2>2 DEF ChargesFor, PaymentsOf
    <3>2. \A x \in Orders \ {o} : ChargesFor(x)' = ChargesFor(x)
      BY <2>1, <2>2 DEF ChargesFor, PaymentsOf
    <3>3. /\ chargedBar'[o] = TRUE
          /\ \A x \in Orders \ {o} : chargedBar'[x] = chargedBar[x]
      BY <3>1, <3>2 DEF chargedBar
    <3>4. /\ chargedBar = [x \in Orders |-> chargedBar[x]]
          /\ chargedBar' = [x \in Orders |-> chargedBar'[x]]
      BY DEF chargedBar
    <3> HIDE DEF chargedBar
    <3> QED
      BY <3>3, <3>4
  <2> QED
    BY <1>2, <2>2, <2>7, <2>8 DEF Promise!PromiseNext, Promise!Charge
<1> QED
  BY <1>3, <1>4, <1>5, <1>6, <1>7, <1>8, CallCases

LEMMA PromiseStep ==
  ASSUME IInv, [Next]_vars
  PROVE  [Promise!PromiseNext]_(Promise!promise)
<1> USE DEF Promise!PromiseNext, Promise!Move
<1>1. TypeOK /\ PaymentsWellFormed /\ FulfillmentBacked
  BY DEF IInv
<1>2. ASSUME NEW o \in Orders, NEW u \in Users, NEW k \in Keys,
             NEW c \in Coupons \cup {None}, Placed(o, u, k, c)
      PROVE  Promise!Place(o)
  <2>1. /\ \A x \in Orders \ {o} : orders'[x] = orders[x]
        /\ orders[o].status = "absent"
        /\ orders'[o].status \in {"pending", "processing"}
    BY <1>1, <1>2, PlaceEffect DEF Placed
  <2>2. chargedBar' = chargedBar
    BY <1>2, ChargesStay DEF Placed
  <2>3. stateBar[o] = "absent" /\ stateBar'[o] \in {"awaiting", "confirmed"}
    BY <2>1, BarMoves DEF stateBar
  <2> QED
    BY <2>1, <2>2, <2>3, BarMoves DEF Promise!Place
<1>3. ASSUME NEW o \in Orders, Released(o)
      PROVE  Promise!Release(o)
  <2>1. /\ \A x \in Orders \ {o} : orders'[x] = orders[x]
        /\ orders[o].status = "pending"
        /\ orders'[o].status = "cancelled"
    BY <1>1, <1>3, ReleaseEffect DEF Released
  <2>2. chargedBar' = chargedBar
    BY <1>3, ChargesStay DEF Released, ReleaseReservation
  <2>3. stateBar[o] = "awaiting" /\ stateBar'[o] = "released"
    BY <2>1, BarMoves DEF stateBar
  <2> QED
    BY <2>1, <2>2, <2>3, BarMoves DEF Promise!Release
<1>4. ASSUME NEW o \in Orders, ReservationLapses(o)
      PROVE  UNCHANGED Promise!promise
  <2>1. \A x \in Orders : orders'[x].status = orders[x].status
    BY <1>1, <1>4, LapseEffect
  <2>2. chargedBar' = chargedBar
    BY <1>4, ChargesStay DEF ReservationLapses
  <2> QED
    BY <2>1, <2>2, BarStays DEF Promise!promise
<1>5. ASSUME NEW p \in Refs, FirstCharge(p)
      PROVE  \E o \in Orders : Promise!Confirm(o) \/ Promise!Review(o)
  <2> DEFINE o == payments[p].order
  <2>1. /\ o \in Orders
        /\ orders[o].status \in {"pending", "cancelled"}
    BY <1>1, <1>5, FirstChargeState
  <2>2. /\ \A x \in Orders \ {o} : orders'[x] = orders[x]
        /\ orders'[o].status = IF orders[o].status = "pending"
                                 THEN "processing" ELSE "payment_review"
        /\ \A q \in Refs \ {p} : payments'[q] = payments[q]
        /\ payments'[p].order = o
    BY <1>1, <1>5, <2>1, ChargeEffect DEF FirstCharge
  <2>3. chargedBar' = chargedBar
    <3>1. UNCHANGED provider /\ \A q \in Refs : payments'[q].order = payments[q].order
      BY <1>5, <2>2 DEF FirstCharge
    <3> QED
      BY <3>1, ChargesStay
  <2>4. chargedBar[o]
    <3>1. p \in ChargesFor(o)
      BY <1>5 DEF FirstCharge, ChargesFor, PaymentsOf
    <3> QED
      BY <2>1, <3>1 DEF chargedBar
  <2>5. \/ stateBar[o] = "awaiting" /\ stateBar'[o] = "confirmed"
        \/ stateBar[o] = "released" /\ stateBar'[o] = "review"
    BY <2>1, <2>2, BarMoves DEF stateBar
  <2>6. stateBar' = [stateBar EXCEPT ![o] = stateBar'[o]]
    BY <2>1, <2>2, BarMoves
  <2> HIDE DEF o
  <2> QED
    BY <2>1, <2>3, <2>4, <2>5, <2>6 DEF Promise!Confirm, Promise!Review
<1>6. CASE QuietStep
  <2>1. chargedBar' = chargedBar
    BY <1>6, ChargesStay DEF QuietStep
  <2> QED
    BY <1>6, <2>1, BarStays DEF QuietStep, books, Promise!promise
<1> QED
  BY <1>1, <1>2, <1>3, <1>4, <1>5, <1>6, CallStepPromise, StepCases

\* Every behaviour of checkout keeps the safety part of OrderPromise.
THEOREM CheckoutImplementsPromise == Spec => Promise!PromiseSpec
<1>1. IInv /\ [Next]_vars => [Promise!PromiseNext]_(Promise!promise)
  BY PromiseStep
<1> QED
  BY <1>1, PromiseInitially, Invariance, PTL DEF Spec, Promise!PromiseSpec
=============================================================================
