----------------------------- MODULE Fulfillment -----------------------------
(***************************************************************************)
(* What happens to a paid order: each vendor's fulfillment and shipment,   *)
(* the status of the parent order, a return, the customer's confirmation   *)
(* of a delivery and the payout it releases (order.model.js,               *)
(* shipment.model.js, return.model.js, payout.model.js and the services    *)
(* order-fulfillment.js and shipment.js).  One instance is one order: no   *)
(* transaction here touches two orders.                                    *)
(*                                                                         *)
(* Every write but those to the return and the payout holds the order's    *)
(* row lock, so each of them is one action.  The payout is read in one     *)
(* statement and updated, without a condition, in another.                 *)
(***************************************************************************)
EXTENDS Integers, FiniteSets

CONSTANTS
  Vendors,         \* vendors with products in the order
  Clients,         \* payout requests that can be in progress at once
  None

VARIABLES
  order,           \* orders.status
  fulfillments,    \* vendor_order_fulfillments.status
  payout_status,   \* vendor_order_fulfillments.payout_status
  shipments,       \* shipments.status, "none" before the shipment is created
  return,          \* the order's row of returns
  payouts,         \* vendor_payouts.status, "none" before the row is inserted
  clients          \* payout requests between their SELECT and their UPDATE

vars == <<order, fulfillments, payout_status, shipments, return, payouts, clients>>

-----------------------------------------------------------------------------
(* Statuses                                                                *)

progress == [pending |-> 0, processing |-> 1, awaiting_shipment |-> 2, packed |-> 3,
             shipped |-> 4, out_for_delivery |-> 5, delivered |-> 6]

Active == DOMAIN progress
Closed == {"cancelled", "returned", "refunded"}

ASSUME ConstantsAssumption ==
  /\ IsFiniteSet(Vendors) /\ Vendors # {}
  /\ None \notin Vendors \cup Active \cup Closed

validTransitions ==
  [pending           |-> {"processing", "cancelled"},
   processing        |-> {"awaiting_shipment", "cancelled"},
   awaiting_shipment |-> {"packed", "cancelled"},
   packed            |-> {"shipped", "cancelled"},
   shipped           |-> {"out_for_delivery", "delivered", "returned"},
   out_for_delivery  |-> {"delivered", "returned"},
   delivered         |-> {"returned"},
   cancelled         |-> {},
   returned          |-> {"refunded"},
   refunded          |-> {}]

shipmentTransitions ==
  [pending          |-> {"processing", "shipped", "cancelled"},
   processing       |-> {"shipped", "cancelled"},
   shipped          |-> {"in_transit", "out_for_delivery", "delivered", "failed", "returned"},
   in_transit       |-> {"out_for_delivery", "delivered", "failed", "returned"},
   out_for_delivery |-> {"delivered", "failed", "returned"},
   failed           |-> {"shipped", "in_transit", "out_for_delivery", "returned", "cancelled"},
   delivered        |-> {"returned"},
   returned         |-> {},
   cancelled        |-> {}]

ReturnStatuses == {"pending", "approved", "rejected", "awaiting_pickup", "item_received",
                   "processing", "completed", "cancelled"}
OpenReturn == ReturnStatuses \ {"rejected", "cancelled", "completed"}
NoReturn == [status |-> "none", vendor |-> None, type |-> None]
Idle == [op |-> "idle", vendor |-> None]

TypeOK ==
  /\ order \in (Active \cup Closed) \ {"pending"}
  /\ fulfillments \in [Vendors -> (Active \cup Closed) \ {"pending"}]
  /\ payout_status \in [Vendors -> {"held", "eligible", "disputed"}]
  /\ shipments \in [Vendors -> DOMAIN shipmentTransitions \cup {"none"}]
  /\ return \in {NoReturn} \cup
       [status : ReturnStatuses, vendor : Vendors, type : {"refund", "exchange"}]
  /\ payouts \in [Vendors -> {"none", "pending", "processing", "paid"}]
  /\ clients \in [Clients -> {Idle} \cup [op : {"process", "settle"}, vendor : Vendors]]

\* Settlement has just moved the order and its fulfillments to processing.
Init ==
  /\ order = "processing"
  /\ fulfillments = [v \in Vendors |-> "processing"]
  /\ payout_status = [v \in Vendors |-> "held"]
  /\ shipments = [v \in Vendors |-> "none"]
  /\ return = NoReturn
  /\ payouts = [v \in Vendors |-> "none"]
  /\ clients = [c \in Clients |-> Idle]

-----------------------------------------------------------------------------
(* Aggregation                                                             *)

LeastAdvanced(S) == CHOOSE s \in S : \A t \in S : progress[s] <= progress[t]

MostAdvanced(ful, fallback) ==                                   \* a mutant
  LET S == {ful[v] : v \in Vendors}
  IN IF S \cap Closed # {} THEN fallback
     ELSE CHOOSE s \in S : \A t \in S : progress[s] >= progress[t]
Aggregate(ful, fallback) ==
  LET S == {ful[v] : v \in Vendors}
  IN IF Cardinality(S) = 1 THEN CHOOSE s \in S : TRUE
     ELSE IF S \cap Closed # {} THEN fallback
     ELSE LeastAdvanced(S)

ShipmentProgress(s) ==
  CASE s \in {"pending", "processing"} -> "awaiting_shipment"
    [] s \in {"shipped", "in_transit"} -> "shipped"
    [] s \in {"out_for_delivery", "delivered", "returned"} -> s
    [] OTHER -> None

FollowShipment(current, next) ==                                 \* a mutant
  IF next = None THEN current ELSE next
Advance(current, next) ==
  IF next = "returned" THEN next
  ELSE IF next \in Active /\ current \in Active
    THEN IF progress[next] > progress[current] THEN next ELSE current
  ELSE current

\* syncOrder: every fulfillment catches up with its own shipment, then the order.
Synced(ships) ==
  IF order \in Closed THEN [order |-> order, ful |-> fulfillments]
  ELSE LET ful == [v \in Vendors |-> Advance(fulfillments[v], ShipmentProgress(ships[v]))]
           next == Aggregate(ful, order)
           unpacks == next = "awaiting_shipment" /\ order = "packed"
       IN [order |-> IF unpacks THEN order ELSE next, ful |-> ful]

-----------------------------------------------------------------------------
(* Vendors                                                                 *)

paid == <<payout_status, payouts, clients>>

\* Order.updateOrderStatus
UpdateOrderStatus(v, status) ==
  /\ order \notin {"cancelled", "refunded"}
  /\ status \in validTransitions[fulfillments[v]]
  /\ fulfillments' = [fulfillments EXCEPT ![v] = status]
  /\ order' = Aggregate(fulfillments', order)
  /\ UNCHANGED <<shipments, return, paid>>

CreateShipment(v) ==
  /\ order \in {"processing", "awaiting_shipment", "packed", "shipped", "out_for_delivery"}
  /\ shipments[v] = "none"
  /\ shipments' = [shipments EXCEPT ![v] = "pending"]
  /\ order' = Synced(shipments').order
  /\ fulfillments' = Synced(shipments').ful
  /\ UNCHANGED <<return, paid>>

\* An update without a new status changes no status.
UpdateShipment(v, status) ==
  /\ order \notin {"cancelled", "refunded"}
  /\ shipments[v] # "none"
  /\ status \in shipmentTransitions[shipments[v]]
  /\ shipments' = [shipments EXCEPT ![v] = status]
  /\ order' = Synced(shipments').order
  /\ fulfillments' = Synced(shipments').ful
  /\ UNCHANGED <<return, paid>>

-----------------------------------------------------------------------------
(* Returns and confirmations                                               *)

ReturnHeldOnly(v, type) ==                                       \* a mutant
  /\ order \in {"delivered", "shipped"}
  /\ return = NoReturn
  /\ return' = [status |-> "pending", vendor |-> v, type |-> type]
  /\ payout_status' = [payout_status EXCEPT ![v] = IF @ = "held" THEN "disputed" ELSE @]
  /\ order' = IF Vendors = {v} THEN "returned" ELSE order
  /\ UNCHANGED <<fulfillments, shipments, payouts, clients>>
\* One return per order, ever; of a single-vendor order it closes the order.
CreateReturnRequest(v, type) ==
  /\ order \in {"delivered", "shipped"}
  /\ return = NoReturn
  /\ return' = [status |-> "pending", vendor |-> v, type |-> type]
  /\ payout_status' = [payout_status EXCEPT ![v] = "disputed"]
  /\ order' = IF Vendors = {v} THEN "returned" ELSE order
  /\ UNCHANGED <<fulfillments, shipments, payouts, clients>>

\* Any status may follow any other: a closed return can be opened again.
SetReturn(status) ==
  /\ return # NoReturn
  /\ return.status # status
  /\ return' = [return EXCEPT !.status = status]
  /\ UNCHANGED <<order, fulfillments, shipments, paid>>

\* Approving a refund calls Payment.processRefund, which always throws, and the
\* transaction is rolled back.
UpdateReturnStatus(status) ==
  /\ ~(status = "approved" /\ return.type = "refund")
  /\ SetReturn(status)

AdminUpdateReturn(status) == SetReturn(status)

ActiveReturn(v) == return.vendor = v /\ return.status \in OpenReturn

\* A delivery that is confirmed already is confirmed again without effect.
ConfirmVendorDelivery(v) ==
  /\ payout_status[v] # "eligible"
  /\ fulfillments[v] = "delivered"
  /\ shipments[v] = "delivered"
  /\ ~ActiveReturn(v)
  /\ payout_status' = [payout_status EXCEPT ![v] = "eligible"]
  /\ payouts' = [payouts EXCEPT ![v] = IF @ = "none" THEN "pending" ELSE @]
  /\ UNCHANGED <<order, fulfillments, shipments, return, clients>>

-----------------------------------------------------------------------------
(* Payouts                                                                 *)

Read(c, v, op, expected) ==
  /\ clients[c] = Idle
  /\ payouts[v] = expected
  /\ clients' = [clients EXCEPT ![c] = [op |-> op, vendor |-> v]]
  /\ UNCHANGED <<order, fulfillments, payout_status, shipments, return, payouts>>

Write(c, op, status) ==
  /\ clients[c].op = op
  /\ payouts' = [payouts EXCEPT ![clients[c].vendor] = status]
  /\ clients' = [clients EXCEPT ![c] = Idle]
  /\ UNCHANGED <<order, fulfillments, payout_status, shipments, return>>

ReadPending(c, v) == Read(c, v, "process", "pending")
ProcessPending(c) == Write(c, "process", "processing")
ReadProcessing(c, v) == Read(c, v, "settle", "processing")
SettlePaid(c) == Write(c, "settle", "paid")

-----------------------------------------------------------------------------
VendorStep ==
  \E v \in Vendors :
    \/ \E status \in Active \cup Closed : UpdateOrderStatus(v, status)
    \/ CreateShipment(v)
    \/ \E status \in DOMAIN shipmentTransitions : UpdateShipment(v, status)

ReturnStep ==
  \/ \E v \in Vendors, type \in {"refund", "exchange"} : CreateReturnRequest(v, type)
  \/ \E status \in ReturnStatuses : UpdateReturnStatus(status) \/ AdminUpdateReturn(status)

PayoutStep ==
  \/ \E v \in Vendors : ConfirmVendorDelivery(v)
  \/ \E c \in Clients, v \in Vendors : ReadPending(c, v) \/ ReadProcessing(c, v)
  \/ \E c \in Clients : ProcessPending(c) \/ SettlePaid(c)

Next == VendorStep \/ ReturnStep \/ PayoutStep

Spec == Init /\ [][Next]_vars

-----------------------------------------------------------------------------
(* Properties                                                              *)

\* While every vendor's part is under way, the parent order shows the least
\* advanced one, whichever of status updates and shipments moved it there.
ParentIsLeastAdvanced ==
  /\ \A v \in Vendors : fulfillments[v] \in Active
  /\ order # "returned"
  => order = LeastAdvanced({fulfillments[v] : v \in Vendors})

\* No fulfillment lags behind its shipment, except in an order frozen by a return.
FulfillmentFollowsShipment ==
  return = NoReturn =>
    \A v \in Vendors :
      LET shown == ShipmentProgress(shipments[v])
      IN fulfillments[v] \in Active =>
           /\ shown # "returned"
           /\ shown \in Active => progress[shown] <= progress[fulfillments[v]]

\* The order becomes delivered only when all its parts are.
DeliveredByAll ==
  [][order # "delivered" /\ order' = "delivered" =>
       \A v \in Vendors : fulfillments'[v] = "delivered"]_vars

\* A return request has closed an order of one vendor before its part was closed,
\* and the vendor's next status opens it again: updateOrderStatus turns away
\* cancelled and refunded orders but not returned ones, as syncOrder does.
Reopens ==
  /\ order = "returned"
  /\ \E v \in Vendors :
       /\ Vendors = {v} /\ return # NoReturn /\ return.vendor = v
       /\ fulfillments[v] \in Active
       /\ order' = fulfillments'[v]

\* Nothing undoes progress ("creating a pending shipment should not undo"
\* packing), a part that is closed stays closed, and so does the order, with one
\* exception: a return request of an order of one vendor does not last (Reopens).
NeverUndone ==
  [][/\ order \in Active /\ order' \in Active => progress[order] <= progress[order']
     /\ order \in {"cancelled", "refunded"} => order' = order
     /\ order \in Closed /\ order' \notin Closed => Reopens
     /\ \A v \in Vendors :
          /\ fulfillments[v] \in Closed => fulfillments'[v] \in Closed
          /\ fulfillments[v] \in Active /\ fulfillments'[v] \in Active =>
               progress[fulfillments[v]] <= progress[fulfillments'[v]]]_vars

\* An open return disputes the payout of its vendor, whether it is created after
\* the confirmation or before it; only a closed return that is opened again
\* (updateReturnStatus admits it) leaves an eligible payout as it is.
ReturnDisputesPayout ==
  [][\A v \in Vendors : ActiveReturn(v)' /\ payout_status'[v] # "disputed" =>
       \/ ActiveReturn(v) /\ payout_status[v] # "disputed"
       \/ return.vendor = v /\ return.status \in ReturnStatuses \ OpenReturn]_vars

\* Every payout stems from a confirmation, which only a dispute can overrule.
PayoutsConfirmed ==
  \A v \in Vendors :
    /\ payouts[v] # "none" => payout_status[v] \in {"eligible", "disputed"}
    /\ payout_status[v] = "eligible" => payouts[v] # "none"

\* Order, parts, shipments and payouts agree at every moment.
PartsAgree ==
  TypeOK /\ ParentIsLeastAdvanced /\ FulfillmentFollowsShipment /\ PayoutsConfirmed

\* "Only pending payouts can be processed": what is paid stays paid.  Two requests
\* at a time break it.
PaidIsFinal ==
  [][\A v \in Vendors : payouts[v] = "paid" => payouts'[v] = "paid"]_vars

\* What is left of it: a payout that is paid, and that no process request still in
\* progress has read as pending, is paid for good, whatever is requested later.
PaidOut(v) ==
  /\ payouts[v] = "paid"
  /\ \A c \in Clients : clients[c] # [op |-> "process", vendor |-> v]

PaidForGood ==
  [][\A v \in Vendors : PaidOut(v) => PaidOut(v)']_vars

\* A return request closes the order it is made of until the items are back.  The
\* order of one vendor breaks it (Reopens).
ReturnedIsKept ==
  [][order = "returned" => order' \in Closed]_vars

\* The parent order "reflects the least-advanced active vendor fulfillment".
ParentReflectsActive ==
  LET active == {fulfillments[v] : v \in Vendors} \cap Active
  IN active # {} /\ return = NoReturn => order = LeastAdvanced(active)

\* "Shipment updates advance only the matching vendor fulfillment."
OnlyOwnFulfillment ==
  [][\A v, w \in Vendors :
       v # w /\ shipments'[v] # shipments[v] => fulfillments'[w] = fulfillments[w]]_vars

\* What becomes of it: the shipment update of one vendor moves the part of another
\* only from cancelled or refunded to returned, as its own shipment was returned.
OthersFollowOnlyTheirReturn ==
  [][\A v, w \in Vendors :
       v # w /\ shipments'[v] # shipments[v] =>
         \/ fulfillments'[w] = fulfillments[w]
         \/ /\ fulfillments[w] \in {"cancelled", "refunded"}
            /\ shipments[w] = "returned"
            /\ fulfillments'[w] = "returned"]_vars
=============================================================================
