---------------------------- MODULE DeliveryProofs ----------------------------
(***************************************************************************)
(* Proofs about what follows a payment: the goods (Fulfillment), and the   *)
(* events and mails in the work queues (DurableQueue).  The two have no    *)
(* variable in common, and no step of one is a step of the other.          *)
(*                                                                         *)
(* Fulfillment, for any number of vendors: the parent order, its parts,    *)
(* the shipments and the payouts agree at every moment (PartsAgree), an    *)
(* order is delivered by all of its vendors (DeliveredByAll), nothing is   *)
(* undone but the return of an order of one vendor (NeverUndone), an open  *)
(* return disputes the payout of its vendor (ReturnDisputesPayout), the    *)
(* shipments of one vendor leave the parts of the others as they are, but  *)
(* for parts that were closed and came back (OthersFollowOnlyTheirReturn), *)
(* and a payout is paid for good once no request is left that read it as   *)
(* pending (PaidForGood).                                                  *)
(*                                                                         *)
(* DurableQueue, for any rows, workers, lengths of leases and batches and  *)
(* number of faults: a row is in one hand while its lease holds, done      *)
(* means delivered, repetitions cost a fault each, nothing is given up     *)
(* early (RowsSafe), and what is settled stays so (SettledIsFinal).        *)
(***************************************************************************)
EXTENDS Fulfillment, DurableQueue, FiniteSetTheorems, WellFoundedInduction, TLAPS

-----------------------------------------------------------------------------
(* Fulfillment                                                             *)

Status == (Active \cup Closed) \ {"pending"}

\* The order of the statuses, as numbers (order.model.js).
LEMMA Progress ==
  /\ Active = {"pending", "processing", "awaiting_shipment", "packed", "shipped",
               "out_for_delivery", "delivered"}
  /\ progress \in [Active -> 0 .. 6]
  /\ progress["pending"] = 0 /\ progress["processing"] = 1
  /\ progress["awaiting_shipment"] = 2 /\ progress["packed"] = 3
  /\ progress["shipped"] = 4 /\ progress["out_for_delivery"] = 5
  /\ progress["delivered"] = 6
  BY DEF Active, progress

\* Two statuses of equal progress are the same.
LEMMA ProgressInjective ==
  ASSUME NEW s \in Active, NEW t \in Active, progress[s] = progress[t]
  PROVE  s = t
  BY Progress

\* What LeastAdvanced returns.
LEMMA LeastAdvancedIn ==
  ASSUME NEW S \in SUBSET Active, S # {}
  PROVE  /\ LeastAdvanced(S) \in S
         /\ \A t \in S : progress[LeastAdvanced(S)] <= progress[t]
<1>1. \E s \in S : \A t \in S : progress[s] <= progress[t]
  <2>1. CASE "pending" \in S \/ "processing" \in S
    BY <2>1, Progress
  <2>2. CASE S \cap {"pending", "processing"} = {} /\ "awaiting_shipment" \in S
    BY <2>2, Progress
  <2>3. CASE S \cap {"pending", "processing", "awaiting_shipment"} = {} /\ "packed" \in S
    BY <2>3, Progress
  <2>4. CASE S \subseteq {"shipped", "out_for_delivery", "delivered"}
    <3>1. S \subseteq {"delivered"} \/ "shipped" \in S \/ "out_for_delivery" \in S
      BY <2>4
    <3>2. CASE "shipped" \in S
      BY <2>4, <3>2, Progress
    <3>3. CASE "shipped" \notin S /\ "out_for_delivery" \in S
      <4>1. S \subseteq {"out_for_delivery", "delivered"}
        BY <2>4, <3>3
      <4> QED
        BY <3>3, <4>1, Progress
    <3>4. CASE S \subseteq {"delivered"}
      <4>1. S = {"delivered"}
        BY <3>4
      <4> QED
        BY <4>1, Progress
    <3> QED
      BY <3>1, <3>2, <3>3, <3>4
  <2>5. \A s \in S : s \in {"pending", "processing", "awaiting_shipment", "packed",
                            "shipped", "out_for_delivery", "delivered"}
    BY Progress
  <2> QED
    BY <2>1, <2>2, <2>3, <2>4, <2>5
<1> QED
  BY <1>1 DEF LeastAdvanced

\* What Aggregate returns: the common status, or the fallback, or the least.
LEMMA AggregateCases ==
  ASSUME NEW ful \in [Vendors -> Active \cup Closed], NEW fallback
  PROVE  LET next == Aggregate(ful, fallback)
         IN \/ \A v \in Vendors : ful[v] = next
            \/ /\ \E v \in Vendors : ful[v] \in Closed
               /\ next = fallback
            \/ /\ \A v \in Vendors : ful[v] \in Active
               /\ next = LeastAdvanced({ful[v] : v \in Vendors})
<1> DEFINE S == {ful[v] : v \in Vendors}
<1>1. CASE Cardinality(S) = 1
  <2>1. \E s : S = {s}
    <3>1. IsFiniteSet(S)
      <4>1. ful \in Surjection(Vendors, S)
        BY DEF Surjection
      <4>2. IsFiniteSet(Vendors)
        BY ConstantsAssumption
      <4> QED
        BY <4>1, <4>2, FS_Surjection
    <3> QED
      BY <1>1, <3>1, FS_Singleton
  <2>2. Aggregate(ful, fallback) = CHOOSE s \in S : TRUE
    BY <1>1 DEF Aggregate
  <2> HIDE DEF S
  <2>3. \A s \in S : s = Aggregate(ful, fallback)
    BY <2>1, <2>2
  <2> QED
    BY <2>3 DEF S
<1>2. CASE Cardinality(S) # 1 /\ S \cap Closed # {}
  BY <1>2 DEF Aggregate
<1>3. CASE Cardinality(S) # 1 /\ S \cap Closed = {}
  BY <1>3 DEF Aggregate
<1> QED
  BY <1>1, <1>2, <1>3

\* Aggregate keeps to the statuses that an order can show.
LEMMA AggregateStatus ==
  ASSUME NEW ful \in [Vendors -> Status], NEW fallback \in Status
  PROVE  Aggregate(ful, fallback) \in Status
<1> DEFINE next == Aggregate(ful, fallback)
<1>1. ful \in [Vendors -> Active \cup Closed]
  BY DEF Status
<1>2. CASE \A v \in Vendors : ful[v] = next
  BY <1>2, ConstantsAssumption
<1>3. CASE next = fallback
  BY <1>3
<1>4. CASE /\ \A v \in Vendors : ful[v] \in Active
           /\ next = LeastAdvanced({ful[v] : v \in Vendors})
  <2>1. /\ {ful[v] : v \in Vendors} \in SUBSET Active
        /\ {ful[v] : v \in Vendors} # {}
    BY <1>4, ConstantsAssumption
  <2>2. LeastAdvanced({ful[v] : v \in Vendors}) \in {ful[v] : v \in Vendors}
    BY <2>1, LeastAdvancedIn
  <2> QED
    BY <1>4, <2>2
<1> QED
  BY <1>1, <1>2, <1>3, <1>4, AggregateCases

\* The least advanced of parts under way, related to each part.
LEMMA LeastOfParts ==
  ASSUME NEW ful \in [Vendors -> Active]
  PROVE  LET least == LeastAdvanced({ful[v] : v \in Vendors})
         IN /\ least \in Active
            /\ \E v \in Vendors : ful[v] = least
            /\ \A v \in Vendors : progress[least] <= progress[ful[v]]
<1>1. {ful[v] : v \in Vendors} \in SUBSET Active /\ {ful[v] : v \in Vendors} # {}
  BY ConstantsAssumption
<1> QED
  BY <1>1, LeastAdvancedIn

\* Parts under way aggregate to the least advanced one, whatever the fallback.
LEMMA AggregateActive ==
  ASSUME NEW ful \in [Vendors -> Active], NEW fallback
  PROVE  Aggregate(ful, fallback) = LeastAdvanced({ful[v] : v \in Vendors})
<1> DEFINE next == Aggregate(ful, fallback)
           least == LeastAdvanced({ful[v] : v \in Vendors})
<1>1. Active \cap Closed = {} /\ ful \in [Vendors -> Active \cup Closed]
  BY Progress DEF Closed
<1>2. CASE \A v \in Vendors : ful[v] = next
  BY <1>2, LeastOfParts
<1> QED
  BY <1>1, <1>2, AggregateCases

\* A part that follows its shipment never falls back, and ends closed or no
\* further behind than the shipment (progressFulfillmentForShipment).
LEMMA Advances ==
  ASSUME NEW s \in Status, NEW next
  PROVE  LET now == Advance(s, next)
         IN /\ now \in Status
            /\ s \in Closed => now \in Closed
            /\ now \in Active => /\ s \in Active
                                 /\ progress[s] <= progress[now]
                                 /\ next # "returned"
                                 /\ next \in Active => progress[next] <= progress[now]
  BY Progress DEF Advance, Status, Closed

\* A vendor moves its part forward or closes it (validTransitions).
LEMMA Transitions ==
  ASSUME NEW s \in Status, NEW t \in validTransitions[s]
  PROVE  /\ t \in Status
         /\ s \in Closed => t \in Closed
         /\ t \in Active => s \in Active /\ progress[s] <= progress[t]
  BY Progress DEF validTransitions, Status, Closed

-----------------------------------------------------------------------------
(* The inductive invariant                                                 *)

\* Until a return freezes it, an order is closed with its parts only.
ClosedTogether ==
  order \in Closed /\ return = NoReturn => \A v \in Vendors : fulfillments[v] \in Closed

\* A payout request has read a row of vendor_payouts, which no one deletes.
RowsRead ==
  \A c \in Clients : clients[c] # Idle => payouts[clients[c].vendor] # "none"

FulfillmentInv == PartsAgree /\ ClosedTogether /\ RowsRead

\* From the status old to new, a part moves forward or closes.
Onward(old, new) ==
  /\ old \in Closed => new \in Closed
  /\ new \in Active => old \in Active /\ progress[old] <= progress[new]

LEMMA Types ==
  ASSUME TypeOK
  PROVE  /\ order \in Status /\ fulfillments \in [Vendors -> Status]
         /\ Status = {"processing", "awaiting_shipment", "packed", "shipped",
                      "out_for_delivery", "delivered", "cancelled", "returned", "refunded"}
         /\ Active \cap Closed = {} /\ Status \subseteq Active \cup Closed
  BY Progress DEF TypeOK, Status, Closed

LEMMA InitInv ==
  ASSUME Init
  PROVE  FulfillmentInv
<1>1. TypeOK
  BY Progress DEF Init, TypeOK, shipmentTransitions, Closed
<1>2. fulfillments \in [Vendors -> Active] /\ order = "processing"
  BY Progress DEF Init
<1>3. ParentIsLeastAdvanced
  BY <1>2, LeastOfParts DEF Init, ParentIsLeastAdvanced
<1>4. FulfillmentFollowsShipment
  <2>1. ShipmentProgress("none") = None
    BY DEF ShipmentProgress
  <2> QED
    BY <2>1, ConstantsAssumption DEF Init, FulfillmentFollowsShipment, Closed
<1>5. PayoutsConfirmed /\ ClosedTogether /\ RowsRead
  BY Progress DEF Init, PayoutsConfirmed, ClosedTogether, RowsRead, Closed
<1> QED
  BY <1>1, <1>3, <1>4, <1>5 DEF FulfillmentInv, PartsAgree

\* Where parts move onward, the order that aggregates them moves onward too.
LEMMA PartsMove ==
  ASSUME FulfillmentInv,
         NEW ful \in [Vendors -> Status],
         \A v \in Vendors : Onward(fulfillments[v], ful[v])
  PROVE  LET next == Aggregate(ful, order)
         IN /\ next \in Status
            /\ (\A v \in Vendors : ful[v] \in Active) =>
                 next = LeastAdvanced({ful[v] : v \in Vendors})
            /\ next \in Closed /\ return = NoReturn => \A v \in Vendors : ful[v] \in Closed
            /\ order \in Active /\ next \in Active => progress[order] <= progress[next]
            /\ order # "delivered" /\ next = "delivered" =>
                 \A v \in Vendors : ful[v] = "delivered"
<1> DEFINE next == Aggregate(ful, order)
<1>1. /\ TypeOK /\ ParentIsLeastAdvanced /\ ClosedTogether
      /\ order \in Status /\ fulfillments \in [Vendors -> Status]
      /\ ful \in [Vendors -> Active \cup Closed] /\ Active \cap Closed = {}
  BY Types DEF FulfillmentInv, PartsAgree
<1>2. next \in Status
  BY <1>1, AggregateStatus
<1>3. (\A v \in Vendors : ful[v] \in Active) =>
         next = LeastAdvanced({ful[v] : v \in Vendors})
  BY AggregateActive
<1>a. (\A v \in Vendors : ful[v] \in Active) => ful \in [Vendors -> Active]
  OBVIOUS
<1>4. \/ \A v \in Vendors : ful[v] = next
      \/ next = order /\ \E v \in Vendors : ful[v] \in Closed
      \/ /\ \A v \in Vendors : ful[v] \in Active
         /\ next \in Active
         /\ \E v \in Vendors : ful[v] = next
         /\ \A v \in Vendors : progress[next] <= progress[ful[v]]
  BY <1>1, <1>a, AggregateCases, LeastOfParts
<1> HIDE DEF next
<1>5. next \in Closed /\ return = NoReturn => \A v \in Vendors : ful[v] \in Closed
  BY <1>1, <1>4 DEF ClosedTogether, Onward
<1>6. ASSUME order \in Active, next \in Active
      PROVE  progress[order] <= progress[next]
  <2>1. CASE next = order
    BY <1>6, <2>1, Progress
  <2>2. CASE (\A v \in Vendors : ful[v] \in Active) /\ \E v \in Vendors : ful[v] = next
    <3>1. \A v \in Vendors : fulfillments[v] \in Active
      BY <2>2 DEF Onward
    <3>2. order = LeastAdvanced({fulfillments[v] : v \in Vendors})
      BY <1>1, <1>6, <3>1, Progress DEF ParentIsLeastAdvanced
    <3>3. \A v \in Vendors : progress[order] <= progress[fulfillments[v]]
      BY <1>1, <3>1, <3>2, LeastOfParts
    <3>4. PICK v \in Vendors : ful[v] = next
      BY <2>2
    <3>5. /\ progress[fulfillments[v]] <= progress[next]
          /\ progress[order] <= progress[fulfillments[v]]
      BY <1>6, <3>3, <3>4 DEF Onward
    <3>6. /\ progress[order] \in Int /\ progress[next] \in Int
          /\ progress[fulfillments[v]] \in Int
      BY <1>6, <3>1, Progress
    <3> QED
      BY <3>5, <3>6
  <2>3. (\A v \in Vendors : ful[v] = next) => \E v \in Vendors : ful[v] = next
    BY ConstantsAssumption
  <2> QED
    BY <1>4, <1>6, <2>1, <2>2, <2>3
<1>7. ASSUME order # "delivered", next = "delivered"
      PROVE  \A v \in Vendors : ful[v] = "delivered"
  <2>1. CASE /\ \A v \in Vendors : ful[v] \in Active
             /\ \A v \in Vendors : progress[next] <= progress[ful[v]]
    BY <1>7, <2>1, Progress
  <2> QED
    BY <1>4, <1>7, <2>1
<1> QED
  BY <1>2, <1>3, <1>5, <1>6, <1>7 DEF next

\* What a shipment update makes of the order and its parts.  In particular the
\* order is never unpacked: syncOrder's guard against that is never needed.
LEMMA Syncs ==
  ASSUME FulfillmentInv, NEW ships, order \notin {"cancelled", "refunded"}
  PROVE  LET ful == Synced(ships).ful
             next == Synced(ships).order
         IN /\ ful \in [Vendors -> Status] /\ next \in Status
            /\ \A v \in Vendors : Onward(fulfillments[v], ful[v])
            /\ (\A v \in Vendors : ful[v] \in Active) /\ next # "returned" =>
                 next = LeastAdvanced({ful[v] : v \in Vendors})
            /\ next \in Closed /\ return = NoReturn => \A v \in Vendors : ful[v] \in Closed
            /\ order \in Active /\ next \in Active => progress[order] <= progress[next]
            /\ order # "delivered" /\ next = "delivered" =>
                 \A v \in Vendors : ful[v] = "delivered"
            /\ return = NoReturn => \A v \in Vendors :
                 LET shown == ShipmentProgress(ships[v])
                 IN ful[v] \in Active =>
                      /\ shown # "returned"
                      /\ shown \in Active => progress[shown] <= progress[ful[v]]
<1>1. /\ TypeOK /\ ClosedTogether /\ order \in Status /\ fulfillments \in [Vendors -> Status]
      /\ Active \cap Closed = {} /\ Status \subseteq Active \cup Closed
  BY Types DEF FulfillmentInv, PartsAgree
<1>2. CASE order \in Closed
  <2>1. order = "returned"
    BY <1>2 DEF Closed
  <2>2. Synced(ships).order = order /\ Synced(ships).ful = fulfillments
    BY <1>2 DEF Synced
  <2>3. \A v \in Vendors : Onward(fulfillments[v], fulfillments[v])
    BY <1>1, Progress DEF Onward
  <2>4. return = NoReturn => \A v \in Vendors : fulfillments[v] \in Closed
    BY <1>1, <1>2 DEF ClosedTogether
  <2> QED
    BY <1>1, <1>2, <2>1, <2>2, <2>3, <2>4
<1>3. CASE order \notin Closed
  <2> DEFINE ful == [v \in Vendors |-> Advance(fulfillments[v], ShipmentProgress(ships[v]))]
             next == Aggregate(ful, order)
  <2>1. /\ ful \in [Vendors -> Status]
        /\ \A v \in Vendors : Onward(fulfillments[v], ful[v])
        /\ \A v \in Vendors :
             LET shown == ShipmentProgress(ships[v])
             IN ful[v] \in Active =>
                  /\ shown # "returned"
                  /\ shown \in Active => progress[shown] <= progress[ful[v]]
    BY <1>1, Advances DEF Onward
  <2>2. Synced(ships).ful = ful
    BY <1>3 DEF Synced
  <2>3. /\ next \in Status
        /\ (\A v \in Vendors : ful[v] \in Active) =>
             next = LeastAdvanced({ful[v] : v \in Vendors})
        /\ next \in Closed /\ return = NoReturn => \A v \in Vendors : ful[v] \in Closed
        /\ order \in Active /\ next \in Active => progress[order] <= progress[next]
        /\ order # "delivered" /\ next = "delivered" =>
             \A v \in Vendors : ful[v] = "delivered"
    <3> HIDE DEF ful
    <3> QED
      BY <2>1, PartsMove
  <2>4. Synced(ships).order = IF next = "awaiting_shipment" /\ order = "packed"
                                THEN order ELSE next
    BY <1>3 DEF Synced
  <2>5. ~(next = "awaiting_shipment" /\ order = "packed")
    BY <2>3, Progress
  <2> HIDE DEF ful, next
  <2>6. Synced(ships).order = next
    BY <2>4, <2>5
  <2> QED
    BY <2>1, <2>2, <2>3, <2>6
<1> QED
  BY <1>2, <1>3

-----------------------------------------------------------------------------
(* Every step preserves it                                                 *)

\* A part that a vendor moves moves onward, and takes the order with it.
LEMMA UpdateOrderStatusMoves ==
  ASSUME FulfillmentInv, NEW v \in Vendors, NEW status, UpdateOrderStatus(v, status)
  PROVE  /\ fulfillments' \in [Vendors -> Status]
         /\ \A w \in Vendors : Onward(fulfillments[w], fulfillments'[w])
         /\ order' = Aggregate(fulfillments', order)
<1>1. fulfillments \in [Vendors -> Status] /\ Status \subseteq Active \cup Closed
      /\ Active \cap Closed = {}
  BY Types DEF FulfillmentInv, PartsAgree
<1>2. status \in Status /\ Onward(fulfillments[v], status)
  BY <1>1, Transitions DEF UpdateOrderStatus, Onward
<1>3. \A s \in Status : Onward(s, s)
  BY <1>1, Progress DEF Onward
<1> QED
  BY <1>1, <1>2, <1>3 DEF UpdateOrderStatus

LEMMA UpdateOrderStatusInv ==
  ASSUME FulfillmentInv, NEW v \in Vendors, NEW status, UpdateOrderStatus(v, status)
  PROVE  FulfillmentInv'
<1>1. /\ fulfillments' \in [Vendors -> Status] /\ order' \in Status
      /\ \A w \in Vendors : Onward(fulfillments[w], fulfillments'[w])
      /\ (\A w \in Vendors : fulfillments'[w] \in Active) =>
           order' = LeastAdvanced({fulfillments'[w] : w \in Vendors})
      /\ order' \in Closed /\ return = NoReturn =>
           \A w \in Vendors : fulfillments'[w] \in Closed
  BY UpdateOrderStatusMoves, PartsMove
<1>2. UNCHANGED <<shipments, return, payout_status, payouts, clients>>
  BY DEF UpdateOrderStatus, paid
<1>3. TypeOK'
  BY <1>1, <1>2 DEF FulfillmentInv, PartsAgree, TypeOK, Status
<1>4. ParentIsLeastAdvanced' /\ ClosedTogether'
  BY <1>1, <1>2 DEF ParentIsLeastAdvanced, ClosedTogether
<1>5. FulfillmentFollowsShipment'
  <2>1. FulfillmentFollowsShipment /\ fulfillments \in [Vendors -> Status]
    BY Types DEF FulfillmentInv, PartsAgree
  <2>2. ASSUME NEW w \in Vendors, fulfillments'[w] \in Active, return = NoReturn
        PROVE  LET shown == ShipmentProgress(shipments[w])
               IN /\ shown # "returned"
                  /\ shown \in Active => progress[shown] <= progress[fulfillments'[w]]
    <3>1. /\ fulfillments[w] \in Active
          /\ progress[fulfillments[w]] <= progress[fulfillments'[w]]
      BY <1>1, <2>2 DEF Onward
    <3>2. /\ ShipmentProgress(shipments[w]) # "returned"
          /\ ShipmentProgress(shipments[w]) \in Active =>
               progress[ShipmentProgress(shipments[w])] <= progress[fulfillments[w]]
      BY <2>1, <2>2, <3>1 DEF FulfillmentFollowsShipment
    <3> QED
      BY <2>2, <3>1, <3>2, Progress
  <2> QED
    BY <1>2, <2>2 DEF FulfillmentFollowsShipment
<1>6. PayoutsConfirmed' /\ RowsRead'
  BY <1>2 DEF FulfillmentInv, PartsAgree, PayoutsConfirmed, RowsRead
<1> QED
  BY <1>3, <1>4, <1>5, <1>6 DEF FulfillmentInv, PartsAgree

\* A shipment that is created or updated.
LEMMA ShipmentInv ==
  ASSUME FulfillmentInv, NEW v \in Vendors, NEW status,
         CreateShipment(v) \/ UpdateShipment(v, status)
  PROVE  FulfillmentInv'
<1>1. /\ order \notin {"cancelled", "refunded"}
      /\ order' = Synced(shipments').order /\ fulfillments' = Synced(shipments').ful
      /\ UNCHANGED <<return, payout_status, payouts, clients>>
  BY DEF CreateShipment, UpdateShipment, paid
<1> DEFINE ful == fulfillments'
           next == order'
<1>2. /\ ful \in [Vendors -> Status] /\ next \in Status
      /\ (\A w \in Vendors : ful[w] \in Active) /\ next # "returned" =>
           next = LeastAdvanced({ful[w] : w \in Vendors})
      /\ next \in Closed /\ return = NoReturn => \A w \in Vendors : ful[w] \in Closed
      /\ return = NoReturn => \A w \in Vendors :
           LET shown == ShipmentProgress(shipments'[w])
           IN ful[w] \in Active =>
                /\ shown # "returned"
                /\ shown \in Active => progress[shown] <= progress[ful[w]]
  BY <1>1, Syncs
<1>3. TypeOK'
  <2>1. shipments' \in [Vendors -> DOMAIN shipmentTransitions \cup {"none"}]
    <3>1. shipments \in [Vendors -> DOMAIN shipmentTransitions \cup {"none"}]
      BY DEF FulfillmentInv, PartsAgree, TypeOK
    <3>2. {"pending"} \cup shipmentTransitions[shipments[v]] \subseteq DOMAIN shipmentTransitions
          \/ shipments[v] = "none"
      BY <3>1 DEF shipmentTransitions
    <3> QED
      BY <3>1, <3>2 DEF CreateShipment, UpdateShipment, shipmentTransitions
  <2> QED
    BY <1>1, <1>2, <2>1 DEF FulfillmentInv, PartsAgree, TypeOK, Status
<1>4. ParentIsLeastAdvanced' /\ ClosedTogether' /\ FulfillmentFollowsShipment'
  BY <1>1, <1>2 DEF ParentIsLeastAdvanced, ClosedTogether, FulfillmentFollowsShipment
<1>5. PayoutsConfirmed' /\ RowsRead'
  BY <1>1 DEF FulfillmentInv, PartsAgree, PayoutsConfirmed, RowsRead
<1> QED
  BY <1>3, <1>4, <1>5 DEF FulfillmentInv, PartsAgree

LEMMA CreateReturnRequestInv ==
  ASSUME FulfillmentInv, NEW v \in Vendors, NEW type \in {"refund", "exchange"},
         CreateReturnRequest(v, type)
  PROVE  FulfillmentInv'
<1>1. return' # NoReturn /\ UNCHANGED <<fulfillments, shipments, payouts, clients>>
  BY DEF CreateReturnRequest, NoReturn
<1>2. TypeOK'
  BY Progress DEF CreateReturnRequest, FulfillmentInv, PartsAgree, TypeOK, ReturnStatuses, Closed
<1>3. ParentIsLeastAdvanced'
  BY <1>1, Progress DEF CreateReturnRequest, FulfillmentInv, PartsAgree, ParentIsLeastAdvanced
<1>4. FulfillmentFollowsShipment' /\ ClosedTogether'
  BY <1>1 DEF FulfillmentFollowsShipment, ClosedTogether
<1>5. PayoutsConfirmed' /\ RowsRead'
  BY DEF CreateReturnRequest, FulfillmentInv, PartsAgree, TypeOK, PayoutsConfirmed, RowsRead
<1> QED
  BY <1>2, <1>3, <1>4, <1>5 DEF FulfillmentInv, PartsAgree

LEMMA SetReturnInv ==
  ASSUME FulfillmentInv, NEW status \in ReturnStatuses, SetReturn(status)
  PROVE  FulfillmentInv'
<1>1. /\ return # NoReturn
      /\ UNCHANGED <<order, fulfillments, shipments, payout_status, payouts, clients>>
  BY DEF SetReturn, paid
<1>2. return \in [status : ReturnStatuses, vendor : Vendors, type : {"refund", "exchange"}]
  BY <1>1 DEF FulfillmentInv, PartsAgree, TypeOK
<1>3. /\ return' \in [status : ReturnStatuses, vendor : Vendors, type : {"refund", "exchange"}]
      /\ return' # NoReturn
  BY <1>2 DEF SetReturn, NoReturn, ReturnStatuses
<1>4. TypeOK'
  BY <1>1, <1>3 DEF FulfillmentInv, PartsAgree, TypeOK
<1>5. ParentIsLeastAdvanced' /\ PayoutsConfirmed' /\ RowsRead'
  BY <1>1 DEF FulfillmentInv, PartsAgree, ParentIsLeastAdvanced, PayoutsConfirmed, RowsRead
<1>6. FulfillmentFollowsShipment' /\ ClosedTogether'
  BY <1>3 DEF FulfillmentFollowsShipment, ClosedTogether
<1> QED
  BY <1>4, <1>5, <1>6 DEF FulfillmentInv, PartsAgree

\* The steps that touch payouts only leave order, parts and shipments agreeing.
LEMMA PayoutInv ==
  ASSUME FulfillmentInv, UNCHANGED <<order, fulfillments, shipments, return>>,
         payout_status' \in [Vendors -> {"held", "eligible", "disputed"}],
         payouts' \in [Vendors -> {"none", "pending", "processing", "paid"}],
         clients' \in [Clients -> {Idle} \cup [op : {"process", "settle"}, vendor : Vendors]],
         PayoutsConfirmed', RowsRead'
  PROVE  FulfillmentInv'
<1>1. TypeOK'
  BY DEF FulfillmentInv, PartsAgree, TypeOK
<1>2. ParentIsLeastAdvanced' /\ FulfillmentFollowsShipment' /\ ClosedTogether'
  BY DEF FulfillmentInv, PartsAgree, ParentIsLeastAdvanced, FulfillmentFollowsShipment,
         ClosedTogether
<1> QED
  BY <1>1, <1>2 DEF FulfillmentInv, PartsAgree

LEMMA ConfirmInv ==
  ASSUME FulfillmentInv, NEW v \in Vendors, ConfirmVendorDelivery(v)
  PROVE  FulfillmentInv'
<1>1. TypeOK /\ PayoutsConfirmed /\ RowsRead
  BY DEF FulfillmentInv, PartsAgree
<1>2. /\ payout_status' \in [Vendors -> {"held", "eligible", "disputed"}]
      /\ payouts' \in [Vendors -> {"none", "pending", "processing", "paid"}]
      /\ PayoutsConfirmed'
  BY <1>1 DEF ConfirmVendorDelivery, TypeOK, PayoutsConfirmed
<1>3. UNCHANGED <<order, fulfillments, shipments, return, clients>>
  BY DEF ConfirmVendorDelivery
<1>4. RowsRead'
  BY <1>1, <1>3 DEF ConfirmVendorDelivery, TypeOK, RowsRead, Idle
<1> QED
  BY <1>1, <1>2, <1>3, <1>4, PayoutInv DEF TypeOK

LEMMA ReadInv ==
  ASSUME FulfillmentInv, NEW c \in Clients, NEW v \in Vendors,
         ReadPending(c, v) \/ ReadProcessing(c, v)
  PROVE  FulfillmentInv'
<1>1. TypeOK /\ PayoutsConfirmed /\ RowsRead
  BY DEF FulfillmentInv, PartsAgree
<1>2. PICK op \in {"process", "settle"}, expected \in {"pending", "processing"} :
        Read(c, v, op, expected)
  BY DEF ReadPending, ReadProcessing
<1>3. UNCHANGED <<order, fulfillments, payout_status, shipments, return, payouts>>
  BY <1>2 DEF Read
<1>4. clients' \in [Clients -> {Idle} \cup [op : {"process", "settle"}, vendor : Vendors]]
  BY <1>1, <1>2 DEF Read, TypeOK
<1>5. RowsRead'
  BY <1>1, <1>2 DEF Read, TypeOK, RowsRead
<1>6. PayoutsConfirmed'
  BY <1>1, <1>3 DEF PayoutsConfirmed
<1> QED
  BY <1>1, <1>3, <1>4, <1>5, <1>6, PayoutInv DEF TypeOK

LEMMA WriteInv ==
  ASSUME FulfillmentInv, NEW c \in Clients, ProcessPending(c) \/ SettlePaid(c)
  PROVE  FulfillmentInv'
<1>1. TypeOK /\ PayoutsConfirmed /\ RowsRead
  BY DEF FulfillmentInv, PartsAgree
<1>2. PICK op \in {"process", "settle"}, status \in {"processing", "paid"} : Write(c, op, status)
  BY DEF ProcessPending, SettlePaid
<1>3. clients[c] # Idle /\ clients[c].vendor \in Vendors /\ payouts[clients[c].vendor] # "none"
  BY <1>1, <1>2 DEF Write, TypeOK, RowsRead, Idle
<1>4. UNCHANGED <<order, fulfillments, payout_status, shipments, return>>
  BY <1>2 DEF Write
<1>5. /\ clients' \in [Clients -> {Idle} \cup [op : {"process", "settle"}, vendor : Vendors]]
      /\ \A d \in Clients : clients'[d] # Idle => clients'[d] = clients[d]
  BY <1>1, <1>2 DEF Write, TypeOK
<1>6. /\ payouts' \in [Vendors -> {"none", "pending", "processing", "paid"}]
      /\ \A w \in Vendors : payouts'[w] # "none" <=> payouts[w] # "none"
  BY <1>1, <1>2, <1>3 DEF Write, TypeOK
<1>7. PayoutsConfirmed'
  BY <1>1, <1>4, <1>6 DEF PayoutsConfirmed
<1>8. RowsRead'
  <2>1. \A d \in Clients : clients[d] # Idle => clients[d].vendor \in Vendors
    BY <1>1 DEF TypeOK
  <2> QED
    BY <1>1, <1>5, <1>6, <2>1 DEF RowsRead
<1> QED
  BY <1>1, <1>4, <1>5, <1>6, <1>7, <1>8, PayoutInv DEF TypeOK

LEMMA NextInv ==
  ASSUME FulfillmentInv, [Next]_vars
  PROVE  FulfillmentInv'
<1>1. CASE VendorStep
  BY <1>1, UpdateOrderStatusInv, ShipmentInv DEF VendorStep
<1>2. CASE ReturnStep
  BY <1>2, CreateReturnRequestInv, SetReturnInv
     DEF ReturnStep, UpdateReturnStatus, AdminUpdateReturn
<1>3. CASE PayoutStep
  BY <1>3, ConfirmInv, ReadInv, WriteInv DEF PayoutStep
<1>4. CASE UNCHANGED vars
  BY <1>4 DEF vars, FulfillmentInv, PartsAgree, TypeOK, ParentIsLeastAdvanced,
              FulfillmentFollowsShipment, PayoutsConfirmed, ClosedTogether, RowsRead,
              ShipmentProgress
<1> QED
  BY <1>1, <1>2, <1>3, <1>4 DEF Next

\* The inductive invariant holds of every reachable state.
THEOREM FulfillmentInvariant == Spec => []FulfillmentInv
<1>1. Init => FulfillmentInv
  BY InitInv
<1>2. FulfillmentInv /\ [Next]_vars => FulfillmentInv'
  BY NextInv
<1> QED
  BY <1>1, <1>2, PTL DEF Spec

\* The order, its parts, their shipments and their payouts agree at every moment,
\* whichever of the vendors moves them and in whichever way.
THEOREM PartsAlwaysAgree == Spec => []PartsAgree
<1>1. FulfillmentInv => PartsAgree
  BY DEF FulfillmentInv
<1> QED
  BY <1>1, FulfillmentInvariant, PTL

-----------------------------------------------------------------------------
(* What a step may never do                                                *)

\* The steps of vendors, together: parts move onward, and the order with them.
LEMMA VendorStepMoves ==
  ASSUME FulfillmentInv, VendorStep
  PROVE  /\ order \notin {"cancelled", "refunded"}
         /\ fulfillments' \in [Vendors -> Status]
         /\ \A v \in Vendors : Onward(fulfillments[v], fulfillments'[v])
         /\ order \in Active /\ order' \in Active => progress[order] <= progress[order']
         /\ order # "delivered" /\ order' = "delivered" =>
              \A v \in Vendors : fulfillments'[v] = "delivered"
         /\ UNCHANGED <<return, payout_status, payouts, clients>>
<1>1. ASSUME NEW v \in Vendors, NEW status, UpdateOrderStatus(v, status)
      PROVE  /\ order \notin {"cancelled", "refunded"}
             /\ UNCHANGED <<return, payout_status, payouts, clients>>
  BY <1>1 DEF UpdateOrderStatus, paid
<1>2. ASSUME NEW v \in Vendors, NEW status, CreateShipment(v) \/ UpdateShipment(v, status)
      PROVE  /\ order \notin {"cancelled", "refunded"}
             /\ order' = Synced(shipments').order /\ fulfillments' = Synced(shipments').ful
             /\ UNCHANGED <<return, payout_status, payouts, clients>>
  BY <1>2 DEF CreateShipment, UpdateShipment, paid
<1>3. CASE \E v \in Vendors, status \in Active \cup Closed : UpdateOrderStatus(v, status)
  BY <1>1, <1>3, UpdateOrderStatusMoves, PartsMove
<1>4. CASE \E v \in Vendors : \/ CreateShipment(v)
                              \/ \E status \in DOMAIN shipmentTransitions : UpdateShipment(v, status)
  BY <1>2, <1>4, Syncs
<1> QED
  BY <1>3, <1>4 DEF VendorStep

\* The other steps leave the parts alone; a return may close the order.
LEMMA OtherSteps ==
  ASSUME FulfillmentInv, ReturnStep \/ PayoutStep \/ UNCHANGED vars
  PROVE  /\ fulfillments' = fulfillments
         /\ \/ order' = order
            \/ order \in {"delivered", "shipped"} /\ order' = "returned"
<1>1. CASE ReturnStep
  BY <1>1 DEF ReturnStep, CreateReturnRequest, UpdateReturnStatus, AdminUpdateReturn, SetReturn
<1>2. CASE PayoutStep
  BY <1>2 DEF PayoutStep, ConfirmVendorDelivery, ReadPending, ReadProcessing, Read,
              ProcessPending, SettlePaid, Write
<1>3. CASE UNCHANGED vars
  BY <1>3 DEF vars
<1> QED
  BY <1>1, <1>2, <1>3

\* An order becomes delivered by all of its vendors, however many there are and
\* whether their statuses or their shipments say so.
THEOREM AllDeliver == Spec => DeliveredByAll
<1>1. FulfillmentInv /\ [Next]_vars =>
        [ order # "delivered" /\ order' = "delivered" =>
            \A v \in Vendors : fulfillments'[v] = "delivered" ]_vars
  BY VendorStepMoves, OtherSteps DEF Next
<1> QED
  BY <1>1, FulfillmentInvariant, PTL DEF Spec, DeliveredByAll

\* An open return disputes the payout of its vendor, unless it was closed before.
THEOREM ReturnsDispute == Spec => ReturnDisputesPayout
<1> DEFINE Disputes ==
             \A v \in Vendors : ActiveReturn(v)' /\ payout_status'[v] # "disputed" =>
               \/ ActiveReturn(v) /\ payout_status[v] # "disputed"
               \/ return.vendor = v /\ return.status \in ReturnStatuses \ OpenReturn
<1>1. ASSUME UNCHANGED <<return, payout_status>>
      PROVE  Disputes
  BY <1>1 DEF ActiveReturn
<1>2. ASSUME FulfillmentInv, ReturnStep
      PROVE  Disputes
  <2>1. TypeOK
    BY <1>2 DEF FulfillmentInv, PartsAgree
  <2>2. ASSUME NEW v \in Vendors, NEW type, CreateReturnRequest(v, type)
        PROVE  Disputes
    BY <2>1, <2>2 DEF CreateReturnRequest, ActiveReturn, TypeOK
  <2>3. ASSUME NEW status \in ReturnStatuses, SetReturn(status)
        PROVE  Disputes
    <3>1. /\ return # NoReturn /\ payout_status' = payout_status
          /\ return' = [return EXCEPT !.status = status]
      BY <2>3 DEF SetReturn, paid
    <3>2. return \in [status : ReturnStatuses, vendor : Vendors, type : {"refund", "exchange"}]
      BY <2>1, <3>1 DEF TypeOK
    <3>3. return'.vendor = return.vendor /\ return.status \in ReturnStatuses
      BY <3>1, <3>2
    <3> QED
      BY <3>1, <3>3 DEF ActiveReturn
  <2> QED
    BY <1>2, <2>2, <2>3 DEF ReturnStep, UpdateReturnStatus, AdminUpdateReturn
<1>3. ASSUME FulfillmentInv, NEW v \in Vendors, ConfirmVendorDelivery(v)
      PROVE  Disputes
  BY <1>3 DEF ConfirmVendorDelivery, ActiveReturn, FulfillmentInv, PartsAgree, TypeOK
<1>4. ASSUME FulfillmentInv, VendorStep \/ UNCHANGED vars
      PROVE  UNCHANGED <<return, payout_status>>
  BY <1>4, VendorStepMoves DEF vars
<1>5. ASSUME NEW c \in Clients, NEW v \in Vendors,
             ReadPending(c, v) \/ ReadProcessing(c, v) \/ ProcessPending(c) \/ SettlePaid(c)
      PROVE  UNCHANGED <<return, payout_status>>
  BY <1>5 DEF ReadPending, ReadProcessing, Read, ProcessPending, SettlePaid, Write
<1>6. FulfillmentInv /\ [Next]_vars => [Disputes]_vars
  <2> HIDE DEF Disputes
  <2> QED
    BY <1>1, <1>2, <1>3, <1>4, <1>5, ConstantsAssumption DEF Next, PayoutStep
<1> QED
  BY <1>6, FulfillmentInvariant, PTL DEF Spec, ReturnDisputesPayout

-----------------------------------------------------------------------------
(* The parts of the other vendors                                          *)

\* A return closes the order without its parts only where it has one part.  Of an
\* order that vendors share, no part lags behind its shipment, return or none.
Shared == \E v, w \in Vendors : v # w

Caught(v, ful, ships) ==
  LET shown == ShipmentProgress(ships[v])
  IN ful[v] \in Active =>
       /\ shown # "returned"
       /\ shown \in Active => progress[shown] <= progress[ful[v]]

SharedFollows ==
  Shared => /\ order \in Closed => \A v \in Vendors : fulfillments[v] \in Closed
            /\ \A v \in Vendors : Caught(v, fulfillments, shipments)

\* An order that is not closed already closes with its parts.
LEMMA ClosesTogether ==
  ASSUME NEW ful \in [Vendors -> Status], Aggregate(ful, order) \in Closed
  PROVE  order \in Closed \/ \A v \in Vendors : ful[v] \in Closed
<1>1. ful \in [Vendors -> Active \cup Closed] /\ Active \cap Closed = {}
  BY Progress DEF Status, Closed
<1>2. CASE /\ \A v \in Vendors : ful[v] \in Active
           /\ Aggregate(ful, order) = LeastAdvanced({ful[v] : v \in Vendors})
  <2>1. ful \in [Vendors -> Active]
    BY <1>2
  <2> QED
    BY <1>1, <1>2, <2>1, LeastOfParts
<1> QED
  BY <1>1, <1>2, AggregateCases

\* The step of one vendor on its shipment, as the part of every vendor sees it.
LEMMA ShipmentSteps ==
  ASSUME FulfillmentInv, SharedFollows, Shared,
         NEW v \in Vendors, NEW status, CreateShipment(v) \/ UpdateShipment(v, status)
  PROVE  /\ order' \in Closed => \A w \in Vendors : fulfillments'[w] \in Closed
         /\ \A w \in Vendors :
              /\ Caught(w, fulfillments', shipments')
              /\ w # v => shipments'[w] = shipments[w]
              /\ \/ fulfillments'[w] = fulfillments[w]
                 \/ fulfillments'[w] = Advance(fulfillments[w], ShipmentProgress(shipments'[w]))
<1>1. /\ order' = Synced(shipments').order /\ fulfillments' = Synced(shipments').ful
      /\ \A w \in Vendors : w # v => shipments'[w] = shipments[w]
  BY DEF CreateShipment, UpdateShipment, FulfillmentInv, PartsAgree, TypeOK
<1>2. /\ order \in Status /\ fulfillments \in [Vendors -> Status]
      /\ Active \cap Closed = {} /\ Status \subseteq Active \cup Closed
  BY Types DEF FulfillmentInv, PartsAgree
<1>3. CASE order \in Closed
  <2>1. order' = order /\ fulfillments' = fulfillments
    BY <1>1, <1>3 DEF Synced
  <2>2. \A w \in Vendors : fulfillments[w] \in Closed
    BY <1>3 DEF SharedFollows
  <2> QED
    BY <1>1, <1>2, <2>1, <2>2 DEF Caught
<1>4. CASE order \notin Closed
  <2> DEFINE ful == [w \in Vendors |-> Advance(fulfillments[w], ShipmentProgress(shipments'[w]))]
  <2>1. fulfillments' = ful
    BY <1>1, <1>4 DEF Synced
  <2>2. order' \in {order, Aggregate(ful, order)}
    BY <1>1, <1>4 DEF Synced
  <2>3. ful \in [Vendors -> Status]
    BY <1>2, Advances
  <2>4. \A w \in Vendors : Caught(w, ful, shipments')
    BY <1>2, Advances DEF Caught
  <2>5. order' \in Closed => \A w \in Vendors : ful[w] \in Closed
    <3> HIDE DEF ful
    <3> QED
      BY <1>4, <2>2, <2>3, ClosesTogether
  <2> QED
    BY <1>1, <2>1, <2>4, <2>5
<1> QED
  BY <1>3, <1>4

LEMMA SharedStep ==
  ASSUME FulfillmentInv, SharedFollows, [Next]_vars, Shared
  PROVE  SharedFollows'
<1>1. /\ order \in Status /\ fulfillments \in [Vendors -> Status]
      /\ Active \cap Closed = {} /\ Status \subseteq Active \cup Closed
  BY Types DEF FulfillmentInv, PartsAgree
<1>2. ASSUME NEW v \in Vendors, NEW status, UpdateOrderStatus(v, status)
      PROVE  SharedFollows'
  <2>1. /\ fulfillments' \in [Vendors -> Status] /\ shipments' = shipments
        /\ \A w \in Vendors : Onward(fulfillments[w], fulfillments'[w])
        /\ order' = Aggregate(fulfillments', order)
    BY <1>2, UpdateOrderStatusMoves DEF UpdateOrderStatus
  <2>2. order' \in Closed => \A w \in Vendors : fulfillments'[w] \in Closed
    BY <2>1, ClosesTogether DEF SharedFollows, Onward
  <2>3. ASSUME NEW w \in Vendors, fulfillments'[w] \in Active
        PROVE  Caught(w, fulfillments', shipments)
    <3>1. /\ fulfillments[w] \in Active
          /\ progress[fulfillments[w]] <= progress[fulfillments'[w]]
      BY <2>1, <2>3 DEF Onward
    <3>2. Caught(w, fulfillments, shipments)
      BY DEF SharedFollows
    <3> QED
      BY <2>3, <3>1, <3>2, Progress DEF Caught
  <2>4. \A w \in Vendors : Caught(w, fulfillments', shipments')
    BY <2>1, <2>3 DEF Caught
  <2> QED
    BY <2>2, <2>4 DEF SharedFollows, Caught
<1>3. ASSUME NEW v \in Vendors, NEW status, CreateShipment(v) \/ UpdateShipment(v, status)
      PROVE  SharedFollows'
  BY <1>3, ShipmentSteps DEF SharedFollows, Caught, ShipmentProgress
<1>4. ASSUME ReturnStep \/ PayoutStep \/ UNCHANGED vars
      PROVE  UNCHANGED <<order, fulfillments, shipments>>
  <2>1. CASE ReturnStep
    BY <2>1 DEF ReturnStep, CreateReturnRequest, UpdateReturnStatus, AdminUpdateReturn,
                SetReturn, Shared
  <2>2. CASE PayoutStep
    BY <2>2 DEF PayoutStep, ConfirmVendorDelivery, ReadPending, ReadProcessing, Read,
                ProcessPending, SettlePaid, Write
  <2> QED
    BY <1>4, <2>1, <2>2 DEF vars
<1>5. UNCHANGED <<order, fulfillments, shipments>> => SharedFollows'
  BY DEF SharedFollows, Shared, Caught, ShipmentProgress
<1> QED
  BY <1>2, <1>3, <1>4, <1>5 DEF Next, VendorStep

\* Whatever return there is, the parts of a shared order keep up with their shipments.
LEMMA SharedInvariant == Spec => []SharedFollows
<1>1. Init => SharedFollows
  <2>1. ShipmentProgress("none") = None
    BY DEF ShipmentProgress
  <2> QED
    BY <2>1, ConstantsAssumption DEF Init, SharedFollows, Caught, Closed
<1>2. FulfillmentInv /\ SharedFollows /\ [Next]_vars => SharedFollows'
  <2>1. ~Shared => SharedFollows'
    BY DEF SharedFollows, Shared
  <2> QED
    BY <2>1, SharedStep
<1> QED
  BY <1>1, <1>2, FulfillmentInvariant, PTL DEF Spec

\* A shipment update never carries the part of another vendor along: all it can
\* change of one is that a part cancelled or refunded, whose own shipment has come
\* back, becomes returned.
THEOREM OthersStay == Spec => OthersFollowOnlyTheirReturn
<1> DEFINE Stays ==
             \A v, w \in Vendors :
               v # w /\ shipments'[v] # shipments[v] =>
                 \/ fulfillments'[w] = fulfillments[w]
                 \/ /\ fulfillments[w] \in {"cancelled", "refunded"}
                    /\ shipments[w] = "returned"
                    /\ fulfillments'[w] = "returned"
<1>1. ASSUME FulfillmentInv, SharedFollows, NEW u \in Vendors, NEW status,
             CreateShipment(u) \/ UpdateShipment(u, status)
      PROVE  Stays
  <2> SUFFICES ASSUME NEW v \in Vendors, NEW w \in Vendors, v # w,
                      shipments'[v] # shipments[v], fulfillments'[w] # fulfillments[w]
               PROVE  /\ fulfillments[w] \in {"cancelled", "refunded"}
                      /\ shipments[w] = "returned"
                      /\ fulfillments'[w] = "returned"
    OBVIOUS
  <2>1. Shared
    BY DEF Shared
  <2>2. /\ v = u /\ shipments'[w] = shipments[w]
        /\ fulfillments'[w] = Advance(fulfillments[w], ShipmentProgress(shipments[w]))
    BY <1>1, <2>1, ShipmentSteps
  <2>3. Caught(w, fulfillments, shipments)
    BY <1>1, <2>1 DEF SharedFollows
  <2>4. fulfillments[w] \in Status /\ Status \subseteq Active \cup Closed
    BY <1>1, Types DEF FulfillmentInv, PartsAgree
  <2> DEFINE shown == ShipmentProgress(shipments[w])
  <2>5. ~(shown \in Active /\ fulfillments[w] \in Active /\ progress[shown] > progress[fulfillments[w]])
    BY <2>3, Progress DEF Caught
  <2>6. shown = "returned" /\ fulfillments'[w] = "returned" /\ fulfillments[w] \notin Active
    BY <2>2, <2>3, <2>5 DEF Advance, Caught
  <2>7. shipments[w] = "returned"
    BY <2>6, ConstantsAssumption DEF ShipmentProgress, Closed
  <2> QED
    BY <2>4, <2>6, <2>7 DEF Closed
<1>2. ASSUME \/ \E v \in Vendors : \E status : UpdateOrderStatus(v, status)
             \/ ReturnStep
             \/ PayoutStep
             \/ UNCHANGED vars
      PROVE  shipments' = shipments
  BY <1>2 DEF UpdateOrderStatus, ReturnStep, CreateReturnRequest, UpdateReturnStatus,
              AdminUpdateReturn, SetReturn, PayoutStep, ConfirmVendorDelivery, ReadPending,
              ReadProcessing, Read, ProcessPending, SettlePaid, Write, vars
<1>3. FulfillmentInv /\ SharedFollows /\ [Next]_vars => [Stays]_vars
  <2>1. shipments' = shipments => Stays
    OBVIOUS
  <2> HIDE DEF Stays
  <2> QED
    BY <1>1, <1>2, <2>1 DEF Next, VendorStep
<1> QED
  BY <1>3, FulfillmentInvariant, SharedInvariant, PTL DEF Spec, OthersFollowOnlyTheirReturn

-----------------------------------------------------------------------------
(* What is done stays done                                                 *)

\* Parts that are all closed keep the order closed.
LEMMA ClosedParts ==
  ASSUME FulfillmentInv, VendorStep, order \in Closed,
         \A v \in Vendors : fulfillments[v] \in Closed
  PROVE  order' \in Closed
<1>1. /\ fulfillments' \in [Vendors -> Status]
      /\ \A v \in Vendors : fulfillments'[v] \in Closed
  BY VendorStepMoves DEF Onward
<1>2. Status \subseteq Active \cup Closed /\ Active \cap Closed = {}
  BY Types DEF FulfillmentInv, PartsAgree
<1>3. order' = Aggregate(fulfillments', order) => order' \in Closed
  <2>1. fulfillments' \in [Vendors -> Active \cup Closed]
    BY <1>1, <1>2
  <2>2. PICK v \in Vendors : fulfillments'[v] \in Closed \ Active
    BY <1>1, <1>2, ConstantsAssumption
  <2>3. Aggregate(fulfillments', order) \in {fulfillments'[v], order}
    BY <2>1, <2>2, AggregateCases
  <2> QED
    BY <2>2, <2>3
<1>4. order' = Synced(shipments').order => order' \in Closed
  BY DEF Synced
<1> QED
  BY <1>3, <1>4 DEF VendorStep, UpdateOrderStatus, CreateShipment, UpdateShipment

\* An order that no longer shows that it is closed is Reopened.
LEMMA OnlyReopens ==
  ASSUME FulfillmentInv, SharedFollows, VendorStep, order \in Closed, order' \notin Closed
  PROVE  Reopens
<1>1. /\ TypeOK /\ ClosedTogether /\ fulfillments \in [Vendors -> Status]
      /\ Status \subseteq Active \cup Closed
  BY Types DEF FulfillmentInv, PartsAgree
<1>2. PICK v \in Vendors : fulfillments[v] \notin Closed
  BY ClosedParts
<1>3. Vendors = {v}
  BY <1>2 DEF SharedFollows, Shared
<1>4. return # NoReturn /\ return.vendor = v
  BY <1>1, <1>2, <1>3 DEF ClosedTogether, TypeOK
<1>5. order = "returned"
  BY VendorStepMoves DEF Closed
<1>6. order' = Aggregate(fulfillments', order)
  <2>1. order' # Synced(shipments').order
    BY DEF Synced
  <2> QED
    BY <2>1 DEF VendorStep, UpdateOrderStatus, CreateShipment, UpdateShipment
<1>7. order' = fulfillments'[v]
  <2>1. fulfillments' \in [Vendors -> Active \cup Closed]
    BY <1>1, VendorStepMoves
  <2>2. CASE order' = order
    BY <2>2
  <2>3. CASE /\ \A w \in Vendors : fulfillments'[w] \in Active
             /\ order' = LeastAdvanced({fulfillments'[w] : w \in Vendors})
    <3>1. fulfillments' \in [Vendors -> Active]
      BY <2>1, <2>3
    <3>2. \E w \in Vendors : fulfillments'[w] = order'
      BY <2>3, <3>1, LeastOfParts
    <3> QED
      BY <1>3, <3>2
  <2> QED
    BY <1>3, <1>6, <2>1, <2>2, <2>3, AggregateCases
<1> QED
  BY <1>1, <1>2, <1>3, <1>4, <1>5, <1>7 DEF Reopens

\* Neither the order nor a part of it falls back, a part that is closed stays closed,
\* and so does the order, unless it is the order of one vendor which a return request
\* closed while its part was not (updateOrderStatus reopens that one).
THEOREM ProgressKept == Spec => NeverUndone
<1> DEFINE Kept ==
             /\ order \in Active /\ order' \in Active => progress[order] <= progress[order']
             /\ order \in {"cancelled", "refunded"} => order' = order
             /\ order \in Closed /\ order' \notin Closed => Reopens
             /\ \A v \in Vendors :
                  /\ fulfillments[v] \in Closed => fulfillments'[v] \in Closed
                  /\ fulfillments[v] \in Active /\ fulfillments'[v] \in Active =>
                       progress[fulfillments[v]] <= progress[fulfillments'[v]]
<1>1. ASSUME FulfillmentInv, SharedFollows, VendorStep
      PROVE  Kept
  <2>1. order \in Closed /\ order' \notin Closed => Reopens
    BY <1>1, OnlyReopens
  <2> QED
    BY <1>1, <2>1, VendorStepMoves DEF Onward
<1>2. ASSUME FulfillmentInv, ReturnStep \/ PayoutStep \/ UNCHANGED vars
      PROVE  Kept
  <2>1. Active \cap Closed = {} /\ "returned" \in Closed
    BY Progress DEF Closed
  <2> QED
    BY <1>2, <2>1, OtherSteps, Progress
<1>3. FulfillmentInv /\ SharedFollows /\ [Next]_vars => [Kept]_vars
  <2> HIDE DEF Kept
  <2> QED
    BY <1>1, <1>2 DEF Next
<1> QED
  BY <1>3, FulfillmentInvariant, SharedInvariant, PTL DEF Spec, NeverUndone

-----------------------------------------------------------------------------
(* Payouts                                                                 *)

\* A payout that is paid out is moved by no request that is still to come: one that
\* reads it now finds neither a pending nor a processing row, and one that settles
\* it writes what it is already.
LEMMA PaidOutStays ==
  ASSUME FulfillmentInv, [Next]_vars, NEW v \in Vendors, PaidOut(v)
  PROVE  PaidOut(v)'
<1>1. TypeOK /\ RowsRead
  BY DEF FulfillmentInv, PartsAgree
<1>2. CASE UNCHANGED <<payouts, clients>>
  BY <1>2 DEF PaidOut
<1>3. ASSUME NEW w \in Vendors, ConfirmVendorDelivery(w)
      PROVE  PaidOut(v)'
  BY <1>1, <1>3 DEF ConfirmVendorDelivery, TypeOK, PaidOut
<1>4. ASSUME NEW c \in Clients, NEW w \in Vendors, ReadPending(c, w) \/ ReadProcessing(c, w)
      PROVE  PaidOut(v)'
  <2>1. /\ payouts' = payouts /\ \A d \in Clients \ {c} : clients'[d] = clients[d]
        /\ clients'[c] \in [op : {"process", "settle"}, vendor : {w}]
        /\ w # v
    BY <1>1, <1>4 DEF ReadPending, ReadProcessing, Read, TypeOK, PaidOut
  <2> QED
    BY <2>1 DEF PaidOut
<1>5. ASSUME NEW c \in Clients, ProcessPending(c) \/ SettlePaid(c)
      PROVE  PaidOut(v)'
  <2>1. /\ clients[c] \in [op : {"process", "settle"}, vendor : Vendors]
        /\ clients' = [clients EXCEPT ![c] = Idle]
    BY <1>1, <1>5 DEF ProcessPending, SettlePaid, Write, TypeOK, Idle
  <2>2. payouts'[v] = "paid"
    <3>1. CASE clients[c].vendor = v
      <4>1. clients[c].op # "process"
        BY <2>1, <3>1 DEF PaidOut
      <4>2. payouts' = [payouts EXCEPT ![v] = "paid"]
        BY <1>5, <3>1, <4>1 DEF ProcessPending, SettlePaid, Write
      <4> QED
        BY <1>1, <4>2 DEF TypeOK
    <3>2. CASE clients[c].vendor # v
      BY <1>1, <1>5, <3>2 DEF ProcessPending, SettlePaid, Write, TypeOK, PaidOut
    <3> QED
      BY <3>1, <3>2
  <2>3. \A d \in Clients : clients'[d] \in {clients[d], Idle}
    BY <1>1, <2>1 DEF TypeOK
  <2> QED
    BY <2>2, <2>3 DEF PaidOut, Idle
<1>6. VendorStep => UNCHANGED <<payouts, clients>>
  BY VendorStepMoves
<1>7. ReturnStep => UNCHANGED <<payouts, clients>>
  BY DEF ReturnStep, CreateReturnRequest, UpdateReturnStatus, AdminUpdateReturn, SetReturn, paid
<1> QED
  BY <1>2, <1>3, <1>4, <1>5, <1>6, <1>7, ConstantsAssumption DEF Next, PayoutStep, vars

\* However many requests there are at a time, a payout that is paid is final once no
\* process request is left that read it as pending (processPending, settlePaid).
THEOREM PaidOnce == Spec => PaidForGood
<1>1. FulfillmentInv /\ [Next]_vars =>
        [ \A v \in Vendors : PaidOut(v) => PaidOut(v)' ]_vars
  BY PaidOutStays
<1> QED
  BY <1>1, FulfillmentInvariant, PTL DEF Spec, PaidForGood

-----------------------------------------------------------------------------
(* The queues                                                              *)

\* The lease of a row: what a claim writes, and what rows that nobody claimed
\* leave alone.
LeasesKept ==
  \A i \in Items :
    /\ kind = "order" => row[i].status # "processing"
    /\ row[i].status # "processing" => row[i].lease = 0
    /\ row[i].status = "none" => row[i].wait = 0

\* A row in a worker's hand is under its lease until a lease ends too early.
HeldLeased ==
  ~overran => \A i \in Held :
    /\ row[i].status = IF kind = "order" THEN "pending" ELSE "processing"
    /\ LeaseLeft(i) > 0

\* An effect that a mark may follow: a moot confirmation sends nothing.
TookEffect(i) == effects[i] > 0 \/ (kind = "order" /\ i \in Moot)

\* A row that a worker is about to mark took effect, and one that always throws
\* never does.
CalledTookEffect ==
  /\ \A w \in Workers : \A i \in called[w] : TookEffect(i)
  /\ \A i \in Poison : effects[i] = 0 /\ \A w \in Workers : i \notin called[w]

\* The workers that may still let a row take effect, and whether one more can
\* claim it without another fault.
Due(i) == {w \in Workers : i \in Ids(w) /\ called[w] # {i}}
Free(i) == row[i].status \in Open /\ (i \notin Held \/ LeaseLeft(i) = 0)

\* Effects, had and to come, are one for the row and one for each fault.
Budget(i) == effects[i] + Cardinality(Due(i)) + (IF Free(i) THEN 1 ELSE 0) <= 1 + faults
EffectsBudgeted == \A i \in Items \ Poison : Budget(i)

QueueInv ==
  /\ QueueTypeOK /\ LeasesKept /\ HeldLeased /\ CalledTookEffect /\ EffectsBudgeted
  /\ OneOwner /\ DoneMeansDelivered

\* A nonempty set of numbers has a least element.
LEMMA LeastNumber ==
  ASSUME NEW S \in SUBSET Nat, S # {}
  PROVE  \E m \in S : \A n \in S : m <= n
<1>1. IsWellFoundedOn(OpToRel(<, Nat), Nat)
  BY NatLessThanWellFounded
<1>2. PICK m \in S : \A n \in S : <<n, m>> \notin OpToRel(<, Nat)
  BY <1>1, WFMin
<1>3. \A n \in S : ~(n < m)
  BY <1>2 DEF OpToRel
<1> QED
  BY <1>3

\* A claim takes no more rows than its limit: of the rows it takes, one has all
\* the others before it, and fewer than the limit are.
LEMMA BatchBounded == QueueAssumption => Batch \subseteq Items /\ Cardinality(Batch) <= BatchSize
<1> SUFFICES ASSUME QueueAssumption PROVE Batch \subseteq Items /\ Cardinality(Batch) <= BatchSize
  OBVIOUS
<1> DEFINE limit == IF kind = "order" THEN 1 ELSE BatchSize
           Before(i) == {j \in Items : Ready(j) /\ j < i}
           rank(i) == Cardinality(Before(i))
<1>1. Batch = {i \in Items : Ready(i) /\ rank(i) < limit}
  BY DEF Batch
<1>2. limit \in Nat \ {0} /\ limit <= BatchSize /\ BatchSize \in Nat
  BY DEF QueueAssumption
<1>3. \A i \in Items : IsFiniteSet(Before(i)) /\ rank(i) \in Nat
  BY FS_Subset, FS_CardinalityType DEF QueueAssumption
<1>4. IsFiniteSet(Batch) /\ Batch \subseteq Items
  BY <1>1, FS_Subset DEF QueueAssumption
<1>5. \A i, j \in Batch : i < j => rank(i) < rank(j)
  <2> SUFFICES ASSUME NEW i \in Batch, NEW j \in Batch, i < j PROVE rank(i) < rank(j)
    OBVIOUS
  <2>1. i \in Items /\ j \in Items /\ Ready(i) /\ Items \subseteq Nat
    BY <1>1 DEF QueueAssumption
  <2>2. i \notin Before(i) /\ Before(i) \cup {i} \subseteq Before(j)
    <3>1. \A x \in Items : x < i => x < j
      BY <2>1
    <3>2. i \in Nat /\ ~(i < i)
      BY <2>1
    <3> QED
      BY <2>1, <3>1, <3>2
  <2>3. Cardinality(Before(i) \cup {i}) = rank(i) + 1
    BY <1>3, <2>1, <2>2, FS_AddElement
  <2>4. Cardinality(Before(i) \cup {i}) <= rank(j)
    BY <1>3, <2>1, <2>2, FS_Subset
  <2> QED
    BY <1>3, <2>1, <2>3, <2>4
<1> HIDE DEF limit, rank, Before
<1>6. CASE Batch = {}
  BY <1>2, <1>4, <1>6, FS_EmptySet
<1>7. CASE Batch # {}
  <2> DEFINE left == {limit - rank(i) : i \in Batch}
  <2>1. left \subseteq Nat /\ left # {}
    <3>1. \A i \in Batch : rank(i) \in Nat /\ rank(i) < limit
      BY <1>1, <1>3
    <3>2. \A i \in Batch : limit - rank(i) \in Nat
      BY <1>2, <3>1
    <3> QED
      BY <1>7, <3>2
  <2>2. PICK m \in left : \A n \in left : m <= n
    BY <2>1, LeastNumber
  <2>3. PICK last \in Batch : m = limit - rank(last)
    BY <2>2
  <2>4. \A i \in Batch : rank(i) <= rank(last)
    BY <1>2, <1>3, <1>4, <2>2, <2>3
  <2>5. \A i \in Batch : i = last \/ i < last
    <3>1. \A i \in Batch : rank(i) \in Nat /\ i \in Nat
      BY <1>3, <1>4 DEF QueueAssumption
    <3>2. \A i \in Batch : ~(last < i)
      BY <1>5, <2>4, <3>1
    <3> QED
      BY <3>1, <3>2
  <2>6. Batch \ {last} \subseteq Before(last)
    BY <1>1, <2>5 DEF Before
  <2>7. Cardinality(Batch \ {last}) <= rank(last)
    BY <1>3, <1>4, <2>6, FS_Subset DEF rank
  <2>8. Cardinality(Batch \ {last}) = Cardinality(Batch) - 1
    BY <1>4, FS_RemoveElement
  <2>9. Cardinality(Batch) \in Nat
    BY <1>4, FS_CardinalityType
  <2> QED
    BY <1>1, <1>2, <1>3, <1>4, <2>7, <2>8, <2>9
<1> QED
  BY <1>6, <1>7

-----------------------------------------------------------------------------
(* What the actions do to the workers' hands.                              *)

LEMMA ClaimIds ==
  ASSUME QueueTypeOK, NEW w \in Workers, Claim(w)
  PROVE  /\ Ids(w) = {} /\ called[w] = {}
         /\ \A v \in Workers : Ids(v)' = IF v = w THEN Batch ELSE Ids(v)
         /\ Held' = Held \cup Batch
<1>1. job = [v \in Workers |-> job[v]]
  BY DEF QueueTypeOK
<1>2. job[w] = NoJob /\ job' = [job EXCEPT ![w] = [i \in Batch |-> Counted(row[i].attempts)]]
  BY DEF Claim
<1>3. job'[w] = [i \in Batch |-> Counted(row[i].attempts)] /\ \A v \in Workers \ {w} : job'[v] = job[v]
  BY <1>1, <1>2
<1>4. DOMAIN job'[w] = Batch /\ DOMAIN job[w] = {}
  BY <1>2, <1>3 DEF NoJob
<1>5. Ids(w) = {} /\ \A v \in Workers : Ids(v)' = IF v = w THEN Batch ELSE Ids(v)
  BY <1>3, <1>4 DEF Ids
<1>6. called[w] = {}
  BY <1>5 DEF QueueTypeOK
<1>7. Held' = Held \cup Batch
  <2>1. \A i : (\E v \in Workers : i \in Ids(v)') <=> (i \in Batch \/ \E v \in Workers : i \in Ids(v))
    BY <1>5
  <2> QED
    BY <2>1 DEF Held
<1> QED
  BY <1>5, <1>6, <1>7

LEMMA NextRowIds ==
  ASSUME QueueTypeOK, NEW w \in Workers, NEW i, Turn(w, i), NextRow(w, i)
  PROVE  /\ i \in Ids(w) /\ i \in Items /\ called[w] \subseteq {i}
         /\ \A v \in Workers : Ids(v)' = IF v = w THEN Ids(w) \ {i} ELSE Ids(v)
         /\ \A v \in Workers : called'[v] = IF v = w THEN {} ELSE called[v]
         /\ Held' \subseteq Held /\ Held \ {i} \subseteq Held'
<1>1. job = [v \in Workers |-> job[v]] /\ called \in [Workers -> SUBSET Items]
  BY DEF QueueTypeOK
<1>2. /\ job' = [job EXCEPT ![w] = Restrict(job[w], Ids(w) \ {i})]
      /\ called' = [called EXCEPT ![w] = {}]
  BY DEF NextRow
<1>3. job'[w] = Restrict(job[w], Ids(w) \ {i}) /\ \A v \in Workers \ {w} : job'[v] = job[v]
  BY <1>1, <1>2
<1>4. DOMAIN job'[w] = Ids(w) \ {i}
  BY <1>3 DEF Restrict
<1>5. \A v \in Workers : Ids(v)' = IF v = w THEN Ids(w) \ {i} ELSE Ids(v)
  BY <1>3, <1>4 DEF Ids
<1>6. \A v \in Workers : called'[v] = IF v = w THEN {} ELSE called[v]
  BY <1>1, <1>2
<1>7. i \in Ids(w) /\ i \in Items /\ called[w] \subseteq {i}
  BY DEF Turn, QueueTypeOK
<1>8. \A k : k \in Held' <=> \E v \in Workers : k \in Ids(v)'
  BY DEF Held
<1>9. \A k : k \in Held <=> \E v \in Workers : k \in Ids(v)
  BY DEF Held
<1>10. Held' \subseteq Held
  BY <1>5, <1>8, <1>9
<1>11. Held \ {i} \subseteq Held'
  BY <1>5, <1>8, <1>9
<1> QED
  BY <1>5, <1>6, <1>7, <1>10, <1>11

LEMMA CrashIds ==
  ASSUME QueueTypeOK, NEW w \in Workers, Crash(w)
  PROVE  /\ \A v \in Workers : Ids(v)' = IF v = w THEN {} ELSE Ids(v)
         /\ \A v \in Workers : called'[v] = IF v = w THEN {} ELSE called[v]
         /\ Held' \subseteq Held
<1>1. job = [v \in Workers |-> job[v]] /\ called \in [Workers -> SUBSET Items]
  BY DEF QueueTypeOK
<1>2. job' = [job EXCEPT ![w] = NoJob] /\ called' = [called EXCEPT ![w] = {}]
  BY DEF Crash
<1>3. job'[w] = NoJob /\ \A v \in Workers \ {w} : job'[v] = job[v]
  BY <1>1, <1>2
<1>4. DOMAIN job'[w] = {}
  BY <1>3 DEF NoJob
<1>5. \A v \in Workers : Ids(v)' = IF v = w THEN {} ELSE Ids(v)
  BY <1>3, <1>4 DEF Ids
<1>6. \A v \in Workers : called'[v] = IF v = w THEN {} ELSE called[v]
  BY <1>1, <1>2
<1>7. Held' \subseteq Held
  BY <1>5 DEF Held
<1> QED
  BY <1>5, <1>6, <1>7

\* Handling changes what took effect, and the mark that is to follow.
LEMMA HandleIds ==
  ASSUME QueueTypeOK, NEW w \in Workers, NEW i, Handle(w, i)
  PROVE  /\ i \in Items \ Poison /\ i \in Ids(w) /\ called[w] = {}
         /\ \A v \in Workers : called'[v] = IF v = w THEN {i} ELSE called[v]
         /\ \A k \in Items : effects'[k] = IF k = i THEN Effect(i) ELSE effects[k]
         /\ effects' \in [Items -> Nat]
         /\ Effect(i) <= effects[i] + 1
         /\ Effect(i) > 0 \/ (kind = "order" /\ i \in Moot)
<1>1. i \in Items \ Poison /\ i \in Ids(w) /\ called[w] = {}
  BY DEF Handle, Turn, QueueTypeOK
<1>2. called \in [Workers -> SUBSET Items] /\ effects \in [Items -> Nat]
  BY DEF QueueTypeOK
<1>3. effects[i] \in Nat
  BY <1>1, <1>2
<1>4. /\ Effect(i) \in Nat /\ Effect(i) <= effects[i] + 1
      /\ Effect(i) > 0 \/ (kind = "order" /\ i \in Moot)
  <2>1. CASE kind = "event"
    BY <2>1, <1>3 DEF Effect
  <2>2. CASE kind # "event" /\ kind = "order" /\ i \in Moot
    BY <2>2, <1>3 DEF Effect
  <2>3. CASE kind # "event" /\ ~(kind = "order" /\ i \in Moot)
    BY <2>3, <1>3 DEF Effect
  <2> QED
    BY <2>1, <2>2, <2>3
<1>5. \A v \in Workers : called'[v] = IF v = w THEN {i} ELSE called[v]
  BY <1>1, <1>2 DEF Handle
<1>6. /\ \A k \in Items : effects'[k] = IF k = i THEN Effect(i) ELSE effects[k]
      /\ effects' \in [Items -> Nat]
  <2>1. effects' = [effects EXCEPT ![i] = Effect(i)]
    BY DEF Handle
  <2> HIDE DEF Handle
  <2> QED
    BY <2>1, <1>1, <1>2, <1>4
<1> QED
  BY <1>1, <1>4, <1>5, <1>6

-----------------------------------------------------------------------------
(* What the actions do to a row.                                           *)

LEMMA RowFields ==
  ASSUME QueueTypeOK, NEW i \in Items
  PROVE  /\ row = [k \in Items |-> row[k]]
         /\ row[i] \in Row
         /\ row[i].status \in Open \cup Settled
         /\ row[i].attempts \in 0 .. (MaxAttempts + MaxFaults + 1)
         /\ row[i].wait \in 0 .. (Lease + Backoff)
         /\ row[i].lease \in 0 .. Lease
         /\ effects[i] \in Nat
<1>1. row \in [Items -> Row] /\ effects \in [Items -> Nat]
  BY DEF QueueTypeOK
<1>2. row[i] \in Row /\ effects[i] \in Nat /\ row = [k \in Items |-> row[k]]
  BY <1>1
<1> QED
  BY <1>2 DEF Row

LEMMA Bounds ==
  QueueAssumption =>
    /\ MaxAttempts \in Nat /\ MaxFaults \in Nat /\ Lease \in Nat /\ Backoff \in Nat
    /\ Lease > 0 /\ Backoff > 0
  BY DEF QueueAssumption

LEMMA CountedBounded ==
  ASSUME QueueAssumption, NEW n \in 0 .. (MaxAttempts + MaxFaults + 1)
  PROVE  Counted(n) \in 0 .. (MaxAttempts + MaxFaults + 1)
  BY Bounds DEF Counted

LEMMA ElapseBounded ==
  ASSUME NEW b \in Nat, NEW t \in 0 .. b
  PROVE  Elapse(t) \in 0 .. b /\ (Elapse(t) = 0 <=> t \in {0, 1})
  BY DEF Elapse

\* A row that is fresh or claimed is a row, and so is one that failed.
LEMMA RowsTyped ==
  ASSUME QueueAssumption, NEW r \in Row
  PROVE  /\ Fresh \in Row /\ Fresh.status = "pending" /\ Fresh.wait = 0 /\ Fresh.lease = 0
         /\ Leased(r) \in Row /\ Leased(r).status = "processing" /\ Leased(r).lease = Lease
            /\ Leased(r).wait = r.wait /\ Leased(r).attempts = Counted(r.attempts)
         /\ Postponed(r) \in Row /\ Postponed(r).status = r.status
            /\ Postponed(r).wait = Lease /\ Postponed(r).lease = r.lease
            /\ Postponed(r).attempts = Counted(r.attempts)
<1>1. /\ MaxAttempts + MaxFaults + 1 \in Nat /\ Lease \in 0 .. Lease
      /\ Lease \in 0 .. (Lease + Backoff) /\ Backoff \in 0 .. (Lease + Backoff)
      /\ 0 \in 0 .. Lease /\ 0 \in 0 .. (Lease + Backoff)
      /\ 0 \in 0 .. (MaxAttempts + MaxFaults + 1)
  BY Bounds
<1>2. Counted(r.attempts) \in 0 .. (MaxAttempts + MaxFaults + 1)
  <2>1. r.attempts \in 0 .. (MaxAttempts + MaxFaults + 1)
    BY DEF Row
  <2> QED
    BY <2>1, CountedBounded
<1>3. {"pending", "processing", "failed"} \subseteq Open \cup Settled
  BY DEF Open, Settled
<1>4. Fresh \in Row /\ Fresh.status = "pending" /\ Fresh.wait = 0 /\ Fresh.lease = 0
  BY <1>1, <1>3 DEF Fresh, Row
<1>5. /\ Leased(r) \in Row /\ Leased(r).status = "processing" /\ Leased(r).lease = Lease
      /\ Leased(r).wait = r.wait /\ Leased(r).attempts = Counted(r.attempts)
  BY <1>1, <1>2, <1>3 DEF Leased, Row
<1>6. /\ Postponed(r) \in Row /\ Postponed(r).status = r.status
      /\ Postponed(r).wait = Lease /\ Postponed(r).lease = r.lease
      /\ Postponed(r).attempts = Counted(r.attempts)
  BY <1>1, <1>2 DEF Postponed, Row
<1> QED
  BY <1>4, <1>5, <1>6

LEMMA GivenUpOrRetried ==
  ASSUME QueueAssumption, NEW r \in Row, NEW n
  PROVE  /\ GiveUpOrRetry(r, n) \in Row
         /\ GiveUpOrRetry(r, n).status \in {"failed", "pending"}
         /\ GiveUpOrRetry(r, n).lease = 0 /\ GiveUpOrRetry(r, n).attempts = r.attempts
         /\ GiveUpOrRetry(r, n).status = "failed" => n >= MaxAttempts
<1>1. 0 \in 0 .. Lease /\ Backoff \in 0 .. (Lease + Backoff)
  BY Bounds
<1>2. {"pending", "failed"} \subseteq Open \cup Settled
  BY DEF Open, Settled
<1> QED
  BY <1>1, <1>2 DEF GiveUpOrRetry, Row

LEMMA InsertRow ==
  ASSUME QueueAssumption, QueueTypeOK, NEW i \in Items, Insert(i)
  PROVE  /\ row' \in [Items -> Row]
         /\ \A k \in Items :
              row'[k] = IF k = i /\ row[i].status = "none" THEN Fresh ELSE row[k]
<1>1. row \in [Items -> Row]
  BY DEF QueueTypeOK
<1>2. Fresh \in Row
  BY <1>1, RowsTyped
<1>3. row' = IF row[i].status = "none" THEN [row EXCEPT ![i] = Fresh] ELSE row
  BY DEF Insert
<1> QED
  BY <1>1, <1>2, <1>3

LEMMA ClaimRow ==
  ASSUME QueueAssumption, QueueTypeOK, NEW w \in Workers, Claim(w)
  PROVE  /\ row' \in [Items -> Row]
         /\ \A k \in Items :
              row'[k] = IF k \in Batch
                          THEN IF kind = "order" THEN Postponed(row[k]) ELSE Leased(row[k])
                          ELSE row[k]
<1>1. row \in [Items -> Row]
  BY DEF QueueTypeOK
<1>2. row' = [k \in Items |->
                IF k \in Batch
                  THEN IF kind = "order" THEN Postponed(row[k]) ELSE Leased(row[k])
                  ELSE row[k]]
  BY DEF Claim
<1>3. \A k \in Items : row[k] \in Row /\ Postponed(row[k]) \in Row /\ Leased(row[k]) \in Row
  BY <1>1, RowsTyped
<1> QED
  BY <1>2, <1>3

LEMMA MarkDoneRow ==
  ASSUME QueueAssumption, QueueTypeOK, NEW w \in Workers, NEW i \in Items, MarkDone(w, i)
  PROVE  /\ row' \in [Items -> Row]
         /\ \A k \in Items \ {i} : row'[k] = row[k]
         /\ row'[i].status = "processed" /\ row'[i].wait = 0 /\ row'[i].lease = 0
         /\ row'[i].attempts = row[i].attempts
<1> DEFINE done == [row[i] EXCEPT !.status = "processed", !.wait = 0, !.lease = 0]
<1>1. row \in [Items -> Row] /\ row[i] \in Row
  BY DEF QueueTypeOK
<1>2. "processed" \in Open \cup Settled /\ 0 \in 0 .. Lease /\ 0 \in 0 .. (Lease + Backoff)
  BY Bounds DEF Settled
<1>3. /\ done \in Row /\ done.status = "processed" /\ done.wait = 0 /\ done.lease = 0
      /\ done.attempts = row[i].attempts
  BY <1>1, <1>2 DEF Row
<1>4. row' = [row EXCEPT ![i] = done]
  BY DEF MarkDone
<1> HIDE DEF done
<1> QED
  BY <1>1, <1>3, <1>4

LEMMA FailRow ==
  ASSUME QueueAssumption, QueueTypeOK, NEW w \in Workers, NEW i \in Items, Fail(w, i)
  PROVE  /\ row' \in [Items -> Row]
         /\ \A k \in Items \ {i} : row'[k] = row[k]
         /\ IF kind = "order" THEN row'[i] = row[i]
              ELSE /\ row'[i].status \in {"failed", "pending"}
                   /\ row'[i].lease = 0
                   /\ row'[i].attempts = row[i].attempts
                   /\ row'[i].status = "failed" =>
                        \E n \in {job[w][i], row[i].attempts} : n >= MaxAttempts
<1>1. row \in [Items -> Row] /\ row[i] \in Row /\ kind \in {"event", "renewal", "order"}
  BY DEF QueueTypeOK
<1>2. CASE kind = "order"
  BY <1>1, <1>2 DEF Fail, FailOrder
<1>3. CASE kind # "order"
  <2>1. \E n \in {job[w][i], row[i].attempts} : row' = [row EXCEPT ![i] = GiveUpOrRetry(row[i], n)]
    <3>1. CASE kind = "event"
      BY <3>1 DEF Fail, FailEvent
    <3>2. CASE kind = "renewal"
      BY <3>2 DEF Fail, FailRenewal
    <3> QED
      BY <1>1, <1>3, <3>1, <3>2
  <2>2. PICK n \in {job[w][i], row[i].attempts} : row' = [row EXCEPT ![i] = GiveUpOrRetry(row[i], n)]
    BY <2>1
  <2>3. /\ GiveUpOrRetry(row[i], n) \in Row
        /\ GiveUpOrRetry(row[i], n).status \in {"failed", "pending"}
        /\ GiveUpOrRetry(row[i], n).lease = 0
        /\ GiveUpOrRetry(row[i], n).attempts = row[i].attempts
        /\ GiveUpOrRetry(row[i], n).status = "failed" => n >= MaxAttempts
    BY <1>1, GivenUpOrRetried
  <2> QED
    BY <1>1, <1>3, <2>2, <2>3
<1> QED
  BY <1>2, <1>3

LEMMA TickRow ==
  ASSUME QueueAssumption, QueueTypeOK, Tick
  PROVE  /\ row' \in [Items -> Row]
         /\ \A k \in Items : /\ row'[k].status = row[k].status
                             /\ row'[k].wait = Elapse(row[k].wait)
                             /\ row'[k].lease = Elapse(row[k].lease)
                             /\ row'[k].attempts = row[k].attempts
<1> DEFINE later(k) == [row[k] EXCEPT !.wait = Elapse(row[k].wait), !.lease = Elapse(row[k].lease)]
<1>1. row' = [k \in Items |-> later(k)]
  BY DEF Tick
<1>2. \A k \in Items : /\ later(k) \in Row /\ later(k).status = row[k].status
                       /\ later(k).wait = Elapse(row[k].wait)
                       /\ later(k).lease = Elapse(row[k].lease)
                       /\ later(k).attempts = row[k].attempts
  <2> SUFFICES ASSUME NEW k \in Items
               PROVE  /\ later(k) \in Row /\ later(k).status = row[k].status
                      /\ later(k).wait = Elapse(row[k].wait)
                      /\ later(k).lease = Elapse(row[k].lease)
                      /\ later(k).attempts = row[k].attempts
    OBVIOUS
  <2>1. row[k] \in Row /\ row[k].wait \in 0 .. (Lease + Backoff) /\ row[k].lease \in 0 .. Lease
    BY RowFields
  <2>2. Elapse(row[k].wait) \in 0 .. (Lease + Backoff) /\ Elapse(row[k].lease) \in 0 .. Lease
    BY <2>1, Bounds, ElapseBounded
  <2> QED
    BY <2>1, <2>2 DEF Row
<1> HIDE DEF later
<1> QED
  BY <1>1, <1>2

\* No ready row is in a worker's hand, and one that is ready may be claimed
\* without another fault.
LEMMA ReadyIsFree ==
  ASSUME QueueTypeOK, LeasesKept, NEW i \in Items, Ready(i)
  PROVE  Free(i) /\ LeaseLeft(i) = 0 /\ row[i].status \in {"pending", "processing"}
<1>1. row[i].status \in {"pending", "processing"}
  BY DEF Ready
<1>2. LeaseLeft(i) = 0
  BY DEF Ready, LeasesKept, LeaseLeft
<1> QED
  BY <1>1, <1>2 DEF Free, Open

LEMMA BatchReady ==
  \A i \in Batch : i \in Items /\ Ready(i)
  BY DEF Batch

LEMMA DueFinite ==
  ASSUME QueueAssumption, NEW i
  PROVE  IsFiniteSet(Due(i)) /\ Cardinality(Due(i)) \in Nat
  BY FS_Subset, FS_CardinalityType DEF Due, QueueAssumption

-----------------------------------------------------------------------------
(* Types.                                                                  *)

\* The part of the type invariant about the workers.
HandsTyped ==
  /\ job = [w \in Workers |-> job[w]]
  /\ \A w \in Workers :
       /\ Ids(w) \subseteq Items /\ Cardinality(Ids(w)) <= BatchSize
       /\ job[w] \in [Ids(w) -> Nat]
  /\ called \in [Workers -> SUBSET Items]
  /\ \A w \in Workers : called[w] # {} => \E i \in Ids(w) : called[w] = {i}

LEMMA TypeParts ==
  QueueTypeOK <=>
    /\ HandsTyped
    /\ kind \in {"event", "renewal", "order"} /\ row \in [Items -> Row]
    /\ effects \in [Items -> Nat]
    /\ faults \in 0..MaxFaults /\ overran \in BOOLEAN /\ ran \subseteq Workers
  BY DEF QueueTypeOK, HandsTyped

LEMMA ClaimHands ==
  ASSUME QueueAssumption, QueueTypeOK, NEW w \in Workers, Claim(w)
  PROVE  HandsTyped'
<1> DEFINE batch == [i \in Batch |-> Counted(row[i].attempts)]
<1>1. HandsTyped /\ row \in [Items -> Row]
  BY TypeParts
<1>2. job' = [job EXCEPT ![w] = batch] /\ called' = called
  BY DEF Claim
<1>3. Batch \subseteq Items /\ Cardinality(Batch) <= BatchSize
  BY BatchBounded
<1>4. \A i \in Batch : Counted(row[i].attempts) \in Nat
  <2> SUFFICES ASSUME NEW i \in Batch PROVE Counted(row[i].attempts) \in Nat
    OBVIOUS
  <2>1. row[i].attempts \in 0 .. (MaxAttempts + MaxFaults + 1)
    BY <1>3, RowFields
  <2> QED
    BY <2>1, CountedBounded
<1>5. batch \in [Batch -> Nat]
  BY <1>4
<1>6. \A v \in Workers : Ids(v)' = IF v = w THEN Batch ELSE Ids(v)
  BY ClaimIds
<1> HIDE DEF batch
<1>7. /\ job' = [v \in Workers |-> job'[v]]
      /\ \A v \in Workers : job'[v] = IF v = w THEN batch ELSE job[v]
  BY <1>1, <1>2 DEF HandsTyped
<1>8. \A v \in Workers :
        /\ Ids(v)' \subseteq Items /\ Cardinality(Ids(v)') <= BatchSize
        /\ job'[v] \in [Ids(v)' -> Nat]
  BY <1>1, <1>3, <1>5, <1>6, <1>7 DEF HandsTyped
<1>9. \A v \in Workers : called[v] # {} => \E i \in Ids(v)' : called[v] = {i}
  <2>1. called[w] = {}
    BY ClaimIds
  <2> QED
    BY <1>1, <1>6, <2>1 DEF HandsTyped
<1>10. called' \in [Workers -> SUBSET Items]
  BY <1>1, <1>2 DEF HandsTyped
<1> QED
  BY <1>2, <1>7, <1>8, <1>9, <1>10 DEF HandsTyped

LEMMA NextRowHands ==
  ASSUME QueueAssumption, QueueTypeOK, NEW w \in Workers, NEW i, Turn(w, i), NextRow(w, i)
  PROVE  HandsTyped'
<1> DEFINE rest == Restrict(job[w], Ids(w) \ {i})
<1>1. HandsTyped
  BY TypeParts
<1>2. job' = [job EXCEPT ![w] = rest] /\ called' = [called EXCEPT ![w] = {}]
  BY DEF NextRow
<1>3. /\ \A v \in Workers : Ids(v)' = IF v = w THEN Ids(w) \ {i} ELSE Ids(v)
      /\ \A v \in Workers : called'[v] = IF v = w THEN {} ELSE called[v]
  BY NextRowIds
<1>4. Ids(w) \ {i} \subseteq Items /\ Cardinality(Ids(w) \ {i}) <= BatchSize
  <2>1. IsFiniteSet(Ids(w)) /\ Ids(w) \subseteq Items /\ Cardinality(Ids(w)) <= BatchSize
    BY <1>1, FS_Subset DEF HandsTyped, QueueAssumption
  <2>2. /\ Cardinality(Ids(w) \ {i}) <= Cardinality(Ids(w))
        /\ Cardinality(Ids(w) \ {i}) \in Nat /\ Cardinality(Ids(w)) \in Nat
    BY <2>1, FS_Subset, FS_CardinalityType
  <2> QED
    BY <2>1, <2>2 DEF QueueAssumption
<1>5. rest \in [Ids(w) \ {i} -> Nat]
  BY <1>1 DEF HandsTyped, Restrict
<1> HIDE DEF rest
<1>6. /\ job' = [v \in Workers |-> job'[v]]
      /\ \A v \in Workers : job'[v] = IF v = w THEN rest ELSE job[v]
  BY <1>1, <1>2 DEF HandsTyped
<1>7. \A v \in Workers :
        /\ Ids(v)' \subseteq Items /\ Cardinality(Ids(v)') <= BatchSize
        /\ job'[v] \in [Ids(v)' -> Nat]
  BY <1>1, <1>3, <1>4, <1>5, <1>6 DEF HandsTyped
<1>8. called' \in [Workers -> SUBSET Items]
  BY <1>1, <1>2 DEF HandsTyped
<1>9. \A v \in Workers : called'[v] # {} => \E k \in Ids(v)' : called'[v] = {k}
  BY <1>1, <1>3 DEF HandsTyped
<1> QED
  BY <1>6, <1>7, <1>8, <1>9 DEF HandsTyped

LEMMA CrashHands ==
  ASSUME QueueAssumption, QueueTypeOK, NEW w \in Workers, Crash(w)
  PROVE  HandsTyped'
<1>1. HandsTyped
  BY TypeParts
<1>2. job' = [job EXCEPT ![w] = NoJob] /\ called' = [called EXCEPT ![w] = {}]
  BY DEF Crash
<1>3. /\ \A v \in Workers : Ids(v)' = IF v = w THEN {} ELSE Ids(v)
      /\ \A v \in Workers : called'[v] = IF v = w THEN {} ELSE called[v]
  BY CrashIds
<1>4. Cardinality({}) <= BatchSize /\ NoJob \in [{} -> Nat]
  BY FS_EmptySet DEF NoJob, QueueAssumption
<1>5. /\ job' = [v \in Workers |-> job'[v]]
      /\ \A v \in Workers : job'[v] = IF v = w THEN NoJob ELSE job[v]
  BY <1>1, <1>2 DEF HandsTyped
<1>6. \A v \in Workers :
        /\ Ids(v)' \subseteq Items /\ Cardinality(Ids(v)') <= BatchSize
        /\ job'[v] \in [Ids(v)' -> Nat]
  BY <1>1, <1>3, <1>4, <1>5 DEF HandsTyped
<1>7. called' \in [Workers -> SUBSET Items]
  BY <1>1, <1>2 DEF HandsTyped
<1>8. \A v \in Workers : called'[v] # {} => \E k \in Ids(v)' : called'[v] = {k}
  BY <1>1, <1>3 DEF HandsTyped
<1> QED
  BY <1>5, <1>6, <1>7, <1>8 DEF HandsTyped

LEMMA SameHands ==
  ASSUME HandsTyped, UNCHANGED <<job, called>>
  PROVE  HandsTyped'
  BY DEF HandsTyped, Ids

LEMMA HandleHands ==
  ASSUME QueueTypeOK, NEW w \in Workers, NEW i, Handle(w, i)
  PROVE  HandsTyped'
<1>1. HandsTyped
  BY TypeParts
<1>2. job' = job /\ called' = [called EXCEPT ![w] = {i}]
  BY DEF Handle
<1>3. i \in Items /\ i \in Ids(w) /\ \A v \in Workers : called'[v] = IF v = w THEN {i} ELSE called[v]
  BY HandleIds
<1>4. \A v : Ids(v)' = Ids(v)
  BY <1>2 DEF Ids
<1>5. called' \in [Workers -> SUBSET Items]
  BY <1>1, <1>2, <1>3 DEF HandsTyped
<1>6. \A v \in Workers : called'[v] # {} => \E k \in Ids(v) : called'[v] = {k}
  BY <1>1, <1>3 DEF HandsTyped
<1> QED
  BY <1>1, <1>2, <1>4, <1>5, <1>6 DEF HandsTyped

\* Every step keeps the types.
LEMMA QueueTypeStep ==
  ASSUME QueueAssumption, QueueTypeOK, [QueueNext]_queueVars
  PROVE  QueueTypeOK'
<1>0. /\ HandsTyped /\ kind \in {"event", "renewal", "order"} /\ row \in [Items -> Row]
      /\ effects \in [Items -> Nat] /\ faults \in 0..MaxFaults /\ overran \in BOOLEAN
      /\ ran \subseteq Workers
  BY TypeParts
<1> SUFFICES /\ HandsTyped' /\ kind' \in {"event", "renewal", "order"} /\ row' \in [Items -> Row]
             /\ effects' \in [Items -> Nat] /\ faults' \in 0..MaxFaults /\ overran' \in BOOLEAN
             /\ ran' \subseteq Workers
  BY DEF QueueTypeOK, HandsTyped
<1>1. ASSUME NEW i \in Items, Insert(i)
      PROVE  /\ HandsTyped' /\ kind' = kind /\ row' \in [Items -> Row]
             /\ effects' = effects /\ faults' = faults /\ overran' = overran /\ ran' = ran
  <2>1. HandsTyped' /\ row' \in [Items -> Row]
    BY <1>0, <1>1, SameHands, InsertRow DEF Insert
  <2> QED
    BY <1>1, <2>1 DEF Insert, history
<1>2. ASSUME NEW w \in Workers, Claim(w)
      PROVE  /\ HandsTyped' /\ kind' = kind /\ row' \in [Items -> Row]
             /\ effects' = effects /\ faults' = faults /\ overran' = overran /\ ran' \subseteq Workers
  <2>1. HandsTyped' /\ row' \in [Items -> Row]
    BY <1>2, ClaimHands, ClaimRow
  <2> QED
    BY <1>0, <1>2, <2>1 DEF Claim, history
<1>3. ASSUME NEW w \in Workers, NEW i \in Items, Handle(w, i)
      PROVE  /\ HandsTyped' /\ kind' = kind /\ row' \in [Items -> Row]
             /\ effects' \in [Items -> Nat] /\ faults' = faults /\ overran' = overran /\ ran' = ran
  <2>1. HandsTyped' /\ effects' \in [Items -> Nat]
    BY <1>3, HandleHands, HandleIds
  <2> QED
    BY <1>0, <1>3, <2>1 DEF Handle, history
<1>4. ASSUME NEW w \in Workers, NEW i \in Items, MarkDone(w, i)
      PROVE  /\ HandsTyped' /\ kind' = kind /\ row' \in [Items -> Row]
             /\ effects' = effects /\ faults' = faults /\ overran' = overran /\ ran' = ran
  <2>1. HandsTyped' /\ row' \in [Items -> Row]
    BY <1>4, NextRowHands, MarkDoneRow DEF MarkDone
  <2> QED
    BY <1>4, <2>1 DEF MarkDone, history
<1>5. ASSUME NEW w \in Workers, NEW i \in Items, Fail(w, i)
      PROVE  /\ HandsTyped' /\ kind' = kind /\ row' \in [Items -> Row]
             /\ effects' = effects /\ overran' = overran /\ ran' = ran
  <2>1. HandsTyped' /\ row' \in [Items -> Row]
    BY <1>5, NextRowHands, FailRow DEF Fail
  <2> QED
    BY <1>5, <2>1 DEF Fail
<1>6. ASSUME NEW w \in Workers, Crash(w)
      PROVE  /\ HandsTyped' /\ kind' = kind /\ row' \in [Items -> Row]
             /\ effects' = effects /\ faults' \in 0..MaxFaults /\ overran' = overran /\ ran' = ran
  <2>1. HandsTyped'
    BY <1>6, CrashHands
  <2>2. faults' \in 0..MaxFaults
    BY <1>0, <1>6, Bounds DEF Crash
  <2> QED
    BY <1>0, <1>6, <2>1, <2>2 DEF Crash
<1>7. ASSUME Tick
      PROVE  /\ HandsTyped' /\ kind' = kind /\ row' \in [Items -> Row]
             /\ effects' = effects /\ faults' \in 0..MaxFaults /\ overran' \in BOOLEAN /\ ran' = {}
  <2>1. HandsTyped' /\ row' \in [Items -> Row]
    BY <1>0, <1>7, SameHands, TickRow DEF Tick
  <2>2. faults' \in 0..MaxFaults /\ overran' \in BOOLEAN
    <3>1. \/ faults < MaxFaults /\ faults' = faults + 1 /\ overran' = TRUE
          \/ faults' = faults /\ overran' = overran
      BY <1>7, Zenon DEF Tick
    <3>2. overran' \in BOOLEAN
      BY <1>0, <3>1, Zenon
    <3>3. faults' \in 0..MaxFaults
      BY <1>0, <3>1, Bounds
    <3> QED
      BY <3>2, <3>3
  <2> QED
    BY <1>7, <2>1, <2>2 DEF Tick
<1>8. ASSUME NEW w \in Workers, NEW i \in Items, Reject(w, i) \/ Falter(w, i)
      PROVE  /\ Fail(w, i) /\ faults' \in 0..MaxFaults
  BY <1>0, <1>8, Bounds DEF Reject, Falter
<1>9. CASE UNCHANGED queueVars
  BY <1>0, <1>9, SameHands DEF queueVars
<1>10. CASE \E i \in Items : EnqueueEvent(i) \/ EnqueueReminder(i) \/ EnqueueConfirmation(i)
  BY <1>0, <1>1, <1>10 DEF EnqueueEvent, EnqueueReminder, EnqueueConfirmation
<1>11. CASE \E w \in Workers : \/ Claim(w) \/ Crash(w)
                               \/ \E i \in Items : Handle(w, i) \/ MarkDone(w, i)
  BY <1>0, <1>2, <1>3, <1>4, <1>6, <1>11
<1>12. CASE \E w \in Workers : \E i \in Items : Reject(w, i) \/ Falter(w, i)
  BY <1>0, <1>5, <1>8, <1>12
<1>13. CASE Tick
  BY <1>0, <1>7, <1>13
<1> QED
  BY <1>9, <1>10, <1>11, <1>12, <1>13 DEF QueueNext

-----------------------------------------------------------------------------
(* The invariant.                                                          *)

\* A step that gives no worker a new claim, and either makes no row free or is a
\* fault, keeps the budget of a row.
LEMMA BudgetKept ==
  ASSUME QueueAssumption, NEW i, Budget(i), effects[i] \in Nat,
         faults \in Nat, faults' \in Nat,
         Due(i)' \subseteq Due(i), effects'[i] = effects[i],
         \/ (Free(i)' => Free(i)) /\ faults' >= faults
         \/ faults' = faults + 1
  PROVE  Budget(i)'
<1>1. /\ Cardinality(Due(i)') <= Cardinality(Due(i))
      /\ Cardinality(Due(i)') \in Nat /\ Cardinality(Due(i)) \in Nat
  BY DueFinite, FS_Subset, FS_CardinalityType
<1> DEFINE n == Cardinality(Due(i)) m == Cardinality(Due(i)')
           a == IF Free(i) THEN 1 ELSE 0
           b == IF Free(i)' THEN 1 ELSE 0
<1>2. a \in {0, 1} /\ b \in {0, 1} /\ ((b <= a /\ faults' >= faults) \/ faults' = faults + 1)
  <2>1. a \in {0, 1} /\ b \in {0, 1} /\ ((Free(i)' => Free(i)) => b <= a)
    OBVIOUS
  <2> QED
    BY <2>1
<1>3. effects[i] + n + a <= 1 + faults
  BY DEF Budget
<1>4. n \in Nat /\ m \in Nat /\ m <= n
  BY <1>1
<1> HIDE DEF n, m, a, b
<1>5. effects'[i] + m + b <= 1 + faults'
  BY <1>2, <1>3, <1>4
<1> QED
  BY <1>5 DEF Budget, m, b

\* The workers' claims on a row are those they had.
LEMMA SameDue ==
  ASSUME NEW i,
         \A w \in Workers : (i \in Ids(w)' /\ called'[w] # {i}) => (i \in Ids(w) /\ called[w] # {i})
  PROVE  Due(i)' \subseteq Due(i)
  BY DEF Due

LEMMA InsertKeeps ==
  ASSUME QueueAssumption, QueueInv, QueueTypeOK', NEW i \in Items, Insert(i)
  PROVE  QueueInv'
<1>1. UNCHANGED <<job, called, effects, kind, faults, overran>>
  BY DEF Insert, history
<1>2. QueueTypeOK /\ LeasesKept
  BY DEF QueueInv
<1>3. /\ \A v : Ids(v)' = Ids(v)
      /\ Held' = Held
      /\ \A k : Due(k)' = Due(k)
  BY <1>1 DEF Ids, Held, Due
<1>4. \A k \in Items : row'[k] = IF k = i /\ row[i].status = "none" THEN Fresh ELSE row[k]
  BY <1>2, InsertRow
<1>5. Fresh.status = "pending" /\ Fresh.wait = 0 /\ Fresh.lease = 0
  BY DEF Fresh
<1>6. row[i].status = "none" => LeaseLeft(i) = 0
  BY <1>2 DEF LeasesKept, LeaseLeft
<1>7. LeasesKept'
  BY <1>1, <1>2, <1>4, <1>5 DEF LeasesKept
<1>8. HeldLeased'
  <2> SUFFICES ASSUME ~overran, NEW k \in Held
               PROVE  /\ row'[k].status = IF kind = "order" THEN "pending" ELSE "processing"
                      /\ LeaseLeft(k)' > 0
    BY <1>1, <1>3 DEF HeldLeased
  <2>1. /\ row[k].status = IF kind = "order" THEN "pending" ELSE "processing"
        /\ LeaseLeft(k) > 0
    BY DEF QueueInv, HeldLeased
  <2>2. k \in Items
    BY <1>2 DEF QueueTypeOK, Held
  <2>3. row'[k] = row[k]
    BY <1>4, <2>1, <2>2
  <2> QED
    BY <1>1, <2>1, <2>3 DEF LeaseLeft
<1>9. CalledTookEffect'
  BY <1>1 DEF QueueInv, CalledTookEffect, TookEffect
<1>10. EffectsBudgeted'
  <2> SUFFICES ASSUME NEW k \in Items \ Poison PROVE Budget(k)'
    BY DEF EffectsBudgeted
  <2>1. Free(k)' => Free(k)
    <3>1. CASE k = i /\ row[i].status = "none"
      BY <1>6, <3>1 DEF Free, Open
    <3>2. CASE ~(k = i /\ row[i].status = "none")
      <4>1. row'[k] = row[k]
        BY <1>4, <3>2
      <4> QED
        BY <1>1, <1>3, <4>1 DEF Free, LeaseLeft
    <3> QED
      BY <3>1, <3>2
  <2>2. effects[k] \in Nat /\ faults \in Nat /\ faults' = faults
    BY <1>1, <1>2, RowFields, Bounds DEF QueueTypeOK
  <2>3. Budget(k)
    BY DEF QueueInv, EffectsBudgeted
  <2> QED
    BY <1>1, <1>3, <2>1, <2>2, <2>3, BudgetKept
<1>11. OneOwner'
  BY <1>1, <1>3 DEF QueueInv, OneOwner
<1>12. DoneMeansDelivered'
  BY <1>1, <1>4, <1>5 DEF QueueInv, DoneMeansDelivered
<1> QED
  BY <1>7, <1>8, <1>9, <1>10, <1>11, <1>12 DEF QueueInv

\* No row that is claimed is in another hand, as long as the leases hold.
LEMMA BatchNotHeld ==
  ASSUME QueueTypeOK, LeasesKept, HeldLeased, ~overran
  PROVE  Batch \cap Held = {}
<1> SUFFICES ASSUME NEW i \in Batch, i \in Held PROVE FALSE
  OBVIOUS
<1>1. i \in Items /\ LeaseLeft(i) = 0
  BY BatchReady, ReadyIsFree
<1>2. LeaseLeft(i) > 0
  BY DEF HeldLeased
<1> QED
  BY <1>1, <1>2

LEMMA ClaimKeeps ==
  ASSUME QueueAssumption, QueueInv, QueueTypeOK', NEW w \in Workers, Claim(w)
  PROVE  QueueInv'
<1>1. UNCHANGED <<called, effects, kind, faults, overran>>
  BY DEF Claim, history
<1>2. QueueTypeOK /\ LeasesKept /\ HeldLeased
  BY DEF QueueInv
<1>3. /\ Ids(w) = {} /\ called[w] = {}
      /\ \A v \in Workers : Ids(v)' = IF v = w THEN Batch ELSE Ids(v)
      /\ Held' = Held \cup Batch
  BY <1>2, ClaimIds
<1>4. \A k \in Items :
        row'[k] = IF k \in Batch
                    THEN IF kind = "order" THEN Postponed(row[k]) ELSE Leased(row[k])
                    ELSE row[k]
  BY <1>2, ClaimRow
<1>5. \A k \in Batch : /\ k \in Items /\ Ready(k) /\ Free(k)
                       /\ row[k].status \in {"pending", "processing"}
  BY <1>2, BatchReady, ReadyIsFree
<1>6. \A k \in Batch : kind = "order" => row[k].status = "pending"
  BY <1>2, <1>5 DEF LeasesKept
<1>7. \A k \in Batch :
        /\ row'[k].status = IF kind = "order" THEN "pending" ELSE "processing"
        /\ LeaseLeft(k)' = Lease
        /\ kind = "order" => row'[k].lease = row[k].lease
  <2> SUFFICES ASSUME NEW k \in Batch
               PROVE  /\ row'[k].status = IF kind = "order" THEN "pending" ELSE "processing"
                      /\ LeaseLeft(k)' = Lease
                      /\ kind = "order" => row'[k].lease = row[k].lease
    OBVIOUS
  <2>1. k \in Items /\ row[k] \in Row
    BY <1>2, <1>5, RowFields
  <2>2. /\ Leased(row[k]).status = "processing" /\ Leased(row[k]).lease = Lease
        /\ Postponed(row[k]).status = row[k].status
        /\ Postponed(row[k]).wait = Lease /\ Postponed(row[k]).lease = row[k].lease
    BY <2>1, RowsTyped
  <2>3. row'[k] = IF kind = "order" THEN Postponed(row[k]) ELSE Leased(row[k])
    BY <1>4, <2>1
  <2> QED
    BY <1>1, <1>6, <2>2, <2>3 DEF LeaseLeft
<1>8. LeasesKept'
  <2> SUFFICES ASSUME NEW k \in Items
               PROVE  /\ kind = "order" => row'[k].status # "processing"
                      /\ row'[k].status # "processing" => row'[k].lease = 0
                      /\ row'[k].status = "none" => row'[k].wait = 0
    BY <1>1 DEF LeasesKept
  <2>1. CASE k \in Batch
    BY <1>2, <1>6, <1>7, <2>1 DEF LeasesKept
  <2>2. CASE k \notin Batch
    BY <1>2, <1>4, <2>2 DEF LeasesKept
  <2> QED
    BY <2>1, <2>2
<1>9. HeldLeased'
  <2> SUFFICES ASSUME ~overran, NEW k \in Held'
               PROVE  /\ row'[k].status = IF kind = "order" THEN "pending" ELSE "processing"
                      /\ LeaseLeft(k)' > 0
    BY <1>1 DEF HeldLeased
  <2>1. CASE k \in Batch
    BY <1>7, <2>1, Bounds
  <2>2. CASE k \notin Batch
    <3>1. k \in Held /\ k \in Items
      BY <1>2, <1>3, <2>2 DEF Held, QueueTypeOK
    <3>2. row'[k] = row[k]
      BY <1>4, <2>2, <3>1
    <3> QED
      BY <1>1, <1>2, <3>1, <3>2 DEF HeldLeased, LeaseLeft
  <2> QED
    BY <2>1, <2>2
<1>10. CalledTookEffect'
  BY <1>1 DEF QueueInv, CalledTookEffect, TookEffect
<1>11. EffectsBudgeted'
  <2> SUFFICES ASSUME NEW k \in Items \ Poison PROVE Budget(k)'
    BY DEF EffectsBudgeted
  <2>1. effects[k] \in Nat /\ faults \in Nat /\ faults' = faults
    BY <1>1, <1>2, RowFields, Bounds DEF QueueTypeOK
  <2>2. Budget(k)
    BY DEF QueueInv, EffectsBudgeted
  <2>3. CASE k \notin Batch
    <3>1. Due(k)' \subseteq Due(k)
      BY <1>1, <1>3, <2>3, SameDue
    <3>2. row'[k] = row[k] /\ (k \in Held' <=> k \in Held)
      BY <1>3, <1>4, <2>3
    <3>3. Free(k)' => Free(k)
      BY <1>1, <3>2 DEF Free, LeaseLeft
    <3> QED
      BY <1>1, <2>1, <2>2, <3>1, <3>3, BudgetKept
  <2>4. CASE k \in Batch
    <3>1. Due(k)' = Due(k) \cup {w} /\ w \notin Due(k)
      BY <1>1, <1>3, <2>4 DEF Due
    <3>2. /\ Cardinality(Due(k)') = Cardinality(Due(k)) + 1
          /\ Cardinality(Due(k)) \in Nat
      BY <3>1, DueFinite, FS_AddElement
    <3>3. Free(k)
      BY <1>5, <2>4
    <3>4. ~Free(k)'
      <4>1. k \in Held' /\ LeaseLeft(k)' # 0
        BY <1>3, <1>7, <2>4, Bounds
      <4> QED
        BY <4>1 DEF Free
    <3>5. effects[k] + Cardinality(Due(k)) + 1 <= 1 + faults
      BY <2>2, <3>3 DEF Budget
    <3>6. effects'[k] + Cardinality(Due(k)') + 0 <= 1 + faults'
      BY <1>1, <2>1, <3>2, <3>5
    <3> QED
      BY <3>4, <3>6 DEF Budget
  <2> QED
    BY <2>3, <2>4
<1>12. OneOwner'
  <2> SUFFICES ASSUME ~overran, NEW u \in Workers, NEW v \in Workers, u # v
               PROVE  Ids(u)' \cap Ids(v)' = {}
    BY <1>1 DEF OneOwner
  <2>1. Batch \cap Held = {}
    BY <1>2, BatchNotHeld
  <2>2. \A x \in Workers : Ids(x) \subseteq Held
    BY DEF Held
  <2>3. Ids(u) \cap Ids(v) = {}
    BY DEF QueueInv, OneOwner
  <2> QED
    BY <1>3, <2>1, <2>2, <2>3
<1>13. DoneMeansDelivered'
  <2> SUFFICES ASSUME NEW k \in Items, row'[k].status = "processed"
               PROVE  effects[k] > 0 \/ (kind = "order" /\ k \in Moot)
    BY <1>1 DEF DoneMeansDelivered
  <2>1. k \notin Batch
    BY <1>7
  <2> QED
    BY <1>4, <2>1 DEF QueueInv, DoneMeansDelivered
<1> QED
  BY <1>8, <1>9, <1>10, <1>11, <1>12, <1>13 DEF QueueInv

LEMMA HandleKeeps ==
  ASSUME QueueAssumption, QueueInv, QueueTypeOK', NEW w \in Workers, NEW i \in Items, Handle(w, i)
  PROVE  QueueInv'
<1>1. UNCHANGED <<row, job, kind, faults, overran>>
  BY DEF Handle, history
<1>2. QueueTypeOK /\ CalledTookEffect
  BY DEF QueueInv
<1>3. /\ i \in Items \ Poison /\ i \in Ids(w) /\ called[w] = {}
      /\ \A v \in Workers : called'[v] = IF v = w THEN {i} ELSE called[v]
      /\ \A k \in Items : effects'[k] = IF k = i THEN Effect(i) ELSE effects[k]
      /\ effects' \in [Items -> Nat]
      /\ Effect(i) <= effects[i] + 1
      /\ Effect(i) > 0 \/ (kind = "order" /\ i \in Moot)
  BY <1>2, HandleIds, Zenon
<1>4. (\A v : Ids(v)' = Ids(v)) /\ Held' = Held
  BY <1>1 DEF Ids, Held
<1>5. LeasesKept' /\ HeldLeased' /\ OneOwner'
  BY <1>1, <1>4 DEF QueueInv, LeasesKept, HeldLeased, OneOwner, LeaseLeft
<1>6. \A k \in Items : TookEffect(k) => TookEffect(k)'
  BY <1>1, <1>3 DEF TookEffect
<1>7. TookEffect(i)'
  BY <1>1, <1>3 DEF TookEffect
<1>8. CalledTookEffect'
  <2>1. \A v \in Workers : \A k \in called'[v] : TookEffect(k)'
    <3> SUFFICES ASSUME NEW v \in Workers, NEW k \in called'[v] PROVE TookEffect(k)'
      OBVIOUS
    <3>1. CASE v = w
      BY <1>3, <1>7, <3>1
    <3>2. CASE v # w
      <4>1. k \in called[v] /\ k \in Items
        BY <1>2, <1>3, <3>2 DEF QueueTypeOK
      <4> QED
        BY <1>2, <1>6, <4>1 DEF CalledTookEffect
    <3> QED
      BY <3>1, <3>2
  <2>2. \A k \in Poison : effects'[k] = 0 /\ \A v \in Workers : k \notin called'[v]
    BY <1>2, <1>3 DEF CalledTookEffect, QueueAssumption
  <2> QED
    BY <2>1, <2>2 DEF CalledTookEffect
<1>9. EffectsBudgeted'
  <2> SUFFICES ASSUME NEW k \in Items \ Poison PROVE Budget(k)'
    BY DEF EffectsBudgeted
  <2>1. effects[k] \in Nat /\ faults \in Nat
    BY <1>2, RowFields, Bounds DEF QueueTypeOK
  <2>2. Budget(k)
    BY DEF QueueInv, EffectsBudgeted
  <2>3. Free(k)' <=> Free(k)
    BY <1>1, <1>4 DEF Free, LeaseLeft
  <2>4. CASE k # i
    <3>1. Due(k)' \subseteq Due(k)
      BY <1>3, <1>4, <2>4, SameDue
    <3>2. effects'[k] = effects[k] /\ faults' = faults
      BY <1>1, <1>3, <2>4
    <3>3. faults' \in Nat /\ faults' >= faults
      BY <2>1, <3>2
    <3> QED
      BY <2>1, <2>2, <2>3, <3>1, <3>2, <3>3, BudgetKept
  <2>5. CASE k = i
    <3>1. Due(i)' = Due(i) \ {w} /\ w \in Due(i)
      BY <1>3, <1>4 DEF Due
    <3>2. Cardinality(Due(i)') = Cardinality(Due(i)) - 1 /\ Cardinality(Due(i)) \in Nat
      BY <3>1, DueFinite, FS_RemoveElement
    <3>3. effects'[i] <= effects[i] + 1 /\ effects'[i] \in Nat
      BY <1>3, HandleIds, <1>2
    <3> DEFINE free == IF Free(k) THEN 1 ELSE 0
    <3>4. free \in {0, 1} /\ effects[i] + Cardinality(Due(i)) + free <= 1 + faults
      BY <2>2, <2>5 DEF Budget
    <3>5. free = IF Free(k)' THEN 1 ELSE 0
      BY <2>3
    <3> HIDE DEF free
    <3>6. effects'[i] + Cardinality(Due(i)') + free <= 1 + faults'
      BY <1>1, <2>1, <2>5, <3>2, <3>3, <3>4
    <3> QED
      BY <2>5, <3>5, <3>6 DEF Budget
  <2> QED
    BY <2>4, <2>5
<1>10. DoneMeansDelivered'
  BY <1>1, <1>6 DEF QueueInv, DoneMeansDelivered, TookEffect
<1> QED
  BY <1>5, <1>8, <1>9, <1>10 DEF QueueInv

\* The end of a row, marked done or failed, for what it leaves of the others.
LEMMA EndKeeps ==
  ASSUME QueueAssumption, QueueInv, QueueTypeOK',
         NEW w \in Workers, NEW i \in Items, Turn(w, i), NextRow(w, i),
         UNCHANGED <<kind, effects, overran>>,
         \A k \in Items \ {i} : row'[k] = row[k],
         faults' = faults \/ faults' = faults + 1
  PROVE  /\ HeldLeased' /\ CalledTookEffect' /\ OneOwner'
         /\ \A k \in Items \ Poison : Budget(k)' \/ (k = i /\ faults' = faults)
<1>1. QueueTypeOK /\ HeldLeased /\ CalledTookEffect /\ OneOwner
  BY DEF QueueInv
<1>2. /\ i \in Ids(w) /\ i \in Items /\ called[w] \subseteq {i}
      /\ \A v \in Workers : Ids(v)' = IF v = w THEN Ids(w) \ {i} ELSE Ids(v)
      /\ \A v \in Workers : called'[v] = IF v = w THEN {} ELSE called[v]
      /\ Held' \subseteq Held /\ Held \ {i} \subseteq Held'
  BY <1>1, NextRowIds
<1>3. HeldLeased'
  <2> SUFFICES ASSUME ~overran, NEW k \in Held'
               PROVE  /\ row'[k].status = IF kind = "order" THEN "pending" ELSE "processing"
                      /\ LeaseLeft(k)' > 0
    BY DEF HeldLeased
  <2>1. PICK v \in Workers : k \in Ids(v)'
    BY DEF Held
  <2>2. k # i
    BY <1>1, <1>2, <2>1 DEF OneOwner
  <2>3. k \in Held /\ k \in Items
    BY <1>1, <1>2 DEF Held, QueueTypeOK
  <2>4. row'[k] = row[k]
    BY <2>2, <2>3
  <2> QED
    BY <1>1, <2>3, <2>4 DEF HeldLeased, LeaseLeft
<1>4. CalledTookEffect'
  BY <1>1, <1>2 DEF CalledTookEffect, TookEffect
<1>5. OneOwner'
  BY <1>1, <1>2 DEF OneOwner
<1>6. ASSUME NEW k \in Items \ Poison, k # i \/ faults' # faults
      PROVE  Budget(k)'
  <2>1. effects[k] \in Nat /\ faults \in Nat /\ faults' \in Nat
    BY <1>1, RowFields, Bounds DEF QueueTypeOK
  <2>2. Budget(k)
    BY DEF QueueInv, EffectsBudgeted
  <2>3. Due(k)' \subseteq Due(k)
    <3>1. CASE k = i
      BY <1>2, <3>1, SameDue
    <3>2. CASE k # i
      BY <1>2, <3>2, SameDue
    <3> QED
      BY <3>1, <3>2
  <2>4. k # i => (Free(k)' => Free(k))
    <3> SUFFICES ASSUME k # i, Free(k)' PROVE Free(k)
      OBVIOUS
    <3>1. row'[k] = row[k] /\ (k \in Held' <=> k \in Held)
      BY <1>2
    <3> QED
      BY <3>1 DEF Free, LeaseLeft
  <2>5. ((Free(k)' => Free(k)) /\ faults' >= faults) \/ faults' = faults + 1
    BY <1>6, <2>1, <2>4
  <2> QED
    BY <2>1, <2>2, <2>3, <2>5, BudgetKept
<1> QED
  BY <1>3, <1>4, <1>5, <1>6

LEMMA MarkDoneKeeps ==
  ASSUME QueueAssumption, QueueInv, QueueTypeOK', NEW w \in Workers, NEW i \in Items, MarkDone(w, i)
  PROVE  QueueInv'
<1>1. UNCHANGED <<kind, effects, faults, overran>> /\ Turn(w, i) /\ NextRow(w, i) /\ called[w] = {i}
  BY DEF MarkDone, history
<1>2. QueueTypeOK /\ LeasesKept /\ CalledTookEffect
  BY DEF QueueInv
<1>3. /\ \A k \in Items \ {i} : row'[k] = row[k]
      /\ row'[i].status = "processed" /\ row'[i].wait = 0 /\ row'[i].lease = 0
  BY <1>2, MarkDoneRow
<1>4. /\ HeldLeased' /\ CalledTookEffect' /\ OneOwner'
      /\ \A k \in Items \ Poison : Budget(k)' \/ (k = i /\ faults' = faults)
  BY <1>1, <1>3, EndKeeps
<1>5. LeasesKept'
  BY <1>1, <1>2, <1>3 DEF LeasesKept
<1>6. DoneMeansDelivered'
  <2>1. TookEffect(i)
    BY <1>1, <1>2 DEF CalledTookEffect
  <2> QED
    BY <1>1, <1>3, <2>1 DEF QueueInv, DoneMeansDelivered, TookEffect
<1>7. i \notin Poison => Budget(i)'
  <2> SUFFICES ASSUME i \notin Poison PROVE Budget(i)'
    OBVIOUS
  <2>1. effects[i] \in Nat /\ faults \in Nat
    BY <1>2, RowFields, Bounds DEF QueueTypeOK
  <2>2. Budget(i)
    BY DEF QueueInv, EffectsBudgeted
  <2>3. Due(i)' \subseteq Due(i)
    BY <1>1, <1>2, NextRowIds, SameDue
  <2>4. ~Free(i)'
    BY <1>3 DEF Free, Open
  <2> QED
    BY <1>1, <2>1, <2>2, <2>3, <2>4, BudgetKept
<1>8. EffectsBudgeted'
  BY <1>4, <1>7 DEF EffectsBudgeted
<1> QED
  BY <1>4, <1>5, <1>6, <1>8 DEF QueueInv

LEMMA FailKeeps ==
  ASSUME QueueAssumption, QueueInv, QueueTypeOK', NEW w \in Workers, NEW i \in Items,
         Fail(w, i), \/ i \in Poison /\ faults' = faults
                     \/ faults' = faults + 1
  PROVE  QueueInv'
<1>1. UNCHANGED <<kind, effects, overran>> /\ Turn(w, i) /\ NextRow(w, i)
  BY DEF Fail
<1>2. QueueTypeOK /\ LeasesKept /\ faults \in Nat
  BY Bounds DEF QueueInv, QueueTypeOK
<1>3. /\ \A k \in Items \ {i} : row'[k] = row[k]
      /\ IF kind = "order" THEN row'[i] = row[i]
           ELSE row'[i].status \in {"failed", "pending"} /\ row'[i].lease = 0
  BY <1>2, FailRow
<1>4. /\ HeldLeased' /\ CalledTookEffect' /\ OneOwner'
      /\ \A k \in Items \ Poison : Budget(k)' \/ (k = i /\ faults' = faults)
  BY <1>1, <1>3, EndKeeps
<1>5. LeasesKept'
  BY <1>1, <1>2, <1>3 DEF LeasesKept
<1>6. DoneMeansDelivered'
  BY <1>1, <1>3 DEF QueueInv, DoneMeansDelivered
<1>7. EffectsBudgeted'
  <2>1. \A k \in Items \ Poison : ~(k = i /\ faults' = faults)
    BY <1>2
  <2> QED
    BY <1>4, <2>1 DEF EffectsBudgeted
<1> QED
  BY <1>4, <1>5, <1>6, <1>7 DEF QueueInv

LEMMA CrashKeeps ==
  ASSUME QueueAssumption, QueueInv, QueueTypeOK', NEW w \in Workers, Crash(w)
  PROVE  QueueInv'
<1>1. UNCHANGED <<kind, row, effects, overran>> /\ faults' = faults + 1
  BY DEF Crash
<1>2. QueueTypeOK /\ HeldLeased /\ CalledTookEffect /\ OneOwner /\ faults \in Nat
  BY Bounds DEF QueueInv, QueueTypeOK
<1>3. /\ \A v \in Workers : Ids(v)' = IF v = w THEN {} ELSE Ids(v)
      /\ \A v \in Workers : called'[v] = IF v = w THEN {} ELSE called[v]
      /\ Held' \subseteq Held
  BY <1>2, CrashIds
<1>4. LeasesKept' /\ DoneMeansDelivered'
  BY <1>1 DEF QueueInv, LeasesKept, DoneMeansDelivered
<1>5. HeldLeased'
  BY <1>1, <1>2, <1>3 DEF HeldLeased, LeaseLeft
<1>6. CalledTookEffect'
  BY <1>1, <1>2, <1>3 DEF CalledTookEffect, TookEffect
<1>7. OneOwner'
  BY <1>1, <1>2, <1>3 DEF OneOwner
<1>8. EffectsBudgeted'
  <2> SUFFICES ASSUME NEW k \in Items \ Poison PROVE Budget(k)'
    BY DEF EffectsBudgeted
  <2>1. effects[k] \in Nat /\ Budget(k)
    BY <1>2, RowFields DEF QueueInv, EffectsBudgeted
  <2>2. Due(k)' \subseteq Due(k)
    BY <1>3, SameDue
  <2> QED
    BY <1>1, <1>2, <2>1, <2>2, BudgetKept
<1> QED
  BY <1>4, <1>5, <1>6, <1>7, <1>8 DEF QueueInv

LEMMA TickKeeps ==
  ASSUME QueueAssumption, QueueInv, QueueTypeOK', Tick
  PROVE  QueueInv'
<1>1. UNCHANGED <<kind, job, called, effects>>
  BY DEF Tick
<1>2. \/ faults' = faults + 1 /\ overran' = TRUE
      \/ (\A k \in Held : LeaseLeft(k) # 1) /\ faults' = faults /\ overran' = overran
  BY Zenon DEF Tick
<1>3. QueueTypeOK /\ LeasesKept /\ faults \in Nat
  BY Bounds DEF QueueInv, QueueTypeOK
<1>4. /\ \A v : Ids(v)' = Ids(v)
      /\ Held' = Held
      /\ \A k : Due(k)' = Due(k)
  BY <1>1 DEF Ids, Held, Due
<1>5. \A k \in Items : /\ row'[k].status = row[k].status
                       /\ row'[k].wait = Elapse(row[k].wait)
                       /\ row'[k].lease = Elapse(row[k].lease)
  BY <1>3, TickRow
<1>6. \A k \in Items : /\ LeaseLeft(k) \in Nat
                       /\ LeaseLeft(k)' = 0 <=> LeaseLeft(k) \in {0, 1}
                       /\ LeaseLeft(k)' \in Nat
  <2> SUFFICES ASSUME NEW k \in Items
               PROVE  /\ LeaseLeft(k) \in Nat
                      /\ LeaseLeft(k)' = 0 <=> LeaseLeft(k) \in {0, 1}
                      /\ LeaseLeft(k)' \in Nat
    OBVIOUS
  <2>1. row[k].wait \in 0 .. (Lease + Backoff) /\ row[k].lease \in 0 .. Lease
    BY <1>3, RowFields
  <2>2. LeaseLeft(k) \in Nat
    BY <2>1, Bounds DEF LeaseLeft
  <2>3. LeaseLeft(k)' = Elapse(LeaseLeft(k))
    BY <1>1, <1>5 DEF LeaseLeft
  <2>4. LeaseLeft(k) \in 0 .. LeaseLeft(k)
    BY <2>2
  <2>5. Elapse(LeaseLeft(k)) \in 0 .. LeaseLeft(k) /\ (Elapse(LeaseLeft(k)) = 0 <=> LeaseLeft(k) \in {0, 1})
    BY <2>2, <2>4, ElapseBounded
  <2> QED
    BY <2>2, <2>3, <2>5
<1>7. LeasesKept'
  BY <1>1, <1>3, <1>5 DEF LeasesKept, Elapse
<1>8. HeldLeased'
  <2> SUFFICES ASSUME ~overran', NEW k \in Held
               PROVE  /\ row'[k].status = IF kind = "order" THEN "pending" ELSE "processing"
                      /\ LeaseLeft(k)' > 0
    BY <1>1, <1>4 DEF HeldLeased
  <2>1. ~overran /\ LeaseLeft(k) # 1
    BY <1>2
  <2>2. k \in Items
    BY <1>3 DEF Held, QueueTypeOK
  <2>3. /\ row[k].status = IF kind = "order" THEN "pending" ELSE "processing"
        /\ LeaseLeft(k) > 0
    BY <2>1 DEF QueueInv, HeldLeased
  <2>4. LeaseLeft(k)' # 0 /\ LeaseLeft(k)' \in Nat
    BY <1>6, <2>1, <2>2, <2>3
  <2>5. LeaseLeft(k)' > 0
    BY <2>4
  <2>6. row'[k].status = row[k].status
    BY <1>5, <2>2
  <2> QED
    BY <2>3, <2>5, <2>6
<1>9. CalledTookEffect'
  BY <1>1 DEF QueueInv, CalledTookEffect, TookEffect
<1>10. OneOwner'
  BY <1>2, <1>4 DEF QueueInv, OneOwner
<1>11. DoneMeansDelivered'
  BY <1>1, <1>5 DEF QueueInv, DoneMeansDelivered
<1>12. EffectsBudgeted'
  <2> SUFFICES ASSUME NEW k \in Items \ Poison PROVE Budget(k)'
    BY DEF EffectsBudgeted
  <2>1. effects[k] \in Nat /\ Budget(k)
    BY <1>3, RowFields DEF QueueInv, EffectsBudgeted
  <2>2. ((Free(k)' => Free(k)) /\ faults' >= faults) \/ faults' = faults + 1
    <3>1. CASE faults' = faults + 1
      BY <3>1
    <3>2. CASE (\A j \in Held : LeaseLeft(j) # 1) /\ faults' = faults
      <4>1. Free(k)' => Free(k)
        BY <1>4, <1>5, <1>6, <3>2 DEF Free
      <4>2. faults' >= faults
        BY <1>3, <3>2
      <4> QED
        BY <4>1, <4>2
    <3> QED
      BY <1>2, <3>1, <3>2
  <2>3. faults' \in Nat
    BY <1>2, <1>3
  <2> QED
    BY <1>1, <1>3, <1>4, <2>1, <2>2, <2>3, BudgetKept
<1> QED
  BY <1>7, <1>8, <1>9, <1>10, <1>11, <1>12 DEF QueueInv

LEMMA QueueInitInv ==
  ASSUME QueueAssumption, QueueInit
  PROVE  QueueInv
<1>1. \A w \in Workers : job[w] = NoJob /\ Ids(w) = {} /\ called[w] = {}
  BY DEF QueueInit, Ids, NoJob
<1>2. [Fresh EXCEPT !.status = "none"] = [status |-> "none", attempts |-> 0, wait |-> 0, lease |-> 0]
  BY DEF Fresh
<1>3. row = [i \in Items |-> [status |-> "none", attempts |-> 0, wait |-> 0, lease |-> 0]]
  BY <1>2 DEF QueueInit
<1>4. \A i \in Items : row[i].status = "none" /\ row[i].wait = 0 /\ row[i].lease = 0
  BY <1>3
<1>5. Held = {}
  BY <1>1 DEF Held
<1>6. QueueTypeOK
  <2>1. Cardinality({}) <= BatchSize /\ NoJob \in [{} -> Nat]
    BY FS_EmptySet DEF NoJob, QueueAssumption
  <2>2. HandsTyped
    <3>1. job = [w \in Workers |-> job[w]] /\ called \in [Workers -> SUBSET Items]
      BY DEF QueueInit
    <3>2. \A w \in Workers : Ids(w) \subseteq Items /\ Cardinality(Ids(w)) <= BatchSize
      BY <1>1, <2>1
    <3>3. \A w \in Workers : job[w] \in [Ids(w) -> Nat]
      BY <1>1, <2>1
    <3> QED
      BY <1>1, <3>1, <3>2, <3>3 DEF HandsTyped
  <2>3. row \in [Items -> Row]
    <3>1. [status |-> "none", attempts |-> 0, wait |-> 0, lease |-> 0] \in Row
      BY Bounds DEF Row, Open
    <3> QED
      BY <1>3, <3>1
  <2>4. /\ kind \in {"event", "renewal", "order"} /\ effects \in [Items -> Nat]
        /\ overran \in BOOLEAN /\ ran \subseteq Workers
    BY DEF QueueInit
  <2>5. faults \in 0..MaxFaults
    BY Bounds DEF QueueInit
  <2> QED
    BY <2>2, <2>3, <2>4, <2>5, TypeParts
<1>7. LeasesKept
  BY <1>4 DEF LeasesKept
<1>8. HeldLeased /\ OneOwner
  BY <1>1, <1>5 DEF HeldLeased, OneOwner
<1>9. CalledTookEffect
  BY <1>1 DEF CalledTookEffect, QueueInit, QueueAssumption
<1>10. DoneMeansDelivered
  BY <1>4 DEF DoneMeansDelivered
<1>11. EffectsBudgeted
  <2> SUFFICES ASSUME NEW k \in Items \ Poison PROVE Budget(k)
    BY DEF EffectsBudgeted
  <2>1. Due(k) = {}
    BY <1>1 DEF Due
  <2>2. Cardinality(Due(k)) = 0
    BY <2>1, FS_EmptySet
  <2>3. effects[k] = 0 /\ faults = 0
    BY DEF QueueInit
  <2> QED
    BY <2>2, <2>3 DEF Budget
<1> QED
  BY <1>6, <1>7, <1>8, <1>9, <1>10, <1>11 DEF QueueInv

LEMMA QueueStep ==
  ASSUME QueueAssumption, QueueInv, [QueueNext]_queueVars
  PROVE  QueueInv'
<1>1. QueueTypeOK'
  BY QueueTypeStep DEF QueueInv
<1>2. CASE UNCHANGED queueVars
  <2>1. UNCHANGED <<kind, row, job, called, effects, faults, overran>>
    BY <1>2 DEF queueVars
  <2>2. /\ \A v : Ids(v)' = Ids(v)
        /\ Held' = Held
        /\ \A k : Due(k)' = Due(k)
    BY <2>1 DEF Ids, Held, Due
  <2>3. \A k : Free(k)' <=> Free(k)
    BY <2>1, <2>2 DEF Free, LeaseLeft
  <2>4. EffectsBudgeted'
    BY <2>1, <2>2, <2>3 DEF QueueInv, EffectsBudgeted, Budget
  <2>5. LeasesKept' /\ HeldLeased' /\ CalledTookEffect' /\ OneOwner' /\ DoneMeansDelivered'
    BY <2>1, <2>2 DEF QueueInv, LeasesKept, HeldLeased, CalledTookEffect, TookEffect,
                      OneOwner, DoneMeansDelivered, LeaseLeft
  <2> QED
    BY <1>1, <2>4, <2>5 DEF QueueInv
<1>3. CASE \E i \in Items : EnqueueEvent(i) \/ EnqueueReminder(i) \/ EnqueueConfirmation(i)
  BY <1>1, <1>3, InsertKeeps DEF EnqueueEvent, EnqueueReminder, EnqueueConfirmation
<1>4. CASE \E w \in Workers : \/ Claim(w) \/ Crash(w)
                              \/ \E i \in Items : Handle(w, i) \/ MarkDone(w, i)
  BY <1>1, <1>4, ClaimKeeps, CrashKeeps, HandleKeeps, MarkDoneKeeps
<1>5. CASE \E w \in Workers : \E i \in Items : Reject(w, i)
  BY <1>1, <1>5, FailKeeps DEF Reject
<1>6. CASE \E w \in Workers : \E i \in Items : Falter(w, i)
  BY <1>1, <1>6, FailKeeps DEF Falter
<1>7. CASE Tick
  BY <1>1, <1>7, TickKeeps
<1> QED
  BY <1>2, <1>3, <1>4, <1>5, <1>6, <1>7 DEF QueueNext

-----------------------------------------------------------------------------
(* Attempts.                                                               *)

\* The attempts a worker counted at its claim are no more than those in the row.
AttemptsCounted ==
  \A w \in Workers : \A i \in Ids(w) :
    row[i].status # "none" /\ job[w][i] <= row[i].attempts

AttemptsInv == AttemptsCounted /\ GivenUpAfterAll

\* A step that keeps what the workers hold, and in each row the attempts or more,
\* keeps their counts.
LEMMA CountsKept ==
  ASSUME QueueTypeOK, AttemptsCounted,
         \A w \in Workers : /\ Ids(w)' \subseteq Ids(w)
                            /\ \A i \in Ids(w)' : job'[w][i] = job[w][i],
         \A i \in Items : row[i].status # "none" =>
           row'[i].status # "none" /\ row'[i].attempts = row[i].attempts
  PROVE  AttemptsCounted'
<1> SUFFICES ASSUME NEW w \in Workers, NEW i \in Ids(w)'
             PROVE  row'[i].status # "none" /\ job'[w][i] <= row'[i].attempts
  BY DEF AttemptsCounted
<1>1. i \in Ids(w) /\ i \in Items
  BY DEF QueueTypeOK
<1> QED
  BY <1>1 DEF AttemptsCounted

\* What a worker has left of its batch it has with the attempts of its claim.
LEMMA RestKeepsJobs ==
  ASSUME QueueTypeOK, NEW w \in Workers, NEW i, Turn(w, i), NextRow(w, i)
  PROVE  \A v \in Workers : /\ Ids(v)' \subseteq Ids(v)
                            /\ \A k \in Ids(v)' : job'[v][k] = job[v][k]
<1>1. job = [v \in Workers |-> job[v]] /\ job' = [job EXCEPT ![w] = Restrict(job[w], Ids(w) \ {i})]
  BY DEF QueueTypeOK, NextRow
<1>2. job'[w] = Restrict(job[w], Ids(w) \ {i}) /\ \A v \in Workers \ {w} : job'[v] = job[v]
  BY <1>1
<1>3. \A v \in Workers : Ids(v)' = IF v = w THEN Ids(w) \ {i} ELSE Ids(v)
  BY NextRowIds
<1>4. \A k \in Ids(w) \ {i} : job'[w][k] = job[w][k]
  BY <1>2 DEF Restrict
<1> QED
  BY <1>2, <1>3, <1>4

LEMMA ClaimCounts ==
  ASSUME QueueAssumption, QueueTypeOK, AttemptsInv, NEW w \in Workers, Claim(w)
  PROVE  AttemptsInv'
<1>1. \A v \in Workers : Ids(v)' = IF v = w THEN Batch ELSE Ids(v)
  BY ClaimIds
<1>2. /\ job = [v \in Workers |-> job[v]] /\ kind' = kind
      /\ job' = [job EXCEPT ![w] = [i \in Batch |-> Counted(row[i].attempts)]]
  BY DEF QueueTypeOK, Claim, history
<1>3. /\ \A i \in Batch : job'[w][i] = Counted(row[i].attempts)
      /\ \A v \in Workers \ {w} : job'[v] = job[v]
  BY <1>2
<1>4. ASSUME NEW k \in Items
      PROVE  /\ row'[k].attempts \in Nat /\ row[k].attempts \in Nat
             /\ row'[k].attempts >= row[k].attempts
             /\ k \in Batch => /\ row'[k].attempts = Counted(row[k].attempts)
                               /\ row'[k].status \in {"pending", "processing"}
             /\ k \notin Batch => row'[k] = row[k]
  <2>1. row[k] \in Row /\ row[k].attempts \in 0 .. (MaxAttempts + MaxFaults + 1)
    BY RowFields
  <2>2. row'[k] = IF k \in Batch
                    THEN IF kind = "order" THEN Postponed(row[k]) ELSE Leased(row[k])
                    ELSE row[k]
    BY ClaimRow
  <2>3. Counted(row[k].attempts) >= row[k].attempts /\ Counted(row[k].attempts) \in Nat
    BY <2>1, CountedBounded, Bounds DEF Counted
  <2>4. CASE k \notin Batch
    BY <2>1, <2>2, <2>4
  <2>5. CASE k \in Batch
    <3>1. row'[k].attempts = Counted(row[k].attempts)
      BY <2>1, <2>2, <2>5, RowsTyped
    <3>2. row'[k].status \in {"pending", "processing"}
      <4>1. row[k].status \in {"pending", "processing"}
        BY <2>5, BatchReady DEF Ready
      <4>2. Leased(row[k]).status = "processing" /\ Postponed(row[k]).status = row[k].status
        BY <2>1, RowsTyped
      <4> QED
        BY <2>2, <2>5, <4>1, <4>2
    <3> QED
      BY <2>1, <2>3, <2>5, <3>1, <3>2
  <2> QED
    BY <2>4, <2>5
<1>5. AttemptsCounted'
  <2> SUFFICES ASSUME NEW v \in Workers, NEW i \in Ids(v)'
               PROVE  row'[i].status # "none" /\ job'[v][i] <= row'[i].attempts
    BY DEF AttemptsCounted
  <2>1. CASE v = w
    <3>1. i \in Batch /\ i \in Items
      BY <1>1, <2>1, BatchReady
    <3> QED
      BY <1>3, <1>4, <2>1, <3>1
  <2>2. CASE v # w
    <3>1. i \in Ids(v) /\ i \in Items /\ job'[v][i] = job[v][i] /\ job[v][i] \in Nat
      BY <1>1, <1>3, <2>2 DEF QueueTypeOK
    <3>2. row[i].status # "none" /\ job[v][i] <= row[i].attempts
      BY <3>1 DEF AttemptsInv, AttemptsCounted
    <3> QED
      BY <1>4, <3>1, <3>2
  <2> QED
    BY <2>1, <2>2
<1>6. GivenUpAfterAll'
  BY <1>2, <1>4 DEF AttemptsInv, GivenUpAfterAll
<1> QED
  BY <1>5, <1>6 DEF AttemptsInv

LEMMA FailCounts ==
  ASSUME QueueAssumption, QueueTypeOK, AttemptsInv, NEW w \in Workers, NEW i \in Items, Fail(w, i)
  PROVE  AttemptsInv'
<1>1. kind' = kind /\ Turn(w, i) /\ NextRow(w, i)
  BY DEF Fail
<1>2. /\ \A k \in Items \ {i} : row'[k] = row[k]
      /\ IF kind = "order" THEN row'[i] = row[i]
           ELSE /\ row'[i].status \in {"failed", "pending"}
                /\ row'[i].attempts = row[i].attempts
                /\ row'[i].status = "failed" =>
                     \E n \in {job[w][i], row[i].attempts} : n >= MaxAttempts
  BY FailRow
<1>3. i \in Ids(w) /\ job[w][i] <= row[i].attempts /\ job[w][i] \in Nat /\ row[i].attempts \in Nat
  <2>1. i \in Ids(w)
    BY <1>1 DEF Turn
  <2>2. row[i].attempts \in 0 .. (MaxAttempts + MaxFaults + 1)
    BY RowFields
  <2>3. job[w][i] \in Nat
    BY <2>1 DEF QueueTypeOK
  <2> QED
    BY <2>1, <2>2, <2>3, Bounds DEF AttemptsInv, AttemptsCounted
<1>4. \A k \in Items : row[k].status # "none" =>
        row'[k].status # "none" /\ row'[k].attempts = row[k].attempts
  BY <1>2
<1>5. AttemptsCounted'
  BY <1>1, <1>4, RestKeepsJobs, CountsKept DEF AttemptsInv
<1>6. kind # "order" /\ row'[i].status = "failed" => row'[i].attempts >= MaxAttempts
  BY <1>2, <1>3, Bounds
<1>7. GivenUpAfterAll'
  BY <1>1, <1>2, <1>6 DEF AttemptsInv, GivenUpAfterAll
<1> QED
  BY <1>5, <1>7 DEF AttemptsInv

LEMMA AttemptsStep ==
  ASSUME QueueAssumption, QueueTypeOK, AttemptsInv, [QueueNext]_queueVars
  PROVE  AttemptsInv'
<1>1. ASSUME UNCHANGED <<kind, job>>,
             \A k \in Items :
               \/ row'[k] = row[k]
               \/ row[k].status = "none" /\ row'[k].status = "pending"
               \/ row'[k].status = row[k].status /\ row'[k].attempts = row[k].attempts
      PROVE  AttemptsInv'
  <2>1. \A v : Ids(v)' = Ids(v)
    BY <1>1 DEF Ids
  <2>2. AttemptsCounted'
    BY <1>1, <2>1, CountsKept DEF AttemptsInv
  <2>3. GivenUpAfterAll'
    BY <1>1 DEF AttemptsInv, GivenUpAfterAll
  <2> QED
    BY <2>2, <2>3 DEF AttemptsInv
<1>2. ASSUME NEW i \in Items, Insert(i) PROVE AttemptsInv'
  <2>1. \A k \in Items : \/ row'[k] = row[k]
                         \/ row[k].status = "none" /\ row'[k].status = "pending"
    BY <1>2, InsertRow DEF Fresh
  <2> QED
    BY <1>1, <1>2, <2>1 DEF Insert, history
<1>3. ASSUME NEW w \in Workers, NEW i \in Items, MarkDone(w, i) PROVE AttemptsInv'
  <2>1. kind' = kind /\ Turn(w, i) /\ NextRow(w, i)
    BY <1>3 DEF MarkDone, history
  <2>2. /\ \A k \in Items \ {i} : row'[k] = row[k]
        /\ row'[i].status = "processed" /\ row'[i].attempts = row[i].attempts
    BY <1>3, MarkDoneRow
  <2>3. AttemptsCounted'
    BY <2>1, <2>2, RestKeepsJobs, CountsKept DEF AttemptsInv
  <2>4. GivenUpAfterAll'
    BY <2>1, <2>2 DEF AttemptsInv, GivenUpAfterAll
  <2> QED
    BY <2>3, <2>4 DEF AttemptsInv
<1>4. ASSUME NEW w \in Workers, Crash(w) PROVE AttemptsInv'
  <2>1. \A v \in Workers : Ids(v)' = IF v = w THEN {} ELSE Ids(v)
    BY <1>4, CrashIds
  <2>2. /\ UNCHANGED <<kind, row>> /\ job' = [job EXCEPT ![w] = NoJob]
        /\ job = [v \in Workers |-> job[v]]
    BY <1>4 DEF Crash, QueueTypeOK
  <2>3. \A v \in Workers \ {w} : job'[v] = job[v]
    BY <2>2
  <2>4. AttemptsCounted'
    BY <2>1, <2>2, <2>3, CountsKept DEF AttemptsInv
  <2>5. GivenUpAfterAll'
    BY <2>2 DEF AttemptsInv, GivenUpAfterAll
  <2> QED
    BY <2>4, <2>5 DEF AttemptsInv
<1>5. CASE Tick
  <2>1. \A k \in Items : row'[k].status = row[k].status /\ row'[k].attempts = row[k].attempts
    BY <1>5, TickRow
  <2> QED
    BY <1>1, <1>5, <2>1 DEF Tick
<1>6. CASE UNCHANGED queueVars
  BY <1>1, <1>6 DEF queueVars
<1>7. CASE \E i \in Items : EnqueueEvent(i) \/ EnqueueReminder(i) \/ EnqueueConfirmation(i)
  BY <1>2, <1>7 DEF EnqueueEvent, EnqueueReminder, EnqueueConfirmation
<1>8. CASE \E w \in Workers : \E i \in Items : Handle(w, i)
  BY <1>1, <1>8 DEF Handle, history
<1>9. CASE \E w \in Workers : Claim(w) \/ Crash(w) \/ \E i \in Items : MarkDone(w, i)
  BY <1>3, <1>4, <1>9, ClaimCounts
<1>10. CASE \E w \in Workers : \E i \in Items : Reject(w, i) \/ Falter(w, i)
  BY <1>10, FailCounts DEF Reject, Falter
<1> QED
  BY <1>5, <1>6, <1>7, <1>8, <1>9, <1>10 DEF QueueNext

-----------------------------------------------------------------------------
(* The theorems.                                                           *)

\* The inductive invariant of the queues: workers hold rows under leases, and
\* the effects of a row, had and to come, are one and one for each fault.
THEOREM QueueInvariant == QueueSpec => []QueueInv
<1>1. QueueInit => QueueInv
  BY QueueAssumption, QueueInitInv
<1>2. QueueInv /\ [QueueNext]_queueVars => QueueInv'
  BY QueueAssumption, QueueStep
<1> QED
  BY <1>1, <1>2, PTL DEF QueueSpec

\* Attempts as a worker has counted them lag behind those of the row, which is why
\* neither way of counting gives a row up too early.
THEOREM AttemptsUsedUp == QueueSpec => []AttemptsInv
<1>1. QueueInit => AttemptsInv
  <2>1. QueueInit => \A w \in Workers : Ids(w) = {}
    BY DEF QueueInit, Ids, NoJob
  <2>2. QueueInit => \A i \in Items : row[i].status = "none"
    BY DEF QueueInit, Fresh
  <2> QED
    BY <2>1, <2>2 DEF AttemptsInv, AttemptsCounted, GivenUpAfterAll
<1>2. QueueInv /\ AttemptsInv /\ [QueueNext]_queueVars => AttemptsInv'
  BY QueueAssumption, AttemptsStep DEF QueueInv
<1> QED
  BY <1>1, <1>2, QueueInvariant, PTL DEF QueueSpec

\* For any number of rows, workers and faults and any lengths of leases and
\* batches (services/webhook.js, subscription-lifecycle.service.js,
\* checkout.worker.js): a row is in one hand while the leases hold, what is marked
\* done took effect, every effect after the first costs a fault, and no row is given
\* up before its attempts are used up.
THEOREM RowsAlwaysSafe == QueueSpec => []RowsSafe
<1>1. QueueInv => DuplicatesNeedFaults
  <2> SUFFICES ASSUME QueueInv, NEW i \in Items PROVE effects[i] <= 1 + faults
    BY DEF DuplicatesNeedFaults
  <2>1. QueueTypeOK
    BY DEF QueueInv
  <2>2. effects[i] \in Nat /\ faults \in Nat
    BY <2>1, QueueAssumption, RowFields, Bounds DEF QueueTypeOK
  <2>3. CASE i \in Poison
    BY <2>2, <2>3 DEF QueueInv, CalledTookEffect
  <2>4. CASE i \notin Poison
    <3>1. effects[i] + Cardinality(Due(i)) + (IF Free(i) THEN 1 ELSE 0) <= 1 + faults
      BY <2>4 DEF QueueInv, EffectsBudgeted, Budget
    <3>2. Cardinality(Due(i)) \in Nat
      BY QueueAssumption, DueFinite
    <3> QED
      BY <2>2, <3>1, <3>2
  <2> QED
    BY <2>3, <2>4
<1>2. QueueInv /\ AttemptsInv => RowsSafe
  BY <1>1 DEF QueueInv, AttemptsInv, RowsSafe
<1> QED
  BY <1>2, QueueInvariant, AttemptsUsedUp, PTL

\* While the leases hold no repeated webhook, no second claim and no failure
\* opens a row that was processed or given up, or writes it over: outcomes are
\* written by id alone, by workers whose row is still under its lease.
THEOREM SettledStaysSettled == QueueSpec => SettledIsFinal
<1> DEFINE Final == ~overran => \A i \in Items :
                      row[i].status \in Settled => row'[i].status = row[i].status
<1>1. ASSUME QueueInv, [QueueNext]_queueVars PROVE Final
  <2> SUFFICES ASSUME ~overran, NEW i \in Items, row[i].status \in Settled
               PROVE  row'[i].status = row[i].status
    OBVIOUS
  <2>0. QueueTypeOK /\ LeasesKept /\ HeldLeased
    BY <1>1 DEF QueueInv
  <2>1. \A w \in Workers : i \notin Ids(w)
    BY <2>0 DEF HeldLeased, Held, Settled
  <2>2. ASSUME NEW k \in Items, Insert(k) PROVE row'[i].status = row[i].status
    <3>1. row'[i] = row[i]
      BY <2>0, <2>2, QueueAssumption, InsertRow DEF Settled
    <3> QED
      BY <3>1
  <2>3. ASSUME NEW w \in Workers, Claim(w) PROVE row'[i].status = row[i].status
    <3>1. i \notin Batch
      BY BatchReady DEF Ready, Settled
    <3>2. row'[i] = row[i]
      BY <2>0, <2>3, <3>1, QueueAssumption, ClaimRow
    <3> QED
      BY <3>2
  <2>4. ASSUME NEW w \in Workers, NEW k \in Items, MarkDone(w, k)
        PROVE  row'[i].status = row[i].status
    <3>1. k # i
      BY <2>1, <2>4 DEF MarkDone, Turn
    <3>2. row'[i] = row[i]
      BY <2>0, <2>4, <3>1, QueueAssumption, MarkDoneRow
    <3> QED
      BY <3>2
  <2>5. ASSUME NEW w \in Workers, NEW k \in Items, Fail(w, k)
        PROVE  row'[i].status = row[i].status
    <3>1. k # i
      BY <2>1, <2>5 DEF Fail, Turn
    <3>2. row'[i] = row[i]
      BY <2>0, <2>5, <3>1, QueueAssumption, FailRow
    <3> QED
      BY <3>2
  <2>6. CASE Tick
    BY <2>0, <2>6, QueueAssumption, TickRow
  <2>7. CASE UNCHANGED queueVars
    BY <2>7 DEF queueVars
  <2>8. CASE \E k \in Items : EnqueueEvent(k) \/ EnqueueReminder(k) \/ EnqueueConfirmation(k)
    BY <2>2, <2>8 DEF EnqueueEvent, EnqueueReminder, EnqueueConfirmation
  <2>9. CASE \E w \in Workers : Crash(w) \/ \E k \in Items : Handle(w, k)
    BY <2>9 DEF Crash, Handle
  <2>10. CASE \E w \in Workers : Claim(w) \/ \E k \in Items : MarkDone(w, k)
    BY <2>3, <2>4, <2>10
  <2>11. CASE \E w \in Workers : \E k \in Items : Reject(w, k) \/ Falter(w, k)
    BY <2>5, <2>11 DEF Reject, Falter
  <2> QED
    BY <1>1, <2>6, <2>7, <2>8, <2>9, <2>10, <2>11 DEF QueueNext
<1>2. QueueSpec => [][QueueInv /\ [QueueNext]_queueVars]_queueVars
  BY QueueInvariant, PTL DEF QueueSpec
<1>3. QueueInv /\ [QueueNext]_queueVars => Final
  BY <1>1
<1> QED
  BY <1>2, <1>3, PTL DEF SettledIsFinal
===============================================================================
