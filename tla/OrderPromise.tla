---------------------------- MODULE OrderPromise ----------------------------
(***************************************************************************)
(* What checkout promises a customer about one order, without carts, rows, *)
(* references, leases or messages: an order is placed; its goods are held  *)
(* until it is paid for or released; a charge taken in time confirms it,   *)
(* a charge taken after the release is set aside for review, and a charge  *)
(* is never ignored (docs/checkout.md, "Recovery and operations").         *)
(***************************************************************************)
CONSTANT Orders

VARIABLES
  state,    \* where the promise stands
  charged   \* has the customer's money been taken for this order?

promise == <<state, charged>>

PromiseType ==
  /\ state \in [Orders -> {"absent", "awaiting", "confirmed", "released", "review"}]
  /\ charged \in [Orders -> BOOLEAN]

PromiseInit ==
  /\ state = [o \in Orders |-> "absent"]
  /\ charged = [o \in Orders |-> FALSE]

Move(o, from, to) ==
  /\ state[o] = from
  /\ state' = [state EXCEPT ![o] = to]
  /\ UNCHANGED charged

\* An order with nothing to pay is confirmed when it is placed.
Place(o) == Move(o, "absent", "awaiting") \/ Move(o, "absent", "confirmed")
Confirm(o) == charged[o] /\ Move(o, "awaiting", "confirmed")
Release(o) == Move(o, "awaiting", "released")
Review(o) == charged[o] /\ Move(o, "released", "review")

\* Money is taken once, and only for an order that is not confirmed.
Charge(o) ==
  /\ state[o] \in {"awaiting", "released"}
  /\ ~charged[o]
  /\ charged' = [charged EXCEPT ![o] = TRUE]
  /\ UNCHANGED state

PromiseNext ==
  \E o \in Orders : Place(o) \/ Charge(o) \/ Confirm(o) \/ Release(o) \/ Review(o)

PromiseSpec == PromiseInit /\ [][PromiseNext]_promise

\* Money taken is eventually matched by an answer; no order waits for ever.
PromiseFairness ==
  \A o \in Orders : /\ WF_promise(Confirm(o) \/ Release(o))
                    /\ WF_promise(Review(o))

FairPromise == PromiseSpec /\ PromiseFairness
=============================================================================
