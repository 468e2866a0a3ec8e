\* One customer, two orders, two initiations: the fair system keeps the promise.
\* No symmetry: liveness.
SPECIFICATION FairSpec
CONSTANTS
  Users = {u1}
  Skus = {s1}
  Coupons = {c1}
  Keys = {k1, k2}
  Orders = {o1, o2}
  Refs = {p1, p2}
  Requests = {r1}
  None = None
  MaxQty = 1
  InitialStock <- OneUnit
  UsageLimit <- OneRedemption
  FreeCoupons = {c1}
  LedgerTable = TRUE
PROPERTIES
  ChargeReconciled
  ReservationResolved
  KeepsPromise
