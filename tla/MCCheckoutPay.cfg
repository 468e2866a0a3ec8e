\* Two orders of two customers over one unit and one use of a coupon that
\* makes an order free, with a spare reference and two initiations at a time.
SPECIFICATION Spec
CONSTANTS
  Users = {u1, u2}
  Skus = {s1}
  Coupons = {c1}
  Keys = {k1, k2}
  Orders = {o1, o2}
  Refs = {p1, p2, p3}
  Requests = {r1, r2}
  None = None
  MaxQty = 1
  InitialStock <- OneUnit
  UsageLimit <- OneRedemption
  FreeCoupons = {c1}
  LedgerTable = TRUE
SYMMETRY Symmetry
INVARIANTS
  IInv
  ChargedOnce
PROPERTIES
  CancelledIsFinal
  HeldUntilRelease
