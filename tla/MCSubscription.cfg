\* One provider, a checkout renewed by Paystack and one paid by hand, one edit
\* of a plan; two periods.
SPECIFICATION FairSpec
CONSTANTS
  r1 = r1
  r2 = r2
  References = {r1, r2}
  None = None
  Offers <- TwoOffers
  Edited = {"PRO"}
  MaxVersion = 2
  Trial = 1
  Month = 1
  Grace = 1
  MaxRenewals = 1
  Horizon = 2
  ActiveServices <- SmallLimits
INVARIANTS
  PlanAsPaid
  FreeWithinLimit
PROPERTIES
  PaidTermsOnly
  PaidTimeKept
  CheckoutCredited
  LapsedIsMoved
\* The clock stops at Horizon.
CHECK_DEADLOCK FALSE
