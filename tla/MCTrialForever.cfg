\* A plan edited during a trial keeps the trial from ending.
SPECIFICATION FairSpec
CONSTANTS
  r1 = r1
  r2 = r2
  References = {r1, r2}
  None = None
  Offers <- TwoOffers
  Edited = {"PRO"}
  MaxVersion = 2
  Trial = 1
  Month = 1
  Grace = 1
  MaxRenewals = 0
  Horizon = 2
  ActiveServices <- SmallLimits
PROPERTIES
  TrialEnds
\* The clock stops at Horizon.
CHECK_DEADLOCK FALSE
