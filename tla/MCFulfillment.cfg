\* Two vendors share an order and are paid out, by one payout request at a time.
SPECIFICATION Spec
CONSTANTS
  Vendors = {v1, v2}
  Clients = {c1}
  None = None
INVARIANTS
  PartsAgree
PROPERTIES
  DeliveredByAll
  NeverUndone
  ReturnDisputesPayout
  OthersFollowOnlyTheirReturn
\* Every part of the order is closed in the end.
CHECK_DEADLOCK FALSE
