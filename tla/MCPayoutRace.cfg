\* Two payout requests at a time.
SPECIFICATION Spec
CONSTANTS
  Vendors = {v1}
  Clients = {c1, c2}
  None = None
PROPERTIES
  PaidIsFinal
CHECK_DEADLOCK FALSE
