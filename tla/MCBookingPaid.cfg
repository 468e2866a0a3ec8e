\* Two bookings of one chair with their payments.
SPECIFICATION FairSpec
CONSTANTS
  Users = {u1}
  Keys = {k1, k2}
  Bookings = {b1, b2}
  Requests = {r1}
  None = None
  Starts = {3, 4}
  Horizon = 4
  Duration = 1
  Buffer = 0
  Capacity = 1
  DecisionWindow = 2
  PaymentWindow = 2
  CancelWindow = 2
INVARIANTS
  BookingsSound
  MoneyAccounted
PROPERTIES
  RequestsResolved
  ChargeReconciled
  ClosedAndPaidKept
  KeepsCalendar
\* The clock stops at Horizon.
CHECK_DEADLOCK FALSE
