\* One sign-in, one request and two confirmations at a time, two changes of access.
SPECIFICATION Spec
CONSTANTS
  Passwords = {p1, p2}
  Logins = {l1}
  Requests = {r1}
  Resets = {c1, c2}
  None = None
  MaxSession = 2
  MaxLinks = 1
  MaxChanges = 2
  MaxCleanups = 1
SYMMETRY Symmetry
INVARIANTS
  SessionsCurrent
  LinksWorkOnce
PROPERTIES
  EndedStaysEnded
CHECK_DEADLOCK FALSE
