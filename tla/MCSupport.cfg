\* Two tickets, two agents, two requests, three messages.
SPECIFICATION FairSpec
CONSTANTS
  MaxTicket = 2
  Owners = {u1}
  Agents = {a1, a2}
  SuperAdmins = {s1}
  Revocable = {a1}
  StaffSets = {"resolved"}
  MaxRequests = 2
  Readers = {u1}
  Polled = {1}
  None = None
  Unset = Unset
  Limit = 1
  MaxMessage = 3
  MaxUploads = 1
  MaxChanges = 2
INVARIANTS
  CursorComplete
  TicketsAgree
PROPERTIES
  AnswersByAssignee
  MessagesArrive
CHECK_DEADLOCK FALSE
