\* The platform, two administrators, one right that expires, four versions.
SPECIFICATION Spec
CONSTANTS
  Owner = owner
  Admins = {a, b}
  Rights = {manage}
  Manage = manage
  Invite = invite
  Limited = {manage}
  Scope = "platform"
  None = None
  MaxVersion = 4
  MaxWorking = 2
SYMMETRY Symmetry

  
PROPERTIES
  NoLostUpdate
  NoEscalation
CHECK_DEADLOCK FALSE
