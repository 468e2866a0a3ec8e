\* Two edits at a time, three objects, one unit of stock; two moderators.
SPECIFICATION Spec
CONSTANTS
  Contents = {c1, c2}
  Moderators = {m1, m2}
  None = None
  MaxReviews = 2
  MaxRevision = 3
  Editors = {e1, e2}
  Requests <- MCRequests
  MaxObjects = 3
  MaxStock = 1
  PackageLimit = 1
CONSTRAINT Bound
SYMMETRY Symmetry
INVARIANTS
  ListingConsistent
  DecidesOnWhatIsShown
PROPERTIES
  NothingRevived
CHECK_DEADLOCK FALSE
