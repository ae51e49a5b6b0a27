\* A sync, and a second one after it, of a list that grows to five charges, on
\* two pages of two: the last charge pushes the first off the pages.
\* The bounds stop the system, so a state without a successor is no deadlock.
SPECIFICATION Spec
CONSTANTS
  s1 = s1
  Syncs = {s1}
  PageSize = 2
  MaxPages = 2
  MaxListed = 5
  MaxSyncs = 2
  Successful <- Taken
  Complete <- Shown
  Ref <- Reference
INVARIANTS
  TypeOK
  NoneLeftBehind
PROPERTIES
  SyncEnds
CHECK_DEADLOCK FALSE
