\* Every kind of database is migrated under two crashes; the services run on one
\* that is up to date.  The bounds on edits and removals end nothing.
SPECIFICATION FairSpec
CONSTANTS
  e1 = e1
  e2 = e2
  u1 = u1
  u2 = u2
  None = None
  MaxCrashes = 2
  Editors = {e1, e2}
  EditedRoles = {"user", "tutor", "partner"}
  KeyLists <- SmallKeyLists
  People <- SmallPeople
  MaxEdits = 3
  Uploads = {u1, u2}
  MaxRemovals = 2
  Scenarios <- SmallScenarios
INVARIANTS
  RecordedIsApplied
  ScopeWasTicked
  SentIsAccepted
  OneRemovalLosesNoUpload
PROPERTIES
  ServesInTheEnd
