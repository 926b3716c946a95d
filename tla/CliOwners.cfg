SPECIFICATION Spec
CONSTANTS
  p1 = p1
  p2 = p2
  Procs = {p1, p2}
  Files <- MCFiles
  Contents <- MCContents
  Jobs <- TwoOwners
CHECK_DEADLOCK FALSE
INVARIANTS
  OwnersArchived
