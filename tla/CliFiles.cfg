SPECIFICATION Spec
CONSTANTS
  p1 = p1
  p2 = p2
  Procs = {p1, p2}
  Files <- MCFiles
  Contents <- MCContents
  Jobs <- MCJobs
CHECK_DEADLOCK FALSE
INVARIANTS
  TypeOK
  SuccessLeavesWholeArchive
  InputsArchivedAsTheyWere
  UnreportedFilesComplete
  ExtractTakesAllOrNothing
