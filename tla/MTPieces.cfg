SPECIFICATION Spec
CONSTANTS
  MaxWorkers = 2
  Calls <- PieceCalls
  NoJob <- MCNoJob
INVARIANTS
  TypeOK
  OutputBeginsFrame
  PoolsNeverOverflow
  ReleasedJobsAreIdle
PROPERTY PiecesInUseKept
