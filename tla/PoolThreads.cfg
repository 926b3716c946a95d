SPECIFICATION Spec
CONSTANTS
  MaxThreads = 3
  Sizes <- OneToThree
  QueueSizes = {0, 2}
  MaxJobs = 4
  MaxResizes = 1
  NoJob <- MCNoJob
INVARIANTS TypeOK NobodySleepsOverWork FreeLeavesNothing
PROPERTIES JoinJobsWaits CallsReturn KeepsPromise
