SPECIFICATION Spec
CONSTANTS
  CompressionEnabled = TRUE
  CpuCount = 2
  FileBuffers = 2
  Calls <- PoolCalls
INVARIANTS
  TypeOK
  SlotsHeldOnce
  CollectSeesEverySlot
  NoWorkerOutlivesPool
  BuffersOwnedOnce
  CollectedBytesLive
  SuccessReleasesBuffers
  ResultAsPromised
PROPERTIES
  ProgressNeverGoesBack
  NoClaimAfterSpawnFailure
