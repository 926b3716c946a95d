SPECIFICATION Spec
CONSTANTS
  CompressionEnabled = TRUE
  CpuCount = 2
  FileBuffers = 2
  Calls <- SmallPoolCalls
INVARIANTS
  ErrorReleasesResults
