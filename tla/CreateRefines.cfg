SPECIFICATION Spec
CONSTANTS
  CompressionEnabled = TRUE
  CpuCount = 2
  FileBuffers = 2
  Calls <- RefinementCalls
INVARIANTS
  FreshArchiveVerifies
PROPERTIES
  KeepsPromise
