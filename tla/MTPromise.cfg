SPECIFICATION Spec
CONSTANTS
  MaxWorkers = 2
  Calls <- PromiseCalls
  NoJob <- MCNoJob
PROPERTY KeepsPromise
