SPECIFICATION Spec
CONSTANTS
  CompressionEnabled = TRUE
  Archives <- MCArchives
INVARIANTS
  VerifiedIsAsWritten
  
  
  UndamagedReadsBack
  OtherEntriesUnharmed
