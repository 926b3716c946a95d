SPECIFICATION Spec
CONSTANTS
  Inputs <- MCInputs
  Keys <- MCKeys
INVARIANTS
  TypeOK
  WrittenAsLaidOut
  ReadAsWritten
  SearchIsRight
  LoopsSettle
PROPERTIES
  CallsFinish
