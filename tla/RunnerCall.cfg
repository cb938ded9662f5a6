SPECIFICATION FairSpec
CONSTANTS
  InputLen = 3
  OutputLen = 3
  PipeCapacity = 2
INVARIANTS
  TypeOK
  SuccessMeansEffect
  ErrMeansNoEffect
  OutputComplete
PROPERTIES
  RunReturns
