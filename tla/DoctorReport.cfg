SPECIFICATION Spec
CONSTANTS
  MaxChanges = 2
INVARIANTS
  TypeOK
  VerdictTrue
  RefusalExplained
