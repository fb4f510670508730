SPECIFICATION Spec
CHECK_DEADLOCK FALSE
CONSTANTS
  Searches <- TwoResults
  Budget = 4
  MinRest = 0
  Marker = 1
  Header = 1
  MaxContext = 10
  SystemSize = 2
  TextSize = 1
  MaxBatch = 3
  MaxTurns = 2
  MaxVisits = 3
INVARIANT
  FactBelongsToItsSource
