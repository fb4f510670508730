SPECIFICATION FairSpec
CONSTANTS
  Calls = {c1, c2}
  MaxBatch = 2
  Plans <- GoodPlans
  MaxIterations = 2
  MaxToolCalls = 2
  MaxRework = 3
  RecursionLimit = 30
  None = None
PROPERTIES
  ImplementsPlanExecution
  Answered
