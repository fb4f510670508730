SPECIFICATION Spec
CONSTANTS
  Calls = {c1, c2, c3}
  MaxBatch = 2
  Plans <- AllPlans
  MaxIterations = 3
  MaxToolCalls = 2
  MaxRework = 2
  RecursionLimit = 34
  None = None
SYMMETRY CallSymmetry
INVARIANTS
  TypeOK
  PlanInv
  StepInv
  StepBound
  EnoughSteps
  ToolCeiling
  NoRepeatedCall
  SandboxedExecution
  DirectiveConcernsTask
  DeficientAnswerIsFlagged
  LastRoundRecorded
  ResultsBelongToTheirTask
