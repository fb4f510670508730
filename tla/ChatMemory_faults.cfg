SPECIFICATION FairSpec
CHECK_DEADLOCK FALSE
CONSTANTS
  Requests = {r1}
  HttpThreads = {web}
  HubThreads = {hub}
  AnonThreads = {anon}
  None = None
  Prompts = {p}
  Similar <- MCSimilar
  MaxDrafts = 3
  MaxPieces = 2
  MaxRestarts = 1
  MaxCrashes = 1
INVARIANTS
  TaskConserved
  FactsPerReading
PROPERTIES
  AckedTurnWasRead
  StreamsEnd
  TasksSettle
