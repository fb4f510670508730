SPECIFICATION Spec
CHECK_DEADLOCK FALSE
CONSTANTS
  Requests = {r1, r2}
  HttpThreads = {web}
  HubThreads = {hub}
  AnonThreads = {anon}
  None = None
  Prompts = {p}
  Similar <- MCSimilar
  MaxDrafts = 1
  MaxPieces = 1
  MaxRestarts = 0
  MaxCrashes = 0
SYMMETRY MCSymmetry
INVARIANTS
  TypeOK
  MetricsAddUp
  FinishedTurnKept
  TaskHasConversation
PROPERTIES
  ReceiptCoversReply
  CutRepliesWereCancelled
  AckedTurnWasRead
