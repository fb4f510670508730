SPECIFICATION Spec
CHECK_DEADLOCK FALSE
CONSTANTS
  Callers = {a1, a2, facts, sync}
  Agents = {a1, a2}
  Facts = facts
  Sync = sync
  Collections = {cache, memory, hotels}
  Cache = cache
  Memory = memory
  Hotels = hotels
  Points = {p1}
  Documents = {d1, d2}
  None = None
  NumIndexes = 2
  MaxFaults = 1
  MaxMessages = 3
  Text = d1
SYMMETRY MCSymmetry
INVARIANTS
  IndexedUnlessCreatorFailed
  DeadLetteredForCause
  StoreFollowsQueue
