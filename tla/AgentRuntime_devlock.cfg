SPECIFICATION Spec
CHECK_DEADLOCK FALSE
CONSTANTS
  Requests = {r1, r2, r3}
  Main = main
  Callers = {r1, r2, r3, main}
  web = web
  hotels = hotels
  Servers <- OneServer
  Registry = {web, hotels}
  LocalTools = {hotels}
  Tiers = {1, 2}
  Permits <- FewPermits
  MaxAttempts = 2
  MaxDeaths = 1
  MaxLate = 0
  None = None
SYMMETRY MCSymmetry
INVARIANT
  LiveSessionsKept
