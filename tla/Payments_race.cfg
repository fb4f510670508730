SPECIFICATION Spec
CHECK_DEADLOCK FALSE
CONSTANTS
  Bookings = {b1}
  Sessions = {s1}
  Requests = {r1, r2}
  Price = 1
  MaxVisits = 1
  MaxFailures = 0
  None = None
INVARIANT
  OneRowUnlessCancelled
