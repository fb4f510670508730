SPECIFICATION FairSpec
CHECK_DEADLOCK FALSE
CONSTANTS
  Bookings = {b1}
  Sessions = {s1, s2}
  Requests = {r1, r2}
  Price = 1
  MaxVisits = 2
  MaxFailures = 2
  None = None
INVARIANTS
  TypeOK
  ConfirmedIsPaid
  IdempotentUnlessDisturbed
PROPERTY
  ChargeIsRecorded
