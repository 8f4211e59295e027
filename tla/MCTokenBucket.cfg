\* Two processes share a bucket: three requests of burst, two thirds of a token per tick.
CONSTANTS
  Callers = {c1, c2}
  Capacity = 9
  Rate = 2
  Cost = 3
  Idle = 8
  Patience = 2
  MaxClock = 13
  MaxOutages = 1
SPECIFICATION Spec
INVARIANTS RateBound RetryAfterExact AgreesWithReference
CHECK_DEADLOCK FALSE
