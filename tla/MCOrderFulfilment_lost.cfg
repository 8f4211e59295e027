\* The worker dies while it waits for CommitReservation.
CONSTANTS
  a = a
  o1 = o1
  o2 = o2
  k1 = k1
  k2 = k2
  Variants = {a}
  ResIds = {r1}
  Keys = {k1, k2}
  Orders = {o1}
  Workers = {w1}
  Sweeps = {}
  Handlers = {w1}
  Absent = Absent
  CallsOverlap = TRUE
  TTLExpires = FALSE
  MaxCrashes = 1
  MaxLost = 1
  MaxRetries = 1
  HandoffFails = FALSE
  Unreachable = {}
  Races = FALSE
  Requests <- MCRequests
  InitialOnHand <- MCOnHand
  InitialStock <- MCOnHand
  Basket <- MCBasket
  KeyOf <- MCKeyOf
SPECIFICATION FlowSpec
INVARIANT SoldOnce
CHECK_DEADLOCK FALSE
