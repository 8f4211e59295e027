\* Two workers, processes die: copies of a chain run side by side.
CONSTANTS
  a = a
  o1 = o1
  o2 = o2
  k1 = k1
  k2 = k2
  Variants = {a}
  ResIds = {r1}
  Keys = {k1, k2}
  Orders = {o1}
  Workers = {w1, w2}
  Sweeps = {x1}
  Handlers = {w1, w2, x1}
  Absent = Absent
  CallsOverlap = TRUE
  TTLExpires = TRUE
  MaxCrashes = 1
  MaxLost = 2
  MaxRetries = 1
  HandoffFails = TRUE
  Unreachable = {w1, w2, x1}
  Races = FALSE
  Requests <- MCRequests
  InitialOnHand <- MCOnHand
  InitialStock <- MCOnHand
  Basket <- MCBasket
  KeyOf <- MCKeyOf
SPECIFICATION FlowSpec
INVARIANTS DispatchedIsSold RepeatsNeedDeaths
CHECK_DEADLOCK FALSE
