\* Redelivered messages, failed hand-offs and sweeps; one worker, one process dies.
CONSTANTS
  a = a
  o1 = o1
  o2 = o2
  k1 = k1
  k2 = k2
  Variants = {a}
  ResIds = {r1, r2}
  Keys = {k1, k2}
  Orders = {o1, o2}
  Workers = {w1}
  Sweeps = {x1}
  Handlers = {w1, x1}
  Absent = Absent
  CallsOverlap = TRUE
  TTLExpires = TRUE
  MaxCrashes = 0
  MaxLost = 1
  MaxRetries = 1
  HandoffFails = TRUE
  Unreachable = {x1}
  Races = FALSE
  Requests <- MCRequests
  InitialOnHand <- MCOnHand
  InitialStock <- MCOnHand
  Basket <- MCBasket
  KeyOf <- MCKeyOf
SPECIFICATION FairFlowSpec
INVARIANTS SoldOnce OneInvoice CancelledIsVoid
PROPERTIES StatusAdvances OrdersGetSettled
CHECK_DEADLOCK FALSE
