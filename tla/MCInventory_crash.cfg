\* Coroutines die half way; calls that name one reservation never overlap.
CONSTANTS
  a = a
  b = b
  Variants = {a, b}
  ResIds = {r1, r2, r3}
  Keys = {k1, k2}
  Handlers = {h1, h2}
  Absent = Absent
  CallsOverlap = FALSE
  TTLExpires = TRUE
  MaxCrashes = 1
  Requests <- MCRequests
  InitialOnHand <- MCOnHand
  InitialStock <- MCOnHand
SPECIFICATION Spec
SYMMETRY Symmetry
INVARIANTS SettledOnce OneReservationPerKey
