\* One user, patient or not; requests overlap and fail at every step.
CONSTANTS
  a = a
  u1 = u1
  Variants = {a}
  ResIds = {r1, r2, r3}
  Handlers = {c1, c2, c3}
  Posts = {c1, c2, c3}
  Adds = {d1}
  Users = {u1}
  Absent = Absent
  CallsOverlap = TRUE
  TTLExpires = FALSE
  MaxCrashes = 0
  MaxQty = 1
  Cap = 1
  MaxDeaths = 1
  Keys <- MCKeys
  Requests <- MCRequests
  InitialOnHand <- MCOnHand
  InitialStock <- MCOnHand
  PostOf <- MCPostOf
SPECIFICATION CheckoutSpec
SYMMETRY Symmetry
INVARIANTS CartWithinCap OrderMatchesReservation  NoStrandedReservation
CHECK_DEADLOCK FALSE
