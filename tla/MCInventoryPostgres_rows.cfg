\* Three coroutines on two rows, one of them lost; TTLs are reached.
CONSTANTS
  Variants = {1, 2}
  ResIds = {r1, r2, r3}
  Keys = {k1, k2}
  Procs = {p1, p2, p3}
  Absent = Absent
  CallsOverlap = FALSE
  TTLExpires = TRUE
  MaxLosses = 1
  Requests <- MCRequests
  InitialOnHand <- MCOnHand
SPECIFICATION Spec
SYMMETRY Symmetry
INVARIANTS NeverOversold UnitsAccounted ClaimIsBacked ReservationsNeverDeadlock
