\* Calls that name one reservation never overlap; TTLs are reached.
CONSTANTS
  a = a
  b = b
  Variants = {a, b}
  ResIds = {r1, r2, r3}
  Keys = {k1, k2}
  Handlers = {h1, h2}
  Absent = Absent
  CallsOverlap = FALSE
  TTLExpires = TRUE
  MaxCrashes = 0
  Requests <- MCRequests
  InitialOnHand <- MCOnHand
  InitialStock <- MCOnHand
SPECIFICATION Spec
INVARIANTS TypeOK NoOverPromise UnitsConserved CommitNeverRefused IdemNamesReservation
PROPERTY ImplementsLedger
