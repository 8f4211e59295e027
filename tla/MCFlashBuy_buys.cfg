\* Every kind of client; requests and answers fail at every step, one request breaks off.
CONSTANTS
  a = a
  u1 = u1
  u2 = u2
  b1 = b1
  b2 = b2
  b3 = b3
  b4 = b4
  Variants = {a}
  ResIds = {r1, r2, r3}
  Handlers = {b1, b2, b3, b4}
  Buys = {b1, b2, b3, b4}
  Users = {u1, u2}
  Absent = Absent
  CallsOverlap = TRUE
  TTLExpires = FALSE
  MaxCrashes = 1
  MaxBreaks = 1
  OnSale = a
  Limit = 2
  Keys <- MCKeys
  Requests <- MCRequests
  InitialOnHand <- MCOnHand
  InitialStock <- MCOnHand
  UserOf <- MCUserOf
  QtyOf <- MCQtyOf
SPECIFICATION BuySpec
SYMMETRY Symmetry
INVARIANTS PerUserLimit AllowanceExact PatientOrdersAreBacked NoStrandedStock
CHECK_DEADLOCK FALSE
