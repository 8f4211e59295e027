\* Cold start of two replicas, one later restart; one load fails, one is killed.
CONSTANTS
  a = a
  p1 = p1
  p2 = p2
  h1 = h1
  h2 = h2
  Variants = {a}
  ResIds = {r1, r2}
  Keys = {k1}
  Handlers = {h1, h2}
  Replicas = {p1, p2}
  Absent = Absent
  CallsOverlap = FALSE
  TTLExpires = TRUE
  MaxCrashes = 0
  MaxRestarts = 1
  MaxKills = 1
  MaxFailures = 1
  Home <- MCHome
  Requests <- MCRequests
  InitialOnHand <- MCOnHand
  InitialStock <- MCCold
SPECIFICATION FairBootSpec
INVARIANT CountersNonNegative
PROPERTIES CountersGetLoaded SkipsOnlyForALoader
