\* Writes, a reindex and a reader of the cache overlap; one of them fails.
CONSTANTS
  Products = {p1}
  Names = {n1, n2}
  Readers = {r1}
  Writers = {w1, w2}
  Jobs = {j1}
  Chunk = 1
  MaxStarts = 3
  MaxFaults = 1
  Absent = Absent
SPECIFICATION Spec
INVARIANTS StaleOnlyByRace SearchAgrees
PROPERTIES CacheConverges
CHECK_DEADLOCK FALSE
