\* Two passes overlap, lose their workers and meet a new window; ClickHouse comes and goes.
CONSTANTS
  s1 = s1
  Sales = {s1}
  Buys = {b1, b2}
  Workers = {w1, w2}
  MaxQueued = 1
  MaxLosses = 1
  MaxRefreshes = 1
  NoStats = NoStats
  SaleOf <- MCSaleOf
SPECIFICATION Spec
INVARIANTS OneRowPerWindow EndedIsOver RowIsComplete
PROPERTIES SalesGetEnded
CHECK_DEADLOCK FALSE
