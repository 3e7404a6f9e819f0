SPECIFICATION FairSpec
CONSTANTS
  c1 = c1
  c2 = c2
  f1 = f1
  f2 = f2
  Clients = {c1}
  Fires = {f1, f2}
  Intervals = {10, 20}
  Caps = {2}
  Omitted = Omitted
  DefaultMaxTicks = 1
  FireMultiplier = 2
  RingLimit = 1
  PoolMax = 1
  NoRow = NoRow
  MaxRuns = 2
  MaxCrashes = 1
  MaxFailures = 1
INVARIANTS
  RowCatchesUp
PROPERTIES
  LoopEnds
CHECK_DEADLOCK FALSE
