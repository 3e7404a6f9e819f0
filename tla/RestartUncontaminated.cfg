SPECIFICATION Spec
CONSTANTS
  c1 = c1
  c2 = c2
  f1 = f1
  f2 = f2
  Clients = {c1}
  Fires = {f1}
  Intervals = {10, 20}
  Caps = {2}
  Omitted = Omitted
  DefaultMaxTicks = 1
  FireMultiplier = 2
  RingLimit = 1
  PoolMax = 2
  NoRow = NoRow
  MaxRuns = 2
  MaxCrashes = 1
  MaxFailures = 0
INVARIANT RestartUncontaminated
CHECK_DEADLOCK FALSE
