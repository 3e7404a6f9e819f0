SPECIFICATION Spec
CONSTANTS
  j1 = j1
  j2 = j2
  t1 = t1
  NoToken = NoToken
  MaxChats = 1
  Jobs = {}
  Runs <- MCRuns
  Tokens = {t1}
  TokenOf <- MCTokenOf
  Conns <- MCConns
  MaxEvents <- ChatEvents
  MaxCrashes = 0
  MaxDrops = 1
INVARIANTS
  ShownOnce
CHECK_DEADLOCK FALSE
