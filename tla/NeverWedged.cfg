SPECIFICATION Spec
CONSTANTS
  j1 = j1
  j2 = j2
  t1 = t1
  NoToken = NoToken
  MaxChats = 1
  Jobs = {}
  Runs <- MCRuns
  Tokens = {t1}
  TokenOf <- MCTokenOf
  Conns <- MCConns
  MaxEvents <- ChatEvents
  MaxCrashes = 1
  MaxDrops = 0
INVARIANTS
  NeverWedged
CHECK_DEADLOCK FALSE
