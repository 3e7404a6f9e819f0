SPECIFICATION FairSpec
CONSTANTS
  j1 = j1
  j2 = j2
  t1 = t1
  NoToken = NoToken
  MaxChats = 1
  Jobs <- MCJobs
  Runs <- MCRuns
  Tokens = {t1}
  TokenOf <- MCTokenOf
  Conns <- MCConns
  MaxEvents <- ChatEvents
  MaxCrashes = 1
  MaxDrops = 1
INVARIANTS
  TypeOK
  OneRunPerToken
  StreamsFaithful
  LeaksOnlyFromReplay
  TurnsComplete
PROPERTIES
  TurnsEnd
CHECK_DEADLOCK FALSE
