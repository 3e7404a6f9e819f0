SPECIFICATION Spec
CONSTANTS
  ChatScope = "global"
  MaxSends = 2
  MaxCalls = 3
  MaxTurns = 2
  MaxTicks = 2
  MaxBeats = 3
  MaxDrops = 1
  TickCount = 1
  OrderCount = 3
  Connections = 2
  RingSize = 3
  Chapters = 2
  Stops <- MCStops
  Limit = 2
  TabRows = 2
  MaxLosses = 1
  MaxFetches = 1
  Target = 2
  MaxBegun = 5
  MaxSkips = 2
  MaxClientCalls = 4
  MaxAttempts = 5
INVARIANTS
  TypeOK
  RequestsWellFormed
  GroupsFaithful
  FeedComplete
  
  RingIndexed
  LogSettles
  ShownNewest
  TicksGuarded
  TweetsSafe
PROPERTY
  TurnsOver
CHECK_DEADLOCK FALSE
