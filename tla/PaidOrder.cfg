SPECIFICATION FairSpec
CONSTANTS
  run1 = run1
  stub1 = stub1
  buyer1 = buyer1
  Runs = {stub1}
  StubRuns = {stub1}
  Buyers = {buyer1}
  MaxRetries = 1
  MaxCrashes = 1
  MaxFailures = 1
  MaxLost = 1
PROPERTY PaidOrderServed
CHECK_DEADLOCK FALSE
