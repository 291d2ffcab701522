SPECIFICATION FairChainSpec
CONSTANTS
  Clients = {c1, c2}
  MaxDay = 3
  MaxRequests = 2
  MaxChanges = 1
  MaxFailures = 2
  ChainAttempts = 2
INVARIANTS ChainAlive
PROPERTY EndedLineageStops
CHECK_DEADLOCK FALSE
