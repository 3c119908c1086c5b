SPECIFICATION FairSpec
CONSTANTS
  c1 = c1
  c2 = c2
  Calls = {c1, c2}
  Probes = {p1}
  Order <- HiveAndStarRocks
  Needs <- PlanStores
  MaxOpen <- OneConnection
INVARIANTS
  TypeOK
  ConnectionsAccounted
  
  WaitersWaitForHolders
PROPERTIES
  EveryRequestAnswered
  HistoryCannotBlockRealtime
CHECK_DEADLOCK FALSE
