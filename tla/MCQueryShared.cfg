SPECIFICATION FairSpec
CONSTANTS
  Requests = {r1, r2}
  Queries <- CrossingQuery
  Repositories = {"hive", "starrocks"}
  DriverErrors = {"driver"}
  Counts <- SmallCounts
  Historical = "hive"
  RealtimeDays = 2
  MinInt64 <- MinThreeBit
  MaxInt64 = 3
  HistoryLead = 1
  RealtimeKeep = 1
  FirstDay = 10
  LastDay = 10
  MaxEtlLag = 1
  MaxMidnights = 1
INVARIANTS
  MetricsMatchSegments
PROPERTIES
  FailFast
CHECK_DEADLOCK FALSE
