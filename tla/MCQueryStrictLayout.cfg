SPECIFICATION Spec
CONSTANTS
  Requests = {r1}
  Queries <- OneQuery
  Repositories = {"hive", "starrocks"}
  DriverErrors = {"driver"}
  Counts <- SmallCounts
  Historical = "hive"
  RealtimeDays = 2
  MinInt64 <- MinThreeBit
  MaxInt64 = 3
  HistoryLead = 0
  RealtimeKeep = 0
  FirstDay = 10
  LastDay = 11
  MaxEtlLag = 1
  MaxMidnights = 1
INVARIANTS
  EveryDayOnce
CHECK_DEADLOCK FALSE
