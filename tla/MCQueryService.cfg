SPECIFICATION Spec
CONSTANTS
  Requests = {r1}
  Queries <- AnyQuery
  Repositories = {"hive", "starrocks"}
  DriverErrors = {"driver", "canceled", "deadline"}
  Counts <- EdgeCounts
  Historical = "hive"
  RealtimeDays = 2
  MinInt64 <- MinThreeBit
  MaxInt64 = 3
  HistoryLead = 1
  RealtimeKeep = 1
  FirstDay = 10
  LastDay = 12
  MaxEtlLag = 1
  MaxMidnights = 1
INVARIANTS
  TypeOK
  AllOrNothing
  EveryDayOnce
  ErrorsHaveCauses
  NothingOutlivesTheAnswer
  MergeExact
PROPERTIES
  FirstOutcomeWins
  KeepsThePromise
CHECK_DEADLOCK FALSE
