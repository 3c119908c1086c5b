SPECIFICATION Spec
CONSTANTS
  Historical = "hive"
  RealtimeDays = 2
  MinInt64 <- MinThreeBit
  MaxInt64 = 3
  Zones <- WestGapZones
  Clocks <- HoursOfDay11
  Requested <- AskedSources
  Days = {7, 8, 9, 10, 11, 12}
  MaxQueryDays = 4
INVARIANTS
  EachDayOnce
CHECK_DEADLOCK FALSE
