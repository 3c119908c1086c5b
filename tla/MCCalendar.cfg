SPECIFICATION FairSpec
CONSTANTS
  Historical = "hive"
  RealtimeDays = 2
  MinInt64 <- MinThreeBit
  MaxInt64 = 3
  Zones <- SafeZones
  Clocks <- HoursOfDays8To13
  Requested <- AskedSources
  Days = {7, 8, 9, 10, 11, 12}
  MaxQueryDays = 4
INVARIANTS
  TypeOK
  EachDayOnce
  AdaptersAgree
  SegmentsFollowCutoff
  NeverTooStrict
PROPERTIES
  LoopsEnd
  LoopsAdvance
CHECK_DEADLOCK FALSE
