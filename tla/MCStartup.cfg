SPECIFICATION FairSpec
CONSTANTS
  Environments <- AllEnvironments
  Paths = {"ca.pem", "id.pem"}
  MaxDiskChanges = 2
INVARIANTS
  AcceptedIsServable
  PoolsAreBounded
  TLSAsConfigured
PROPERTIES
  RepairsConverge
  ErrorsGoWhenCorrected
CHECK_DEADLOCK FALSE
