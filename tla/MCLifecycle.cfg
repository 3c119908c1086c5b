SPECIFICATION FairSpec
CONSTANTS
  Conns = {c1, c2}
INVARIANTS
  TypeOK
  ClosedInReverse
  PingsUseOpenDatabases
  ClosesAfterHandlers
PROPERTIES
  SignalEnds
  StartupEnds
  KeepsProcessPromise
CHECK_DEADLOCK FALSE
