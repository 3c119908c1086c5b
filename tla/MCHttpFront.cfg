SPECIFICATION Spec
CONSTANTS
  Requests = {r1, r2}
  Delays = {0, 1}
  Budget = 2
SYMMETRY Symmetry
INVARIANTS
  TypeOK
  ReadyMeansAnswered
  AcceptedQueriesNeverPanic
  ErrorsCarryRequestId
PROPERTIES
  KeepsRequestPromise
CHECK_DEADLOCK FALSE
