SPECIFICATION Spec
CONSTANTS
  Requests = {r1}
  Delays = {0, 1}
  Budget = 2
INVARIANTS
  ParallelProbe
CHECK_DEADLOCK FALSE
