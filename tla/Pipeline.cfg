SPECIFICATION Spec
CONSTANTS
  r1 = r1
  r2 = r2
  Requests = {r1, r2}
  Limit = 1
  Finals = {200, 404}
  Hints = {103}
  OK200 = 200
  Error500 = 500
  Busy = 429
CHECK_DEADLOCK FALSE
INVARIANTS TypeOK GaugeIsExact TokensConserved CountedAsReceived LineAgreesWithLabel FileTellsStatus OnlyAbortsUnlogged
PROPERTIES ShutdownEnds
