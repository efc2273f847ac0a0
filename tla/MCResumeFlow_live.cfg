\* Liveness; no symmetry.
SPECIFICATION PollingSpec
CONSTANTS
  Corr = {c1}
  Requests = {r1, r2}
  MaxStep = 4
  TTL = 1
  Grace = 1
  Budget = 1
  MaxTime = 4
  SdkChecksState = TRUE
PROPERTIES
  RequestsAnswered
  JourneysSettle
