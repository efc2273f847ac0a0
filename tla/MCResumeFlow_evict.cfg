\* Two journeys, started apart, so that the second start evicts the first:
\* requests stay within a budget the retention covers.
SPECIFICATION Spec
CONSTANTS
  Corr = {c1, c2}
  Requests = {r1, r2}
  MaxStep = 3
  TTL = 1
  Grace = 1
  Budget = 1
  MaxTime = 5
  SdkChecksState = TRUE
SYMMETRY RequestSymmetry
INVARIANTS
  IndexSound
  RunningIsStored
PROPERTIES
  Settles
