SPECIFICATION Spec
CONSTANTS
  Corr = {c1}
  Requests = {r1, r2, r3}
  MaxStep = 4
  TTL = 1
  Grace = 1
  Budget = 1
  MaxTime = 3
  SdkChecksState = TRUE
SYMMETRY RequestSymmetry
INVARIANTS
  DuplicateNeverReachesSDK
