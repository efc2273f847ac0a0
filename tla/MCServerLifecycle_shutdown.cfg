\* Two connections, one of whose handlers may never end; the order of the
\* timeouts is that of the code.
SPECIFICATION FairSpec
CONSTANTS
  Conns = {c1, c2}
  Budget = 3
  HeaderTimeout = 2
  NewGrace = 1
  TermGrace = 4
  MaxTime = 6
INVARIANTS
  TypeOK
  NilMeansClean
  InFlightFinishes
  EndsBeforeKill
PROPERTIES
  StopsInTheEnd
