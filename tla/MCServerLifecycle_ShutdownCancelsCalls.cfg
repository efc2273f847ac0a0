\* A call in flight at shutdown gets its response.
SPECIFICATION Spec
CONSTANTS
  Conns = {c1}
  Budget = 3
  HeaderTimeout = 2
  NewGrace = 1
  TermGrace = 4
  MaxTime = 6
PROPERTIES
  ShutdownCancelsCalls
