\* Refinement, with an SDK that does not look at the state it is given: the
\* claim alone keeps the turns apart.  Requests outlive the retention (none
\* here): the sessions they drive are spared, those they only point to are
\* not.
SPECIFICATION Spec
CONSTANTS
  Corr = {c1, c2}
  Requests = {r1, r2}
  MaxStep = 3
  TTL = 1
  Grace = 0
  Budget = 9
  MaxTime = 4
  SdkChecksState = FALSE
SYMMETRY RequestSymmetry
INVARIANTS
  DrivenIsStored
  NothingAfterSigning
PROPERTIES
  Linearized
