\* One journey in the configurations that Load accepts, and Load in many
\* that it refuses.
SPECIFICATION Spec
CONSTANTS
  Environments <- MCEnvironments
  Bodies <- MCBodies
  Journeys = {j1}
  MaxPDF = 20971520
  Slack = 65536
INVARIANTS
  TypeOK
  ProfileIsComplete
  LoadIsExact
  PrivateIsGuarded
  CallbackIsServed
  ReturnIsComplete
  HostsKeptApart
  DocumentLimit
