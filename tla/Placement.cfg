SPECIFICATION CombinedSpec
CONSTANTS
  Points <- AllPoints
  FirstCount = 2
  MaxCount = 3
  Factor = 2
  Requests = {q1, q2}
  MaxSecrets = 2
  Homes = {0, NoHome}
  NoHome = NoHome
SYMMETRY Symmetry
INVARIANTS
  CombinedTypeOK
  OwnerOpens
PROPERTIES
  Findable
  ReachesOwner
  LocalFound
CHECK_DEADLOCK FALSE
