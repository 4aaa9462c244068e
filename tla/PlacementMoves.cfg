SPECIFICATION CombinedSpec
CONSTANTS
  Points = {7, 8, 9}
  FirstCount = 2
  MaxCount = 4
  Factor = 1
  Requests = {q1}
  MaxSecrets = 2
  Homes = {NoHome}
  NoHome = NoHome
PROPERTY FindsLatest
CHECK_DEADLOCK FALSE
