SPECIFICATION Spec
CONSTANTS
  Urls = {a, b, c}
  Keys = {k1, k2}
  NoUrl = none
  NoKey = none
  MaxShards = 2
  Tasks = {t1, t2}
  MaxStarts = 4
  MaxNonces = 3
SYMMETRY Symmetry
INVARIANTS
  TypeOK
  WellFormed
  AppendOnly
  KeySticks
  VersionKept
PROPERTY NonceSpentOnce
CHECK_DEADLOCK FALSE
