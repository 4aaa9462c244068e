SPECIFICATION TableSpec
CONSTANTS
  a = a
  s = s
  Urls = {a}
  Keys = {k1, k2}
  NoUrl = none
  NoKey = none
  MaxShards = 2
  Tasks = {t1, t2}
  MaxStarts = 2
  MaxNonces = 2
  Static <- StaticDef
  Self = s
  MaxCalls = 2
INVARIANTS TableTypeOK
PROPERTIES TableCovers CachesConverge
