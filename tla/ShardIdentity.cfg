SPECIFICATION Spec
CONSTANTS
  Tasks = {t1, t2}
  MaxRotations = 2
  MaxFailures = 1
INVARIANTS
  TypeOK
  SyncedSticks
  RetiredForGood
PROPERTY Converges
