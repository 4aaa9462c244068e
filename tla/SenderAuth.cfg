SPECIFICATION Spec
CONSTANTS
  Attempts = {a1, a2, a3}
  Signatures = {g1, g2}
  Genuine = {g1}
  Skew = 2
  MinTTL = 4
  MaxNow = 6
  None = None
SYMMETRY AttemptSymmetry
CHECK_DEADLOCK FALSE
INVARIANTS
  TypeOK
  AcceptedAgainOnlyIfAhead
  RefusedForCause
