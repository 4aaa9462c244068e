SPECIFICATION Spec
CONSTANTS
  MaxMessages = 2
  BacklogTTL = 1
  MailboxTTL = 2
  CallTTL = 0
  MaxInFlight = 2
  MaxClock = 2
  Shards = {s1}
  Requests = {r1, r2, r3, r4, r5}
  Secrets = {k1, k2}
  Placements <- OneList
  Never = Never
  NoSecret = NoSecret
  NoRecord = NoRecord
  NoJob = NoJob
  Self = s1
SYMMETRY RequestSymmetry
CHECK_DEADLOCK FALSE
INVARIANTS
  TypeOK
  Capacity
PROPERTY SoloStepsImplementMailbox
