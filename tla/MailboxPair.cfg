SPECIFICATION MeshSpec
CONSTANTS
  MaxMessages = 2
  BacklogTTL = 1
  MailboxTTL = 2
  CallTTL = 0
  MaxInFlight = 2
  MaxClock = 1
  Shards = {s1, s2}
  Requests = {r1, r2, r3, r4, r5}
  Secrets = {k1, k2}
  Placements <- OneList
  Never = Never
  NoSecret = NoSecret
  NoRecord = NoRecord
  NoJob = NoJob
  Self = s1
SYMMETRY RequestSymmetry
CHECK_DEADLOCK FALSE
INVARIANTS
  QueuedOnce
  SeenOnlyIfSent
  BurnedStaysBurned
  AcceptedKept
  SecretSticks
  BacklogClock
