SPECIFICATION Spec
CONSTANTS
  Tasks = {t1, t2}
  MaxKeys = 2
  MaxPeerKeys = 2
  MaxCrashes = 1
VIEW Distinguished
INVARIANTS TypeOK CachedKeysFresh
PROPERTY TrustConverges
