SPECIFICATION MCSpec
CONSTANTS
  d1 = d1
  d2 = d2
  d3 = d3
  Digests = {d1, d2}
  Refs = {r1}
  SizeOf <- MCSizeOf
  Callers = {c1}
  Pruners = {p1}
  Proc <- MCProc
  MaxSize = 2
  MaxAge = 1
  TTL = 1
  Latency = 0
  MaxClock = 2
  MayFail = TRUE
  Listers = {a1, a2}
  Lists = {1, 2}
  ListTTL = 1
  MaxNow = 2
  MaySaveFail = TRUE
VIEW MCView
INVARIANTS
  RefTypeOK
  PruneWithinLimits
  EvictsLeastRecent
  OldRefsBacked
  TagsFresh
PROPERTIES
  TTLBound
