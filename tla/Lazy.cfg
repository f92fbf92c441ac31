SPECIFICATION SharedSpec
CONSTANTS
  o1 = o1
  o2 = o2
  s1 = s1
  s2 = s2
  l1 = l1
  l2 = l2
  e1 = e1
  here = here
  there = there
  Openers = {}
  Streamers = {}
  Lazies = {l1}
  Evictors = {e1}
  Actors = {l1, e1}
  Proc <- TwoProcesses
  Inodes = {i1, i2, i3}
  NoInode = NoInode
  Size = 4
  Faults = {"fetch", "norange", "short", "bad", "save"}
  VerifyOnRead = FALSE
  CanCrash = TRUE
  Leftovers = {"empty", "partial", "complete", "lost", "stale", "orphan"}
VIEW MCView
SYMMETRY MCSymmetry
INVARIANTS
  LazyRangesReal
  EntryRangesReal
  LazyHandleUsable
  SharedTypeOK
  InstalledBlobIntact
