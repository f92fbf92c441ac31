SPECIFICATION EagerSpec
CONSTANTS
  o1 = o1
  o2 = o2
  e1 = e1
  here = here
  there = there
  Actors = {o1, o2, e1}
  Openers = {o1, o2}
  Evictors = {e1}
  Proc <- MCProc
  Inodes = {i1, i2, i3, i4}
  NoInode = NoInode
  Size = 2
  Faults = {"fetch", "norange", "short", "bad", "save"}
  VerifyOnRead = FALSE
  CanCrash = TRUE
  Leftovers = {"empty", "partial", "complete", "lost", "stale", "orphan"}
VIEW MCView
SYMMETRY MCSymmetry
INVARIANTS
  EagerInv
  InstalledBlobIntact
  HandleIntact
