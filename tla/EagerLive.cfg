SPECIFICATION FairEagerSpec
CONSTANTS
  o1 = o1
  o2 = o2
  e1 = e1
  here = here
  there = there
  Actors = {o1, o2}
  Openers = {o1, o2}
  Evictors = {}
  Proc <- MCProc
  Inodes = {i1, i2, i3}
  NoInode = NoInode
  Size = 2
  Faults = {"fetch", "short"}
  VerifyOnRead = FALSE
  CanCrash = FALSE
  Leftovers = {"empty", "partial", "complete"}
INVARIANTS
  NoBrokenOpen
  CompleteHasBlob
  NoOrphanTmp
PROPERTIES
  ImplementsBlobSource
