SPECIFICATION SharedSpec
CONSTANTS
  o1 = o1
  o2 = o2
  s1 = s1
  s2 = s2
  l1 = l1
  l2 = l2
  e1 = e1
  here = here
  there = there
  Openers = {o1}
  Streamers = {s2}
  Lazies = {}
  Evictors = {e1}
  Actors = {o1, s2, e1}
  Proc <- TwoProcesses
  Inodes = {i1, i2, i3, i4}
  NoInode = NoInode
  Size = 2
  Faults = {"fetch", "short"}
  VerifyOnRead = TRUE
  CanCrash = TRUE
  Leftovers = {"empty", "orphan"}
VIEW MCView
SYMMETRY MCSymmetry
INVARIANTS
  CheckedHandleIntact
