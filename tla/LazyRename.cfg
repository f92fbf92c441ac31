SPECIFICATION SharedSpec
CONSTANTS
  o1 = o1
  o2 = o2
  s1 = s1
  s2 = s2
  l1 = l1
  l2 = l2
  e1 = e1
  here = here
  there = there
  Openers = {}
  Streamers = {}
  Lazies = {l1, l2}
  Evictors = {}
  Actors = {l1, l2}
  Proc <- OneProcess
  Inodes = {i1, i2, i3, i4}
  NoInode = NoInode
  Size = 2
  Faults = {}
  VerifyOnRead = FALSE
  CanCrash = FALSE
  Leftovers = {"empty"}
VIEW MCView
SYMMETRY MCSymmetry
INVARIANTS
  VerifiedBlobIntact
