SPECIFICATION SharedSpec
CONSTANTS
  o1 = o1
  o2 = o2
  s1 = s1
  s2 = s2
  l1 = l1
  l2 = l2
  e1 = e1
  here = here
  there = there
  Openers = {o1}
  Streamers = {}
  Lazies = {l1}
  Evictors = {}
  Actors = {o1, l1}
  Proc <- OneProcess
  Inodes = {i1, i2, i3, i4}
  NoInode = NoInode
  Size = 2
  Faults = {"fetch"}
  VerifyOnRead = FALSE
  CanCrash = FALSE
  Leftovers = {"empty"}
VIEW MCView
SYMMETRY MCSymmetry
ACTION_CONSTRAINT OneAtATime
INVARIANTS
  LazyRangesReal
