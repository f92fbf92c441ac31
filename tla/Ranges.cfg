SPECIFICATION MCSpec
CHECK_DEADLOCK FALSE
CONSTANTS
  TotalSize = 4
  MaxRanges = 3
  Users = {u1, u2}
  Nobody = Nobody
INVARIANTS
  GapsAreMissingBytes
  WindowGapsAreMissingBytes
  TestsMatchBytes
  ClosedIsFinal
PROPERTIES
  MergedForm
  ImplementsByteSet
  UsersAnswered
