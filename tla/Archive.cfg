SPECIFICATION FairArchiveSpec
CONSTANTS
  Names <- MCNames
  NoName = "none"
  TmpLink <- MCTmpLink
  MaxInt64 = 2
  Tree <- MCTree
  Lengths <- MCLengths
  BuildFaults <- MCFaults
  Limits <- MCLimits
  ExtractFaults <- MCExtractFaults
  Foreign <- MCForeign
INVARIANTS
  ArchiveInv
  NoTempLeft
  BuiltWhole
  LimitsRespected
  LimitsAgree
  ExtractedWhole
PROPERTIES
  BuildEnds
  NoOverwrite
