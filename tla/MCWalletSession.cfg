SPECIFICATION SetupSpec
CONSTANTS
  a = a
  b = b
  Stem = {a, b}
  Sub = {1, 2}
  Value = {"v", "w"}
  Contents <- MCContents
  Sent <- MCSent
  MaxCached = 1
  MaxReads = 0
  BranchCost = 8
  ChunkCost = 2
  NewLeafCost = 5
  HitCost = 1
  MaxAccesses = 2
  Ttl = {1, 2}
  Uses = {1, 2}
  None = None
  MaxEpoch = 2
  Address = {"alice", "bob"}
  ChunkId = {0, 1, 15, 16, 17, 271, 272, 273, 527, 528}
  SlotId = {0, 3, 4, 5, 259, 260, 515, 516}
  Layouts <- MCLayouts
  ChunkSize = 3
  MaxPush = 4
  MaxCode = 8
  Radix = 3
  LeafLength = 6
  BasicEnds <- MCBasicEnds
  EpochLength = 2
SYMMETRY Symmetric
INVARIANTS AnswerIsTrue DiscountIsCurrent BlockGasIsExact LensKeepsItsTerms PartsHaveOwnLeaves ChunksAreSelfContained LeafEncodingsInvert
