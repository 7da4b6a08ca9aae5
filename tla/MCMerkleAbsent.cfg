SPECIFICATION SessionSpec
CONSTANTS
  a = a
  b = b
  c = c
  Stem <- MCStem
  PathBit <- MCPathBit
  KeyRank <- MCKeyRank
  BatchKeys <- MCBatchKeys
  Depth = 2
  Subindex = {0, 1}
  Value = {"zero", "v"}
  EmptyValue = "zero"
  InsertValue = {"v"}
  MaxCaptures = 1
INVARIANT EveryProofVerifies
