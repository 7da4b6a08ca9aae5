SPECIFICATION Spec
CONSTANTS
  a = a
  b = b
  c = c
  Stem <- MCStem
  PathBit <- MCPathBit
  Depth = 2
  Subindex = {0}
  Value = {"zero", "v"}
  EmptyValue = "zero"
  InsertValue = {"v"}
  HashFunction = {"f", "g"}
  None = None
INVARIANT EmptyHashIsTreeHashOfEmpty
