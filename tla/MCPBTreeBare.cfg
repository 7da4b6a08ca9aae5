\* Callers may insert EMPTY_VALUE, which leaves stems without a leaf.
SPECIFICATION Spec
CONSTANTS
  a = a
  b = b
  c = c
  d = d
  Stem <- MCStem
  PathBit <- MCPathBit
  Depth = 3
  Subindex = {0, 1}
  Value = {"zero", "v"}
  EmptyValue = "zero"
  InsertValue = {"zero", "v"}
INVARIANT RootIsFunctionOfMap
