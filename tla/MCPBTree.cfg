\* No caller inserts EMPTY_VALUE: the normal use of the tree.
SPECIFICATION Spec
CONSTANTS
  a = a
  b = b
  c = c
  d = d
  Stem <- MCStem
  PathBit <- MCPathBit
  Depth = 3
  Subindex = {0, 1}
  Value = {"zero", "v"}
  EmptyValue = "zero"
  InsertValue = {"v"}
INVARIANTS TypeOK Canonical RootIsFunctionOfMap UnwindIsFrameByFrame
PROPERTY RefinesMap
