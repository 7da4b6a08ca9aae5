SPECIFICATION ClientSpec
CONSTANTS
  a = a
  b = b
  c = c
  Stem = {a, b, c}
  Sub = {1, 2}
  Value = {"v", "w"}
  Contents <- MCContents
  Sent <- MCSent
  MaxCached = 2
  MaxReads = 4
  StemWidth = 2
  MaxKey = 3
  MaxStemPrefix = 2
  MaxPath = 2
  MaxManifest = 2
  MaxBlob = 14
  MaxWire = 29
  MaxPayload = 3
  Field <- MCField
  Record <- Letters
  Digit = {0, 1, 2, 3}
SYMMETRY Symmetric
INVARIANTS ClientTypeOK CacheIsBlockScoped CacheIsMostRecent DecodeInvertsEncode AcceptedIsCanonical DamageIsDetected
