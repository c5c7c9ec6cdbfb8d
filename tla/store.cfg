SPECIFICATION Spec
CONSTANTS
  Ids = {i1, i2}
  Bytes = {b1, b2}
  Media = {m1, m2}
  Tampered = {i2}
  Missing = Missing
  Torn = Torn
  Corrupt = Corrupt
  NoPut = NoPut
INVARIANTS TypeOK ListedIdsAreReadable AckedIsDurable TamperingIsDetected
PROPERTIES SplitIsPermanent ImplementsArtifactStore
SYMMETRY Symmetry
CHECK_DEADLOCK FALSE
