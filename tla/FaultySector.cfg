\* README.md:156 against a sweep over a faulty sector.
CONSTANTS
  Sectors = {s1, s2}
  Pieces = {1, 2}
  PieceSize <- UnitPieces
  RequestedSize = 2
  DurationEpochs = 1
  ProposedAt = 1
  Expirations = {5}
  MaxEpoch = 4
SPECIFICATION Spec
PROPERTY
  FaultPublishesMismatch
CHECK_DEADLOCK FALSE
