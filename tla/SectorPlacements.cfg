\* Two pieces of different sizes over two sectors, in any arrangement.
CONSTANTS
  Sectors = {s1, s2}
  Pieces = {1, 2}
  PieceSize <- UnevenPieces
  RequestedSize = 3
  DurationEpochs = 2
  ProposedAt = 1
  Expirations = {3, 4, 5}
  MaxEpoch = 4
SPECIFICATION FairSpec
INVARIANTS
  PlacementsAddUp
  SnapshotTrue
  ServiceCommitted
PROPERTIES
  SweepCompletes
  ImplementsSnapshots
CHECK_DEADLOCK FALSE
