\* Two deals over three ids, without refreshes.
CONSTANTS
  Deals = {1, 2}
  Ids = {a, b, c}
  SizeOf <- TwoEach
  RequestedSize = 5
  Paddings = {0, 2000}
  BPS_DENOMINATOR = 10000
  EPOCHS_IN_MONTH = 1
  DurationEpochs = 1
  Expirations = {1, 2}
  MaxEpoch = 3
  Calls = {"padding", "disable"}
SPECIFICATION Spec
INVARIANTS
  EvidenceAddsUp
  ExpiredForGood
SYMMETRY SymmetricIds
CHECK_DEADLOCK FALSE
