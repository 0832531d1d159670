\* One deal of one or two claims, swept while claims are removed or reported
\* as terminated.
CONSTANTS
  Deals = {1}
  Ids = {a, b}
  SizeOf <- TwoEach
  RequestedSize = 5
  Paddings = {2000}
  BPS_DENOMINATOR = 10000
  EPOCHS_IN_MONTH = 1
  DurationEpochs = 2
  Expirations = {1}
  MaxEpoch = 4
  Calls = {"refresh", "terminate", "remove"}
SPECIFICATION Spec
INVARIANTS
  TypeOK
  TerminationsSeen
PROPERTY
  ImplementsSnapshots
SYMMETRY SymmetricIds
CHECK_DEADLOCK FALSE
