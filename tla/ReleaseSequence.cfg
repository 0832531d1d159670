CONSTANTS
  b1 = b1
  b2 = b2
  b3 = b3
  None = None
  ProxyOrder <- AdaptersAndRegistry
  HelperOrder <- Helpers
  Builds = {b1, b2, b3}
  Compatible <- Layouts
  Outcomes = {TRUE}
  MaxReorgs = 0
  Commands = {"deploy", "missing", "upgrade", "tokens"}
  Missing = {"SectorEvidenceAdapter"}
  Upgrades <- ValidatorAndCalibnet
  Policy = TRUE
  InitialBuilds = {b3}
  InitialMissing = {{"SectorEvidenceAdapter"}, None}
  EditsWhile = {"idle"}
  MaxStarts = 2
  MaxMishaps = 2
  MaxEdits = 1
SPECIFICATION Spec
INVARIANTS
  BuildInfoRetained
  ManifestDescribesChain
  LayoutsExtend
  OneUnfinished
CHECK_DEADLOCK FALSE
