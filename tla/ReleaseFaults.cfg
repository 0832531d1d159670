CONSTANTS
  b1 = b1
  b2 = b2
  b3 = b3
  None = None
  ProxyOrder <- Adapters
  HelperOrder <- Helpers
  Builds = {b1, b2}
  Compatible <- AllLayouts
  Outcomes = {TRUE, FALSE}
  MaxReorgs = 1
  Commands = {"missing", "upgrade"}
  Missing = {"SectorEvidenceAdapter"}
  Upgrades <- MarketOnly
  Policy = FALSE
  InitialBuilds = {b1}
  InitialMissing = {{"SectorEvidenceAdapter"}}
  EditsWhile = {"idle"}
  MaxStarts = 2
  MaxMishaps = 2
  MaxEdits = 0
SPECIFICATION FairSpec
INVARIANTS
  TypeOK
  PublishedIsFinal
  ReceiptsDistinct
  ManifestDescribesChain
PROPERTIES
  EvidenceKept
  ImplementsReleaseLog
  RecordedEventuallyPublished
CHECK_DEADLOCK FALSE
