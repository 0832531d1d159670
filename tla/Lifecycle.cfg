\* Two deals of one client over the bytes of one provider: the evidence covers
\* more than one of them reserved and less than the other, is refreshed and
\* expires before, during or after the service.
CONSTANTS
  p1 = p1
  o1 = o1
  c1 = c1
  m1 = m1
  m2 = m2
  k1 = k1
  none = none
  Providers = {p1}
  Organizations = {o1}
  NoOrg = none
  Clients = {c1}
  Manifests = {m1, m2}
  Kinds = {k1}
  SpaceSizes = {3}
  OfferTerms <- OneTerms
  Prices = {1}
  MaxOffers = 1
  MAX_PROVIDERS = 1
  MAX_ACTIVE_OFFERS_PER_PROVIDER = 1
  MAX_BPS = 100
  MATCH_PRICE_BAND_BPS = 1
  Calls = {"manifest", "validator", "evidence", "refresh", "reject"}
  MaxDeals = 2
  MaxRails = 2
  RailEndOffsets = {0}
  ZeroRateAsked = FALSE
  EPOCHS_IN_MONTH = 2
  EVIDENCE_REFRESH_GRACE_EPOCHS = 1
  EPOCHS_IN_YEAR = 4
  SECTOR_SIZE = 1
  DurationEpochs <- DurationOne
  Requests <- SmallAndLarge
  MinIntervals = {}
  CoveredSizes = {2}
  ExpirationDelays = {0, 1}
  SweepLag = 0
  WithoutSLIs = {}
  MaxEpoch = 3
SPECIFICATION Spec
INVARIANTS
  TypeOK
  CommittedWithinAvailable
  DealRailConsistent
  LiveDealCanBeClosed
  ManifestExclusive
  CapacityConserved
PROPERTY
  TerminalIsFinal
CHECK_DEADLOCK FALSE
