\* README.md:168 against what settlement does once refreshes have stopped.
CONSTANTS
  p1 = p1
  o1 = o1
  c1 = c1
  m1 = m1
  k1 = k1
  none = none
  Providers = {p1}
  Organizations = {o1}
  NoOrg = none
  Clients = {c1}
  Manifests = {m1}
  Kinds = {k1}
  SpaceSizes = {2}
  OfferTerms <- OneTerms
  Prices = {3}
  MaxOffers = 1
  MAX_PROVIDERS = 1
  MAX_ACTIVE_OFFERS_PER_PROVIDER = 1
  MAX_BPS = 100
  MATCH_PRICE_BAND_BPS = 1
  Calls = {"validator", "evidence", "refresh", "attest", "settle"}
  MaxDeals = 1
  MaxRails = 1
  RailEndOffsets = {1}
  ZeroRateAsked = FALSE
  EPOCHS_IN_MONTH = 2
  EVIDENCE_REFRESH_GRACE_EPOCHS = 1
  EPOCHS_IN_YEAR = 4
  SECTOR_SIZE = 1
  DurationEpochs <- Duration
  Requests <- OneAsk
  MinIntervals = {}
  CoveredSizes = {1}
  ExpirationDelays = {}
  SweepLag = 0
  WithoutSLIs = {}
  MaxEpoch = 7
SPECIFICATION Spec
PROPERTY
  StaleEvidenceNeverAdvances
CHECK_DEADLOCK FALSE
