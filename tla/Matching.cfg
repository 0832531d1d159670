\* Two providers of one organization or of two, two offers at two prices.
CONSTANTS
  p1 = p1
  p2 = p2
  o1 = o1
  o2 = o2
  c1 = c1
  c2 = c2
  m1 = m1
  k1 = k1
  none = none
  Providers = {p1, p2}
  Organizations = {o1, o2}
  NoOrg = none
  Clients = {c1, c2}
  Manifests = {m1}
  Kinds = {k1}
  SpaceSizes = {1, 2}
  OfferTerms <- OneTerms
  Prices = {1, 2}
  MaxOffers = 2
  MAX_PROVIDERS = 2
  MAX_ACTIVE_OFFERS_PER_PROVIDER = 2
  MAX_BPS = 100
  MATCH_PRICE_BAND_BPS = 1
  Calls = {"pause", "block", "offer", "price", "specific", "reject", "space"}
  MaxDeals = 2
  MaxRails = 0
  RailEndOffsets = {0}
  ZeroRateAsked = FALSE
  EPOCHS_IN_MONTH = 2
  EVIDENCE_REFRESH_GRACE_EPOCHS = 1
  EPOCHS_IN_YEAR = 4
  SECTOR_SIZE = 1
  DurationEpochs <- DurationOne
  Requests <- Rivals
  MinIntervals = {}
  CoveredSizes = {}
  ExpirationDelays = {}
  SweepLag = 0
  WithoutSLIs = {}
  MaxEpoch = 1
SPECIFICATION Spec
SYMMETRY Symmetry
INVARIANTS
  ManifestExclusive
  SelectionUnique
  CapacityConserved
CHECK_DEADLOCK FALSE
