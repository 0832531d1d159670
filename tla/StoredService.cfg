\* One deal whose storage may be lost at any epoch. The adapter is never late to
\* notice, the snapshots it takes may be dated an epoch back, and another
\* operator's rail names the same validator. The offer promises no SLI.
CONSTANTS
  p1 = p1
  o1 = o1
  c1 = c1
  m1 = m1
  k1 = k1
  none = none
  Providers = {p1}
  Organizations = {o1}
  NoOrg = none
  Clients = {c1}
  Manifests = {m1}
  Kinds = {k1}
  SpaceSizes = {2}
  OfferTerms <- Unpromised
  Prices = {3}
  MaxOffers = 1
  MAX_PROVIDERS = 1
  MAX_ACTIVE_OFFERS_PER_PROVIDER = 1
  MAX_BPS = 100
  MATCH_PRICE_BAND_BPS = 1
  Calls = {"validator", "evidence", "refresh", "settle", "foreign"}
  MaxDeals = 1
  MaxRails = 2
  RailEndOffsets = {2}
  ZeroRateAsked = TRUE
  EPOCHS_IN_MONTH = 2
  EVIDENCE_REFRESH_GRACE_EPOCHS = 1
  EPOCHS_IN_YEAR = 4
  SECTOR_SIZE = 1
  DurationEpochs <- Duration
  Requests <- OneAsk
  MinIntervals = {}
  CoveredSizes = {1}
  ExpirationDelays = {}
  SweepLag = 1
  WithoutSLIs <- Unpromised
  MaxEpoch = 7
  Lag = 0
SPECIFICATION StoredSpec
INVARIANTS
  PaidWhileStored
  NeverOverpaid
  DecisionAccepted
  LastSettledWithinCursor
CHECK_DEADLOCK FALSE
