\* One deal whose service lasts two months of two epochs: the admin may change the
\* settlement interval, the rail may end before or after the termination, snapshots
\* may be dated an epoch back, and FilecoinPay asks about the span before the rail
\* had a rate.
CONSTANTS
  p1 = p1
  o1 = o1
  c1 = c1
  m1 = m1
  k1 = k1
  none = none
  Providers = {p1}
  Organizations = {o1}
  NoOrg = none
  Clients = {c1}
  Manifests = {m1}
  Kinds = {k1}
  SpaceSizes = {2}
  OfferTerms <- OneTerms
  Prices = {3}
  MaxOffers = 1
  MAX_PROVIDERS = 1
  MAX_ACTIVE_OFFERS_PER_PROVIDER = 1
  MAX_BPS = 100
  MATCH_PRICE_BAND_BPS = 1
  Calls = {"validator", "evidence", "refresh", "attest", "settle"}
  MaxDeals = 1
  MaxRails = 1
  RailEndOffsets <- EarlyOrLate
  ZeroRateAsked = TRUE
  EPOCHS_IN_MONTH = 2
  EVIDENCE_REFRESH_GRACE_EPOCHS = 1
  EPOCHS_IN_YEAR = 4
  SECTOR_SIZE = 1
  DurationEpochs <- Duration
  Requests <- OneAsk
  MinIntervals = {3}
  CoveredSizes = {1}
  ExpirationDelays = {}
  SweepLag = 1
  WithoutSLIs = {}
  MaxEpoch = 7
SPECIFICATION FairSpec
INVARIANTS
  NeverOverpaid
  DecisionAccepted
  RailClosable
PROPERTY
  ImplementsAgreement
  RailEventuallySettled
CHECK_DEADLOCK FALSE
