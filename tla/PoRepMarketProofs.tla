------------------------- MODULE PoRepMarketProofs --------------------------
(***************************************************************************)
(* Type correctness of the market, the registry, the validators and the    *)
(* rails.  A call that reverts in the code when a count would underflow is *)
(* a guard of the model, so that every count stays in Nat is a property of *)
(* those guards.  References between the parts (deals to offers, rails to  *)
(* deals) are needed for the induction and proved with it.                 *)
(*                                                                         *)
(* Then: the deal state kept by the market and the rail status kept by the *)
(* deal's validator agree in every reachable state, and a closed deal is   *)
(* never reopened.                                                         *)
(***************************************************************************)
EXTENDS PoRepMarket, SumLemmas

USE DEF Deals, Rails, RailStatuses, DealStates, OfferIds, Existing

LEMMA InitTypeOK == Init => TypeOK
  BY RegistryAssumption, ValidatorAssumption, MarketAssumption
     DEF Init, RegistryInit, ValidatorInit, TypeOK, RegistryTypeOK, ValidatorTypeOK,
         MarketTypeOK, EvidenceTypeOK

\* Only registered providers have offers.
OffersRegistered == \A o \in 1 .. nextOfferId : offers[o].provider \in Registered

RegistryInv == RegistryTypeOK /\ OffersRegistered

LEMMA RegistryStepType ==
  ASSUME RegistryInv, RegistryNext
  PROVE  RegistryInv'
<1> USE RegistryAssumption DEF RegistryInv, RegistryTypeOK, OffersRegistered, Registered, Offer, capacityVars
<1>1. ASSUME NEW p \in Providers, NEW org \in Organizations, NEW space \in SpaceSizes,
             RegisterProviderFor(p, org, space)
      PROVE  RegistryInv'
  BY <1>1 DEF RegisterProviderFor
<1>2. ASSUME NEW p \in Providers, PauseProvider(p) \/ UnpauseProvider(p)
      PROVE  RegistryInv'
  BY <1>2 DEF PauseProvider, UnpauseProvider
<1>3. ASSUME NEW p \in Providers, BlockProvider(p) \/ UnblockProvider(p)
      PROVE  RegistryInv'
  BY <1>3 DEF BlockProvider, UnblockProvider
<1>4. ASSUME NEW p \in Providers, NEW space \in SpaceSizes, UpdateAvailableSpace(p, space)
      PROVE  RegistryInv'
  BY <1>4 DEF UpdateAvailableSpace
<1>5. ASSUME NEW p \in Providers, NEW t \in OfferTerms, NEW price \in Prices \cup {0},
             CreateOffer(p, t, price)
      PROVE  RegistryInv'
  <2>1. nextOfferId' \in 0 .. MaxOffers /\ nextOfferId' = nextOfferId + 1
    BY <1>5 DEF CreateOffer
  <2>2. [provider |-> p, active |-> TRUE, price |-> price, terms |-> t] \in Offer
    OBVIOUS
  <2>3. ASSUME NEW o \in 1 .. nextOfferId', o # nextOfferId'
        PROVE  offers[o] \in Offer
    <3>1. o \in 1 .. nextOfferId
      BY <2>1, <2>3
    <3> QED
      BY <3>1
  <2>4. offers' \in [1 .. nextOfferId' -> Offer]
    BY <2>2, <2>3, <1>5 DEF CreateOffer
  <2>5. OffersRegistered'
    <3>1. ASSUME NEW o \in 1 .. nextOfferId'
          PROVE  (offers[o].provider \in Registered)'
      <4>1. offers'[o] = IF o = nextOfferId' THEN [provider |-> p, active |-> TRUE, price |-> price, terms |-> t]
                                             ELSE offers[o]
        BY <1>5, <3>1 DEF CreateOffer
      <4>2. CASE o = nextOfferId'
        BY <1>5, <4>1, <4>2 DEF CreateOffer
      <4>3. CASE o # nextOfferId'
        <5>1. o \in 1 .. nextOfferId
          BY <2>1, <3>1, <4>3
        <5> QED
          BY <1>5, <4>1, <4>3, <5>1 DEF CreateOffer
      <4> QED
        BY <4>2, <4>3
    <3> QED
      BY <3>1
  <2> QED
    BY <1>5, <2>1, <2>4, <2>5 DEF CreateOffer
<1>6. ASSUME NEW o \in 1 .. nextOfferId, NEW active \in BOOLEAN, SetOfferActive(o, active)
      PROVE  RegistryInv'
  <2>1. offers[o] \in Offer
    OBVIOUS
  <2>2. offers' \in [1 .. nextOfferId -> Offer]
    BY <1>6, <2>1 DEF SetOfferActive
  <2> QED
    BY <1>6, <2>2 DEF SetOfferActive
<1>7. ASSUME NEW o \in 1 .. nextOfferId, NEW price \in Prices \cup {0}, SetOfferPayment(o, price)
      PROVE  RegistryInv'
  <2>1. offers[o] \in Offer /\ price \in Nat
    OBVIOUS
  <2>2. offers' \in [1 .. nextOfferId -> Offer]
    BY <2>1, <1>7 DEF SetOfferPayment
  <2> QED
    BY <1>7, <2>2 DEF SetOfferPayment
<1> QED
  BY <1>1, <1>2, <1>3, <1>4, <1>5, <1>6, <1>7 DEF RegistryNext

LEMMA CapacityCallType ==
  ASSUME RegistryInv, NEW p \in Providers, NEW size \in Nat, NEW actual \in Nat,
         NEW client, NEW manifest,
         \/ ReleasePendingCapacity(p, size, client, manifest)
         \/ ReleaseCapacity(p, size, client, manifest)
         \/ CommitCapacity(p, size, actual)
  PROVE  RegistryInv'
<1> USE DEF RegistryInv, RegistryTypeOK, OffersRegistered, Registered, managementVars, Unassign
<1>1. CASE ReleasePendingCapacity(p, size, client, manifest)
  BY <1>1 DEF ReleasePendingCapacity
<1>2. CASE ReleaseCapacity(p, size, client, manifest)
  BY <1>2 DEF ReleaseCapacity
<1>3. CASE CommitCapacity(p, size, actual)
  BY <1>3 DEF CommitCapacity, PendingAfter
<1> QED
  BY <1>1, <1>2, <1>3

LEMMA UpdateReservationType ==
  ASSUME RegistryInv, NEW o \in 1 .. nextOfferId, NEW client \in Clients,
         NEW oldManifest, NEW newManifest \in Manifests, NEW oldSize \in Nat, NEW newSize \in Nat,
         UpdatePendingReservation(o, client, oldManifest, newManifest, oldSize, newSize)
  PROVE  RegistryInv'
<1> USE DEF RegistryInv
<1> DEFINE p == offers[o].provider
<1>1. p \in Providers /\ organization[p] \in Organizations
  BY DEF RegistryTypeOK, OffersRegistered, Registered, Offer
<1>2. (pendingBytes[p] - oldSize) + newSize \in Nat
  BY <1>1 DEF UpdatePendingReservation, RegistryTypeOK
<1>3. pendingBytes' \in [Providers -> Nat]
  BY <1>1, <1>2 DEF UpdatePendingReservation, RegistryTypeOK
<1>4. assigned' \subseteq Clients \X Manifests \X Organizations
  BY <1>1 DEF UpdatePendingReservation, RegistryTypeOK
<1> QED
  BY <1>3, <1>4 DEF UpdatePendingReservation, RegistryTypeOK, OffersRegistered, Registered,
                    managementVars

\* Every rail names the validator of an existing deal.
RailsNameDeals == \A r \in 1 .. railCount : railDeal[r] \in Existing

\* Every deal is placed with an offer of its provider.
DealsNameOffers ==
  \A d \in Existing :
    terms[d].offer <= nextOfferId /\ offers[terms[d].offer].provider = terms[d].provider

TypeInv == TypeOK /\ OffersRegistered /\ RailsNameDeals /\ DealsNameOffers

\* Amounts rounded up are natural numbers.
LEMMA CeilDivType ==
  ASSUME NEW a \in Nat, NEW b \in Nat \ {0}
  PROVE  CeilDiv(a, b) \in Nat
BY DEF CeilDiv

LEMMA RateType ==
  ASSUME NEW price \in Nat, NEW bytes \in Nat
  PROVE  AmountPerEpoch(price, BilledUnits(bytes)) \in Nat
<1>1. BilledUnits(bytes) \in Nat
  BY CeilDivType, MarketAssumption DEF BilledUnits
<1>2. price * BilledUnits(bytes) \in Nat
  BY <1>1
<1> QED
  BY <1>2, CeilDivType, MarketAssumption DEF AmountPerEpoch

LEMMA DueType ==
  ASSUME TypeOK, NEW d \in Existing, NEW epoch \in Nat
  PROVE  DueAmount(d, epoch) \in Int
<1>1. terms[d].price \in Nat /\ dealCommitted[d] \in Nat /\ serviceStart[d] \in Nat
  BY ValidatorAssumption DEF TypeOK, MarketTypeOK, DealTerms
<1>2. BilledUnits(dealCommitted[d]) \in Nat
  BY <1>1, CeilDivType, MarketAssumption DEF BilledUnits
<1> DEFINE rate == terms[d].price * BilledUnits(dealCommitted[d])
           span == epoch - serviceStart[d]
<1>3. rate \in Int
  BY <1>1, <1>2
<1>4. span \in Int
  BY <1>1
<1>5. rate * span \in Int
  <2> HIDE DEF rate, span
  <2> QED
    BY <1>3, <1>4
<1>6. (rate * span) \div EPOCHS_IN_MONTH \in Int
  <2> HIDE DEF rate, span
  <2> QED
    BY <1>5, MarketAssumption
<1> QED
  BY <1>6 DEF DueAmount

LEMMA SettlementType ==
  ASSUME TypeOK, NEW d \in Existing, NEW from \in Nat, NEW to \in Nat
  PROVE  /\ SettlementAmount(d, from, to) \in Int
         /\ SettleUpto(d, from, to) \in Nat
<1>1. EffectiveTo(d, to) \in Nat
  BY ValidatorAssumption DEF EffectiveTo, LastPayableEpoch, TypeOK, MarketTypeOK
<1>2. DueAmount(d, EffectiveTo(d, to)) \in Int /\ DueAmount(d, from) \in Int
  BY <1>1, DueType
<1>3. SettlementAmount(d, from, to) \in Int
  BY <1>2 DEF SettlementAmount
<1> QED
  BY <1>1, <1>3 DEF SettleUpto

\* What a step leaves alone keeps its type.
LEMMA UnchangedTypes ==
  ASSUME TypeInv
  PROVE  /\ UNCHANGED registryVars => RegistryInv'
         /\ UNCHANGED <<validatorVars, railVars>> => ValidatorTypeOK'
         /\ UNCHANGED marketVars => MarketTypeOK'
         /\ UNCHANGED <<evidenceVars, oracleVars>> => EvidenceTypeOK'
         /\ UNCHANGED <<railVars, dealCount>> => RailsNameDeals'
         /\ UNCHANGED <<managementVars, dealCount, terms>> => DealsNameOffers'
<1> USE DEF TypeInv, TypeOK
<1>1. UNCHANGED registryVars => RegistryInv'
  BY DEF registryVars, managementVars, capacityVars, RegistryInv, RegistryTypeOK,
         OffersRegistered, Registered
<1>2. UNCHANGED <<validatorVars, railVars>> => ValidatorTypeOK'
  BY DEF validatorVars, railVars, ValidatorTypeOK
<1>3. UNCHANGED marketVars => MarketTypeOK'
  BY DEF marketVars, dealVars, serviceVars, settlementVars, MarketTypeOK
<1>4. UNCHANGED <<evidenceVars, oracleVars>> => EvidenceTypeOK'
  BY DEF evidenceVars, oracleVars, EvidenceTypeOK
<1>5. UNCHANGED <<railVars, dealCount>> => RailsNameDeals'
  BY DEF railVars, RailsNameDeals
<1>6. UNCHANGED <<managementVars, dealCount, terms>> => DealsNameOffers'
  BY DEF managementVars, DealsNameOffers
<1> QED
  BY <1>1, <1>2, <1>3, <1>4, <1>5, <1>6

LEMMA CreateDealType ==
  ASSUME TypeInv, NEW request \in Requests, NEW o \in 1 .. nextOfferId,
         offers[o].price # 0,
         CreateDeal(o, request)
  PROVE  TypeInv'
<1> DEFINE d == dealCount + 1
<1> USE DEF TypeInv, TypeOK
<1>1. o \in OfferIds /\ offers[o] \in Offer
  BY RegistryAssumption DEF RegistryTypeOK
<1>2. /\ request.client \in Clients /\ request.manifest \in Manifests
      /\ request.size \in Nat \ {0} /\ request.kind \in Kinds
  BY MarketAssumption
<1>3. d \in Deals /\ dealCount' = d
  BY ValidatorAssumption DEF CreateDeal, MarketTypeOK
<1>4. [client |-> request.client, provider |-> offers[o].provider,
       offer |-> o, kind |-> request.kind, price |-> offers[o].price,
       hasSLIs |-> offers[o].terms \notin WithoutSLIs,
       manifest |-> request.manifest, reserved |-> request.size] \in DealTerms
  BY <1>1, <1>2 DEF Offer, DealTerms
<1>5. terms' \in [1 .. dealCount' -> DealTerms]
  BY <1>3, <1>4 DEF CreateDeal, MarketTypeOK
<1>6. MarketTypeOK'
  BY <1>3, <1>5, ValidatorAssumption
     DEF CreateDeal, ChangeDealState, MarketTypeOK, serviceVars, settlementVars
<1>7. RegistryInv'
  <2>1. organization[offers[o].provider] \in Organizations
    BY <1>1 DEF OffersRegistered, Registered, RegistryTypeOK, Offer
  <2>2. ReserveSelection(o, request)
    BY DEF CreateDeal
  <2>3. pendingBytes[offers[o].provider] + request.size \in Nat
    BY <1>1, <1>2 DEF RegistryTypeOK, Offer
  <2>4. pendingBytes' \in [Providers -> Nat]
    BY <2>2, <2>3 DEF ReserveSelection, RegistryTypeOK
  <2>5. assigned' \subseteq Clients \X Manifests \X Organizations
    BY <1>2, <2>1, <2>2 DEF ReserveSelection, RegistryTypeOK
  <2> QED
    BY <2>2, <2>4, <2>5
       DEF RegistryInv, RegistryTypeOK, OffersRegistered, Registered,
           ReserveSelection, managementVars
<1>8. RailsNameDeals'
  BY <1>3 DEF CreateDeal, RailsNameDeals, MarketTypeOK, railVars
<1>9. DealsNameOffers'
  <2> SUFFICES ASSUME NEW e \in 1 .. d
               PROVE  /\ terms'[e].offer <= nextOfferId
                      /\ offers[terms'[e].offer].provider = terms'[e].provider
    BY <1>3 DEF DealsNameOffers, CreateDeal, ReserveSelection, managementVars
  <2>1. CASE e = d
    BY <1>3, <2>1 DEF CreateDeal, RegistryTypeOK
  <2>2. CASE e # d
    BY <1>3, <2>2 DEF CreateDeal, DealsNameOffers, MarketTypeOK
  <2> QED
    BY <2>1, <2>2
<1> QED
  BY <1>6, <1>7, <1>8, <1>9, UnchangedTypes DEF CreateDeal, RegistryInv

LEMMA CreatePayRailType ==
  ASSUME TypeInv, NEW d \in Existing, NEW rate \in Nat, CreatePayRail(d, rate, now),
         UNCHANGED dealCount
  PROVE  /\ RailsNameDeals'
         /\ railCount' \in Rails
         /\ railDeal' \in [Rails -> 0 .. MaxDeals]
         /\ railRate' \in [Rails -> Nat] /\ railCursor' \in [Rails -> Nat]
         /\ UNCHANGED <<railEnd, railPaid>>
<1> USE DEF TypeInv, TypeOK
<1>1. railCount' = railCount + 1 /\ railCount' \in Rails
  BY ValidatorAssumption DEF CreatePayRail, ValidatorTypeOK
<1>2. d \in 0 .. MaxDeals /\ now \in Nat
  BY ValidatorAssumption DEF MarketTypeOK
<1>3. \A r \in 1 .. railCount' : r \in 1 .. railCount \/ r = railCount'
  BY <1>1 DEF ValidatorTypeOK
<1>4. RailsNameDeals'
  <2> SUFFICES ASSUME NEW r \in 1 .. railCount' PROVE railDeal'[r] \in Existing
    BY DEF RailsNameDeals
  <2>1. railDeal' = [railDeal EXCEPT ![railCount'] = d]
    BY DEF CreatePayRail
  <2>2. railDeal \in [Rails -> 0 .. MaxDeals] /\ r \in Rails
    BY <1>1, ValidatorAssumption DEF ValidatorTypeOK
  <2> QED
    BY <2>1, <2>2, <1>1, <1>3 DEF RailsNameDeals
<1> QED
  BY <1>1, <1>2, <1>4 DEF CreatePayRail, ValidatorTypeOK

LEMMA TerminateRailType ==
  ASSUME ValidatorTypeOK, NEW epoch \in Nat, NEW d \in Deals, NEW statuses,
         TerminateRailFrom(d, statuses, epoch)
  PROVE  ValidatorTypeOK' /\ UNCHANGED <<railCount, railDeal>>
<1>1. PICK offset \in RailEndOffsets :
        railEnd' = [railEnd EXCEPT ![railId[d]] =
                      IF epoch + offset > railCursor[railId[d]]
                        THEN epoch + offset ELSE railCursor[railId[d]]]
  BY DEF TerminateRailFrom, TerminatePayRail
<1>2. offset \in Int
  BY ValidatorAssumption
<1>3. railEnd' \in [Rails -> Nat]
  <2>1. CASE railId[d] \in Rails
    BY <1>1, <1>2, <2>1 DEF ValidatorTypeOK
  <2>2. CASE railId[d] \notin Rails
    BY <1>1, <2>2 DEF ValidatorTypeOK
  <2> QED
    BY <2>1, <2>2
<1> QED
  BY <1>3 DEF TerminateRailFrom, TerminatePayRail, ValidatorTypeOK

LEMMA DealStepType ==
  ASSUME TypeInv, NEW d \in Existing, DealStep(d)
  PROVE  TypeInv'
<1> USE DEF TypeInv, TypeOK
<1>d. d \in Deals /\ terms[d] \in DealTerms
  BY ValidatorAssumption DEF MarketTypeOK
<1>t. /\ terms[d].provider \in Providers /\ terms[d].client \in Clients
      /\ terms[d].manifest \in Manifests /\ terms[d].reserved \in Nat \ {0}
      /\ terms[d].price \in Nat /\ terms[d].kind \in Kinds
  BY <1>d DEF DealTerms
<1>r. RegistryInv /\ dealCommitted[d] \in Nat /\ evidenceCovered[d] \in Nat
  BY <1>d DEF RegistryInv, MarketTypeOK, EvidenceTypeOK
<1>1. CASE CreateValidator(d)
  <2>1. ValidatorTypeOK' /\ RailsNameDeals'
    BY <1>1, <1>d DEF CreateValidator, DeployValidator, ValidatorTypeOK, RailsNameDeals,
                      railVars, marketVars, dealVars
  <2> QED
    BY <1>1, <2>1, UnchangedTypes DEF CreateValidator, RegistryInv, registryVars, marketVars, dealVars
<1>2. CASE CreateRail(d)
  <2>1. PrepareRail(d, now) /\ UNCHANGED dealCount
    BY <1>2 DEF CreateRail, marketVars, dealVars
  <2>2. ValidatorTypeOK' /\ RailsNameDeals'
    <3>1. CreatePayRail(d, 0, now)
      BY <2>1 DEF PrepareRail
    <3>2. /\ RailsNameDeals' /\ railCount' \in Rails
          /\ railDeal' \in [Rails -> 0 .. MaxDeals]
          /\ railRate' \in [Rails -> Nat] /\ railCursor' \in [Rails -> Nat]
          /\ UNCHANGED <<railEnd, railPaid>>
      BY <2>1, <3>1, CreatePayRailType
    <3> QED
      <4>1. railCount' \in 0 .. MaxRails
        BY <3>2, ValidatorAssumption
      <4>2. validators' \subseteq Deals
        BY <2>1 DEF PrepareRail, ValidatorTypeOK
      <4>3. railId' \in [Deals -> 0 .. MaxRails] /\ railStatus' \in [Deals -> RailStatuses]
        BY <2>1, <4>1 DEF PrepareRail, ValidatorTypeOK
      <4>4. railEnd' \in [Rails -> Nat] /\ railPaid' \in [Rails -> Int]
        BY <3>2 DEF ValidatorTypeOK
      <4> QED
        BY <3>2, <4>1, <4>2, <4>3, <4>4 DEF ValidatorTypeOK
  <2> QED
    BY <1>2, <2>2, UnchangedTypes DEF CreateRail, RegistryInv, registryVars, marketVars, dealVars
<1>3. CASE CreateForeignRail(d)
  <2>1. CreatePayRail(d, 1, now) /\ UNCHANGED <<dealCount, validatorVars>>
    BY <1>3 DEF CreateForeignRail, marketVars, dealVars
  <2>2. ValidatorTypeOK' /\ RailsNameDeals'
    <3>1. /\ RailsNameDeals' /\ railCount' \in Rails
          /\ railDeal' \in [Rails -> 0 .. MaxDeals]
          /\ railRate' \in [Rails -> Nat] /\ railCursor' \in [Rails -> Nat]
          /\ UNCHANGED <<railEnd, railPaid>>
      BY <2>1, CreatePayRailType
    <3> QED
      <4>1. railCount' \in 0 .. MaxRails
        BY <3>1, ValidatorAssumption
      <4>2. validators' \subseteq Deals
        BY <2>1 DEF ValidatorTypeOK, validatorVars
      <4>3. railId' \in [Deals -> 0 .. MaxRails] /\ railStatus' \in [Deals -> RailStatuses]
        BY <2>1 DEF ValidatorTypeOK, validatorVars
      <4>4. railEnd' \in [Rails -> Nat] /\ railPaid' \in [Rails -> Int]
        BY <3>1 DEF ValidatorTypeOK
      <4> QED
        BY <3>1, <4>1, <4>2, <4>3, <4>4 DEF ValidatorTypeOK
  <2> QED
    BY <1>3, <2>2, UnchangedTypes DEF CreateForeignRail, RegistryInv, registryVars, marketVars, dealVars
<1>4. CASE SubmitEvidence(d)
  <2>1. PICK covered \in CoveredSizes \cup {0} :
          evidenceCovered' = [evidenceCovered EXCEPT ![d] = covered]
    BY <1>4 DEF SubmitEvidence
  <2>2. PICK expiration \in {evidenceExpiration[d]} \cup {now + delay : delay \in ExpirationDelays} :
          evidenceExpiration' = [evidenceExpiration EXCEPT ![d] = expiration]
    BY <1>4 DEF SubmitEvidence
  <2>3. covered \in Nat /\ expiration \in Nat
    BY <1>d, MarketAssumption DEF EvidenceTypeOK
  <2>4. EvidenceTypeOK'
    BY <1>4, <2>1, <2>2, <2>3 DEF SubmitEvidence, EvidenceTypeOK, oracleVars
  <2> QED
    BY <1>4, <2>4, UnchangedTypes DEF SubmitEvidence, RegistryInv, registryVars, marketVars, dealVars
<1>5. CASE ActivateEvidence(d)
  <2>1. RegistryInv' /\ UNCHANGED managementVars
    BY <1>5, <1>t, <1>r, CapacityCallType DEF ActivateEvidence, CommitCapacity
  <2>2. ModifyRailPayment(d, AmountPerEpoch(terms[d].price, BilledUnits(evidenceCovered[d])), now)
    BY <1>5 DEF ActivateEvidence, StartPreparedPayment
  <2>3. AmountPerEpoch(terms[d].price, BilledUnits(evidenceCovered[d])) \in Nat
    BY <1>t, <1>r, RateType
  <2>4. ValidatorTypeOK' /\ UNCHANGED <<railCount, railDeal>>
    BY <2>2, <2>3 DEF ModifyRailPayment, ModifyPayRail, ValidatorTypeOK
  <2>0. now + DurationEpochs[terms[d].kind] \in Nat
    BY <1>t, MarketAssumption
  <2>5. MarketTypeOK'
    BY <1>5, <1>r, <2>0 DEF ActivateEvidence, StartPreparedPayment, ChangeDealState, MarketTypeOK, settlementVars
  <2>6. RailsNameDeals'
    BY <1>5, <2>4 DEF ActivateEvidence, RailsNameDeals
  <2> QED
    BY <1>5, <2>1, <2>4, <2>5, <2>6, UnchangedTypes DEF ActivateEvidence, RegistryInv
<1>6. CASE RefreshEvidenceStatus(d)
  <2>1. PICK bytes \in {evidenceCovered[d], evidenceCovered[d] - 1} :
          activeCovered' = [activeCovered EXCEPT ![d] = bytes]
    BY <1>6 DEF RefreshEvidenceStatus
  <2>2. PICK lag \in 0 .. SweepLag :
          refreshedAt[d] + lag <= now /\ refreshedAt' = [refreshedAt EXCEPT ![d] = now - lag]
    BY <1>6 DEF RefreshEvidenceStatus
  <2>3. PICK expiration \in {0, evidenceExpiration[d]} \cup {now + delay : delay \in ExpirationDelays} :
          evidenceExpiration' = [evidenceExpiration EXCEPT ![d] = expiration]
    BY <1>6 DEF RefreshEvidenceStatus
  <2>4. bytes \in Nat /\ evidenceCovered[d] # 0
    BY <1>6, <1>r DEF RefreshEvidenceStatus
  <2>5. now - lag \in Nat
    BY <2>2, <1>d, MarketAssumption DEF EvidenceTypeOK
  <2>6. expiration \in Nat
    <3>1. evidenceExpiration[d] \in Nat /\ now \in Nat
      BY <1>d DEF EvidenceTypeOK
    <3> QED
      BY <2>3, <3>1, MarketAssumption
  <2>7. EvidenceTypeOK'
    BY <1>6, <2>1, <2>2, <2>3, <2>4, <2>5, <2>6
       DEF RefreshEvidenceStatus, EvidenceTypeOK, oracleVars
  <2> QED
    BY <1>6, <2>7, UnchangedTypes DEF RefreshEvidenceStatus, RegistryInv, registryVars, marketVars, dealVars
<1>7. CASE RejectAcceptedDeal(d)
  <2>1. RegistryInv' /\ UNCHANGED managementVars
    BY <1>7, <1>t, <1>r, CapacityCallType DEF RejectAcceptedDeal, ReleasePendingCapacity
  <2>2. MarketTypeOK'
    BY <1>7 DEF RejectAcceptedDeal, ChangeDealState, MarketTypeOK, serviceVars, settlementVars
  <2> QED
    BY <1>7, <2>1, <2>2, UnchangedTypes DEF RejectAcceptedDeal, RegistryInv
<1>8. ASSUME NEW state \in {"EXPIRED", "EARLY_TERMINATED"}, TerminateDeal(d, state)
      PROVE  TypeInv'
  <2>1. RegistryInv' /\ UNCHANGED managementVars
    BY <1>8, <1>t, <1>r, CapacityCallType
       DEF TerminateDeal, ReleasePendingCapacity, ReleaseCapacity
  <2>2. MarketTypeOK'
    BY <1>8 DEF TerminateDeal, ChangeDealState, MarketTypeOK, settlementVars
  <2>3. EarlyRailTermination(d, now)
    BY <1>8 DEF TerminateDeal
  <2>4. ValidatorTypeOK' /\ UNCHANGED <<railCount, railDeal>>
    BY <2>3, <1>d, TerminateRailType DEF EarlyRailTermination
  <2>5. RailsNameDeals'
    BY <1>8, <2>4 DEF TerminateDeal, RailsNameDeals
  <2> QED
    BY <1>8, <2>1, <2>2, <2>4, <2>5, UnchangedTypes DEF TerminateDeal, RegistryInv
<1>9. CASE FinalizeDeal(d)
  <2>1. RegistryInv' /\ UNCHANGED managementVars
    BY <1>9, <1>t, <1>r, CapacityCallType DEF FinalizeDeal, ReleaseCapacity
  <2>2. MarketTypeOK'
    BY <1>9 DEF FinalizeDeal, ChangeDealState, MarketTypeOK, serviceVars, settlementVars
  <2>3. FinalizeRail(d, now)
    BY <1>9 DEF FinalizeDeal
  <2>4. ValidatorTypeOK' /\ UNCHANGED <<railCount, railDeal>>
    BY <2>3, <1>d, TerminateRailType DEF FinalizeRail
  <2>5. RailsNameDeals'
    BY <1>9, <2>4 DEF FinalizeDeal, RailsNameDeals
  <2> QED
    BY <1>9, <2>1, <2>2, <2>4, <2>5, UnchangedTypes DEF FinalizeDeal, RegistryInv
<1>10. ASSUME NEW manifest \in Manifests, NEW request \in Requests,
              UpdateManifestLocation(d, manifest, request.size)
       PROVE  TypeInv'
  <2>1. /\ request.size \in Nat \ {0}
        /\ terms[d].offer \in 1 .. nextOfferId
    BY <1>d, MarketAssumption DEF DealTerms, DealsNameOffers, RegistryTypeOK
  <2>2. RegistryInv' /\ UNCHANGED managementVars
    BY <1>10, <1>r, <1>t, <2>1, UpdateReservationType
       DEF UpdateManifestLocation, UpdatePendingReservation
  <2>3. MarketTypeOK'
    BY <1>10, <1>d, <2>1
       DEF UpdateManifestLocation, MarketTypeOK, DealTerms, serviceVars, settlementVars
  <2>4. DealsNameOffers'
    BY <1>10, <1>d, <2>2
       DEF UpdateManifestLocation, DealsNameOffers, MarketTypeOK, managementVars
  <2>5. RailsNameDeals'
    BY <1>10 DEF UpdateManifestLocation, RailsNameDeals, railVars
  <2> QED
    BY <1>10, <2>2, <2>3, <2>4, <2>5, UnchangedTypes DEF UpdateManifestLocation, RegistryInv
<1>11. ASSUME NEW epochs \in MinIntervals, SetMinEpochsBetweenSettlements(d, epochs)
       PROVE  TypeInv'
  <2>1. MarketTypeOK'
    <3>1. epochs \in Nat \ {0}
      BY MarketAssumption
    <3> QED
      BY <1>11, <3>1
         DEF SetMinEpochsBetweenSettlements, MarketTypeOK, dealVars, serviceVars
  <2> QED
    BY <1>11, <2>1, UnchangedTypes
       DEF SetMinEpochsBetweenSettlements, RegistryInv, registryVars, dealVars
<1> QED
  BY <1>1, <1>2, <1>3, <1>4, <1>5, <1>6, <1>7, <1>8, <1>9, <1>10, <1>11 DEF DealStep

\* The registry's management never withdraws an offer or moves it to another provider.
LEMMA OffersKept ==
  ASSUME RegistryInv, RegistryNext
  PROVE  /\ nextOfferId <= nextOfferId' /\ nextOfferId' \in Nat
         /\ \A o \in 1 .. nextOfferId : offers'[o].provider = offers[o].provider
<1> USE RegistryAssumption DEF RegistryInv, RegistryTypeOK
<1>1. ASSUME NEW p \in Providers, NEW t \in OfferTerms, NEW price \in Prices \cup {0},
             CreateOffer(p, t, price)
      PROVE  /\ nextOfferId <= nextOfferId' /\ nextOfferId' \in Nat
             /\ \A o \in 1 .. nextOfferId : offers'[o].provider = offers[o].provider
  BY <1>1 DEF CreateOffer
<1>2. ASSUME NEW o \in 1 .. nextOfferId, NEW active \in BOOLEAN, SetOfferActive(o, active)
      PROVE  /\ nextOfferId' = nextOfferId
             /\ \A e \in 1 .. nextOfferId : offers'[e].provider = offers[e].provider
  BY <1>2 DEF SetOfferActive, Offer
<1>3. ASSUME NEW o \in 1 .. nextOfferId, NEW price \in Prices \cup {0}, SetOfferPayment(o, price)
      PROVE  /\ nextOfferId' = nextOfferId
             /\ \A e \in 1 .. nextOfferId : offers'[e].provider = offers[e].provider
  BY <1>3 DEF SetOfferPayment, Offer
<1>4. ASSUME NEW p \in Providers,
             \/ \E org \in Organizations, space \in SpaceSizes : RegisterProviderFor(p, org, space)
             \/ PauseProvider(p) \/ UnpauseProvider(p) \/ BlockProvider(p) \/ UnblockProvider(p)
             \/ \E space \in SpaceSizes : UpdateAvailableSpace(p, space)
      PROVE  UNCHANGED <<offers, nextOfferId>>
  BY <1>4 DEF RegisterProviderFor, PauseProvider, UnpauseProvider, BlockProvider, UnblockProvider,
              UpdateAvailableSpace
<1> QED
  BY <1>1, <1>2, <1>3, <1>4 DEF RegistryNext

LEMMA SettleRailType ==
  ASSUME TypeInv, NEW r \in 1 .. railCount, NEW to \in 1 .. now, SettleRail(r, to)
  PROVE  TypeInv'
<1> DEFINE d == railDeal[r]
           from == railCursor[r]
<1> USE DEF TypeInv, TypeOK
<1>1. d \in Existing /\ r \in Rails
  BY ValidatorAssumption DEF RailsNameDeals, ValidatorTypeOK
<1>2. from \in Nat /\ to \in Nat
  BY <1>1 DEF ValidatorTypeOK
<1>3. SettlementAmount(d, from, to) \in Int /\ SettleUpto(d, from, to) \in Nat
  BY <1>1, <1>2, SettlementType
<1> HIDE DEF d, from
<1>4. /\ railCursor' = [railCursor EXCEPT ![r] = SettleUpto(d, from, to)]
      /\ railPaid' = [railPaid EXCEPT ![r] = @ + SettlementAmount(d, from, to)]
      /\ UNCHANGED <<railCount, railDeal, railRate, railEnd, validatorVars>>
  BY DEF SettleRail, AdvancePayRail, d, from
<1>5. ValidatorTypeOK'
  <2>1. railCursor' \in [Rails -> Nat]
    BY <1>1, <1>3, <1>4 DEF ValidatorTypeOK
  <2>2. railPaid' \in [Rails -> Int]
    <3>1. railPaid[r] + SettlementAmount(d, from, to) \in Int
      <4>1. railPaid[r] \in Int
        BY <1>1 DEF ValidatorTypeOK
      <4> QED
        BY <1>3, <4>1
    <3> QED
      BY <1>4, <3>1 DEF ValidatorTypeOK
  <2> QED
    BY <1>4, <2>1, <2>2 DEF ValidatorTypeOK, validatorVars
<1>6. UNCHANGED <<now, registryVars, dealVars, serviceVars, minInterval, evidenceVars, oracleVars>>
  BY DEF SettleRail
<1>7. \/ lastSettled' = [lastSettled EXCEPT ![d] = SettleUpto(d, from, to)]
      \/ lastSettled' = lastSettled
  BY DEF SettleRail, d, from
<1>8. MarketTypeOK'
  BY <1>1, <1>3, <1>6, <1>7 DEF MarketTypeOK, dealVars, serviceVars
<1>9. RailsNameDeals' /\ DealsNameOffers'
  BY <1>4, <1>6 DEF RailsNameDeals, DealsNameOffers, dealVars, registryVars, managementVars
<1> QED
  BY <1>5, <1>6, <1>8, <1>9, UnchangedTypes DEF RegistryInv

LEMMA TypeStep == TypeInv /\ [Next]_vars => TypeInv'
<1> SUFFICES ASSUME TypeInv, [Next]_vars PROVE TypeInv'
  OBVIOUS
<1> USE DEF TypeInv, TypeOK
<1>1. CASE Tick
  BY <1>1, UnchangedTypes
     DEF Tick, contractVars, RegistryInv, registryVars, marketVars, dealVars
<1>2. CASE ManageRegistry
  <2>1. RegistryInv'
    BY <1>2, RegistryStepType DEF ManageRegistry, RegistryInv
  <2>2. DealsNameOffers'
    <3>1. /\ nextOfferId <= nextOfferId' /\ nextOfferId' \in Nat /\ nextOfferId \in Nat
          /\ \A o \in 1 .. nextOfferId : offers'[o].provider = offers[o].provider
          /\ UNCHANGED <<dealCount, terms>>
      BY <1>2, OffersKept, RegistryAssumption
         DEF ManageRegistry, RegistryInv, RegistryTypeOK, marketVars, dealVars
    <3>2. ASSUME NEW e \in Existing PROVE terms[e].offer \in 1 .. nextOfferId
      BY <3>1, RegistryAssumption DEF DealsNameOffers, MarketTypeOK, DealTerms
    <3> QED
      BY <3>1, <3>2 DEF DealsNameOffers
  <2> QED
    BY <1>2, <2>1, <2>2, UnchangedTypes DEF ManageRegistry, RegistryInv, marketVars, dealVars
<1>3. ASSUME NEW request \in Requests, ProposeDeal(request)
      PROVE  TypeInv'
  <2>1. PICK o \in 1 .. nextOfferId : IsSelected(o, request) /\ CreateDeal(o, request)
    BY <1>3 DEF ProposeDeal
  <2>2. offers[o].price # 0
    BY <2>1 DEF IsSelected, InPriceBand, Eligible
  <2> QED
    BY <2>1, <2>2, CreateDealType
<1>4. ASSUME NEW request \in Requests, NEW o \in 1 .. nextOfferId,
             ProposeDealWithSpecificOffer(o, request)
      PROVE  TypeInv'
  BY <1>4, CreateDealType DEF ProposeDealWithSpecificOffer, Eligible
<1>5. ASSUME NEW d \in Existing, DealStep(d)
      PROVE  TypeInv'
  BY <1>5, DealStepType
<1>6. ASSUME NEW r \in 1 .. railCount, NEW to \in 1 .. now, SettleRail(r, to)
      PROVE  TypeInv'
  BY <1>6, SettleRailType
<1>7. ASSUME NEW d \in Deals, NEW met \in BOOLEAN, SetSLI(d, met)
      PROVE  TypeInv'
  <2>1. EvidenceTypeOK'
    BY <1>7 DEF SetSLI, EvidenceTypeOK, evidenceVars
  <2> QED
    BY <1>7, <2>1, UnchangedTypes DEF SetSLI, RegistryInv, registryVars, marketVars, dealVars
<1>8. CASE UNCHANGED vars
  BY <1>8, UnchangedTypes
     DEF vars, contractVars, RegistryInv, registryVars, marketVars, dealVars
<1> QED
  BY <1>1, <1>2, <1>3, <1>4, <1>5, <1>6, <1>7, <1>8 DEF Next

LEMMA InitTypeInv == Init => TypeInv
  BY InitTypeOK DEF Init, RegistryInit, ValidatorInit, TypeInv, OffersRegistered, RailsNameDeals,
                    DealsNameOffers

\* Every variable of the market, the registry, the validators and the rails
\* keeps its type, for any number of providers, deals, rails and epochs: in
\* particular no byte count of the registry, no epoch and no cursor is ever
\* negative, whatever is released, committed or settled.
THEOREM TypeCorrect == Spec => []TypeOK
<1>1. Spec => []TypeInv
  BY InitTypeInv, TypeStep, PTL DEF Spec
<1>2. TypeInv => TypeOK
  BY DEF TypeInv
<1> QED
  BY <1>1, <1>2, PTL

-----------------------------------------------------------------------------
(* Deals and rails *)

HIDE DEF Deals, Rails, RailStatuses, DealStates, OfferIds, Existing

\* Deals are numbered without gaps, and only existing deals have validators.
DealsCounted ==
  /\ \A d \in Deals : dealState[d] = "NONE" <=> d \notin Existing
  /\ validators \subseteq Existing

DealInv == TypeInv /\ DealRailConsistent /\ DealsCounted

\* The part of the state Consistent(e) reads.
Kept(e) ==
  /\ dealState'[e] = dealState[e] /\ railStatus'[e] = railStatus[e] /\ railId'[e] = railId[e]
  /\ dealCommitted'[e] = dealCommitted[e]
  /\ serviceStart'[e] = serviceStart[e] /\ serviceEnd'[e] = serviceEnd[e]
  /\ earlyTermination'[e] = earlyTermination[e]

RailsKept ==
  /\ validators \subseteq validators'
  /\ railCount \in Nat /\ railCount' \in Nat /\ railCount <= railCount'
  /\ \A r \in 1 .. railCount : railDeal'[r] = railDeal[r]

LEMMA KeptConsistent ==
  ASSUME TypeInv, NEW e \in Deals, Consistent(e), Kept(e), RailsKept
  PROVE  Consistent(e)'
<1>1. railId[e] \in Nat
  BY ValidatorAssumption DEF TypeInv, TypeOK, ValidatorTypeOK
<1>2. railId[e] # 0 => railId[e] <= railCount' /\ railDeal'[railId[e]] = railDeal[railId[e]]
  BY <1>1 DEF Consistent, RailsKept
<1> QED
  BY <1>2 DEF Consistent, Kept, RailsKept, Started

\* A step on deal d that leaves the other deals alone.
LEMMA OneDealStep ==
  ASSUME DealInv, NEW d \in Deals, TypeInv', Consistent(d)', RailsKept,
         \A e \in Deals \ {d} : Kept(e)
  PROVE  DealRailConsistent'
<1> SUFFICES ASSUME NEW e \in Deals PROVE Consistent(e)'
  BY DEF DealRailConsistent, Deals
<1>1. CASE e = d
  BY <1>1
<1>2. CASE e # d
  BY <1>2, KeptConsistent DEF DealInv, DealRailConsistent
<1> QED
  BY <1>1, <1>2

LEMMA AllKept ==
  ASSUME DealInv, RailsKept, \A e \in Deals : Kept(e)
  PROVE  DealRailConsistent'
  BY KeptConsistent DEF DealInv, DealRailConsistent, Deals

LEMMA UnchangedKept ==
  ASSUME TypeInv
  PROVE  /\ UNCHANGED <<validators, railVars>> => RailsKept
         /\ UNCHANGED <<marketVars, validatorVars>> => \A e \in Deals : Kept(e)
<1>1. railCount \in Nat
  BY ValidatorAssumption DEF TypeInv, TypeOK, ValidatorTypeOK
<1>2. UNCHANGED <<validators, railVars>> => RailsKept
  BY <1>1 DEF RailsKept, railVars
<1>3. UNCHANGED <<marketVars, validatorVars>> => \A e \in Deals : Kept(e)
  BY DEF Kept, marketVars, dealVars, serviceVars, validatorVars
<1> QED
  BY <1>2, <1>3

LEMMA CreateDealConsistent ==
  ASSUME DealInv, TypeInv', NEW request \in Requests, NEW o, CreateDeal(o, request)
  PROVE  DealRailConsistent' /\ DealsCounted'
<1> USE DEF DealInv
<1>0. PICK d \in Deals : d = dealCount + 1
  BY ValidatorAssumption DEF CreateDeal, TypeInv, TypeOK, MarketTypeOK, Deals
<1>1. d \notin Existing /\ dealCount' = d /\ dealCount \in Nat
  BY <1>0, ValidatorAssumption DEF CreateDeal, TypeInv, TypeOK, MarketTypeOK, Deals, Existing
<1>2. dealState[d] = "NONE"
  BY <1>1 DEF DealsCounted
<1>3. dealState' = [dealState EXCEPT ![d] = "ACCEPTED"] /\ dealState \in [Deals -> DealStates]
  BY <1>0 DEF CreateDeal, ChangeDealState, TypeInv, TypeOK, MarketTypeOK
<1>4. UNCHANGED <<dealCommitted, serviceVars, validatorVars, railVars>>
  BY DEF CreateDeal
<1>5. RailsKept
  BY <1>4, UnchangedKept DEF validatorVars
<1>6. \A e \in Deals \ {d} : Kept(e)
  BY <1>3, <1>4 DEF Kept, serviceVars, validatorVars
<1>7. Consistent(d)'
  <2>1. Consistent(d)
    BY <1>1 DEF DealRailConsistent
  <2>2. railStatus \in [Deals -> RailStatuses]
    BY DEF TypeInv, TypeOK, ValidatorTypeOK
  <2>3. /\ railStatus[d] = "NONE" /\ railId[d] = 0
        /\ serviceEnd[d] = 0 /\ earlyTermination[d] = 0
    BY <1>1, <1>2, <2>1, <2>2 DEF Consistent, Started, RailStatuses
  <2>4. /\ dealState'[d] = "ACCEPTED" /\ railStatus'[d] = "NONE" /\ railId'[d] = 0
        /\ serviceEnd'[d] = 0 /\ earlyTermination'[d] = 0
    BY <1>1, <1>3, <1>4, <2>3 DEF serviceVars, validatorVars
  <2> QED
    BY <2>4 DEF Consistent, Started
<1>8. DealsCounted'
  BY <1>0, <1>1, <1>2, <1>3, <1>4 DEF DealsCounted, Existing, Deals, validatorVars
<1>9. DealRailConsistent'
  BY <1>1, <1>5, <1>6, <1>7, OneDealStep
<1> QED
  BY <1>8, <1>9

LEMMA DealStepConsistent ==
  ASSUME DealInv, TypeInv', NEW d \in Existing, DealStep(d)
  PROVE  DealRailConsistent' /\ DealsCounted'
<1> USE DEF DealInv
<1>d. d \in Deals
  BY ValidatorAssumption DEF TypeInv, TypeOK, MarketTypeOK, Deals, Existing
<1>c. Consistent(d) /\ (dealState[d] \in DealStates \ {"NONE"})
  BY <1>d DEF DealRailConsistent, DealsCounted, TypeInv, TypeOK, MarketTypeOK
<1>t. /\ dealState \in [Deals -> DealStates] /\ railStatus \in [Deals -> RailStatuses]
      /\ railId \in [Deals -> 0 .. MaxRails] /\ railDeal \in [Rails -> 0 .. MaxDeals]
      /\ railCount \in Nat /\ railCount <= MaxRails /\ now \in Nat \ {0}
      /\ serviceEnd \in [Deals -> Nat] /\ serviceStart \in [Deals -> Nat]
      /\ earlyTermination \in [Deals -> Nat] /\ dealCommitted \in [Deals -> Nat]
  BY ValidatorAssumption DEF TypeInv, TypeOK, MarketTypeOK, ValidatorTypeOK
<1>1. CASE CreateValidator(d)
  <2>1. validators' = validators \cup {d} /\ UNCHANGED <<railId, railStatus, railVars, marketVars>>
    BY <1>1 DEF CreateValidator, DeployValidator
  <2>2. RailsKept
    BY <2>1, <1>t DEF RailsKept, railVars
  <2>3. \A e \in Deals : Kept(e)
    BY <2>1 DEF Kept, marketVars, dealVars, serviceVars
  <2>4. DealsCounted'
    BY <2>1 DEF DealsCounted, Existing, marketVars, dealVars
  <2> QED
    BY <2>2, <2>3, <2>4, AllKept
<1>2. CASE CreateRail(d)
  <2>1. /\ dealState[d] = "ACCEPTED" /\ d \in validators /\ railId[d] = 0
        /\ railCount < MaxRails /\ railCount' = railCount + 1
        /\ railDeal' = [railDeal EXCEPT ![railCount + 1] = d]
        /\ railId' = [railId EXCEPT ![d] = railCount + 1]
        /\ railStatus' = [railStatus EXCEPT ![d] = "PREPARED"]
        /\ UNCHANGED <<validators, marketVars>>
    BY <1>2 DEF CreateRail, PrepareRail, CreatePayRail
  <2>2. RailsKept
    BY <2>1, <1>t DEF RailsKept, Rails
  <2>3. \A e \in Deals \ {d} : Kept(e)
    BY <2>1, <1>t DEF Kept, marketVars, dealVars, serviceVars
  <2>4. Consistent(d)'
    <3>1. railCount + 1 \in Rails /\ railCount + 1 # 0
      BY <2>1, <1>t, ValidatorAssumption DEF Rails
    <3> QED
      BY <2>1, <3>1, <1>c, <1>d, <1>t DEF Consistent, Started, marketVars, dealVars, serviceVars
  <2>5. DealsCounted'
    BY <2>1 DEF DealsCounted, Existing, marketVars, dealVars
  <2> QED
    BY <1>d, <2>2, <2>3, <2>4, <2>5, OneDealStep
<1>3. CASE CreateForeignRail(d)
  <2>1. /\ railCount' = railCount + 1 /\ railDeal' = [railDeal EXCEPT ![railCount + 1] = d]
        /\ UNCHANGED <<validatorVars, marketVars>>
    BY <1>3 DEF CreateForeignRail, CreatePayRail
  <2>2. RailsKept
    BY <2>1, <1>t DEF RailsKept, Rails, validatorVars
  <2>3. \A e \in Deals : Kept(e)
    BY <2>1, UnchangedKept
  <2>4. DealsCounted'
    BY <2>1 DEF DealsCounted, Existing, marketVars, dealVars, validatorVars
  <2> QED
    BY <2>2, <2>3, <2>4, AllKept
<1>4. CASE SubmitEvidence(d) \/ RefreshEvidenceStatus(d)
  <2>1. UNCHANGED <<validatorVars, railVars, marketVars>>
    BY <1>4 DEF SubmitEvidence, RefreshEvidenceStatus
  <2>2. RailsKept /\ \A e \in Deals : Kept(e)
    BY <2>1, UnchangedKept DEF validatorVars
  <2>3. DealsCounted'
    BY <2>1 DEF DealsCounted, Existing, marketVars, dealVars, validatorVars
  <2> QED
    BY <2>2, <2>3, AllKept
<1>5. CASE ActivateEvidence(d)
  <2>1. /\ dealState[d] = "ACCEPTED" /\ evidenceCovered[d] # 0 /\ railStatus[d] = "PREPARED"
        /\ dealCommitted' = [dealCommitted EXCEPT ![d] = evidenceCovered[d]]
        /\ dealState' = [dealState EXCEPT ![d] = "ACTIVE"]
        /\ serviceStart' = [serviceStart EXCEPT ![d] = now]
        /\ serviceEnd' = [serviceEnd EXCEPT ![d] = now + DurationEpochs[terms[d].kind]]
        /\ UNCHANGED <<dealCount, earlyTermination>>
    BY <1>5 DEF ActivateEvidence, StartPreparedPayment, ChangeDealState
  <2>2. /\ railStatus' = [railStatus EXCEPT ![d] = IF @ = "TERMINATED" THEN @ ELSE "ACTIVE"]
        /\ UNCHANGED <<validators, railId, railCount, railDeal>>
    BY <1>5 DEF ActivateEvidence, StartPreparedPayment, ModifyRailPayment, ModifyPayRail
  <2>3. RailsKept
    BY <2>2, <1>t DEF RailsKept
  <2>4. \A e \in Deals \ {d} : Kept(e)
    BY <2>1, <2>2, <1>t DEF Kept
  <2>5. DurationEpochs[terms[d].kind] \in Nat \ {0}
    BY MarketAssumption DEF TypeInv, TypeOK, MarketTypeOK, DealTerms, Existing
  <2>6. Consistent(d)'
    <3>1. /\ dealState'[d] = "ACTIVE" /\ railStatus'[d] = "ACTIVE" /\ railId'[d] = railId[d]
          /\ dealCommitted'[d] # 0 /\ serviceStart'[d] = now
          /\ serviceEnd'[d] = now + DurationEpochs[terms[d].kind]
          /\ earlyTermination'[d] = earlyTermination[d]
      BY <2>1, <2>2, <1>d, <1>t
    <3>2. serviceEnd'[d] # 0 /\ serviceStart'[d] < serviceEnd'[d]
      BY <3>1, <2>5, <1>t
    <3> QED
      BY <3>1, <3>2, <2>1, <2>2, <1>c DEF Consistent, Started
  <2>7. DealsCounted'
    BY <2>1, <2>2, <1>c, <1>d, <1>t DEF DealsCounted, Existing
  <2> QED
    BY <1>d, <2>3, <2>4, <2>6, <2>7, OneDealStep
<1>6. CASE RejectAcceptedDeal(d)
  <2>1. /\ dealState[d] = "ACCEPTED" /\ railId[d] = 0
        /\ dealState' = [dealState EXCEPT ![d] = "REJECTED"]
        /\ UNCHANGED <<dealCount, dealCommitted, serviceVars, validatorVars, railVars>>
    BY <1>6 DEF RejectAcceptedDeal, ChangeDealState
  <2>2. RailsKept
    BY <2>1, UnchangedKept DEF validatorVars
  <2>3. \A e \in Deals \ {d} : Kept(e)
    BY <2>1, <1>t DEF Kept, serviceVars, validatorVars
  <2>4. Consistent(d)'
    <3>1. /\ dealState'[d] = "REJECTED" /\ railStatus'[d] = railStatus[d] /\ railId'[d] = 0
          /\ serviceEnd'[d] = serviceEnd[d] /\ earlyTermination'[d] = earlyTermination[d]
      BY <2>1, <1>d, <1>t DEF serviceVars, validatorVars
    <3> QED
      BY <3>1, <2>1, <1>c DEF Consistent, Started
  <2>5. DealsCounted'
    BY <2>1, <1>c, <1>d, <1>t DEF DealsCounted, Existing, validatorVars
  <2> QED
    BY <1>d, <2>2, <2>3, <2>4, <2>5, OneDealStep
<1>7. ASSUME NEW state \in {"EXPIRED", "EARLY_TERMINATED"}, TerminateDeal(d, state)
      PROVE  DealRailConsistent' /\ DealsCounted'
  <2>1. /\ state = "EXPIRED" => dealState[d] = "ACCEPTED"
        /\ Started(d) => now <= serviceEnd[d]
        /\ dealState' = [dealState EXCEPT ![d] = state]
        /\ earlyTermination' = [earlyTermination EXCEPT ![d] = now]
        /\ UNCHANGED <<dealCount, dealCommitted, serviceStart, serviceEnd>>
    BY <1>7 DEF TerminateDeal, ChangeDealState, CanExpire, NotAfterService
  <2>2. /\ railStatus[d] \in {"PREPARED", "ACTIVE"}
        /\ railStatus' = [railStatus EXCEPT ![d] = "TERMINATED"]
        /\ UNCHANGED <<validators, railId, railCount, railDeal>>
    BY <1>7 DEF TerminateDeal, EarlyRailTermination, TerminateRailFrom, TerminatePayRail
  <2>3. RailsKept
    BY <2>2, <1>t DEF RailsKept
  <2>4. \A e \in Deals \ {d} : Kept(e)
    BY <2>1, <2>2, <1>t DEF Kept
  <2>5. Consistent(d)'
    <3>1. /\ dealState'[d] = state /\ railStatus'[d] = "TERMINATED" /\ railId'[d] = railId[d]
          /\ dealCommitted'[d] = dealCommitted[d] /\ serviceStart'[d] = serviceStart[d]
          /\ serviceEnd'[d] = serviceEnd[d] /\ earlyTermination'[d] = now
      BY <2>1, <2>2, <1>d, <1>t
    <3>2. dealState[d] \in {"ACCEPTED", "ACTIVE"} /\ railId[d] # 0
      BY <2>2, <1>c DEF Consistent
    <3> QED
      BY <3>1, <3>2, <2>1, <2>2, <1>c, <1>t DEF Consistent, Started
  <2>6. DealsCounted'
    BY <2>1, <2>2, <1>c, <1>d, <1>t DEF DealsCounted, Existing
  <2> QED
    BY <1>d, <2>3, <2>4, <2>5, <2>6, OneDealStep
<1>8. CASE FinalizeDeal(d)
  <2>1. /\ dealState[d] = "ACTIVE"
        /\ dealState' = [dealState EXCEPT ![d] = "FINALIZED"]
        /\ UNCHANGED <<dealCount, dealCommitted, serviceVars>>
    BY <1>8 DEF FinalizeDeal, ChangeDealState
  <2>2. /\ railStatus' = [railStatus EXCEPT ![d] = "TERMINATED"]
        /\ UNCHANGED <<validators, railId, railCount, railDeal>>
    BY <1>8 DEF FinalizeDeal, FinalizeRail, TerminateRailFrom, TerminatePayRail
  <2>3. RailsKept
    BY <2>2, <1>t DEF RailsKept
  <2>4. \A e \in Deals \ {d} : Kept(e)
    BY <2>1, <2>2, <1>t DEF Kept, serviceVars
  <2>5. Consistent(d)'
    <3>1. /\ dealState'[d] = "FINALIZED" /\ railStatus'[d] = "TERMINATED" /\ railId'[d] = railId[d]
          /\ dealCommitted'[d] = dealCommitted[d] /\ serviceStart'[d] = serviceStart[d]
          /\ serviceEnd'[d] = serviceEnd[d] /\ earlyTermination'[d] = earlyTermination[d]
      BY <2>1, <2>2, <1>d, <1>t DEF serviceVars
    <3> QED
      BY <3>1, <2>1, <2>2, <1>c DEF Consistent, Started
  <2>6. DealsCounted'
    BY <2>1, <2>2, <1>c, <1>d, <1>t DEF DealsCounted, Existing
  <2> QED
    BY <1>d, <2>3, <2>4, <2>5, <2>6, OneDealStep
<1>9. CASE \/ \E manifest \in Manifests, request \in Requests :
               UpdateManifestLocation(d, manifest, request.size)
           \/ \E epochs \in MinIntervals : SetMinEpochsBetweenSettlements(d, epochs)
  <2>1. UNCHANGED <<validatorVars, railVars, dealCount, dealState, dealCommitted, serviceVars>>
    BY <1>9 DEF UpdateManifestLocation, SetMinEpochsBetweenSettlements, marketVars, dealVars
  <2>2. RailsKept
    BY <2>1, UnchangedKept DEF validatorVars
  <2>3. \A e \in Deals : Kept(e)
    BY <2>1 DEF Kept, serviceVars, validatorVars
  <2>4. DealsCounted'
    BY <2>1 DEF DealsCounted, Existing, validatorVars
  <2> QED
    BY <2>2, <2>3, <2>4, AllKept
<1> QED
  BY <1>1, <1>2, <1>3, <1>4, <1>5, <1>6, <1>7, <1>8, <1>9 DEF DealStep

LEMMA DealInvStep == DealInv /\ [Next]_vars => DealInv'
<1> SUFFICES ASSUME DealInv, [Next]_vars PROVE DealInv'
  OBVIOUS
<1>1. TypeInv'
  BY TypeStep DEF DealInv
<1> SUFFICES DealRailConsistent' /\ DealsCounted'
  BY <1>1 DEF DealInv
<1>2. ASSUME NEW request \in Requests, NEW o \in 1 .. nextOfferId, CreateDeal(o, request)
      PROVE  DealRailConsistent' /\ DealsCounted'
  BY <1>1, <1>2, CreateDealConsistent
<1>3. ASSUME NEW d \in Existing, DealStep(d)
      PROVE  DealRailConsistent' /\ DealsCounted'
  BY <1>1, <1>3, DealStepConsistent
<1>4. CASE \/ Tick \/ ManageRegistry \/ UNCHANGED vars
           \/ \E d \in Deals, met \in BOOLEAN : SetSLI(d, met)
           \/ \E r \in 1 .. railCount, to \in 1 .. now : SettleRail(r, to)
  <2>1. UNCHANGED <<validatorVars, railCount, railDeal, dealVars, serviceVars>>
    BY <1>4 DEF Tick, ManageRegistry, vars, contractVars, railVars, marketVars, SetSLI, SettleRail,
                AdvancePayRail
  <2>2. RailsKept
    BY <2>1, ValidatorAssumption
       DEF RailsKept, validatorVars, DealInv, TypeInv, TypeOK, ValidatorTypeOK
  <2>3. \A e \in Deals : Kept(e)
    BY <2>1 DEF Kept, dealVars, serviceVars, validatorVars
  <2>4. DealsCounted'
    BY <2>1 DEF DealInv, DealsCounted, Existing, dealVars, validatorVars
  <2> QED
    BY <2>2, <2>3, <2>4, AllKept
<1> QED
  BY <1>2, <1>3, <1>4 DEF Next, ProposeDeal, ProposeDealWithSpecificOffer

LEMMA InitDealInv == Init => DealInv
<1> SUFFICES ASSUME Init PROVE DealInv
  OBVIOUS
<1>1. DealRailConsistent
  BY DEF Init, ValidatorInit, DealRailConsistent, Consistent, Started
<1>2. DealsCounted
  BY DEF Init, ValidatorInit, DealsCounted, Existing, Deals
<1> QED
  BY <1>1, <1>2, InitTypeInv DEF DealInv

LEMMA DealInvariant == Spec => []DealInv
  BY InitDealInv, DealInvStep, PTL DEF Spec

\* The deal state in PoRepMarket.sol, the rail status in the deal's
\* Validator.sol, its rail id and its service window always agree, for any
\* number of deals and rails and any interleaving of the calls on them.
THEOREM DealRailAgreement == Spec => []DealRailConsistent
<1>1. DealInv => DealRailConsistent
  BY DEF DealInv
<1> QED
  BY <1>1, DealInvariant, PTL

LEMMA StepKeepsTerminal ==
  ASSUME DealInv, Next
  PROVE  \A d \in Deals : TerminalStaysClosed(d)
<1> USE DEF DealInv
<1>t. /\ dealState \in [Deals -> DealStates] /\ serviceEnd \in [Deals -> Nat]
      /\ earlyTermination \in [Deals -> Nat]
  BY DEF TypeInv, TypeOK, MarketTypeOK
<1> SUFFICES ASSUME NEW e \in Deals, dealState[e] \in TerminalStates
             PROVE  /\ dealState'[e] = dealState[e]
                    /\ serviceEnd'[e] = serviceEnd[e]
                    /\ earlyTermination'[e] = earlyTermination[e]
  BY DEF TerminalStaysClosed
<1>c. Consistent(e)
  BY DEF DealRailConsistent
<1>e. dealState[e] \notin {"NONE", "ACCEPTED", "ACTIVE"}
  BY DEF TerminalStates
<1>1. ASSUME NEW request \in Requests, NEW o, CreateDeal(o, request)
      PROVE  /\ dealState'[e] = dealState[e] /\ serviceEnd'[e] = serviceEnd[e]
             /\ earlyTermination'[e] = earlyTermination[e]
  <2>1. dealCount + 1 \notin Existing
    BY ValidatorAssumption DEF TypeInv, TypeOK, MarketTypeOK, Existing
  <2>2. e # dealCount + 1
    BY <2>1, <1>e DEF DealsCounted
  <2> QED
    BY <1>1, <1>t, <2>2 DEF CreateDeal, ChangeDealState, serviceVars
<1>2. ASSUME NEW d \in Existing, DealStep(d)
      PROVE  /\ dealState'[e] = dealState[e] /\ serviceEnd'[e] = serviceEnd[e]
             /\ earlyTermination'[e] = earlyTermination[e]
  <2>1. CASE CreateValidator(d) \/ CreateRail(d) \/ CreateForeignRail(d) \/ SubmitEvidence(d)
             \/ RefreshEvidenceStatus(d)
    BY <2>1 DEF CreateValidator, CreateRail, CreateForeignRail, SubmitEvidence,
                RefreshEvidenceStatus, marketVars, dealVars, serviceVars
  <2>2. CASE ActivateEvidence(d)
    BY <2>2, <1>e, <1>t DEF ActivateEvidence, StartPreparedPayment, ChangeDealState
  <2>3. CASE RejectAcceptedDeal(d)
    BY <2>3, <1>e, <1>t DEF RejectAcceptedDeal, ChangeDealState, serviceVars
  <2>4. ASSUME NEW state \in {"EXPIRED", "EARLY_TERMINATED"}, TerminateDeal(d, state)
        PROVE  /\ dealState'[e] = dealState[e] /\ serviceEnd'[e] = serviceEnd[e]
               /\ earlyTermination'[e] = earlyTermination[e]
    <3>1. railStatus[d] \in {"PREPARED", "ACTIVE"}
      BY <2>4 DEF TerminateDeal, EarlyRailTermination, TerminateRailFrom
    <3>2. e # d
      BY <3>1, <1>c, <1>e DEF Consistent
    <3> QED
      BY <2>4, <3>2, <1>t DEF TerminateDeal, ChangeDealState
  <2>5. CASE FinalizeDeal(d)
    BY <2>5, <1>e, <1>t DEF FinalizeDeal, ChangeDealState, serviceVars
  <2>6. CASE \/ \E manifest \in Manifests, request \in Requests :
                 UpdateManifestLocation(d, manifest, request.size)
             \/ \E epochs \in MinIntervals : SetMinEpochsBetweenSettlements(d, epochs)
    BY <2>6 DEF UpdateManifestLocation, SetMinEpochsBetweenSettlements, marketVars,
                dealVars, serviceVars
  <2> QED
    BY <1>2, <2>1, <2>2, <2>3, <2>4, <2>5, <2>6 DEF DealStep
<1>3. CASE Tick \/ ManageRegistry
           \/ \E d \in Deals, met \in BOOLEAN : SetSLI(d, met)
           \/ \E r \in 1 .. railCount, to \in 1 .. now : SettleRail(r, to)
  BY <1>3 DEF Tick, ManageRegistry, contractVars, marketVars, SetSLI, SettleRail, dealVars, serviceVars
<1> QED
  BY <1>1, <1>2, <1>3 DEF Next, ProposeDeal, ProposeDealWithSpecificOffer

\* No call reopens a closed deal, closes it again as something else, or moves
\* its service end or its termination epoch: terminateDeal itself does not
\* check the deal's state, and is stopped by the validator's rail status.
THEOREM ClosedDealsStayClosed == Spec => TerminalIsFinal
<1>1. DealInv /\ [Next]_vars => [\A d \in Deals : TerminalStaysClosed(d)]_vars
  BY StepKeepsTerminal
<1> QED
  BY <1>1, DealInvariant, PTL DEF Spec, TerminalIsFinal

-----------------------------------------------------------------------------
(***************************************************************************)
(* What the market's transactions do to the registry: a provider's         *)
(* committed bytes stay within its available bytes, pending and committed  *)
(* bytes are those of its deals, the registry's table of placed manifests  *)
(* is exactly the manifests of live deals, and whenever an offer is        *)
(* eligible exactly one is selected.                                       *)
(***************************************************************************)

\* The calls that move capacity from or to the committed bytes, or out of the
\* pending ones.
CapacityCall ==
  \E p \in Providers, size, actual \in Nat, client \in Clients, manifest \in Manifests :
    \/ ReleasePendingCapacity(p, size, client, manifest)
    \/ ReleaseCapacity(p, size, client, manifest)
    \/ CommitCapacity(p, size, actual)

\* The calls that only change pending bytes and assignments.
ReservationCall == UNCHANGED <<managementVars, committedBytes>>

\* Every transaction makes at most one call that changes the registry.
LEMMA RegistryView ==
  ASSUME TypeInv, [Next]_vars
  PROVE  UNCHANGED registryVars \/ RegistryNext \/ ReservationCall \/ CapacityCall
<1>1. CASE \/ Tick \/ UNCHANGED vars
           \/ \E d \in Deals, met \in BOOLEAN : SetSLI(d, met)
           \/ \E r \in 1 .. railCount, to \in 1 .. now : SettleRail(r, to)
  BY <1>1 DEF Tick, vars, contractVars, SetSLI, SettleRail
<1>2. CASE ManageRegistry
  BY <1>2 DEF ManageRegistry
<1>3. ASSUME NEW o, NEW request, CreateDeal(o, request)
      PROVE  ReservationCall
  BY <1>3 DEF CreateDeal, ReserveSelection, ReservationCall
<1>4. ASSUME NEW d \in Existing, DealStep(d)
      PROVE  UNCHANGED registryVars \/ ReservationCall \/ CapacityCall
  <2>t. /\ terms[d].provider \in Providers /\ terms[d].client \in Clients
        /\ terms[d].manifest \in Manifests /\ terms[d].reserved \in Nat
        /\ dealCommitted[d] \in Nat /\ evidenceCovered[d] \in Nat
    <3>1. d \in Deals /\ terms[d] \in DealTerms
      BY ValidatorAssumption DEF TypeInv, TypeOK, MarketTypeOK, Deals, Existing
    <3>2. dealCommitted[d] \in Nat /\ evidenceCovered[d] \in Nat
      BY <3>1 DEF TypeInv, TypeOK, MarketTypeOK, EvidenceTypeOK
    <3> QED
      BY <3>1, <3>2 DEF DealTerms
  <2>1. CASE ActivateEvidence(d)
    BY <2>1, <2>t DEF ActivateEvidence, CapacityCall
  <2>2. CASE RejectAcceptedDeal(d)
    BY <2>2, <2>t DEF RejectAcceptedDeal, CapacityCall
  <2>3. ASSUME NEW state, TerminateDeal(d, state)
        PROVE  CapacityCall
    BY <2>3, <2>t DEF TerminateDeal, CapacityCall
  <2>4. CASE FinalizeDeal(d)
    BY <2>4, <2>t DEF FinalizeDeal, CapacityCall
  <2>5. ASSUME NEW manifest, NEW size, UpdateManifestLocation(d, manifest, size)
        PROVE  ReservationCall
    BY <2>5 DEF UpdateManifestLocation, UpdatePendingReservation, ReservationCall
  <2>6. CASE \/ CreateValidator(d) \/ CreateRail(d) \/ CreateForeignRail(d) \/ SubmitEvidence(d)
             \/ RefreshEvidenceStatus(d)
             \/ \E epochs \in MinIntervals : SetMinEpochsBetweenSettlements(d, epochs)
    BY <2>6 DEF CreateValidator, CreateRail, CreateForeignRail, SubmitEvidence,
                RefreshEvidenceStatus, SetMinEpochsBetweenSettlements
  <2> QED
    BY <1>4, <2>1, <2>2, <2>3, <2>4, <2>5, <2>6 DEF DealStep
<1> QED
  BY <1>1, <1>2, <1>3, <1>4 DEF Next, ProposeDeal, ProposeDealWithSpecificOffer

-----------------------------------------------------------------------------

\* A provider has nothing committed before it is registered.
UnregisteredIdle == \A p \in Providers \ Registered : committedBytes[p] = 0

CommitInv == TypeInv /\ CommittedWithinAvailable /\ UnregisteredIdle

LEMMA CommitInvStep == CommitInv /\ [Next]_vars => CommitInv'
<1> SUFFICES ASSUME CommitInv, [Next]_vars PROVE CommitInv'
  OBVIOUS
<1>t. TypeInv'
  BY TypeStep DEF CommitInv
<1> SUFFICES ASSUME NEW p \in Providers
             PROVE  /\ committedBytes'[p] <= availableBytes'[p]
                    /\ organization'[p] = NoOrg => committedBytes'[p] = 0
  BY <1>t DEF CommitInv, CommittedWithinAvailable, UnregisteredIdle, Registered
<1>p. /\ committedBytes[p] <= availableBytes[p]
      /\ organization[p] = NoOrg => committedBytes[p] = 0
      /\ committedBytes \in [Providers -> Nat] /\ availableBytes \in [Providers -> Nat]
      /\ pendingBytes \in [Providers -> Nat]
      /\ organization \in [Providers -> Organizations \cup {NoOrg}]
  BY DEF CommitInv, CommittedWithinAvailable, UnregisteredIdle, Registered, TypeInv, TypeOK,
         RegistryTypeOK
<1>1. CASE UNCHANGED registryVars \/ ReservationCall
  BY <1>1, <1>p DEF registryVars, managementVars, capacityVars, ReservationCall
<1>2. CASE RegistryNext
  <2>1. ASSUME NEW q \in Providers, NEW org \in Organizations, NEW space \in SpaceSizes,
               RegisterProviderFor(q, org, space)
        PROVE  /\ committedBytes'[p] <= availableBytes'[p]
               /\ organization'[p] = NoOrg => committedBytes'[p] = 0
    <3>1. organization[q] = NoOrg /\ committedBytes' = committedBytes /\ space \in Nat
      BY <2>1, RegistryAssumption DEF RegisterProviderFor, Registered, capacityVars
    <3> QED
      BY <2>1, <3>1, <1>p DEF RegisterProviderFor
  <2>2. ASSUME NEW q \in Providers, NEW space \in SpaceSizes, UpdateAvailableSpace(q, space)
        PROVE  /\ committedBytes'[p] <= availableBytes'[p]
               /\ organization'[p] = NoOrg => committedBytes'[p] = 0
    <3>1. space \in Nat
      BY RegistryAssumption
    <3> QED
      BY <2>2, <3>1, <1>p DEF UpdateAvailableSpace, capacityVars
  <2>3. CASE \/ \E q \in Providers :
                  \/ PauseProvider(q) \/ UnpauseProvider(q) \/ BlockProvider(q) \/ UnblockProvider(q)
                  \/ \E t \in OfferTerms, price \in Prices \cup {0} : CreateOffer(q, t, price)
             \/ \E o \in 1 .. nextOfferId :
                  \/ \E active \in BOOLEAN : SetOfferActive(o, active)
                  \/ \E price \in Prices \cup {0} : SetOfferPayment(o, price)
    <3>1. UNCHANGED <<organization, availableBytes, committedBytes>>
      BY <2>3 DEF PauseProvider, UnpauseProvider, BlockProvider, UnblockProvider, CreateOffer,
                  SetOfferActive, SetOfferPayment, capacityVars
    <3> QED
      BY <3>1, <1>p
  <2> QED
    BY <1>2, <2>1, <2>2, <2>3 DEF RegistryNext
<1>3. CASE CapacityCall
  <2>1. PICK q \in Providers, size \in Nat, actual \in Nat, client \in Clients, manifest \in Manifests :
          \/ ReleasePendingCapacity(q, size, client, manifest)
          \/ ReleaseCapacity(q, size, client, manifest)
          \/ CommitCapacity(q, size, actual)
    BY <1>3 DEF CapacityCall
  <2>2. CASE ReleasePendingCapacity(q, size, client, manifest)
    BY <2>2, <1>p DEF ReleasePendingCapacity, managementVars
  <2>3. CASE ReleaseCapacity(q, size, client, manifest)
    BY <2>3, <1>p DEF ReleaseCapacity, managementVars
  <2>4. CASE CommitCapacity(q, size, actual)
    BY <2>4, <1>p DEF CommitCapacity, FitsAvailable, Registered, managementVars
  <2> QED
    BY <2>1, <2>2, <2>3, <2>4
<1> QED
  BY <1>1, <1>2, <1>3, RegistryView DEF CommitInv

\* No provider ever has more bytes committed than it makes available, for any
\* number of providers, deals and sizes: whatever a deal's evidence turns out
\* to cover, and however its provider shrinks its space.
THEOREM CommitWithinAvailable == Spec => []CommittedWithinAvailable
<1>1. Init => CommitInv
  <2> SUFFICES ASSUME Init PROVE CommittedWithinAvailable /\ UnregisteredIdle
    BY InitTypeInv DEF CommitInv
  <2> QED
    BY DEF Init, RegistryInit, CommittedWithinAvailable, UnregisteredIdle
<1>2. CommitInv => CommittedWithinAvailable
  BY DEF CommitInv
<1> QED
  BY <1>1, <1>2, CommitInvStep, PTL DEF Spec

-----------------------------------------------------------------------------

\* ManifestExclusive, deal by deal.
KeysAssigned == \A d \in Existing : Live(d) => DealKey(d) \in assigned
AssignedLive == \A k \in assigned : \E d \in Existing : Live(d) /\ DealKey(d) = k
KeysDistinct == \A d, e \in Existing : Live(d) /\ Live(e) /\ DealKey(d) = DealKey(e) => d = e

ManifestInv == DealInv /\ KeysAssigned /\ AssignedLive /\ KeysDistinct

LEMMA ManifestInvExclusive == ManifestInv => ManifestExclusive
  BY DEF ManifestInv, KeysAssigned, AssignedLive, KeysDistinct, ManifestExclusive

\* Deals whose terms and liveness are kept, as is the assignment table.
LEMMA ManifestKept ==
  ASSUME ManifestInv, UNCHANGED <<dealCount, assigned>>,
         \A d \in Existing : DealKey(d)' = DealKey(d) /\ (Live(d)' <=> Live(d))
  PROVE  KeysAssigned' /\ AssignedLive' /\ KeysDistinct'
  BY DEF ManifestInv, KeysAssigned, AssignedLive, KeysDistinct, Existing

\* One deal is closed and its own manifest is unassigned.
LEMMA ManifestFreed ==
  ASSUME ManifestInv, NEW d \in Existing, Live(d), ~Live(d)', UNCHANGED dealCount,
         assigned' = assigned \ {DealKey(d)},
         \A e \in Existing : DealKey(e)' = DealKey(e),
         \A e \in Existing \ {d} : Live(e)' <=> Live(e)
  PROVE  KeysAssigned' /\ AssignedLive' /\ KeysDistinct'
<1> USE DEF ManifestInv
<1>1. KeysAssigned'
  BY DEF KeysAssigned, KeysDistinct, Existing
<1>2. AssignedLive'
  BY DEF AssignedLive, Existing
<1>3. KeysDistinct'
  BY DEF KeysDistinct, Existing
<1> QED
  BY <1>1, <1>2, <1>3

LEMMA ManifestAdded ==
  ASSUME ManifestInv, NEW o \in 1 .. nextOfferId, NEW request \in Requests,
         <<request.client, request.manifest, organization[offers[o].provider]>> \notin assigned,
         CreateDeal(o, request)
  PROVE  KeysAssigned' /\ AssignedLive' /\ KeysDistinct'
<1> USE DEF ManifestInv
<1> DEFINE key == <<request.client, request.manifest, organization[offers[o].provider]>>
<1>0. PICK d \in Deals : d = dealCount + 1
  BY ValidatorAssumption DEF CreateDeal, DealInv, TypeInv, TypeOK, MarketTypeOK, Deals
<1>1. /\ dealCount \in Nat /\ dealCount' = d
      /\ Existing' = Existing \cup {d} /\ d \notin Existing
      /\ dealState \in [Deals -> DealStates]
  <2>1. dealCount \in Nat /\ dealState \in [Deals -> DealStates]
    BY ValidatorAssumption DEF DealInv, TypeInv, TypeOK, MarketTypeOK
  <2>2. dealCount' = d
    BY <1>0 DEF CreateDeal
  <2>3. 1 .. d = (1 .. dealCount) \cup {d} /\ d \notin 1 .. dealCount
    BY <1>0, <2>1
  <2> QED
    BY <2>1, <2>2, <2>3 DEF Existing
<1>2. DealKey(d)' = key /\ Live(d)'
  <2>1. /\ terms'[d].client = request.client /\ terms'[d].manifest = request.manifest
        /\ terms'[d].provider = offers[o].provider
    BY <1>0, <1>1 DEF CreateDeal
  <2>2. organization' = organization
    BY DEF CreateDeal, ReserveSelection, managementVars
  <2>3. dealState'[d] = "ACCEPTED"
    BY <1>0, <1>1 DEF CreateDeal, ChangeDealState
  <2> QED
    BY <2>1, <2>2, <2>3 DEF DealKey, Live
<1>3. ASSUME NEW e \in Existing
      PROVE  DealKey(e)' = DealKey(e) /\ (Live(e)' <=> Live(e))
  <2>1. terms'[e] = terms[e]
    BY <1>0, <1>1 DEF CreateDeal, Existing
  <2>2. organization' = organization
    BY DEF CreateDeal, ReserveSelection, managementVars
  <2>3. dealState'[e] = dealState[e]
    BY <1>0, <1>1 DEF CreateDeal, ChangeDealState
  <2> QED
    BY <2>1, <2>2, <2>3 DEF DealKey, Live
<1>4. assigned' = assigned \cup {key} /\ key \notin assigned
  BY DEF CreateDeal, ReserveSelection
<1> HIDE DEF key
<1>5. KeysAssigned'
  BY <1>1, <1>2, <1>3, <1>4 DEF KeysAssigned
<1>6. AssignedLive'
  BY <1>1, <1>2, <1>3, <1>4 DEF AssignedLive
<1>7. KeysDistinct'
  BY <1>1, <1>2, <1>3, <1>4 DEF KeysDistinct, KeysAssigned
<1> QED
  BY <1>5, <1>6, <1>7

LEMMA ManifestMoved ==
  ASSUME ManifestInv, NEW d \in Existing, NEW manifest, NEW size,
         UpdateManifestLocation(d, manifest, size)
  PROVE  KeysAssigned' /\ AssignedLive' /\ KeysDistinct'
<1> USE DEF ManifestInv
<1> DEFINE new == <<terms[d].client, manifest, organization[terms[d].provider]>>
<1>0. d \in Deals /\ terms \in [Existing -> DealTerms] /\ terms[d] \in DealTerms
  BY ValidatorAssumption DEF DealInv, TypeInv, TypeOK, MarketTypeOK, Deals, Existing
<1>1. /\ Live(d) /\ Live(d)'
      /\ \A e \in Existing : Live(e)' <=> Live(e)
      /\ Existing' = Existing
  BY DEF UpdateManifestLocation, Live, Existing
<1>2. offers[terms[d].offer].provider = terms[d].provider
  BY DEF DealInv, TypeInv, DealsNameOffers
<1>3. organization' = organization
  BY DEF UpdateManifestLocation, UpdatePendingReservation, managementVars
<1>4. /\ assigned' = (assigned \ {DealKey(d)}) \cup {new}
      /\ new = DealKey(d) \/ new \notin assigned
  BY <1>2 DEF UpdateManifestLocation, UpdatePendingReservation, AlreadyAssigned, DealKey
<1>5. terms' = [terms EXCEPT ![d].manifest = manifest, ![d].reserved = size]
  BY DEF UpdateManifestLocation
<1>6. DealKey(d)' = new
  BY <1>0, <1>3, <1>5 DEF DealKey, DealTerms
<1>7. \A e \in Existing \ {d} : DealKey(e)' = DealKey(e)
  BY <1>0, <1>3, <1>5 DEF DealKey
<1> HIDE DEF new
<1>8. KeysAssigned'
  BY <1>1, <1>4, <1>6, <1>7 DEF KeysAssigned, KeysDistinct
<1>9. AssignedLive'
  BY <1>1, <1>4, <1>6, <1>7 DEF AssignedLive
<1>10. KeysDistinct'
  BY <1>1, <1>4, <1>6, <1>7 DEF KeysAssigned, KeysDistinct
<1> QED
  BY <1>8, <1>9, <1>10

\* An organization, once set, stays; so the manifest keys of deals do.
LEMMA ManagementKeepsKeys ==
  ASSUME ManifestInv, ManageRegistry
  PROVE  /\ UNCHANGED <<dealCount, assigned, dealState>>
         /\ \A d \in Existing : DealKey(d)' = DealKey(d)
<1> USE DEF ManifestInv, DealInv, TypeInv
<1>1. UNCHANGED <<dealCount, dealState, terms>>
  BY DEF ManageRegistry, marketVars, dealVars
<1>2. /\ assigned' = assigned
      /\ \A p \in Registered : organization'[p] = organization[p]
  <2>1. \/ \E p \in Providers, org \in Organizations, space \in SpaceSizes :
             RegisterProviderFor(p, org, space)
        \/ UNCHANGED organization
    BY DEF ManageRegistry, RegistryNext, PauseProvider, UnpauseProvider, BlockProvider,
           UnblockProvider, UpdateAvailableSpace, CreateOffer, SetOfferActive, SetOfferPayment
  <2>2. \A p \in Registered : organization'[p] = organization[p]
    BY <2>1 DEF RegisterProviderFor, Registered, TypeOK, RegistryTypeOK
  <2>3. UNCHANGED capacityVars
    BY DEF ManageRegistry, RegistryNext, RegisterProviderFor, PauseProvider, UnpauseProvider,
           BlockProvider, UnblockProvider, UpdateAvailableSpace, CreateOffer, SetOfferActive,
           SetOfferPayment
  <2> QED
    BY <2>2, <2>3 DEF capacityVars
<1>3. ASSUME NEW d \in Existing PROVE terms[d].provider \in Registered
  <2>1. terms[d].offer \in 1 .. nextOfferId
    BY ValidatorAssumption, RegistryAssumption
       DEF DealsNameOffers, TypeOK, MarketTypeOK, RegistryTypeOK, DealTerms, OfferIds, Existing
  <2> QED
    BY <2>1 DEF DealsNameOffers, OffersRegistered
<1> QED
  BY <1>1, <1>2, <1>3 DEF DealKey

LEMMA ManifestDealStep ==
  ASSUME ManifestInv, NEW d \in Existing, DealStep(d)
  PROVE  KeysAssigned' /\ AssignedLive' /\ KeysDistinct'
<1> USE DEF ManifestInv
<1>0. /\ d \in Deals /\ dealState \in [Deals -> DealStates] /\ Existing \subseteq Deals
      /\ Consistent(d)
  <2>0. dealCount \in 0 .. MaxDeals /\ dealState \in [Deals -> DealStates]
    BY DEF DealInv, TypeInv, TypeOK, MarketTypeOK
  <2>1. Existing \subseteq Deals
    BY <2>0, ValidatorAssumption DEF Deals, Existing
  <2>2. d \in Deals
    BY <2>1
  <2> QED
    BY <2>0, <2>1, <2>2 DEF DealInv, DealRailConsistent
<1>1. CASE ActivateEvidence(d)
  <2>1. UNCHANGED <<dealCount, terms, assigned, organization>>
    BY <1>1 DEF ActivateEvidence, CommitCapacity, managementVars
  <2>2. \A e \in Existing : Live(e)' <=> Live(e)
    BY <1>0, <1>1 DEF ActivateEvidence, ChangeDealState, Live
  <2> QED
    BY <2>1, <2>2, ManifestKept DEF DealKey
<1>2. CASE RejectAcceptedDeal(d)
  <2>1. UNCHANGED <<dealCount, terms, organization>> /\ assigned' = assigned \ {DealKey(d)}
    BY <1>2 DEF RejectAcceptedDeal, ReleasePendingCapacity, Unassign, DealKey, managementVars
  <2>2. Live(d) /\ ~Live(d)' /\ \A e \in Existing \ {d} : Live(e)' <=> Live(e)
    BY <1>0, <1>2 DEF RejectAcceptedDeal, ChangeDealState, Live
  <2> QED
    BY <2>1, <2>2, ManifestFreed DEF DealKey
<1>3. ASSUME NEW state \in {"EXPIRED", "EARLY_TERMINATED"}, TerminateDeal(d, state)
      PROVE  KeysAssigned' /\ AssignedLive' /\ KeysDistinct'
  <2>1. UNCHANGED <<dealCount, terms, organization>> /\ assigned' = assigned \ {DealKey(d)}
    BY <1>3 DEF TerminateDeal, ReleasePendingCapacity, ReleaseCapacity, Unassign, DealKey,
                managementVars
  <2>2. Live(d)
    BY <1>0, <1>3 DEF TerminateDeal, EarlyRailTermination, TerminateRailFrom, Consistent, Live
  <2>3. ~Live(d)' /\ \A e \in Existing \ {d} : Live(e)' <=> Live(e)
    BY <1>0, <1>3 DEF TerminateDeal, ChangeDealState, Live
  <2> QED
    BY <2>1, <2>2, <2>3, ManifestFreed DEF DealKey
<1>4. CASE FinalizeDeal(d)
  <2>1. UNCHANGED <<dealCount, terms, organization>> /\ assigned' = assigned \ {DealKey(d)}
    BY <1>4 DEF FinalizeDeal, ReleaseCapacity, Unassign, DealKey, managementVars
  <2>2. Live(d) /\ ~Live(d)' /\ \A e \in Existing \ {d} : Live(e)' <=> Live(e)
    BY <1>0, <1>4 DEF FinalizeDeal, ChangeDealState, Live
  <2> QED
    BY <2>1, <2>2, ManifestFreed DEF DealKey
<1>5. ASSUME NEW manifest \in Manifests, NEW request \in Requests,
             UpdateManifestLocation(d, manifest, request.size)
      PROVE  KeysAssigned' /\ AssignedLive' /\ KeysDistinct'
  BY <1>5, ManifestMoved
<1>6. CASE \/ CreateValidator(d) \/ CreateRail(d) \/ CreateForeignRail(d) \/ SubmitEvidence(d)
           \/ RefreshEvidenceStatus(d)
           \/ \E epochs \in MinIntervals : SetMinEpochsBetweenSettlements(d, epochs)
  <2>1. UNCHANGED <<dealCount, terms, dealState, assigned, organization>>
    BY <1>6 DEF CreateValidator, CreateRail, CreateForeignRail, SubmitEvidence,
                RefreshEvidenceStatus, SetMinEpochsBetweenSettlements,
                registryVars, managementVars, capacityVars, marketVars, dealVars
  <2> QED
    BY <2>1, ManifestKept DEF DealKey, Live
<1> QED
  BY <1>1, <1>2, <1>3, <1>4, <1>5, <1>6 DEF DealStep

LEMMA ManifestInvStep == ManifestInv /\ [Next]_vars => ManifestInv'
<1> SUFFICES ASSUME ManifestInv, [Next]_vars PROVE ManifestInv'
  OBVIOUS
<1>1. DealInv'
  BY DealInvStep DEF ManifestInv
<1> SUFFICES KeysAssigned' /\ AssignedLive' /\ KeysDistinct'
  BY <1>1 DEF ManifestInv
<1>2. CASE \/ Tick \/ UNCHANGED vars
           \/ \E d \in Deals, met \in BOOLEAN : SetSLI(d, met)
           \/ \E r \in 1 .. railCount, to \in 1 .. now : SettleRail(r, to)
  <2>1. UNCHANGED <<dealCount, terms, dealState, assigned, organization>>
    BY <1>2 DEF Tick, vars, contractVars, SetSLI, SettleRail, registryVars, managementVars, capacityVars,
                marketVars, dealVars
  <2> QED
    BY <2>1, ManifestKept DEF DealKey, Live
<1>3. CASE ManageRegistry
  BY <1>3, ManagementKeepsKeys, ManifestKept DEF Live
<1>4. ASSUME NEW request \in Requests, ProposeDeal(request)
      PROVE  KeysAssigned' /\ AssignedLive' /\ KeysDistinct'
  <2>1. PICK o \in 1 .. nextOfferId : IsSelected(o, request) /\ CreateDeal(o, request)
    BY <1>4 DEF ProposeDeal
  <2>2. <<request.client, request.manifest, organization[offers[o].provider]>> \notin assigned
    BY <2>1 DEF IsSelected, InPriceBand, Eligible, AlreadyAssigned
  <2> QED
    BY <2>1, <2>2, ManifestAdded
<1>5. ASSUME NEW request \in Requests, NEW o \in 1 .. nextOfferId,
             ProposeDealWithSpecificOffer(o, request)
      PROVE  KeysAssigned' /\ AssignedLive' /\ KeysDistinct'
  BY <1>5, ManifestAdded DEF ProposeDealWithSpecificOffer, Eligible, AlreadyAssigned
<1>6. ASSUME NEW d \in Existing, DealStep(d)
      PROVE  KeysAssigned' /\ AssignedLive' /\ KeysDistinct'
  BY <1>6, ManifestDealStep
<1> QED
  BY <1>2, <1>3, <1>4, <1>5, <1>6 DEF Next

\* A client's manifest is in at most one live deal per organization, and the
\* registry's table holds exactly the manifests of live deals, for any number
\* of deals, clients, providers and organizations.
THEOREM ManifestsExclusive == Spec => []ManifestExclusive
<1>1. Init => ManifestInv
  <2> SUFFICES ASSUME Init PROVE KeysAssigned /\ AssignedLive /\ KeysDistinct
    BY InitDealInv DEF ManifestInv
  <2> QED
    BY DEF Init, RegistryInit, KeysAssigned, AssignedLive, KeysDistinct, Existing
<1> QED
  BY <1>1, ManifestInvStep, ManifestInvExclusive, PTL DEF Spec

-----------------------------------------------------------------------------

CapacityInv == DealInv /\ CapacityConserved

LEMMA DealsInFinite ==
  ASSUME TypeInv, NEW p, NEW state
  PROVE  /\ IsFiniteSet(DealsIn(p, state))
         /\ DealsIn(p, state) \subseteq Existing /\ Existing \subseteq Deals
         /\ \A d \in Existing : Reserved[d] = terms[d].reserved /\ Reserved[d] \in Nat
         /\ \A d \in Deals : dealCommitted[d] \in Nat
<1>1. dealCount \in Nat /\ Existing = 1 .. dealCount /\ Existing \subseteq Deals
  BY ValidatorAssumption DEF TypeInv, TypeOK, MarketTypeOK, Existing, Deals
<1>2. IsFiniteSet(Existing)
  BY <1>1, FS_Interval
<1>3. DealsIn(p, state) \subseteq Existing
  BY DEF DealsIn
<1>4. IsFiniteSet(DealsIn(p, state))
  BY <1>2, <1>3, FS_Subset
<1>5. ASSUME NEW d \in Existing PROVE terms[d].reserved \in Nat
  BY DEF TypeInv, TypeOK, MarketTypeOK, DealTerms, Existing
<1> QED
  BY <1>1, <1>3, <1>4, <1>5 DEF TypeInv, TypeOK, MarketTypeOK, Reserved

\* A step that changes one deal only, and the bytes of its provider by what
\* the deal held and holds in the two states that count.
LEMMA CapacityMoved ==
  ASSUME CapacityInv, TypeInv', NEW d, d \in Existing',
         Existing' = Existing \cup {d},
         \A e \in Existing \ {d} : /\ terms'[e] = terms[e] /\ dealState'[e] = dealState[e]
                                   /\ dealCommitted'[e] = dealCommitted[e],
         d \in Existing => terms'[d].provider = terms[d].provider,
         \A p \in Providers :
           /\ pendingBytes'[p] =
                (pendingBytes[p] - (IF d \in DealsIn(p, "ACCEPTED") THEN Reserved[d] ELSE 0))
                  + (IF d \in DealsIn(p, "ACCEPTED")' THEN Reserved'[d] ELSE 0)
           /\ committedBytes'[p] =
                (committedBytes[p] - (IF d \in DealsIn(p, "ACTIVE") THEN dealCommitted[d] ELSE 0))
                  + (IF d \in DealsIn(p, "ACTIVE")' THEN dealCommitted'[d] ELSE 0)
  PROVE  CapacityConserved'
<1> SUFFICES ASSUME NEW p \in Providers
             PROVE  /\ pendingBytes'[p] = SumFunctionOnSet(Reserved', DealsIn(p, "ACCEPTED")')
                    /\ committedBytes'[p] = SumFunctionOnSet(dealCommitted', DealsIn(p, "ACTIVE")')
  BY DEF CapacityConserved
<1>1. ASSUME NEW state
      PROVE  DealsIn(p, state) \ {d} = DealsIn(p, state)' \ {d}
  BY DEF DealsIn
<1>2. /\ IsFiniteSet(DealsIn(p, "ACCEPTED")) /\ IsFiniteSet(DealsIn(p, "ACTIVE"))
      /\ \A e \in DealsIn(p, "ACCEPTED") : Reserved[e] \in Int
      /\ \A e \in DealsIn(p, "ACTIVE") : dealCommitted[e] \in Int
  BY DealsInFinite DEF CapacityInv, DealInv
<1>3. /\ \A e \in DealsIn(p, "ACCEPTED")' : Reserved'[e] \in Int
      /\ \A e \in DealsIn(p, "ACTIVE")' : dealCommitted'[e] \in Int
  <2>1. ASSUME NEW e \in Existing' PROVE terms'[e].reserved \in Nat /\ dealCommitted'[e] \in Nat
    <3>1. terms'[e] \in DealTerms /\ dealCount' \in 0 .. MaxDeals
      BY DEF TypeInv, TypeOK, MarketTypeOK, Existing
    <3>2. e \in Deals
      BY <3>1, ValidatorAssumption DEF Existing, Deals
    <3> QED
      BY <3>1, <3>2 DEF TypeInv, TypeOK, MarketTypeOK, DealTerms
  <2> QED
    BY <2>1 DEF DealsIn, Reserved
<1>4. /\ \A e \in DealsIn(p, "ACCEPTED") \ {d} : Reserved'[e] = Reserved[e]
      /\ \A e \in DealsIn(p, "ACTIVE") \ {d} : dealCommitted'[e] = dealCommitted[e]
  BY DEF DealsIn, Reserved
<1> DEFINE was == DealsIn(p, "ACCEPTED")
           is == DealsIn(p, "ACCEPTED")'
           wasActive == DealsIn(p, "ACTIVE")
           isActive == DealsIn(p, "ACTIVE")'
<1>5. /\ was \ {d} = is \ {d} /\ wasActive \ {d} = isActive \ {d}
      /\ pendingBytes[p] = SumFunctionOnSet(Reserved, was)
      /\ committedBytes[p] = SumFunctionOnSet(dealCommitted, wasActive)
  BY <1>1 DEF CapacityInv, CapacityConserved
<1> HIDE DEF was, is, wasActive, isActive
<1>6. SumFunctionOnSet(Reserved', is) =
        (SumFunctionOnSet(Reserved, was) - (IF d \in was THEN Reserved[d] ELSE 0))
          + (IF d \in is THEN Reserved'[d] ELSE 0)
  <2> DEFINE held == Reserved
             holds == Reserved'
  <2>1. /\ IsFiniteSet(was) /\ was \ {d} = is \ {d}
        /\ \A e \in was : held[e] \in Int
        /\ \A e \in is : holds[e] \in Int
        /\ \A e \in was \ {d} : holds[e] = held[e]
    BY <1>2, <1>3, <1>4, <1>5 DEF was, is
  <2> HIDE DEF held, holds
  <2>2. SumFunctionOnSet(holds, is) =
          (SumFunctionOnSet(held, was) - (IF d \in was THEN held[d] ELSE 0))
            + (IF d \in is THEN holds[d] ELSE 0)
    BY <2>1, SumMoved
  <2> QED
    BY <2>2 DEF held, holds
<1>7. SumFunctionOnSet(dealCommitted', isActive) =
        (SumFunctionOnSet(dealCommitted, wasActive) - (IF d \in wasActive THEN dealCommitted[d] ELSE 0))
          + (IF d \in isActive THEN dealCommitted'[d] ELSE 0)
  <2>1. /\ IsFiniteSet(wasActive) /\ \A e \in wasActive : dealCommitted[e] \in Int
        /\ \A e \in isActive : dealCommitted'[e] \in Int
        /\ \A e \in wasActive \ {d} : dealCommitted'[e] = dealCommitted[e]
    BY <1>2, <1>3, <1>4 DEF wasActive, isActive
  <2> QED
    BY <1>5, <2>1, SumMoved
<1> QED
  BY <1>5, <1>6, <1>7 DEF was, is, wasActive, isActive

LEMMA CapacityKept ==
  ASSUME CapacityConserved,
         UNCHANGED <<dealCount, terms, dealState, dealCommitted, pendingBytes, committedBytes>>
  PROVE  CapacityConserved'
<1>1. Reserved' = Reserved /\ \A p, state : DealsIn(p, state)' = DealsIn(p, state)
  BY DEF Reserved, DealsIn, Existing
<1> QED
  BY <1>1 DEF CapacityConserved

\* A deal's reservation is part of its provider's pending bytes.
LEMMA ReservationPending ==
  ASSUME CapacityInv, NEW d \in Existing, dealState[d] = "ACCEPTED"
  PROVE  terms[d].reserved <= pendingBytes[terms[d].provider]
<1> DEFINE p == terms[d].provider
<1>1. d \in DealsIn(p, "ACCEPTED")
  BY DEF DealsIn
<1>2. p \in Providers
  BY DEF CapacityInv, DealInv, TypeInv, TypeOK, MarketTypeOK, DealTerms, Existing
<1>3. /\ IsFiniteSet(DealsIn(p, "ACCEPTED")) /\ \A e \in DealsIn(p, "ACCEPTED") : Reserved[e] \in Nat
      /\ Reserved[d] = terms[d].reserved
  BY DealsInFinite DEF CapacityInv, DealInv
<1>4. Reserved[d] <= SumFunctionOnSet(Reserved, DealsIn(p, "ACCEPTED"))
  BY <1>1, <1>3, SumAtLeast
<1> QED
  BY <1>2, <1>3, <1>4 DEF CapacityInv, CapacityConserved

LEMMA CapacityCreated ==
  ASSUME CapacityInv, TypeInv', NEW request \in Requests, NEW o \in 1 .. nextOfferId,
         CreateDeal(o, request)
  PROVE  CapacityConserved'
<1> USE DEF CapacityInv, DealInv
<1> DEFINE q == offers[o].provider
<1>0. PICK d \in Deals : d = dealCount + 1
  BY ValidatorAssumption DEF CreateDeal, TypeInv, TypeOK, MarketTypeOK, Deals
<1>1. /\ dealCount \in Nat /\ dealState \in [Deals -> DealStates]
      /\ terms \in [Existing -> DealTerms] /\ pendingBytes \in [Providers -> Nat]
      /\ committedBytes \in [Providers -> Nat] /\ request.size \in Nat
  <2>1. request.size \in Nat
    BY MarketAssumption
  <2>2. /\ pendingBytes \in [Providers -> Nat] /\ committedBytes \in [Providers -> Nat]
    BY DEF TypeInv, TypeOK, RegistryTypeOK
  <2>3. /\ dealCount \in Nat /\ dealState \in [Deals -> DealStates]
        /\ terms \in [Existing -> DealTerms]
    BY ValidatorAssumption DEF TypeInv, TypeOK, MarketTypeOK, Existing
  <2> QED
    BY <2>1, <2>2, <2>3
<1>2. Existing' = Existing \cup {d} /\ d \notin Existing /\ d \in Existing'
  BY <1>0, <1>1 DEF CreateDeal, Existing
<1>3. /\ terms'[d].provider = q /\ terms'[d].reserved = request.size
      /\ \A e \in Existing : terms'[e] = terms[e]
  BY <1>0, <1>1 DEF CreateDeal, Existing
<1>4. dealState' = [dealState EXCEPT ![d] = "ACCEPTED"] /\ UNCHANGED dealCommitted
  BY <1>0 DEF CreateDeal, ChangeDealState
<1>5. /\ pendingBytes' = [pendingBytes EXCEPT ![q] = @ + request.size]
      /\ UNCHANGED committedBytes
  BY DEF CreateDeal, ReserveSelection
<1> HIDE DEF q
<1>6. \A e \in Existing \ {d} : /\ terms'[e] = terms[e] /\ dealState'[e] = dealState[e]
                                /\ dealCommitted'[e] = dealCommitted[e]
  BY <1>0, <1>1, <1>3, <1>4
<1>7. ASSUME NEW p \in Providers
      PROVE  /\ d \notin DealsIn(p, "ACCEPTED") /\ d \notin DealsIn(p, "ACTIVE")
             /\ d \in DealsIn(p, "ACCEPTED")' <=> p = q
             /\ d \notin DealsIn(p, "ACTIVE")' /\ Reserved'[d] = request.size
             /\ pendingBytes[p] \in Nat /\ committedBytes[p] \in Nat
             /\ pendingBytes'[p] = IF p = q THEN pendingBytes[p] + request.size ELSE pendingBytes[p]
  BY <1>1, <1>2, <1>3, <1>4, <1>5 DEF DealsIn, Reserved
<1> QED
  BY <1>1, <1>2, <1>5, <1>6, <1>7, CapacityMoved

\* A deal of provider q in a state that counts and its step to another state,
\* or to other terms.
LEMMA CapacityDealStep ==
  ASSUME CapacityInv, TypeInv', NEW d \in Existing, DealStep(d)
  PROVE  CapacityConserved'
<1> USE DEF CapacityInv, DealInv
<1> DEFINE q == terms[d].provider
           size == terms[d].reserved
           bytes == dealCommitted[d]
<1>0. /\ d \in Deals /\ Consistent(d) /\ dealState \in [Deals -> DealStates]
      /\ terms \in [Existing -> DealTerms] /\ dealCommitted \in [Deals -> Nat]
      /\ pendingBytes \in [Providers -> Nat] /\ committedBytes \in [Providers -> Nat]
      /\ evidenceCovered[d] \in Nat
  <2>1. d \in Deals
    BY DealsInFinite
  <2> QED
    BY <2>1 DEF TypeInv, TypeOK, MarketTypeOK, RegistryTypeOK, EvidenceTypeOK, Existing, DealRailConsistent
<1>1. q \in Providers /\ size \in Nat /\ bytes \in Nat
  BY <1>0 DEF DealTerms
<1>2. ASSUME NEW p, NEW state
      PROVE  d \in DealsIn(p, state) <=> p = q /\ dealState[d] = state
  BY DEF DealsIn
<1>3. Reserved[d] = size
  BY DEF Reserved
<1> HIDE DEF q, size, bytes
\* The other deals, and the sets of this one, after a step that keeps its terms.
<1>4. ASSUME UNCHANGED <<dealCount, terms>>, NEW next \in DealStates,
             dealState' = [dealState EXCEPT ![d] = next],
             \A e \in Existing \ {d} : dealCommitted'[e] = dealCommitted[e]
      PROVE  /\ Existing' = Existing
             /\ \A e \in Existing \ {d} : /\ terms'[e] = terms[e] /\ dealState'[e] = dealState[e]
                                          /\ dealCommitted'[e] = dealCommitted[e]
             /\ terms'[d].provider = terms[d].provider /\ Reserved'[d] = size
             /\ \A p, state : d \in DealsIn(p, state)' <=> p = q /\ next = state
  BY <1>0, <1>4 DEF DealsIn, Reserved, Existing, q, size
<1>5. ASSUME UNCHANGED <<dealCount, terms, dealCommitted>>, dealState[d] = "ACCEPTED",
             NEW next \in DealStates \ {"ACCEPTED", "ACTIVE"},
             dealState' = [dealState EXCEPT ![d] = next],
             pendingBytes' = [pendingBytes EXCEPT ![q] = @ - size], UNCHANGED committedBytes
      PROVE  CapacityConserved'
  <2>0. /\ Existing' = Existing
        /\ \A e \in Existing \ {d} : /\ terms'[e] = terms[e] /\ dealState'[e] = dealState[e]
                                     /\ dealCommitted'[e] = dealCommitted[e]
        /\ terms'[d].provider = terms[d].provider /\ Reserved'[d] = size
        /\ \A p, state : d \in DealsIn(p, state)' <=> p = q /\ next = state
    BY <1>4, <1>5
  <2>1. \A p \in Providers :
          /\ pendingBytes'[p] =
               (pendingBytes[p] - (IF d \in DealsIn(p, "ACCEPTED") THEN Reserved[d] ELSE 0))
                 + (IF d \in DealsIn(p, "ACCEPTED")' THEN Reserved'[d] ELSE 0)
          /\ committedBytes'[p] =
               (committedBytes[p] - (IF d \in DealsIn(p, "ACTIVE") THEN dealCommitted[d] ELSE 0))
                 + (IF d \in DealsIn(p, "ACTIVE")' THEN dealCommitted'[d] ELSE 0)
    BY <1>0, <1>1, <1>2, <1>3, <1>5, <2>0
  <2> QED
    BY <2>0, <2>1, CapacityMoved
<1>6. ASSUME UNCHANGED <<dealCount, terms, dealCommitted>>, dealState[d] = "ACTIVE",
             NEW next \in DealStates \ {"ACCEPTED", "ACTIVE"},
             dealState' = [dealState EXCEPT ![d] = next],
             committedBytes' = [committedBytes EXCEPT ![q] = @ - bytes], UNCHANGED pendingBytes
      PROVE  CapacityConserved'
  <2>0. /\ Existing' = Existing
        /\ \A e \in Existing \ {d} : /\ terms'[e] = terms[e] /\ dealState'[e] = dealState[e]
                                     /\ dealCommitted'[e] = dealCommitted[e]
        /\ terms'[d].provider = terms[d].provider /\ Reserved'[d] = size
        /\ \A p, state : d \in DealsIn(p, state)' <=> p = q /\ next = state
    BY <1>4, <1>6
  <2>1. \A p \in Providers :
          /\ pendingBytes'[p] =
               (pendingBytes[p] - (IF d \in DealsIn(p, "ACCEPTED") THEN Reserved[d] ELSE 0))
                 + (IF d \in DealsIn(p, "ACCEPTED")' THEN Reserved'[d] ELSE 0)
          /\ committedBytes'[p] =
               (committedBytes[p] - (IF d \in DealsIn(p, "ACTIVE") THEN dealCommitted[d] ELSE 0))
                 + (IF d \in DealsIn(p, "ACTIVE")' THEN dealCommitted'[d] ELSE 0)
    BY <1>0, <1>1, <1>2, <1>3, <1>6, <2>0 DEF bytes
  <2> QED
    BY <2>0, <2>1, CapacityMoved
<1>7. CASE ActivateEvidence(d)
  <2> DEFINE covered == evidenceCovered[d]
  <2>1. /\ dealState[d] = "ACCEPTED" /\ dealState' = [dealState EXCEPT ![d] = "ACTIVE"]
        /\ UNCHANGED <<dealCount, terms>>
        /\ dealCommitted' = [dealCommitted EXCEPT ![d] = covered]
    BY <1>7 DEF ActivateEvidence, ChangeDealState
  <2>2. /\ pendingBytes' = [pendingBytes EXCEPT ![q] = @ - size]
        /\ committedBytes' = [committedBytes EXCEPT ![q] = @ + covered]
    <3>1. size <= pendingBytes[q]
      BY <2>1, ReservationPending DEF q, size
    <3> QED
      BY <1>0, <1>1, <1>7, <3>1 DEF ActivateEvidence, CommitCapacity, PendingAfter, q, size
  <2>3. covered \in Nat
    BY <1>0
  <2> HIDE DEF covered
  <2>4. dealCommitted'[d] = covered /\ \A e \in Existing \ {d} : dealCommitted'[e] = dealCommitted[e]
    BY <1>0, <2>1
  <2>5. "ACTIVE" \in DealStates
    BY DEF DealStates
  <2>6. /\ Existing' = Existing
        /\ \A e \in Existing \ {d} : /\ terms'[e] = terms[e] /\ dealState'[e] = dealState[e]
                                     /\ dealCommitted'[e] = dealCommitted[e]
        /\ terms'[d].provider = terms[d].provider /\ Reserved'[d] = size
        /\ \A p, state : d \in DealsIn(p, state)' <=> p = q /\ "ACTIVE" = state
    BY <1>4, <2>1, <2>4, <2>5
  <2>7. \A p \in Providers :
          /\ pendingBytes'[p] =
               (pendingBytes[p] - (IF d \in DealsIn(p, "ACCEPTED") THEN Reserved[d] ELSE 0))
                 + (IF d \in DealsIn(p, "ACCEPTED")' THEN Reserved'[d] ELSE 0)
          /\ committedBytes'[p] =
               (committedBytes[p] - (IF d \in DealsIn(p, "ACTIVE") THEN dealCommitted[d] ELSE 0))
                 + (IF d \in DealsIn(p, "ACTIVE")' THEN dealCommitted'[d] ELSE 0)
    BY <1>0, <1>1, <1>2, <1>3, <2>1, <2>2, <2>3, <2>4, <2>6
  <2> QED
    BY <2>6, <2>7, CapacityMoved
<1>8. CASE RejectAcceptedDeal(d)
  <2>1. "REJECTED" \in DealStates \ {"ACCEPTED", "ACTIVE"}
    BY DEF DealStates
  <2> QED
    BY <1>5, <1>8, <2>1 DEF RejectAcceptedDeal, ReleasePendingCapacity, ChangeDealState, q, size
<1>9. ASSUME NEW state \in {"EXPIRED", "EARLY_TERMINATED"}, TerminateDeal(d, state)
      PROVE  CapacityConserved'
  <2>1. /\ state \in DealStates \ {"ACCEPTED", "ACTIVE"}
        /\ dealState' = [dealState EXCEPT ![d] = state]
        /\ UNCHANGED <<dealCount, terms, dealCommitted>>
    BY <1>9 DEF DealStates, TerminateDeal, ChangeDealState
  <2>2. dealState[d] \in {"ACCEPTED", "ACTIVE"}
    BY <1>0, <1>9 DEF TerminateDeal, EarlyRailTermination, TerminateRailFrom, Consistent
  <2>3. CASE dealState[d] = "ACCEPTED"
    BY <1>5, <1>9, <2>1, <2>3 DEF TerminateDeal, ReleasePendingCapacity, q, size
  <2>4. CASE dealState[d] = "ACTIVE"
    BY <1>6, <1>9, <2>1, <2>4 DEF TerminateDeal, ReleaseCapacity, q, bytes
  <2> QED
    BY <2>2, <2>3, <2>4
<1>10. CASE FinalizeDeal(d)
  <2>1. "FINALIZED" \in DealStates \ {"ACCEPTED", "ACTIVE"}
    BY DEF DealStates
  <2> QED
    BY <1>6, <1>10, <2>1 DEF FinalizeDeal, ReleaseCapacity, ChangeDealState, q, bytes
<1>11. ASSUME NEW manifest \in Manifests, NEW request \in Requests,
              UpdateManifestLocation(d, manifest, request.size)
       PROVE  CapacityConserved'
  <2>1. request.size \in Nat /\ dealState[d] = "ACCEPTED" /\ size <= pendingBytes[q]
    BY <1>11, MarketAssumption, ReservationPending DEF UpdateManifestLocation, q, size
  <2>2. /\ UNCHANGED <<dealCount, dealState, dealCommitted, committedBytes>>
        /\ terms' = [terms EXCEPT ![d].manifest = manifest, ![d].reserved = request.size]
        /\ pendingBytes' = [pendingBytes EXCEPT ![q] = (@ - size) + request.size]
    BY <1>11 DEF UpdateManifestLocation, UpdatePendingReservation, TypeInv, DealsNameOffers, q, size
  <2>3. /\ Existing' = Existing
        /\ \A e \in Existing \ {d} : /\ terms'[e] = terms[e] /\ dealState'[e] = dealState[e]
                                     /\ dealCommitted'[e] = dealCommitted[e]
    BY <1>0, <2>2 DEF Existing
  <2>4. terms'[d].provider = terms[d].provider /\ terms'[d].reserved = request.size
    BY <1>0, <2>2 DEF DealTerms
  <2>5. /\ Reserved'[d] = request.size
        /\ \A p, state : d \in DealsIn(p, state)' <=> p = q /\ dealState[d] = state
    BY <2>2, <2>3, <2>4 DEF Reserved, DealsIn, q
  <2>6. \A p \in Providers :
          /\ pendingBytes'[p] =
               (pendingBytes[p] - (IF d \in DealsIn(p, "ACCEPTED") THEN Reserved[d] ELSE 0))
                 + (IF d \in DealsIn(p, "ACCEPTED")' THEN Reserved'[d] ELSE 0)
          /\ committedBytes'[p] =
               (committedBytes[p] - (IF d \in DealsIn(p, "ACTIVE") THEN dealCommitted[d] ELSE 0))
                 + (IF d \in DealsIn(p, "ACTIVE")' THEN dealCommitted'[d] ELSE 0)
    BY <1>0, <1>1, <1>2, <1>3, <2>1, <2>2, <2>5
  <2> QED
    BY <2>3, <2>4, <2>6, CapacityMoved
<1>12. CASE \/ CreateValidator(d) \/ CreateRail(d) \/ CreateForeignRail(d) \/ SubmitEvidence(d)
            \/ RefreshEvidenceStatus(d)
            \/ \E epochs \in MinIntervals : SetMinEpochsBetweenSettlements(d, epochs)
  <2>1. UNCHANGED <<dealCount, terms, dealState, dealCommitted, pendingBytes, committedBytes>>
    BY <1>12 DEF CreateValidator, CreateRail, CreateForeignRail, SubmitEvidence,
                 RefreshEvidenceStatus, SetMinEpochsBetweenSettlements,
                 registryVars, capacityVars, marketVars, dealVars
  <2> QED
    BY <2>1, CapacityKept
<1> QED
  BY <1>7, <1>8, <1>9, <1>10, <1>11, <1>12 DEF DealStep

LEMMA CapacityInvStep == CapacityInv /\ [Next]_vars => CapacityInv'
<1> SUFFICES ASSUME CapacityInv, [Next]_vars PROVE CapacityInv'
  OBVIOUS
<1>1. DealInv' /\ TypeInv'
  BY DealInvStep DEF CapacityInv, DealInv
<1> SUFFICES CapacityConserved'
  BY <1>1 DEF CapacityInv
<1>2. CASE \/ Tick \/ ManageRegistry \/ UNCHANGED vars
           \/ \E d \in Deals, met \in BOOLEAN : SetSLI(d, met)
           \/ \E r \in 1 .. railCount, to \in 1 .. now : SettleRail(r, to)
  <2>1. UNCHANGED <<dealCount, terms, dealState, dealCommitted, pendingBytes, committedBytes>>
    BY <1>2 DEF Tick, ManageRegistry, vars, contractVars, SetSLI, SettleRail, registryVars,
                capacityVars, marketVars, dealVars, RegistryNext, RegisterProviderFor,
                PauseProvider, UnpauseProvider, BlockProvider, UnblockProvider,
                UpdateAvailableSpace, CreateOffer, SetOfferActive, SetOfferPayment
  <2> QED
    BY <2>1, CapacityKept DEF CapacityInv
<1>3. ASSUME NEW request \in Requests, NEW o \in 1 .. nextOfferId, CreateDeal(o, request)
      PROVE  CapacityConserved'
  BY <1>1, <1>3, CapacityCreated
<1>4. ASSUME NEW d \in Existing, DealStep(d)
      PROVE  CapacityConserved'
  BY <1>1, <1>4, CapacityDealStep
<1> QED
  BY <1>2, <1>3, <1>4 DEF Next, ProposeDeal, ProposeDealWithSpecificOffer

LEMMA CapacityInvariant == Spec => []CapacityInv
<1>1. Init => CapacityInv
  <2> SUFFICES ASSUME Init PROVE CapacityConserved
    BY InitDealInv DEF CapacityInv
  <2>1. \A p, state : DealsIn(p, state) = {}
    BY DEF Init, DealsIn, Existing
  <2> QED
    BY <2>1, SumEmpty DEF Init, RegistryInit, CapacityConserved
<1> QED
  BY <1>1, CapacityInvStep, PTL DEF Spec

\* Every provider's pending bytes are exactly the reservations of its accepted
\* deals and its committed bytes those of its active deals, for any number of
\* deals, providers and sizes and in whatever order they are proposed,
\* updated, activated and closed: SPRegistry.sol never leaks capacity, and a
\* release never finds less than it gives back.
THEOREM CapacityAccounted == Spec => []CapacityConserved
<1>1. CapacityInv => CapacityConserved
  BY DEF CapacityInv
<1> QED
  BY <1>1, CapacityInvariant, PTL

-----------------------------------------------------------------------------
(* Closing a deal *)

\* What the guards of the three closing actions ask of the state, the release
\* of the provider's capacity included.
Releasable(d) ==
  /\ terms[d].provider \in Registered
  /\ dealState[d] = "ACCEPTED" => terms[d].reserved <= pendingBytes[terms[d].provider]
  /\ dealState[d] # "ACCEPTED" => dealCommitted[d] <= committedBytes[terms[d].provider]

Rejectable(d) == dealState[d] = "ACCEPTED" /\ railId[d] = 0
Terminable(d) == d \in validators /\ NotAfterService(d) /\ railStatus[d] \in {"PREPARED", "ACTIVE"}
Finalizable(d) ==
  dealState[d] = "ACTIVE" /\ d \in validators /\ ServiceOver(d) /\ railStatus[d] = "ACTIVE"

Closable(d) == Releasable(d) /\ (Rejectable(d) \/ Terminable(d) \/ Finalizable(d))

\* A deal's committed bytes are part of its provider's.
LEMMA CommitmentHeld ==
  ASSUME CapacityInv, NEW d \in Existing, dealState[d] = "ACTIVE"
  PROVE  dealCommitted[d] <= committedBytes[terms[d].provider]
<1> DEFINE p == terms[d].provider
<1>1. d \in DealsIn(p, "ACTIVE")
  BY DEF DealsIn
<1>2. p \in Providers
  BY DEF CapacityInv, DealInv, TypeInv, TypeOK, MarketTypeOK, DealTerms, Existing
<1>3. IsFiniteSet(DealsIn(p, "ACTIVE")) /\ \A e \in DealsIn(p, "ACTIVE") : dealCommitted[e] \in Nat
  BY DealsInFinite DEF CapacityInv, DealInv
<1>4. dealCommitted[d] <= SumFunctionOnSet(dealCommitted, DealsIn(p, "ACTIVE"))
  BY <1>1, <1>3, SumAtLeast
<1> QED
  BY <1>2, <1>4 DEF CapacityInv, CapacityConserved

LEMMA LiveClosable ==
  ASSUME CapacityInv, NEW d \in Existing, Live(d)
  PROVE  Closable(d)
<1>1. /\ d \in Deals /\ Consistent(d) /\ railStatus[d] \in RailStatuses
      /\ now \in Nat /\ serviceEnd[d] \in Nat
  BY ValidatorAssumption DEF CapacityInv, DealInv, DealRailConsistent, TypeInv, TypeOK, MarketTypeOK,
     ValidatorTypeOK, Existing, Deals
<1>2. Releasable(d)
  <2>1. terms[d] \in DealTerms /\ nextOfferId \in Nat /\ MaxOffers \in Nat
    BY RegistryAssumption DEF CapacityInv, DealInv, TypeInv, TypeOK, MarketTypeOK, RegistryTypeOK, Existing
  <2>2. terms[d].offer \in 1 .. nextOfferId
    BY <2>1 DEF CapacityInv, DealInv, TypeInv, DealsNameOffers, DealTerms, OfferIds
  <2>3. terms[d].provider \in Registered
    BY <2>2 DEF CapacityInv, DealInv, TypeInv, DealsNameOffers, OffersRegistered
  <2> QED
    BY <2>3, ReservationPending, CommitmentHeld DEF Releasable, Live
<1>3. CASE dealState[d] = "ACCEPTED"
  BY <1>1, <1>2, <1>3 DEF Closable, Rejectable, Terminable, Consistent, NotAfterService, RailStatuses
<1>4. CASE dealState[d] = "ACTIVE"
  BY <1>1, <1>2, <1>4 DEF Closable, Terminable, Finalizable, Consistent, NotAfterService, ServiceOver
<1> QED
  BY <1>3, <1>4 DEF Live

\* In every reachable state each accepted or active deal meets every condition
\* of rejectAcceptedDeal, terminateDeal or finalizeDeal, for any number of
\* deals and providers: the records of the market and the validator agree, the
\* registry never refuses the release, and no epoch around the service end is
\* left out.  (LiveDealCanBeClosed says so with ENABLED, which is checked by
\* TLC only.)
THEOREM LiveDealsClosable == Spec => [](\A d \in Existing : Live(d) => Closable(d))
<1>1. CapacityInv => \A d \in Existing : Live(d) => Closable(d)
  BY LiveClosable
<1> QED
  BY <1>1, CapacityInvariant, PTL

-----------------------------------------------------------------------------

LEMMA SmallestNat ==
  ASSUME NEW S \in SUBSET Nat, S # {}
  PROVE  \E n \in S : \A m \in S : n <= m
<1> DEFINE Less == {pair \in Nat \X Nat : pair[1] < pair[2]}
<1>1. IsWellFoundedOn(Less, Nat)
  BY NatLessThanWellFounded DEF OpToRel
<1>2. PICK n \in S : \A m \in S : <<m, n>> \notin Less
  <2> HIDE DEF Less
  <2> QED
    BY <1>1, WFMin
<1>3. ASSUME NEW m \in S
      PROVE  n <= m
  <2>1. <<m, n>> \in Nat \X Nat /\ m \in Nat /\ n \in Nat
    OBVIOUS
  <2>2. ~(<<m, n>>[1] < <<m, n>>[2])
    BY <1>2, <2>1
  <2> QED
    BY <2>1, <2>2
<1> QED
  BY <1>3

\* A band above a price, rounded down, never excludes the price itself.
LEMMA BandIncludes ==
  ASSUME NEW price \in Nat, NEW full \in Nat \ {0}, NEW band \in Nat
  PROVE  price <= (price * (full + band)) \div full
<1> DEFINE total == price * (full + band)
           quotient == total \div full
<1>1. total = price * full + price * band /\ price * band \in Nat /\ price * full \in Nat
  OBVIOUS
<1>2. total \in Nat /\ price * full <= total
  <2> DEFINE part == price * full
             extra == price * band
  <2>1. part \in Nat /\ extra \in Nat /\ total = part + extra
    BY <1>1
  <2> HIDE DEF part, extra, total
  <2>2. total \in Nat /\ part <= total
    BY <2>1
  <2> QED
    BY <2>2 DEF part
<1> HIDE DEF total
<1>3. quotient \in Nat /\ total < full * (quotient + 1)
  BY <1>2
<1> HIDE DEF quotient
<1>4. ASSUME quotient < price PROVE FALSE
  <2>1. quotient + 1 <= price
    BY <1>3, <1>4
  <2>2. full * (quotient + 1) <= full * price
    BY <1>3, <2>1
  <2>3. full * price = price * full
    OBVIOUS
  <2>4. full * (quotient + 1) \in Nat /\ full * price \in Nat
    BY <1>3
  <2> QED
    BY <1>2, <1>3, <2>2, <2>3, <2>4
<1> QED
  BY <1>3, <1>4 DEF quotient, total

LEMMA BandNotEmpty ==
  ASSUME TypeInv, NEW request, \E o \in ActiveOffers : Eligible(o, request)
  PROVE  InPriceBand(request) # {}
<1> DEFINE eligible == {o \in ActiveOffers : Eligible(o, request)}
<1>1. \A o \in eligible : offers[o].price \in Nat
  BY DEF TypeInv, TypeOK, RegistryTypeOK, Offer, ActiveOffers
<1>2. eligible # {}
  OBVIOUS
<1> HIDE DEF eligible
<1>3. PICK least \in {offers[o].price : o \in eligible} :
        \A price \in {offers[o].price : o \in eligible} : least <= price
  BY <1>1, <1>2, SmallestNat
<1>4. PICK cheapest \in eligible :
        \A other \in eligible : offers[cheapest].price <= offers[other].price
  BY <1>3
<1>5. ASSUME NEW other \in eligible
      PROVE  offers[cheapest].price <=
               (offers[other].price * (MAX_BPS + MATCH_PRICE_BAND_BPS)) \div MAX_BPS
  <2> DEFINE price == offers[other].price
             limit == (price * (MAX_BPS + MATCH_PRICE_BAND_BPS)) \div MAX_BPS
  <2>1. price \in Nat /\ MAX_BPS \in Nat \ {0} /\ MATCH_PRICE_BAND_BPS \in Nat
    BY <1>1, RegistryAssumption
  <2>2. price <= limit
    BY <2>1, BandIncludes
  <2>3. limit \in Int
    <3> HIDE DEF price
    <3>1. price * (MAX_BPS + MATCH_PRICE_BAND_BPS) \in Int
      BY <2>1
    <3> QED
      BY <2>1, <3>1
  <2>4. offers[cheapest].price <= price /\ offers[cheapest].price \in Nat
    BY <1>1, <1>4
  <2> HIDE DEF price, limit
  <2>5. offers[cheapest].price <= limit
    BY <2>1, <2>2, <2>3, <2>4
  <2> QED
    BY <2>5 DEF limit, price
<1> QED
  BY <1>4, <1>5 DEF InPriceBand, eligible

LEMMA LeastLoadedExists ==
  ASSUME TypeInv, NEW band \in SUBSET (1 .. nextOfferId), band # {}
  PROVE  \E o \in band : \A other \in band : IsLeastLoaded(o, other)
<1> DEFINE load(o) == pendingBytes[offers[o].provider]
           price(o) == offers[o].price
<1>1. \A o \in band : load(o) \in Nat /\ price(o) \in Nat /\ o \in Nat
  <2> TAKE o \in band
  <2>1. offers[o] \in Offer /\ pendingBytes \in [Providers -> Nat] /\ o \in Nat
    BY DEF TypeInv, TypeOK, RegistryTypeOK
  <2>2. offers[o].provider \in Providers /\ offers[o].price \in Nat
    BY <2>1, RegistryAssumption DEF Offer
  <2> QED
    BY <2>1, <2>2
<1> HIDE DEF load, price
<1>2. PICK leastLoad \in {load(o) : o \in band} : \A n \in {load(o) : o \in band} : leastLoad <= n
  <2>1. {load(o) : o \in band} \in SUBSET Nat /\ {load(o) : o \in band} # {}
    BY <1>1
  <2> QED
    BY <2>1, SmallestNat
<1> DEFINE idle == {o \in band : load(o) = leastLoad}
<1>3. PICK leastPrice \in {price(o) : o \in idle} : \A n \in {price(o) : o \in idle} : leastPrice <= n
  <2>1. {price(o) : o \in idle} \in SUBSET Nat /\ {price(o) : o \in idle} # {}
    BY <1>1, <1>2
  <2> HIDE DEF idle
  <2> QED
    BY <2>1, SmallestNat
<1> DEFINE cheap == {o \in idle : price(o) = leastPrice}
<1>4. PICK first \in cheap : \A o \in cheap : first <= o
  BY <1>1, SmallestNat
<1>5. ASSUME NEW other \in band
      PROVE  IsLeastLoaded(first, other)
  <2>1. first \in band /\ load(first) = leastLoad /\ price(first) = leastPrice /\ leastLoad <= load(other)
    BY <1>2, <1>4
  <2>2. load(other) = leastLoad => leastPrice <= price(other)
    BY <1>3
  <2>3. load(other) = leastLoad /\ price(other) = leastPrice => first <= other
    BY <1>4
  <2>4. \/ load(first) < load(other)
        \/ load(first) = load(other) /\ price(first) < price(other)
        \/ load(first) = load(other) /\ price(first) = price(other) /\ first <= other
    BY <1>1, <2>1, <2>2, <2>3
  <2> QED
    BY <2>4 DEF IsLeastLoaded, load, price
<1> QED
  BY <1>4, <1>5

LEMMA LeastLoadedUnique ==
  ASSUME TypeInv, NEW a \in 1 .. nextOfferId, NEW b \in 1 .. nextOfferId,
         IsLeastLoaded(a, b), IsLeastLoaded(b, a)
  PROVE  a = b
<1>1. /\ pendingBytes[offers[a].provider] \in Nat /\ pendingBytes[offers[b].provider] \in Nat
      /\ offers[a].price \in Nat /\ offers[b].price \in Nat /\ a \in Nat /\ b \in Nat
  BY RegistryAssumption DEF TypeInv, TypeOK, RegistryTypeOK, Offer
<1> QED
  BY <1>1 DEF IsLeastLoaded

\* Whenever an offer is eligible for a request, exactly one is selected, for
\* any number of offers and whatever their prices, loads and the price band
\* are: the band of SPRegistry.sol, rounded down, never excludes the cheapest
\* offer, and load, price and id together leave no tie.
THEOREM SelectionDecided == Spec => []SelectionUnique
<1>1. TypeInv => SelectionUnique
  <2> SUFFICES ASSUME TypeInv, NEW request \in Requests,
                      \E o \in ActiveOffers : Eligible(o, request)
               PROVE  \E o \in ActiveOffers : {e \in ActiveOffers : IsSelected(e, request)} = {o}
    BY DEF SelectionUnique
  <2>1. InPriceBand(request) # {} /\ InPriceBand(request) \subseteq ActiveOffers
        /\ ActiveOffers \subseteq 1 .. nextOfferId
    BY BandNotEmpty DEF InPriceBand, ActiveOffers
  <2>2. PICK o \in InPriceBand(request) : \A other \in InPriceBand(request) : IsLeastLoaded(o, other)
    BY <2>1, LeastLoadedExists
  <2>3. ASSUME NEW e \in ActiveOffers, IsSelected(e, request)
        PROVE  e = o
    BY <2>1, <2>2, <2>3, LeastLoadedUnique DEF IsSelected
  <2>4. IsSelected(o, request) /\ o \in ActiveOffers
    BY <2>1, <2>2 DEF IsSelected
  <2> QED
    BY <2>3, <2>4
<1>2. Spec => []TypeInv
  BY InitTypeInv, TypeStep, PTL DEF Spec
<1> QED
  BY <1>1, <1>2, PTL
=============================================================================
