----------------------------- MODULE SPRegistry -----------------------------
(***************************************************************************)
(* The provider registry (src/SPRegistry.sol): provider flags, capacity    *)
(* accounting, offers, offer matching and the table of manifests a client  *)
(* has already placed with an organization.                                *)
(*                                                                         *)
(* Management calls are actions.  The calls only MARKET_ROLE may make      *)
(* (reserve, update, commit, release) are operators over the registry's    *)
(* variables: PoRepMarket makes them inside its own transactions.          *)
(*                                                                         *)
(* Abstractions.  The duration, SLI thresholds and payment token of a      *)
(* request are one value, its kind: an offer serves a set of kinds.  Bytes *)
(* are counted in small units.                                             *)
(***************************************************************************)
EXTENDS Integers, FiniteSets

CONSTANTS
  Providers,       \* provider actor ids that may be registered
  Organizations,   \* organizations that own providers
  NoOrg,           \* the zero address: organization of an unregistered provider
  Clients,
  Manifests,       \* manifest hashes
  Kinds,           \* combinations of duration, required SLIs and payment token
  SpaceSizes,      \* values passed to registerProviderFor / updateAvailableSpace
  OfferTerms,      \* terms passed to createOffer: [minSize, maxSize, kinds]
  Prices,          \* prices per 32 GiB per month passed to createOffer / setOfferPayment
  MaxOffers,       \* bound on the number of offers created
  MAX_PROVIDERS,
  MAX_ACTIVE_OFFERS_PER_PROVIDER,
  MAX_BPS,
  MATCH_PRICE_BAND_BPS,
  Calls            \* which of the optional calls the environment makes

ASSUME RegistryAssumption ==
  /\ NoOrg \notin Organizations
  /\ SpaceSizes \subseteq Nat
  /\ Prices \subseteq Nat \ {0}
  /\ OfferTerms \subseteq [minSize : Nat, maxSize : Nat, kinds : SUBSET Kinds]
  /\ MaxOffers \in Nat
  /\ MAX_PROVIDERS \in Nat \ {0}
  /\ MAX_ACTIVE_OFFERS_PER_PROVIDER \in Nat \ {0}
  /\ MAX_BPS \in Nat \ {0}
  /\ MATCH_PRICE_BAND_BPS \in Nat

VARIABLES
  organization,    \* organization of each provider, NoOrg until it is registered
  paused,          \* providers that take no new deals at their own request
  blocked,         \* providers an admin has shut out
  availableBytes,
  committedBytes,  \* bytes of the provider's active deals
  pendingBytes,    \* bytes reserved for the provider's accepted deals
  offers,          \* offers[o] for o in 1..nextOfferId
  nextOfferId,
  assigned         \* <<client, manifest, organization>> of live deals

capacityVars == <<committedBytes, pendingBytes, assigned>>
managementVars == <<organization, paused, blocked, availableBytes, offers, nextOfferId>>
registryVars == <<managementVars, capacityVars>>

OfferIds == 1 .. MaxOffers

\* price 0 stands for a payment entry that is missing or inactive.
Offer == [provider : Providers, active : BOOLEAN, price : Nat, terms : OfferTerms]

RegistryTypeOK ==
  /\ organization \in [Providers -> Organizations \cup {NoOrg}]
  /\ paused \subseteq Providers
  /\ blocked \subseteq Providers
  /\ availableBytes \in [Providers -> Nat]
  /\ committedBytes \in [Providers -> Nat]
  /\ pendingBytes \in [Providers -> Nat]
  /\ nextOfferId \in 0 .. MaxOffers
  /\ offers \in [1 .. nextOfferId -> Offer]
  /\ assigned \subseteq Clients \X Manifests \X Organizations

RegistryInit ==
  /\ organization = [p \in Providers |-> NoOrg]
  /\ paused = {}
  /\ blocked = {}
  /\ availableBytes = [p \in Providers |-> 0]
  /\ committedBytes = [p \in Providers |-> 0]
  /\ pendingBytes = [p \in Providers |-> 0]
  /\ nextOfferId = 0
  /\ offers = [o \in 1 .. 0 |-> 0]
  /\ assigned = {}

-----------------------------------------------------------------------------
(* Reads *)

Registered == {p \in Providers : organization[p] # NoOrg}
ActiveOffers == {o \in 1 .. nextOfferId : offers[o].active}
ActiveOfferCount(p) == Cardinality({o \in ActiveOffers : offers[o].provider = p})

RemainingCapacity(p) ==
  LET used == committedBytes[p] + pendingBytes[p]
  IN  IF availableBytes[p] > used THEN availableBytes[p] - used ELSE 0

SizeInBounds(size, terms) ==
  /\ size >= terms.minSize
  /\ terms.maxSize = 0 \/ size <= terms.maxSize

\* Mutant: assignments are not looked at.
NeverAssigned(client, manifest, p) == FALSE

AlreadyAssigned(client, manifest, p) == <<client, manifest, organization[p]>> \in assigned

\* A request is [client, manifest, size, kind, maxPrice].
Eligible(o, request) ==
  LET offer == offers[o]
      p == offer.provider
  IN  /\ offer.active
      /\ p \notin blocked
      /\ p \notin paused
      /\ ~AlreadyAssigned(request.client, request.manifest, p)
      /\ SizeInBounds(request.size, offer.terms)
      /\ request.kind \in offer.terms.kinds
      /\ offer.price # 0
      /\ offer.price <= request.maxPrice
      /\ request.size <= RemainingCapacity(p)

\* Mutant: ties are not broken by the offer id.
IsLeastLoadedOrTied(o, other) ==
  LET load == pendingBytes[offers[o].provider]
      otherLoad == pendingBytes[offers[other].provider]
  IN  \/ load < otherLoad
      \/ load = otherLoad /\ offers[o].price <= offers[other].price

\* Least pending bytes first, then the lower price, then the older offer.
IsLeastLoaded(o, other) ==
  LET load == pendingBytes[offers[o].provider]
      otherLoad == pendingBytes[offers[other].provider]
      price == offers[o].price
      otherPrice == offers[other].price
  IN  \/ load < otherLoad
      \/ load = otherLoad /\ price < otherPrice
      \/ load = otherLoad /\ price = otherPrice /\ o <= other

\* Eligible offers priced within the band above the cheapest eligible one.
InPriceBand(request) ==
  LET eligible == {o \in ActiveOffers : Eligible(o, request)}
  IN  {o \in eligible :
         \A other \in eligible :
           offers[o].price <= (offers[other].price * (MAX_BPS + MATCH_PRICE_BAND_BPS)) \div MAX_BPS}

IsSelected(o, request) ==
  /\ o \in InPriceBand(request)
  /\ \A other \in InPriceBand(request) : IsLeastLoaded(o, other)

-----------------------------------------------------------------------------
(* Calls the market makes *)

ReserveSelection(o, request) ==
  LET p == offers[o].provider
  IN  /\ pendingBytes' = [pendingBytes EXCEPT ![p] = @ + request.size]
      /\ assigned' = assigned \cup {<<request.client, request.manifest, organization[p]>>}
      /\ UNCHANGED <<managementVars, committedBytes>>

UpdatePendingReservation(o, client, oldManifest, newManifest, oldSize, newSize) ==
  LET p == offers[o].provider
  IN  /\ AlreadyAssigned(client, oldManifest, p)
      /\ oldSize <= pendingBytes[p]
      /\ oldSize # 0 /\ newSize # 0
      /\ SizeInBounds(newSize, offers[o].terms)
      /\ newManifest # oldManifest => ~AlreadyAssigned(client, newManifest, p)
      /\ newSize > oldSize => newSize - oldSize <= RemainingCapacity(p)
      /\ pendingBytes' = [pendingBytes EXCEPT ![p] = (@ - oldSize) + newSize]
      /\ assigned' = (assigned \ {<<client, oldManifest, organization[p]>>})
                       \cup {<<client, newManifest, organization[p]>>}
      /\ UNCHANGED <<managementVars, committedBytes>>

\* Mutant: a release leaves the manifest assigned.
StayAssigned(client, manifest, p) == assigned' = assigned

Unassign(client, manifest, p) == assigned' = assigned \ {<<client, manifest, organization[p]>>}

\* Mutant: a rejected deal keeps its reservation.
UnassignOnly(p, size, client, manifest) ==
  /\ p \in Registered
  /\ Unassign(client, manifest, p)
  /\ UNCHANGED <<managementVars, pendingBytes, committedBytes>>

ReleasePendingCapacity(p, size, client, manifest) ==
  /\ p \in Registered
  /\ size <= pendingBytes[p]
  /\ pendingBytes' = [pendingBytes EXCEPT ![p] = @ - size]
  /\ Unassign(client, manifest, p)
  /\ UNCHANGED <<managementVars, committedBytes>>

ReleaseCapacity(p, size, client, manifest) ==
  /\ p \in Registered
  /\ size <= committedBytes[p]
  /\ committedBytes' = [committedBytes EXCEPT ![p] = @ - size]
  /\ Unassign(client, manifest, p)
  /\ UNCHANGED <<managementVars, pendingBytes>>

\* Mutants: no availability check; the reservation stays; the bytes committed
\* are released instead of the bytes reserved.
AlwaysFits(p, actual) == TRUE
ReservationKept(p, estimated) == pendingBytes[p]
CommitReleasingActual(p, estimated, actual) ==
  /\ p \in Registered
  /\ committedBytes[p] + actual <= availableBytes[p]
  /\ pendingBytes' = [pendingBytes EXCEPT ![p] = @ - actual]
  /\ committedBytes' = [committedBytes EXCEPT ![p] = @ + actual]
  /\ UNCHANGED <<managementVars, assigned>>

\* Pending bytes are released down to zero at most; a commit may exceed the
\* reservation it replaces, and is refused only above the available bytes.
FitsAvailable(p, actual) == committedBytes[p] + actual <= availableBytes[p]

PendingAfter(p, estimated) ==
  IF estimated <= pendingBytes[p] THEN pendingBytes[p] - estimated ELSE 0

CommitCapacity(p, estimated, actual) ==
  /\ p \in Registered
  /\ FitsAvailable(p, actual)
  /\ pendingBytes' = [pendingBytes EXCEPT ![p] = PendingAfter(p, estimated)]
  /\ committedBytes' = [committedBytes EXCEPT ![p] = @ + actual]
  /\ UNCHANGED <<managementVars, assigned>>

-----------------------------------------------------------------------------
(* Management calls *)

RegisterProviderFor(p, org, space) ==
  /\ p \notin Registered
  /\ Cardinality(Registered) < MAX_PROVIDERS
  /\ organization' = [organization EXCEPT ![p] = org]
  /\ availableBytes' = [availableBytes EXCEPT ![p] = space]
  /\ UNCHANGED <<paused, blocked, offers, nextOfferId, capacityVars>>

PauseProvider(p) ==
  /\ p \in Registered \ blocked
  /\ paused' = paused \cup {p}
  /\ UNCHANGED <<organization, blocked, availableBytes, offers, nextOfferId, capacityVars>>

UnpauseProvider(p) ==
  /\ p \in Registered \ blocked
  /\ paused' = paused \ {p}
  /\ UNCHANGED <<organization, blocked, availableBytes, offers, nextOfferId, capacityVars>>

BlockProvider(p) ==
  /\ p \in Registered
  /\ blocked' = blocked \cup {p}
  /\ UNCHANGED <<organization, paused, availableBytes, offers, nextOfferId, capacityVars>>

UnblockProvider(p) ==
  /\ p \in Registered
  /\ blocked' = blocked \ {p}
  /\ UNCHANGED <<organization, paused, availableBytes, offers, nextOfferId, capacityVars>>

UpdateAvailableSpace(p, space) ==
  /\ p \in Registered \ blocked
  /\ space >= committedBytes[p] + pendingBytes[p]
  /\ availableBytes' = [availableBytes EXCEPT ![p] = space]
  /\ UNCHANGED <<organization, paused, blocked, offers, nextOfferId, capacityVars>>

\* An offer without an active payment, none or only inactive ones, has price 0.
CreateOffer(p, terms, price) ==
  /\ nextOfferId < MaxOffers
  /\ p \in Registered \ (blocked \cup paused)
  /\ terms.maxSize # 0 => terms.minSize <= terms.maxSize
  /\ ActiveOfferCount(p) < MAX_ACTIVE_OFFERS_PER_PROVIDER
  /\ nextOfferId' = nextOfferId + 1
  /\ offers' = [o \in 1 .. nextOfferId' |->
                  IF o = nextOfferId'
                    THEN [provider |-> p, active |-> TRUE, price |-> price, terms |-> terms]
                    ELSE offers[o]]
  /\ UNCHANGED <<organization, paused, blocked, availableBytes, capacityVars>>

SetOfferActive(o, active) ==
  LET p == offers[o].provider
  IN  /\ p \notin blocked
      /\ offers[o].active # active
      /\ active => p \notin paused /\ ActiveOfferCount(p) < MAX_ACTIVE_OFFERS_PER_PROVIDER
      /\ offers' = [offers EXCEPT ![o].active = active]
      /\ UNCHANGED <<organization, paused, blocked, availableBytes, nextOfferId, capacityVars>>

\* price 0: the payment entry is set inactive.
SetOfferPayment(o, price) ==
  /\ offers[o].provider \notin blocked
  /\ offers' = [offers EXCEPT ![o].price = price]
  /\ UNCHANGED <<organization, paused, blocked, availableBytes, nextOfferId, capacityVars>>

RegistryNext ==
  \/ \E p \in Providers :
       \/ \E org \in Organizations, space \in SpaceSizes : RegisterProviderFor(p, org, space)
       \/ "pause" \in Calls /\ PauseProvider(p)
       \/ "pause" \in Calls /\ UnpauseProvider(p)
       \/ "block" \in Calls /\ BlockProvider(p)
       \/ "block" \in Calls /\ UnblockProvider(p)
       \/ "space" \in Calls /\ \E space \in SpaceSizes : UpdateAvailableSpace(p, space)
       \/ \E terms \in OfferTerms, price \in Prices \cup {0} : CreateOffer(p, terms, price)
  \/ \E o \in 1 .. nextOfferId :
       \/ "offer" \in Calls /\ \E active \in BOOLEAN : SetOfferActive(o, active)
       \/ "price" \in Calls /\ \E price \in Prices \cup {0} : SetOfferPayment(o, price)
=============================================================================
