---------------------------- MODULE PoRepMarket -----------------------------
(***************************************************************************)
(* The deal market (src/PoRepMarket.sol) composed with the provider        *)
(* registry, the per-deal validators and FilecoinPay.  A transaction that  *)
(* reverts changes nothing, so each external function of the market is one *)
(* action whose guard is the conjunction of everything that may revert in  *)
(* it, the calls it makes into the other contracts included.               *)
(*                                                                         *)
(* The storage evidence adapter is seen here through its interface         *)
(* (src/interfaces/IStorageEvidenceAdapter.sol): evidence is submitted,    *)
(* becomes complete with a number of covered bytes, and completed refresh  *)
(* sweeps replace a snapshot of the bytes found active.  The SLI oracle    *)
(* and scorer are seen through what settlement asks of them: is the score  *)
(* 100, and is there an attestation recent enough to compute it.           *)
(*                                                                         *)
(* Epochs are block numbers.  Time constants are parameters so that small  *)
(* instances keep the order grace < month <= duration of the real ones.    *)
(***************************************************************************)
EXTENDS SPRegistry, Validator, Functions

CONSTANTS
  EPOCHS_IN_MONTH,
  EVIDENCE_REFRESH_GRACE_EPOCHS,
  EPOCHS_IN_YEAR,
  SECTOR_SIZE,
  DurationEpochs,   \* duration of each kind of request
  Requests,         \* requests clients and admins make
  MinIntervals,     \* values passed to setMinEpochsBetweenSettlements
  CoveredSizes,     \* bytes an adapter may find covered by complete evidence
  ExpirationDelays, \* time from submission or refresh to evidence expiration
  SweepLag,         \* bound on the time a refresh sweep takes
  WithoutSLIs,      \* offer terms that promise no SLI at all
  MaxEpoch          \* bound on the clock

ASSUME MarketAssumption ==
  /\ EPOCHS_IN_MONTH \in Nat \ {0}
  /\ EVIDENCE_REFRESH_GRACE_EPOCHS \in Nat
  /\ EPOCHS_IN_YEAR \in Nat \ {0}
  /\ SECTOR_SIZE \in Nat \ {0}
  /\ DurationEpochs \in [Kinds -> Nat \ {0}]
  /\ Requests \subseteq [client : Clients, manifest : Manifests, size : Nat \ {0},
                         kind : Kinds, maxPrice : Nat]
  /\ MinIntervals \subseteq 1 .. EPOCHS_IN_YEAR
  /\ CoveredSizes \subseteq Nat \ {0}
  /\ ExpirationDelays \subseteq Nat
  /\ SweepLag \in Nat
  /\ MaxEpoch \in Nat

VARIABLES
  now,              \* block number
  dealCount,
  terms,            \* terms[d] for d in 1..dealCount
  dealState,
  dealCommitted,    \* committed bytes of a deal, 0 before activation
  serviceStart, serviceEnd, earlyTermination,
  minInterval, lastSettled,
  evidenceSubmitted, \* hasSubmittedEvidence: the manifest is locked
  evidenceCovered,   \* bytes activation reports, 0 while evidence is incomplete
  evidenceExpiration,
  activeCovered,     \* snapshot of the last completed refresh: bytes ...
  refreshedAt,       \* ... and epoch
  attestedAt,        \* epoch of the oracle's last attestation, 0 if none
  slisMet            \* whether that attestation meets every promised SLI

dealVars == <<dealCount, terms, dealState, dealCommitted>>
serviceVars == <<serviceStart, serviceEnd, earlyTermination>>
settlementVars == <<minInterval, lastSettled>>
evidenceVars == <<evidenceSubmitted, evidenceCovered, evidenceExpiration, activeCovered, refreshedAt>>
oracleVars == <<attestedAt, slisMet>>
marketVars == <<dealVars, serviceVars, settlementVars>>
contractVars == <<registryVars, validatorVars, railVars, marketVars, evidenceVars, oracleVars>>
vars == <<now, contractVars>>

DealStates == {"NONE", "ACCEPTED", "ACTIVE", "FINALIZED", "REJECTED", "EXPIRED", "EARLY_TERMINATED"}
TerminalStates == {"FINALIZED", "REJECTED", "EXPIRED", "EARLY_TERMINATED"}

DealTerms == [client : Clients, provider : Providers, offer : OfferIds, kind : Kinds,
              price : Nat \ {0}, hasSLIs : BOOLEAN, manifest : Manifests, reserved : Nat \ {0}]

MarketTypeOK ==
  /\ dealCount \in 0 .. MaxDeals
  /\ terms \in [1 .. dealCount -> DealTerms]
  /\ dealState \in [Deals -> DealStates]
  /\ dealCommitted \in [Deals -> Nat]
  /\ serviceStart \in [Deals -> Nat]
  /\ serviceEnd \in [Deals -> Nat]
  /\ earlyTermination \in [Deals -> Nat]
  /\ minInterval \in [Deals -> Nat \ {0}]
  /\ lastSettled \in [Deals -> Nat]

EvidenceTypeOK ==
  /\ evidenceSubmitted \in [Deals -> BOOLEAN]
  /\ evidenceCovered \in [Deals -> Nat]
  /\ evidenceExpiration \in [Deals -> Nat]
  /\ activeCovered \in [Deals -> Nat]
  /\ refreshedAt \in [Deals -> Nat]
  /\ attestedAt \in [Deals -> Nat]
  /\ slisMet \in [Deals -> BOOLEAN]

TypeOK ==
  /\ now \in Nat \ {0}
  /\ RegistryTypeOK
  /\ ValidatorTypeOK
  /\ MarketTypeOK
  /\ EvidenceTypeOK

Init ==
  /\ RegistryInit
  /\ ValidatorInit
  /\ now = 1
  /\ dealCount = 0
  /\ terms = [d \in 1 .. 0 |-> 0]
  /\ dealState = [d \in Deals |-> "NONE"]
  /\ dealCommitted = [d \in Deals |-> 0]
  /\ serviceStart = [d \in Deals |-> 0]
  /\ serviceEnd = [d \in Deals |-> 0]
  /\ earlyTermination = [d \in Deals |-> 0]
  /\ minInterval = [d \in Deals |-> EPOCHS_IN_MONTH]
  /\ lastSettled = [d \in Deals |-> 0]
  /\ evidenceSubmitted = [d \in Deals |-> FALSE]
  /\ evidenceCovered = [d \in Deals |-> 0]
  /\ evidenceExpiration = [d \in Deals |-> 0]
  /\ activeCovered = [d \in Deals |-> 0]
  /\ refreshedAt = [d \in Deals |-> 0]
  /\ attestedAt = [d \in Deals |-> 0]
  /\ slisMet = [d \in Deals |-> FALSE]

Existing == 1 .. dealCount
Live(d) == dealState[d] \in {"ACCEPTED", "ACTIVE"}
Started(d) == serviceEnd[d] # 0

ChangeDealState(d, state) == dealState' = [dealState EXCEPT ![d] = state]

-----------------------------------------------------------------------------
(* Proposal *)

CreateDeal(o, request) ==
  LET d == dealCount + 1
  IN  /\ dealCount < MaxDeals
      /\ dealCount' = d
      /\ terms' = [e \in 1 .. d |->
                     IF e = d
                       THEN [client |-> request.client, provider |-> offers[o].provider,
                             offer |-> o, kind |-> request.kind, price |-> offers[o].price,
                             hasSLIs |-> offers[o].terms \notin WithoutSLIs,
                             manifest |-> request.manifest, reserved |-> request.size]
                       ELSE terms[e]]
      /\ ChangeDealState(d, "ACCEPTED")
      /\ ReserveSelection(o, request)
      /\ UNCHANGED <<now, dealCommitted, serviceVars, settlementVars, validatorVars, railVars,
                     evidenceVars, oracleVars>>

ProposeDeal(request) ==
  \E o \in 1 .. nextOfferId :
    /\ IsSelected(o, request)
    /\ CreateDeal(o, request)

\* An admin picks the offer; it must be eligible but need not be the best one.
ProposeDealWithSpecificOffer(o, request) ==
  /\ Eligible(o, request)
  /\ CreateDeal(o, request)

-----------------------------------------------------------------------------
(* Validator and payment rail *)

\* ValidatorFactory.create, whose initializer calls updateValidator.
CreateValidator(d) ==
  /\ dealState[d] = "ACCEPTED"
  /\ DeployValidator(d)
  /\ UNCHANGED <<now, registryVars, marketVars, evidenceVars, oracleVars>>

\* Validator.createRail, which calls updateRailId.
CreateRail(d) ==
  /\ dealState[d] = "ACCEPTED"
  /\ PrepareRail(d, now)
  /\ UNCHANGED <<now, registryVars, marketVars, evidenceVars, oracleVars>>

\* Another FilecoinPay operator creates a rail that names this deal's validator.
CreateForeignRail(d) ==
  /\ d \in validators
  /\ CreatePayRail(d, 1, now)
  /\ UNCHANGED <<now, registryVars, validatorVars, marketVars, evidenceVars, oracleVars>>

-----------------------------------------------------------------------------
(* Evidence *)

\* Evidence is added to an accepted deal until it is complete.
SubmitEvidence(d) ==
  /\ dealState[d] = "ACCEPTED"
  /\ evidenceCovered[d] = 0
  /\ evidenceSubmitted' = [evidenceSubmitted EXCEPT ![d] = TRUE]
  /\ \E covered \in CoveredSizes \cup {0} :
       evidenceCovered' = [evidenceCovered EXCEPT ![d] = covered]
  /\ \E expiration \in {evidenceExpiration[d]} \cup {now + delay : delay \in ExpirationDelays} :
       evidenceExpiration' = [evidenceExpiration EXCEPT ![d] = expiration]
  /\ UNCHANGED <<now, registryVars, validatorVars, railVars, marketVars, oracleVars,
                 activeCovered, refreshedAt>>

CeilDiv(a, b) == IF a = 0 THEN 0 ELSE ((a - 1) \div b) + 1
BilledUnits(bytes) == CeilDiv(bytes, SECTOR_SIZE)
\* Mutant: the rate is rounded down.
AmountPerEpochRoundedDown(price, units) == (price * units) \div EPOCHS_IN_MONTH

AmountPerEpoch(price, units) == CeilDiv(price * units, EPOCHS_IN_MONTH)

StartPreparedPayment(d, covered) ==
  /\ railId[d] # 0
  /\ railStatus[d] = "PREPARED"
  /\ serviceStart' = [serviceStart EXCEPT ![d] = now]
  /\ serviceEnd' = [serviceEnd EXCEPT ![d] = now + DurationEpochs[terms[d].kind]]
  /\ ModifyRailPayment(d, AmountPerEpoch(terms[d].price, BilledUnits(covered)), now)

\* Accepted evidence commits capacity and starts the prepared payment.
ActivateEvidence(d) ==
  LET covered == evidenceCovered[d]
  IN  /\ dealState[d] = "ACCEPTED"
      /\ covered # 0
      /\ CommitCapacity(terms[d].provider, terms[d].reserved, covered)
      /\ dealCommitted' = [dealCommitted EXCEPT ![d] = covered]
      /\ ChangeDealState(d, "ACTIVE")
      /\ StartPreparedPayment(d, covered)
      /\ UNCHANGED <<now, dealCount, terms, earlyTermination, settlementVars, evidenceVars, oracleVars>>

\* Before activation, during service, and for what a termination cut short.
RefreshAllowed(d) ==
  /\ \/ Live(d)
     \/ dealState[d] = "EARLY_TERMINATED" /\ Started(d)
  /\ Started(d) => now < serviceEnd[d]

\* A sweep completes with the snapshot it found, dated no earlier than the
\* snapshot it replaces, and resets the expiration if it found a loss.  Sweeps
\* that stay partial change nothing seen here.
RefreshEvidenceStatus(d) ==
  /\ RefreshAllowed(d)
  /\ evidenceCovered[d] # 0
  /\ \E bytes \in {evidenceCovered[d], evidenceCovered[d] - 1} :
       activeCovered' = [activeCovered EXCEPT ![d] = bytes]
  /\ \E lag \in 0 .. SweepLag :
       /\ refreshedAt[d] + lag <= now
       /\ refreshedAt' = [refreshedAt EXCEPT ![d] = now - lag]
  /\ \E expiration \in {0, evidenceExpiration[d]} \cup {now + delay : delay \in ExpirationDelays} :
       evidenceExpiration' = [evidenceExpiration EXCEPT ![d] = expiration]
  /\ UNCHANGED <<now, registryVars, validatorVars, railVars, marketVars, oracleVars,
                 evidenceSubmitted, evidenceCovered>>

-----------------------------------------------------------------------------
(* Closing a deal *)

RejectAcceptedDeal(d) ==
  /\ dealState[d] = "ACCEPTED"
  /\ railId[d] = 0
  /\ ReleasePendingCapacity(terms[d].provider, terms[d].reserved, terms[d].client, terms[d].manifest)
  /\ ChangeDealState(d, "REJECTED")
  /\ UNCHANGED <<now, dealCount, terms, dealCommitted, serviceVars, settlementVars,
                 validatorVars, railVars, evidenceVars, oracleVars>>

\* Mutants: termination ends an epoch before service does, finalization starts
\* an epoch later, and deals in any state expire.
BeforeLastEpoch(d) == Started(d) => now < serviceEnd[d]
ServiceLongOver(d) == serviceEnd[d] + 1 < now
EvidenceExpired(d) == evidenceExpiration[d] # 0 /\ evidenceExpiration[d] < now

\* Together these leave no epoch in which an active deal cannot be closed.
NotAfterService(d) == Started(d) => now <= serviceEnd[d]
ServiceOver(d) == serviceEnd[d] < now

CanExpire(d) == dealState[d] = "ACCEPTED" /\ EvidenceExpired(d)

\* EARLY_TERMINATED is requested whatever the deal's state: the validator's
\* own record of the rail decides whether the call goes through.
TerminateDeal(d, state) ==
  LET t == terms[d]
  IN  /\ d \in validators
      /\ state = "EXPIRED" => CanExpire(d)
      /\ NotAfterService(d)
      /\ ChangeDealState(d, state)
      /\ IF dealState[d] = "ACCEPTED"
           THEN ReleasePendingCapacity(t.provider, t.reserved, t.client, t.manifest)
           ELSE ReleaseCapacity(t.provider, dealCommitted[d], t.client, t.manifest)
      /\ EarlyRailTermination(d, now)
      /\ earlyTermination' = [earlyTermination EXCEPT ![d] = now]
      /\ UNCHANGED <<now, dealCount, terms, dealCommitted, serviceStart, serviceEnd,
                     settlementVars, evidenceVars, oracleVars>>

FinalizeDeal(d) ==
  LET t == terms[d]
  IN  /\ dealState[d] = "ACTIVE"
      /\ d \in validators
      /\ ServiceOver(d)
      /\ FinalizeRail(d, now)
      /\ ChangeDealState(d, "FINALIZED")
      /\ ReleaseCapacity(t.provider, dealCommitted[d], t.client, t.manifest)
      /\ UNCHANGED <<now, dealCount, terms, dealCommitted, serviceVars, settlementVars,
                     evidenceVars, oracleVars>>

-----------------------------------------------------------------------------
(* Admin updates and the oracle *)

UpdateManifestLocation(d, manifest, size) ==
  LET t == terms[d]
  IN  /\ dealState[d] = "ACCEPTED"
      /\ ~evidenceSubmitted[d]
      /\ UpdatePendingReservation(t.offer, t.client, t.manifest, manifest, t.reserved, size)
      /\ terms' = [terms EXCEPT ![d].manifest = manifest, ![d].reserved = size]
      /\ UNCHANGED <<now, dealCount, dealState, dealCommitted, serviceVars, settlementVars,
                     validatorVars, railVars, evidenceVars, oracleVars>>

SetMinEpochsBetweenSettlements(d, epochs) ==
  /\ minInterval' = [minInterval EXCEPT ![d] = epochs]
  /\ UNCHANGED <<now, registryVars, validatorVars, railVars, dealVars, serviceVars, lastSettled,
                 evidenceVars, oracleVars>>

\* The oracle attests any deal id, one that is not in use yet included.
SetSLI(d, met) ==
  /\ attestedAt' = [attestedAt EXCEPT ![d] = now]
  /\ slisMet' = [slisMet EXCEPT ![d] = met]
  /\ UNCHANGED <<now, registryVars, validatorVars, railVars, marketVars, evidenceVars>>

-----------------------------------------------------------------------------
(* Settlement *)

ServiceRunning(d) == now < serviceEnd[d]

\* Cumulative payment earned from the start of service to an epoch.
DueAmount(d, epoch) ==
  IF epoch <= serviceStart[d]
    THEN 0
    ELSE (terms[d].price * BilledUnits(dealCommitted[d]) * (epoch - serviceStart[d]))
           \div EPOCHS_IN_MONTH

\* Mutant: windows are capped at the service end of a terminated deal too.
PayableToServiceEnd(d) == serviceEnd[d]

\* Last epoch of a deal that can earn payment.
LastPayableEpoch(d) == IF earlyTermination[d] # 0 THEN earlyTermination[d] ELSE serviceEnd[d]

\* Mutant: a terminated deal goes on earning until its service end.
NothingLeftAfterService(d, from) == from >= serviceEnd[d]

NothingLeftToEarn(d, from) ==
  \/ from >= serviceEnd[d]
  \/ earlyTermination[d] # 0 /\ from >= earlyTermination[d]

EffectiveTo(d, to) == IF to > LastPayableEpoch(d) THEN LastPayableEpoch(d) ELSE to

\* Mutant: the last window of a deal must be as long as the others.
LastWindowTooEarly(d, from, to) ==
  /\ earlyTermination[d] = 0
  /\ dealState[d] = "ACTIVE"
  /\ to < from + minInterval[d]

SettlementTooEarly(d, from, to) ==
  /\ earlyTermination[d] = 0
  /\ dealState[d] = "ACTIVE"
  /\ to < serviceEnd[d]
  /\ to < from + minInterval[d]

\* Mutant: evidence is as fresh as it was when the window began.
StaleWhenWindowBegan(d, upto) ==
  refreshedAt[d] + EVIDENCE_REFRESH_GRACE_EPOCHS < railCursor[railId[d]]

EvidenceStale(d, upto) == refreshedAt[d] + EVIDENCE_REFRESH_GRACE_EPOCHS < upto

\* Mutant: stale evidence makes settlement revert after service end too.
RefreshWindowNeverCloses(d) == dealState[d] \in {"ACTIVE", "EARLY_TERMINATED"}

RefreshWindowOpen(d) == dealState[d] \in {"ACTIVE", "EARLY_TERMINATED"} /\ ServiceRunning(d)

\* A running deal needs an attestation at most a month old.
AttestationMissing(d) ==
  /\ dealState[d] = "ACTIVE"
  /\ ServiceRunning(d)
  /\ attestedAt[d] = 0 \/ now - attestedAt[d] > EPOCHS_IN_MONTH

FullScore(d) == terms[d].hasSLIs => slisMet[d]

SettlementReverts(d, from, to) ==
  \/ ~Started(d)
  \/ /\ ~NothingLeftToEarn(d, from)
     /\ \/ SettlementTooEarly(d, from, to)
        \/ EvidenceStale(d, EffectiveTo(d, to)) /\ RefreshWindowOpen(d)
        \/ AttestationMissing(d)

SettlementPays(d, from, to) ==
  /\ ~NothingLeftToEarn(d, from)
  /\ FullScore(d)
  /\ ~EvidenceStale(d, EffectiveTo(d, to))
  /\ activeCovered[d] = dealCommitted[d]

\* Mutant: the window is paid beyond its payable end.
SettlementAmountUncapped(d, from, to) ==
  IF SettlementPays(d, from, to) THEN DueAmount(d, to) - DueAmount(d, from) ELSE 0

\* A rejected window earns nothing and moves the cursor to its payable end;
\* a paid one, or one with nothing left to earn, moves it as far as asked.
SettlementAmount(d, from, to) ==
  IF SettlementPays(d, from, to)
    THEN DueAmount(d, EffectiveTo(d, to)) - DueAmount(d, from)
    ELSE 0

SettleUpto(d, from, to) ==
  IF SettlementPays(d, from, to) \/ NothingLeftToEarn(d, from) THEN to ELSE EffectiveTo(d, to)

\* FilecoinPay.settleRail -> Validator.validatePayment -> validateDealSettlement.
SettleRail(r, to) ==
  LET d == railDeal[r]
      from == railCursor[r]
  IN  /\ CanSettle(r, to, now)
      /\ IsRailIdValid(r)
      /\ ~SettlementReverts(d, from, to)
      /\ AdvancePayRail(r, SettleUpto(d, from, to), SettlementAmount(d, from, to))
      /\ lastSettled' = IF SettlementPays(d, from, to)
                          THEN [lastSettled EXCEPT ![d] = SettleUpto(d, from, to)]
                          ELSE lastSettled
      /\ UNCHANGED <<now, registryVars, validatorVars, dealVars, serviceVars, minInterval,
                     evidenceVars, oracleVars>>

-----------------------------------------------------------------------------

ManageRegistry ==
  /\ RegistryNext
  /\ UNCHANGED <<now, validatorVars, railVars, marketVars, evidenceVars, oracleVars>>

Tick ==
  /\ now < MaxEpoch
  /\ now' = now + 1
  /\ UNCHANGED contractVars

DealStep(d) ==
  \/ "validator" \in Calls /\ CreateValidator(d)
  \/ CreateRail(d)
  \/ "foreign" \in Calls /\ CreateForeignRail(d)
  \/ "evidence" \in Calls /\ SubmitEvidence(d)
  \/ ActivateEvidence(d)
  \/ "refresh" \in Calls /\ RefreshEvidenceStatus(d)
  \/ "reject" \in Calls /\ RejectAcceptedDeal(d)
  \/ \E state \in {"EXPIRED", "EARLY_TERMINATED"} : TerminateDeal(d, state)
  \/ FinalizeDeal(d)
  \/ "manifest" \in Calls /\ \E manifest \in Manifests, request \in Requests :
       UpdateManifestLocation(d, manifest, request.size)
  \/ \E epochs \in MinIntervals : SetMinEpochsBetweenSettlements(d, epochs)

Next ==
  \/ Tick
  \/ ManageRegistry
  \/ \E request \in Requests :
       \/ ProposeDeal(request)
       \/ "specific" \in Calls /\ \E o \in 1 .. nextOfferId : ProposeDealWithSpecificOffer(o, request)
  \/ \E d \in Existing : DealStep(d)
  \/ "attest" \in Calls /\ \E d \in Deals, met \in BOOLEAN : SetSLI(d, met)
  \/ "settle" \in Calls /\ \E r \in 1 .. railCount, to \in 1 .. now : SettleRail(r, to)

Spec == Init /\ [][Next]_vars

\* Everything a rail owes so far.
LatestEpoch(r) == IF railEnd[r] # 0 /\ railEnd[r] < now THEN railEnd[r] ELSE now

\* Blocks keep coming, and whoever a rail pays keeps asking to settle all of it
\* (settleRail is open to anybody).  Nobody is assumed to refresh evidence, to
\* attest, or to close deals.
FairSpec ==
  /\ Spec
  /\ WF_vars(Tick)
  /\ \A r \in Rails : WF_vars("settle" \in Calls /\ SettleRail(r, LatestEpoch(r)))

-----------------------------------------------------------------------------
(* Deals and rails *)

Consistent(d) ==
  /\ railStatus[d] = "ACTIVE" <=> dealState[d] = "ACTIVE"
  /\ railStatus[d] = "PREPARED" => dealState[d] = "ACCEPTED"
  /\ railStatus[d] = "TERMINATED" <=> dealState[d] \in {"FINALIZED", "EXPIRED", "EARLY_TERMINATED"}
  /\ railStatus[d] = "NONE" <=> railId[d] = 0
  /\ railId[d] # 0 => d \in validators /\ railId[d] <= railCount /\ railDeal[railId[d]] = d
  /\ dealState[d] \in {"ACTIVE", "FINALIZED"} => Started(d)
  /\ dealState[d] \in {"NONE", "ACCEPTED", "REJECTED", "EXPIRED"} => ~Started(d)
  /\ Started(d) => dealCommitted[d] # 0 /\ serviceStart[d] < serviceEnd[d]
  /\ earlyTermination[d] # 0 <=> dealState[d] \in {"EXPIRED", "EARLY_TERMINATED"}
  /\ earlyTermination[d] # 0 /\ Started(d) => earlyTermination[d] <= serviceEnd[d]

\* The market's deal state, the validator's rail status, the rail id and the
\* service window are kept in different places and always agree: a rail is
\* prepared only for an accepted deal, active exactly while its deal is, and
\* terminated with it; a rejected deal never had a rail; the service window
\* exists exactly for deals that were activated.
DealRailConsistent == \A d \in Deals : Consistent(d)

TerminalStaysClosed(d) ==
  dealState[d] \in TerminalStates =>
    /\ dealState'[d] = dealState[d]
    /\ serviceEnd'[d] = serviceEnd[d]
    /\ earlyTermination'[d] = earlyTermination[d]

\* A closed deal stays as it was closed: no later call changes its state, its
\* service window or the epoch of its termination.  terminateDeal itself does
\* not look at the state of the deal it terminates early.
TerminalIsFinal == [][\A d \in Deals : TerminalStaysClosed(d)]_vars

\* Every live deal can be closed now: an accepted deal without a rail can be
\* rejected, one with a rail terminated; an active deal can be terminated up
\* to its service end and finalized after it.  A refused release of capacity
\* or a gap between the two would strand the deal and its capacity.
LiveDealCanBeClosed ==
  \A d \in Existing : Live(d) =>
    \/ ENABLED RejectAcceptedDeal(d)
    \/ ENABLED TerminateDeal(d, "EARLY_TERMINATED")
    \/ ENABLED FinalizeDeal(d)

-----------------------------------------------------------------------------
(* Registry accounting *)

DealKey(d) == <<terms[d].client, terms[d].manifest, organization[terms[d].provider]>>

\* A client has a manifest with an organization in one live deal at most, and
\* the registry's table holds exactly the manifests of live deals: neither an
\* update of the manifest nor any way of closing a deal leaves an entry behind
\* or frees the entry of another deal.
ManifestExclusive ==
  /\ assigned = {DealKey(d) : d \in {e \in Existing : Live(e)}}
  /\ \A d, e \in Existing : Live(d) /\ Live(e) /\ DealKey(d) = DealKey(e) => d = e

DealsIn(p, state) == {d \in Existing : terms[d].provider = p /\ dealState[d] = state}
Reserved == [d \in Existing |-> terms[d].reserved]

\* Pending bytes are the reservations of accepted deals and committed bytes
\* those of active deals, for every provider: nothing is leaked or released
\* twice over any sequence of proposals, updates, commits and closures.
CapacityConserved ==
  \A p \in Providers :
    /\ pendingBytes[p] = SumFunctionOnSet(Reserved, DealsIn(p, "ACCEPTED"))
    /\ committedBytes[p] = SumFunctionOnSet(dealCommitted, DealsIn(p, "ACTIVE"))

\* Matching is decided: when some offer is eligible exactly one is selected,
\* whatever the loads, prices and the rounding of the price band.
SelectionUnique ==
  \A request \in Requests :
    (\E o \in ActiveOffers : Eligible(o, request)) =>
      \E o \in ActiveOffers :
        {e \in ActiveOffers : IsSelected(e, request)} = {o}

\* A provider never has more bytes committed than it makes available, although
\* availability may shrink and a commit may exceed its reservation.
CommittedWithinAvailable ==
  \A p \in Providers : committedBytes[p] <= availableBytes[p]

-----------------------------------------------------------------------------
(* Settlement *)

RailsOf(d) == {r \in 1 .. railCount : railDeal[r] = d}

\* Whatever rails name a deal's validator and however its windows are split,
\* capped, rejected and retried, the total paid never exceeds what the service
\* delivered up to the settled epoch, its end and its termination is worth.
NeverOverpaid ==
  \A d \in Existing : RailsOf(d) # {} =>
    SumFunctionOnSet(railPaid, RailsOf(d)) <=
      IF Started(d) /\ railId[d] # 0
        THEN DueAmount(d, EffectiveTo(d, railCursor[railId[d]]))
        ELSE 0

\* FilecoinPay accepts every decision: the cursor moves forward, not beyond
\* the epoch asked for, and the amount is within the rail's rate.  The rate is
\* rounded up per epoch while amounts are rounded down cumulatively.
DecisionAccepted ==
  \A r \in 1 .. railCount : \A to \in 1 .. now :
    LET d == railDeal[r]
        from == railCursor[r]
        upto == SettleUpto(d, from, to)
    IN  CanSettle(r, to, now) /\ IsRailIdValid(r) /\ ~SettlementReverts(d, from, to) =>
          /\ from < upto /\ upto <= to
          /\ SettlementAmount(d, from, to) \in 0 .. (railRate[r] * (upto - from))

\* Once service has ended nothing makes the settlement of everything a rail
\* still owes revert: neither stale evidence, nor a missing attestation, nor
\* the minimum interval can lock the remainder of a rail.
RailClosable ==
  \A d \in Existing : Started(d) /\ ~ServiceRunning(d) =>
    LET r == railId[d]
    IN  railCursor[r] < LatestEpoch(r) => ~SettlementReverts(d, railCursor[r], LatestEpoch(r))

\* The market's record of settlement progress follows the deal's own rail.
LastSettledWithinCursor ==
  \A d \in Existing : lastSettled[d] # 0 =>
    /\ railId[d] # 0
    /\ lastSettled[d] <= railCursor[railId[d]]

\* The rail of a closed deal is settled to its end sooner or later, even if
\* nobody refreshes evidence or attests any more.  (For rails and services
\* that end within the bounded clock.)
RailEventuallySettled ==
  \A d \in Deals :
    /\ railStatus[d] = "TERMINATED"
    /\ Started(d) /\ serviceEnd[d] <= MaxEpoch
    /\ railEnd[railId[d]] <= MaxEpoch
    ~> railId[d] # 0 /\ railCursor[railId[d]] >= railEnd[railId[d]]

-----------------------------------------------------------------------------
(* The agreement between the parties of a deal *)

PaidOver(d) == SumFunctionOnSet(railPaid, RailsOf(d))
MonthlyAmount(d) == IF Started(d) THEN terms[d].price * BilledUnits(dealCommitted[d]) ELSE 0
SettledTo(d) == IF Started(d) THEN EffectiveTo(d, railCursor[railId[d]]) ELSE 0

Agreement(d) == INSTANCE ServiceAgreement WITH
  Month <- EPOCHS_IN_MONTH,
  state <- dealState[d], start <- serviceStart[d], end <- serviceEnd[d], cut <- earlyTermination[d],
  monthly <- MonthlyAmount(d), settled <- SettledTo(d), paid <- PaidOver(d)

\* Every deal keeps the agreement: its one window of service is settled in
\* order, each span is paid in full or not at all, once, by its own rail, and
\* closing the deal from any side stops it, although the state, the window, the
\* rail and its cursor are kept by different contracts and others use them too.
\* (This is Agreement(d)!Spec for each d, in the form TLC evaluates.)
ImplementsAgreement ==
  /\ \A d \in Deals : Agreement(d)!Init
  /\ [][\A d \in Deals : [Agreement(d)!Next]_(Agreement(d)!agreementVars)]_vars

\* README.md:168 says stale evidence makes settlement revert without advancing
\* the settlement cursor.
StaleEvidenceNeverAdvances ==
  [][\A d \in Existing : LET r == railId[d] IN
       Started(d) /\ r # 0 /\ railCursor'[r] # railCursor[r] =>
         \/ NothingLeftToEarn(d, railCursor[r])
         \/ ~EvidenceStale(d, EffectiveTo(d, railCursor'[r]))]_vars
=============================================================================
