# PoRep Market: a TLA+ development

This directory specifies PoRep Market in TLA+: its contracts (`src/src/*.sol`) and
the command line that deploys and upgrades them (`src/script/*.ts`, `*.s.sol`). It
checks them with TLC on small instances, and proves some of their properties
with TLAPS for every value of the constants. It reads next to the code: each
action names the function it models, and `PROJECT.json` gives the lines.

## 1. The system

| component | state it keeps | operations | talks to |
|---|---|---|---|
| `PoRepMarket` | deals: state, terms, service window, capacity, payment, validator and rail ids, evidence adapter, settlement progress | propose, update manifest, set validator/rail, submit/activate/refresh evidence, terminate, finalize, reject, decide settlements | registry, validator, adapter, scorer |
| `SPRegistry` | providers (organization, flags, available/committed/pending bytes), offers, payment tokens, table of manifests placed per client and organization | provider and offer management, matching, reserve/update/commit/release | called by the market |
| `Validator` (over `Operator`), `ValidatorFactory` | one validator per deal: rail id and rail status | create, createRail, modify rate, two terminations, validate a payment | FilecoinPay, market |
| FilecoinPay (external) | rails: rate, cursor, end, amount paid | create, modify, terminate, settle rail | calls the validator back |
| `SectorEvidenceAdapter` | piece placements, sectors, refresh sweep of each deal | receive placements, activate, refresh in batches | market, FVM |
| `DataCapEvidenceAdapter` | allocations, claims, refresh sweep with a termination revision | post allocations, claim batches, refresh, report terminated claims | market, verified registry |
| `SLIOracle`, `SLIScorer` | last attestation of each deal | attest, score | scorer reads oracle, market reads scorer |
| Deployment command line | canonical manifest, journal and evidence of an operation, kept build-infos | deploy, deploy-missing, upgrade, finalize, configure tokens, verify sources | Forge, a node, git, the explorer |
| Deployment Solidity scripts | none | the transactions of a release | run by the command line |
| `AccessManager` and roles, view helpers, rescue scripts | roles; none; none | | |

Contract calls are synchronous: one transaction runs through market, registry,
validator, adapter and FilecoinPay and reverts as a whole. What makes the
system hard is not preemption inside a call but *what several independent
parties' transactions add up to*:

- **State kept in several places.** Deal state (market), rail status
  (validator), rail rate/cursor/end (FilecoinPay), capacity and manifest table
  (registry) and evidence status (adapter) advance "through separate contract
  calls" (`src/README.md`, Important invariants). `terminateDeal` does not even
  look at the deal's state: another contract's rail status decides.
- **Capacity accounting** over estimate/actual differences: a commit replaces a
  reservation by the bytes really covered.
- **Time.** Service end, early termination, rail end, evidence refresh grace,
  evidence expiration, attestation age, minimum settlement interval: all are
  compared with the block number with `<` or `<=`, and a wrong choice leaves an
  epoch where a deal cannot be closed, a window that is paid twice, or a rail
  that can never be settled to its end.
- **Retries.** A settlement that meets stale evidence reverts to be retried; one
  that fails the score or the size moves on for nothing.
- **Outsiders.** Anybody may create a FilecoinPay rail naming a deal's
  validator, settle a rail or refresh evidence. Nobody is obliged to.
- **Rounding.** The rail's rate is rounded up per epoch, the amounts are
  differences of cumulative floors.

The deployment command line is a different kind of system: one process, but a long
one, that writes several files and sends many transactions, and may be killed
between any two of them. What is hard there:

- **Crashes.** The journal, its evidence (build-info and broadcast file), the
  build-info of the release and the manifest are separate files, each written
  atomically, all of them never. A retry must recognise how far the last one came.
- **Half a broadcast.** Forge may fail with any number of transactions sent.
- **Reorganizations.** A receipt may name a block that is gone when the chain is
  final, and the transaction may have another outcome.
- **Stale state.** Sources, manifest and chain are read early and used late, while
  people edit and commit, and a release may be based on a manifest that is not the
  one there is now.

What makes each part correct:

- *PoRepMarket + Validator*: deal, rail and service window agree; a closed deal
  stays closed; every live deal can be closed.
- *SPRegistry*: committed/pending bytes are exactly those of the deals;
  committed never exceeds available; a manifest is placed once per organization;
  selection is decided.
- *Settlement*: never pays more than the service earned; FilecoinPay can accept
  every decision; the remainder of a rail can always be settled once service has
  ended, and eventually is.
- *Evidence adapters*: a published snapshot is one the sectors or claims really
  had within its sweep; a placement or claim is counted once, for one deal; a deal
  expires only when nothing posted for it can be claimed any more.
- *Deployment command line*: the manifest describes what is live and final; it changes
  in one step, to what was recorded before; an operation is never forgotten; the
  build-info needed for the next layout check is always kept; no upgrade breaks a
  storage layout.

The full list of hazards, each with its line and the properties aimed at it, is
in `PROJECT.json`.

## 2. The modules

    SPRegistry    Validator (with FilecoinPay rails)
          \          /
          PoRepMarket  -- implements --> ServiceAgreement
          |    |     \--- MCLifecycle, MCMatching, MCSettlement       (TLC)
          |  StoredService (with EvidenceSnapshots) -- MCStoredService (TLC)
          |         \
       PoRepMarketProofs  -- SettlementProofs                         (TLAPS)

    EvidenceSnapshots  <-- implements --  SectorEvidence -- MCSectorEvidence  (TLC)
                                               |
                                     SectorEvidenceProofs             (TLAPS)

    EvidenceSnapshots  <-- implements --  DataCapEvidence -- MCDataCapEvidence  (TLC)
                                               |
                                         DataCapProofs                (TLAPS)

    ReleaseManifest -- ReleaseChain -- ReleaseScripts
       (files)           (chain)      (what is sent)  \
    ReleaseLog  <-------- implements ------------- Deployment -- MCDeployment  (TLC)
                                                       |
                                      DeploymentProofs -- LayoutProofs -- LiveProofs  (TLAPS)

    SumLemmas  (sums over sets and smallest counterexamples, for all proofs)  (TLAPS)

**`SPRegistry.tla`** Management calls (`registerProviderFor`, `pauseProvider`,
`blockProvider`, `updateAvailableSpace`, `createOffer`, `setOfferActive`,
`setOfferPayment`, ...) are actions. The calls only the market may make
(`_reserveSelection`, `updatePendingReservation`, `commitCapacity`,
`releaseCapacity`, `releasePendingCapacity`) are operators with primed variables
that the market's actions use, because they happen inside its transactions.
Matching is stated declaratively: `Eligible`, `InPriceBand` and `IsSelected`
say what the loops of `_selectProviderForDeal` and `_pickBestOfferId` compute.
The duration, SLI thresholds and payment token of a request are one value, its
*kind*; an offer's terms are a size range and a set of kinds. Price 0 is a
payment entry that is missing or switched off.

**`Validator.tla`** The factory deploys at most one validator per deal, so a
validator is named by its deal. `railId` and `railStatus` are the validator's own
storage; the `rail*` arrays are FilecoinPay's. FilecoinPay's code is not in the
repository; it is modelled from `IFilecoinPayV1.sol`, from `Operator.sol` and from
the validator's comments, and left open where these do not say:
`RailEndOffsets` (a terminated rail may end before the current epoch if the
payer's funds ran out, or after its lockup) and `ZeroRateAsked` (whether the span
before payment started is put to the validator).

**`PoRepMarket.tla`** The market's own storage and every external call that
changes a deal, composed with the two modules above. A call that reverts changes
nothing, so an action's guard is the conjunction of everything that may revert
in it, including in the contracts it calls. The evidence adapter is used through
`IStorageEvidenceAdapter.sol`: evidence is submitted to an accepted deal until
it is complete (`evidenceCovered`), a completed refresh publishes a snapshot
(`activeCovered`, `refreshedAt`) dated at the start of its sweep. The oracle and
scorer are reduced to the epoch of the last attestation and whether it meets
every threshold promised (settlement only asks whether the score is 100). 

| variable | code |
|---|---|
| `organization`, `paused`, `blocked` | `SPRegistry._providers` |
| `availableBytes`, `committedBytes`, `pendingBytes` | `SPRegistry._providerCapacity` |
| `offers`, `nextOfferId` | `_offers`, `_offerTerms`, `_offerPayments`, `_offerSLIs`, the offer counter |
| `assigned` | `_clientManifestDealWithOrganization` |
| `validators` | `ValidatorFactory._instances` and `Deal.validator` (set in the same transaction) |
| `railId` | `Validator.railId` and `Deal.railId` (set in the same transaction) |
| `railStatus` | `Validator.railStatus` |
| `terms`, `dealState`, `dealCommitted` | `_deals`, `_dealData`, `_dealTerms`, `_dealPayments`, `_dealCapacity` |
| `serviceStart`, `serviceEnd`, `earlyTermination`, `minInterval`, `lastSettled` | `_dealService` |
| `evidence*`, `activeCovered`, `refreshedAt` | what the adapter answers |
| `attestedAt`, `slisMet` | `SLIOracle` attestation, seen through `SLIScorer` |

**`ServiceAgreement.tla`** what the market promises the two parties of one deal, without
rails, validators, cursors, grace periods or scores: a window of service that is fixed when
it starts, one closing, which may cut it short, and payments that settle the window from
its start to its end, each span once and in full or not at all. `PoRepMarket` implements it
for each deal (`ImplementsAgreement`) with `state`, `start`, `end`, `cut` `<-` the deal's, `monthly <-`
price times billed units, `settled <-` the cursor of the deal's own rail, capped at what
can earn anything, and `paid <-` the total of *all* rails that name the deal's validator. So a
payment over another rail, a second payment for a span, a payment after a termination, or a
settlement whose cursor and amount disagree would be a step the agreement does not have.

**`StoredService.tla`** the market with adapters that keep their promise. `PoRepMarket` alone
lets an adapter report anything; here each deal's storage may be lost at any epoch (`lostAt`), and what
happens to its evidence and snapshots is, in every step, a step of `EvidenceSnapshots`. The
composition is the conjunction of the two next-state relations, which share the clock, the evidence and
the snapshots (`SnapshotResult` reads the snapshot as `_settlementEvidenceMatches` does).
`SectorEvidence` and `DataCapEvidence` are such adapters, with `Lag` 0 and a month.

**`SectorEvidence.tla`** `SectorEvidenceAdapter.sol` for one deal (deals share only
the flag that disables the adapter). `ProcessPieceNotification` is a miner's
callback, `RefreshEvidenceStatus(n)` one call that checks the next `n` sectors,
`ActivateEvidence` and `DisableAdapter` the other two. The network changes the
sectors between calls: `Seal`, `Extend`, `FaultOrRecover`, `Die` (external). Of the
market there is what it requires before it calls the adapter (`RefreshAllowed`,
the deal's state and service end) and the ways a deal is closed. Placements are
kept as in the code in three records: the receipt (`acceptedPieceCount`,
`acceptedBytes`, `minimumCommitmentEpoch`), the list `sectorNumbers` and the bytes of
each sector; `placed` is the set of accepted entries of `_piecePlacements`. The
seven fields of `DealRefreshState` keep their names. `diedAt` is a history
variable: nothing in the code reads it. A Merkle proof makes a piece its index;
a manifest can be replaced only while nothing is submitted, so it is a constant.

**`DataCapEvidence.tla`** `DataCapEvidenceAdapter.sol` for several deals of one provider,
which share the ids of the verified registry, the reports of terminated claims and
the market's activation padding. `SubmitAllocation` and `SubmitClaimExtension` are
`submitDataCapBatch` with one item, `SubmitEvidenceBatch(d, n)` and
`RefreshEvidenceStatus(d, n)` take the next `n` ids, `ClaimsTerminatedEarly` one id. The
records `deals[d]` and `refreshStatus[d]` have the fields of the structs
`DataCapDealEvidence` and `RefreshStatus`, `dealById` is `_dealByAllocationOrClaimId`,
`claimDeal` is `_claimDealIds`. `BatchCount` caps a batch by what is left. `ClaimedWalk`, a
recursive function, is the loop that walks a batch backwards while it swap-removes from the
list; a deal with nothing left to claim becomes claimed in the same call. `Started` decides whether a call continues the
pending sweep or begins a new one. The registry is external: `registry[id]` goes from
`Free` through `Allocation` and `Claim` to `Gone`, and an id may start as a claim made
elsewhere. `removedAt` and the epochs of `terminatedAt` are history: the code keeps
only whether a claim was reported.

**`EvidenceSnapshots.tla`** what an adapter promises: evidence becomes complete once,
snapshots are published with dates that never go back, a positive one is true at
its date or late by at most `Lag`, a negative one says that something is lost for
good. `SectorEvidence` implements it with `Lag <- 0`, `complete <- HasCompletePieceSet`, `lostAt <- LostAt` (the first
death of a sector of the deal), `result <- completedResult`, `date <- lastCompletedEpoch`:
pending sweeps, placements before the last one, faults and extensions are steps
that are not seen. `DataCapEvidence` implements it for each deal with
`Lag <- EPOCHS_IN_MONTH` and, as the first loss, the first removal or reported
termination of one of its claims: a sweep dates its snapshot when it completes and
does not look again at what earlier calls found, but is given up after a month.

**`ReleaseManifest.tla`** the files of a release and the pure functions from one to the
next: `newPendingDeploy`, `mergeMissingHelpers`, `mergeTransactions`, `applyUpgrades`,
`classifyCanonicalState`, `validateStorage`, `sourceVerificationTargets`; `Filtered`, a recursive
function, keeps the entries of a list that are in a set. The code
compares files by hash; the model compares their contents. A file that does not exist
has the status `absent`.

**`ReleaseChain.tla`** the chain as `deployment-chain.ts` asks for it. The transaction of nonce
`n` is in block `n`, because Forge (`--slow`) waits for each to be mined; an address
is the nonce of the transaction that created the contract. `Reorganize` drops blocks above the
finalized height, `MineAgain` mines their transactions in blocks with another hash and
perhaps another outcome. The state of the contracts (implementation behind a proxy, the
market's adapter, the token) is computed from the transactions that succeeded.

**`ReleaseScripts.tla`** the transactions each Forge script sends and the addresses it
reports. The addresses are computed by Forge's local run and so are known also when
nothing was sent.

**`Deployment.tla`** one command at a time runs through the steps of `deployment.ts`; `cmd.at` is
the step it is about to take, the rest of `cmd` its local variables and what it holds
in its workspace. Each step ends with one file written or one thing waited for.

| variable | code |
|---|---|
| `tree`, `committed` | working tree and last commit of the sources, as the build they compile to |
| `latest`, `head` | `deployments/<network>/latest.json`, and as committed (`ensureCleanCanonicalManifest`) |
| `retained` | `deployments/<network>/build-info` |
| `journal`, `evidence` | `pending-deploy.json`, `pending-upgrade.json`, and the build-info and broadcast kept beside each |
| `cmd` | the running command: `deploy`, `deployMissing`, `upgrade` or `finalize*` in `deployment.ts` |
| `verified` | what the block explorer holds (external) |

`deploy-sector-adapter` is `deployMissing("SectorEvidenceAdapter")` and `deploy-calibnet-adapter` is
`upgrade` of the DataCap adapter with another artifact: they go through the same functions of
`deployment.ts`. `crash` ends a command at any step and loses its workspace; `refuse` is every
error path that a step has; `forgeFails` may or may not leave a broadcast file,
which may hold any number of transactions, none included. `editSources`,
`commitSources`, `commitManifest` and `editManifest` are people.

**`ReleaseLog.tla`** what the command line promises: there is one canonical release and at most one
open operation; an operation is opened with a build, proposes contracts once, and then the
release changes in one step to exactly those. `Deployment` implements it with
`canonical <-` build and contracts of `latest` and `open <-` the journal that is
pending and not yet published. Waiting, retrying, verifying, pruning and closing the journal are
not seen.

## 3. What the runs check

| run | instance | asks | states |
|---|---|---|---|
| `lifecycle` | 2 deals, 1 provider with 3 units, requests of 1 and 3 units, evidence that covers 2 (more than one reserved, less than the other) and expires at once or an epoch later | do capacity, manifests, deal and rail stay consistent over every order of proposal, manifest update, activation, expiry and closing; can every live deal be closed | 2.9 M |
| `matching` | 2 providers in 1 or 2 organizations, 2 offers, 2 prices, 2 clients, space that changes; clients, providers and organizations are symmetric | is selection unique; is a manifest placed once per organization, whichever offers an admin picks; is every reservation accounted for | 1.0 M |
| `settlement` | 1 deal of two 2-epoch months, SLIs that may fail, settlement interval changed to 3, rail end before or after the termination, sweeps dated up to an epoch back, the zero-rate span asked, `FairSpec` | overpayment, acceptability for FilecoinPay, closability of rails; is a terminated rail settled to its end; is every step a step of the agreement | 510 k |
| `stored_service` | the same deal without SLIs or changes of the interval, an adapter with `Lag` 0, a loss at any epoch, another operator's rail on the same validator | what is paid after storage was lost; overpayment, acceptability, the market's settlement record | 510 k |
| `sector_placements` | 2 pieces of sizes 1 and 2, 2 sectors, expirations just before, at and after the required epochs, batches of 1 or 2, `FairSpec` | do the records of placements agree; is a snapshot true at its date; does activation promise only what the sectors keep; is the abstract adapter implemented; does a sweep that has begun complete | 1.6 M |
| `datacap_claims` | 2 deals, 3 ids of 2 bytes, 5 bytes requested, padding 0 or 20 % (2 or 3 ids fit, none or 2 suffice), 3 epochs; ids are symmetric | do ids, claims and bytes add up; is an expired deal's DataCap really out of reach | 280 k |
| `datacap_sweeps` | 1 deal, 2 symmetric ids, 4 epochs with a month of 1 | do snapshots see terminations; is the abstract adapter implemented | 2.5 M |
| `release_faults` | sector adapter added to a deployment, market upgraded; 2 builds, 2 kills, 1 reorganization, transactions that fail, `FairSpec` | is what is published final, complete, recorded before; is it the abstract log; is a recorded operation published in the end | 120 k |
| `release_sequence` | any two of deploy, sector adapter, Validator upgrade, Calibnet adapter, payment token, from nothing or from a release; 3 builds, some layouts incompatible; 2 kills or edits of the manifest | are build-infos kept, layouts extended, operations exclusive; does the manifest describe the chain | 1.5 M |
| `source_verification` | the same without faults | the comment on carried-over contracts (violated, see section 6) | - |
| `faulty_sector` | 2 sectors | the README's sentence on Faulty sectors (violated, see section 6) | - |
| `stale_evidence` | the settlement deal | the README's sentence on stale evidence (violated, see section 6) | - |

Properties, in the order of `PoRepMarket.tla`:

- `DealRailConsistent`: deal state, rail status, rail id, committed bytes,
  service window and termination epoch agree.
- `TerminalIsFinal`: a closed deal never changes state, window or termination
  epoch. Several guards in two contracts together give this, none alone.
- `LiveDealCanBeClosed`: in every reachable state an accepted or active deal has
  an enabled closing call. It fails if a release can be refused or if
  `terminateDeal` and `finalizeDeal` leave an epoch between them.
- `ManifestExclusive`, `CapacityConserved`, `CommittedWithinAvailable`: the
  registry's tables against the market's deals.
- `SelectionUnique`: whenever something is eligible, exactly one offer is
  selected (the price band never rounds the cheapest offer away, ties are broken).
- `NeverOverpaid`: all rails that name the validator together earn at most the
  worth of service up to the settled epoch, the end and the termination.
- `DecisionAccepted`: for every window FilecoinPay may ask about, the decision
  moves the cursor forward within what was asked and its amount is within the
  rate, which is the condition for FilecoinPay not to refuse it.
- `RailClosable`: after service end, settling everything still owed cannot revert.
- `LastSettledWithinCursor`: `lastSettledEpoch` never runs ahead of the rail.
- `RailEventuallySettled`: liveness, below.
- `ImplementsAgreement`: refinement of `ServiceAgreement`, for each deal.
- `PaidWhileStored` (of `StoredService.tla`): once part of a deal is lost, the total paid never
  exceeds what service up to the loss, the grace period and the adapter's lag is worth. Between the loss
  and a payment stand the date of the snapshot, the grace period, the cap and the cumulative rounding,
  and the windows may be settled in any sizes and as late as one likes.

and of `SectorEvidence.tla`:

- `PlacementsAddUp`: the three records of placements and the pending sweep's bytes
  always agree; otherwise every sweep would end in `RefreshCoveredBytesMismatch`.
- `SnapshotTrue`: no sector of the deal was dead at the date of a positive snapshot.
- `ServiceCommitted`: every living sector of an activated deal is committed to the
  service end, whichever of the two epochs of `activateEvidence` decided.
- `ImplementsSnapshots`: refinement of `EvidenceSnapshots`.
- `SweepCompletes`: liveness, below.

and of `DataCapEvidence.tla`:

- `EvidenceAddsUp`: allocations and claims of a deal are exactly the ids posted for it,
  each once and for no other deal; both byte counters are theirs; a deal is claimed
  exactly when nothing is left to claim.
- `ExpiredForGood`: no id of an expired deal is an allocation that can still be claimed.
- `TerminationsSeen`: a positive snapshot has seen every termination reported before
  its date, also of a claim counted earlier in the sweep. Positive is a snapshot as the
  market reads it: as many active bytes as were committed at activation
  (`PoRepMarket.sol:1417`).
- `ImplementsSnapshots`: refinement of `EvidenceSnapshots`, with a lag of a month.

and of `Deployment.tla`:

- `PublishedIsFinal`: every receipt of the manifest is of a successful transaction in a final
  block of the chain, in the block the receipt names.
- `ManifestDescribesChain`: while nothing is pending the manifest passes the check of
  the live deployment: every implementation, adapter and token is as it says. It fails
  if a command can send a transaction that no journal knows of.
- `LayoutsExtend`: no proxy or beacon is ever given an implementation whose layout does not extend
  the one it replaces. The code compares with the build of the last *release*;
  this holds only because whatever was sent without being released blocks the next upgrade.
- `BuildInfoRetained`: the build-info of the canonical release is kept, wherever publishing stops.
- `EvidenceKept`: an unfinished operation's journal and evidence are neither replaced nor
  dropped. `OneUnfinished`: there is at most one.
- `ReceiptsDistinct`: retries record no receipt twice.
- `ImplementsReleaseLog`: refinement of `ReleaseLog`.
- `RecordedEventuallyPublished`: liveness, below.

**Bounds.** `MaxDeals`, `MaxRails`, `MaxOffers` and `MaxEpoch` are caps in the
guards; values (sizes, prices, offer terms, requests) come from constants. `Calls`
names the optional calls a run makes, so that a run about matching need not also
settle: the safety properties of a run hold for the calls it enables, and
between them the runs make all of them. The cases the properties are about need:
two deals on one provider (capacity and manifests interact pairwise), a size
below and above the reservation, one epoch before, at and after the service end,
two months of service with a grace period shorter than a month (1 < 2 <= 4, the
order of the real 7 days, 30 days and durations), a price that does not divide
the month (3 per 2 epochs, so that floors and ceilings differ). `lifecycle` keeps the
provider's space fixed; it changes in `matching`, and `CommittedWithinAvailable` is
proved with all changes. For sectors: two pieces in
one sector or in two, a sector committed exactly to what is required and one
extended past it, a sweep of more calls than sectors that can die between them. For DataCap: two deals that want the same claim,
three ids so that a deletion moves a third one, a termination before, between and
after the two calls of a sweep, and a sweep left pending for more than a month. For the command
line: two operations that start (`MaxStarts`), so that one meets the journal, the build-info and the
manifest another one left; two mishaps (`MaxMishaps`: kills and manifest edits together), so
that a retry is interrupted as well; one reorganization, which may drop every block that is
not final; three builds, of which b3, b2 and b1 differ in whether the Validator's layout extends
the one before. Sources are edited between commands and not after the last start, when nothing
compiles them for a broadcast any more. Reorganizations and edits of the manifest are in different runs: the first is
about what the tool waits for, the second about what it compares. `ImplementsReleaseLog` and the liveness
are checked with `MaxEdits = 0`: an edit of the manifest is a change of the release that the log does
not know, and a pending operation then rightly refuses to go on. `CHECK_DEADLOCK`
is off: with a bounded clock, bounded deals and bounded commands a behaviour really does end.

**Fairness.** `FairSpec` assumes that blocks keep coming (`Tick`) and that whoever
a rail pays keeps asking FilecoinPay to settle all that it owes
(`SettleRail(r, LatestEpoch(r))`): `settleRail` is open to anybody and the
provider is paid by it. Nobody is assumed to refresh evidence, to attest, to
finalize or to terminate. Weak fairness of the settlement is enough because
after service end nothing disables it again, which is what `RailClosable` says.
`FairSpec` of `SectorEvidence` assumes that somebody keeps checking the next sector
("Anyone, including the provider, can refresh", `PoRepMarket.sol:1396`), and
`SweepCompletes` promises an end only while the market allows refreshes.

`FairSpec` of `Deployment` assumes that a command that runs takes its next step (it is a process; weak
fairness, also of the source verification that ends an operation), that the chain
mines what was sent and finalizes what was mined (weak), and that an operator who
sees a pending operation keeps asking for its finalization: strong fairness, because
another command may run in between. Nobody is assumed to start an operation, to verify sources on its own, or to edit or
commit anything. `RecordedEventuallyPublished` says nothing of an operation one of whose
transactions failed or was never sent: that one stays pending, by design, until a person looks at it.

## 4. What is proved

Every theorem is `Spec => []...` (or `[][...]_vars`) for *all* values of the
constants that satisfy the named assumptions `RegistryAssumption`,
`ValidatorAssumption` and `MarketAssumption` (natural-number parameters, no zero
divisor, requests and offer terms of the right shape); TLC evaluates the
assumptions on every run.

- **`PoRepMarketProofs!TypeCorrect`** (`TypeOK`). Not inductive by itself: the
  provider of a deal must be known to be a provider, the offer of a deal to
  exist, and a rail of a validator to exist, before the arrays indexed by them
  are well typed. `TypeInv` adds `OffersRegistered`, `RailsNameDeals` and
  `DealsNameOffers`. That bytes stay natural numbers is the statement that no
  subtraction underflows.
- **`PoRepMarketProofs!DealRailAgreement`** (`DealRailConsistent`) through `DealInv` =
  `TypeInv`, `DealRailConsistent` and `DealsCounted` (nothing is recorded yet for an
  id not in use, so that a new deal starts clean).
- **`PoRepMarketProofs!ClosedDealsStayClosed`** (`TerminalIsFinal`) from `DealInv`: a
  closed deal's rail is terminated or was never created, and then each closing
  call fails on the validator's record.
- **`PoRepMarketProofs!CommitWithinAvailable`** (`CommittedWithinAvailable`), through the
  lemma `RegistryView`: each step is, for the registry, a management call, a
  reservation, an update, a release, a commit, or nothing. Its invariant adds
  that an unregistered provider has no bytes, so that registration cannot shrink
  availability below what is committed.
- **`PoRepMarketProofs!ManifestsExclusive`** (`ManifestExclusive`) through `ManifestInv`:
  keys of live deals are assigned, assigned keys belong to live deals, and live
  deals have different keys. The three need each other: a release frees one key,
  which is right only if no other live deal has it; a proposal adds one, which is
  new only if the table holds the keys of all live deals.

- **`PoRepMarketProofs!CapacityAccounted`** (`CapacityConserved`) through `CapacityInv` = `DealInv`
  and the property itself. A step changes the state or the reservation of at most one deal, so
  it adds or takes one term of a sum; that a release finds the bytes it subtracts, and that a
  commit moves them from one sum to the other, is in `DealInv`.
- **`PoRepMarketProofs!SelectionDecided`** (`SelectionUnique`) from `TypeInv`. The cheapest
  eligible offer is inside its own price band whatever the rounding, so the band is not
  empty; the least of the triples (load, price, id) over the band exists and is one offer.
- **`SettlementProofs`** proves the four settlement properties from one invariant,
  `SettlementInv` = `DealInv` and, for each deal, `RailSettled` (its own rail runs until the deal
  is closed, has the rate of the committed bytes, and has paid at most what is due up to its
  cursor) and, for each rail, `RailBounded` (nothing is settled ahead of time; a rail that is not
  a deal's own has paid nothing):
  **`ProgressRecorded`** (`LastSettledWithinCursor`), **`DecisionsAccepted`**
  (`DecisionAccepted`), **`RailsCanBeClosed`** (`RailClosable`), **`PaymentsBounded`**
  (`NeverOverpaid`). The lemmas they rest on are about rounding: the amount due, rounded
  down over all the service so far, grows by at most the rate, rounded up, per epoch, and
  what is due up to two epochs differs by what is settled between them. So windows of any
  lengths in any order lose or gain nothing.

- **`SettlementProofs!DealsImplementAgreement`** (`ImplementsAgreement`) from `SettlementInv`, one lemma
  per action of the agreement (`AcceptAgreement`, `ActivateAgreement`, `CloseAgreement`,
  `SettleAgreement`, `TickAgreement`) and some for the calls it does not see. All that is paid
  in the name of a deal is paid by its own rail (`PaidOverOwnRail`), so only a settlement
  of that rail changes `paid`; what it pays is the difference of what is due at the two capped
  cursors, because a cursor beyond the cap has nothing left to earn. A termination does not move the
  capped cursor, as nothing is settled ahead of time.
- **`SettlementProofs!PaidOnlyWhileStored`** (`StoredSpec => []PaidWhileStored`) through `StoredInv` =
  `SettlementInv` and, for each deal: `EvidenceFollowed` (no snapshot before the evidence is complete; what
  a deal committed is what its evidence covers, so the market's comparison really is with all
  of the deal), `SnapshotHonest` (a snapshot that says all is active is dated at most `Lag` after a
  loss), and the property itself. `DueFixed`, a consequence of the refinement above, says that the worth
  of a span never changes once service has started. TLC checked the three as
  invariants of `StoredService.cfg` before they were proved. The further assumption is
  `LagAssumption`; that an adapter implements `EvidenceSnapshots` is what
  `AdapterImplementsSnapshots` proves of each of the two.
- **`PoRepMarketProofs!LiveDealsClosable`** from `CapacityInv`: a live deal meets every condition of one
  of the three closing calls (`Closable`): the state and the rail, the service end, a registered provider, and
  bytes enough for the release. It is what `LiveDealCanBeClosed` says, but for ENABLED and for the
  end of the rail, which FilecoinPay chooses.

- **`SectorEvidenceProofs!PlacementsAgree`** (`PlacementsAddUp`) and **`FullSweepCompletes`**
  through `AddUpInv` = `CommitmentInv`, the property, and `ListedOnce`: no sector is listed twice,
  so the bytes of the sectors before the cursor are a sum over a set. The second says what the
  property is for: a sweep that reaches the last sector has added up exactly the bytes of
  the receipt, so that its last check (`RefreshCoveredBytesMismatch`) passes.
- **`SectorEvidenceProofs!SnapshotsTrue`** (`SnapshotTrue`) through `SnapshotInv`: a death is
  recorded with an epoch not after the clock; a pending sweep began between the
  last completed one and now; the sectors below the cursor were not dead when it
  began. Then a batch of covered sectors extends the last fact to the whole list.
- **`SectorEvidenceProofs!ServiceIsCommitted`** (`ServiceCommitted`) through `CommitmentInv`,
  which adds that the receipt's epoch is no later than any listed sector's
  expiration and that what a sweep found still holds. The second needs that no
  sector joins the list after a sweep began: pieces are counted once, so a
  complete count is the complete set of pieces (`CompleteSetPlaced`).
- **`SectorEvidenceProofs!AdapterImplementsSnapshots`** (`ImplementsSnapshots`) from the same
  invariant, one lemma per visible kind of step (`TickRefines`, `DieRefines`,
  `PlacementRefines`, `RefreshRefines`). The assumption is `SectorAssumption`.

- **`DataCapProofs!ExpiryIsFinal`** (`ExpiredForGood`) through `ExpiryInv`: every allocation
  of the registry was posted for a deal whose latest expiration is not before its own
  (`AllocationsBounded`), and the clock has passed the latest expiration of an expired
  deal (`ExpiredPast`), which no later posting can raise. The assumption is
  `DataCapAssumption`.
- **`DataCapProofs!TypeCorrect`** (`TypeOK`) and **`EvidenceAgrees`** (`EvidenceAddsUp`) through
  `EvidenceInv` = both and `ClaimedAfterPosting` (nothing is claimed while ids are still posted, so
  an id that is posted as an allocation is new). The lemma they turn on is `WalkMoves`:
  however the batch is divided and whatever the swap-removals reorder, the walk moves each
  id it finds claimed once, and skips and repeats none.
- **`DataCapProofs!SnapshotsSeeTerminations`** (`TerminationsSeen`) through `SweepInv` =
  `EvidenceInv`; deaths and terminations are dated and not in the future (`LossesDated`); the claims of
  a deal are in the registry or were removed (`ClaimsFound`); and, for each deal, what a sweep
  that is under way has recorded (`SweepRecorded`): the bytes counted are those of the claims
  looked up that neither failed nor were reported, unless a report has come since, which
  the revision shows.
- **`DataCapProofs!AdapterImplementsSnapshots`** (`ImplementsSnapshots`), for each deal, from `SweepInv`.

`DeploymentProofs.tla` proves six results about the command line, for every set of contracts,
builds and commands, and any number of operations, kills, reorganizations and edits. One
inductive invariant, `IInv`, carries the first three below. What a step does depends on files that
earlier steps wrote and on what the command remembers of them, so it says, for each step the
command may be at: what shape the journals have, that a journal kept for an operation is of that
operation, that a pending one has its build-info beside it, and what the command's own copy has to
do with the files (between `journal` and `recordJournal` the other journal is not pending; a finalizing command's
copy *is* the journal, or the journal it is about to finish; between `retain` and `latest` the new
build-info is already kept).

- **`BuildInfoNeverLost`** (`BuildInfoRetained`): publishing keeps the build-info first, then
  writes the manifest, then prunes; pruning needs that the pending release is the one published.
- **`OneOperationAtATime`** (`OneUnfinished`): the start looks at both journals, but a step
  earlier than it writes; nothing else can start in between.
- **`EvidenceSurvives`** (`EvidenceKept`), an action property, one lemma per step.
- **`ImplementsLog`** (`ImplementsReleaseLog`), for `MaxEdits = 0`. It needs one more invariant: without
  edits the manifest is the one the running command read, or what it has just
  published, so that `classifyCanonicalState` never answers `unexpected`.

The assumptions are `ReleaseAssumption`, `ChainAssumption` and `DeploymentAssumption`.

The other two are on the receipts a manifest lists, for any outcomes of
transactions and any number of reorganizations. Their invariant, `ReceiptInv`, follows a list of
receipts from the chain to the manifest. When it has just been loaded (`HeldReceipts`), each
receipt is of a transaction that succeeded in the block named, or that block was dropped; then
whatever is at its height now has a hash newer than the receipt's. When the finality check has
passed (`FinalReceipts`), that block is in the final part of the chain, and no step changes that.
Lists merged later keep different nonces, because `Filtered` drops what is about to be appended.

- **`ReceiptsAreFinal`** (`PublishedIsFinal`): a published receipt is of a final, successful
  transaction. The check that the block is still the canonical one is what makes it true.
- **`ReceiptsListedOnce`** (`ReceiptsDistinct`): no transaction is listed twice.

`LayoutProofs.tla` proves two more, again for all values of the constants.

- **`TypeCorrect`** (`TypeOK`), through `TypeInv`. A command computes a manifest from a manifest and
  a broadcast, so that the result has its type needs more than the types of the parts: every
  manifest lists the core contracts (`Complete`: the scripts look their addresses up), a pending
  operation upgrades only contracts of the manifest it starts from (`PendingTyped`), and the
  command's own copies are as far as its step has filled them (`CommandTyped`).
- **`LayoutsAreExtended`** (`LayoutsExtend`). The code compares the layouts of two *releases*; the
  property is about what is live in each *proxy*. Between the two stands everything that may
  have happened to the chain since the manifest was written. `LayoutInv` says that there is a
  final height `h` (`Settled`) such that
  - all upgrades up to `h` extended the layouts they replaced, the manifest describes the
    chain at `h`, and since `h` each proxy was given a new implementation at most once, one that
    fits what the manifest has for it (`History`);
  - nothing was upgraded since `h` when no operation is pending, and when one is but Forge has
    not sent anything yet (`Calm`);
  - a pending journal accounts for all that was sent, and its result manifest, once it has
    been checked against the chain, describes it (`JournalTells`);
  - what the running command holds is what it says it is: the script it broadcasts is made
    from the manifest it read, for a build whose layouts it has compared (`CommandTells`).

  Publishing moves `h` to the end of the chain; every other step leaves it where it was: an
  operation that is killed, refused or retried stays pending, and with it the account of what it sent. `LayoutInv` was checked by TLC as an
  invariant of `ReleaseFaults` and of a part of `ReleaseSequence` before it was proved. The theorem has the
  hypothesis `EditsWhile \subseteq {"idle"}`, the value the runs have: nobody edits the
  sources while a command runs. It is needed, because Forge compiles the sources again
  after the layouts have been compared (`deployment.ts:219`, among the hazards).

`LiveProofs.tla` proves one more.

- **`ManifestDescribes`** (`ManifestDescribesChain`): while no operation is unfinished, the canonical
  manifest passes `verifyLiveDeployment`. The check itself was made by one command at one moment;
  the theorem is about every later state, after other commands, kills, retries and
  configured tokens. `LiveInv` has three parts:
  - while nothing is pending, or nothing was sent for it yet, or it is published already
    (`Calm`), there is a final height `h`
    (`Standing`) at which what the manifest says was live: the code of every
    implementation, the slot of every proxy and of the beacon, the evidence adapter
    of the market (`ContractsLive`); and since `h` nothing but calls for the
    tokens was sent, for every other transaction is sent under a journal;
  - the result manifest of a pending journal was checked, and stays live until it is
    published, because everything else refuses to start (`JournalLive`);
  - a manifest that lists tokens finds them configured.

  `ContractsLive` takes the height and the chain as parameters, so that the proof can say that a
  final part of the chain keeps its values when blocks after it are dropped (`LiveOnward`).
  TLC checked `LiveInv` as an invariant of `ReleaseSequence` and `ReleaseFaults` before it was proved.
  Its three hypotheses are each needed:
  - `EditsWhile \subseteq {"idle"}`, as above, for what was upgraded is known from `LayoutInv`;
  - `FoundComplete`: a release that the tool finds at the beginning may lack the sector adapter, but
    not the view helper, without which the check refuses it (`verifyLiveDeployment`) until
    `deploy-missing` has run;
  - `MaxReorgs = 0 \/ "tokens" \notin Commands`: `configure-payment-tokens` that finds a token
    configured records it without waiting for finality (`deployment.ts:388`, among the hazards), so
    that a reorganization may drop the call that the manifest relies on. Each run has one of the two.

The assumptions of these modules are those of the others: `ReleaseAssumption` says that proxies,
helpers, the validator and its beacon have different names and that extending a layout is
reflexive and transitive; `DeploymentAssumption` says that only the contracts that
`missingHelpers` and `missingSectorAdapter` (`deployment.ts:180-199`) name may be missing, and that
the market and the two evidence adapters are proxies (`Deploy.s.sol` always deploys them as such).

**How sums, walks and lists are proved.** Induction over data is out of the prover's reach. Where
a fact is about a sum over a set, a recursive function over a list (`ClaimedWalk`, `Filtered`)
or the first of several indices, the proofs take a smallest counterexample instead
(`SumLemmas!SmallestIndex`, `SmallestSubset`, `PoRepMarketProofs!SmallestNat`): a set of natural numbers has a least element, and the
definition of the function at that element and the one before contradict each other.
`SumLemmas.tla` holds what follows for sums: removing, adding and raising a term, disjoint
unions, bounds.

**Model-checked only.** `LiveDealCanBeClosed` (ENABLED is outside the prover's reach; the guards it is
about are proved, `LiveDealsClosable`); the
liveness properties `RailEventuallySettled`, `SweepCompletes` and `RecordedEventuallyPublished`
(so is liveness). With reorganizations and tokens together `ManifestDescribesChain` does not hold
(see the hypotheses of `ManifestDescribes`); no run combines the two.

## 5. What is not modelled yet, and why

- Payment tokens, minimum prices, payees: refusals and payload only; planned.
- The global and per-deal choice of evidence adapter, and activation padding outside
  `DataCapEvidence.tla`. `PoRepMarket.tla` uses an adapter through its interface and
  assumes that it takes evidence only while the deal is accepted and never dates a
  snapshot before the one it replaces; of the sector adapter the second is part of
  `AdapterImplementsSnapshots`. (The DataCap adapter records claims of a closed deal
  too; that changes nothing the market reads.)
- Of the DataCap adapter: CBOR decoding, minting and transfer of DataCap and the checks of
  sizes and terms (they succeed or the call reverts), the calibration-net subclass.
- Of the sector adapter: the Merkle commitment, CBOR decoding and the acceptance
  bitmap (data), wrong sector locations (they revert), expiration of sectors by the
  clock (`Die` may happen at any time and covers it).
- `updateLockupPeriod`: changes only FilecoinPay's lockup; the open rail end covers it.
- `railTerminated`: checks its caller and emits an event. In the model only the
  validator terminates a rail; the callback refuses any other terminator.
- Roles: every authorised call may happen at any time.
- Client funds in FilecoinPay: a settlement FilecoinPay refuses for lack of funds
  changes nothing.
- Of the command line: two commands at the same time (nothing in the code excludes them but the
  journal; the model gives one at a time), chain ids, keys and confirmations, the
  journals of the former Bash tool, `check-live` (it changes nothing), code hashes, owners and roles in the live check, parsing
  and malformed answers, and the workspace, whose loss is part of `crash`.
- Of the Solidity scripts: transactions that grant roles or initialize, and the scripts' own
  checks of the manifest, which the command makes as well. The access manager, the validator
  factory and the role grants are therefore not in `DeployScript`, which has the other
  transactions in the order of `Deploy.s.sol`; the beacon, which the factory creates when
  it is initialized, is a transaction of its own.
- Of the explorer: it accepts a contract when the present sources compile to its build.
- Roles and view helpers change nothing the market's state depends on, except by refusing;
  the rescue scripts only report.

## 6. Differences between documentation and code

`src/README.md:168-169` says that stale or never refreshed evidence "makes
settlement revert with `EvidenceTooStale()` without advancing its stored settlement
cursor". `PoRepMarket._settlementEvidenceMatches` (lines 1411-1415) does so only
while a refresh is possible; afterwards stale evidence settles the window with
zero payment and the cursor advances. The run `stale_evidence` shows it. The code
is what makes `RailClosable` and `RailEventuallySettled` hold; the sentence is
out of date.

`src/README.md:156-157` says that "one verified Faulty or Dead sector publishes
`COVERED_BYTES_MISMATCH`", and lines 171-173 repeat it. `_checkSector` (lines 822-832)
counts a Faulty sector as covered and only a terminated one as lost; its comment
and the test `testFaultySectorKeepsCoverageAndTerminatedSectorPublishesMismatch`
agree with the code. The run `faulty_sector` shows the snapshot.

`src/script/deployment-sources.ts:55-58` says that contracts carried over from an earlier
release are skipped when the explorer already holds their source. Which contracts those are is
decided by the transactions of the manifest (lines 68-72), and `mergeMissingHelpers`
(`deployment.ts:1053`) keeps the transactions of the earlier release. After `deploy-missing` every
contract of the earlier release therefore counts as just deployed and is submitted again,
which the comment says "always fails". The run `source_verification` shows the state.

Two things found on the way contradict no document and are listed with the hazards:
`configure-payment-tokens` has no journal, so that a run killed before it writes the
manifest leaves a token whose transaction a later run neither records nor waits for;
and a journal whose broadcast left no file can only be removed by hand.

## 7. Plan

1. *(done)* `SPRegistry`, `Validator`, `PoRepMarket`, their runs, and the five theorems.
2. *(done)* `SectorEvidence` and `EvidenceSnapshots`, their runs and five theorems.
3. *(done)* `DataCapEvidence`, its runs and five theorems; lemmas on sums.
4. *(done)* `ReleaseManifest`, `ReleaseChain`, `ReleaseScripts`, `Deployment` and `ReleaseLog`, their runs and
   nine theorems.
5. *(done)* Theorems on the market: capacity, selection, settlement.
6. *(done)* `ServiceAgreement`, the life of one deal in the abstract, implemented by `PoRepMarket`, and
   `StoredService`, the market with adapters that keep their promise; both proved.
7. `OfferMatching` and `SLIScoring`: the selection loop and the scores as functions, checked against
   `IsSelected` and the thresholds; payment tokens and minimum prices.
