--------------------------- MODULE SectorEvidence ---------------------------
(***************************************************************************)
(* The sector evidence adapter (src/SectorEvidenceAdapter.sol) for one     *)
(* deal.  Miner actors report the pieces they seal; once every committed   *)
(* piece is placed anybody refreshes the evidence by checking the deal's   *)
(* sectors in order, some of them in each call, and a sweep over all of    *)
(* them publishes a snapshot.  Deals share nothing in the adapter but the  *)
(* flag that disables it.                                                  *)
(*                                                                         *)
(* Sectors belong to the network and change on their own, between the      *)
(* calls of a sweep too.  A sector that is Dead stays so, as numbers are   *)
(* never reused, and the expiration of a sector is only ever extended.     *)
(*                                                                         *)
(* Abstractions.  The Merkle proof makes a notification name a committed   *)
(* piece with its size, so a piece is its index.  Of the market there is   *)
(* what it checks before it calls the adapter.  A call with a wrong sector *)
(* location reverts.                                                       *)
(***************************************************************************)
EXTENDS Integers, Sequences, FiniteSets, Functions

CONSTANTS
  Sectors,
  Pieces,          \* indexes of the pieces the manifest commits to
  PieceSize,       \* padded size of each piece
  RequestedSize,   \* requestedSizeBytes of the deal
  DurationEpochs,
  ProposedAt,      \* epoch of the proposal
  Expirations,     \* expirations sectors may be given
  MaxEpoch         \* bound on the clock

ASSUME SectorAssumption ==
  /\ IsFiniteSet(Pieces) /\ Pieces # {}
  /\ PieceSize \in [Pieces -> Nat \ {0}]
  /\ RequestedSize \in Nat \ {0}
  /\ DurationEpochs \in Nat \ {0}
  /\ ProposedAt \in Nat \ {0}
  /\ Expirations \subseteq Nat \ {0}
  /\ MaxEpoch \in Nat

VARIABLES
  now,
  dealState, serviceEnd,                        \* of the market
  sectorStatus, sectorExpiration, diedAt,       \* of the network
  disabled,
  placed,                  \* pieces accepted
  sectorNumbers,           \* sectors that hold them, in order of acceptance
  sectorCoveredBytes,
  acceptedPieceCount, acceptedBytes,            \* manifest receipt
  minimumCommitmentEpoch, activated,
  nextSectorIndex, pendingCoveredBytes,         \* pending sweep
  sweepStartEpoch, pendingMinimumExpiration,
  lastCompletedEpoch, completedExpiration,      \* last completed sweep
  completedResult

dealVars == <<dealState, serviceEnd>>
networkVars == <<sectorStatus, sectorExpiration, diedAt>>
inventoryVars == <<placed, sectorNumbers, sectorCoveredBytes>>
receiptVars == <<acceptedPieceCount, acceptedBytes, minimumCommitmentEpoch>>
sweepVars == <<nextSectorIndex, pendingCoveredBytes, sweepStartEpoch, pendingMinimumExpiration>>
completedVars == <<lastCompletedEpoch, completedExpiration, completedResult>>
refreshVars == <<sweepVars, completedVars>>
vars == <<now, dealVars, networkVars, disabled, inventoryVars, receiptVars, activated, refreshVars>>

Statuses == {"Unsealed", "Active", "Faulty", "Dead"}
Results == {"NONE", "ACTIVE", "COVERED_BYTES_MISMATCH"}

\* What pendingCoveredBytes is, PlacementsAddUp says.
TypeOK ==
  /\ now \in Nat \ {0}
  /\ dealState \in {"ACCEPTED", "ACTIVE", "EARLY_TERMINATED", "EXPIRED", "REJECTED", "FINALIZED"}
  /\ serviceEnd \in Nat
  /\ sectorStatus \in [Sectors -> Statuses]
  /\ sectorExpiration \in [Sectors -> Nat]
  /\ diedAt \in [Sectors -> Nat]
  /\ disabled \in BOOLEAN
  /\ placed \subseteq Pieces
  /\ sectorNumbers \in Seq(Sectors)
  /\ sectorCoveredBytes \in [Sectors -> Nat]
  /\ acceptedPieceCount \in Nat
  /\ acceptedBytes \in Nat
  /\ minimumCommitmentEpoch \in Nat
  /\ activated \in BOOLEAN
  /\ nextSectorIndex \in Nat
  /\ sweepStartEpoch \in Nat
  /\ pendingMinimumExpiration \in Nat
  /\ lastCompletedEpoch \in Nat
  /\ completedExpiration \in Nat
  /\ completedResult \in Results

Init ==
  /\ now = ProposedAt
  /\ dealState = "ACCEPTED"
  /\ serviceEnd = 0
  /\ sectorStatus = [s \in Sectors |-> "Unsealed"]
  /\ sectorExpiration = [s \in Sectors |-> 0]
  /\ diedAt = [s \in Sectors |-> 0]
  /\ disabled = FALSE
  /\ placed = {}
  /\ sectorNumbers = <<>>
  /\ sectorCoveredBytes = [s \in Sectors |-> 0]
  /\ acceptedPieceCount = 0
  /\ acceptedBytes = 0
  /\ minimumCommitmentEpoch = 0
  /\ activated = FALSE
  /\ nextSectorIndex = 0
  /\ pendingCoveredBytes = 0
  /\ sweepStartEpoch = 0
  /\ pendingMinimumExpiration = 0
  /\ lastCompletedEpoch = 0
  /\ completedExpiration = 0
  /\ completedResult = "NONE"

-----------------------------------------------------------------------------
(* The network *)

Seal(s, expiration) ==
  /\ sectorStatus[s] = "Unsealed"
  /\ expiration > now
  /\ sectorStatus' = [sectorStatus EXCEPT ![s] = "Active"]
  /\ sectorExpiration' = [sectorExpiration EXCEPT ![s] = expiration]
  /\ UNCHANGED <<now, dealVars, diedAt, disabled, inventoryVars, receiptVars, activated, refreshVars>>

Extend(s, expiration) ==
  /\ sectorStatus[s] = "Active"
  /\ expiration > sectorExpiration[s]
  /\ sectorExpiration' = [sectorExpiration EXCEPT ![s] = expiration]
  /\ UNCHANGED <<now, dealVars, sectorStatus, diedAt, disabled, inventoryVars, receiptVars,
                 activated, refreshVars>>

\* A sector misses a proof of storage, or makes one again.
FaultOrRecover(s) ==
  /\ \/ sectorStatus[s] = "Active" /\ sectorStatus' = [sectorStatus EXCEPT ![s] = "Faulty"]
     \/ sectorStatus[s] = "Faulty" /\ sectorStatus' = [sectorStatus EXCEPT ![s] = "Active"]
  /\ UNCHANGED <<now, dealVars, sectorExpiration, diedAt, disabled, inventoryVars, receiptVars,
                 activated, refreshVars>>

Die(s) ==
  /\ sectorStatus[s] \in {"Active", "Faulty"}
  /\ sectorStatus' = [sectorStatus EXCEPT ![s] = "Dead"]
  /\ diedAt' = [diedAt EXCEPT ![s] = now]
  /\ UNCHANGED <<now, dealVars, sectorExpiration, disabled, inventoryVars, receiptVars,
                 activated, refreshVars>>

Tick ==
  /\ now < MaxEpoch
  /\ now' = now + 1
  /\ UNCHANGED <<dealVars, networkVars, disabled, inventoryVars, receiptVars, activated, refreshVars>>

-----------------------------------------------------------------------------
(* Placements *)

\* Mutant: a piece reported again is counted again.
PieceReported(p) == p \in Pieces

\* A piece reported again is acknowledged or refused; neither changes anything.
PieceIsNew(p) == p \notin placed

\* Mutant: the last epoch reported counts, not the lowest.
LastEpoch(epoch) == epoch

LowestEpoch(epoch) ==
  IF acceptedPieceCount = 0 \/ epoch < minimumCommitmentEpoch THEN epoch ELSE minimumCommitmentEpoch

\* The epoch is the one to which the sector is committed as it is reported.
PieceAcceptable(s) ==
  /\ dealState = "ACCEPTED"
  /\ sectorExpiration[s] >= ProposedAt + DurationEpochs

AcceptPlacement(p, s) ==
  /\ PieceIsNew(p)
  /\ placed' = placed \cup {p}
  /\ sectorNumbers' =
       IF sectorCoveredBytes[s] = 0 THEN Append(sectorNumbers, s) ELSE sectorNumbers
  /\ sectorCoveredBytes' = [sectorCoveredBytes EXCEPT ![s] = @ + PieceSize[p]]
  /\ minimumCommitmentEpoch' = LowestEpoch(sectorExpiration[s])
  /\ acceptedPieceCount' = acceptedPieceCount + 1
  /\ acceptedBytes' = acceptedBytes + PieceSize[p]

\* The miner reports a piece in an active sector. A grouped callback is a
\* sequence of these: a piece that is refused does not affect the others.
ProcessPieceNotification(p, s) ==
  /\ sectorStatus[s] = "Active"
  /\ ~disabled
  /\ PieceAcceptable(s)
  /\ AcceptPlacement(p, s)
  /\ UNCHANGED <<now, dealVars, networkVars, disabled, activated, refreshVars>>

DisableAdapter ==
  /\ ~disabled
  /\ disabled' = TRUE
  /\ UNCHANGED <<now, dealVars, networkVars, inventoryVars, receiptVars, activated, refreshVars>>

HasCompletePieceSet ==
  /\ acceptedPieceCount = Cardinality(Pieces)
  /\ acceptedBytes = RequestedSize

-----------------------------------------------------------------------------
(* Activation *)

\* A sweep that found every sector covered replaces the epochs reported at
\* sealing if it found later ones.
CommitmentEpoch ==
  IF completedResult = "ACTIVE" /\ completedExpiration > minimumCommitmentEpoch
    THEN completedExpiration
    ELSE minimumCommitmentEpoch

ActivateEvidence ==
  /\ dealState = "ACCEPTED"
  /\ ~activated
  /\ HasCompletePieceSet
  /\ completedResult # "COVERED_BYTES_MISMATCH"
  /\ CommitmentEpoch >= now + DurationEpochs
  /\ activated' = TRUE
  /\ dealState' = "ACTIVE"
  /\ serviceEnd' = now + DurationEpochs
  /\ UNCHANGED <<now, networkVars, disabled, inventoryVars, receiptVars, refreshVars>>

-----------------------------------------------------------------------------
(* Refresh *)

\* Mutants: faults lose coverage; a sweep is dated when it completes.
CoveredIfActive(s) == sectorStatus[s] = "Active"
CompletionEpoch == now

Covered(s) == sectorStatus[s] \in {"Active", "Faulty"}

\* The snapshot of a sweep is dated with its first call.
SweepEpoch == IF nextSectorIndex = 0 THEN now ELSE sweepStartEpoch

CompleteRefresh(result, expiration) ==
  /\ lastCompletedEpoch' = SweepEpoch
  /\ completedExpiration' = expiration
  /\ completedResult' = result
  /\ nextSectorIndex' = 0
  /\ pendingCoveredBytes' = 0
  /\ sweepStartEpoch' = 0
  /\ pendingMinimumExpiration' = 0

LeastOf(e, epochs) == e \in epochs /\ \A f \in epochs : e <= f

BatchSectors(n) == {sectorNumbers[i] : i \in nextSectorIndex + 1 .. nextSectorIndex + n}

CoveredBytes(n) == pendingCoveredBytes + SumFunctionOnSet(sectorCoveredBytes, BatchSectors(n))

ExpirationsFound(n) ==
  {sectorExpiration[s] : s \in BatchSectors(n)}
    \cup (IF pendingMinimumExpiration = 0 THEN {} ELSE {pendingMinimumExpiration})

\* Mutant: a batch with a dead sector reverts.
NeverLost(n) == FALSE

\* One dead sector completes the sweep at once.
BatchLost(n) == \E s \in BatchSectors(n) : ~Covered(s)

PublishLoss(n) ==
  /\ BatchLost(n)
  /\ CompleteRefresh("COVERED_BYTES_MISMATCH", 0)

AdvanceSweep(n) ==
  /\ \A s \in BatchSectors(n) : Covered(s)
  /\ \E expiration \in ExpirationsFound(n) :
       /\ LeastOf(expiration, ExpirationsFound(n))
       /\ IF nextSectorIndex + n = Len(sectorNumbers)
            THEN /\ CoveredBytes(n) = acceptedBytes
                 /\ CompleteRefresh("ACTIVE", expiration)
            ELSE /\ nextSectorIndex' = nextSectorIndex + n
                 /\ pendingCoveredBytes' = CoveredBytes(n)
                 /\ sweepStartEpoch' = SweepEpoch
                 /\ pendingMinimumExpiration' = expiration
                 /\ UNCHANGED completedVars

\* What PoRepMarket.refreshEvidenceStatus requires of the deal.
RefreshAllowed ==
  /\ dealState \in {"ACCEPTED", "ACTIVE"} \/ (dealState = "EARLY_TERMINATED" /\ serviceEnd # 0)
  /\ serviceEnd # 0 => now < serviceEnd

\* n consecutive sectors are checked.
RefreshEvidenceStatus(n) ==
  /\ RefreshAllowed
  /\ HasCompletePieceSet
  /\ n \in 1 .. Len(sectorNumbers) - nextSectorIndex
  /\ PublishLoss(n) \/ AdvanceSweep(n)
  /\ UNCHANGED <<now, dealVars, networkVars, disabled, inventoryVars, receiptVars, activated>>

-----------------------------------------------------------------------------
(* Closing the deal in the market *)

CloseDeal(state) ==
  /\ dealState' = state
  /\ UNCHANGED <<now, serviceEnd, networkVars, disabled, inventoryVars, receiptVars, activated, refreshVars>>

TerminateDeal ==
  /\ dealState \in {"ACCEPTED", "ACTIVE"}
  /\ serviceEnd # 0 => now <= serviceEnd
  /\ CloseDeal("EARLY_TERMINATED")

ExpireDeal ==
  /\ dealState = "ACCEPTED"
  /\ completedExpiration # 0 /\ completedExpiration < now
  /\ CloseDeal("EXPIRED")

RejectAcceptedDeal ==
  /\ dealState = "ACCEPTED"
  /\ CloseDeal("REJECTED")

FinalizeDeal ==
  /\ dealState = "ACTIVE"
  /\ serviceEnd < now
  /\ CloseDeal("FINALIZED")

-----------------------------------------------------------------------------

Next ==
  \/ Tick
  \/ \E s \in Sectors :
       \/ \E expiration \in Expirations : Seal(s, expiration) \/ Extend(s, expiration)
       \/ FaultOrRecover(s)
       \/ Die(s)
       \/ \E p \in Pieces : ProcessPieceNotification(p, s)
  \/ DisableAdapter
  \/ ActivateEvidence
  \/ \E n \in 1 .. Len(sectorNumbers) : RefreshEvidenceStatus(n)
  \/ TerminateDeal
  \/ ExpireDeal
  \/ RejectAcceptedDeal
  \/ FinalizeDeal

Spec == Init /\ [][Next]_vars

\* "Anyone, including the provider, can refresh" (PoRepMarket.sol:1396):
\* somebody keeps checking the next sector.
FairSpec == Spec /\ WF_vars(RefreshEvidenceStatus(1))

-----------------------------------------------------------------------------
(* Properties *)

DealSectors == {sectorNumbers[i] : i \in 1 .. Len(sectorNumbers)}

\* The receipt, the list of sectors and the bytes of each sector are three
\* records of the same placements, however pieces are spread over sectors and
\* reported again: they always add up, and so do the bytes of a pending sweep,
\* or a sweep that finds every sector covered could never complete.
PlacementsAddUp ==
  /\ acceptedPieceCount = Cardinality(placed)
  /\ acceptedBytes = SumFunctionOnSet(PieceSize, placed)
  /\ acceptedBytes = SumFunctionOnSet(sectorCoveredBytes, DealSectors)
  /\ Cardinality(DealSectors) = Len(sectorNumbers)
  /\ DealSectors = {s \in Sectors : sectorCoveredBytes[s] # 0}
  /\ pendingCoveredBytes =
       SumFunctionOnSet(sectorCoveredBytes, {sectorNumbers[i] : i \in 1 .. nextSectorIndex})

\* A positive snapshot is true at its date: no sector of the deal was dead
\* then, although each was looked at in a later call and may have died since.
SnapshotTrue ==
  completedResult = "ACTIVE" =>
    \A s \in DealSectors : diedAt[s] = 0 \/ lastCompletedEpoch <= diedAt[s]

\* Activation promises storage for the whole service: when a deal is active
\* every sector that still lives is committed beyond the service end, whether
\* it was so when sealed or was extended later and found so by a sweep.
ServiceCommitted ==
  activated => \A s \in DealSectors : diedAt[s] # 0 \/ serviceEnd <= sectorExpiration[s]

\* A sweep that has begun is completed as long as the market allows refreshes,
\* whatever happens to the sectors meanwhile.
SweepCompletes == sweepStartEpoch # 0 /\ RefreshAllowed ~> sweepStartEpoch = 0 \/ ~RefreshAllowed

\* README.md:156 says that one Faulty sector publishes COVERED_BYTES_MISMATCH:
\* a sweep that ends on one would never publish ACTIVE.
FaultPublishesMismatch ==
  [][completedResult' = "ACTIVE" /\ lastCompletedEpoch' # lastCompletedEpoch =>
       sectorStatus[sectorNumbers[Len(sectorNumbers)]] # "Faulty"]_vars

\* The adapter implements the snapshots the market relies on.
Deaths == {diedAt[s] : s \in {e \in DealSectors : diedAt[e] # 0}}

LostAt == IF Deaths = {} THEN 0 ELSE CHOOSE epoch \in Deaths : LeastOf(epoch, Deaths)

Snapshots == INSTANCE EvidenceSnapshots WITH
  Lag <- 0,
  complete <- HasCompletePieceSet, lostAt <- LostAt,
  result <- completedResult, date <- lastCompletedEpoch

ImplementsSnapshots == Snapshots!Spec
=============================================================================
