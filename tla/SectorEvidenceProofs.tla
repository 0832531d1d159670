----------------------- MODULE SectorEvidenceProofs -----------------------
(***************************************************************************)
(* The snapshots of the sector evidence adapter are true at their date, an *)
(* active deal is stored in sectors that are committed to the end of its   *)
(* service, and placements, sectors and bytes add up, for every number of  *)
(* pieces and sectors.                                                     *)
(***************************************************************************)
EXTENDS SectorEvidence, SumLemmas

Closed == {"EARLY_TERMINATED", "EXPIRED", "REJECTED", "FINALIZED"}

\* Disabling the adapter, closing the deal, and stuttering.
QuietStep ==
  /\ UNCHANGED <<now, serviceEnd, networkVars, inventoryVars, receiptVars, activated, refreshVars>>
  /\ disabled' \in BOOLEAN
  /\ dealState' = dealState \/ dealState' \in Closed

SealOrExtend(s, expiration) == Seal(s, expiration) \/ Extend(s, expiration)

LEMMA StepCases ==
  ASSUME TypeOK, [Next]_vars
  PROVE  \/ Tick
         \/ \E s \in Sectors, expiration \in Expirations : SealOrExtend(s, expiration)
         \/ \E s \in Sectors : FaultOrRecover(s)
         \/ \E s \in Sectors : Die(s)
         \/ \E s \in Sectors, p \in Pieces : ProcessPieceNotification(p, s)
         \/ ActivateEvidence
         \/ \E n \in Nat : RefreshEvidenceStatus(n)
         \/ QuietStep
<1>1. CASE UNCHANGED vars
  BY <1>1 DEF QuietStep, vars, dealVars, TypeOK
<1>2. DisableAdapter => QuietStep
  BY DEF DisableAdapter, QuietStep, dealVars, TypeOK
<1>3. TerminateDeal \/ ExpireDeal \/ RejectAcceptedDeal \/ FinalizeDeal => QuietStep
  BY DEF TerminateDeal, ExpireDeal, RejectAcceptedDeal, FinalizeDeal, CloseDeal, QuietStep, Closed, TypeOK
<1> QED
  BY <1>1, <1>2, <1>3 DEF Next, SealOrExtend, TypeOK

\* A refresh checks existing entries of the list of sectors.
LEMMA BatchListed ==
  ASSUME TypeOK, NEW n \in Nat, RefreshEvidenceStatus(n)
  PROVE  /\ n # 0
         /\ nextSectorIndex + n <= Len(sectorNumbers)
         /\ BatchSectors(n) \subseteq DealSectors
         /\ BatchSectors(n) # {}
         /\ BatchSectors(n) \subseteq Sectors
         /\ SweepEpoch \in Nat
<1>1. n \in 1 .. Len(sectorNumbers) - nextSectorIndex /\ Len(sectorNumbers) \in Nat
  BY DEF RefreshEvidenceStatus, TypeOK
<1>2. n # 0 /\ nextSectorIndex + n <= Len(sectorNumbers)
  BY <1>1 DEF TypeOK
<1>3. \A i \in nextSectorIndex + 1 .. nextSectorIndex + n :
        i \in 1 .. Len(sectorNumbers) /\ sectorNumbers[i] \in Sectors
  BY <1>2 DEF TypeOK
<1>4. nextSectorIndex + 1 \in nextSectorIndex + 1 .. nextSectorIndex + n
  BY <1>1 DEF TypeOK
<1>5. SweepEpoch \in Nat
  BY DEF SweepEpoch, TypeOK
<1> QED
  BY <1>2, <1>3, <1>4, <1>5 DEF BatchSectors, DealSectors

LEMMA ExpirationsFoundNat ==
  ASSUME TypeOK, NEW n \in Nat, BatchSectors(n) \subseteq Sectors
  PROVE  ExpirationsFound(n) \subseteq Nat
  BY DEF ExpirationsFound, TypeOK

\* A refresh publishes a loss, or all sectors of the batch are covered and it
\* publishes a positive snapshot or records how far it came.
LEMMA RefreshCases ==
  ASSUME NEW n \in Nat, RefreshEvidenceStatus(n)
  PROVE  \/ PublishLoss(n)
         \/ /\ \A s \in BatchSectors(n) : Covered(s)
            /\ \E expiration \in ExpirationsFound(n) :
                 /\ \A e \in ExpirationsFound(n) : expiration <= e
                 /\ \/ /\ nextSectorIndex + n = Len(sectorNumbers)
                       /\ CompleteRefresh("ACTIVE", expiration)
                    \/ /\ nextSectorIndex + n # Len(sectorNumbers)
                       /\ nextSectorIndex' = nextSectorIndex + n
                       /\ sweepStartEpoch' = SweepEpoch
                       /\ pendingMinimumExpiration' = expiration
                       /\ UNCHANGED completedVars
  BY DEF RefreshEvidenceStatus, AdvanceSweep, LeastOf

-----------------------------------------------------------------------------
(* Type correctness *)

LEMMA TypeStep ==
  ASSUME TypeOK, [Next]_vars
  PROVE  TypeOK'
<1> USE SectorAssumption DEF TypeOK, Statuses
<1>1. CASE Tick
  BY <1>1 DEF Tick, dealVars, networkVars, inventoryVars, receiptVars, refreshVars, sweepVars, completedVars
<1>2. ASSUME NEW s \in Sectors, NEW expiration \in Expirations, SealOrExtend(s, expiration)
      PROVE  TypeOK'
  BY <1>2 DEF SealOrExtend, Seal, Extend, dealVars, inventoryVars, receiptVars, refreshVars, sweepVars, completedVars
<1>3. ASSUME NEW s \in Sectors, FaultOrRecover(s)
      PROVE  TypeOK'
  BY <1>3 DEF FaultOrRecover, dealVars, inventoryVars, receiptVars, refreshVars, sweepVars, completedVars
<1>4. ASSUME NEW s \in Sectors, Die(s)
      PROVE  TypeOK'
  BY <1>4 DEF Die, dealVars, inventoryVars, receiptVars, refreshVars, sweepVars, completedVars
<1>5. ASSUME NEW s \in Sectors, NEW p \in Pieces, ProcessPieceNotification(p, s)
      PROVE  TypeOK'
  <2>1. PieceSize[p] \in Nat
    OBVIOUS
  <2>2. sectorNumbers' \in Seq(Sectors) /\ placed' \subseteq Pieces
    BY <1>5 DEF ProcessPieceNotification, AcceptPlacement
  <2>3. sectorCoveredBytes' \in [Sectors -> Nat] /\ acceptedBytes' \in Nat /\ acceptedPieceCount' \in Nat
    BY <1>5, <2>1 DEF ProcessPieceNotification, AcceptPlacement
  <2>4. minimumCommitmentEpoch' \in Nat
    BY <1>5 DEF ProcessPieceNotification, AcceptPlacement, LowestEpoch
  <2> QED
    BY <1>5, <2>2, <2>3, <2>4
       DEF ProcessPieceNotification, dealVars, networkVars, refreshVars, sweepVars, completedVars
<1>6. CASE ActivateEvidence
  BY <1>6 DEF ActivateEvidence, networkVars, inventoryVars, receiptVars, refreshVars, sweepVars, completedVars
<1>7. ASSUME NEW n \in Nat, RefreshEvidenceStatus(n)
      PROVE  TypeOK'
  <2>1. SweepEpoch \in Nat /\ ExpirationsFound(n) \subseteq Nat
    BY <1>7, BatchListed, ExpirationsFoundNat
  <2>2. /\ nextSectorIndex' \in Nat /\ sweepStartEpoch' \in Nat /\ pendingMinimumExpiration' \in Nat
        /\ lastCompletedEpoch' \in Nat /\ completedExpiration' \in Nat /\ completedResult' \in Results
    BY <1>7, <2>1, RefreshCases DEF PublishLoss, CompleteRefresh, completedVars, Results
  <2> QED
    BY <1>7, <2>2 DEF RefreshEvidenceStatus, dealVars, networkVars, inventoryVars, receiptVars
<1>8. CASE QuietStep
  BY <1>8 DEF QuietStep, Closed, networkVars, inventoryVars, receiptVars, refreshVars, sweepVars, completedVars
<1> QED
  BY <1>1, <1>2, <1>3, <1>4, <1>5, <1>6, <1>7, <1>8, StepCases

-----------------------------------------------------------------------------
(* Snapshots are true at their date *)

\* The network: what is known of each sector, and that pieces are in sectors
\* that exist.
SectorsKnown ==
  \A s \in Sectors :
    /\ sectorStatus[s] = "Dead" <=> diedAt[s] # 0
    /\ diedAt[s] <= now
    /\ sectorStatus[s] # "Unsealed" => sectorExpiration[s] # 0

ListedSealed == \A s \in DealSectors : sectorStatus[s] # "Unsealed"

NetworkInv == TypeOK /\ SectorsKnown /\ ListedSealed

\* A sweep starts after the last one it completes.
SweepOrdered ==
  /\ now # 0
  /\ lastCompletedEpoch <= now
  /\ nextSectorIndex <= Len(sectorNumbers)
  /\ nextSectorIndex # 0 => lastCompletedEpoch <= sweepStartEpoch /\ sweepStartEpoch <= now

StoredAt(s, epoch) == diedAt[s] = 0 \/ epoch <= diedAt[s]

\* The sectors checked so far were not dead when the sweep began.
CheckedStored ==
  nextSectorIndex # 0 =>
    \A i \in 1 .. nextSectorIndex : StoredAt(sectorNumbers[i], sweepStartEpoch)

SnapshotInv == NetworkInv /\ SweepOrdered /\ CheckedStored /\ SnapshotTrue

LEMMA ListedInSectors ==
  ASSUME TypeOK
  PROVE  /\ Len(sectorNumbers) \in Nat
         /\ \A i \in 1 .. Len(sectorNumbers) : sectorNumbers[i] \in DealSectors
         /\ DealSectors \subseteq Sectors
  BY DEF TypeOK, DealSectors

\* A placement at most adds its sector at the end of the list.
LEMMA ListGrows ==
  ASSUME TypeOK, NEW s \in Sectors, NEW p, ProcessPieceNotification(p, s)
  PROVE  /\ Len(sectorNumbers) <= Len(sectorNumbers')
         /\ \A i \in 1 .. Len(sectorNumbers) : sectorNumbers'[i] = sectorNumbers[i]
         /\ DealSectors' \subseteq DealSectors \cup {s}
         /\ DealSectors \subseteq DealSectors'
<1>1. sectorNumbers' = sectorNumbers \/ sectorNumbers' = Append(sectorNumbers, s)
  BY DEF ProcessPieceNotification, AcceptPlacement
<1>2. CASE sectorNumbers' = sectorNumbers
  BY <1>2, ListedInSectors DEF DealSectors
<1>3. CASE sectorNumbers' = Append(sectorNumbers, s)
  <2>1. /\ sectorNumbers \in Seq(Sectors) /\ Len(sectorNumbers) \in Nat
        /\ Len(sectorNumbers') = Len(sectorNumbers) + 1
        /\ \A i \in 1 .. Len(sectorNumbers) : sectorNumbers'[i] = sectorNumbers[i]
        /\ sectorNumbers'[Len(sectorNumbers) + 1] = s
    BY <1>3 DEF TypeOK
  <2>2. \A i \in 1 .. Len(sectorNumbers') : i \in 1 .. Len(sectorNumbers) \/ i = Len(sectorNumbers) + 1
    BY <2>1
  <2>3. \A i \in 1 .. Len(sectorNumbers) : i \in 1 .. Len(sectorNumbers')
    BY <2>1
  <2> QED
    BY <2>1, <2>2, <2>3 DEF DealSectors
<1> QED
  BY <1>1, <1>2, <1>3

LEMMA NetworkStep ==
  ASSUME NetworkInv, [Next]_vars
  PROVE  NetworkInv'
<1> USE DEF NetworkInv
<1>t. TypeOK'
  BY TypeStep
<1>l. DealSectors \subseteq Sectors
  BY ListedInSectors
<1> SUFFICES SectorsKnown' /\ ListedSealed'
  BY <1>t
<1>1. CASE Tick
  BY <1>1 DEF Tick, SectorsKnown, ListedSealed, DealSectors, TypeOK, networkVars, inventoryVars
<1>2. ASSUME NEW s \in Sectors, NEW expiration \in Expirations, SealOrExtend(s, expiration)
      PROVE  SectorsKnown' /\ ListedSealed'
  <2>1. UNCHANGED <<now, diedAt, sectorNumbers>>
    BY <1>2 DEF SealOrExtend, Seal, Extend, inventoryVars
  <2>2. \A e \in Sectors : /\ sectorStatus[e] # "Unsealed" => sectorStatus'[e] = sectorStatus[e]
                           /\ sectorStatus'[e] = "Dead" <=> sectorStatus[e] = "Dead"
    BY <1>2 DEF SealOrExtend, Seal, Extend, TypeOK
  <2>3. \A e \in Sectors : sectorStatus'[e] # "Unsealed" => sectorExpiration'[e] # 0
    BY <1>2, SectorAssumption DEF SealOrExtend, Seal, Extend, TypeOK, SectorsKnown
  <2> QED
    BY <1>l, <2>1, <2>2, <2>3 DEF SectorsKnown, ListedSealed, DealSectors
<1>3. ASSUME NEW s \in Sectors, FaultOrRecover(s)
      PROVE  SectorsKnown' /\ ListedSealed'
  <2>1. UNCHANGED <<now, diedAt, sectorExpiration, sectorNumbers>>
    BY <1>3 DEF FaultOrRecover, inventoryVars
  <2>2. \A e \in Sectors : /\ sectorStatus'[e] = "Unsealed" <=> sectorStatus[e] = "Unsealed"
                           /\ sectorStatus'[e] = "Dead" <=> sectorStatus[e] = "Dead"
    BY <1>3 DEF FaultOrRecover, TypeOK
  <2> QED
    BY <1>l, <2>1, <2>2 DEF SectorsKnown, ListedSealed, DealSectors
<1>4. ASSUME NEW s \in Sectors, Die(s)
      PROVE  SectorsKnown' /\ ListedSealed'
  <2>1. UNCHANGED <<now, sectorExpiration, sectorNumbers>>
    BY <1>4 DEF Die, inventoryVars
  <2>2. /\ sectorStatus[s] # "Unsealed" /\ now \in Nat \ {0}
        /\ \A e \in Sectors : IF e = s THEN sectorStatus'[e] = "Dead" /\ diedAt'[e] = now
                                       ELSE sectorStatus'[e] = sectorStatus[e] /\ diedAt'[e] = diedAt[e]
    BY <1>4 DEF Die, TypeOK
  <2> QED
    BY <1>l, <2>1, <2>2 DEF SectorsKnown, ListedSealed, DealSectors
<1>5. ASSUME NEW s \in Sectors, NEW p \in Pieces, ProcessPieceNotification(p, s)
      PROVE  SectorsKnown' /\ ListedSealed'
  <2>1. sectorStatus[s] = "Active" /\ UNCHANGED <<now, networkVars>>
    BY <1>5 DEF ProcessPieceNotification
  <2> QED
    BY <1>5, <2>1, ListGrows DEF SectorsKnown, ListedSealed, networkVars
<1>6. CASE ActivateEvidence
  BY <1>6 DEF ActivateEvidence, SectorsKnown, ListedSealed, DealSectors, networkVars, inventoryVars
<1>7. ASSUME NEW n \in Nat, RefreshEvidenceStatus(n)
      PROVE  SectorsKnown' /\ ListedSealed'
  BY <1>7 DEF RefreshEvidenceStatus, SectorsKnown, ListedSealed, DealSectors, networkVars, inventoryVars
<1>8. CASE QuietStep
  BY <1>8 DEF QuietStep, SectorsKnown, ListedSealed, DealSectors, networkVars, inventoryVars
<1> QED
  BY <1>1, <1>2, <1>3, <1>4, <1>5, <1>6, <1>7, <1>8, StepCases

\* Steps that change neither placements nor the sweep. Sectors get older: a
\* listed one may be extended, and may die now.
WorldStep ==
  /\ UNCHANGED <<serviceEnd, inventoryVars, receiptVars, activated, refreshVars>>
  /\ now <= now'
  /\ dealState' = dealState \/ dealState' \in Closed
  /\ \A s \in DealSectors :
       /\ sectorExpiration[s] <= sectorExpiration'[s]
       /\ diedAt'[s] = diedAt[s] \/ (diedAt[s] = 0 /\ diedAt'[s] = now)

LEMMA StepKinds ==
  ASSUME NetworkInv, [Next]_vars
  PROVE  \/ WorldStep
         \/ \E s \in Sectors, p \in Pieces : ProcessPieceNotification(p, s)
         \/ ActivateEvidence
         \/ \E n \in Nat : RefreshEvidenceStatus(n)
<1> USE DEF NetworkInv
<1>l. DealSectors \subseteq Sectors
  BY ListedInSectors
<1>n. /\ now \in Nat /\ \A s \in DealSectors : sectorExpiration[s] \in Nat
      /\ now <= now /\ now <= now + 1 /\ \A s \in DealSectors : sectorExpiration[s] <= sectorExpiration[s]
  BY <1>l DEF TypeOK
<1>1. Tick => WorldStep
  BY <1>n DEF Tick, WorldStep, dealVars, networkVars
<1>2. ASSUME NEW s \in Sectors, NEW expiration \in Expirations, SealOrExtend(s, expiration)
      PROVE  WorldStep
  <2>1. \A e \in DealSectors : sectorExpiration[e] <= sectorExpiration'[e]
    <3>1. expiration \in Nat /\ sectorExpiration \in [Sectors -> Nat]
      BY SectorAssumption DEF TypeOK
    <3>2. CASE Seal(s, expiration)
      BY <3>2, <1>l, <1>n DEF Seal, ListedSealed
    <3>3. CASE Extend(s, expiration)
      BY <3>1, <3>3, <1>l, <1>n DEF Extend
    <3> QED
      BY <1>2, <3>2, <3>3 DEF SealOrExtend
  <2> QED
    BY <1>2, <1>n, <2>1 DEF SealOrExtend, Seal, Extend, WorldStep, dealVars
<1>3. ASSUME NEW s \in Sectors, FaultOrRecover(s)
      PROVE  WorldStep
  BY <1>3, <1>n DEF FaultOrRecover, WorldStep, dealVars
<1>4. ASSUME NEW s \in Sectors, Die(s)
      PROVE  WorldStep
  <2>1. \A e \in DealSectors : diedAt'[e] = diedAt[e] \/ (diedAt[e] = 0 /\ diedAt'[e] = now)
    BY <1>4, <1>l DEF Die, SectorsKnown, TypeOK
  <2> QED
    BY <1>4, <1>n, <2>1 DEF Die, WorldStep, dealVars
<1>5. QuietStep => WorldStep
  BY <1>n DEF QuietStep, WorldStep, networkVars
<1> QED
  BY <1>1, <1>2, <1>3, <1>4, <1>5, StepCases

\* No sector of a list is dead at an epoch when those checked before the batch
\* were not and those of the batch are alive.
LEMMA BatchStored ==
  ASSUME SnapshotInv, NEW n \in Nat, RefreshEvidenceStatus(n),
         \A s \in BatchSectors(n) : Covered(s)
  PROVE  \A i \in 1 .. nextSectorIndex + n : StoredAt(sectorNumbers[i], SweepEpoch)
<1> SUFFICES ASSUME NEW i \in 1 .. nextSectorIndex + n
             PROVE  StoredAt(sectorNumbers[i], SweepEpoch)
  OBVIOUS
<1>1. CASE i <= nextSectorIndex
  BY <1>1 DEF CheckedStored, SweepEpoch, SnapshotInv, NetworkInv, TypeOK
<1>2. CASE i > nextSectorIndex
  <2>1. i \in nextSectorIndex + 1 .. nextSectorIndex + n
    BY <1>2 DEF SnapshotInv, NetworkInv, TypeOK
  <2>2. sectorNumbers[i] \in BatchSectors(n)
    BY <2>1 DEF BatchSectors
  <2>3. sectorNumbers[i] \in Sectors /\ Covered(sectorNumbers[i])
    BY <2>2, BatchListed DEF SnapshotInv, NetworkInv
  <2> QED
    BY <2>3 DEF Covered, StoredAt, SectorsKnown, SnapshotInv, NetworkInv
<1> QED
  BY <1>1, <1>2 DEF SnapshotInv, NetworkInv, TypeOK

LEMMA SweepEpochOrdered ==
  ASSUME TypeOK, SweepOrdered
  PROVE  lastCompletedEpoch <= SweepEpoch /\ SweepEpoch <= now
  BY DEF SweepEpoch, SweepOrdered, TypeOK

LEMMA SnapshotStep ==
  ASSUME SnapshotInv, [Next]_vars
  PROVE  SnapshotInv'
<1> USE DEF SnapshotInv
<1>t. TypeOK /\ TypeOK' /\ NetworkInv'
  BY NetworkStep DEF NetworkInv
<1>l. /\ DealSectors \subseteq Sectors /\ Len(sectorNumbers) \in Nat
      /\ \A i \in 1 .. Len(sectorNumbers) : sectorNumbers[i] \in DealSectors
  BY <1>t, ListedInSectors
<1>i. \A i \in 1 .. nextSectorIndex : i \in 1 .. Len(sectorNumbers)
  BY <1>t, <1>l DEF TypeOK, SweepOrdered
<1> SUFFICES SweepOrdered' /\ CheckedStored' /\ SnapshotTrue'
  BY <1>t
<1>1. CASE WorldStep
  <2>1. SweepOrdered'
    BY <1>1, <1>t DEF WorldStep, SweepOrdered, TypeOK, inventoryVars, refreshVars, sweepVars, completedVars
  <2>2. \A s \in DealSectors, epoch \in Nat : epoch <= now /\ StoredAt(s, epoch) => StoredAt(s, epoch)'
    BY <1>1 DEF WorldStep, StoredAt
  <2>3. CheckedStored'
    BY <1>1, <1>t, <1>l, <1>i, <2>2
       DEF WorldStep, CheckedStored, SweepOrdered, TypeOK, inventoryVars, refreshVars, sweepVars
  <2>4. SnapshotTrue'
    BY <1>1, <1>t, <2>2
       DEF WorldStep, SnapshotTrue, StoredAt, SweepOrdered, DealSectors, TypeOK, inventoryVars, refreshVars, completedVars
  <2> QED
    BY <2>1, <2>3, <2>4
<1>2. ASSUME NEW s \in Sectors, NEW p \in Pieces, ProcessPieceNotification(p, s)
      PROVE  SweepOrdered' /\ CheckedStored' /\ SnapshotTrue'
  <2>1. UNCHANGED <<now, diedAt, refreshVars>> /\ sectorStatus[s] = "Active"
    BY <1>2 DEF ProcessPieceNotification, networkVars
  <2>2. diedAt[s] = 0
    BY <2>1 DEF NetworkInv, SectorsKnown
  <2>3. SweepOrdered'
    <3>1. Len(sectorNumbers') \in Nat /\ nextSectorIndex \in Nat
      BY <1>t DEF TypeOK
    <3>2. nextSectorIndex <= Len(sectorNumbers')
      BY <1>2, <1>t, <1>l, <3>1, ListGrows DEF SweepOrdered
    <3> QED
      BY <2>1, <3>2 DEF SweepOrdered, refreshVars, sweepVars, completedVars
  <2>4. CheckedStored'
    BY <1>2, <2>1, <1>t, <1>i, ListGrows DEF CheckedStored, StoredAt, refreshVars, sweepVars
  <2>5. SnapshotTrue'
    BY <1>2, <1>t, <2>1, <2>2, ListGrows DEF SnapshotTrue, refreshVars, completedVars
  <2> QED
    BY <2>3, <2>4, <2>5
<1>3. CASE ActivateEvidence
  BY <1>3 DEF ActivateEvidence, SweepOrdered, CheckedStored, StoredAt, SnapshotTrue, DealSectors,
              networkVars, inventoryVars, refreshVars, sweepVars, completedVars
<1>4. ASSUME NEW n \in Nat, RefreshEvidenceStatus(n)
      PROVE  SweepOrdered' /\ CheckedStored' /\ SnapshotTrue'
  <2>1. UNCHANGED <<now, diedAt, sectorNumbers>> /\ DealSectors' = DealSectors
    BY <1>4 DEF RefreshEvidenceStatus, networkVars, inventoryVars, DealSectors
  <2>2. /\ lastCompletedEpoch <= SweepEpoch /\ SweepEpoch <= now /\ SweepEpoch \in Nat
        /\ n # 0 /\ nextSectorIndex + n <= Len(sectorNumbers)
    BY <1>4, <1>t, SweepEpochOrdered, BatchListed
  <2>3. CASE PublishLoss(n)
    BY <2>1, <2>2, <2>3, <1>l DEF PublishLoss, CompleteRefresh, SweepOrdered, CheckedStored, SnapshotTrue
  <2>4. CASE /\ \A s \in BatchSectors(n) : Covered(s)
             /\ nextSectorIndex + n = Len(sectorNumbers)
             /\ \E expiration \in Nat : CompleteRefresh("ACTIVE", expiration)
    <3>1. \A i \in 1 .. Len(sectorNumbers) : StoredAt(sectorNumbers[i], SweepEpoch)
      BY <1>4, <2>4, BatchStored
    <3>2. \A s \in DealSectors : StoredAt(s, SweepEpoch)
      BY <3>1 DEF DealSectors
    <3> QED
      BY <2>1, <2>2, <2>4, <3>2, <1>l
         DEF CompleteRefresh, SweepOrdered, CheckedStored, SnapshotTrue, StoredAt
  <2>5. CASE /\ \A s \in BatchSectors(n) : Covered(s)
             /\ nextSectorIndex' = nextSectorIndex + n
             /\ sweepStartEpoch' = SweepEpoch
             /\ UNCHANGED completedVars
    <3>1. \A i \in 1 .. nextSectorIndex + n : StoredAt(sectorNumbers[i], SweepEpoch)
      BY <1>4, <2>5, BatchStored
    <3>2. CheckedStored' /\ SnapshotTrue'
      BY <2>1, <2>5, <3>1 DEF CheckedStored, SnapshotTrue, StoredAt, completedVars
    <3>3. SweepOrdered'
      BY <2>1, <2>2, <2>5 DEF SweepOrdered, completedVars
    <3> QED
      BY <3>2, <3>3
  <2>6. ExpirationsFound(n) \subseteq Nat
    BY <1>4, <1>t, BatchListed, ExpirationsFoundNat
  <2> QED
    BY <1>4, <2>3, <2>4, <2>5, <2>6, RefreshCases
<1> QED
  BY <1>1, <1>2, <1>3, <1>4, StepKinds

LEMMA SnapshotInit ==
  ASSUME Init
  PROVE  SnapshotInv
<1>1. TypeOK
  <2>1. sectorNumbers \in Seq(Sectors) /\ placed \subseteq Pieces
    BY DEF Init
  <2>2. /\ sectorStatus \in [Sectors -> Statuses] /\ sectorExpiration \in [Sectors -> Nat]
        /\ diedAt \in [Sectors -> Nat] /\ sectorCoveredBytes \in [Sectors -> Nat]
    BY DEF Init, Statuses
  <2> QED
    BY <2>1, <2>2, SectorAssumption DEF Init, TypeOK, Results
<1>2. DealSectors = {}
  BY DEF Init, DealSectors
<1> QED
  BY <1>1, <1>2, SectorAssumption
     DEF Init, SnapshotInv, NetworkInv, SectorsKnown, ListedSealed, SweepOrdered, CheckedStored, SnapshotTrue

\* A positive snapshot is true at its date: no sector of the deal was dead
\* then, however many calls the sweep took and whatever happened between them.
THEOREM SnapshotsTrue == Spec => []SnapshotTrue
<1>1. Init => SnapshotInv
  BY SnapshotInit
<1>2. SnapshotInv /\ [Next]_vars => SnapshotInv'
  BY SnapshotStep
<1>3. SnapshotInv => SnapshotTrue
  BY DEF SnapshotInv
<1> QED
  BY <1>1, <1>2, <1>3, PTL DEF Spec

-----------------------------------------------------------------------------
(* Service is committed *)

\* Pieces are counted once, so that a complete count is a complete set, and no
\* sector of the deal is committed to less than the receipt says.
PlacementInv ==
  /\ acceptedPieceCount = Cardinality(placed)
  /\ acceptedPieceCount = 0 => sectorNumbers = <<>>
  /\ \A s \in DealSectors : minimumCommitmentEpoch <= sectorExpiration[s]

\* Nothing is placed once sweeps have begun.
PlacedBeforeSweeps == nextSectorIndex # 0 \/ completedResult # "NONE" => placed = Pieces

\* The expirations a sweep finds can only be extended.
ExpirationsFoundHold ==
  /\ nextSectorIndex # 0 =>
       /\ pendingMinimumExpiration # 0
       /\ \A i \in 1 .. nextSectorIndex : pendingMinimumExpiration <= sectorExpiration[sectorNumbers[i]]
  /\ completedResult = "ACTIVE" =>
       \A s \in DealSectors : completedExpiration <= sectorExpiration[s]

ActivatedDealMovedOn == activated => dealState # "ACCEPTED"

CommitmentInv ==
  /\ SnapshotInv
  /\ PlacementInv
  /\ PlacedBeforeSweeps
  /\ ExpirationsFoundHold
  /\ ActivatedDealMovedOn
  /\ ServiceCommitted

LEMMA PiecesFinite ==
  ASSUME TypeOK
  PROVE  /\ IsFiniteSet(placed) /\ Cardinality(placed) \in Nat
         /\ Cardinality(placed) = Cardinality(Pieces) => placed = Pieces
  BY SectorAssumption, FS_Subset, FS_CardinalityType DEF TypeOK

LEMMA CompleteSetPlaced ==
  ASSUME TypeOK, PlacementInv, HasCompletePieceSet
  PROVE  placed = Pieces
  BY PiecesFinite DEF PlacementInv, HasCompletePieceSet

\* What a batch adds to a sweep is no later than the expiration of any sector
\* the sweep has checked.
LEMMA BatchExpirations ==
  ASSUME CommitmentInv, NEW n \in Nat, RefreshEvidenceStatus(n),
         \A s \in BatchSectors(n) : Covered(s),
         NEW expiration \in ExpirationsFound(n), \A e \in ExpirationsFound(n) : expiration <= e
  PROVE  /\ expiration \in Nat \ {0}
         /\ \A i \in 1 .. nextSectorIndex + n : expiration <= sectorExpiration[sectorNumbers[i]]
<1> USE DEF CommitmentInv, SnapshotInv, NetworkInv
<1>1. BatchSectors(n) \subseteq Sectors /\ n # 0 /\ nextSectorIndex + n <= Len(sectorNumbers)
  BY BatchListed
<1>2. expiration \in Nat
  BY <1>1, ExpirationsFoundNat
<1>3. \A s \in BatchSectors(n) : sectorExpiration[s] # 0 /\ sectorExpiration[s] \in ExpirationsFound(n)
  BY <1>1 DEF Covered, SectorsKnown, ExpirationsFound
<1>4. expiration # 0
  BY <1>3 DEF ExpirationsFound
<1>5. ASSUME NEW i \in 1 .. nextSectorIndex
      PROVE  expiration <= sectorExpiration[sectorNumbers[i]]
  <2>1. nextSectorIndex # 0 /\ i \in 1 .. Len(sectorNumbers) /\ nextSectorIndex \in Nat
    BY <1>1 DEF TypeOK
  <2>2. pendingMinimumExpiration \in ExpirationsFound(n)
    BY <2>1 DEF ExpirationsFoundHold, ExpirationsFound
  <2>3. pendingMinimumExpiration <= sectorExpiration[sectorNumbers[i]]
    BY <2>1 DEF ExpirationsFoundHold
  <2>4. sectorExpiration[sectorNumbers[i]] \in Nat /\ pendingMinimumExpiration \in Nat
    BY <2>1 DEF TypeOK
  <2> QED
    BY <1>2, <2>2, <2>3, <2>4
<1>6. ASSUME NEW i \in nextSectorIndex + 1 .. nextSectorIndex + n
      PROVE  expiration <= sectorExpiration[sectorNumbers[i]]
  BY <1>3, <1>6 DEF BatchSectors
<1> QED
  BY <1>2, <1>4, <1>5, <1>6 DEF TypeOK

LEMMA PlacementCommitted ==
  ASSUME CommitmentInv, NEW s \in Sectors, NEW p \in Pieces, ProcessPieceNotification(p, s)
  PROVE  PlacementInv' /\ PlacedBeforeSweeps' /\ ExpirationsFoundHold' /\ ActivatedDealMovedOn' /\ ServiceCommitted'
<1> USE DEF CommitmentInv, SnapshotInv, NetworkInv
<1>1. /\ p \notin placed /\ placed' = placed \cup {p} /\ acceptedPieceCount' = acceptedPieceCount + 1
      /\ minimumCommitmentEpoch' = LowestEpoch(sectorExpiration[s])
      /\ dealState = "ACCEPTED"
      /\ UNCHANGED <<dealVars, sectorExpiration, diedAt, activated, refreshVars>>
  BY DEF ProcessPieceNotification, AcceptPlacement, PieceAcceptable, PieceIsNew, networkVars
<1>2. placed # Pieces /\ nextSectorIndex = 0 /\ completedResult = "NONE"
  BY <1>1 DEF PlacedBeforeSweeps
<1>3. ~activated
  BY <1>1 DEF ActivatedDealMovedOn
<1>4. PlacedBeforeSweeps' /\ ExpirationsFoundHold' /\ ActivatedDealMovedOn' /\ ServiceCommitted'
  BY <1>1, <1>2, <1>3
     DEF PlacedBeforeSweeps, ExpirationsFoundHold, ActivatedDealMovedOn, ServiceCommitted, refreshVars, sweepVars, completedVars
<1>5. acceptedPieceCount' = Cardinality(placed') /\ acceptedPieceCount' # 0
  <2>1. IsFiniteSet(placed) /\ Cardinality(placed) \in Nat
    BY PiecesFinite
  <2>2. Cardinality(placed \cup {p}) = Cardinality(placed) + 1
    BY <1>1, <2>1, FS_AddElement
  <2> QED
    BY <1>1, <2>1, <2>2 DEF PlacementInv
<1>6. DealSectors \subseteq Sectors /\ DealSectors' \subseteq DealSectors \cup {s}
  BY ListedInSectors, ListGrows
<1>7. /\ minimumCommitmentEpoch' <= sectorExpiration[s]
      /\ acceptedPieceCount # 0 => minimumCommitmentEpoch' <= minimumCommitmentEpoch
      /\ minimumCommitmentEpoch' \in Nat /\ minimumCommitmentEpoch \in Nat
  BY <1>1 DEF LowestEpoch, TypeOK
<1>8. acceptedPieceCount = 0 => DealSectors = {}
  BY DEF PlacementInv, DealSectors
<1>9. ASSUME NEW e \in DealSectors'
      PROVE  minimumCommitmentEpoch' <= sectorExpiration[e]
  <2>1. CASE e = s
    BY <1>7, <2>1
  <2>2. CASE e \in DealSectors
    <3>1. minimumCommitmentEpoch <= sectorExpiration[e] /\ sectorExpiration[e] \in Nat
      BY <1>6, <2>2 DEF PlacementInv, TypeOK
    <3> QED
      BY <1>7, <1>8, <2>2, <3>1
  <2> QED
    BY <1>6, <2>1, <2>2
<1> QED
  BY <1>1, <1>4, <1>5, <1>9 DEF PlacementInv

LEMMA RefreshCommitted ==
  ASSUME CommitmentInv, NEW n \in Nat, RefreshEvidenceStatus(n)
  PROVE  PlacementInv' /\ PlacedBeforeSweeps' /\ ExpirationsFoundHold' /\ ActivatedDealMovedOn' /\ ServiceCommitted'
<1> USE DEF CommitmentInv, SnapshotInv, NetworkInv
<1>1. /\ UNCHANGED <<dealVars, networkVars, inventoryVars, receiptVars, activated>>
      /\ DealSectors' = DealSectors /\ HasCompletePieceSet
  BY DEF RefreshEvidenceStatus, inventoryVars, DealSectors
<1>2. placed = Pieces
  BY <1>1, CompleteSetPlaced
<1>3. PlacementInv' /\ PlacedBeforeSweeps' /\ ActivatedDealMovedOn' /\ ServiceCommitted'
  BY <1>1, <1>2
     DEF PlacementInv, PlacedBeforeSweeps, ActivatedDealMovedOn, ServiceCommitted, dealVars, networkVars,
         inventoryVars, receiptVars
<1>4. nextSectorIndex + n <= Len(sectorNumbers)
  BY BatchListed
<1>5. PublishLoss(n) => ExpirationsFoundHold'
  BY DEF PublishLoss, CompleteRefresh, ExpirationsFoundHold
<1>6. ASSUME \A s \in BatchSectors(n) : Covered(s),
             NEW expiration \in ExpirationsFound(n), \A e \in ExpirationsFound(n) : expiration <= e
      PROVE  /\ nextSectorIndex + n = Len(sectorNumbers) /\ CompleteRefresh("ACTIVE", expiration)
               => ExpirationsFoundHold'
             /\ /\ nextSectorIndex' = nextSectorIndex + n
                /\ pendingMinimumExpiration' = expiration
                /\ UNCHANGED completedVars
               => ExpirationsFoundHold'
  <2>1. /\ expiration # 0
        /\ \A i \in 1 .. nextSectorIndex + n : expiration <= sectorExpiration[sectorNumbers[i]]
    BY <1>6, BatchExpirations
  <2> QED
    BY <1>1, <2>1 DEF CompleteRefresh, ExpirationsFoundHold, DealSectors, networkVars, inventoryVars, completedVars
<1> QED
  BY <1>3, <1>5, <1>6, RefreshCases

LEMMA WorldCommitted ==
  ASSUME CommitmentInv, TypeOK', WorldStep
  PROVE  PlacementInv' /\ PlacedBeforeSweeps' /\ ExpirationsFoundHold' /\ ActivatedDealMovedOn' /\ ServiceCommitted'
<1> USE DEF CommitmentInv, SnapshotInv, NetworkInv
<1>1. /\ UNCHANGED <<serviceEnd, inventoryVars, receiptVars, activated, refreshVars>>
      /\ DealSectors' = DealSectors
  BY DEF WorldStep, inventoryVars, DealSectors
<1>2. /\ DealSectors \subseteq Sectors
      /\ \A i \in 1 .. nextSectorIndex : sectorNumbers[i] \in DealSectors
  <2>1. nextSectorIndex \in Nat /\ Len(sectorNumbers) \in Nat /\ nextSectorIndex <= Len(sectorNumbers)
    BY ListedInSectors DEF SweepOrdered, TypeOK
  <2>2. \A i \in 1 .. nextSectorIndex : i \in 1 .. Len(sectorNumbers)
    BY <2>1
  <2> QED
    BY <2>2, ListedInSectors
<1>3. \A s \in DealSectors, e \in Nat : e <= sectorExpiration[s] => e <= sectorExpiration'[s]
  <2> SUFFICES ASSUME NEW s \in DealSectors, NEW e \in Nat, e <= sectorExpiration[s]
               PROVE  e <= sectorExpiration'[s]
    OBVIOUS
  <2>1. sectorExpiration[s] \in Nat /\ sectorExpiration'[s] \in Nat /\ sectorExpiration[s] <= sectorExpiration'[s]
    BY <1>2 DEF TypeOK, WorldStep
  <2> QED
    BY <2>1
<1>4. PlacementInv' /\ PlacedBeforeSweeps'
  BY <1>1, <1>3 DEF PlacementInv, PlacedBeforeSweeps, inventoryVars, receiptVars, refreshVars, sweepVars, completedVars, TypeOK
<1>5. ExpirationsFoundHold'
  BY <1>1, <1>2, <1>3 DEF ExpirationsFoundHold, inventoryVars, refreshVars, sweepVars, completedVars, TypeOK
<1>6. ActivatedDealMovedOn'
  BY DEF ActivatedDealMovedOn, WorldStep, Closed
<1>7. \A s \in DealSectors : diedAt[s] # 0 => diedAt'[s] # 0
  BY DEF WorldStep
<1>8. ServiceCommitted'
  BY <1>1, <1>3, <1>7 DEF ServiceCommitted, TypeOK
<1> QED
  BY <1>4, <1>5, <1>6, <1>8

LEMMA ActivationCommitted ==
  ASSUME CommitmentInv, ActivateEvidence
  PROVE  PlacementInv' /\ PlacedBeforeSweeps' /\ ExpirationsFoundHold' /\ ActivatedDealMovedOn' /\ ServiceCommitted'
<1> USE DEF CommitmentInv, SnapshotInv, NetworkInv
<1>1. /\ UNCHANGED <<networkVars, inventoryVars, receiptVars, refreshVars>>
      /\ DealSectors' = DealSectors
      /\ dealState' = "ACTIVE"
      /\ serviceEnd' = now + DurationEpochs
      /\ CommitmentEpoch >= now + DurationEpochs
  BY DEF ActivateEvidence, inventoryVars, DealSectors
<1>2. \A s \in DealSectors : CommitmentEpoch <= sectorExpiration[s]
  BY DEF CommitmentEpoch, PlacementInv, ExpirationsFoundHold
<1>3. CommitmentEpoch \in Nat /\ serviceEnd' \in Nat
  BY <1>1, SectorAssumption DEF CommitmentEpoch, TypeOK
<1>4. \A s \in DealSectors : sectorExpiration[s] \in Nat
  BY ListedInSectors DEF TypeOK
<1>5. \A s \in DealSectors : serviceEnd' <= sectorExpiration[s]
  BY <1>1, <1>2, <1>3, <1>4
<1> QED
  BY <1>1, <1>5
     DEF PlacementInv, PlacedBeforeSweeps, ExpirationsFoundHold, ActivatedDealMovedOn, ServiceCommitted,
         networkVars, inventoryVars, receiptVars, refreshVars, sweepVars, completedVars

LEMMA CommitmentStep ==
  ASSUME CommitmentInv, [Next]_vars
  PROVE  CommitmentInv'
<1>1. SnapshotInv' /\ TypeOK'
  BY SnapshotStep DEF CommitmentInv, SnapshotInv, NetworkInv
<1>2. PlacementInv' /\ PlacedBeforeSweeps' /\ ExpirationsFoundHold' /\ ActivatedDealMovedOn' /\ ServiceCommitted'
  BY <1>1, StepKinds, PlacementCommitted, RefreshCommitted, WorldCommitted, ActivationCommitted
     DEF CommitmentInv, SnapshotInv
<1> QED
  BY <1>1, <1>2 DEF CommitmentInv

LEMMA CommitmentInit ==
  ASSUME Init
  PROVE  CommitmentInv
<1>1. SnapshotInv
  BY SnapshotInit
<1>2. DealSectors = {}
  BY DEF Init, DealSectors
<1>3. PlacementInv
  BY <1>2, FS_EmptySet DEF Init, PlacementInv
<1> QED
  BY <1>1, <1>2, <1>3
     DEF Init, CommitmentInv, PlacedBeforeSweeps, ExpirationsFoundHold, ActivatedDealMovedOn, ServiceCommitted

\* Every living sector of an activated deal is committed beyond the end of the
\* deal's service, by the epoch reported at sealing or by an extension.
THEOREM ServiceIsCommitted == Spec => []ServiceCommitted
<1>1. Init => CommitmentInv
  BY CommitmentInit
<1>2. CommitmentInv /\ [Next]_vars => CommitmentInv'
  BY CommitmentStep
<1>3. CommitmentInv => ServiceCommitted
  BY DEF CommitmentInv
<1> QED
  BY <1>1, <1>2, <1>3, PTL DEF Spec

-----------------------------------------------------------------------------
(* The adapter implements the snapshots the market relies on *)

LEMMA LeastExists ==
  ASSUME NEW S \in SUBSET Nat, S # {}
  PROVE  \E e \in S : LeastOf(e, S)
<1> DEFINE Less == {ss \in Nat \X Nat : ss[1] < ss[2]}
<1>1. IsWellFoundedOn(Less, Nat)
  BY NatLessThanWellFounded DEF OpToRel
<1>2. PICK e \in S : \A f \in S : <<f, e>> \notin Less
  <2> HIDE DEF Less
  <2> QED
    BY <1>1, WFMin
<1>3. ASSUME NEW f \in S
      PROVE  e <= f
  <2>1. <<f, e>> \in Nat \X Nat /\ e \in Nat /\ f \in Nat
    OBVIOUS
  <2>2. ~(<<f, e>>[1] < <<f, e>>[2])
    BY <1>2, <2>1
  <2> QED
    BY <2>1, <2>2
<1> QED
  BY <1>3 DEF LeastOf

\* The first death is well defined.
LEMMA LostAtFirstDeath ==
  ASSUME NetworkInv
  PROVE  /\ Deaths \subseteq Nat \ {0} /\ \A e \in Deaths : e <= now
         /\ Deaths = {} => LostAt = 0
         /\ Deaths # {} => LeastOf(LostAt, Deaths)
<1>1. /\ Deaths \subseteq Nat \ {0} /\ \A e \in Deaths : e <= now
  BY ListedInSectors DEF Deaths, NetworkInv, SectorsKnown, TypeOK
<1>2. ASSUME Deaths # {}
      PROVE  \E e \in Deaths : LeastOf(e, Deaths)
  BY <1>1, <1>2, LeastExists
<1> QED
  BY <1>1, <1>2 DEF LostAt

LEMMA LeastUnique ==
  ASSUME NEW S \in SUBSET Nat, NEW a, NEW b, LeastOf(a, S), LeastOf(b, S)
  PROVE  a = b
  BY DEF LeastOf

\* A step after which deal sectors have the deaths they had, or one more now.
LEMMA DeathsStep ==
  ASSUME NetworkInv, NetworkInv',
         Deaths' = Deaths \/ Deaths' = Deaths \cup {now}
  PROVE  LostAt' = LostAt \/ (LostAt = 0 /\ LostAt' = now)
<1>1. Deaths \subseteq Nat /\ Deaths' \subseteq Nat /\ now \in Nat /\ \A e \in Deaths : e <= now
  BY LostAtFirstDeath DEF NetworkInv, TypeOK
<1>2. CASE Deaths' = Deaths
  BY <1>2 DEF LostAt, LeastOf
<1>3. CASE Deaths' = Deaths \cup {now} /\ Deaths = {}
  BY <1>3, LostAtFirstDeath DEF LostAt, LeastOf
<1>4. CASE Deaths' = Deaths \cup {now} /\ Deaths # {}
  <2>1. LeastOf(LostAt, Deaths)
    BY <1>4, LostAtFirstDeath
  <2>2. LeastOf(LostAt, Deaths')
    BY <1>1, <1>4, <2>1 DEF LeastOf
  <2>3. \A e \in Deaths' : LeastOf(e, Deaths') <=> e = LostAt
    BY <1>1, <2>2, LeastUnique
  <2>4. LostAt' = CHOOSE e \in Deaths' : LeastOf(e, Deaths')
    BY <1>4 DEF LostAt, LeastOf
  <2> QED
    BY <2>2, <2>3, <2>4 DEF LeastOf
<1> QED
  BY <1>2, <1>3, <1>4

\* A step the market does not see.
LEMMA Unseen ==
  ASSUME UNCHANGED <<now, receiptVars, completedVars>>, Deaths' = Deaths
  PROVE  UNCHANGED Snapshots!snapshotVars
<1>1. HasCompletePieceSet' = HasCompletePieceSet
  BY DEF HasCompletePieceSet, receiptVars
<1>2. LostAt' = LostAt
  BY DEF LostAt, LeastOf
<1> QED
  BY <1>1, <1>2 DEF Snapshots!snapshotVars, completedVars

LEMMA TickRefines ==
  ASSUME Tick
  PROVE  Snapshots!Tick
<1>1. UNCHANGED <<networkVars, inventoryVars, receiptVars, completedVars>> /\ now' = now + 1
  BY DEF Tick, refreshVars
<1>2. Deaths' = Deaths
  BY <1>1 DEF Deaths, DealSectors, networkVars, inventoryVars
<1>3. HasCompletePieceSet' = HasCompletePieceSet
  BY <1>1 DEF HasCompletePieceSet, receiptVars
<1>4. LostAt' = LostAt
  BY <1>2 DEF LostAt, LeastOf
<1> QED
  BY <1>1, <1>3, <1>4 DEF Snapshots!Tick, completedVars

\* The death of a sector is a loss unless the sector holds nothing of the deal
\* or something was lost before.
LEMMA DieRefines ==
  ASSUME NetworkInv, NetworkInv', NEW s \in Sectors, Die(s)
  PROVE  Snapshots!Lose \/ UNCHANGED Snapshots!snapshotVars
<1>1. /\ UNCHANGED <<now, receiptVars, completedVars>> /\ DealSectors' = DealSectors
      /\ diedAt' = [diedAt EXCEPT ![s] = now]
  BY DEF Die, inventoryVars, refreshVars, DealSectors
<1>2. DealSectors \subseteq Sectors /\ diedAt \in [Sectors -> Nat] /\ now # 0
  BY ListedInSectors DEF NetworkInv, TypeOK
<1>3. diedAt[s] = 0
  BY DEF Die, NetworkInv, SectorsKnown
<1>4. Deaths' = Deaths \/ Deaths' = Deaths \cup {now}
  <2>1. CASE s \in DealSectors
    <3>1. {e \in DealSectors : diedAt'[e] # 0} = {e \in DealSectors : diedAt[e] # 0} \cup {s}
      BY <1>1, <1>2, <2>1
    <3>2. \A e \in DealSectors : diedAt[e] # 0 => diedAt'[e] = diedAt[e]
      BY <1>1, <1>2, <1>3
    <3>3. diedAt'[s] = now
      BY <1>1, <1>2
    <3> QED
      BY <1>1, <3>1, <3>2, <3>3 DEF Deaths
  <2>2. CASE s \notin DealSectors
    <3>1. \A e \in DealSectors : diedAt'[e] = diedAt[e]
      BY <1>1, <1>2, <2>2
    <3> QED
      BY <1>1, <3>1 DEF Deaths
  <2> QED
    BY <2>1, <2>2
<1>5. LostAt' = LostAt \/ (LostAt = 0 /\ LostAt' = now)
  BY <1>4, DeathsStep
<1>6. HasCompletePieceSet' = HasCompletePieceSet
  BY <1>1 DEF HasCompletePieceSet, receiptVars
<1> QED
  BY <1>1, <1>5, <1>6 DEF Snapshots!Lose, Snapshots!snapshotVars, completedVars

\* The last placement completes the evidence.
LEMMA PlacementRefines ==
  ASSUME CommitmentInv, NEW s \in Sectors, NEW p \in Pieces, ProcessPieceNotification(p, s)
  PROVE  Snapshots!Complete \/ UNCHANGED Snapshots!snapshotVars
<1> USE DEF CommitmentInv, SnapshotInv, NetworkInv
<1>1. /\ p \notin placed /\ sectorStatus[s] = "Active"
      /\ UNCHANGED <<now, diedAt, completedVars>>
  BY DEF ProcessPieceNotification, AcceptPlacement, PieceIsNew, networkVars, refreshVars
<1>2. ~HasCompletePieceSet
  BY <1>1, CompleteSetPlaced
<1>3. diedAt[s] = 0
  BY <1>1 DEF SectorsKnown
<1>4. Deaths' = Deaths
  BY <1>1, <1>3, ListGrows DEF Deaths
<1>5. LostAt' = LostAt
  BY <1>4 DEF LostAt, LeastOf
<1>6. HasCompletePieceSet' \in BOOLEAN
  BY DEF HasCompletePieceSet
<1>7. CASE HasCompletePieceSet'
  BY <1>1, <1>2, <1>5, <1>7 DEF Snapshots!Complete, completedVars
<1>8. CASE ~HasCompletePieceSet'
  BY <1>1, <1>2, <1>5, <1>8 DEF Snapshots!snapshotVars, completedVars, HasCompletePieceSet
<1> QED
  BY <1>7, <1>8

\* A sweep that completes publishes a snapshot of the epoch it began.
LEMMA RefreshRefines ==
  ASSUME CommitmentInv, NEW n \in Nat, RefreshEvidenceStatus(n)
  PROVE  Snapshots!Publish \/ UNCHANGED Snapshots!snapshotVars
<1> USE DEF CommitmentInv, SnapshotInv, NetworkInv
<1>1. UNCHANGED <<now, networkVars, inventoryVars, receiptVars>> /\ HasCompletePieceSet
  BY DEF RefreshEvidenceStatus
<1>2. Deaths' = Deaths /\ LostAt' = LostAt
  <2>1. Deaths' = Deaths
    BY <1>1 DEF Deaths, DealSectors, networkVars, inventoryVars
  <2> QED
    BY <2>1 DEF LostAt, LeastOf
<1>3. HasCompletePieceSet'
  BY <1>1 DEF HasCompletePieceSet, receiptVars
<1>4. SweepEpoch \in lastCompletedEpoch .. now
  <2>1. SweepEpoch \in Nat /\ lastCompletedEpoch \in Nat /\ now \in Nat
    BY BatchListed DEF TypeOK
  <2> QED
    BY <2>1, SweepEpochOrdered
<1>5. PublishLoss(n) => Snapshots!Publish
  <2> SUFFICES ASSUME PublishLoss(n) PROVE Snapshots!Publish
    OBVIOUS
  <2>1. PICK s \in BatchSectors(n) : ~Covered(s)
    BY DEF PublishLoss, BatchLost
  <2>2. s \in DealSectors /\ s \in Sectors
    BY <2>1, BatchListed
  <2>3. sectorStatus[s] = "Dead"
    BY <2>1, <2>2 DEF Covered, ListedSealed, TypeOK, Statuses
  <2>4. diedAt[s] \in Deaths
    BY <2>2, <2>3 DEF SectorsKnown, Deaths
  <2>5. LostAt # 0
    BY <2>4, LostAtFirstDeath DEF LeastOf
  <2> QED
    BY <1>1, <1>2, <1>3, <1>4, <2>5 DEF PublishLoss, CompleteRefresh, Snapshots!Publish
<1>6. ASSUME \A s \in BatchSectors(n) : Covered(s), NEW expiration,
             nextSectorIndex + n = Len(sectorNumbers), CompleteRefresh("ACTIVE", expiration)
      PROVE  Snapshots!Publish
  <2>1. \A i \in 1 .. Len(sectorNumbers) : StoredAt(sectorNumbers[i], SweepEpoch)
    BY <1>6, BatchStored
  <2>2. \A e \in Deaths : SweepEpoch <= e
    BY <2>1 DEF Deaths, DealSectors, StoredAt
  <2>3. Snapshots!StoredAt(SweepEpoch)
    BY <2>2, LostAtFirstDeath DEF Snapshots!StoredAt, LeastOf
  <2> QED
    BY <1>1, <1>2, <1>3, <1>4, <1>6, <2>3 DEF CompleteRefresh, Snapshots!Publish
<1>7. UNCHANGED completedVars => UNCHANGED Snapshots!snapshotVars
  BY <1>1, <1>2, Unseen
<1> QED
  BY <1>5, <1>6, <1>7, RefreshCases

LEMMA SnapshotsStep ==
  ASSUME CommitmentInv, CommitmentInv', [Next]_vars
  PROVE  [Snapshots!Next]_(Snapshots!snapshotVars)
<1> USE DEF CommitmentInv, SnapshotInv, NetworkInv
<1>1. Tick => Snapshots!Next
  BY TickRefines DEF Snapshots!Next
<1>2. ASSUME NEW s \in Sectors, NEW expiration \in Expirations, SealOrExtend(s, expiration)
      PROVE  UNCHANGED Snapshots!snapshotVars
  BY <1>2, Unseen DEF SealOrExtend, Seal, Extend, Deaths, DealSectors, inventoryVars, refreshVars
<1>3. ASSUME NEW s \in Sectors, FaultOrRecover(s)
      PROVE  UNCHANGED Snapshots!snapshotVars
  BY <1>3, Unseen DEF FaultOrRecover, Deaths, DealSectors, inventoryVars, refreshVars
<1>4. ASSUME NEW s \in Sectors, Die(s)
      PROVE  Snapshots!Next \/ UNCHANGED Snapshots!snapshotVars
  BY <1>4, DieRefines DEF Snapshots!Next
<1>5. ASSUME NEW s \in Sectors, NEW p \in Pieces, ProcessPieceNotification(p, s)
      PROVE  Snapshots!Next \/ UNCHANGED Snapshots!snapshotVars
  BY <1>5, PlacementRefines DEF Snapshots!Next
<1>6. ActivateEvidence => UNCHANGED Snapshots!snapshotVars
  BY Unseen DEF ActivateEvidence, Deaths, DealSectors, networkVars, inventoryVars, refreshVars
<1>7. ASSUME NEW n \in Nat, RefreshEvidenceStatus(n)
      PROVE  Snapshots!Next \/ UNCHANGED Snapshots!snapshotVars
  BY <1>7, RefreshRefines DEF Snapshots!Next
<1>8. QuietStep => UNCHANGED Snapshots!snapshotVars
  BY Unseen DEF QuietStep, Deaths, DealSectors, networkVars, inventoryVars, refreshVars
<1> QED
  BY <1>1, <1>2, <1>3, <1>4, <1>5, <1>6, <1>7, <1>8, StepCases

LEMMA SnapshotsInit ==
  ASSUME Init
  PROVE  Snapshots!Init
<1>1. now \in Nat \ {0} /\ completedResult = "NONE" /\ lastCompletedEpoch = 0
  BY SectorAssumption DEF Init
<1>2. HasCompletePieceSet = FALSE
  <2>1. Cardinality(Pieces) # 0
    BY SectorAssumption, FS_EmptySet
  <2> QED
    BY <2>1 DEF Init, HasCompletePieceSet
<1>3. Deaths = {}
  BY DEF Init, Deaths, DealSectors
<1> QED
  BY <1>1, <1>2, <1>3 DEF Snapshots!Init, LostAt

\* The adapter implements EvidenceSnapshots: whatever the sectors and the calls
\* of a sweep do, the market sees complete evidence, a first loss, and snapshots
\* in order that are true at their date.
THEOREM AdapterImplementsSnapshots == Spec => ImplementsSnapshots
<1>1. Init => CommitmentInv /\ Snapshots!Init
  BY CommitmentInit, SnapshotsInit
<1>2. CommitmentInv /\ [Next]_vars => CommitmentInv'
  BY CommitmentStep
<1>3. CommitmentInv /\ CommitmentInv' /\ [Next]_vars => [Snapshots!Next]_(Snapshots!snapshotVars)
  BY SnapshotsStep
<1> QED
  BY <1>1, <1>2, <1>3, PTL DEF Spec, ImplementsSnapshots, Snapshots!Spec

-----------------------------------------------------------------------------
(* Placements add up *)

SectorsBefore(i) == {sectorNumbers[j] : j \in 1 .. i}

\* No sector is listed twice.
ListedOnce ==
  \A i, j \in 1 .. Len(sectorNumbers) : sectorNumbers[i] = sectorNumbers[j] => i = j

AddUpInv == CommitmentInv /\ ListedOnce /\ PlacementsAddUp

LEMMA ListFinite ==
  ASSUME TypeOK, NEW i \in Nat, i <= Len(sectorNumbers)
  PROVE  /\ IsFiniteSet(SectorsBefore(i)) /\ SectorsBefore(i) \subseteq DealSectors
         /\ \A s \in SectorsBefore(i) : s \in Sectors /\ sectorCoveredBytes[s] \in Nat
<1>1. \A j \in 1 .. i : j \in 1 .. Len(sectorNumbers) /\ sectorNumbers[j] \in Sectors
  BY DEF TypeOK
<1>2. IsFiniteSet(SectorsBefore(i))
  <2>1. IsFiniteSet(1 .. i)
    BY FS_Interval
  <2> DEFINE entry == [j \in 1 .. i |-> sectorNumbers[j]]
  <2>2. entry \in [1 .. i -> Sectors] /\ SectorsBefore(i) = {entry[j] : j \in 1 .. i}
    BY <1>1 DEF SectorsBefore
  <2>3. entry \in Surjection(1 .. i, SectorsBefore(i))
    BY <2>2 DEF Surjection
  <2> QED
    BY <2>1, <2>3, FS_Surjection
<1> QED
  BY <1>1, <1>2 DEF SectorsBefore, DealSectors, TypeOK

\* The three records change together.
LEMMA PlacementAddsUp ==
  ASSUME AddUpInv, NEW s \in Sectors, NEW p \in Pieces, ProcessPieceNotification(p, s)
  PROVE  ListedOnce' /\ PlacementsAddUp'
<1> USE DEF AddUpInv, CommitmentInv, SnapshotInv, NetworkInv
<1> DEFINE bytes == sectorCoveredBytes
           old == DealSectors
<1>1. /\ p \notin placed /\ placed' = placed \cup {p}
      /\ sectorNumbers' = IF bytes[s] = 0 THEN Append(sectorNumbers, s) ELSE sectorNumbers
      /\ bytes' = [bytes EXCEPT ![s] = @ + PieceSize[p]]
      /\ acceptedPieceCount' = acceptedPieceCount + 1
      /\ acceptedBytes' = acceptedBytes + PieceSize[p]
      /\ UNCHANGED refreshVars
  BY DEF ProcessPieceNotification, AcceptPlacement, PieceIsNew
<1>2. /\ bytes \in [Sectors -> Nat] /\ sectorNumbers \in Seq(Sectors) /\ Len(sectorNumbers) \in Nat
      /\ PieceSize[p] \in Nat \ {0} /\ PieceSize \in [Pieces -> Nat] /\ placed \subseteq Pieces
      /\ acceptedBytes \in Nat /\ IsFiniteSet(placed) /\ old \subseteq Sectors
  BY PiecesFinite, ListedInSectors, SectorAssumption DEF TypeOK
<1>3. /\ acceptedPieceCount = Cardinality(placed) /\ acceptedBytes = SumFunctionOnSet(PieceSize, placed)
      /\ acceptedBytes = SumFunctionOnSet(bytes, old)
      /\ Cardinality(old) = Len(sectorNumbers) /\ old = {e \in Sectors : bytes[e] # 0}
      /\ pendingCoveredBytes = SumFunctionOnSet(bytes, SectorsBefore(nextSectorIndex))
  BY DEF PlacementsAddUp, SectorsBefore
<1>4. acceptedPieceCount' = Cardinality(placed')
  BY <1>1, <1>2, <1>3, FS_AddElement
<1>5. acceptedBytes' = SumFunctionOnSet(PieceSize, placed')
  <2>1. p \in placed' /\ placed' \ {p} = placed /\ IsFiniteSet(placed')
        /\ \A x \in placed' : PieceSize[x] \in Int
    BY <1>1, <1>2, FS_AddElement
  <2>2. SumFunctionOnSet(PieceSize, placed') = PieceSize[p] + SumFunctionOnSet(PieceSize, placed' \ {p})
    BY <2>1, SumRemove
  <2>3. SumFunctionOnSet(PieceSize, placed' \ {p}) = SumFunctionOnSet(PieceSize, placed)
    BY <2>1, Zenon
  <2> QED
    BY <1>1, <1>2, <1>3, <2>2, <2>3
<1>6. /\ IsFiniteSet(old)
      /\ bytes[s] = 0 => s \notin old /\ old' = old \cup {s}
      /\ bytes[s] # 0 => s \in old /\ old' = old
  <2>1. IsFiniteSet(old)
    <3>1. old = SectorsBefore(Len(sectorNumbers))
      BY DEF SectorsBefore, DealSectors
    <3> QED
      BY <1>2, <3>1, ListFinite
  <2>2. CASE bytes[s] = 0
    <3>1. /\ Len(sectorNumbers') = Len(sectorNumbers) + 1
          /\ Len(sectorNumbers') \in 1 .. Len(sectorNumbers') /\ sectorNumbers'[Len(sectorNumbers')] = s
      BY <1>1, <1>2, <2>2
    <3>2. s \in old'
      BY <3>1 DEF DealSectors
    <3> QED
      BY <1>3, <2>1, <2>2, <3>2, ListGrows
  <2>3. CASE bytes[s] # 0
    BY <1>1, <1>3, <2>1, <2>3 DEF DealSectors
  <2> QED
    BY <2>1, <2>2, <2>3
<1>7. old' = {e \in Sectors : bytes'[e] # 0}
  <2>1. \A e \in Sectors : bytes'[e] # 0 <=> e = s \/ bytes[e] # 0
    BY <1>1, <1>2
  <2> QED
    BY <1>3, <1>6, <2>1
<1>8. acceptedBytes' = SumFunctionOnSet(bytes', old')
  <2>1. /\ old \ {s} = old' \ {s} /\ s \in old'
        /\ \A e \in old : bytes[e] \in Int
        /\ \A e \in old' : bytes'[e] \in Int
        /\ \A e \in old \ {s} : bytes'[e] = bytes[e]
        /\ bytes'[s] = bytes[s] + PieceSize[p] /\ bytes[s] \in Nat
    BY <1>1, <1>2, <1>6
  <2>2. SumFunctionOnSet(bytes, old') = SumFunctionOnSet(bytes, old)
    <3>1. CASE bytes[s] = 0
      <4>1. old' \ {s} = old /\ IsFiniteSet(old') /\ \A e \in old' : bytes[e] \in Int
        BY <1>2, <1>6, <3>1, FS_AddElement
      <4>2. SumFunctionOnSet(bytes, old') = bytes[s] + SumFunctionOnSet(bytes, old' \ {s})
        BY <2>1, <4>1, SumRemove
      <4>3. SumFunctionOnSet(bytes, old' \ {s}) = acceptedBytes
        BY <1>3, <4>1, Zenon
      <4> QED
        BY <1>2, <1>3, <3>1, <4>2, <4>3
    <3> QED
      BY <1>6, <3>1
  <2>3. SumFunctionOnSet(bytes', old') = SumFunctionOnSet(bytes, old') + PieceSize[p]
    <3>1. IsFiniteSet(old')
      BY <1>6, FS_AddElement
    <3>2. /\ \A e \in old' : bytes[e] \in Int
          /\ \A e \in old' \ {s} : bytes'[e] = bytes[e]
      BY <1>1, <1>2, <1>6
    <3>3. s \in old' /\ PieceSize[p] \in Int /\ bytes'[s] = bytes[s] + PieceSize[p]
      BY <1>2, <2>1, <1>6
    <3> QED
      BY <3>1, <3>2, <3>3, SumRaised
  <2> QED
    BY <1>1, <1>3, <2>2, <2>3
<1>9. Cardinality(old') = Len(sectorNumbers') /\ ListedOnce'
  <2>1. CASE bytes[s] = 0
    <3>1. /\ Len(sectorNumbers') = Len(sectorNumbers) + 1
          /\ \A i \in 1 .. Len(sectorNumbers) : sectorNumbers'[i] = sectorNumbers[i] /\ sectorNumbers[i] # s
          /\ sectorNumbers'[Len(sectorNumbers) + 1] = s
      BY <1>1, <1>2, <1>6, <2>1 DEF DealSectors
    <3>2. Cardinality(old') = Cardinality(old) + 1
      BY <1>6, <2>1, FS_AddElement
    <3>3. ListedOnce'
      <4>1. \A i \in 1 .. Len(sectorNumbers') : i \in 1 .. Len(sectorNumbers) \/ i = Len(sectorNumbers) + 1
        BY <1>2, <3>1
      <4> QED
        BY <3>1, <4>1 DEF ListedOnce
    <3> QED
      BY <1>3, <3>1, <3>2, <3>3
  <2>2. CASE bytes[s] # 0
    BY <1>1, <1>3, <1>6, <2>2 DEF ListedOnce
  <2> QED
    BY <2>1, <2>2
<1>10. pendingCoveredBytes' = SumFunctionOnSet(bytes', SectorsBefore(nextSectorIndex)')
  <2>1. nextSectorIndex = 0
    BY <1>1 DEF PlacedBeforeSweeps
  <2>2. SectorsBefore(nextSectorIndex) = {} /\ SectorsBefore(nextSectorIndex)' = {}
    BY <1>1, <2>1 DEF SectorsBefore, refreshVars, sweepVars
  <2>3. pendingCoveredBytes' = pendingCoveredBytes
    BY <1>1 DEF refreshVars, sweepVars
  <2> QED
    BY <1>3, <2>2, <2>3, SumEmpty
<1> QED
  BY <1>4, <1>5, <1>7, <1>8, <1>9, <1>10 DEF PlacementsAddUp, SectorsBefore

\* What a batch adds to the bytes of a sweep: no sector is counted twice.
LEMMA BatchAddsUp ==
  ASSUME AddUpInv, NEW n \in Nat, nextSectorIndex + n <= Len(sectorNumbers)
  PROVE  CoveredBytes(n) = SumFunctionOnSet(sectorCoveredBytes, SectorsBefore(nextSectorIndex + n))
<1> USE DEF AddUpInv, CommitmentInv, SnapshotInv, NetworkInv
<1> DEFINE i == nextSectorIndex
<1>1. i \in Nat /\ i + n \in Nat /\ i <= Len(sectorNumbers) /\ Len(sectorNumbers) \in Nat
  BY ListedInSectors DEF TypeOK
<1>2. SectorsBefore(i + n) = SectorsBefore(i) \cup BatchSectors(n)
  <2>1. 1 .. i + n = (1 .. i) \cup (i + 1 .. i + n)
    BY <1>1
  <2> QED
    BY <2>1 DEF SectorsBefore, BatchSectors
<1>3. SectorsBefore(i) \cap BatchSectors(n) = {}
  <2>1. \A a \in 1 .. i, b \in i + 1 .. i + n :
          a \in 1 .. Len(sectorNumbers) /\ b \in 1 .. Len(sectorNumbers) /\ a # b
    BY <1>1
  <2> QED
    BY <2>1 DEF SectorsBefore, BatchSectors, ListedOnce
<1>4. /\ IsFiniteSet(SectorsBefore(i)) /\ IsFiniteSet(SectorsBefore(i + n))
      /\ \A s \in SectorsBefore(i + n) : sectorCoveredBytes[s] \in Int
  BY <1>1, ListFinite
<1>5. IsFiniteSet(BatchSectors(n))
  BY <1>2, <1>4, FS_Subset
<1>6. SumFunctionOnSet(sectorCoveredBytes, SectorsBefore(i) \cup BatchSectors(n)) =
        SumFunctionOnSet(sectorCoveredBytes, SectorsBefore(i))
          + SumFunctionOnSet(sectorCoveredBytes, BatchSectors(n))
  BY <1>2, <1>3, <1>4, <1>5, SumUnion
<1> QED
  BY <1>2, <1>6 DEF CoveredBytes, PlacementsAddUp, SectorsBefore

LEMMA RefreshAddsUp ==
  ASSUME AddUpInv, NEW n \in Nat, RefreshEvidenceStatus(n)
  PROVE  ListedOnce' /\ PlacementsAddUp'
<1> USE DEF AddUpInv, CommitmentInv, SnapshotInv, NetworkInv
<1>1. UNCHANGED <<inventoryVars, receiptVars>>
  BY DEF RefreshEvidenceStatus
<1>2. pendingCoveredBytes' = SumFunctionOnSet(sectorCoveredBytes, SectorsBefore(nextSectorIndex)')
  <2>1. \/ nextSectorIndex' = 0 /\ pendingCoveredBytes' = 0
        \/ nextSectorIndex' = nextSectorIndex + n /\ pendingCoveredBytes' = CoveredBytes(n)
    BY DEF RefreshEvidenceStatus, PublishLoss, AdvanceSweep, CompleteRefresh
  <2>2. CASE nextSectorIndex' = 0 /\ pendingCoveredBytes' = 0
    BY <2>2, SumEmpty DEF SectorsBefore
  <2>3. CASE nextSectorIndex' = nextSectorIndex + n /\ pendingCoveredBytes' = CoveredBytes(n)
    <3>1. nextSectorIndex + n <= Len(sectorNumbers)
      BY BatchListed
    <3> QED
      BY <1>1, <2>3, <3>1, BatchAddsUp DEF SectorsBefore, inventoryVars
  <2> QED
    BY <2>1, <2>2, <2>3
<1>3. DealSectors' = DealSectors /\ ListedOnce'
  BY <1>1 DEF DealSectors, ListedOnce, inventoryVars
<1> QED
  BY <1>1, <1>2, <1>3 DEF PlacementsAddUp, SectorsBefore, inventoryVars, receiptVars

LEMMA AddUpStep ==
  ASSUME AddUpInv, [Next]_vars
  PROVE  AddUpInv'
<1>1. CommitmentInv'
  BY CommitmentStep DEF AddUpInv
<1>2. ASSUME UNCHANGED <<inventoryVars, receiptVars, refreshVars>>
      PROVE  ListedOnce' /\ PlacementsAddUp'
  <2>1. DealSectors' = DealSectors /\ ListedOnce' /\ SectorsBefore(nextSectorIndex)' = SectorsBefore(nextSectorIndex)
    BY <1>2 DEF AddUpInv, DealSectors, ListedOnce, SectorsBefore, inventoryVars, refreshVars, sweepVars
  <2> QED
    BY <1>2, <2>1 DEF AddUpInv, PlacementsAddUp, SectorsBefore, inventoryVars, receiptVars, refreshVars, sweepVars
<1>3. WorldStep \/ ActivateEvidence => UNCHANGED <<inventoryVars, receiptVars, refreshVars>>
  BY DEF WorldStep, ActivateEvidence
<1>4. ListedOnce' /\ PlacementsAddUp'
  BY <1>2, <1>3, StepKinds, PlacementAddsUp, RefreshAddsUp DEF AddUpInv, CommitmentInv, SnapshotInv
<1> QED
  BY <1>1, <1>4 DEF AddUpInv

LEMMA AddUpInit ==
  ASSUME Init
  PROVE  AddUpInv
<1>1. DealSectors = {} /\ SectorsBefore(nextSectorIndex) = {} /\ ListedOnce
  BY DEF Init, DealSectors, SectorsBefore, ListedOnce
<1>2. PlacementsAddUp
  BY <1>1, SumEmpty, FS_EmptySet DEF Init, PlacementsAddUp, SectorsBefore
<1> QED
  BY <1>1, <1>2, CommitmentInit DEF AddUpInv

LEMMA AddUpInvariant == Spec => []AddUpInv
  BY AddUpInit, AddUpStep, PTL DEF Spec

\* The receipt, the list of sectors, the bytes of each sector and those of a
\* pending sweep are records of the same placements, for any number of pieces
\* and sectors, however pieces are spread, reported again and swept.
THEOREM PlacementsAgree == Spec => []PlacementsAddUp
<1>1. AddUpInv => PlacementsAddUp
  BY DEF AddUpInv
<1> QED
  BY <1>1, AddUpInvariant, PTL

\* The check of _advanceSweep at the end of a sweep never refuses it: a sweep
\* that found every sector covered has covered the bytes the receipt accepted.
THEOREM FullSweepCompletes ==
  Spec => [](\A n \in Nat : nextSectorIndex + n = Len(sectorNumbers) => CoveredBytes(n) = acceptedBytes)
<1>1. ASSUME AddUpInv, NEW n \in Nat, nextSectorIndex + n = Len(sectorNumbers)
      PROVE  CoveredBytes(n) = acceptedBytes
  <2>1. Len(sectorNumbers) \in Nat
    BY <1>1, ListedInSectors DEF AddUpInv, CommitmentInv, SnapshotInv, NetworkInv
  <2>2. CoveredBytes(n) = SumFunctionOnSet(sectorCoveredBytes, SectorsBefore(Len(sectorNumbers)))
    BY <1>1, <2>1, BatchAddsUp
  <2> QED
    BY <1>1, <2>2 DEF AddUpInv, PlacementsAddUp, DealSectors, SectorsBefore
<1>2. AddUpInv => \A n \in Nat : nextSectorIndex + n = Len(sectorNumbers) => CoveredBytes(n) = acceptedBytes
  BY <1>1
<1> QED
  BY <1>2, AddUpInvariant, PTL
=============================================================================
