-------------------------- MODULE DataCapEvidence ---------------------------
(***************************************************************************)
(* The DataCap evidence adapter (src/DataCapEvidenceAdapter.sol).  A       *)
(* client posts allocations and claim extensions for its deal, the         *)
(* provider claims the allocations in the verified registry, batches of    *)
(* claims are recorded as evidence, and anybody refreshes the evidence by  *)
(* looking the claims up again, some of them in each call.  Deals share    *)
(* the registry's ids, the set of terminated claims and the padding.       *)
(*                                                                         *)
(* The registry changes on its own between calls: allocations are claimed  *)
(* or expire, claims are removed, and the provider has claims that did not *)
(* come from here.  An id is an allocation first, then a claim, and never  *)
(* comes back.                                                             *)
(*                                                                         *)
(* Abstractions.  The deals are accepted, have rails, and have the same    *)
(* provider, which is the only one in the registry.  The size of an id is  *)
(* a constant.  A posting of several items is a sequence of postings of    *)
(* one, a report of several terminated claims a sequence of reports.       *)
(* Requests the registry or the term checks refuse are left out.           *)
(***************************************************************************)
EXTENDS Integers, Sequences, FiniteSets, Functions

CONSTANTS
  Deals,            \* deal ids
  Ids,              \* allocation and claim ids
  SizeOf,           \* size of each
  RequestedSize,    \* requestedSizeBytes of a deal
  Paddings,         \* dealActivationPadding values, in basis points
  BPS_DENOMINATOR,
  EPOCHS_IN_MONTH,
  DurationEpochs,
  Expirations,      \* expirations of allocations
  MaxEpoch,         \* bound on the clock
  Calls             \* optional calls made, and what may become of claims

ASSUME DataCapAssumption ==
  /\ Deals \subseteq Nat \ {0}
  /\ IsFiniteSet(Ids)
  /\ SizeOf \in [Ids -> Nat \ {0}]
  /\ RequestedSize \in Nat \ {0}
  /\ BPS_DENOMINATOR \in Nat \ {0}
  /\ Paddings \subseteq 0 .. BPS_DENOMINATOR - 1 /\ Paddings # {}
  /\ EPOCHS_IN_MONTH \in Nat \ {0}
  /\ DurationEpochs \in Nat \ {0}
  /\ Expirations \subseteq Nat \ {0}
  /\ MaxEpoch \in Nat

VARIABLES
  now,
  dealState, serviceEnd, padding,        \* of the market
  registry, expirationOf, removedAt,     \* of the verified registry
  operational,
  deals,                                 \* DataCapDealEvidence of each deal
  allocationStatus,
  maxAllocationExpiration,
  dealById,                              \* _dealByAllocationOrClaimId, 0 while unassigned
  claimDeal,                             \* _claimDealIds, 0 while no evidence
  terminatedAt,                          \* epoch a claim was reported, 0 before
  terminationRevision,
  refreshStatus

marketVars == <<dealState, serviceEnd, padding>>
registryVars == <<registry, expirationOf, removedAt>>
postingVars == <<deals, allocationStatus, maxAllocationExpiration, dealById, claimDeal>>
terminationVars == <<terminatedAt, terminationRevision>>
vars == <<now, marketVars, registryVars, operational, postingVars, terminationVars, refreshStatus>>

\* The epoch of a report that was never made is 0, of one that was is not.
terminatedClaims == {id \in Ids : terminatedAt[id] # 0}

NoEvidence ==
  [postingFinished |-> FALSE, allocatedBytes |-> 0, allocationIds |-> <<>>,
   claimIds |-> <<>>, claimedBytes |-> 0]

NoRefresh ==
  [checkedClaims |-> 0, pendingActiveClaimedBytes |-> 0, failedClaimIds |-> {},
   partialEvidenceRefreshEpoch |-> 0, terminationRevision |-> 0,
   lastEvidenceRefreshEpoch |-> 0, activeClaimedBytes |-> 0, result |-> "NONE"]

TypeOK ==
  /\ now \in Nat \ {0}
  /\ dealState \in [Deals -> {"ACCEPTED", "ACTIVE", "EARLY_TERMINATED", "EXPIRED", "REJECTED", "FINALIZED"}]
  /\ serviceEnd \in [Deals -> Nat]
  /\ padding \in Paddings
  /\ registry \in [Ids -> {"Free", "Allocation", "Claim", "Gone"}]
  /\ expirationOf \in [Ids -> Nat]
  /\ removedAt \in [Ids -> Nat]
  /\ operational \in BOOLEAN
  /\ deals \in [Deals -> [postingFinished : BOOLEAN, allocatedBytes : Nat, allocationIds : Seq(Ids),
                          claimIds : Seq(Ids), claimedBytes : Nat]]
  /\ allocationStatus \in [Deals -> {"NONE", "ALLOCATED", "CLAIMED"}]
  /\ maxAllocationExpiration \in [Deals -> Nat]
  /\ dealById \in [Ids -> Deals \cup {0}]
  /\ claimDeal \in [Ids -> Deals \cup {0}]
  /\ terminatedAt \in [Ids -> Nat]
  /\ terminationRevision \in [Deals -> Nat]
  /\ refreshStatus \in [Deals -> [checkedClaims : Nat, pendingActiveClaimedBytes : Nat,
                                  failedClaimIds : SUBSET Ids, partialEvidenceRefreshEpoch : Nat,
                                  terminationRevision : Nat, lastEvidenceRefreshEpoch : Nat,
                                  activeClaimedBytes : Nat,
                                  result : {"NONE", "ACTIVE", "COVERED_BYTES_MISMATCH"}]]

Init ==
  /\ now = 1
  /\ dealState = [d \in Deals |-> "ACCEPTED"]
  /\ serviceEnd = [d \in Deals |-> 0]
  /\ padding \in Paddings
  /\ registry = [id \in Ids |-> "Free"]
  /\ expirationOf = [id \in Ids |-> 0]
  /\ removedAt = [id \in Ids |-> 0]
  /\ operational = TRUE
  /\ deals = [d \in Deals |-> NoEvidence]
  /\ allocationStatus = [d \in Deals |-> "NONE"]
  /\ maxAllocationExpiration = [d \in Deals |-> 0]
  /\ dealById = [id \in Ids |-> 0]
  /\ claimDeal = [id \in Ids |-> 0]
  /\ terminatedAt = [id \in Ids |-> 0]
  /\ terminationRevision = [d \in Deals |-> 0]
  /\ refreshStatus = [d \in Deals |-> NoRefresh]

-----------------------------------------------------------------------------
(* The verified registry *)

Tick ==
  /\ now < MaxEpoch
  /\ now' = now + 1
  /\ UNCHANGED <<marketVars, registryVars, operational, postingVars, terminationVars, refreshStatus>>

Claimable(id) == registry[id] = "Allocation" /\ now <= expirationOf[id]

\* The provider claims an allocation, or one that another client made.
Claim(id) ==
  /\ Claimable(id) \/ registry[id] = "Free"
  /\ registry' = [registry EXCEPT ![id] = "Claim"]
  /\ UNCHANGED <<now, marketVars, expirationOf, removedAt, operational, postingVars,
                 terminationVars, refreshStatus>>

\* Anybody removes a claim whose term is over.
RemoveClaim(id) ==
  /\ registry[id] = "Claim"
  /\ registry' = [registry EXCEPT ![id] = "Gone"]
  /\ removedAt' = [removedAt EXCEPT ![id] = now]
  /\ UNCHANGED <<now, marketVars, expirationOf, operational, postingVars, terminationVars, refreshStatus>>

RemoveExpiredAllocation(id) ==
  /\ registry[id] = "Allocation" /\ expirationOf[id] < now
  /\ registry' = [registry EXCEPT ![id] = "Gone"]
  /\ UNCHANGED <<now, marketVars, expirationOf, removedAt, operational, postingVars,
                 terminationVars, refreshStatus>>

-----------------------------------------------------------------------------
(* Posting *)

ToleranceFloor(size) == (size * (BPS_DENOMINATOR - padding)) \div BPS_DENOMINATOR
ToleranceCeiling(size) == (size * (BPS_DENOMINATOR + padding)) \div BPS_DENOMINATOR

PostingOpen(d) ==
  /\ operational
  /\ dealState[d] = "ACCEPTED"
  /\ ~deals[d].postingFinished

\* Mutant: an id that is already the deal's counts as new.
NotOfAnotherDeal(d, id) == dealById[id] \in {0, d}

\* An id of the deal's own adds no evidence, one of another deal's reverts.
IsNewId(d, id) == dealById[id] = 0

PostId(d, id) ==
  /\ IsNewId(d, id)
  /\ deals[d].allocatedBytes + SizeOf[id] <= ToleranceCeiling(RequestedSize)
  /\ dealById' = [dealById EXCEPT ![id] = d]
  /\ deals' = [deals EXCEPT ![d].allocationIds = Append(@, id), ![d].allocatedBytes = @ + SizeOf[id]]

\* Mutant: the expiration of the last allocation is kept.
LastExpiration(d, expiration) == expiration

LatestExpiration(d, expiration) ==
  IF expiration > maxAllocationExpiration[d] THEN expiration ELSE maxAllocationExpiration[d]

\* submitDataCapBatch with an allocation request: the transfer of DataCap makes
\* the registry create the allocation and answer with its id.
SubmitAllocation(d, id, expiration) ==
  /\ PostingOpen(d)
  /\ registry[id] = "Free"
  /\ expiration >= now
  /\ PostId(d, id)
  /\ registry' = [registry EXCEPT ![id] = "Allocation"]
  /\ expirationOf' = [expirationOf EXCEPT ![id] = expiration]
  /\ maxAllocationExpiration' = [maxAllocationExpiration EXCEPT ![d] = LatestExpiration(d, expiration)]
  /\ UNCHANGED <<now, marketVars, removedAt, operational, allocationStatus, claimDeal,
                 terminationVars, refreshStatus>>

\* submitDataCapBatch with a claim extension.
SubmitClaimExtension(d, id) ==
  /\ PostingOpen(d)
  /\ registry[id] = "Claim"
  /\ PostId(d, id)
  /\ UNCHANGED <<now, marketVars, registryVars, operational, allocationStatus,
                 maxAllocationExpiration, claimDeal, terminationVars, refreshStatus>>

FinishDataCapPosting(d) ==
  /\ dealState[d] = "ACCEPTED"
  /\ ~deals[d].postingFinished
  /\ deals[d].allocatedBytes >= ToleranceFloor(RequestedSize)
  /\ deals' = [deals EXCEPT ![d].postingFinished = TRUE]
  /\ allocationStatus' = [allocationStatus EXCEPT ![d] = "ALLOCATED"]
  /\ UNCHANGED <<now, marketVars, registryVars, operational, maxAllocationExpiration, dealById,
                 claimDeal, terminationVars, refreshStatus>>

-----------------------------------------------------------------------------
(* Evidence *)

\* The last id takes the place of the deleted one.
DeleteIdByIndex(ids, i) == SubSeq([ids EXCEPT ![i] = ids[Len(ids)]], 1, Len(ids) - 1)

\* What is left of the ids, and those moved to the claims, after index i.
MoveClaim(ids, i, moved) ==
  IF registry[ids[i]] = "Claim"
    THEN [left |-> DeleteIdByIndex(moved.left, i), claims |-> Append(moved.claims, ids[i])]
    ELSE moved

\* Mutant: the batch is walked from its first id.
ForwardWalk(ids, n) ==
  LET walk[k \in 0 .. n] ==
        IF k = 0 THEN [left |-> ids, claims |-> <<>>] ELSE MoveClaim(ids, k, walk[k - 1])
  IN walk[n]

\* The first n ids are walked from the last, so that an id moved into the place
\* of a deleted one is never looked at again.
ClaimedWalk(ids, n) ==
  LET walk[k \in 0 .. n] ==
        IF k = 0 THEN [left |-> ids, claims |-> <<>>] ELSE MoveClaim(ids, n + 1 - k, walk[k - 1])
  IN walk[n]

TotalSize(ids) == SumFunctionOnSet(SizeOf, Range(ids))

\* A batch is of so many ids, or of all that there are.
BatchCount(available, batchSize) == IF batchSize > available THEN available ELSE batchSize

\* The market asks nothing of the deal's state. A deal with nothing to claim is
\* claimed: posting may end without an id when the tolerance leaves no byte.
SubmitEvidenceBatch(d, batchSize) ==
  /\ deals[d].postingFinished
  /\ LET ids == deals[d].allocationIds
         moved == ClaimedWalk(ids, BatchCount(Len(ids), batchSize))
     IN
       /\ moved.claims # <<>> \/ moved.left = <<>>
       /\ deals' = [deals EXCEPT ![d].allocationIds = moved.left,
                                 ![d].claimIds = @ \o moved.claims,
                                 ![d].claimedBytes = @ + TotalSize(moved.claims)]
       /\ claimDeal' = [id \in Ids |-> IF id \in Range(moved.claims) THEN d ELSE claimDeal[id]]
       /\ allocationStatus' =
            IF moved.left = <<>> THEN [allocationStatus EXCEPT ![d] = "CLAIMED"] ELSE allocationStatus
  /\ UNCHANGED <<now, marketVars, registryVars, operational, maxAllocationExpiration, dealById,
                 terminationVars, refreshStatus>>

ActivateEvidence(d) ==
  /\ dealState[d] = "ACCEPTED"
  /\ deals[d].allocationIds = <<>>
  /\ deals[d].claimedBytes >= ToleranceFloor(RequestedSize)
  /\ dealState' = [dealState EXCEPT ![d] = "ACTIVE"]
  /\ serviceEnd' = [serviceEnd EXCEPT ![d] = now + DurationEpochs]
  /\ UNCHANGED <<now, padding, registryVars, operational, postingVars, terminationVars, refreshStatus>>

\* The termination oracle reports a claim, whether or not it is evidence yet.
ClaimsTerminatedEarly(id) ==
  /\ id \notin terminatedClaims
  /\ terminatedAt' = [terminatedAt EXCEPT ![id] = now]
  /\ terminationRevision' =
       [d \in Deals |-> terminationRevision[d] + (IF claimDeal[id] = d THEN 1 ELSE 0)]
  /\ UNCHANGED <<now, marketVars, registryVars, operational, postingVars, refreshStatus>>

DisableAdapter ==
  /\ operational
  /\ operational' = FALSE
  /\ UNCHANGED <<now, marketVars, registryVars, postingVars, terminationVars, refreshStatus>>

-----------------------------------------------------------------------------
(* Refresh *)

InSweep(d) == refreshStatus[d].checkedClaims \notin {0, Len(deals[d].claimIds)}

\* Mutants of Outdated: terminations, or the month, do not end a sweep.
TerminationSince(d) == refreshStatus[d].terminationRevision # terminationRevision[d]
MonthSince(d) == now > refreshStatus[d].partialEvidenceRefreshEpoch + EPOCHS_IN_MONTH

\* A sweep that is pending is given up for a new one.
Outdated(d) == MonthSince(d) \/ TerminationSince(d)

Started(d) ==
  IF InSweep(d) /\ ~Outdated(d)
    THEN refreshStatus[d]
    ELSE [refreshStatus[d] EXCEPT !.checkedClaims = 0, !.pendingActiveClaimedBytes = 0,
            !.failedClaimIds = {}, !.terminationRevision = terminationRevision[d],
            !.partialEvidenceRefreshEpoch = now]

BatchClaims(d, n) ==
  LET offset == Started(d).checkedClaims
  IN {deals[d].claimIds[i] : i \in offset + 1 .. offset + n}

Failed(claims) == {id \in claims : registry[id] # "Claim"}

Advanced(d, n) ==
  [Started(d) EXCEPT
     !.checkedClaims = @ + n,
     !.failedClaimIds = @ \cup Failed(BatchClaims(d, n)),
     !.pendingActiveClaimedBytes =
       @ + SumFunctionOnSet(SizeOf, BatchClaims(d, n) \ (Failed(BatchClaims(d, n)) \cup terminatedClaims))]

SweepComplete(d, status) == status.checkedClaims = Len(deals[d].claimIds)

SweepResult(d, status) ==
  IF ~SweepComplete(d, status) THEN "PARTIAL"
  ELSE IF status.pendingActiveClaimedBytes = deals[d].claimedBytes THEN "ACTIVE"
  ELSE "COVERED_BYTES_MISMATCH"

\* Mutant: the answer of every call is stored, PARTIAL too.
PublishedAlways(d, status) ==
  [status EXCEPT
     !.lastEvidenceRefreshEpoch = now,
     !.activeClaimedBytes = status.pendingActiveClaimedBytes,
     !.result = SweepResult(d, status)]

\* A completed sweep is published with the epoch of its last call.
Published(d, status) ==
  IF SweepComplete(d, status) THEN PublishedAlways(d, status) ELSE status

\* What PoRepMarket.refreshEvidenceStatus requires of the deal.
RefreshAllowed(d) ==
  /\ dealState[d] \in {"ACCEPTED", "ACTIVE"} \/ (dealState[d] = "EARLY_TERMINATED" /\ serviceEnd[d] # 0)
  /\ serviceEnd[d] # 0 => now < serviceEnd[d]

\* The next claims are looked up.
RefreshEvidenceStatus(d, batchSize) ==
  /\ RefreshAllowed(d)
  /\ allocationStatus[d] = "CLAIMED"
  /\ LET n == BatchCount(Len(deals[d].claimIds) - Started(d).checkedClaims, batchSize)
     IN refreshStatus' = [refreshStatus EXCEPT ![d] = Published(d, Advanced(d, n))]
  /\ UNCHANGED <<now, marketVars, registryVars, operational, postingVars, terminationVars>>

-----------------------------------------------------------------------------
(* The market *)

SetDealActivationPadding ==
  /\ padding' \in Paddings \ {padding}
  /\ UNCHANGED <<now, dealState, serviceEnd, registryVars, operational, postingVars,
                 terminationVars, refreshStatus>>

CloseDeal(d, state) ==
  /\ dealState' = [dealState EXCEPT ![d] = state]
  /\ UNCHANGED <<now, serviceEnd, padding, registryVars, operational, postingVars,
                 terminationVars, refreshStatus>>

TerminateDeal(d) ==
  /\ dealState[d] \in {"ACCEPTED", "ACTIVE"}
  /\ serviceEnd[d] # 0 => now <= serviceEnd[d]
  /\ CloseDeal(d, "EARLY_TERMINATED")

ExpireDeal(d) ==
  /\ dealState[d] = "ACCEPTED"
  /\ maxAllocationExpiration[d] # 0 /\ maxAllocationExpiration[d] < now
  /\ CloseDeal(d, "EXPIRED")

RejectAcceptedDeal(d) ==
  /\ dealState[d] = "ACCEPTED"
  /\ CloseDeal(d, "REJECTED")

FinalizeDeal(d) ==
  /\ dealState[d] = "ACTIVE"
  /\ serviceEnd[d] < now
  /\ CloseDeal(d, "FINALIZED")

-----------------------------------------------------------------------------

Next ==
  \/ Tick
  \/ \E id \in Ids :
       \/ Claim(id)
       \/ "remove" \in Calls /\ (RemoveClaim(id) \/ RemoveExpiredAllocation(id))
       \/ "terminate" \in Calls /\ ClaimsTerminatedEarly(id)
  \/ \E d \in Deals :
       \/ \E id \in Ids :
            \/ \E expiration \in Expirations : SubmitAllocation(d, id, expiration)
            \/ SubmitClaimExtension(d, id)
       \/ FinishDataCapPosting(d)
       \/ \E batchSize \in 1 .. Cardinality(Ids) :
            \/ SubmitEvidenceBatch(d, batchSize)
            \/ "refresh" \in Calls /\ RefreshEvidenceStatus(d, batchSize)
       \/ ActivateEvidence(d)
       \/ TerminateDeal(d)
       \/ ExpireDeal(d)
       \/ RejectAcceptedDeal(d)
       \/ FinalizeDeal(d)
  \/ "disable" \in Calls /\ DisableAdapter
  \/ "padding" \in Calls /\ SetDealActivationPadding

Spec == Init /\ [][Next]_vars

-----------------------------------------------------------------------------
(* Properties *)

\* Every id recorded for a deal is in exactly one place of one deal, and the
\* byte counters are those of the ids: whatever is posted twice or extended, and
\* in whichever batches claims are moved out of a list that is deleted from
\* while it is walked, no claim backs two deals and none is counted twice. A
\* deal with ids is claimed when nothing is left to claim, and only then.
EvidenceAddsUp ==
  \A d \in Deals :
    LET posted == {id \in Ids : dealById[id] = d}
        claimed == Range(deals[d].claimIds)
    IN /\ IsInjective(deals[d].allocationIds \o deals[d].claimIds)
       /\ Range(deals[d].allocationIds) = posted \ claimed
       /\ claimed = {id \in Ids : claimDeal[id] = d} /\ claimed \subseteq posted
       /\ deals[d].allocatedBytes = SumFunctionOnSet(SizeOf, posted)
       /\ deals[d].claimedBytes = TotalSize(deals[d].claimIds)
       /\ allocationStatus[d] = "CLAIMED" => deals[d].postingFinished /\ deals[d].allocationIds = <<>>
       /\ posted # {} /\ deals[d].postingFinished /\ deals[d].allocationIds = <<>> =>
            allocationStatus[d] = "CLAIMED"

\* An accepted deal expires when its last allocation does: nothing the client
\* paid DataCap for can still be claimed for it, in whatever order allocations
\* of different expirations were posted.
ExpiredForGood ==
  \A d \in Deals : dealState[d] = "EXPIRED" => \A id \in Ids : dealById[id] = d => ~Claimable(id)

\* A positive snapshot has seen every termination reported before its date,
\* although the claim may have been looked up, and counted, in an earlier call
\* of the sweep, or reported before it was evidence of the deal. Positive is
\* what the market takes for it, as many active bytes as activation committed,
\* which are those claimed.
TerminationsSeen ==
  \A d \in Deals :
    deals[d].claimedBytes # 0 /\ refreshStatus[d].activeClaimedBytes = deals[d].claimedBytes =>
      \A id \in Range(deals[d].claimIds) :
        terminatedAt[id] = 0 \/ refreshStatus[d].lastEvidenceRefreshEpoch <= terminatedAt[id]

\* Each deal implements the snapshots the market relies on, with positive ones
\* that may be up to a month late on a claim the registry removed.
Losses(d) ==
  (UNION {{terminatedAt[id], removedAt[id]} : id \in Range(deals[d].claimIds)}) \ {0}

LostAt(d) ==
  IF allocationStatus[d] = "CLAIMED" /\ Losses(d) # {}
    THEN CHOOSE epoch \in Losses(d) : \A e \in Losses(d) : epoch <= e
    ELSE 0

Snapshots(d) == INSTANCE EvidenceSnapshots WITH
  Lag <- EPOCHS_IN_MONTH,
  complete <- allocationStatus[d] = "CLAIMED", lostAt <- LostAt(d),
  result <- refreshStatus[d].result, date <- refreshStatus[d].lastEvidenceRefreshEpoch

\* This is Snapshots(d)!Spec for each d, in the form TLC evaluates.
ImplementsSnapshots ==
  /\ \A d \in Deals : Snapshots(d)!Init
  /\ [][\A d \in Deals : [Snapshots(d)!Next]_(Snapshots(d)!snapshotVars)]_vars
=============================================================================
