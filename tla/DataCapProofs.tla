--------------------------- MODULE DataCapProofs ----------------------------
(***************************************************************************)
(* The DataCap adapter, for every number of deals and ids: a deal expires  *)
(* only when none of its allocations can be claimed any more; the lists of *)
(* ids, the registers and the byte counters agree however claims are moved *)
(* between them; a positive snapshot has seen the terminations; and each   *)
(* deal implements the snapshots the market relies on.                     *)
(***************************************************************************)
EXTENDS DataCapEvidence, SumLemmas, SequenceTheorems

PostingType ==
  /\ now \in Nat
  /\ dealState \in [Deals -> {"ACCEPTED", "ACTIVE", "EARLY_TERMINATED", "EXPIRED", "REJECTED", "FINALIZED"}]
  /\ registry \in [Ids -> {"Free", "Allocation", "Claim", "Gone"}]
  /\ expirationOf \in [Ids -> Nat]
  /\ maxAllocationExpiration \in [Deals -> Nat]
  /\ dealById \in [Ids -> Deals \cup {0}]

\* The latest expiration of a deal bounds those of its allocations.
AllocationsBounded ==
  \A id \in Ids : registry[id] = "Allocation" =>
    /\ dealById[id] \in Deals
    /\ expirationOf[id] <= maxAllocationExpiration[dealById[id]]

\* The clock has passed the latest expiration of an expired deal.
ExpiredPast ==
  \A d \in Deals : dealState[d] = "EXPIRED" => maxAllocationExpiration[d] < now

ExpiryInv == PostingType /\ AllocationsBounded /\ ExpiredPast

LEMMA ExpiryInit == Init => ExpiryInv
BY DataCapAssumption DEF Init, ExpiryInv, PostingType, AllocationsBounded, ExpiredPast

\* The steps that leave ids, deals and expirations as they are; the clock may
\* advance.
QuietStep ==
  /\ now' \in Nat /\ now <= now'
  /\ UNCHANGED <<dealState, registry, expirationOf, maxAllocationExpiration, dealById>>

LEMMA QuietKeeps ==
  ASSUME ExpiryInv, QuietStep
  PROVE  ExpiryInv'
BY DEF ExpiryInv, PostingType, AllocationsBounded, ExpiredPast, QuietStep

\* An id of the registry becomes a claim, or is removed.
LEMMA RegistryKeeps ==
  ASSUME ExpiryInv, NEW id \in Ids, Claim(id) \/ RemoveClaim(id) \/ RemoveExpiredAllocation(id)
  PROVE  ExpiryInv'
<1>1. /\ registry' = [registry EXCEPT ![id] = "Claim"] \/ registry' = [registry EXCEPT ![id] = "Gone"]
      /\ UNCHANGED <<now, dealState, expirationOf, maxAllocationExpiration, dealById>>
  BY DEF Claim, RemoveClaim, RemoveExpiredAllocation, marketVars, postingVars
<1> QED
  BY <1>1 DEF ExpiryInv, PostingType, AllocationsBounded, ExpiredPast

\* A new allocation raises the latest expiration of its deal to its own.
LEMMA AllocationKeeps ==
  ASSUME ExpiryInv, NEW d \in Deals, NEW id \in Ids, NEW expiration \in Expirations,
         SubmitAllocation(d, id, expiration)
  PROVE  ExpiryInv'
<1> DEFINE latest == LatestExpiration(d, expiration)
<1>1. expiration \in Nat
  BY DataCapAssumption
<1>2. /\ latest \in Nat
      /\ expiration <= latest /\ maxAllocationExpiration[d] <= latest
  BY <1>1 DEF LatestExpiration, ExpiryInv, PostingType
<1>3. /\ dealState[d] = "ACCEPTED"
      /\ dealById[id] = 0
      /\ dealById' = [dealById EXCEPT ![id] = d]
      /\ registry' = [registry EXCEPT ![id] = "Allocation"]
      /\ expirationOf' = [expirationOf EXCEPT ![id] = expiration]
      /\ maxAllocationExpiration' = [maxAllocationExpiration EXCEPT ![d] = latest]
      /\ UNCHANGED <<now, dealState>>
  BY DEF SubmitAllocation, PostingOpen, PostId, IsNewId, marketVars
<1> HIDE DEF latest
<1>4. PostingType'
  BY <1>1, <1>2, <1>3 DEF ExpiryInv, PostingType
<1>5. AllocationsBounded'
  <2> SUFFICES ASSUME NEW i \in Ids, registry'[i] = "Allocation"
               PROVE  /\ dealById'[i] \in Deals
                      /\ expirationOf'[i] <= maxAllocationExpiration'[dealById'[i]]
    BY DEF AllocationsBounded
  <2>1. CASE i = id
    BY <1>2, <1>3, <2>1 DEF ExpiryInv, PostingType
  <2>2. CASE i # id
    <3>1. /\ dealById'[i] = dealById[i] /\ dealById[i] \in Deals
          /\ expirationOf'[i] = expirationOf[i]
          /\ expirationOf[i] <= maxAllocationExpiration[dealById[i]]
      BY <1>3, <2>2 DEF ExpiryInv, PostingType, AllocationsBounded
    <3>2. maxAllocationExpiration[dealById[i]] <= maxAllocationExpiration'[dealById[i]]
      BY <1>2, <1>3, <3>1 DEF ExpiryInv, PostingType
    <3> QED
      BY <1>2, <1>3, <3>1, <3>2, <1>4 DEF ExpiryInv, PostingType
  <2> QED
    BY <2>1, <2>2
<1>6. ExpiredPast'
  BY <1>3 DEF ExpiryInv, PostingType, ExpiredPast
<1> QED
  BY <1>4, <1>5, <1>6 DEF ExpiryInv

\* A claim that is posted is no allocation.
LEMMA ExtensionKeeps ==
  ASSUME ExpiryInv, NEW d \in Deals, NEW id \in Ids, SubmitClaimExtension(d, id)
  PROVE  ExpiryInv'
<1>1. /\ registry[id] = "Claim"
      /\ dealById' = [dealById EXCEPT ![id] = d]
      /\ UNCHANGED <<now, dealState, registry, expirationOf, maxAllocationExpiration>>
  BY DEF SubmitClaimExtension, PostId, marketVars, registryVars
<1> QED
  BY <1>1 DEF ExpiryInv, PostingType, AllocationsBounded, ExpiredPast

\* A deal is activated or closed; it expires only after its allocations.
LEMMA DealKeeps ==
  ASSUME ExpiryInv, NEW d \in Deals,
         ActivateEvidence(d) \/ TerminateDeal(d) \/ ExpireDeal(d) \/ RejectAcceptedDeal(d) \/ FinalizeDeal(d)
  PROVE  ExpiryInv'
<1>1. /\ UNCHANGED <<now, registry, expirationOf, maxAllocationExpiration, dealById>>
      /\ \E state \in {"ACTIVE", "EARLY_TERMINATED", "EXPIRED", "REJECTED", "FINALIZED"} :
           /\ dealState' = [dealState EXCEPT ![d] = state]
           /\ state = "EXPIRED" => maxAllocationExpiration[d] < now
  BY DEF ActivateEvidence, TerminateDeal, ExpireDeal, RejectAcceptedDeal, FinalizeDeal, CloseDeal,
         registryVars, postingVars
<1> QED
  BY <1>1 DEF ExpiryInv, PostingType, AllocationsBounded, ExpiredPast

LEMMA ExpiryNext ==
  ASSUME ExpiryInv, [Next]_vars
  PROVE  ExpiryInv'
<1>1. Tick => QuietStep
  BY DEF Tick, QuietStep, ExpiryInv, PostingType, marketVars, registryVars, postingVars
<1>2. ASSUME NEW d \in Deals, NEW n \in Nat,
             FinishDataCapPosting(d) \/ SubmitEvidenceBatch(d, n) \/ RefreshEvidenceStatus(d, n)
      PROVE  QuietStep
  <2>1. UNCHANGED <<now, marketVars, registryVars, maxAllocationExpiration, dealById>>
    <3>1. CASE FinishDataCapPosting(d)
      BY <3>1 DEF FinishDataCapPosting
    <3>2. CASE SubmitEvidenceBatch(d, n)
      BY <3>2 DEF SubmitEvidenceBatch
    <3>3. CASE RefreshEvidenceStatus(d, n)
      BY <3>3 DEF RefreshEvidenceStatus, postingVars
    <3> QED
      BY <1>2, <3>1, <3>2, <3>3
  <2> QED
    BY <2>1 DEF QuietStep, ExpiryInv, PostingType, marketVars, registryVars
<1>3. ASSUME NEW id \in Ids, ClaimsTerminatedEarly(id)
      PROVE  QuietStep
  BY <1>3 DEF ClaimsTerminatedEarly, QuietStep, ExpiryInv, PostingType, marketVars, registryVars,
              postingVars
<1>4. DisableAdapter \/ SetDealActivationPadding => QuietStep
  BY DEF DisableAdapter, SetDealActivationPadding, QuietStep, ExpiryInv, PostingType, marketVars,
         registryVars, postingVars
<1>5. UNCHANGED vars => QuietStep
  BY DEF vars, QuietStep, ExpiryInv, PostingType, marketVars, registryVars, postingVars
<1>6. \A n \in 1 .. Cardinality(Ids) : n \in Nat
  OBVIOUS
<1>7. CASE UNCHANGED vars
  BY <1>5, <1>7, QuietKeeps
<1>8. CASE Next
  BY <1>1, <1>2, <1>3, <1>4, <1>6, <1>8, QuietKeeps, RegistryKeeps, AllocationKeeps, ExtensionKeeps,
     DealKeeps DEF Next
<1> QED
  BY <1>7, <1>8

\* A deal expires for good: when the service has expired it, no id posted for
\* it is an allocation the provider could still claim.
THEOREM ExpiryIsFinal == Spec => []ExpiredForGood
<1>1. ExpiryInv /\ [Next]_vars => ExpiryInv'
  BY ExpiryNext
<1>2. ExpiryInv => ExpiredForGood
  BY DEF ExpiryInv, PostingType, AllocationsBounded, ExpiredPast, ExpiredForGood, Claimable
<1> QED
  BY ExpiryInit, <1>1, <1>2, PTL DEF Spec
-----------------------------------------------------------------------------
(* Lists of ids *)

LEMMA ListRange ==
  ASSUME NEW S, NEW s \in Seq(S)
  PROVE  /\ Range(s) = {s[i] : i \in 1 .. Len(s)} /\ Range(s) \subseteq S
         /\ IsInjective(s) <=> \A i, j \in 1 .. Len(s) : s[i] = s[j] => i = j
         /\ s = <<>> <=> Range(s) = {}
<1>1. Range(s) = {s[i] : i \in 1 .. Len(s)} /\ Range(s) \subseteq S
  BY RangeEquality, LenProperties
<1>2. DOMAIN s = 1 .. Len(s) /\ Len(s) \in Nat
  BY LenProperties
<1>3. s = <<>> <=> Len(s) = 0
  BY EmptySeq
<1>4. Len(s) # 0 => 1 \in 1 .. Len(s)
  BY <1>2
<1> QED
  BY <1>1, <1>2, <1>3, <1>4 DEF IsInjective

LEMMA RangeAppend ==
  ASSUME NEW S, NEW s \in Seq(S), NEW e \in S
  PROVE  /\ Append(s, e) \in Seq(S) /\ Range(Append(s, e)) = Range(s) \cup {e}
         /\ IsInjective(s) /\ e \notin Range(s) => IsInjective(Append(s, e))
<1>1. /\ Append(s, e) \in Seq(S) /\ Len(Append(s, e)) = Len(s) + 1 /\ Len(s) \in Nat
      /\ \A i \in 1 .. Len(s) : Append(s, e)[i] = s[i]
      /\ Append(s, e)[Len(s) + 1] = e
  OBVIOUS
<1>2. 1 .. Len(s) + 1 = (1 .. Len(s)) \cup {Len(s) + 1}
  BY <1>1
<1>3. Range(Append(s, e)) = {Append(s, e)[i] : i \in 1 .. Len(s) + 1}
  BY <1>1, ListRange
<1>4. Range(s) = {s[i] : i \in 1 .. Len(s)}
  BY ListRange
<1>5. Range(Append(s, e)) = Range(s) \cup {e}
  BY <1>1, <1>2, <1>3, <1>4
<1>6. ASSUME IsInjective(s), e \notin Range(s)
      PROVE  IsInjective(Append(s, e))
  <2>1. \A i, j \in 1 .. Len(s) : s[i] = s[j] => i = j
    BY <1>6, ListRange
  <2>2. \A i \in 1 .. Len(s) : s[i] # e
    BY <1>4, <1>6
  <2>3. \A i, j \in 1 .. Len(s) + 1 : Append(s, e)[i] = Append(s, e)[j] => i = j
    BY <1>1, <1>2, <2>1, <2>2
  <2> QED
    BY <1>1, <2>3, ListRange
<1> QED
  BY <1>1, <1>5, <1>6

LEMMA RangeConcat ==
  ASSUME NEW S, NEW s \in Seq(S), NEW t \in Seq(S)
  PROVE  /\ s \o t \in Seq(S) /\ Range(s \o t) = Range(s) \cup Range(t)
         /\ IsInjective(s \o t) <=> IsInjective(s) /\ IsInjective(t) /\ Range(s) \cap Range(t) = {}
<1>1. /\ s \o t \in Seq(S) /\ Len(s \o t) = Len(s) + Len(t) /\ Len(s) \in Nat /\ Len(t) \in Nat
      /\ \A i \in 1 .. Len(s) : (s \o t)[i] = s[i] /\ i \in 1 .. Len(s) + Len(t)
      /\ \A i \in 1 .. Len(t) : (s \o t)[Len(s) + i] = t[i] /\ Len(s) + i \in 1 .. Len(s) + Len(t)
  BY ConcatProperties
<1>2. \A i \in 1 .. Len(s) + Len(t) : i \in 1 .. Len(s) \/ \E j \in 1 .. Len(t) : i = Len(s) + j
  <2> TAKE i \in 1 .. Len(s) + Len(t)
  <2>1. CASE i > Len(s)
    <3>1. i - Len(s) \in 1 .. Len(t) /\ i = Len(s) + (i - Len(s))
      BY <1>1, <2>1
    <3> QED
      BY <3>1
  <2>2. CASE i <= Len(s)
    BY <1>1, <2>2
  <2> QED
    BY <1>1, <2>1, <2>2
<1>3. /\ Range(s) = {s[i] : i \in 1 .. Len(s)} /\ Range(t) = {t[i] : i \in 1 .. Len(t)}
      /\ Range(s \o t) = {(s \o t)[i] : i \in 1 .. Len(s) + Len(t)}
  BY <1>1, ListRange
<1>4. Range(s \o t) = Range(s) \cup Range(t)
  BY RangeConcatenation
<1>5. /\ IsInjective(s) <=> \A i, j \in 1 .. Len(s) : s[i] = s[j] => i = j
      /\ IsInjective(t) <=> \A i, j \in 1 .. Len(t) : t[i] = t[j] => i = j
      /\ IsInjective(s \o t) <=> \A i, j \in 1 .. Len(s) + Len(t) : (s \o t)[i] = (s \o t)[j] => i = j
  BY <1>1, ListRange
<1>6. ASSUME IsInjective(s \o t)
      PROVE  IsInjective(s) /\ IsInjective(t) /\ Range(s) \cap Range(t) = {}
  <2>0. \A i, j \in 1 .. Len(s) + Len(t) : (s \o t)[i] = (s \o t)[j] => i = j
    BY <1>5, <1>6
  <2>1. \A i, j \in 1 .. Len(s) : s[i] = s[j] => i = j
    BY <1>1, <2>0
  <2>2. \A i, j \in 1 .. Len(t) : t[i] = t[j] => i = j
    <3> TAKE i, j \in 1 .. Len(t)
    <3>1. /\ Len(s) + i \in 1 .. Len(s) + Len(t) /\ (s \o t)[Len(s) + i] = t[i]
          /\ Len(s) + j \in 1 .. Len(s) + Len(t) /\ (s \o t)[Len(s) + j] = t[j]
      BY <1>1
    <3>2. t[i] = t[j] => Len(s) + i = Len(s) + j
      BY <2>0, <3>1
    <3> QED
      BY <1>1, <3>2
  <2>3. \A i \in 1 .. Len(s), j \in 1 .. Len(t) : s[i] # t[j]
    <3> TAKE i \in 1 .. Len(s), j \in 1 .. Len(t)
    <3>1. /\ i \in 1 .. Len(s) + Len(t) /\ (s \o t)[i] = s[i]
          /\ Len(s) + j \in 1 .. Len(s) + Len(t) /\ (s \o t)[Len(s) + j] = t[j]
      BY <1>1
    <3>2. s[i] = t[j] => i = Len(s) + j
      BY <2>0, <3>1
    <3> QED
      BY <1>1, <3>2
  <2> QED
    BY <1>3, <1>5, <2>1, <2>2, <2>3
<1>7. ASSUME IsInjective(s), IsInjective(t), Range(s) \cap Range(t) = {}
      PROVE  IsInjective(s \o t)
  <2>1. \A i \in 1 .. Len(s), j \in 1 .. Len(t) : s[i] # t[j]
    BY <1>3, <1>7
  <2>2. ASSUME NEW i \in 1 .. Len(s) + Len(t), NEW j \in 1 .. Len(s) + Len(t), (s \o t)[i] = (s \o t)[j]
        PROVE  i = j
    <3>1. CASE i \in 1 .. Len(s) /\ j \in 1 .. Len(s)
      BY <1>1, <1>5, <1>7, <2>2, <3>1
    <3>2. ASSUME NEW k \in 1 .. Len(t), i = Len(s) + k, j \in 1 .. Len(s)
          PROVE  FALSE
      BY <1>1, <2>1, <2>2, <3>2
    <3>3. ASSUME NEW k \in 1 .. Len(t), j = Len(s) + k, i \in 1 .. Len(s)
          PROVE  FALSE
      BY <1>1, <2>1, <2>2, <3>3
    <3>4. ASSUME NEW k \in 1 .. Len(t), NEW m \in 1 .. Len(t), i = Len(s) + k, j = Len(s) + m
          PROVE  i = j
      BY <1>1, <1>5, <1>7, <2>2, <3>4
    <3> QED
      BY <1>2, <3>1, <3>2, <3>3, <3>4
  <2> QED
    BY <1>5, <2>2
<1> QED
  BY <1>1, <1>4, <1>6, <1>7

\* Deleting by index takes one id out of a list without repetitions, and leaves
\* those before it in their places.
LEMMA DeletedById ==
  ASSUME NEW S, NEW ids \in Seq(S), IsInjective(ids), NEW i \in 1 .. Len(ids)
  PROVE  LET left == DeleteIdByIndex(ids, i)
         IN /\ left \in Seq(S) /\ Len(left) = Len(ids) - 1 /\ IsInjective(left)
            /\ Range(left) = Range(ids) \ {ids[i]}
            /\ \A j \in 1 .. i - 1 : left[j] = ids[j]
<1> DEFINE L == Len(ids)
           put == [ids EXCEPT ![i] = ids[L]]
           left == DeleteIdByIndex(ids, i)
<1>1. L \in Nat \ {0} /\ i \in 1 .. L /\ ids[L] \in S /\ ids[i] \in S
  OBVIOUS
<1>2. /\ put \in Seq(S) /\ Len(put) = L
      /\ \A j \in 1 .. L : put[j] = IF j = i THEN ids[L] ELSE ids[j]
  BY <1>1, ExceptSeq
<1>3. left = SubSeq(put, 1, L - 1)
  BY DEF DeleteIdByIndex
<1> HIDE DEF put, left, L
<1>4. \A j \in 1 .. L - 1 : put[j] \in S
  BY <1>1, <1>2
<1>5. /\ left \in Seq(S) /\ Len(left) = L - 1
      /\ \A j \in 1 .. L - 1 : left[j] = IF j = i THEN ids[L] ELSE ids[j]
  <2>1. 1 \in Int /\ L - 1 \in Int
    BY <1>1
  <2>2. /\ SubSeq(put, 1, L - 1) \in Seq(S)
        /\ Len(SubSeq(put, 1, L - 1)) = IF 1 <= L - 1 THEN (L - 1) - 1 + 1 ELSE 0
        /\ \A j \in 1 .. (L - 1) - 1 + 1 : SubSeq(put, 1, L - 1)[j] = put[1 + j - 1]
    BY ONLY <1>4, <2>1, SubSeqProperties
  <2>3. Len(left) = L - 1
    BY <1>1, <1>3, <2>2
  <2>4. ASSUME NEW j \in 1 .. L - 1
        PROVE  left[j] = IF j = i THEN ids[L] ELSE ids[j]
    <3>1. j \in 1 .. (L - 1) - 1 + 1 /\ 1 + j - 1 = j /\ j \in 1 .. L
      BY <1>1
    <3> QED
      BY <1>2, <1>3, <2>2, <3>1
  <2> QED
    BY <1>3, <2>2, <2>3, <2>4
<1>6. \A j, k \in 1 .. L : ids[j] = ids[k] => j = k
  BY ListRange DEF L
<1>7. IsInjective(left)
  <2>1. \A j, k \in 1 .. L - 1 : left[j] = left[k] => j = k
    BY <1>1, <1>5, <1>6
  <2> QED
    BY <1>5, <2>1, ListRange
<1>8. Range(left) = Range(ids) \ {ids[i]}
  <2>1. Range(left) = {left[j] : j \in 1 .. L - 1} /\ Range(ids) = {ids[j] : j \in 1 .. L}
    BY <1>5, ListRange DEF L
  <2>2. \A j \in 1 .. L - 1 : left[j] \in Range(ids) \ {ids[i]}
    BY <1>1, <1>5, <1>6, <2>1
  <2>3. \A j \in 1 .. L : j # i => ids[j] \in Range(left)
    <3> TAKE j \in 1 .. L
    <3>1. CASE j # L
      BY <1>1, <1>5, <2>1, <3>1
    <3>2. CASE j = L
      <4>1. j # i => i \in 1 .. L - 1 /\ left[i] = ids[j]
        BY <1>1, <1>5, <3>2
      <4> QED
        BY <2>1, <4>1
    <3> QED
      BY <3>1, <3>2
  <2> QED
    BY <2>1, <2>2, <2>3
<1>9. \A j \in 1 .. i - 1 : left[j] = ids[j]
  BY <1>1, <1>5
<1> QED
  BY <1>5, <1>7, <1>8, <1>9 DEF left, L

-----------------------------------------------------------------------------
(* The walk of a batch *)

Unwalked(ids) == [left |-> ids, claims |-> <<>>]

\* The first m steps of the walk of the first n ids.
IsWalk(g, ids, n, m) ==
  g = [k \in 0 .. m |-> IF k = 0 THEN Unwalked(ids) ELSE MoveClaim(ids, n + 1 - k, g[k - 1])]

LEMMA WalkSteps ==
  ASSUME NEW g, NEW ids, NEW n, NEW m \in Nat, IsWalk(g, ids, n, m)
  PROVE  /\ g[0] = Unwalked(ids)
         /\ \A k \in 1 .. m : g[k] = MoveClaim(ids, n + 1 - k, g[k - 1])
  BY DEF IsWalk

LEMMA WalkExists ==
  ASSUME NEW ids, NEW n \in Nat
  PROVE  \E g : IsWalk(g, ids, n, n) /\ ClaimedWalk(ids, n) = g[n]
<1> DEFINE Bad == {m \in 0 .. n : ~ \E g : IsWalk(g, ids, n, m)}
<1>1. ASSUME Bad # {} PROVE FALSE
  <2>1. PICK m \in Bad : \A k \in Bad : m <= k
    <3>1. Bad \in SUBSET (0 .. n)
      OBVIOUS
    <3> HIDE DEF Bad
    <3> QED
      BY <1>1, <3>1, SmallestIndex
  <2>2. m # 0
    <3>1. IsWalk([k \in {0} |-> Unwalked(ids)], ids, n, 0)
      <4>1. 0 .. 0 = {0}
        OBVIOUS
      <4> QED
        BY <4>1 DEF IsWalk
    <3> QED
      BY <2>1, <3>1
  <2>3. m \in Nat /\ m - 1 \in 0 .. n /\ m - 1 < m
    BY <2>1, <2>2
  <2>4. PICK g : IsWalk(g, ids, n, m - 1)
    BY <2>1, <2>3
  <2> DEFINE h == [k \in 0 .. m |-> IF k = m THEN MoveClaim(ids, n + 1 - m, g[m - 1]) ELSE g[k]]
  <2>5. /\ g[0] = Unwalked(ids)
        /\ \A k \in 1 .. m - 1 : g[k] = MoveClaim(ids, n + 1 - k, g[k - 1])
    <3>1. m - 1 \in Nat
      BY <2>2, <2>3
    <3> QED
      BY <2>4, <3>1, WalkSteps
  <2>6. ASSUME NEW k \in 0 .. m
        PROVE  h[k] = IF k = 0 THEN Unwalked(ids) ELSE MoveClaim(ids, n + 1 - k, h[k - 1])
    <3>1. CASE k = 0
      BY <2>2, <2>3, <2>5, <3>1
    <3>2. CASE k = m
      <4>1. m - 1 \in 0 .. m /\ h[m - 1] = g[m - 1]
        BY <2>2, <2>3
      <4>2. h[m] = MoveClaim(ids, n + 1 - m, g[m - 1])
        BY <2>3
      <4> HIDE DEF h
      <4> QED
        BY <2>2, <3>2, <4>1, <4>2
    <3>3. CASE k # 0 /\ k # m
      <4>1. k \in 1 .. m - 1 /\ k - 1 \in 0 .. m /\ k - 1 # m
        BY <2>3, <3>3
      <4>2. h[k] = g[k] /\ h[k - 1] = g[k - 1]
        BY <4>1, <3>3
      <4> HIDE DEF h
      <4> QED
        BY <2>5, <3>3, <4>1, <4>2
    <3> QED
      BY <3>1, <3>2, <3>3
  <2>7. IsWalk(h, ids, n, m)
    <3>1. h = [k \in 0 .. m |-> h[k]]
      OBVIOUS
    <3> HIDE DEF h
    <3> QED
      BY <2>6, <3>1 DEF IsWalk
  <2> QED
    BY <2>1, <2>7
<1>2. n \in 0 .. n
  OBVIOUS
<1>3. \E g : IsWalk(g, ids, n, n)
  BY <1>1, <1>2
<1> DEFINE walk == CHOOSE g : IsWalk(g, ids, n, n)
<1>4. IsWalk(walk, ids, n, n)
  BY <1>3
<1>5. ClaimedWalk(ids, n) = walk[n]
  BY DEF ClaimedWalk, IsWalk, Unwalked
<1> QED
  BY <1>4, <1>5

\* A walk that has come down to index j: what it moved are claims of the
\* registry, an id is left or moved and never both, and the first j are in
\* their places.
WalkedTo(ids, j, moved) ==
  /\ moved.left \in Seq(Ids) /\ moved.claims \in Seq(Ids)
  /\ IsInjective(moved.left) /\ IsInjective(moved.claims)
  /\ Range(moved.left) = Range(ids) \ Range(moved.claims) /\ Range(moved.claims) \subseteq Range(ids)
  /\ j <= Len(moved.left) /\ \A i \in 1 .. j : moved.left[i] = ids[i]
  /\ \A id \in Range(moved.claims) : registry[id] = "Claim"

LEMMA WalkDown ==
  ASSUME NEW ids \in Seq(Ids), NEW i \in 1 .. Len(ids), NEW moved, WalkedTo(ids, i, moved)
  PROVE  WalkedTo(ids, i - 1, MoveClaim(ids, i, moved))
<1>1. i \in Nat \ {0} /\ i - 1 \in Nat /\ Len(ids) \in Nat /\ ids[i] \in Ids
  OBVIOUS
<1>2. CASE registry[ids[i]] # "Claim"
  <2>1. MoveClaim(ids, i, moved) = moved
    BY <1>2 DEF MoveClaim
  <2>2. Len(moved.left) \in Nat
    BY DEF WalkedTo
  <2>3. i - 1 <= Len(moved.left) /\ \A j \in 1 .. i - 1 : j \in 1 .. i
    BY <1>1, <2>2 DEF WalkedTo
  <2> QED
    BY <2>1, <2>3 DEF WalkedTo
<1>3. CASE registry[ids[i]] = "Claim"
  <2> DEFINE left == DeleteIdByIndex(moved.left, i)
             claims == Append(moved.claims, ids[i])
  <2>1. MoveClaim(ids, i, moved) = [left |-> left, claims |-> claims]
    BY <1>3 DEF MoveClaim
  <2>2. /\ moved.left \in Seq(Ids) /\ moved.claims \in Seq(Ids) /\ IsInjective(moved.left)
        /\ i \in 1 .. Len(moved.left) /\ moved.left[i] = ids[i] /\ Len(moved.left) \in Nat
        /\ \A j \in 1 .. i - 1 : moved.left[j] = ids[j]
    BY <1>1 DEF WalkedTo
  <2>3. /\ left \in Seq(Ids) /\ Len(left) = Len(moved.left) - 1 /\ IsInjective(left)
        /\ Range(left) = Range(moved.left) \ {ids[i]}
        /\ \A j \in 1 .. i - 1 : left[j] = moved.left[j]
    <3> DEFINE list == moved.left
    <3>1. list \in Seq(Ids) /\ IsInjective(list) /\ i \in 1 .. Len(list)
      BY <2>2
    <3> HIDE DEF list
    <3>2. /\ DeleteIdByIndex(list, i) \in Seq(Ids) /\ Len(DeleteIdByIndex(list, i)) = Len(list) - 1
          /\ IsInjective(DeleteIdByIndex(list, i))
          /\ Range(DeleteIdByIndex(list, i)) = Range(list) \ {list[i]}
          /\ \A j \in 1 .. i - 1 : DeleteIdByIndex(list, i)[j] = list[j]
      BY <3>1, DeletedById
    <3> QED
      BY <2>2, <3>2 DEF list
  <2>4. ids[i] \in Range(moved.left) /\ ids[i] \in Range(ids)
    <3>1. Range(moved.left) = {moved.left[j] : j \in 1 .. Len(moved.left)} /\ Range(ids) = {ids[j] : j \in 1 .. Len(ids)}
      BY <2>2, ListRange
    <3> QED
      BY <2>2, <3>1
  <2>5. /\ claims \in Seq(Ids) /\ Range(claims) = Range(moved.claims) \cup {ids[i]}
        /\ IsInjective(claims)
    BY <1>1, <2>2, <2>4, RangeAppend DEF WalkedTo
  <2> HIDE DEF left, claims
  <2>6. i - 1 <= Len(left) /\ \A j \in 1 .. i - 1 : left[j] = ids[j]
    BY <1>1, <2>2, <2>3
  <2>7. /\ Range(left) = Range(ids) \ Range(claims) /\ Range(claims) \subseteq Range(ids)
        /\ \A id \in Range(claims) : registry[id] = "Claim"
    BY <1>3, <2>3, <2>4, <2>5 DEF WalkedTo
  <2>8. WalkedTo(ids, i - 1, [left |-> left, claims |-> claims])
    BY <2>3, <2>5, <2>6, <2>7 DEF WalkedTo
  <2> QED
    BY <2>1, <2>8
<1> QED
  BY <1>2, <1>3

\* The walk of a batch moves exactly the claims among the first n ids.
LEMMA WalkMoves ==
  ASSUME NEW ids \in Seq(Ids), IsInjective(ids), NEW n \in 0 .. Len(ids)
  PROVE  WalkedTo(ids, 0, ClaimedWalk(ids, n))
<1>1. n \in Nat /\ Len(ids) \in Nat /\ n <= Len(ids)
  OBVIOUS
<1>2. PICK g : IsWalk(g, ids, n, n) /\ ClaimedWalk(ids, n) = g[n]
  BY <1>1, WalkExists
<1>3. /\ g[0] = Unwalked(ids)
      /\ \A k \in 1 .. n : g[k] = MoveClaim(ids, n + 1 - k, g[k - 1])
  BY <1>1, <1>2, WalkSteps
<1> DEFINE Bad == {k \in 0 .. n : ~ WalkedTo(ids, n - k, g[k])}
<1>4. ASSUME Bad # {} PROVE FALSE
  <2>1. PICK k \in Bad : \A m \in Bad : k <= m
    <3>1. Bad \in SUBSET (0 .. n)
      OBVIOUS
    <3> HIDE DEF Bad
    <3> QED
      BY <1>1, <1>4, <3>1, SmallestIndex
  <2>2. WalkedTo(ids, n, Unwalked(ids))
    <3>1. /\ <<>> \in Seq(Ids) /\ Range(<<>>) = {} /\ IsInjective(<<>>)
      <4>1. PICK none \in Seq(Ids) : none = <<>> /\ Len(none) = 0
        BY EmptySeq
      <4>2. /\ Range(none) = {none[i] : i \in 1 .. Len(none)}
            /\ IsInjective(none) <=> \A i, j \in 1 .. Len(none) : none[i] = none[j] => i = j
        BY ListRange
      <4>3. Range(none) = {} /\ IsInjective(none)
        BY <4>1, <4>2
      <4> QED
        BY <4>1, <4>3
    <3> QED
      BY <1>1, <3>1 DEF WalkedTo, Unwalked
  <2>3. CASE k = 0
    <3>1. n - k = n
      BY <1>1, <2>3
    <3> QED
      BY <1>3, <2>1, <2>2, <2>3, <3>1
  <2>4. CASE k # 0
    <3> DEFINE i == n + 1 - k
    <3>1. k \in 1 .. n /\ k - 1 \in 0 .. n /\ k - 1 < k /\ i \in 1 .. Len(ids)
          /\ n - (k - 1) = i /\ n - k = i - 1
      BY <1>1, <2>1, <2>4
    <3>2. WalkedTo(ids, i, g[k - 1])
      <4>1. k - 1 \notin Bad
        BY <2>1, <3>1
      <4>2. WalkedTo(ids, n - (k - 1), g[k - 1])
        BY <3>1, <4>1
      <4> HIDE DEF i
      <4> QED
        BY <3>1, <4>2
    <3>3. g[k] = MoveClaim(ids, i, g[k - 1])
      BY <1>3, <3>1
    <3> HIDE DEF i
    <3>4. WalkedTo(ids, i - 1, g[k])
      BY <3>1, <3>2, <3>3, WalkDown
    <3> QED
      BY <2>1, <3>1, <3>4
  <2> QED
    BY <2>3, <2>4
<1>5. n \in 0 .. n /\ n - n = 0
  BY <1>1
<1>6. WalkedTo(ids, n - n, g[n])
  BY <1>4, <1>5
<1> QED
  BY <1>2, <1>5, <1>6

-----------------------------------------------------------------------------
(* Evidence adds up *)

posted(d) == {id \in Ids : dealById[id] = d}

\* Claims are recorded only once posting has ended.
ClaimedAfterPosting ==
  \A d \in Deals : ~deals[d].postingFinished => deals[d].claimIds = <<>>

EvidenceInv == TypeOK /\ EvidenceAddsUp /\ ClaimedAfterPosting

LEMMA PostingTypes ==
  ASSUME TypeOK, NEW d \in Deals
  PROVE  /\ d \in Nat \ {0}
         /\ deals[d] \in [postingFinished : BOOLEAN, allocatedBytes : Nat, allocationIds : Seq(Ids),
                          claimIds : Seq(Ids), claimedBytes : Nat]
         /\ deals[d].postingFinished \in BOOLEAN
         /\ deals[d].allocatedBytes \in Nat /\ deals[d].claimedBytes \in Nat
         /\ deals[d].allocationIds \in Seq(Ids) /\ deals[d].claimIds \in Seq(Ids)
         /\ Range(deals[d].allocationIds) \subseteq Ids /\ Range(deals[d].claimIds) \subseteq Ids
<1>1. deals[d].allocationIds \in Seq(Ids) /\ deals[d].claimIds \in Seq(Ids)
  BY DEF TypeOK
<1>2. Range(deals[d].allocationIds) \subseteq Ids /\ Range(deals[d].claimIds) \subseteq Ids
  BY <1>1, ListRange
<1> QED
  BY <1>1, <1>2, DataCapAssumption DEF TypeOK

LEMMA SizesFinite ==
  ASSUME NEW S \in SUBSET Ids
  PROVE  /\ IsFiniteSet(S) /\ \A id \in S : SizeOf[id] \in Nat \ {0} /\ SizeOf[id] \in Int
         /\ SumFunctionOnSet(SizeOf, S) \in Nat
<1>1. IsFiniteSet(S) /\ \A id \in S : SizeOf[id] \in Nat \ {0}
  BY DataCapAssumption, FS_Subset
<1>2. \A id \in S : SizeOf[id] \in Nat
  BY <1>1
<1> QED
  BY <1>1, <1>2, SumNat

\* EvidenceAddsUp for one deal, in the parts its proof is about.
AddsUp(d) ==
  /\ IsInjective(deals[d].allocationIds) /\ IsInjective(deals[d].claimIds)
  /\ Range(deals[d].allocationIds) = posted(d) \ Range(deals[d].claimIds)
  /\ Range(deals[d].claimIds) = {id \in Ids : claimDeal[id] = d}
  /\ Range(deals[d].claimIds) \subseteq posted(d)
  /\ deals[d].allocatedBytes = SumFunctionOnSet(SizeOf, posted(d))
  /\ deals[d].claimedBytes = SumFunctionOnSet(SizeOf, Range(deals[d].claimIds))
  /\ allocationStatus[d] = "CLAIMED" => deals[d].postingFinished /\ deals[d].allocationIds = <<>>
  /\ posted(d) # {} /\ deals[d].postingFinished /\ deals[d].allocationIds = <<>> =>
       allocationStatus[d] = "CLAIMED"

AllAddUp == \A d \in Deals : AddsUp(d)

LEMMA AddsUpParts == TypeOK => (EvidenceAddsUp <=> AllAddUp)
<1> SUFFICES ASSUME TypeOK PROVE EvidenceAddsUp <=> AllAddUp
  OBVIOUS
<1>1. ASSUME NEW d \in Deals
      PROVE  IsInjective(deals[d].allocationIds \o deals[d].claimIds) <=>
               /\ IsInjective(deals[d].allocationIds) /\ IsInjective(deals[d].claimIds)
               /\ Range(deals[d].allocationIds) \cap Range(deals[d].claimIds) = {}
  BY PostingTypes, RangeConcat
<1>2. EvidenceAddsUp => AllAddUp
  BY <1>1 DEF EvidenceAddsUp, AllAddUp, AddsUp, posted, TotalSize
<1>3. AllAddUp => EvidenceAddsUp
  <2> SUFFICES ASSUME AllAddUp, NEW d \in Deals
               PROVE  /\ IsInjective(deals[d].allocationIds \o deals[d].claimIds)
                      /\ Range(deals[d].allocationIds) = {id \in Ids : dealById[id] = d} \ Range(deals[d].claimIds)
                      /\ Range(deals[d].claimIds) = {id \in Ids : claimDeal[id] = d}
                      /\ Range(deals[d].claimIds) \subseteq {id \in Ids : dealById[id] = d}
                      /\ deals[d].allocatedBytes = SumFunctionOnSet(SizeOf, {id \in Ids : dealById[id] = d})
                      /\ deals[d].claimedBytes = TotalSize(deals[d].claimIds)
                      /\ allocationStatus[d] = "CLAIMED" =>
                           deals[d].postingFinished /\ deals[d].allocationIds = <<>>
                      /\ {id \in Ids : dealById[id] = d} # {} /\ deals[d].postingFinished
                           /\ deals[d].allocationIds = <<>> => allocationStatus[d] = "CLAIMED"
    BY DEF EvidenceAddsUp
  <2>1. AddsUp(d)
    BY DEF AllAddUp
  <2>2. Range(deals[d].allocationIds) \cap Range(deals[d].claimIds) = {}
    BY <2>1 DEF AddsUp
  <2> QED
    BY <1>1, <2>1, <2>2 DEF AddsUp, posted, TotalSize
<1> QED
  BY <1>2, <1>3

\* An id nobody has is added to the deal's allocations.
LEMMA PostAddsUp ==
  ASSUME EvidenceInv, TypeOK', NEW d \in Deals, NEW id \in Ids,
         PostingOpen(d), PostId(d, id), UNCHANGED <<allocationStatus, claimDeal>>
  PROVE  EvidenceInv'
<1>1. /\ ~deals[d].postingFinished /\ dealById[id] = 0
      /\ dealById' = [dealById EXCEPT ![id] = d]
      /\ deals' = [deals EXCEPT ![d].allocationIds = Append(@, id), ![d].allocatedBytes = @ + SizeOf[id]]
  BY DEF PostingOpen, PostId, IsNewId
<1>2. /\ deals'[d].allocationIds = Append(deals[d].allocationIds, id)
      /\ deals'[d].allocatedBytes = deals[d].allocatedBytes + SizeOf[id]
      /\ deals'[d].claimIds = deals[d].claimIds /\ deals'[d].claimedBytes = deals[d].claimedBytes
      /\ deals'[d].postingFinished = deals[d].postingFinished
      /\ \A e \in Deals \ {d} : deals'[e] = deals[e]
  BY <1>1 DEF EvidenceInv, TypeOK
<1>9. /\ \A i \in Ids : dealById'[i] = IF i = id THEN d ELSE dealById[i]
      /\ \A e \in Deals : e # 0
  <2>1. DOMAIN dealById = Ids
    BY DEF EvidenceInv, TypeOK
  <2> QED
    BY <1>1, <2>1, PostingTypes DEF EvidenceInv
<1>3. posted(d)' = posted(d) \cup {id} /\ id \notin posted(d)
  BY <1>1, <1>9 DEF posted
<1>4. ASSUME NEW e \in Deals, e # d
      PROVE  posted(e)' = posted(e)
  BY <1>1, <1>4, <1>9 DEF posted
<1>5. \A e \in Deals : AddsUp(e)
  BY AddsUpParts DEF EvidenceInv, AllAddUp
<1>6. ASSUME NEW e \in Deals, e # d
      PROVE  AddsUp(e)'
  BY <1>2, <1>4, <1>5, <1>6 DEF AddsUp
<1>7. AddsUp(d)'
  <2>1. id \notin Range(deals[d].allocationIds) /\ id \notin Range(deals[d].claimIds)
    BY <1>3, <1>5 DEF AddsUp
  <2>2. /\ Range(Append(deals[d].allocationIds, id)) = Range(deals[d].allocationIds) \cup {id}
        /\ IsInjective(Append(deals[d].allocationIds, id))
    <3>1. deals[d].allocationIds \in Seq(Ids) /\ IsInjective(deals[d].allocationIds)
      BY <1>5, PostingTypes DEF AddsUp, EvidenceInv
    <3> QED
      BY <2>1, <3>1, RangeAppend
  <2>3. SumFunctionOnSet(SizeOf, posted(d) \cup {id}) = SumFunctionOnSet(SizeOf, posted(d)) + SizeOf[id]
    <3>1. posted(d) \cup {id} \in SUBSET Ids /\ (posted(d) \cup {id}) \ {id} = posted(d)
      BY <1>3 DEF posted
    <3> DEFINE all == posted(d) \cup {id}
    <3>2. IsFiniteSet(all) /\ (\A x \in all : SizeOf[x] \in Int) /\ id \in all
      BY <3>1, SizesFinite
    <3>3. SumFunctionOnSet(SizeOf, posted(d)) \in Nat /\ SizeOf[id] \in Nat
      BY <3>1, SizesFinite
    <3> HIDE DEF all
    <3>4. SumFunctionOnSet(SizeOf, all) = SizeOf[id] + SumFunctionOnSet(SizeOf, all \ {id})
      BY <3>2, SumRemove
    <3> QED
      BY <3>1, <3>3, <3>4 DEF all
  <2>4. ~(allocationStatus[d] = "CLAIMED")
    BY <1>1, <1>5 DEF AddsUp
  <2>5. AddsUp(d)
    BY <1>5
  <2>6. Range(deals[d].allocationIds)' = posted(d)' \ Range(deals[d].claimIds)'
    BY <1>2, <1>3, <2>1, <2>2, <2>5 DEF AddsUp
  <2>7. (deals[d].allocatedBytes = SumFunctionOnSet(SizeOf, posted(d)))'
    BY <1>2, <1>3, <2>3, <2>5 DEF AddsUp
  <2>8. /\ (IsInjective(deals[d].allocationIds) /\ IsInjective(deals[d].claimIds))'
        /\ (Range(deals[d].claimIds) = {i \in Ids : claimDeal[i] = d})'
        /\ (Range(deals[d].claimIds) \subseteq posted(d))'
        /\ (deals[d].claimedBytes = SumFunctionOnSet(SizeOf, Range(deals[d].claimIds)))'
    BY <1>2, <1>3, <2>2, <2>5 DEF AddsUp
  <2>9. ~deals'[d].postingFinished /\ ~(allocationStatus'[d] = "CLAIMED")
    BY <1>1, <1>2, <2>4
  <2> QED
    BY <2>6, <2>7, <2>8, <2>9 DEF AddsUp
<1>8. ClaimedAfterPosting'
  BY <1>2 DEF ClaimedAfterPosting, EvidenceInv
<1>10. EvidenceAddsUp'
  <2>1. AllAddUp'
    BY <1>6, <1>7 DEF AllAddUp
  <2> QED
    BY <2>1, AddsUpParts, PTL
<1> QED
  BY <1>8, <1>10 DEF EvidenceInv

LEMMA FinishAddsUp ==
  ASSUME EvidenceInv, TypeOK', NEW d \in Deals, FinishDataCapPosting(d)
  PROVE  EvidenceInv'
<1>1. /\ ~deals[d].postingFinished
      /\ deals' = [deals EXCEPT ![d].postingFinished = TRUE]
      /\ allocationStatus' = [allocationStatus EXCEPT ![d] = "ALLOCATED"]
      /\ UNCHANGED <<dealById, claimDeal>>
  BY DEF FinishDataCapPosting
<1>2. /\ deals'[d].allocationIds = deals[d].allocationIds
      /\ deals'[d].allocatedBytes = deals[d].allocatedBytes
      /\ deals'[d].claimIds = deals[d].claimIds /\ deals'[d].claimedBytes = deals[d].claimedBytes
      /\ deals'[d].postingFinished
      /\ \A e \in Deals \ {d} : deals'[e] = deals[e] /\ allocationStatus'[e] = allocationStatus[e]
      /\ allocationStatus'[d] = "ALLOCATED"
  BY <1>1 DEF EvidenceInv, TypeOK
<1>3. \A e \in Deals : AddsUp(e) /\ posted(e)' = posted(e)
  BY <1>1, AddsUpParts DEF EvidenceInv, AllAddUp, posted
<1>4. ASSUME NEW e \in Deals, e # d
      PROVE  AddsUp(e)'
  BY <1>1, <1>2, <1>3, <1>4 DEF AddsUp
<1>5. deals[d].allocationIds = <<>> => posted(d) = {}
  <2>1. deals[d].claimIds = <<>>
    BY <1>1 DEF EvidenceInv, ClaimedAfterPosting
  <2>2. Range(deals[d].claimIds) = {} /\ (deals[d].allocationIds = <<>> => Range(deals[d].allocationIds) = {})
    BY <2>1, PostingTypes, ListRange DEF EvidenceInv
  <2> QED
    BY <1>3, <2>2 DEF AddsUp
<1>6. AddsUp(d)'
  <2>1. AddsUp(d) /\ posted(d)' = posted(d)
    BY <1>3
  <2> QED
    BY <1>1, <1>2, <1>5, <2>1 DEF AddsUp
<1>7. ClaimedAfterPosting'
  BY <1>2 DEF ClaimedAfterPosting, EvidenceInv
<1>8. EvidenceAddsUp'
  <2>1. AllAddUp'
    BY <1>4, <1>6 DEF AllAddUp
  <2> QED
    BY <2>1, AddsUpParts, PTL
<1> QED
  BY <1>7, <1>8 DEF EvidenceInv

\* What a batch does to the deal and to the index of claims.
LEMMA BatchWalked ==
  ASSUME TypeOK, NEW d \in Deals, IsInjective(deals[d].allocationIds), NEW batchSize \in Nat,
         SubmitEvidenceBatch(d, batchSize)
  PROVE  \E left, claims \in Seq(Ids) :
           /\ deals[d].postingFinished
           /\ IsInjective(left) /\ IsInjective(claims)
           /\ Range(left) = Range(deals[d].allocationIds) \ Range(claims)
           /\ Range(claims) \subseteq Range(deals[d].allocationIds)
           /\ \A id \in Range(claims) : registry[id] = "Claim"
           /\ deals' = [deals EXCEPT ![d].allocationIds = left, ![d].claimIds = @ \o claims,
                                     ![d].claimedBytes = @ + SumFunctionOnSet(SizeOf, Range(claims))]
           /\ claimDeal' = [id \in Ids |-> IF id \in Range(claims) THEN d ELSE claimDeal[id]]
           /\ allocationStatus' =
                IF left = <<>> THEN [allocationStatus EXCEPT ![d] = "CLAIMED"] ELSE allocationStatus
           /\ UNCHANGED <<now, marketVars, registryVars, operational, maxAllocationExpiration, dealById,
                          terminationVars, refreshStatus>>
<1> DEFINE ids == deals[d].allocationIds
           n == BatchCount(Len(ids), batchSize)
           moved == ClaimedWalk(ids, n)
<1>1. ids \in Seq(Ids) /\ n \in 0 .. Len(ids)
  BY PostingTypes DEF BatchCount
<1>2. WalkedTo(ids, 0, moved)
  <2> HIDE DEF ids, n
  <2> QED
    BY <1>1, WalkMoves DEF ids
<1>3. /\ deals[d].postingFinished
      /\ deals' = [deals EXCEPT ![d].allocationIds = moved.left, ![d].claimIds = @ \o moved.claims,
                                ![d].claimedBytes = @ + TotalSize(moved.claims)]
      /\ claimDeal' = [id \in Ids |-> IF id \in Range(moved.claims) THEN d ELSE claimDeal[id]]
      /\ allocationStatus' =
           IF moved.left = <<>> THEN [allocationStatus EXCEPT ![d] = "CLAIMED"] ELSE allocationStatus
      /\ UNCHANGED <<now, marketVars, registryVars, operational, maxAllocationExpiration, dealById,
                     terminationVars, refreshStatus>>
  BY DEF SubmitEvidenceBatch
<1> HIDE DEF moved
<1>4. moved.left \in Seq(Ids) /\ moved.claims \in Seq(Ids)
  BY <1>2 DEF WalkedTo
<1> USE <1>4
<1> WITNESS moved.left \in Seq(Ids), moved.claims \in Seq(Ids)
<1> QED
  BY <1>2, <1>3 DEF WalkedTo, TotalSize

\* The claims of a batch leave the allocations of their deal.
LEMMA BatchAddsUp ==
  ASSUME EvidenceInv, TypeOK', NEW d \in Deals, NEW batchSize \in Nat, SubmitEvidenceBatch(d, batchSize)
  PROVE  EvidenceInv'
<1>1. \A e \in Deals : AddsUp(e)
  BY AddsUpParts DEF EvidenceInv, AllAddUp
<1>2. IsInjective(deals[d].allocationIds)
  BY <1>1 DEF AddsUp
<1>3. PICK left \in Seq(Ids), claims \in Seq(Ids) :
        /\ deals[d].postingFinished
        /\ IsInjective(left) /\ IsInjective(claims)
        /\ Range(left) = Range(deals[d].allocationIds) \ Range(claims)
        /\ Range(claims) \subseteq Range(deals[d].allocationIds)
        /\ deals' = [deals EXCEPT ![d].allocationIds = left, ![d].claimIds = @ \o claims,
                                  ![d].claimedBytes = @ + SumFunctionOnSet(SizeOf, Range(claims))]
        /\ claimDeal' = [id \in Ids |-> IF id \in Range(claims) THEN d ELSE claimDeal[id]]
        /\ allocationStatus' =
             IF left = <<>> THEN [allocationStatus EXCEPT ![d] = "CLAIMED"] ELSE allocationStatus
        /\ UNCHANGED dealById
  BY <1>2, BatchWalked DEF EvidenceInv
<1> DEFINE bytes == SumFunctionOnSet(SizeOf, Range(claims))
           old == deals[d].claimIds
<1>4. /\ deals'[d].allocationIds = left /\ deals'[d].claimIds = old \o claims
      /\ deals'[d].claimedBytes = deals[d].claimedBytes + bytes
      /\ deals'[d].allocatedBytes = deals[d].allocatedBytes
      /\ deals'[d].postingFinished
      /\ \A e \in Deals \ {d} : deals'[e] = deals[e] /\ allocationStatus'[e] = allocationStatus[e]
  <2>1. deals' = [deals EXCEPT ![d].allocationIds = left, ![d].claimIds = @ \o claims,
                               ![d].claimedBytes = @ + bytes]
    BY <1>3
  <2>2. \A e \in Deals \ {d} : allocationStatus'[e] = allocationStatus[e]
    BY <1>3 DEF EvidenceInv, TypeOK
  <2>3. deals[d].postingFinished /\ d \in DOMAIN deals
    BY <1>3 DEF EvidenceInv, TypeOK
  <2>4. deals[d] \in [postingFinished : BOOLEAN, allocatedBytes : Nat, allocationIds : Seq(Ids),
                      claimIds : Seq(Ids), claimedBytes : Nat]
    BY PostingTypes DEF EvidenceInv
  <2> HIDE DEF bytes
  <2>5. deals'[d] = [deals[d] EXCEPT !.allocationIds = left, !.claimIds = @ \o claims, !.claimedBytes = @ + bytes]
    BY <2>1, <2>3
  <2>6. /\ deals'[d].allocationIds = left /\ deals'[d].claimIds = deals[d].claimIds \o claims
        /\ deals'[d].claimedBytes = deals[d].claimedBytes + bytes
        /\ deals'[d].allocatedBytes = deals[d].allocatedBytes
        /\ deals'[d].postingFinished = deals[d].postingFinished
    BY ONLY <2>4, <2>5
  <2>7. \A e \in Deals \ {d} : deals'[e] = deals[e]
    BY <2>1 DEF EvidenceInv, TypeOK
  <2> QED
    BY <2>2, <2>3, <2>6, <2>7
<1>5. \A e \in Deals : posted(e)' = posted(e) /\ posted(e) \subseteq Ids
  BY <1>3 DEF posted
<1>6. \A e \in Deals \ {d} : posted(e) \cap posted(d) = {}
  BY DEF posted
<1>7. /\ Range(claims) \subseteq posted(d) /\ Range(claims) \cap Range(old) = {}
      /\ Range(old) \subseteq posted(d) /\ Range(old) = {id \in Ids : claimDeal[id] = d}
  BY <1>1, <1>3 DEF AddsUp
<1>8. ASSUME NEW e \in Deals, e # d
      PROVE  AddsUp(e)'
  <2>1. AddsUp(e) /\ posted(e)' = posted(e) /\ posted(e) \cap Range(claims) = {}
    BY <1>1, <1>5, <1>6, <1>7, <1>8
  <2>2. {id \in Ids : claimDeal[id] = e}' = {id \in Ids : claimDeal[id] = e}
    <3>1. \A id \in Ids : claimDeal[id] = e => id \in posted(e)
      BY <2>1 DEF AddsUp
    <3>2. \A id \in Ids : claimDeal'[id] = IF id \in Range(claims) THEN d ELSE claimDeal[id]
      BY <1>3
    <3> QED
      BY <1>8, <2>1, <3>1, <3>2
  <2> QED
    BY <1>4, <1>8, <2>1, <2>2 DEF AddsUp
<1>9. AddsUp(d)'
  <2>1. AddsUp(d) /\ posted(d)' = posted(d)
    BY <1>1, <1>5
  <2>2. /\ Range(old \o claims) = Range(old) \cup Range(claims) /\ IsInjective(old \o claims)
    <3>1. old \in Seq(Ids) /\ IsInjective(old)
      BY <2>1, PostingTypes DEF AddsUp, EvidenceInv
    <3> HIDE DEF old
    <3> QED
      BY <1>3, <1>7, <3>1, RangeConcat
  <2>3. {id \in Ids : claimDeal[id] = d}' = Range(old) \cup Range(claims)
    <3>1. \A id \in Ids : claimDeal'[id] = IF id \in Range(claims) THEN d ELSE claimDeal[id]
      BY <1>3
    <3> QED
      BY <1>5, <1>7, <3>1
  <2>4. SumFunctionOnSet(SizeOf, Range(old) \cup Range(claims)) = SumFunctionOnSet(SizeOf, Range(old)) + bytes
    <3>1. Range(old) \in SUBSET Ids /\ Range(claims) \in SUBSET Ids /\ Range(old) \cup Range(claims) \in SUBSET Ids
      BY <1>5, <1>7
    <3>2. /\ IsFiniteSet(Range(old)) /\ IsFiniteSet(Range(claims))
          /\ \A x \in Range(old) \cup Range(claims) : SizeOf[x] \in Int
      BY <3>1, SizesFinite
    <3> QED
      BY <1>7, <3>2, SumUnion
  <2> HIDE DEF old, bytes
  <2>5. (IsInjective(deals[d].allocationIds) /\ IsInjective(deals[d].claimIds))'
    BY <1>3, <1>4, <2>2
  <2>6. (Range(deals[d].allocationIds) = posted(d) \ Range(deals[d].claimIds))'
    <3>1. Range(deals[d].allocationIds) = posted(d) \ Range(old)
      BY <2>1 DEF AddsUp, old
    <3>2. Range(left) = posted(d) \ Range(old \o claims)
      BY <1>3, <2>2, <3>1
    <3> QED
      BY <1>4, <2>1, <3>2
  <2>7. /\ (Range(deals[d].claimIds) = {id \in Ids : claimDeal[id] = d})'
        /\ (Range(deals[d].claimIds) \subseteq posted(d))'
    BY <1>4, <1>7, <2>1, <2>2, <2>3
  <2>8. /\ (deals[d].allocatedBytes = SumFunctionOnSet(SizeOf, posted(d)))'
        /\ (deals[d].claimedBytes = SumFunctionOnSet(SizeOf, Range(deals[d].claimIds)))'
    BY <1>4, <2>1, <2>2, <2>4 DEF AddsUp, old
  <2>9. allocationStatus'[d] = "CLAIMED" <=> left = <<>> \/ allocationStatus[d] = "CLAIMED"
    BY <1>3 DEF EvidenceInv, TypeOK
  <2>10. deals[d].allocationIds = <<>> => left = <<>>
    <3>1. deals[d].allocationIds = <<>> => Range(deals[d].allocationIds) = {}
      BY PostingTypes, ListRange DEF EvidenceInv
    <3>2. left = <<>> <=> Range(left) = {}
      BY ListRange
    <3> QED
      BY <1>3, <3>1, <3>2
  <2>11. /\ allocationStatus'[d] = "CLAIMED" => deals'[d].postingFinished /\ deals'[d].allocationIds = <<>>
         /\ deals'[d].allocationIds = <<>> => allocationStatus'[d] = "CLAIMED"
    BY <1>4, <2>1, <2>9, <2>10 DEF AddsUp
  <2> QED
    BY <2>5, <2>6, <2>7, <2>8, <2>11 DEF AddsUp
<1>10. ClaimedAfterPosting'
  BY <1>4 DEF ClaimedAfterPosting, EvidenceInv
<1>11. EvidenceAddsUp'
  <2>1. AllAddUp'
    BY <1>8, <1>9 DEF AllAddUp
  <2> QED
    BY <2>1, AddsUpParts, PTL
<1> QED
  BY <1>10, <1>11 DEF EvidenceInv

-----------------------------------------------------------------------------
(* Type correctness *)

\* What happens to the registry, the clock and the market leaves the evidence alone.
WorldStep ==
  \/ Tick
  \/ \E id \in Ids : Claim(id) \/ RemoveClaim(id) \/ RemoveExpiredAllocation(id)
  \/ DisableAdapter
  \/ SetDealActivationPadding
  \/ \E d \in Deals :
       ActivateEvidence(d) \/ TerminateDeal(d) \/ ExpireDeal(d) \/ RejectAcceptedDeal(d) \/ FinalizeDeal(d)

LEMMA WorldTypes ==
  ASSUME TypeOK, WorldStep
  PROVE  TypeOK' /\ UNCHANGED <<postingVars, terminationVars, refreshStatus>> /\ now <= now'
<1>1. CASE Tick
  BY <1>1 DEF Tick, TypeOK, marketVars, registryVars, postingVars, terminationVars
<1>2. CASE \E id \in Ids : Claim(id) \/ RemoveClaim(id) \/ RemoveExpiredAllocation(id)
  <2>1. PICK id \in Ids : Claim(id) \/ RemoveClaim(id) \/ RemoveExpiredAllocation(id)
    BY <1>2
  <2>2. /\ registry' \in [Ids -> {"Free", "Allocation", "Claim", "Gone"}]
        /\ removedAt' \in [Ids -> Nat]
        /\ UNCHANGED <<now, marketVars, expirationOf, operational, postingVars, terminationVars, refreshStatus>>
    <3>1. now \in Nat /\ registry \in [Ids -> {"Free", "Allocation", "Claim", "Gone"}] /\ removedAt \in [Ids -> Nat]
      BY DEF TypeOK
    <3>2. CASE Claim(id)
      BY <3>1, <3>2 DEF Claim
    <3>3. CASE RemoveClaim(id)
      BY <3>1, <3>3 DEF RemoveClaim
    <3>4. CASE RemoveExpiredAllocation(id)
      BY <3>1, <3>4 DEF RemoveExpiredAllocation
    <3> QED
      BY <2>1, <3>2, <3>3, <3>4
  <2> QED
    BY <2>2 DEF TypeOK, marketVars, registryVars, postingVars, terminationVars
<1>3. CASE DisableAdapter \/ SetDealActivationPadding
  <2>1. /\ operational' \in BOOLEAN /\ padding' \in Paddings
        /\ UNCHANGED <<now, dealState, serviceEnd, registryVars, postingVars, terminationVars, refreshStatus>>
    BY <1>3 DEF DisableAdapter, SetDealActivationPadding, TypeOK, marketVars
  <2> QED
    BY <2>1 DEF TypeOK, registryVars, postingVars, terminationVars
<1>4. CASE \E d \in Deals :
             ActivateEvidence(d) \/ TerminateDeal(d) \/ ExpireDeal(d) \/ RejectAcceptedDeal(d) \/ FinalizeDeal(d)
  <2>1. PICK d \in Deals :
          ActivateEvidence(d) \/ TerminateDeal(d) \/ ExpireDeal(d) \/ RejectAcceptedDeal(d) \/ FinalizeDeal(d)
    BY <1>4
  <2>2. /\ dealState' \in [Deals -> {"ACCEPTED", "ACTIVE", "EARLY_TERMINATED", "EXPIRED", "REJECTED", "FINALIZED"}]
        /\ serviceEnd' \in [Deals -> Nat]
        /\ UNCHANGED <<now, padding, registryVars, operational, postingVars, terminationVars, refreshStatus>>
    <3> DEFINE States == {"ACCEPTED", "ACTIVE", "EARLY_TERMINATED", "EXPIRED", "REJECTED", "FINALIZED"}
    <3>1. dealState \in [Deals -> States] /\ serviceEnd \in [Deals -> Nat] /\ now + DurationEpochs \in Nat
      BY DataCapAssumption DEF TypeOK
    <3>2. /\ \E state \in States : dealState' = [dealState EXCEPT ![d] = state]
          /\ serviceEnd' = [serviceEnd EXCEPT ![d] = now + DurationEpochs] \/ UNCHANGED serviceEnd
          /\ UNCHANGED <<now, padding, registryVars, operational, postingVars, terminationVars, refreshStatus>>
      BY <2>1 DEF ActivateEvidence, TerminateDeal, ExpireDeal, RejectAcceptedDeal, FinalizeDeal, CloseDeal
    <3> QED
      BY <3>1, <3>2
  <2>3. now <= now'
    BY <2>2 DEF TypeOK
  <2>4. UNCHANGED <<postingVars, terminationVars, refreshStatus>>
    BY <2>2
  <2>5. TypeOK'
    BY <2>2 DEF TypeOK, registryVars, postingVars, terminationVars
  <2> QED
    BY <2>3, <2>4, <2>5
<1> QED
  BY <1>1, <1>2, <1>3, <1>4 DEF WorldStep

LEMMA PostTypes ==
  ASSUME TypeOK, NEW d \in Deals, NEW id \in Ids, PostId(d, id)
  PROVE  /\ deals' \in [Deals -> [postingFinished : BOOLEAN, allocatedBytes : Nat, allocationIds : Seq(Ids),
                                  claimIds : Seq(Ids), claimedBytes : Nat]]
         /\ dealById' \in [Ids -> Deals \cup {0}]
<1>1. /\ dealById' = [dealById EXCEPT ![id] = d]
      /\ deals' = [deals EXCEPT ![d].allocationIds = Append(@, id), ![d].allocatedBytes = @ + SizeOf[id]]
  BY DEF PostId
<1>2. /\ Append(deals[d].allocationIds, id) \in Seq(Ids)
      /\ deals[d].allocatedBytes + SizeOf[id] \in Nat
  BY PostingTypes, DataCapAssumption
<1>3. [deals[d] EXCEPT !.allocationIds = Append(@, id), !.allocatedBytes = @ + SizeOf[id]]
         \in [postingFinished : BOOLEAN, allocatedBytes : Nat, allocationIds : Seq(Ids),
              claimIds : Seq(Ids), claimedBytes : Nat]
  BY <1>2, PostingTypes
<1> QED
  BY <1>1, <1>3 DEF TypeOK

LEMMA SubmitTypes ==
  ASSUME TypeOK, NEW d \in Deals, NEW id \in Ids, NEW expiration \in Expirations,
         SubmitAllocation(d, id, expiration) \/ SubmitClaimExtension(d, id)
  PROVE  TypeOK'
<1>1. CASE SubmitAllocation(d, id, expiration)
  <2>1. expiration \in Nat /\ LatestExpiration(d, expiration) \in Nat
    BY DataCapAssumption DEF LatestExpiration, TypeOK
  <2>2. PostId(d, id)
    BY <1>1 DEF SubmitAllocation
  <2> HIDE DEF TypeOK
  <2>3. /\ registry' \in [Ids -> {"Free", "Allocation", "Claim", "Gone"}]
        /\ expirationOf' \in [Ids -> Nat]
        /\ maxAllocationExpiration' \in [Deals -> Nat]
        /\ UNCHANGED <<now, marketVars, removedAt, operational, allocationStatus, claimDeal,
                       terminationVars, refreshStatus>>
    BY <1>1, <2>1 DEF SubmitAllocation, TypeOK
  <2> QED
    BY <2>2, <2>3, PostTypes DEF TypeOK, marketVars, terminationVars
<1>2. CASE SubmitClaimExtension(d, id)
  <2>1. /\ PostId(d, id)
        /\ UNCHANGED <<now, marketVars, registryVars, operational, allocationStatus,
                       maxAllocationExpiration, claimDeal, terminationVars, refreshStatus>>
    BY <1>2 DEF SubmitClaimExtension
  <2> QED
    BY <2>1, PostTypes DEF TypeOK, marketVars, registryVars, terminationVars
<1> QED
  BY <1>1, <1>2

LEMMA BatchTypes ==
  ASSUME TypeOK, NEW d \in Deals, IsInjective(deals[d].allocationIds), NEW batchSize \in Nat,
         SubmitEvidenceBatch(d, batchSize)
  PROVE  TypeOK'
<1>1. PICK left \in Seq(Ids), claims \in Seq(Ids) :
        /\ deals' = [deals EXCEPT ![d].allocationIds = left, ![d].claimIds = @ \o claims,
                                  ![d].claimedBytes = @ + SumFunctionOnSet(SizeOf, Range(claims))]
        /\ claimDeal' = [id \in Ids |-> IF id \in Range(claims) THEN d ELSE claimDeal[id]]
        /\ allocationStatus' =
             IF left = <<>> THEN [allocationStatus EXCEPT ![d] = "CLAIMED"] ELSE allocationStatus
        /\ UNCHANGED <<now, marketVars, registryVars, operational, maxAllocationExpiration, dealById,
                       terminationVars, refreshStatus>>
  BY BatchWalked
<1>2. SumFunctionOnSet(SizeOf, Range(claims)) \in Nat
  <2>1. Range(claims) \in SUBSET Ids
    BY ListRange
  <2> QED
    BY <2>1, SizesFinite
<1> DEFINE bytes == SumFunctionOnSet(SizeOf, Range(claims))
<1>3. deals' = [deals EXCEPT ![d].allocationIds = left, ![d].claimIds = @ \o claims, ![d].claimedBytes = @ + bytes]
  BY <1>1
<1>4. bytes \in Nat
  BY <1>2
<1> HIDE DEF bytes
<1>5. deals[d].claimIds \o claims \in Seq(Ids) /\ deals[d].claimedBytes + bytes \in Nat
  BY <1>4, PostingTypes
<1>6. deals' \in [Deals -> [postingFinished : BOOLEAN, allocatedBytes : Nat, allocationIds : Seq(Ids),
                            claimIds : Seq(Ids), claimedBytes : Nat]]
  <2> DEFINE Evidence == [postingFinished : BOOLEAN, allocatedBytes : Nat, allocationIds : Seq(Ids),
                          claimIds : Seq(Ids), claimedBytes : Nat]
             new == [deals[d] EXCEPT !.allocationIds = left, !.claimIds = @ \o claims, !.claimedBytes = @ + bytes]
  <2>1. deals \in [Deals -> Evidence] /\ deals[d] \in Evidence
    BY DEF TypeOK
  <2>2. new \in Evidence
    BY <1>5, <2>1
  <2>3. deals' = [deals EXCEPT ![d] = new]
    BY <1>3, <2>1
  <2> HIDE DEF Evidence, new
  <2>4. deals' \in [Deals -> Evidence]
    BY <2>1, <2>2, <2>3
  <2> QED
    BY <2>4 DEF Evidence
<1>7. claimDeal' \in [Ids -> Deals \cup {0}] /\ allocationStatus' \in [Deals -> {"NONE", "ALLOCATED", "CLAIMED"}]
  BY <1>1 DEF TypeOK
<1> QED
  BY <1>1, <1>6, <1>7 DEF TypeOK, marketVars, registryVars, terminationVars

LEMMA FinishTypes ==
  ASSUME TypeOK, NEW d \in Deals, FinishDataCapPosting(d)
  PROVE  TypeOK'
<1>1. deals' \in [Deals -> [postingFinished : BOOLEAN, allocatedBytes : Nat, allocationIds : Seq(Ids),
                            claimIds : Seq(Ids), claimedBytes : Nat]]
  BY PostingTypes DEF FinishDataCapPosting, TypeOK
<1>2. /\ allocationStatus' \in [Deals -> {"NONE", "ALLOCATED", "CLAIMED"}]
      /\ UNCHANGED <<now, marketVars, registryVars, operational, maxAllocationExpiration, dealById,
                     claimDeal, terminationVars, refreshStatus>>
  BY DEF FinishDataCapPosting, TypeOK
<1> QED
  BY <1>1, <1>2 DEF TypeOK, marketVars, registryVars, terminationVars

LEMMA TerminationTypes ==
  ASSUME TypeOK, NEW id \in Ids, ClaimsTerminatedEarly(id)
  PROVE  TypeOK'
<1>1. /\ terminatedAt' \in [Ids -> Nat] /\ terminationRevision' \in [Deals -> Nat]
      /\ UNCHANGED <<now, marketVars, registryVars, operational, postingVars, refreshStatus>>
  BY DEF ClaimsTerminatedEarly, TypeOK
<1> QED
  BY <1>1 DEF TypeOK, marketVars, registryVars, postingVars

Status == [checkedClaims : Nat, pendingActiveClaimedBytes : Nat, failedClaimIds : SUBSET Ids,
           partialEvidenceRefreshEpoch : Nat, terminationRevision : Nat, lastEvidenceRefreshEpoch : Nat,
           activeClaimedBytes : Nat, result : {"NONE", "ACTIVE", "COVERED_BYTES_MISMATCH"}]

LEMMA RestartedStatus ==
  ASSUME NEW status \in Status, NEW revision \in Nat, NEW epoch \in Nat
  PROVE  [status EXCEPT !.checkedClaims = 0, !.pendingActiveClaimedBytes = 0, !.failedClaimIds = {},
            !.terminationRevision = revision, !.partialEvidenceRefreshEpoch = epoch] \in Status
  BY DEF Status

LEMMA AdvancedStatus ==
  ASSUME NEW status \in Status, NEW n \in Int, status.checkedClaims + n \in Nat,
         NEW failed \in SUBSET Ids, NEW bytes \in Nat
  PROVE  [status EXCEPT !.checkedClaims = @ + n, !.failedClaimIds = @ \cup failed,
            !.pendingActiveClaimedBytes = @ + bytes] \in Status
<1>1. status.failedClaimIds \cup failed \in SUBSET Ids /\ status.pendingActiveClaimedBytes + bytes \in Nat
  BY DEF Status
<1> QED
  BY <1>1 DEF Status

LEMMA StartedTypes ==
  ASSUME TypeOK, NEW d \in Deals
  PROVE  /\ refreshStatus[d] \in Status /\ Started(d) \in Status
         /\ terminatedClaims \subseteq Ids
<1>1. refreshStatus[d] \in Status /\ terminationRevision[d] \in Nat /\ now \in Nat
  BY DEF TypeOK, Status
<1>2. CASE InSweep(d) /\ ~Outdated(d)
  BY <1>1, <1>2 DEF Started, terminatedClaims
<1>3. CASE ~(InSweep(d) /\ ~Outdated(d))
  <2>1. Started(d) = [refreshStatus[d] EXCEPT !.checkedClaims = 0, !.pendingActiveClaimedBytes = 0,
                        !.failedClaimIds = {}, !.terminationRevision = terminationRevision[d],
                        !.partialEvidenceRefreshEpoch = now]
    BY <1>3 DEF Started
  <2>2. Started(d) \in Status
    <3> DEFINE old == refreshStatus[d]
               revision == terminationRevision[d]
               new == [old EXCEPT !.checkedClaims = 0, !.pendingActiveClaimedBytes = 0, !.failedClaimIds = {},
                         !.terminationRevision = revision, !.partialEvidenceRefreshEpoch = now]
    <3>1. old \in Status /\ revision \in Nat /\ now \in Nat
      BY <1>1
    <3>2. Started(d) = new
      BY <2>1
    <3> HIDE DEF old, revision
    <3>3. new \in Status
      BY <3>1, RestartedStatus
    <3> HIDE DEF new
    <3> QED
      BY <3>2, <3>3
  <2> QED
    BY <1>1, <2>2 DEF terminatedClaims
<1> QED
  BY <1>2, <1>3

\* The claims a batch looks up, and those of them that are not counted.
LEMMA BatchLooksUp ==
  ASSUME TypeOK, NEW d \in Deals, NEW n \in Int, Started(d).checkedClaims + n <= Len(deals[d].claimIds)
  PROVE  /\ BatchClaims(d, n) \subseteq Range(deals[d].claimIds)
         /\ BatchClaims(d, n) \in SUBSET Ids
<1>1. /\ deals[d].claimIds \in Seq(Ids) /\ Len(deals[d].claimIds) \in Nat
      /\ Range(deals[d].claimIds) \subseteq Ids /\ Started(d).checkedClaims \in Nat
  BY PostingTypes, StartedTypes DEF Status
<1>2. Range(deals[d].claimIds) = {deals[d].claimIds[i] : i \in 1 .. Len(deals[d].claimIds)}
  BY <1>1, ListRange
<1>3. Started(d).checkedClaims + 1 .. Started(d).checkedClaims + n \subseteq 1 .. Len(deals[d].claimIds)
  BY <1>1
<1>4. BatchClaims(d, n) \subseteq Range(deals[d].claimIds)
  BY <1>2, <1>3 DEF BatchClaims
<1> QED
  BY <1>1, <1>4

LEMMA RefreshTypes ==
  ASSUME TypeOK, NEW d \in Deals, NEW batchSize \in Nat, RefreshEvidenceStatus(d, batchSize)
  PROVE  TypeOK'
<1> DEFINE status == Started(d)
           n == BatchCount(Len(deals[d].claimIds) - status.checkedClaims, batchSize)
           batch == BatchClaims(d, n)
           counted == batch \ (Failed(batch) \cup terminatedClaims)
           bytes == SumFunctionOnSet(SizeOf, counted)
           advanced == Advanced(d, n)
           published == Published(d, advanced)
<1>1. status \in Status /\ Len(deals[d].claimIds) \in Nat
  BY StartedTypes, PostingTypes
<1>2. n \in Int /\ status.checkedClaims + n \in Nat /\ status.checkedClaims + n <= Len(deals[d].claimIds)
  <2>1. status.checkedClaims \in Nat
    BY <1>1 DEF Status
  <2> HIDE DEF status
  <2> QED
    BY <1>1, <2>1 DEF BatchCount
<1>3. batch \in SUBSET Ids /\ Failed(batch) \in SUBSET Ids /\ counted \in SUBSET Ids
  <2>1. batch \in SUBSET Ids
    <3> HIDE DEF n
    <3> QED
      BY <1>2, BatchLooksUp
  <2> QED
    BY <2>1 DEF Failed
<1>4. bytes \in Nat
  BY <1>3, SizesFinite
<1>5. advanced = [status EXCEPT !.checkedClaims = @ + n, !.failedClaimIds = @ \cup Failed(batch),
                    !.pendingActiveClaimedBytes = @ + bytes]
  BY DEF Advanced
<1>6. refreshStatus' = [refreshStatus EXCEPT ![d] = published]
  BY DEF RefreshEvidenceStatus
<1>7. UNCHANGED <<now, marketVars, registryVars, operational, postingVars, terminationVars>>
  BY DEF RefreshEvidenceStatus
<1> DEFINE failed == Failed(batch)
<1> HIDE DEF bytes, batch, counted, n, status, advanced, failed
<1>8. advanced \in Status
  <2>1. advanced = [status EXCEPT !.checkedClaims = @ + n, !.failedClaimIds = @ \cup failed,
                      !.pendingActiveClaimedBytes = @ + bytes]
    BY <1>5 DEF failed
  <2>2. failed \in SUBSET Ids
    BY <1>3 DEF failed
  <2> QED
    BY <1>1, <1>2, <1>4, <2>1, <2>2, AdvancedStatus
<1>9. published \in Status
  <2>1. CASE ~SweepComplete(d, advanced)
    BY <1>8, <2>1 DEF Published
  <2>2. CASE SweepComplete(d, advanced)
    <3> DEFINE result == SweepResult(d, advanced)
    <3>1. result \in {"ACTIVE", "COVERED_BYTES_MISMATCH"}
      BY <2>2 DEF SweepResult
    <3>2. published = [advanced EXCEPT !.lastEvidenceRefreshEpoch = now,
                         !.activeClaimedBytes = advanced.pendingActiveClaimedBytes, !.result = result]
      BY <2>2 DEF Published, PublishedAlways
    <3>3. now \in Nat
      BY DEF TypeOK
    <3> HIDE DEF result, published
    <3> QED
      BY <1>8, <3>1, <3>2, <3>3 DEF Status
  <2> QED
    BY <2>1, <2>2
<1> HIDE DEF published
<1>10. refreshStatus' \in [Deals -> Status]
  <2>1. refreshStatus \in [Deals -> Status]
    BY DEF TypeOK, Status
  <2> QED
    BY <1>6, <1>9, <2>1
<1> QED
  BY <1>7, <1>10 DEF TypeOK, Status, marketVars, registryVars, postingVars, terminationVars

\* The steps of the specification, by what they may change.
LEMMA StepKinds ==
  ASSUME [Next]_vars
  PROVE  \/ UNCHANGED vars
         \/ WorldStep
         \/ \E d \in Deals, id \in Ids, expiration \in Expirations : SubmitAllocation(d, id, expiration)
         \/ \E d \in Deals, id \in Ids : SubmitClaimExtension(d, id)
         \/ \E d \in Deals : FinishDataCapPosting(d)
         \/ \E d \in Deals, batchSize \in Nat : SubmitEvidenceBatch(d, batchSize)
         \/ \E d \in Deals, batchSize \in Nat \ {0} : RefreshEvidenceStatus(d, batchSize)
         \/ \E id \in Ids : ClaimsTerminatedEarly(id)
<1>1. \A batchSize \in 1 .. Cardinality(Ids) : batchSize \in Nat \ {0}
  OBVIOUS
<1> QED
  BY <1>1 DEF Next, WorldStep

LEMMA EvidenceStep ==
  ASSUME EvidenceInv, [Next]_vars
  PROVE  EvidenceInv'
<1>1. ASSUME TypeOK', UNCHANGED <<postingVars>>
      PROVE  EvidenceInv'
  <2>1. UNCHANGED <<deals, dealById, claimDeal, allocationStatus>>
    BY <1>1 DEF postingVars
  <2>2. EvidenceAddsUp'
    BY <2>1, SMTT(30) DEF EvidenceInv, EvidenceAddsUp
  <2>3. ClaimedAfterPosting'
    BY <2>1 DEF EvidenceInv, ClaimedAfterPosting
  <2> QED
    BY <1>1, <2>2, <2>3 DEF EvidenceInv
<1>2. CASE UNCHANGED vars
  <2>1. TypeOK'
    BY <1>2 DEF EvidenceInv, TypeOK, vars, marketVars, registryVars, postingVars, terminationVars
  <2> QED
    BY <1>1, <1>2, <2>1 DEF vars
<1>3. CASE WorldStep
  BY <1>1, <1>3, WorldTypes DEF EvidenceInv
<1>4. ASSUME NEW d \in Deals, NEW id \in Ids, NEW expiration \in Expirations, SubmitAllocation(d, id, expiration)
      PROVE  EvidenceInv'
  <2>1. TypeOK'
    BY <1>4, SubmitTypes DEF EvidenceInv
  <2>2. PostingOpen(d) /\ PostId(d, id) /\ UNCHANGED <<allocationStatus, claimDeal>>
    BY <1>4 DEF SubmitAllocation
  <2> QED
    BY <2>1, <2>2, PostAddsUp
<1>5. ASSUME NEW d \in Deals, NEW id \in Ids, SubmitClaimExtension(d, id)
      PROVE  EvidenceInv'
  <2>1. TypeOK'
    <3>1. PostId(d, id)
      BY <1>5 DEF SubmitClaimExtension
    <3>2. UNCHANGED <<now, marketVars, registryVars, operational, allocationStatus,
                      maxAllocationExpiration, claimDeal, terminationVars, refreshStatus>>
      BY <1>5 DEF SubmitClaimExtension
    <3> QED
      BY <3>1, <3>2, PostTypes DEF EvidenceInv, TypeOK, marketVars, registryVars, terminationVars
  <2>2. PostingOpen(d) /\ PostId(d, id) /\ UNCHANGED <<allocationStatus, claimDeal>>
    BY <1>5 DEF SubmitClaimExtension
  <2> QED
    BY <2>1, <2>2, PostAddsUp
<1>6. ASSUME NEW d \in Deals, FinishDataCapPosting(d)
      PROVE  EvidenceInv'
  BY <1>6, FinishTypes, FinishAddsUp DEF EvidenceInv
<1>7. ASSUME NEW d \in Deals, NEW batchSize \in Nat, SubmitEvidenceBatch(d, batchSize)
      PROVE  EvidenceInv'
  <2>1. IsInjective(deals[d].allocationIds)
    BY AddsUpParts DEF EvidenceInv, AllAddUp, AddsUp
  <2> QED
    BY <1>7, <2>1, BatchTypes, BatchAddsUp DEF EvidenceInv
<1>8. ASSUME NEW d \in Deals, NEW batchSize \in Nat \ {0}, RefreshEvidenceStatus(d, batchSize)
      PROVE  EvidenceInv'
  <2>1. UNCHANGED postingVars
    BY <1>8 DEF RefreshEvidenceStatus
  <2> QED
    BY <1>1, <1>8, <2>1, RefreshTypes DEF EvidenceInv
<1>9. ASSUME NEW id \in Ids, ClaimsTerminatedEarly(id)
      PROVE  EvidenceInv'
  <2>1. UNCHANGED postingVars
    BY <1>9 DEF ClaimsTerminatedEarly
  <2> QED
    BY <1>1, <1>9, <2>1, TerminationTypes DEF EvidenceInv
<1> QED
  BY <1>2, <1>3, <1>4, <1>5, <1>6, <1>7, <1>8, <1>9, StepKinds

LEMMA EvidenceInit ==
  ASSUME Init
  PROVE  EvidenceInv
<1>1. PICK none \in Seq(Ids) : none = <<>> /\ Len(none) = 0
  BY EmptySeq
<1>2. TypeOK
  <2>1. NoEvidence \in [postingFinished : BOOLEAN, allocatedBytes : Nat, allocationIds : Seq(Ids),
                        claimIds : Seq(Ids), claimedBytes : Nat]
    BY <1>1 DEF NoEvidence
  <2>2. NoRefresh \in Status
    BY DEF NoRefresh, Status
  <2> QED
    BY <2>1, <2>2 DEF Init, TypeOK, Status
<1>3. ASSUME NEW d \in Deals
      PROVE  AddsUp(d)
  <2>1. deals[d] = NoEvidence /\ allocationStatus[d] = "NONE" /\ d # 0
    BY DataCapAssumption DEF Init
  <2>2. posted(d) = {} /\ {id \in Ids : claimDeal[id] = d} = {}
    BY <2>1 DEF Init, posted
  <2>3. Range(none) = {} /\ IsInjective(none)
    <3>1. /\ Range(none) = {none[i] : i \in 1 .. Len(none)}
          /\ IsInjective(none) <=> \A i, j \in 1 .. Len(none) : none[i] = none[j] => i = j
      BY ListRange
    <3> QED
      BY <1>1, <3>1
  <2>4. deals[d].allocationIds = none /\ deals[d].claimIds = none /\ deals[d].allocatedBytes = 0
        /\ deals[d].claimedBytes = 0 /\ ~deals[d].postingFinished
    BY <1>1, <2>1 DEF NoEvidence
  <2> QED
    BY <2>1, <2>2, <2>3, <2>4, SumEmpty DEF AddsUp
<1>4. ClaimedAfterPosting
  BY DEF Init, ClaimedAfterPosting, NoEvidence
<1> QED
  BY <1>2, <1>3, <1>4, AddsUpParts DEF EvidenceInv, AllAddUp

LEMMA EvidenceInvariant == Spec => []EvidenceInv
  BY EvidenceInit, EvidenceStep, PTL DEF Spec

\* Every variable keeps its type; a snapshot is stored with a final result only.
THEOREM TypeCorrect == Spec => []TypeOK
<1>1. EvidenceInv => TypeOK
  BY DEF EvidenceInv
<1> QED
  BY <1>1, EvidenceInvariant, PTL

\* No claim backs two deals and none is counted twice, for any number of deals
\* and ids of any sizes, whatever is posted, in whichever batches claims are
\* moved out of the list that is deleted from while it is walked.
THEOREM EvidenceAgrees == Spec => []EvidenceAddsUp
<1>1. EvidenceInv => EvidenceAddsUp
  BY DEF EvidenceInv
<1> QED
  BY <1>1, EvidenceInvariant, PTL

-----------------------------------------------------------------------------
(* Sweeps *)

\* Claims are terminated and removed once, and not in the future; only claims
\* that are gone were removed.
LossesDated ==
  \A id \in Ids :
    /\ terminatedAt[id] <= now /\ removedAt[id] <= now
    /\ removedAt[id] # 0 => registry[id] = "Gone"

\* The claims of a deal are in the registry until they are removed.
ClaimsFound ==
  \A d \in Deals : \A id \in Range(deals[d].claimIds) : registry[id] = "Claim" \/ removedAt[id] # 0

CheckedIds(d, status) == {deals[d].claimIds[i] : i \in 1 .. status.checkedClaims}

\* What a sweep has recorded of the claims it has looked up so far: the failed
\* ones were removed, the others were not when the sweep began, and the bytes
\* are those of the claims that did not fail and are not terminated.
Recorded(d, status) ==
  /\ status.failedClaimIds \subseteq CheckedIds(d, status)
  /\ \A id \in status.failedClaimIds : removedAt[id] # 0
  /\ \A id \in CheckedIds(d, status) \ status.failedClaimIds :
       removedAt[id] = 0 \/ status.partialEvidenceRefreshEpoch <= removedAt[id]
  /\ status.pendingActiveClaimedBytes =
       SumFunctionOnSet(SizeOf, CheckedIds(d, status) \ (status.failedClaimIds \cup terminatedClaims))

\* A sweep records what it looks up until a claim of the deal is terminated.
SweepRecorded(d) ==
  /\ allocationStatus[d] # "CLAIMED" => refreshStatus[d] = NoRefresh
  /\ refreshStatus[d].checkedClaims <= Len(deals[d].claimIds)
  /\ refreshStatus[d].partialEvidenceRefreshEpoch <= now
  /\ refreshStatus[d].lastEvidenceRefreshEpoch <= now
  /\ refreshStatus[d].terminationRevision <= terminationRevision[d]
  /\ InSweep(d) /\ ~TerminationSince(d) => Recorded(d, refreshStatus[d])

\* The property, for one deal.
TerminationSeen(d) ==
  deals[d].claimedBytes # 0 /\ refreshStatus[d].activeClaimedBytes = deals[d].claimedBytes =>
    \A id \in Range(deals[d].claimIds) :
      terminatedAt[id] = 0 \/ refreshStatus[d].lastEvidenceRefreshEpoch <= terminatedAt[id]

SweepInv ==
  /\ EvidenceInv /\ LossesDated /\ ClaimsFound
  /\ \A d \in Deals : SweepRecorded(d) /\ TerminationSeen(d)

LEMMA CheckedFinite ==
  ASSUME TypeOK, NEW d \in Deals, NEW status, status.checkedClaims \in Nat,
         status.checkedClaims <= Len(deals[d].claimIds)
  PROVE  /\ CheckedIds(d, status) \subseteq Range(deals[d].claimIds)
         /\ CheckedIds(d, status) \in SUBSET Ids
         /\ status.checkedClaims = Len(deals[d].claimIds) => CheckedIds(d, status) = Range(deals[d].claimIds)
<1>1. /\ deals[d].claimIds \in Seq(Ids) /\ Len(deals[d].claimIds) \in Nat
      /\ Range(deals[d].claimIds) \subseteq Ids
  BY PostingTypes
<1>2. Range(deals[d].claimIds) = {deals[d].claimIds[i] : i \in 1 .. Len(deals[d].claimIds)}
  BY <1>1, ListRange
<1>3. 1 .. status.checkedClaims \subseteq 1 .. Len(deals[d].claimIds)
  BY <1>1
<1> QED
  BY <1>1, <1>2, <1>3 DEF CheckedIds

\* A call begins a sweep or goes on with one that is not outdated; either way
\* what it starts from is recorded, and began not more than a month ago.
LEMMA StartRecorded ==
  ASSUME SweepInv, NEW d \in Deals
  PROVE  /\ Started(d) \in Status /\ Started(d).checkedClaims <= Len(deals[d].claimIds)
         /\ Recorded(d, Started(d))
         /\ Started(d).partialEvidenceRefreshEpoch <= now
         /\ now <= Started(d).partialEvidenceRefreshEpoch + EPOCHS_IN_MONTH
         /\ Started(d).terminationRevision = terminationRevision[d]
         /\ Started(d).lastEvidenceRefreshEpoch = refreshStatus[d].lastEvidenceRefreshEpoch
         /\ Started(d).activeClaimedBytes = refreshStatus[d].activeClaimedBytes
         /\ Started(d).result = refreshStatus[d].result
<1>1. /\ refreshStatus[d] \in Status /\ Started(d) \in Status /\ now \in Nat
      /\ Len(deals[d].claimIds) \in Nat /\ EPOCHS_IN_MONTH \in Nat
  <2>1. TypeOK
    BY DEF SweepInv, EvidenceInv
  <2>2. now \in Nat /\ Len(deals[d].claimIds) \in Nat
    BY <2>1, PostingTypes DEF TypeOK
  <2> QED
    BY <2>1, <2>2, StartedTypes, DataCapAssumption
<1>2. SweepRecorded(d)
  BY DEF SweepInv
<1>3. CASE InSweep(d) /\ ~Outdated(d)
  <2>1. Started(d) = refreshStatus[d]
    BY <1>3 DEF Started
  <2>2. /\ ~TerminationSince(d)
        /\ now <= refreshStatus[d].partialEvidenceRefreshEpoch + EPOCHS_IN_MONTH
    <3>1. ~MonthSince(d) /\ ~TerminationSince(d)
      BY <1>3 DEF Outdated
    <3>2. refreshStatus[d].partialEvidenceRefreshEpoch \in Nat
      BY <1>1 DEF Status
    <3> QED
      BY <1>1, <3>1, <3>2 DEF MonthSince
  <2> QED
    BY <1>1, <1>2, <1>3, <2>1, <2>2 DEF SweepRecorded, TerminationSince
<1>4. CASE ~(InSweep(d) /\ ~Outdated(d))
  <2>1. Started(d) = [refreshStatus[d] EXCEPT !.checkedClaims = 0, !.pendingActiveClaimedBytes = 0,
                        !.failedClaimIds = {}, !.terminationRevision = terminationRevision[d],
                        !.partialEvidenceRefreshEpoch = now]
    BY <1>4 DEF Started
  <2>2. /\ Started(d).checkedClaims = 0 /\ Started(d).pendingActiveClaimedBytes = 0
        /\ Started(d).failedClaimIds = {} /\ Started(d).terminationRevision = terminationRevision[d]
        /\ Started(d).partialEvidenceRefreshEpoch = now
        /\ Started(d).lastEvidenceRefreshEpoch = refreshStatus[d].lastEvidenceRefreshEpoch
        /\ Started(d).activeClaimedBytes = refreshStatus[d].activeClaimedBytes
        /\ Started(d).result = refreshStatus[d].result
    BY <1>1, <2>1 DEF Status
  <2>3. CheckedIds(d, Started(d)) = {}
    BY <2>2 DEF CheckedIds
  <2>4. Recorded(d, Started(d))
    BY <2>2, <2>3, SumEmpty DEF Recorded
  <2> QED
    BY <1>1, <2>2, <2>4
<1> QED
  BY <1>3, <1>4

\* The claims of a batch are not among those looked up before.
LEMMA BatchAddsChecked ==
  ASSUME EvidenceInv, NEW d \in Deals, NEW n \in Nat, Started(d).checkedClaims + n <= Len(deals[d].claimIds),
         NEW status, status.checkedClaims = Started(d).checkedClaims + n
  PROVE  /\ CheckedIds(d, status) = CheckedIds(d, Started(d)) \cup BatchClaims(d, n)
         /\ CheckedIds(d, Started(d)) \cap BatchClaims(d, n) = {}
<1> DEFINE ids == deals[d].claimIds
           offset == Started(d).checkedClaims
<1>1. ids \in Seq(Ids) /\ Len(ids) \in Nat /\ offset \in Nat
  BY PostingTypes, StartedTypes DEF EvidenceInv, Status
<1>2. \A i, j \in 1 .. Len(ids) : ids[i] = ids[j] => i = j
  <2>1. IsInjective(ids)
    BY AddsUpParts DEF EvidenceInv, AllAddUp, AddsUp
  <2> QED
    BY <1>1, <2>1, ListRange
<1>3. /\ CheckedIds(d, status) = {ids[i] : i \in 1 .. offset + n}
      /\ CheckedIds(d, Started(d)) = {ids[i] : i \in 1 .. offset}
      /\ BatchClaims(d, n) = {ids[i] : i \in offset + 1 .. offset + n}
      /\ offset + n <= Len(ids)
  BY DEF CheckedIds, BatchClaims
<1> HIDE DEF ids, offset
<1>4. /\ 1 .. offset + n = (1 .. offset) \cup (offset + 1 .. offset + n)
      /\ \A i \in 1 .. offset, j \in offset + 1 .. offset + n :
           i \in 1 .. Len(ids) /\ j \in 1 .. Len(ids) /\ i # j
  BY <1>1, <1>3
<1> QED
  BY <1>2, <1>3, <1>4

LEMMA CallRecorded ==
  ASSUME SweepInv, NEW d \in Deals, NEW n \in Nat, Started(d).checkedClaims + n <= Len(deals[d].claimIds)
  PROVE  LET status == Advanced(d, n)
         IN /\ status \in Status /\ status.checkedClaims = Started(d).checkedClaims + n
            /\ Recorded(d, status)
            /\ status.partialEvidenceRefreshEpoch <= now
            /\ now <= status.partialEvidenceRefreshEpoch + EPOCHS_IN_MONTH
            /\ status.terminationRevision = terminationRevision[d]
            /\ status.lastEvidenceRefreshEpoch = refreshStatus[d].lastEvidenceRefreshEpoch
            /\ status.activeClaimedBytes = refreshStatus[d].activeClaimedBytes
            /\ status.result = refreshStatus[d].result
<1> DEFINE start == Started(d)
           status == Advanced(d, n)
           batch == BatchClaims(d, n)
           failed == Failed(batch)
           counted == batch \ (failed \cup terminatedClaims)
           bytes == SumFunctionOnSet(SizeOf, counted)
           before == CheckedIds(d, start) \ (start.failedClaimIds \cup terminatedClaims)
<1>1. /\ start \in Status /\ start.checkedClaims <= Len(deals[d].claimIds) /\ Recorded(d, start)
      /\ start.partialEvidenceRefreshEpoch <= now
      /\ now <= start.partialEvidenceRefreshEpoch + EPOCHS_IN_MONTH
      /\ start.terminationRevision = terminationRevision[d]
      /\ start.lastEvidenceRefreshEpoch = refreshStatus[d].lastEvidenceRefreshEpoch
      /\ start.activeClaimedBytes = refreshStatus[d].activeClaimedBytes
      /\ start.result = refreshStatus[d].result
  BY StartRecorded
<1>2. batch \subseteq Range(deals[d].claimIds) /\ batch \in SUBSET Ids
  BY BatchLooksUp DEF SweepInv, EvidenceInv
<1>3. failed \in SUBSET Ids /\ failed \subseteq batch /\ counted \in SUBSET Ids /\ before \in SUBSET Ids
      /\ start.checkedClaims \in Nat /\ start.checkedClaims + n \in Nat
  <2>1. start.checkedClaims \in Nat
    BY <1>1 DEF Status
  <2>2. CheckedIds(d, start) \in SUBSET Ids
    <3> HIDE DEF start
    <3> QED
      BY <1>1, <2>1, CheckedFinite DEF SweepInv, EvidenceInv
  <2> QED
    BY <1>2, <2>1, <2>2 DEF Failed
<1>4. bytes \in Nat
  BY <1>3, SizesFinite
<1>5. status = [start EXCEPT !.checkedClaims = @ + n, !.failedClaimIds = @ \cup failed,
                  !.pendingActiveClaimedBytes = @ + bytes]
  BY DEF Advanced
<1>6. /\ CheckedIds(d, [checkedClaims |-> start.checkedClaims + n]) = CheckedIds(d, start) \cup batch
      /\ CheckedIds(d, start) \cap batch = {}
  BY BatchAddsChecked DEF SweepInv
<1> HIDE DEF start, status, batch, failed, counted, bytes, before
<1>7. status \in Status
  <2> DEFINE new == [start EXCEPT !.checkedClaims = @ + n, !.failedClaimIds = @ \cup failed,
                       !.pendingActiveClaimedBytes = @ + bytes]
  <2>1. /\ start \in Status /\ n \in Int /\ start.checkedClaims + n \in Nat
        /\ failed \in SUBSET Ids /\ bytes \in Nat
    BY <1>1, <1>3, <1>4
  <2>2. new \in Status
    BY ONLY <2>1, AdvancedStatus
  <2>3. status = new
    BY <1>5
  <2> HIDE DEF new
  <2> QED
    BY <2>2, <2>3
<1>8. /\ status.checkedClaims = start.checkedClaims + n
      /\ status.failedClaimIds = start.failedClaimIds \cup failed
      /\ status.pendingActiveClaimedBytes = start.pendingActiveClaimedBytes + bytes
      /\ status.partialEvidenceRefreshEpoch = start.partialEvidenceRefreshEpoch
      /\ status.terminationRevision = start.terminationRevision
      /\ status.lastEvidenceRefreshEpoch = start.lastEvidenceRefreshEpoch
      /\ status.activeClaimedBytes = start.activeClaimedBytes
      /\ status.result = start.result
  BY <1>1, <1>5 DEF Status
<1>9. CheckedIds(d, status) = CheckedIds(d, start) \cup batch
  BY <1>6, <1>8 DEF CheckedIds
<1>10. Recorded(d, status)
  <2>1. /\ start.failedClaimIds \subseteq CheckedIds(d, start)
        /\ \A id \in start.failedClaimIds : removedAt[id] # 0
        /\ \A id \in CheckedIds(d, start) \ start.failedClaimIds :
             removedAt[id] = 0 \/ start.partialEvidenceRefreshEpoch <= removedAt[id]
        /\ start.pendingActiveClaimedBytes = SumFunctionOnSet(SizeOf, before)
    BY <1>1 DEF Recorded, before
  <2>2. \A id \in batch : id \in failed <=> registry[id] # "Claim"
    BY DEF failed, Failed
  <2>3. \A id \in failed : removedAt[id] # 0
    BY <1>2, <1>3, <2>2 DEF SweepInv, ClaimsFound
  <2>4. \A id \in batch \ failed : removedAt[id] = 0
    BY <1>2, <2>2 DEF SweepInv, LossesDated
  <2>5. status.failedClaimIds \subseteq CheckedIds(d, status)
    BY <1>3, <1>8, <1>9, <2>1
  <2>6. \A id \in status.failedClaimIds : removedAt[id] # 0
    BY <1>8, <2>1, <2>3
  <2>7. \A id \in CheckedIds(d, status) \ status.failedClaimIds :
          removedAt[id] = 0 \/ status.partialEvidenceRefreshEpoch <= removedAt[id]
    BY <1>8, <1>9, <2>1, <2>4
  <2>8. /\ CheckedIds(d, status) \ (status.failedClaimIds \cup terminatedClaims) = before \cup counted
        /\ before \cap counted = {}
    BY <1>3, <1>6, <1>8, <1>9, <2>1 DEF before, counted
  <2>9. SumFunctionOnSet(SizeOf, before \cup counted) = SumFunctionOnSet(SizeOf, before) + SumFunctionOnSet(SizeOf, counted)
    <3>1. /\ IsFiniteSet(before) /\ IsFiniteSet(counted)
          /\ \A x \in before \cup counted : SizeOf[x] \in Int
      BY <1>3, SizesFinite
    <3> QED
      BY <2>8, <3>1, SumUnion
  <2>10. status.pendingActiveClaimedBytes =
           SumFunctionOnSet(SizeOf, CheckedIds(d, status) \ (status.failedClaimIds \cup terminatedClaims))
    BY <1>8, <2>1, <2>8, <2>9 DEF bytes
  <2> QED
    BY <2>5, <2>6, <2>7, <2>10 DEF Recorded
<1> QED
  BY <1>1, <1>7, <1>8, <1>10 DEF status, start

\* A sweep that is complete and counts all the claimed bytes has seen every
\* claim in the registry and none terminated; one that counts less has not.
LEMMA CompleteTells ==
  ASSUME SweepInv, NEW d \in Deals, NEW status \in Status, Recorded(d, status),
         status.checkedClaims = Len(deals[d].claimIds)
  PROVE  /\ status.pendingActiveClaimedBytes = deals[d].claimedBytes =>
              \A id \in Range(deals[d].claimIds) :
                /\ terminatedAt[id] = 0
                /\ removedAt[id] = 0 \/ status.partialEvidenceRefreshEpoch <= removedAt[id]
         /\ status.pendingActiveClaimedBytes # deals[d].claimedBytes =>
              \E id \in Range(deals[d].claimIds) : terminatedAt[id] # 0 \/ removedAt[id] # 0
<1> DEFINE all == Range(deals[d].claimIds)
           lost == status.failedClaimIds \cup terminatedClaims
<1>1. all \in SUBSET Ids /\ all \ lost \in SUBSET Ids /\ all \cap lost \in SUBSET Ids
  BY PostingTypes DEF SweepInv, EvidenceInv
<1>2. CheckedIds(d, status) = all
  <2>1. status.checkedClaims \in Nat /\ status.checkedClaims <= Len(deals[d].claimIds)
    BY DEF Status
  <2> QED
    BY <2>1, CheckedFinite DEF SweepInv, EvidenceInv
<1>3. deals[d].claimedBytes = SumFunctionOnSet(SizeOf, all)
  BY AddsUpParts DEF SweepInv, EvidenceInv, AllAddUp, AddsUp
<1>4. status.pendingActiveClaimedBytes = SumFunctionOnSet(SizeOf, all \ lost)
  BY <1>2 DEF Recorded
<1>5. SumFunctionOnSet(SizeOf, all) = SumFunctionOnSet(SizeOf, all \ lost) + SumFunctionOnSet(SizeOf, all \cap lost)
  <2> DEFINE kept == all \ lost
             gone == all \cap lost
  <2>1. /\ IsFiniteSet(kept) /\ IsFiniteSet(gone) /\ \A x \in kept \cup gone : SizeOf[x] \in Int
        /\ kept \cap gone = {} /\ kept \cup gone = all
    BY <1>1, SizesFinite
  <2> HIDE DEF kept, gone
  <2>2. SumFunctionOnSet(SizeOf, kept \cup gone) = SumFunctionOnSet(SizeOf, kept) + SumFunctionOnSet(SizeOf, gone)
    BY <2>1, SumUnion
  <2> QED
    BY <2>1, <2>2 DEF kept, gone
<1>6. /\ SumFunctionOnSet(SizeOf, all \ lost) \in Nat /\ SumFunctionOnSet(SizeOf, all \cap lost) \in Nat
      /\ IsFiniteSet(all \cap lost) /\ \A x \in all \cap lost : SizeOf[x] \in Nat \ {0}
  BY <1>1, SizesFinite
<1>7. all \cap lost = {} => SumFunctionOnSet(SizeOf, all \cap lost) = 0
  BY SumEmpty
<1>8. ASSUME NEW id \in all \cap lost
      PROVE  SumFunctionOnSet(SizeOf, all \cap lost) # 0
  <2>1. SizeOf[id] <= SumFunctionOnSet(SizeOf, all \cap lost)
    <3> DEFINE gone == all \cap lost
    <3>1. IsFiniteSet(gone) /\ (\A x \in gone : SizeOf[x] \in Nat) /\ id \in gone
      BY <1>6
    <3> HIDE DEF gone
    <3>2. SizeOf[id] <= SumFunctionOnSet(SizeOf, gone)
      BY <3>1, SumAtLeast
    <3> QED
      BY <3>2 DEF gone
  <2> QED
    BY <1>6, <2>1
<1>9. status.pendingActiveClaimedBytes = deals[d].claimedBytes <=> all \cap lost = {}
  <2> DEFINE kept == SumFunctionOnSet(SizeOf, all \ lost)
             gone == SumFunctionOnSet(SizeOf, all \cap lost)
  <2>1. /\ deals[d].claimedBytes = kept + gone /\ status.pendingActiveClaimedBytes = kept
        /\ kept \in Nat /\ gone \in Nat
    BY <1>3, <1>4, <1>5, <1>6
  <2>2. gone = 0 <=> all \cap lost = {}
    BY <1>7, <1>8
  <2> HIDE DEF kept, gone, all, lost
  <2> QED
    BY <2>1, <2>2
<1>10. \A id \in Ids : id \in terminatedClaims <=> terminatedAt[id] # 0
  BY DEF terminatedClaims
<1>11. /\ \A id \in status.failedClaimIds : removedAt[id] # 0
       /\ \A id \in all \ status.failedClaimIds :
            removedAt[id] = 0 \/ status.partialEvidenceRefreshEpoch <= removedAt[id]
  BY <1>2 DEF Recorded
<1> QED
  BY <1>1, <1>9, <1>10, <1>11

\* The registry moves on, and nothing happens to what was claimed and swept.
RegistryMoves ==
  \A id \in Ids :
    \/ registry'[id] = registry[id] /\ removedAt'[id] = removedAt[id]
    \/ registry[id] \in {"Free", "Allocation"} /\ removedAt'[id] = removedAt[id]
    \/ registry[id] = "Claim" /\ registry'[id] = "Gone" /\ removedAt'[id] = now

ClaimsStay ==
  \A d \in Deals :
    /\ deals'[d].claimIds = deals[d].claimIds /\ deals'[d].claimedBytes = deals[d].claimedBytes
    /\ allocationStatus'[d] = "CLAIMED" <=> allocationStatus[d] = "CLAIMED"

RestStep ==
  /\ RegistryMoves /\ ClaimsStay /\ now <= now'
  /\ UNCHANGED <<terminationVars, refreshStatus>>

\* A pending sweep stays recorded when the registry moves on.
LEMMA MovesKeepRecorded ==
  ASSUME SweepInv, now \in Nat \ {0}, RegistryMoves, NEW d \in Deals, NEW status \in Status,
         deals'[d].claimIds = deals[d].claimIds, UNCHANGED terminatedAt,
         status.checkedClaims <= Len(deals[d].claimIds), Recorded(d, status),
         status.partialEvidenceRefreshEpoch <= now
  PROVE  Recorded(d, status)'
<1>1. CheckedIds(d, status)' = CheckedIds(d, status) /\ terminatedClaims' = terminatedClaims
  BY DEF CheckedIds, terminatedClaims
<1>2. CheckedIds(d, status) \subseteq Range(deals[d].claimIds) /\ CheckedIds(d, status) \in SUBSET Ids
  <2>1. status.checkedClaims \in Nat
    BY DEF Status
  <2> QED
    BY <2>1, CheckedFinite DEF SweepInv, EvidenceInv
<1>3. \A id \in CheckedIds(d, status) : removedAt'[id] = removedAt[id] \/ removedAt'[id] = now
  BY <1>2 DEF RegistryMoves
<1>4. \A id \in CheckedIds(d, status) \ status.failedClaimIds :
        removedAt'[id] = 0 \/ status.partialEvidenceRefreshEpoch <= removedAt'[id]
  BY <1>3 DEF Recorded
<1>5. \A id \in status.failedClaimIds : removedAt'[id] # 0
  BY <1>3 DEF Recorded
<1> QED
  BY <1>1, <1>4, <1>5 DEF Recorded

LEMMA RestSweep ==
  ASSUME SweepInv, EvidenceInv', RestStep
  PROVE  SweepInv'
<1>1. /\ now \in Nat \ {0} /\ now' \in Nat \ {0} /\ now <= now'
      /\ removedAt \in [Ids -> Nat] /\ terminatedAt \in [Ids -> Nat]
      /\ UNCHANGED <<terminatedAt, terminationRevision, refreshStatus>>
  BY DEF SweepInv, EvidenceInv, TypeOK, RestStep, terminationVars
<1>2. LossesDated'
  <2> SUFFICES ASSUME NEW id \in Ids
               PROVE  /\ terminatedAt'[id] <= now' /\ removedAt'[id] <= now'
                      /\ removedAt'[id] # 0 => registry'[id] = "Gone"
    BY DEF LossesDated
  <2>1. /\ terminatedAt[id] <= now /\ removedAt[id] <= now /\ terminatedAt[id] \in Nat /\ removedAt[id] \in Nat
        /\ removedAt[id] # 0 => registry[id] = "Gone"
    BY <1>1 DEF SweepInv, LossesDated
  <2> QED
    BY <1>1, <2>1 DEF RestStep, RegistryMoves
<1>3. ClaimsFound'
  <2> SUFFICES ASSUME NEW d \in Deals, NEW id \in Range(deals'[d].claimIds)
               PROVE  registry'[id] = "Claim" \/ removedAt'[id] # 0
    BY DEF ClaimsFound
  <2>1. id \in Range(deals[d].claimIds) /\ id \in Ids
    BY PostingTypes DEF RestStep, ClaimsStay, SweepInv, EvidenceInv
  <2>2. /\ registry[id] = "Claim" \/ removedAt[id] # 0
        /\ removedAt[id] # 0 => registry[id] = "Gone"
    BY <2>1 DEF SweepInv, ClaimsFound, LossesDated
  <2> QED
    BY <1>1, <2>1, <2>2 DEF RestStep, RegistryMoves
<1>4. ASSUME NEW d \in Deals
      PROVE  SweepRecorded(d)'
  <2>1. /\ SweepRecorded(d) /\ refreshStatus[d] \in Status
        /\ refreshStatus[d].partialEvidenceRefreshEpoch \in Nat /\ refreshStatus[d].lastEvidenceRefreshEpoch \in Nat
    BY StartedTypes DEF SweepInv, EvidenceInv, Status
  <2>2. deals'[d].claimIds = deals[d].claimIds /\ (allocationStatus'[d] = "CLAIMED" <=> allocationStatus[d] = "CLAIMED")
    BY DEF RestStep, ClaimsStay
  <2>3. InSweep(d)' = InSweep(d) /\ TerminationSince(d)' = TerminationSince(d)
    BY <1>1, <2>2 DEF InSweep, TerminationSince
  <2>4. Recorded(d, refreshStatus[d]) => Recorded(d, refreshStatus[d])'
    <3> DEFINE status == refreshStatus[d]
    <3> SUFFICES ASSUME Recorded(d, status) PROVE Recorded(d, status)'
      OBVIOUS
    <3>1. /\ status \in Status /\ status' = status
          /\ status.checkedClaims <= Len(deals[d].claimIds) /\ status.partialEvidenceRefreshEpoch <= now
      BY <1>1, <2>1 DEF SweepRecorded
    <3>2. PICK fixed \in Status : fixed = status
      BY <3>1
    <3>3. Recorded(d, fixed)'
      BY <1>1, <2>2, <3>1, <3>2, MovesKeepRecorded DEF RestStep
    <3> QED
      BY <3>1, <3>2, <3>3 DEF Recorded, CheckedIds
  <2>5. /\ refreshStatus'[d].partialEvidenceRefreshEpoch <= now'
        /\ refreshStatus'[d].lastEvidenceRefreshEpoch <= now'
    BY <1>1, <2>1 DEF SweepRecorded
  <2> QED
    BY <1>1, <2>1, <2>2, <2>3, <2>4, <2>5 DEF SweepRecorded
<1>5. ASSUME NEW d \in Deals
      PROVE  TerminationSeen(d)'
  <2>1. TerminationSeen(d)
    BY DEF SweepInv
  <2> QED
    BY <1>1, <2>1 DEF TerminationSeen, RestStep, ClaimsStay
<1> QED
  BY <1>2, <1>3, <1>4, <1>5 DEF SweepInv

LEMMA WorldRests ==
  ASSUME TypeOK, WorldStep
  PROVE  RestStep
<1>1. UNCHANGED <<postingVars, terminationVars, refreshStatus>> /\ now <= now'
  BY WorldTypes
<1>2. ClaimsStay
  BY <1>1 DEF ClaimsStay, postingVars
<1>3. RegistryMoves
  <2>1. CASE \E id \in Ids : Claim(id)
    BY <2>1 DEF Claim, Claimable, RegistryMoves, TypeOK
  <2>2. CASE \E id \in Ids : RemoveClaim(id)
    BY <2>2 DEF RemoveClaim, RegistryMoves, TypeOK
  <2>3. CASE \E id \in Ids : RemoveExpiredAllocation(id)
    BY <2>3 DEF RemoveExpiredAllocation, RegistryMoves, TypeOK
  <2>4. CASE UNCHANGED registryVars
    BY <2>4 DEF RegistryMoves, registryVars
  <2>5. WorldStep => \/ \E id \in Ids : Claim(id) \/ RemoveClaim(id) \/ RemoveExpiredAllocation(id)
                     \/ UNCHANGED registryVars
    BY DEF WorldStep, Tick, DisableAdapter, SetDealActivationPadding, ActivateEvidence, TerminateDeal,
           ExpireDeal, RejectAcceptedDeal, FinalizeDeal, CloseDeal
  <2> QED
    BY <2>1, <2>2, <2>3, <2>4, <2>5
<1> QED
  BY <1>1, <1>2, <1>3 DEF RestStep

LEMMA PostRests ==
  ASSUME EvidenceInv, NEW d \in Deals, NEW id, NEW expiration,
         SubmitAllocation(d, id, expiration) \/ SubmitClaimExtension(d, id) \/ FinishDataCapPosting(d)
  PROVE  RestStep
<1>1. UNCHANGED <<now, removedAt, terminationVars, refreshStatus>>
  BY DEF SubmitAllocation, SubmitClaimExtension, FinishDataCapPosting, registryVars
<1>2. now <= now'
  BY <1>1 DEF EvidenceInv, TypeOK
<1>3. RegistryMoves
  <2>1. registry' = registry \/ (registry' = [registry EXCEPT ![id] = "Allocation"] /\ registry[id] = "Free")
    BY DEF SubmitAllocation, SubmitClaimExtension, FinishDataCapPosting, registryVars
  <2>2. registry \in [Ids -> {"Free", "Allocation", "Claim", "Gone"}]
    BY DEF EvidenceInv, TypeOK
  <2> QED
    BY <1>1, <2>1, <2>2 DEF RegistryMoves
<1>4. ClaimsStay
  <2>1. \/ deals' = [deals EXCEPT ![d].allocationIds = Append(@, id), ![d].allocatedBytes = @ + SizeOf[id]]
             /\ UNCHANGED allocationStatus
        \/ deals' = [deals EXCEPT ![d].postingFinished = TRUE]
             /\ allocationStatus' = [allocationStatus EXCEPT ![d] = "ALLOCATED"]
             /\ ~deals[d].postingFinished
    BY DEF SubmitAllocation, SubmitClaimExtension, FinishDataCapPosting, PostId
  <2>2. allocationStatus[d] = "CLAIMED" => deals[d].postingFinished
    BY AddsUpParts DEF EvidenceInv, AllAddUp, AddsUp
  <2>3. /\ allocationStatus \in [Deals -> {"NONE", "ALLOCATED", "CLAIMED"}]
        /\ deals \in [Deals -> [postingFinished : BOOLEAN, allocatedBytes : Nat, allocationIds : Seq(Ids),
                                claimIds : Seq(Ids), claimedBytes : Nat]]
    BY DEF EvidenceInv, TypeOK
  <2>4. \A e \in Deals : allocationStatus'[e] = "CLAIMED" <=> allocationStatus[e] = "CLAIMED"
    BY <2>1, <2>2, <2>3
  <2>5. \A e \in Deals : deals'[e].claimIds = deals[e].claimIds /\ deals'[e].claimedBytes = deals[e].claimedBytes
    <3> DEFINE ids == Append(deals[d].allocationIds, id)
               bytes == deals[d].allocatedBytes + SizeOf[id]
    <3>1. \/ deals' = [deals EXCEPT ![d].allocationIds = ids, ![d].allocatedBytes = bytes]
          \/ deals' = [deals EXCEPT ![d].postingFinished = TRUE]
      BY <2>1
    <3> HIDE DEF ids, bytes
    <3>2. deals[d] \in [postingFinished : BOOLEAN, allocatedBytes : Nat, allocationIds : Seq(Ids),
                        claimIds : Seq(Ids), claimedBytes : Nat]
      BY <2>3
    <3>3. \/ deals'[d] = [deals[d] EXCEPT !.allocationIds = ids, !.allocatedBytes = bytes]
          \/ deals'[d] = [deals[d] EXCEPT !.postingFinished = TRUE]
      BY <2>3, <3>1
    <3>4. deals'[d].claimIds = deals[d].claimIds /\ deals'[d].claimedBytes = deals[d].claimedBytes
      BY ONLY <3>2, <3>3
    <3>5. \A e \in Deals \ {d} : deals'[e] = deals[e]
      BY <2>3, <3>1
    <3> QED
      BY <3>4, <3>5
  <2> QED
    BY <2>4, <2>5 DEF ClaimsStay
<1> QED
  BY <1>1, <1>2, <1>3, <1>4 DEF RestStep

\* A batch adds claims of the registry to those of a deal that is not claimed,
\* and touches no other deal.
LEMMA BatchChanges ==
  ASSUME SweepInv, NEW d \in Deals, NEW batchSize \in Nat, SubmitEvidenceBatch(d, batchSize)
  PROVE  /\ UNCHANGED <<now, registry, removedAt, terminatedAt, terminationRevision, refreshStatus>>
         /\ \A e \in Deals \ {d} : deals'[e] = deals[e] /\ allocationStatus'[e] = allocationStatus[e]
         /\ allocationStatus[d] = "CLAIMED" =>
              /\ allocationStatus'[d] = "CLAIMED"
              /\ deals'[d].claimIds = deals[d].claimIds /\ deals'[d].claimedBytes = deals[d].claimedBytes
         /\ \A id \in Range(deals'[d].claimIds) : id \in Range(deals[d].claimIds) \/ registry[id] = "Claim"
<1>1. AddsUp(d)
  BY AddsUpParts DEF SweepInv, EvidenceInv, AllAddUp
<1>2. IsInjective(deals[d].allocationIds)
  BY <1>1 DEF AddsUp
<1>3. PICK left \in Seq(Ids), claims \in Seq(Ids) :
        /\ IsInjective(left) /\ IsInjective(claims)
        /\ Range(claims) \subseteq Range(deals[d].allocationIds)
        /\ \A id \in Range(claims) : registry[id] = "Claim"
        /\ deals' = [deals EXCEPT ![d].allocationIds = left, ![d].claimIds = @ \o claims,
                                  ![d].claimedBytes = @ + SumFunctionOnSet(SizeOf, Range(claims))]
        /\ allocationStatus' =
             IF left = <<>> THEN [allocationStatus EXCEPT ![d] = "CLAIMED"] ELSE allocationStatus
        /\ UNCHANGED <<now, marketVars, registryVars, operational, maxAllocationExpiration, dealById,
                       terminationVars, refreshStatus>>
  <2>1. TypeOK
    BY DEF SweepInv, EvidenceInv
  <2> QED
    BY <1>2, <2>1, BatchWalked
<1> DEFINE bytes == SumFunctionOnSet(SizeOf, Range(claims))
           old == deals[d].claimIds
<1>4. /\ deals'[d].claimIds = old \o claims /\ deals'[d].claimedBytes = deals[d].claimedBytes + bytes
      /\ \A e \in Deals \ {d} : deals'[e] = deals[e] /\ allocationStatus'[e] = allocationStatus[e]
      /\ allocationStatus[d] = "CLAIMED" => allocationStatus'[d] = "CLAIMED"
  <2>1. /\ deals \in [Deals -> [postingFinished : BOOLEAN, allocatedBytes : Nat, allocationIds : Seq(Ids),
                                claimIds : Seq(Ids), claimedBytes : Nat]]
        /\ allocationStatus \in [Deals -> {"NONE", "ALLOCATED", "CLAIMED"}]
    BY DEF SweepInv, EvidenceInv, TypeOK
  <2>2. deals' = [deals EXCEPT ![d].allocationIds = left, ![d].claimIds = @ \o claims,
                               ![d].claimedBytes = @ + bytes]
    BY <1>3
  <2> HIDE DEF bytes
  <2>3. deals'[d].claimIds = old \o claims /\ deals'[d].claimedBytes = deals[d].claimedBytes + bytes
    BY <2>1, <2>2
  <2>4. \A e \in Deals \ {d} : deals'[e] = deals[e]
    BY <2>1, <2>2
  <2>5. \A e \in Deals \ {d} : allocationStatus'[e] = allocationStatus[e]
    BY <1>3, <2>1
  <2>6. allocationStatus[d] = "CLAIMED" => allocationStatus'[d] = "CLAIMED"
    BY <1>3, <2>1
  <2> QED
    BY <2>3, <2>4, <2>5, <2>6
<1>5. old \in Seq(Ids) /\ deals[d].allocationIds \in Seq(Ids) /\ deals[d].claimedBytes \in Nat
  BY PostingTypes DEF SweepInv, EvidenceInv
<1>6. Range(old \o claims) = Range(old) \cup Range(claims) /\ Range(claims) \subseteq Ids
  <2> HIDE DEF old
  <2> QED
    BY <1>5, RangeConcat, ListRange
<1>7. ASSUME allocationStatus[d] = "CLAIMED"
      PROVE  deals'[d].claimIds = old /\ deals'[d].claimedBytes = deals[d].claimedBytes
  <2>1. Range(claims) = {}
    <3>1. deals[d].allocationIds = <<>>
      BY <1>1, <1>7 DEF AddsUp
    <3> DEFINE ids == deals[d].allocationIds
    <3>2. Range(ids) = {}
      <4>1. ids \in Seq(Ids) /\ ids = <<>>
        BY <1>5, <3>1
      <4> HIDE DEF ids
      <4> QED
        BY <4>1, ListRange
    <3> QED
      BY <1>3, <3>2
  <2>2. claims = <<>> /\ bytes = 0
    BY <2>1, ListRange, SumEmpty
  <2>3. old \o <<>> = old
    <3> HIDE DEF old
    <3> QED
      BY <1>5, ConcatEmptySeq
  <2> HIDE DEF bytes
  <2> QED
    BY <1>4, <1>5, <2>2, <2>3
<1>8. UNCHANGED <<now, registry, removedAt, terminatedAt, terminationRevision, refreshStatus>>
  BY <1>3 DEF registryVars, terminationVars
<1>9. \A id \in Range(deals'[d].claimIds) : id \in Range(old) \/ registry[id] = "Claim"
  BY <1>3, <1>4, <1>6
<1> HIDE DEF bytes
<1> QED
  BY <1>4, <1>7, <1>8, <1>9

\* A deal is not swept before it is claimed, and its claims are final then.
LEMMA BatchSweep ==
  ASSUME SweepInv, EvidenceInv', NEW d \in Deals, NEW batchSize \in Nat, SubmitEvidenceBatch(d, batchSize)
  PROVE  SweepInv'
<1>1. /\ UNCHANGED <<now, registry, removedAt, terminatedAt, terminationRevision, refreshStatus>>
      /\ \A e \in Deals \ {d} : deals'[e] = deals[e] /\ allocationStatus'[e] = allocationStatus[e]
      /\ allocationStatus[d] = "CLAIMED" =>
           /\ allocationStatus'[d] = "CLAIMED"
           /\ deals'[d].claimIds = deals[d].claimIds /\ deals'[d].claimedBytes = deals[d].claimedBytes
      /\ \A id \in Range(deals'[d].claimIds) : id \in Range(deals[d].claimIds) \/ registry[id] = "Claim"
  BY BatchChanges
<1>2. LossesDated'
  BY <1>1 DEF SweepInv, LossesDated
<1>3. ClaimsFound'
  <2> SUFFICES ASSUME NEW e \in Deals, NEW id \in Range(deals'[e].claimIds)
               PROVE  registry[id] = "Claim" \/ removedAt[id] # 0
    BY <1>1 DEF ClaimsFound
  <2>1. id \in Range(deals[e].claimIds) \/ registry[id] = "Claim"
    BY <1>1
  <2> QED
    BY <2>1 DEF SweepInv, ClaimsFound
<1>4. ASSUME NEW e \in Deals, e # d \/ allocationStatus[d] = "CLAIMED"
      PROVE  SweepRecorded(e)' /\ TerminationSeen(e)'
  <2>1. /\ SweepRecorded(e) /\ TerminationSeen(e)
        /\ deals'[e].claimIds = deals[e].claimIds /\ deals'[e].claimedBytes = deals[e].claimedBytes
        /\ allocationStatus'[e] # "CLAIMED" => allocationStatus[e] # "CLAIMED"
    BY <1>1, <1>4 DEF SweepInv
  <2>2. /\ InSweep(e)' = InSweep(e) /\ TerminationSince(e)' = TerminationSince(e)
        /\ Recorded(e, refreshStatus[e])' = Recorded(e, refreshStatus[e])
    BY <1>1, <2>1 DEF InSweep, TerminationSince, Recorded, CheckedIds, terminatedClaims
  <2> QED
    BY <1>1, <2>1, <2>2 DEF SweepRecorded, TerminationSeen
<1>5. ASSUME allocationStatus[d] # "CLAIMED"
      PROVE  SweepRecorded(d)' /\ TerminationSeen(d)'
  <2>1. refreshStatus[d] = NoRefresh /\ terminationRevision[d] \in Nat /\ now \in Nat
    BY <1>5 DEF SweepInv, SweepRecorded, EvidenceInv, TypeOK
  <2>2. deals'[d].claimIds \in Seq(Ids) /\ Len(deals'[d].claimIds) \in Nat
    <3>1. deals'[d].claimIds \in Seq(Ids)
      BY DEF EvidenceInv, TypeOK
    <3> QED
      BY <3>1
  <2>3. SweepRecorded(d)'
    BY <1>1, <2>1, <2>2 DEF SweepRecorded, NoRefresh, InSweep
  <2>4. TerminationSeen(d)'
    BY <1>1, <2>1 DEF TerminationSeen, NoRefresh
  <2> QED
    BY <2>3, <2>4
<1> QED
  BY <1>2, <1>3, <1>4, <1>5 DEF SweepInv

\* A termination ends the sweeps of its deal, and is none of the other deals' business.
LEMMA TerminationSweep ==
  ASSUME SweepInv, EvidenceInv', NEW id \in Ids, ClaimsTerminatedEarly(id)
  PROVE  SweepInv'
<1>1. /\ terminatedAt[id] = 0 /\ terminatedAt' = [terminatedAt EXCEPT ![id] = now]
      /\ terminationRevision' = [d \in Deals |-> terminationRevision[d] + (IF claimDeal[id] = d THEN 1 ELSE 0)]
      /\ UNCHANGED <<now, registry, removedAt, deals, allocationStatus, refreshStatus>>
  BY DEF ClaimsTerminatedEarly, terminatedClaims, registryVars, postingVars
<1>2. /\ now \in Nat \ {0} /\ terminatedAt \in [Ids -> Nat] /\ terminationRevision \in [Deals -> Nat]
  BY DEF SweepInv, EvidenceInv, TypeOK
<1>3. /\ \A i \in Ids : terminatedAt'[i] = IF i = id THEN now ELSE terminatedAt[i]
      /\ \A d \in Deals : terminationRevision'[d] = terminationRevision[d] + (IF claimDeal[id] = d THEN 1 ELSE 0)
  BY <1>1, <1>2
<1>4. LossesDated' /\ ClaimsFound'
  BY <1>1, <1>2, <1>3 DEF SweepInv, LossesDated, ClaimsFound
<1>5. ASSUME NEW d \in Deals
      PROVE  SweepRecorded(d)'
  <2>1. /\ SweepRecorded(d) /\ refreshStatus[d] \in Status /\ AddsUp(d)
    BY StartedTypes, AddsUpParts DEF SweepInv, EvidenceInv, AllAddUp
  <2>2. CASE claimDeal[id] = d
    <3>1. /\ refreshStatus[d].terminationRevision \in Nat /\ terminationRevision[d] \in Nat
          /\ refreshStatus[d].terminationRevision <= terminationRevision[d]
          /\ terminationRevision'[d] = terminationRevision[d] + 1
      BY <1>2, <1>3, <2>1, <2>2 DEF Status, SweepRecorded
    <3>2. TerminationSince(d)' /\ refreshStatus[d].terminationRevision <= terminationRevision'[d]
      BY <1>1, <3>1 DEF TerminationSince
    <3> QED
      BY <1>1, <2>1, <3>2 DEF SweepRecorded
  <2>3. CASE claimDeal[id] # d
    <3>1. terminationRevision'[d] = terminationRevision[d]
      BY <1>2, <1>3, <2>3
    <3>2. InSweep(d)' = InSweep(d) /\ TerminationSince(d)' = TerminationSince(d)
      BY <1>1, <3>1 DEF InSweep, TerminationSince
    <3>3. CheckedIds(d, refreshStatus[d])' = CheckedIds(d, refreshStatus[d])
          /\ id \notin CheckedIds(d, refreshStatus[d])
      <4> DEFINE status == refreshStatus[d]
      <4>1. status.checkedClaims \in Nat /\ status.checkedClaims <= Len(deals[d].claimIds)
        BY <2>1 DEF Status, SweepRecorded
      <4> HIDE DEF status
      <4>2. CheckedIds(d, status) \subseteq Range(deals[d].claimIds)
        BY <4>1, CheckedFinite DEF SweepInv, EvidenceInv
      <4>3. id \notin Range(deals[d].claimIds)
        BY <2>1, <2>3 DEF AddsUp
      <4> QED
        BY <1>1, <4>2, <4>3 DEF CheckedIds, status
    <3>4. \A i \in Ids \ {id} : i \in terminatedClaims' <=> i \in terminatedClaims
      BY <1>3 DEF terminatedClaims
    <3>5. CheckedIds(d, refreshStatus[d]) \subseteq Ids
      <4>1. refreshStatus[d].checkedClaims \in Nat
        BY <2>1 DEF Status
      <4> QED
        BY <2>1, <4>1, CheckedFinite DEF SweepInv, EvidenceInv, SweepRecorded
    <3>6. (CheckedIds(d, refreshStatus[d]) \ (refreshStatus[d].failedClaimIds \cup terminatedClaims))'
            = CheckedIds(d, refreshStatus[d]) \ (refreshStatus[d].failedClaimIds \cup terminatedClaims)
      BY <1>1, <3>3, <3>4, <3>5
    <3>7. Recorded(d, refreshStatus[d]) => Recorded(d, refreshStatus[d])'
      BY <1>1, <3>3, <3>6 DEF Recorded
    <3> QED
      BY <1>1, <2>1, <3>1, <3>2, <3>7 DEF SweepRecorded
  <2> QED
    BY <2>2, <2>3
<1>6. ASSUME NEW d \in Deals
      PROVE  TerminationSeen(d)'
  <2>1. TerminationSeen(d) /\ refreshStatus[d].lastEvidenceRefreshEpoch <= now
        /\ Range(deals[d].claimIds) \subseteq Ids
    BY PostingTypes DEF SweepInv, EvidenceInv, SweepRecorded
  <2> QED
    BY <1>1, <1>3, <2>1 DEF TerminationSeen
<1> QED
  BY <1>4, <1>5, <1>6 DEF SweepInv

\* What a call stores: a batch more, and a snapshot when that was the last.
LEMMA CallStores ==
  ASSUME SweepInv, NEW d \in Deals, NEW batchSize \in Nat \ {0}, RefreshEvidenceStatus(d, batchSize)
  PROVE  \E status \in Status :
           /\ allocationStatus[d] = "CLAIMED"
           /\ status.checkedClaims <= Len(deals[d].claimIds)
           /\ Recorded(d, status)
           /\ status.partialEvidenceRefreshEpoch <= now
           /\ now <= status.partialEvidenceRefreshEpoch + EPOCHS_IN_MONTH
           /\ status.terminationRevision = terminationRevision[d]
           /\ status.lastEvidenceRefreshEpoch = refreshStatus[d].lastEvidenceRefreshEpoch
           /\ status.activeClaimedBytes = refreshStatus[d].activeClaimedBytes
           /\ status.result = refreshStatus[d].result
           /\ refreshStatus' = [refreshStatus EXCEPT ![d] = Published(d, status)]
           /\ UNCHANGED <<now, marketVars, registryVars, operational, postingVars, terminationVars>>
<1> DEFINE n == BatchCount(Len(deals[d].claimIds) - Started(d).checkedClaims, batchSize)
           status == Advanced(d, n)
<1>1. n \in Nat /\ Started(d).checkedClaims + n <= Len(deals[d].claimIds)
  <2>1. /\ Started(d).checkedClaims \in Nat /\ Started(d).checkedClaims <= Len(deals[d].claimIds)
        /\ Len(deals[d].claimIds) \in Nat
    BY StartRecorded, PostingTypes DEF Status, SweepInv, EvidenceInv
  <2> QED
    BY <2>1 DEF BatchCount
<1>2. /\ allocationStatus[d] = "CLAIMED"
      /\ refreshStatus' = [refreshStatus EXCEPT ![d] = Published(d, status)]
      /\ UNCHANGED <<now, marketVars, registryVars, operational, postingVars, terminationVars>>
  BY DEF RefreshEvidenceStatus
<1> HIDE DEF n
<1>3. /\ status \in Status /\ status.checkedClaims = Started(d).checkedClaims + n
      /\ Recorded(d, status)
      /\ status.partialEvidenceRefreshEpoch <= now
      /\ now <= status.partialEvidenceRefreshEpoch + EPOCHS_IN_MONTH
      /\ status.terminationRevision = terminationRevision[d]
      /\ status.lastEvidenceRefreshEpoch = refreshStatus[d].lastEvidenceRefreshEpoch
      /\ status.activeClaimedBytes = refreshStatus[d].activeClaimedBytes
      /\ status.result = refreshStatus[d].result
  BY <1>1, CallRecorded
<1> HIDE DEF status
<1> QED
  BY <1>1, <1>2, <1>3

\* What publishing keeps of a status, and what it sets.
LEMMA PublishedFields ==
  ASSUME NEW d \in Deals, NEW status \in Status
  PROVE  /\ ~SweepComplete(d, status) => Published(d, status) = status
         /\ SweepComplete(d, status) =>
              /\ Published(d, status).checkedClaims = status.checkedClaims
              /\ Published(d, status).partialEvidenceRefreshEpoch = status.partialEvidenceRefreshEpoch
              /\ Published(d, status).terminationRevision = status.terminationRevision
              /\ Published(d, status).lastEvidenceRefreshEpoch = now
              /\ Published(d, status).activeClaimedBytes = status.pendingActiveClaimedBytes
              /\ Published(d, status).result =
                   IF status.pendingActiveClaimedBytes = deals[d].claimedBytes
                     THEN "ACTIVE" ELSE "COVERED_BYTES_MISMATCH"
<1>1. ASSUME SweepComplete(d, status)
      PROVE  /\ Published(d, status).checkedClaims = status.checkedClaims
             /\ Published(d, status).partialEvidenceRefreshEpoch = status.partialEvidenceRefreshEpoch
             /\ Published(d, status).terminationRevision = status.terminationRevision
             /\ Published(d, status).lastEvidenceRefreshEpoch = now
             /\ Published(d, status).activeClaimedBytes = status.pendingActiveClaimedBytes
             /\ Published(d, status).result = SweepResult(d, status)
  <2> DEFINE new == Published(d, status)
             bytes == status.pendingActiveClaimedBytes
             result == SweepResult(d, status)
  <2>1. new = [status EXCEPT !.lastEvidenceRefreshEpoch = now, !.activeClaimedBytes = bytes, !.result = result]
    BY <1>1 DEF Published, PublishedAlways
  <2> HIDE DEF new, bytes, result
  <2>2. /\ new.checkedClaims = status.checkedClaims
        /\ new.partialEvidenceRefreshEpoch = status.partialEvidenceRefreshEpoch
        /\ new.terminationRevision = status.terminationRevision
        /\ new.lastEvidenceRefreshEpoch = now /\ new.activeClaimedBytes = bytes /\ new.result = result
    BY <2>1 DEF Status
  <2> QED
    BY <2>2 DEF new, bytes, result
<1>2. SweepComplete(d, status) =>
        SweepResult(d, status) = IF status.pendingActiveClaimedBytes = deals[d].claimedBytes
                                   THEN "ACTIVE" ELSE "COVERED_BYTES_MISMATCH"
  BY DEF SweepResult
<1>3. ~SweepComplete(d, status) => Published(d, status) = status
  BY DEF Published
<1> QED
  BY <1>1, <1>2, <1>3

LEMMA RefreshSweep ==
  ASSUME SweepInv, EvidenceInv', NEW d \in Deals, NEW batchSize \in Nat \ {0}, RefreshEvidenceStatus(d, batchSize)
  PROVE  SweepInv'
<1>1. PICK status \in Status :
        /\ allocationStatus[d] = "CLAIMED"
        /\ status.checkedClaims <= Len(deals[d].claimIds)
        /\ Recorded(d, status)
        /\ status.partialEvidenceRefreshEpoch <= now
        /\ now <= status.partialEvidenceRefreshEpoch + EPOCHS_IN_MONTH
        /\ status.terminationRevision = terminationRevision[d]
        /\ status.lastEvidenceRefreshEpoch = refreshStatus[d].lastEvidenceRefreshEpoch
        /\ status.activeClaimedBytes = refreshStatus[d].activeClaimedBytes
        /\ status.result = refreshStatus[d].result
        /\ refreshStatus' = [refreshStatus EXCEPT ![d] = Published(d, status)]
        /\ UNCHANGED <<now, marketVars, registryVars, operational, postingVars, terminationVars>>
  BY CallStores
<1>2. UNCHANGED <<now, registry, removedAt, deals, allocationStatus, terminatedAt, terminationRevision>>
  BY <1>1 DEF registryVars, postingVars, terminationVars
<1>3. /\ refreshStatus'[d] = Published(d, status)
      /\ \A e \in Deals \ {d} : refreshStatus'[e] = refreshStatus[e]
      /\ now \in Nat /\ terminationRevision[d] \in Nat
  BY <1>1 DEF SweepInv, EvidenceInv, TypeOK
<1>4. LossesDated' /\ ClaimsFound'
  BY <1>2 DEF SweepInv, LossesDated, ClaimsFound
<1>5. ASSUME NEW e \in Deals \ {d}
      PROVE  SweepRecorded(e)' /\ TerminationSeen(e)'
  <2>1. SweepRecorded(e) /\ TerminationSeen(e) /\ refreshStatus'[e] = refreshStatus[e]
    BY <1>3 DEF SweepInv
  <2>2. /\ InSweep(e)' = InSweep(e) /\ TerminationSince(e)' = TerminationSince(e)
        /\ Recorded(e, refreshStatus[e])' = Recorded(e, refreshStatus[e])
    BY <1>2, <2>1 DEF InSweep, TerminationSince, Recorded, CheckedIds, terminatedClaims
  <2> QED
    BY <1>2, <2>1, <2>2 DEF SweepRecorded, TerminationSeen
<1>6. SweepRecorded(d) /\ TerminationSeen(d)
  BY DEF SweepInv
<1>7. CASE ~SweepComplete(d, status)
  <2>1. refreshStatus'[d] = status
    BY <1>3, <1>7, PublishedFields
  <2>2. Recorded(d, refreshStatus[d])'
    BY <1>1, <1>2, <2>1 DEF Recorded, CheckedIds, terminatedClaims
  <2>3. SweepRecorded(d)'
    BY <1>1, <1>2, <1>3, <1>6, <2>1, <2>2 DEF SweepRecorded
  <2>4. TerminationSeen(d)'
    BY <1>1, <1>2, <1>6, <2>1 DEF TerminationSeen
  <2> QED
    BY <2>3, <2>4, <1>4, <1>5 DEF SweepInv
<1>8. CASE SweepComplete(d, status)
  <2> DEFINE new == refreshStatus'[d]
  <2>1. /\ new.checkedClaims = status.checkedClaims
        /\ new.partialEvidenceRefreshEpoch = status.partialEvidenceRefreshEpoch
        /\ new.terminationRevision = status.terminationRevision
        /\ new.lastEvidenceRefreshEpoch = now
        /\ new.activeClaimedBytes = status.pendingActiveClaimedBytes
    BY <1>3, <1>8, PublishedFields
  <2>2. status.checkedClaims = Len(deals[d].claimIds)
    BY <1>8 DEF SweepComplete
  <2>3. ~InSweep(d)'
    BY <1>2, <2>1, <2>2 DEF InSweep
  <2>4. SweepRecorded(d)'
    BY <1>1, <1>2, <1>3, <2>1, <2>3 DEF SweepRecorded
  <2>5. status.pendingActiveClaimedBytes = deals[d].claimedBytes =>
          \A id \in Range(deals[d].claimIds) : terminatedAt[id] = 0
    BY <1>1, <2>2, CompleteTells
  <2>6. TerminationSeen(d)'
    BY <1>2, <2>1, <2>5 DEF TerminationSeen
  <2> QED
    BY <2>4, <2>6, <1>4, <1>5 DEF SweepInv
<1> QED
  BY <1>7, <1>8

LEMMA SweepStep ==
  ASSUME SweepInv, [Next]_vars
  PROVE  SweepInv'
<1>1. EvidenceInv /\ EvidenceInv' /\ TypeOK
  BY EvidenceStep DEF SweepInv, EvidenceInv
<1>2. RestStep => SweepInv'
  BY <1>1, RestSweep
<1>3. CASE UNCHANGED vars
  <2>1. /\ UNCHANGED <<now, registry, removedAt, terminationVars, refreshStatus, deals, allocationStatus>>
        /\ now \in Nat
    BY <1>1, <1>3 DEF vars, registryVars, postingVars, TypeOK
  <2> QED
    BY <1>2, <2>1 DEF RestStep, RegistryMoves, ClaimsStay
<1>4. CASE WorldStep
  BY <1>1, <1>2, <1>4, WorldRests
<1>5. ASSUME NEW d \in Deals, NEW id \in Ids, NEW expiration \in Expirations, SubmitAllocation(d, id, expiration)
      PROVE  SweepInv'
  BY <1>1, <1>2, <1>5, PostRests
<1>6. ASSUME NEW d \in Deals, NEW id \in Ids, SubmitClaimExtension(d, id)
      PROVE  SweepInv'
  BY <1>1, <1>2, <1>6, PostRests
<1>7. ASSUME NEW d \in Deals, FinishDataCapPosting(d)
      PROVE  SweepInv'
  BY <1>1, <1>2, <1>7, PostRests
<1>8. ASSUME NEW d \in Deals, NEW batchSize \in Nat, SubmitEvidenceBatch(d, batchSize)
      PROVE  SweepInv'
  BY <1>1, <1>8, BatchSweep
<1>9. ASSUME NEW d \in Deals, NEW batchSize \in Nat \ {0}, RefreshEvidenceStatus(d, batchSize)
      PROVE  SweepInv'
  BY <1>1, <1>9, RefreshSweep
<1>10. ASSUME NEW id \in Ids, ClaimsTerminatedEarly(id)
       PROVE  SweepInv'
  BY <1>1, <1>10, TerminationSweep
<1> QED
  BY <1>3, <1>4, <1>5, <1>6, <1>7, <1>8, <1>9, <1>10, StepKinds

LEMMA SweepInit ==
  ASSUME Init
  PROVE  SweepInv
<1>1. EvidenceInv
  BY EvidenceInit
<1>2. LossesDated
  BY DEF Init, LossesDated
<1>3. ASSUME NEW d \in Deals
      PROVE  /\ deals[d].claimIds = <<>> /\ deals[d].claimedBytes = 0 /\ refreshStatus[d] = NoRefresh
             /\ terminationRevision[d] = 0
  BY DEF Init, NoEvidence
<1>4. PICK none \in Seq(Ids) : none = <<>> /\ Len(none) = 0
  BY EmptySeq
<1>5. Range(none) = {}
  BY <1>4, ListRange
<1>6. ClaimsFound
  BY <1>3, <1>4, <1>5 DEF ClaimsFound
<1>7. ASSUME NEW d \in Deals
      PROVE  SweepRecorded(d) /\ TerminationSeen(d)
  <2>1. /\ refreshStatus[d].checkedClaims = 0 /\ refreshStatus[d].partialEvidenceRefreshEpoch = 0
        /\ refreshStatus[d].lastEvidenceRefreshEpoch = 0 /\ refreshStatus[d].terminationRevision = 0
    BY <1>3 DEF NoRefresh
  <2>2. ~InSweep(d)
    BY <2>1 DEF InSweep
  <2>3. now = 1
    BY DEF Init
  <2> QED
    BY <1>3, <1>4, <2>1, <2>2, <2>3 DEF SweepRecorded, TerminationSeen
<1> QED
  BY <1>1, <1>2, <1>6, <1>7 DEF SweepInv

LEMMA SweepInvariant == Spec => []SweepInv
  BY SweepInit, SweepStep, PTL DEF Spec

\* A positive snapshot has seen every termination reported before its date, for
\* any number of deals and claims of any sizes, in however many calls the claims
\* are looked up and whatever is reported between them.
THEOREM SnapshotsSeeTerminations == Spec => []TerminationsSeen
<1>1. SweepInv => TerminationsSeen
  BY DEF SweepInv, TerminationsSeen, TerminationSeen
<1> QED
  BY <1>1, SweepInvariant, PTL

-----------------------------------------------------------------------------
(* Each deal implements the snapshots the market relies on *)

\* The first loss is well defined, and counts once the deal is claimed.
LEMMA LostAtFirstLoss ==
  ASSUME SweepInv, NEW d \in Deals
  PROVE  /\ Losses(d) \subseteq 1 .. now
         /\ \A epoch : epoch \in Losses(d) <=>
              /\ epoch # 0
              /\ \E id \in Range(deals[d].claimIds) : epoch = terminatedAt[id] \/ epoch = removedAt[id]
         /\ LostAt(d) \in 0 .. now
         /\ allocationStatus[d] # "CLAIMED" \/ Losses(d) = {} => LostAt(d) = 0
         /\ allocationStatus[d] = "CLAIMED" /\ Losses(d) # {} =>
              LostAt(d) \in Losses(d) /\ \A e \in Losses(d) : LostAt(d) <= e
<1>1. \A epoch : epoch \in Losses(d) <=>
        /\ epoch # 0
        /\ \E id \in Range(deals[d].claimIds) : epoch = terminatedAt[id] \/ epoch = removedAt[id]
  BY DEF Losses
<1>2. /\ now \in Nat /\ Range(deals[d].claimIds) \subseteq Ids
      /\ \A id \in Ids : /\ terminatedAt[id] \in Nat /\ removedAt[id] \in Nat
                         /\ terminatedAt[id] <= now /\ removedAt[id] <= now
  BY PostingTypes DEF SweepInv, EvidenceInv, TypeOK, LossesDated
<1>3. Losses(d) \subseteq 1 .. now
  BY <1>1, <1>2
<1>4. Losses(d) # {} => \E epoch \in Losses(d) : \A e \in Losses(d) : epoch <= e
  <2> DEFINE S == Losses(d)
  <2>1. now \in Nat /\ S \in SUBSET (0 .. now)
    BY <1>2, <1>3
  <2> HIDE DEF S
  <2>2. S # {} => \E epoch \in S : \A e \in S : epoch <= e
    BY <2>1, SmallestIndex
  <2> QED
    BY <2>2 DEF S
<1>5. allocationStatus[d] # "CLAIMED" \/ Losses(d) = {} => LostAt(d) = 0
  BY DEF LostAt
<1>6. allocationStatus[d] = "CLAIMED" /\ Losses(d) # {} =>
        LostAt(d) \in Losses(d) /\ \A e \in Losses(d) : LostAt(d) <= e
  <2> DEFINE Least(epoch) == \A e \in Losses(d) : epoch <= e
  <2>1. allocationStatus[d] = "CLAIMED" /\ Losses(d) # {} =>
          LostAt(d) = CHOOSE epoch \in Losses(d) : Least(epoch)
    BY DEF LostAt
  <2>2. Losses(d) # {} => \E epoch \in Losses(d) : Least(epoch)
    BY <1>4
  <2> HIDE DEF Least
  <2>3. allocationStatus[d] = "CLAIMED" /\ Losses(d) # {} => LostAt(d) \in Losses(d) /\ Least(LostAt(d))
    BY <2>1, <2>2
  <2> QED
    BY <2>3 DEF Least
<1>7. LostAt(d) \in 0 .. now
  BY <1>2, <1>3, <1>5, <1>6
<1> QED
  BY <1>1, <1>3, <1>5, <1>6, <1>7

LossesKnown == \A d \in Deals : LostAt(d) \in 0 .. now

LEMMA LostAtInReach == SweepInv => LossesKnown
  BY LostAtFirstLoss DEF LossesKnown

FirstOf(S) == CHOOSE epoch \in S : \A e \in S : epoch <= e

LEMMA FirstUnique ==
  ASSUME NEW S \in SUBSET Nat, NEW first \in S, \A e \in S : first <= e
  PROVE  FirstOf(S) = first
<1>1. \A epoch \in S : (\A e \in S : epoch <= e) <=> epoch = first
  OBVIOUS
<1>2. FirstOf(S) = CHOOSE epoch \in S : epoch = first
  BY <1>1 DEF FirstOf
<1> QED
  BY <1>2

\* A step at which claims may be lost, at once, and none was before.
LossStep ==
  \A id \in Ids :
    /\ terminatedAt'[id] = terminatedAt[id] \/ (terminatedAt[id] = 0 /\ terminatedAt'[id] = now)
    /\ removedAt'[id] = removedAt[id] \/ (removedAt[id] = 0 /\ removedAt'[id] = now)

\* The first loss stays the first.
LEMMA LossRefines ==
  ASSUME SweepInv, SweepInv', NEW d \in Deals, LossStep, UNCHANGED <<now, refreshStatus>>,
         deals'[d].claimIds = deals[d].claimIds,
         allocationStatus'[d] = "CLAIMED" <=> allocationStatus[d] = "CLAIMED"
  PROVE  [Snapshots(d)!Next]_(Snapshots(d)!snapshotVars)
<1>1. now \in Nat \ {0} /\ Range(deals[d].claimIds) \subseteq Ids
  BY PostingTypes DEF SweepInv, EvidenceInv, TypeOK
<1>2. Losses(d)' = Losses(d) \/ Losses(d)' = Losses(d) \cup {now}
  <2>1. \A epoch : epoch \in Losses(d)' <=>
          /\ epoch # 0
          /\ \E id \in Range(deals[d].claimIds) : epoch = terminatedAt'[id] \/ epoch = removedAt'[id]
    BY DEF Losses
  <2>2. \A epoch : epoch \in Losses(d) <=>
          /\ epoch # 0
          /\ \E id \in Range(deals[d].claimIds) : epoch = terminatedAt[id] \/ epoch = removedAt[id]
    BY LostAtFirstLoss
  <2>3. \A epoch \in Losses(d) : epoch \in Losses(d)'
    BY <1>1, <2>1, <2>2 DEF LossStep
  <2>4. \A epoch \in Losses(d)' : epoch \in Losses(d) \/ epoch = now
    BY <1>1, <2>1, <2>2 DEF LossStep
  <2> DEFINE before == Losses(d)
             after == Losses(d)'
  <2> HIDE DEF before, after
  <2>5. (\A epoch \in before : epoch \in after) /\ (\A epoch \in after : epoch \in before \/ epoch = now)
    BY <2>3, <2>4 DEF before, after
  <2>6. after = before \/ after = before \cup {now}
    BY <2>5
  <2> QED
    BY <2>6 DEF before, after
<1>3. LostAt(d)' = LostAt(d) \/ (LostAt(d) = 0 /\ LostAt(d)' = now)
  <2>1. /\ LostAt(d)' = IF allocationStatus[d] = "CLAIMED" /\ Losses(d)' # {}
                          THEN FirstOf(Losses(d)') ELSE 0
        /\ LostAt(d) = IF allocationStatus[d] = "CLAIMED" /\ Losses(d) # {} THEN FirstOf(Losses(d)) ELSE 0
    BY DEF LostAt, FirstOf
  <2>2. CASE Losses(d)' = Losses(d)
    BY <2>1, <2>2
  <2>3. CASE Losses(d)' = Losses(d) \cup {now} /\ Losses(d) = {}
    <3>1. FirstOf({now}) = now
      BY <1>1 DEF FirstOf
    <3> QED
      BY <2>1, <2>3, <3>1
  <2>4. CASE Losses(d)' = Losses(d) \cup {now} /\ Losses(d) # {} /\ allocationStatus[d] = "CLAIMED"
    <3>1. /\ LostAt(d) \in Losses(d) /\ (\A e \in Losses(d) : LostAt(d) <= e) /\ Losses(d) \subseteq 1 .. now
      BY <2>4, LostAtFirstLoss
    <3>2. /\ Losses(d)' \in SUBSET Nat /\ LostAt(d) \in Losses(d)'
          /\ \A e \in Losses(d)' : LostAt(d) <= e
      BY <1>1, <2>4, <3>1
    <3>3. FirstOf(Losses(d)') = LostAt(d)
      BY <3>2, FirstUnique
    <3> QED
      BY <2>1, <2>4, <3>3
  <2> QED
    BY <1>2, <2>1, <2>2, <2>3, <2>4
<1>4. \/ LostAt(d)' = LostAt(d) /\ UNCHANGED Snapshots(d)!snapshotVars
      \/ Snapshots(d)!Lose
  BY <1>3 DEF Snapshots!snapshotVars, Snapshots!Lose
<1> QED
  BY <1>4 DEF Snapshots!Next

LEMMA TickRefines ==
  ASSUME Tick, NEW d \in Deals
  PROVE  Snapshots(d)!Tick
<1>1. /\ now' = now + 1
      /\ UNCHANGED <<deals, allocationStatus, terminatedAt, removedAt, refreshStatus>>
  BY DEF Tick, registryVars, postingVars, terminationVars
<1>2. LostAt(d)' = LostAt(d)
  BY <1>1 DEF LostAt, Losses
<1> QED
  BY <1>1, <1>2 DEF Snapshots!Tick

\* When the clock stands, the registry removes claims at once, or rests.
LEMMA RestRefines ==
  ASSUME SweepInv, SweepInv', RestStep, UNCHANGED now, NEW d \in Deals
  PROVE  [Snapshots(d)!Next]_(Snapshots(d)!snapshotVars)
<1>1. LossStep
  <2>1. \A id \in Ids : removedAt[id] # 0 => registry[id] = "Gone"
    BY DEF SweepInv, LossesDated
  <2>2. UNCHANGED terminatedAt /\ RegistryMoves
    BY DEF RestStep, terminationVars
  <2> QED
    BY <2>1, <2>2 DEF LossStep, RegistryMoves
<1> QED
  BY <1>1, LossRefines DEF RestStep, ClaimsStay

LEMMA TerminationRefines ==
  ASSUME SweepInv, SweepInv', NEW id \in Ids, ClaimsTerminatedEarly(id), NEW d \in Deals
  PROVE  [Snapshots(d)!Next]_(Snapshots(d)!snapshotVars)
<1>1. /\ terminatedAt[id] = 0 /\ terminatedAt' = [terminatedAt EXCEPT ![id] = now]
      /\ UNCHANGED <<now, removedAt, deals, allocationStatus, refreshStatus>>
  BY DEF ClaimsTerminatedEarly, terminatedClaims, registryVars, postingVars
<1>2. terminatedAt \in [Ids -> Nat]
  BY DEF SweepInv, EvidenceInv, TypeOK
<1>3. LossStep
  BY <1>1, <1>2 DEF LossStep
<1> QED
  BY <1>1, <1>3, LossRefines

\* The last batch completes the evidence, with what was lost of it before.
LEMMA BatchRefines ==
  ASSUME SweepInv, SweepInv', NEW batchDeal \in Deals, NEW batchSize \in Nat,
         SubmitEvidenceBatch(batchDeal, batchSize), NEW d \in Deals
  PROVE  [Snapshots(d)!Next]_(Snapshots(d)!snapshotVars)
<1>1. /\ UNCHANGED <<now, removedAt, terminatedAt, refreshStatus>>
      /\ d # batchDeal => deals'[d] = deals[d] /\ allocationStatus'[d] = allocationStatus[d]
      /\ allocationStatus[d] = "CLAIMED" =>
           allocationStatus'[d] = "CLAIMED" /\ deals'[d].claimIds = deals[d].claimIds
  BY BatchChanges
<1>2. CASE allocationStatus'[d] = "CLAIMED" <=> allocationStatus[d] = "CLAIMED"
  <2>1. CASE allocationStatus[d] = "CLAIMED"
    <3>1. Losses(d)' = Losses(d)
      BY <1>1, <2>1 DEF Losses
    <3>2. LostAt(d)' = LostAt(d)
      BY <1>1, <2>1, <3>1 DEF LostAt
    <3> QED
      BY <1>1, <2>1, <3>2 DEF Snapshots!snapshotVars
  <2>2. CASE allocationStatus[d] # "CLAIMED"
    <3>1. LostAt(d)' = 0 /\ LostAt(d) = 0
      BY <1>2, <2>2 DEF LostAt
    <3> QED
      BY <1>1, <1>2, <2>2, <3>1 DEF Snapshots!snapshotVars
  <2> QED
    BY <2>1, <2>2
<1>3. CASE allocationStatus'[d] = "CLAIMED" /\ allocationStatus[d] # "CLAIMED"
  <2>1. LostAt(d) = 0
    BY <1>3 DEF LostAt
  <2>2. LostAt(d)' \in 0 .. now'
    <3>1. LossesKnown'
      BY LostAtInReach, PTL
    <3> QED
      BY <3>1 DEF LossesKnown
  <2>3. LostAt(d)' \in {LostAt(d)} \cup 1 .. now
    BY <1>1, <2>1, <2>2
  <2> QED
    BY <1>1, <1>3, <2>3 DEF Snapshots!Complete, Snapshots!Next
<1> QED
  BY <1>1, <1>2, <1>3

\* The call that completes a sweep publishes a snapshot with its own date: when
\* it is positive nothing was terminated, and nothing was removed before the
\* sweep began, which was not more than a month ago.
LEMMA RefreshRefines ==
  ASSUME SweepInv, NEW swept \in Deals, NEW batchSize \in Nat \ {0},
         RefreshEvidenceStatus(swept, batchSize), NEW d \in Deals
  PROVE  [Snapshots(d)!Next]_(Snapshots(d)!snapshotVars)
<1>1. PICK status \in Status :
        /\ allocationStatus[swept] = "CLAIMED"
        /\ status.checkedClaims <= Len(deals[swept].claimIds)
        /\ Recorded(swept, status)
        /\ status.partialEvidenceRefreshEpoch <= now
        /\ now <= status.partialEvidenceRefreshEpoch + EPOCHS_IN_MONTH
        /\ status.terminationRevision = terminationRevision[swept]
        /\ status.lastEvidenceRefreshEpoch = refreshStatus[swept].lastEvidenceRefreshEpoch
        /\ status.activeClaimedBytes = refreshStatus[swept].activeClaimedBytes
        /\ status.result = refreshStatus[swept].result
        /\ refreshStatus' = [refreshStatus EXCEPT ![swept] = Published(swept, status)]
        /\ UNCHANGED <<now, marketVars, registryVars, operational, postingVars, terminationVars>>
  BY CallStores
<1>2. UNCHANGED <<now, removedAt, deals, allocationStatus, terminatedAt>>
  BY <1>1 DEF registryVars, postingVars, terminationVars
<1>3. LostAt(d)' = LostAt(d)
  BY <1>2 DEF LostAt, Losses
<1>4. /\ refreshStatus'[swept] = Published(swept, status)
      /\ \A e \in Deals \ {swept} : refreshStatus'[e] = refreshStatus[e]
  BY <1>1 DEF SweepInv, EvidenceInv, TypeOK
<1>5. CASE d # swept \/ ~SweepComplete(swept, status)
  <2>1. /\ refreshStatus'[d].result = refreshStatus[d].result
        /\ refreshStatus'[d].lastEvidenceRefreshEpoch = refreshStatus[d].lastEvidenceRefreshEpoch
    BY <1>1, <1>4, <1>5, PublishedFields
  <2> QED
    BY <1>2, <1>3, <2>1 DEF Snapshots!snapshotVars
<1>6. CASE d = swept /\ SweepComplete(swept, status)
  <2>1. /\ refreshStatus'[d].lastEvidenceRefreshEpoch = now
        /\ refreshStatus'[d].result = IF status.pendingActiveClaimedBytes = deals[d].claimedBytes
                                        THEN "ACTIVE" ELSE "COVERED_BYTES_MISMATCH"
    BY <1>4, <1>6, PublishedFields
  <2>2. now \in refreshStatus[d].lastEvidenceRefreshEpoch .. now
    <3>1. now \in Nat /\ refreshStatus[d].lastEvidenceRefreshEpoch \in Nat
      BY DEF SweepInv, EvidenceInv, TypeOK
    <3>2. refreshStatus[d].lastEvidenceRefreshEpoch <= now
      BY DEF SweepInv, SweepRecorded
    <3> QED
      BY <3>1, <3>2
  <2>3. /\ status.pendingActiveClaimedBytes = deals[d].claimedBytes =>
             \A id \in Range(deals[d].claimIds) :
               /\ terminatedAt[id] = 0
               /\ removedAt[id] = 0 \/ status.partialEvidenceRefreshEpoch <= removedAt[id]
        /\ status.pendingActiveClaimedBytes # deals[d].claimedBytes =>
             \E id \in Range(deals[d].claimIds) : terminatedAt[id] # 0 \/ removedAt[id] # 0
    BY <1>1, <1>6, CompleteTells DEF SweepComplete
  <2>4. status.pendingActiveClaimedBytes = deals[d].claimedBytes => Snapshots(d)!StoredAt(now)
    <3> SUFFICES ASSUME status.pendingActiveClaimedBytes = deals[d].claimedBytes, LostAt(d) # 0
                 PROVE  now <= LostAt(d) + EPOCHS_IN_MONTH
      BY DEF Snapshots!StoredAt
    <3>1. LostAt(d) \in Losses(d)
      BY LostAtFirstLoss
    <3>2. PICK id \in Range(deals[d].claimIds) : LostAt(d) = terminatedAt[id] \/ LostAt(d) = removedAt[id]
      BY <3>1, LostAtFirstLoss
    <3>3. status.partialEvidenceRefreshEpoch <= LostAt(d)
      BY <2>3, <3>2
    <3>4. status.partialEvidenceRefreshEpoch \in Nat /\ LostAt(d) \in Nat /\ now \in Nat /\ EPOCHS_IN_MONTH \in Nat
      <4>1. status.partialEvidenceRefreshEpoch \in Nat
        BY DEF Status
      <4>2. now \in Nat
        BY DEF SweepInv, EvidenceInv, TypeOK
      <4>3. LostAt(d) \in 0 .. now
        BY LostAtFirstLoss
      <4> QED
        BY <4>1, <4>2, <4>3, DataCapAssumption
    <3> QED
      BY <1>1, <3>3, <3>4
  <2>5. status.pendingActiveClaimedBytes # deals[d].claimedBytes => LostAt(d) # 0
    <3> SUFFICES ASSUME status.pendingActiveClaimedBytes # deals[d].claimedBytes PROVE LostAt(d) # 0
      OBVIOUS
    <3>1. PICK id \in Range(deals[d].claimIds) : terminatedAt[id] # 0 \/ removedAt[id] # 0
      BY <2>3
    <3>2. terminatedAt[id] \in Losses(d) \/ removedAt[id] \in Losses(d)
      BY <3>1, LostAtFirstLoss
    <3>3. allocationStatus[d] = "CLAIMED"
      BY <1>1, <1>6
    <3>4. LostAt(d) \in Losses(d) /\ Losses(d) \subseteq 1 .. now
      BY <3>2, <3>3, LostAtFirstLoss
    <3> QED
      BY <3>4
  <2>6. Snapshots(d)!Publish
    BY <1>1, <1>2, <1>3, <1>6, <2>1, <2>2, <2>4, <2>5 DEF Snapshots!Publish
  <2> QED
    BY <2>6 DEF Snapshots!Next
<1> QED
  BY <1>5, <1>6

LEMMA SnapshotsStep ==
  ASSUME SweepInv, SweepInv', [Next]_vars, NEW d \in Deals
  PROVE  [Snapshots(d)!Next]_(Snapshots(d)!snapshotVars)
<1> DEFINE Mapped == [Snapshots(d)!Next]_(Snapshots(d)!snapshotVars)
<1>1. EvidenceInv /\ TypeOK
  BY DEF SweepInv, EvidenceInv
<1>2. RestStep /\ UNCHANGED now => Mapped
  BY RestRefines
<1>3. CASE UNCHANGED vars
  <2>1. UNCHANGED <<now, deals, allocationStatus, terminatedAt, removedAt, refreshStatus>>
    BY <1>3 DEF vars, registryVars, postingVars, terminationVars
  <2>2. LostAt(d)' = LostAt(d)
    BY <2>1 DEF LostAt, Losses
  <2> QED
    BY <2>1, <2>2 DEF Snapshots!snapshotVars
<1>4. CASE WorldStep
  <2>1. CASE Tick
    BY <2>1, TickRefines DEF Snapshots!Next
  <2>2. CASE ~Tick
    <3>1. UNCHANGED now
      BY <1>4, <2>2 DEF WorldStep, Claim, RemoveClaim, RemoveExpiredAllocation, DisableAdapter,
                        SetDealActivationPadding, ActivateEvidence, TerminateDeal, ExpireDeal,
                        RejectAcceptedDeal, FinalizeDeal, CloseDeal
    <3> QED
      BY <1>1, <1>2, <1>4, <3>1, WorldRests
  <2> QED
    BY <2>1, <2>2
<1> HIDE DEF Mapped
<1>5. ASSUME NEW posting \in Deals, NEW id, NEW expiration,
             \/ SubmitAllocation(posting, id, expiration)
             \/ SubmitClaimExtension(posting, id)
             \/ FinishDataCapPosting(posting)
      PROVE  Mapped
  <2>1. UNCHANGED now
    BY <1>5 DEF SubmitAllocation, SubmitClaimExtension, FinishDataCapPosting
  <2> QED
    BY <1>1, <1>2, <1>5, <2>1, PostRests
<1>6. ASSUME NEW posting \in Deals, NEW batchSize \in Nat, SubmitEvidenceBatch(posting, batchSize)
      PROVE  Mapped
  BY <1>6, BatchRefines DEF Mapped
<1>7. ASSUME NEW swept \in Deals, NEW batchSize \in Nat \ {0}, RefreshEvidenceStatus(swept, batchSize)
      PROVE  Mapped
  BY <1>7, RefreshRefines DEF Mapped
<1>8. ASSUME NEW id \in Ids, ClaimsTerminatedEarly(id)
      PROVE  Mapped
  BY <1>8, TerminationRefines DEF Mapped
<1>9. Mapped
  BY <1>3, <1>4, <1>5, <1>6, <1>7, <1>8, StepKinds DEF Mapped
<1> QED
  BY <1>9 DEF Mapped

LEMMA SnapshotsInit ==
  ASSUME Init, NEW d \in Deals
  PROVE  Snapshots(d)!Init
<1>1. /\ now \in Nat \ {0} /\ allocationStatus[d] = "NONE"
      /\ refreshStatus[d].result = "NONE" /\ refreshStatus[d].lastEvidenceRefreshEpoch = 0
  BY DEF Init, NoRefresh
<1>2. LostAt(d) = 0
  BY <1>1 DEF LostAt
<1> QED
  BY <1>1, <1>2 DEF Snapshots!Init

\* Each deal implements EvidenceSnapshots: the claims of any number of deals may
\* be looked up in any number of calls, interleaved with removals and reports;
\* the market sees complete evidence, a first loss, and snapshots in order of
\* which a positive one knows all that was lost a month before its date.
THEOREM AdapterImplementsSnapshots == Spec => ImplementsSnapshots
<1> DEFINE AllStep == \A d \in Deals : [Snapshots(d)!Next]_(Snapshots(d)!snapshotVars)
           AllInit == \A d \in Deals : Snapshots(d)!Init
<1>1. Init => AllInit
  BY SnapshotsInit
<1>2. SweepInv /\ SweepInv' /\ [Next]_vars => AllStep
  BY SnapshotsStep
<1>3. ImplementsSnapshots <=> AllInit /\ [][AllStep]_vars
  BY DEF ImplementsSnapshots
<1> HIDE DEF AllInit, AllStep
<1>4. Spec => AllInit /\ [][AllStep]_vars
  BY <1>1, <1>2, SweepInvariant, PTL DEF Spec
<1> QED
  BY <1>3, <1>4, PTL
=============================================================================
