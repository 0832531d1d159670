---------------------------- MODULE StoredService ----------------------------
(***************************************************************************)
(* The market together with adapters that keep the promises of             *)
(* EvidenceSnapshots.  PoRepMarket alone lets an adapter report what it    *)
(* likes.  Here every deal's storage may be lost at some epoch, and the    *)
(* snapshots are those of an adapter that implements EvidenceSnapshots, as *)
(* SectorEvidence and DataCapEvidence do: the composition is the           *)
(* conjunction of the two specifications, which share the clock, the       *)
(* evidence and the snapshots.                                             *)
(***************************************************************************)
EXTENDS PoRepMarket

CONSTANT Lag  \* epochs by which the adapter's snapshots may be late

ASSUME LagAssumption == Lag \in Nat

VARIABLE lostAt  \* epoch at which part of each deal was lost, 0 while it is not

storedVars == <<vars, lostAt>>

\* What a snapshot says: the market compares the bytes found active with
\* those committed, which are the bytes the evidence covers.
SnapshotResult(d) ==
  IF activeCovered[d] # 0 /\ activeCovered[d] = evidenceCovered[d] THEN "ACTIVE"
  ELSE IF refreshedAt[d] = 0 THEN "NONE"
  ELSE "COVERED_BYTES_MISMATCH"

Adapter(d) == INSTANCE EvidenceSnapshots WITH
  complete <- evidenceCovered[d] # 0, lostAt <- lostAt[d],
  result <- SnapshotResult(d), date <- refreshedAt[d]

AdaptersStep ==
  /\ lostAt' \in [Deals -> 0 .. now]
  /\ \A d \in Deals : [Adapter(d)!Next]_(Adapter(d)!snapshotVars)

StoredInit == Init /\ lostAt = [d \in Deals |-> 0]

StoredSpec == StoredInit /\ [][[Next]_vars /\ AdaptersStep]_storedVars

-----------------------------------------------------------------------------

\* A provider that lost part of a deal is paid for it no longer than the age
\* evidence may have, and the lag of the adapter, after the loss, however its
\* windows are split and delayed and whoever refreshes or settles: what is paid
\* over all rails is at most what the service up to then is worth.
PaidWhileStored ==
  \A d \in Deals : Started(d) /\ lostAt[d] # 0 =>
    PaidOver(d) <= DueAmount(d, lostAt[d] + Lag + EVIDENCE_REFRESH_GRACE_EPOCHS)
=============================================================================
