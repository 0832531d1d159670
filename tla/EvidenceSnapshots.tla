-------------------------- MODULE EvidenceSnapshots -------------------------
(***************************************************************************)
(* What a storage evidence adapter promises the market about one deal      *)
(* (src/interfaces/IStorageEvidenceAdapter.sol and the use PoRepMarket     *)
(* makes of it): once evidence is complete it publishes snapshots, each    *)
(* with a date.  A positive snapshot means that all of the deal was stored *)
(* at that date, a negative one that some of it is lost for good, and      *)
(* dates never go back.  How long a snapshot takes to collect, and what    *)
(* happens to the storage meanwhile, is not seen, except that a positive   *)
(* one may be late by a Lag: an adapter that dates its snapshots when they *)
(* are complete does not know of all that was lost while it collected.     *)
(***************************************************************************)
EXTENDS Naturals

CONSTANT Lag  \* epochs by which a positive snapshot may be late

VARIABLES
  now,
  complete,  \* all evidence of the deal is accepted
  lostAt,    \* epoch at which part of the deal was lost, 0 while it is not
  result,    \* result of the last snapshot
  date       \* and its date

snapshotVars == <<now, complete, lostAt, result, date>>

Init ==
  /\ now \in Nat \ {0}
  /\ complete = FALSE
  /\ lostAt = 0
  /\ result = "NONE"
  /\ date = 0

Tick ==
  /\ now' = now + 1
  /\ UNCHANGED <<complete, lostAt, result, date>>

\* Some of what completes the evidence may be lost already.
Complete ==
  /\ ~complete
  /\ complete' = TRUE
  /\ lostAt' \in {lostAt} \cup 1 .. now
  /\ UNCHANGED <<now, result, date>>

Lose ==
  /\ lostAt = 0
  /\ lostAt' = now
  /\ UNCHANGED <<now, complete, result, date>>

StoredAt(epoch) == lostAt = 0 \/ epoch <= lostAt + Lag

Publish ==
  /\ complete
  /\ \E epoch \in date .. now :
       /\ date' = epoch
       /\ \/ StoredAt(epoch) /\ result' = "ACTIVE"
          \/ lostAt # 0 /\ result' = "COVERED_BYTES_MISMATCH"
  /\ UNCHANGED <<now, complete, lostAt>>

Next == Tick \/ Complete \/ Lose \/ Publish

Spec == Init /\ [][Next]_snapshotVars
=============================================================================
