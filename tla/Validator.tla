----------------------------- MODULE Validator ------------------------------
(***************************************************************************)
(* The per-deal validator (src/Validator.sol over src/abstracts/           *)
(* Operator.sol), the factory that deploys it (src/ValidatorFactory.sol)   *)
(* and the part of FilecoinPay they drive.  The factory deploys at most    *)
(* one validator per deal, so a validator is named by its deal.            *)
(*                                                                         *)
(* FilecoinPay is not in the repository: it is modelled from its interface *)
(* and from what the validator assumes of it.  A rail is created by its    *)
(* operator at rate zero, its rate is changed by its operator only, and    *)
(* each settlement asks the rail's validator about a span that starts at   *)
(* the rail's cursor.  Anybody may create a rail that names somebody       *)
(* else's validator.                                                       *)
(***************************************************************************)
EXTENDS Integers, FiniteSets

CONSTANTS
  MaxDeals,        \* bound on the number of deals
  MaxRails,        \* bound on the number of FilecoinPay rails
  RailEndOffsets,  \* rail ends after termination, relative to the current epoch
  ZeroRateAsked    \* whether FilecoinPay asks the validator about spans at rate zero

ASSUME ValidatorAssumption ==
  /\ MaxDeals \in Nat
  /\ MaxRails \in Nat
  /\ RailEndOffsets \subseteq Int
  /\ ZeroRateAsked \in BOOLEAN

VARIABLES
  validators,      \* deals whose validator is deployed and set on the deal
  railId,          \* rail of each deal's validator, 0 before createRail
  railStatus,      \* the validator's own record of its rail
  railCount,
  railDeal,        \* the deal whose validator each rail names
  railRate,        \* payment per epoch
  railCursor,      \* epoch up to which the rail is settled
  railEnd,         \* last epoch of a terminated rail, 0 while it runs
  railPaid         \* total paid over the rail

validatorVars == <<validators, railId, railStatus>>
railVars == <<railCount, railDeal, railRate, railCursor, railEnd, railPaid>>

Deals == 1 .. MaxDeals
Rails == 1 .. MaxRails

RailStatuses == {"NONE", "PREPARED", "ACTIVE", "TERMINATED"}

ValidatorTypeOK ==
  /\ validators \subseteq Deals
  /\ railId \in [Deals -> 0 .. MaxRails]
  /\ railStatus \in [Deals -> RailStatuses]
  /\ railCount \in 0 .. MaxRails
  /\ railDeal \in [Rails -> 0 .. MaxDeals]
  /\ railRate \in [Rails -> Nat]
  /\ railCursor \in [Rails -> Nat]
  /\ railEnd \in [Rails -> Nat]
  /\ railPaid \in [Rails -> Int]

ValidatorInit ==
  /\ validators = {}
  /\ railId = [d \in Deals |-> 0]
  /\ railStatus = [d \in Deals |-> "NONE"]
  /\ railCount = 0
  /\ railDeal = [r \in Rails |-> 0]
  /\ railRate = [r \in Rails |-> 0]
  /\ railCursor = [r \in Rails |-> 0]
  /\ railEnd = [r \in Rails |-> 0]
  /\ railPaid = [r \in Rails |-> 0]

-----------------------------------------------------------------------------
(* FilecoinPay *)

CreatePayRail(d, rate, epoch) ==
  LET r == railCount + 1
  IN  /\ railCount < MaxRails
      /\ railCount' = r
      /\ railDeal' = [railDeal EXCEPT ![r] = d]
      /\ railRate' = [railRate EXCEPT ![r] = rate]
      /\ railCursor' = [railCursor EXCEPT ![r] = epoch]
      /\ UNCHANGED <<railEnd, railPaid>>

\* Whether the span before the change is settled without the validator, as
\* nothing is owed for it, is FilecoinPay's own business.
ModifyPayRail(r, rate, epoch) ==
  /\ railRate' = [railRate EXCEPT ![r] = rate]
  /\ railCursor' = [railCursor EXCEPT ![r] = IF ZeroRateAsked THEN @ ELSE epoch]
  /\ UNCHANGED <<railCount, railDeal, railEnd, railPaid>>

\* A rail runs on for its lockup period counted from the last epoch the
\* payer's funds covered, so it may end before the current epoch.
TerminatePayRail(r, epoch) ==
  /\ \E offset \in RailEndOffsets :
       LET end == epoch + offset
       IN  railEnd' = [railEnd EXCEPT ![r] = IF end > railCursor[r] THEN end ELSE railCursor[r]]
  /\ UNCHANGED <<railCount, railDeal, railRate, railCursor, railPaid>>

\* A rail at rate zero owes nothing, so no validator is asked about it.
CanSettle(r, to, epoch) ==
  /\ r \in 1 .. railCount
  /\ railRate[r] # 0
  /\ railCursor[r] < to
  /\ to <= epoch
  /\ railEnd[r] # 0 => to <= railEnd[r]

AdvancePayRail(r, settleUpto, amount) ==
  /\ railCursor' = [railCursor EXCEPT ![r] = settleUpto]
  /\ railPaid' = [railPaid EXCEPT ![r] = @ + amount]
  /\ UNCHANGED <<railCount, railDeal, railRate, railEnd>>

-----------------------------------------------------------------------------
(* Calls on the validator *)

\* Mutant: any rail that names the validator is validated.
AnyRailValid(r) == railDeal[r] # 0

\* Only the rail the validator created itself is validated.
IsRailIdValid(r) == railId[railDeal[r]] = r

\* create deploys the validator, whose initializer registers it with the deal.
DeployValidator(d) ==
  /\ d \notin validators
  /\ validators' = validators \cup {d}
  /\ UNCHANGED <<railId, railStatus, railVars>>

PrepareRail(d, epoch) ==
  /\ d \in validators
  /\ railId[d] = 0
  /\ CreatePayRail(d, 0, epoch)
  /\ railId' = [railId EXCEPT ![d] = railCount']
  /\ railStatus' = [railStatus EXCEPT ![d] = "PREPARED"]
  /\ UNCHANGED validators

ModifyRailPayment(d, rate, epoch) ==
  /\ rate # 0
  /\ railStatus' = [railStatus EXCEPT ![d] = IF @ = "TERMINATED" THEN @ ELSE "ACTIVE"]
  /\ ModifyPayRail(railId[d], rate, epoch)
  /\ UNCHANGED <<validators, railId>>

\* Mutant: the rail's own status is not looked at.
TerminateAnyRail(d, statuses, epoch) ==
  /\ railStatus' = [railStatus EXCEPT ![d] = "TERMINATED"]
  /\ TerminatePayRail(railId[d], epoch)
  /\ UNCHANGED <<validators, railId>>

\* earlyRailTermination accepts a prepared or active rail, finalizeDeal an active one.
TerminateRailFrom(d, statuses, epoch) ==
  /\ railStatus[d] \in statuses
  /\ railStatus' = [railStatus EXCEPT ![d] = "TERMINATED"]
  /\ TerminatePayRail(railId[d], epoch)
  /\ UNCHANGED <<validators, railId>>

EarlyRailTermination(d, epoch) == TerminateRailFrom(d, {"PREPARED", "ACTIVE"}, epoch)
FinalizeRail(d, epoch) == TerminateRailFrom(d, {"ACTIVE"}, epoch)
=============================================================================
