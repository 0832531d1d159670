----------------------------- MODULE ReleaseLog -----------------------------
(***************************************************************************)
(* What the deployment command line promises about a network: the          *)
(* canonical release changes in one step, from one that is complete to     *)
(* another, and only to what the operation that is open has proposed.      *)
(* Operations follow one another; one that was opened is neither replaced  *)
(* nor forgotten, and what it proposed stays the same whatever is retried. *)
(* How a proposal comes about, and which steps it takes to publish it, is  *)
(* not seen.                                                               *)
(***************************************************************************)

CONSTANTS Builds, None

VARIABLES
  canonical,  \* release of the network: its build and its contracts
  open        \* the operation that is not published yet: the build it is
              \* opened with, and the contracts it proposes afterwards

logVars == <<canonical, open>>

NoOperation == [stage |-> "none", build |-> None, contracts |-> None]

Init == open = NoOperation

Open ==
  /\ open = NoOperation
  /\ \E build \in Builds : open' = [stage |-> "open", build |-> build, contracts |-> None]
  /\ UNCHANGED canonical

Propose ==
  /\ open.stage = "open"
  /\ open' = [stage |-> "proposed", build |-> open.build, contracts |-> open'.contracts]
  /\ UNCHANGED canonical

Commit ==
  /\ open.stage = "proposed"
  /\ canonical' = [build |-> open.build, contracts |-> open.contracts]
  /\ open' = NoOperation

Next == Open \/ Propose \/ Commit

Spec == Init /\ [][Next]_logVars
=============================================================================
