-------------------------- MODULE ServiceAgreement --------------------------
(***************************************************************************)
(* What the market promises the two parties of one deal                    *)
(* (src/PoRepMarket.sol), whatever contracts, rails and callbacks it takes *)
(* to keep it.  Service is agreed for a window that is fixed when it       *)
(* starts.  A deal is closed once: before service, during it, which cuts   *)
(* what may be earned, or after it.  The window is settled from its start  *)
(* to its end, each span of it once, at the latest when nothing more can   *)
(* be earned; a span is paid in full or not at all, and nobody is paid     *)
(* otherwise.  Why a span is refused is not seen.                          *)
(***************************************************************************)
EXTENDS Integers

CONSTANT Month  \* epochs for which the monthly amount is paid

VARIABLES
  now,
  state,
  start, end,  \* the window of service, 0 before it is agreed
  cut,         \* epoch of an early termination, 0 if there was none
  monthly,     \* what a month of service is worth
  settled,     \* epoch up to which the window is settled
  paid         \* to anybody, over any rail, in the name of the deal

window == <<start, end, monthly>>
money == <<settled, paid>>
agreementVars == <<now, state, window, cut, money>>

Init ==
  /\ now \in Nat \ {0}
  /\ state = "NONE"
  /\ start = 0 /\ end = 0 /\ cut = 0 /\ monthly = 0
  /\ settled = 0 /\ paid = 0

Tick ==
  /\ now' = now + 1
  /\ UNCHANGED <<state, window, cut, money>>

Accept ==
  /\ state = "NONE"
  /\ state' = "ACCEPTED"
  /\ UNCHANGED <<now, window, cut, money>>

\* The rail may have been settled, for nothing, before service starts.
Activate ==
  /\ state = "ACCEPTED"
  /\ state' = "ACTIVE"
  /\ start' = now /\ end' \in Nat /\ end' > now
  /\ monthly' \in Nat
  /\ settled' \in 0 .. now
  /\ UNCHANGED <<now, cut, paid>>

Reject ==
  /\ state = "ACCEPTED"
  /\ state' = "REJECTED"
  /\ UNCHANGED <<now, window, cut, money>>

Terminate ==
  /\ \/ state = "ACCEPTED" /\ state' \in {"EXPIRED", "EARLY_TERMINATED"}
     \/ state = "ACTIVE" /\ state' = "EARLY_TERMINATED" /\ now <= end
  /\ cut' = now
  /\ UNCHANGED <<now, window, money>>

Finalize ==
  /\ state = "ACTIVE"
  /\ end < now
  /\ state' = "FINALIZED"
  /\ UNCHANGED <<now, window, cut, money>>

lastPayable == IF cut # 0 THEN cut ELSE end

Worth(epoch) == IF epoch <= start THEN 0 ELSE (monthly * (epoch - start)) \div Month

Settle ==
  /\ end # 0
  /\ settled' \in settled .. now
  /\ settled' <= lastPayable
  /\ paid' \in {paid, paid + (Worth(settled') - Worth(settled))}
  /\ UNCHANGED <<now, state, window, cut>>

Next == Tick \/ Accept \/ Activate \/ Reject \/ Terminate \/ Finalize \/ Settle

Spec == Init /\ [][Next]_agreementVars
=============================================================================
