-------------------------- MODULE MCSectorEvidence --------------------------
(***************************************************************************)
(* Instances of SectorEvidence: a few pieces over a few sectors.           *)
(***************************************************************************)
EXTENDS SectorEvidence

UnitPieces == [p \in Pieces |-> 1]
UnevenPieces == [p \in Pieces |-> p]
=============================================================================
