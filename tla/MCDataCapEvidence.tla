------------------------- MODULE MCDataCapEvidence --------------------------
(***************************************************************************)
(* Instances of DataCapEvidence: a few ids of the registry over one or two *)
(* deals.                                                                  *)
(***************************************************************************)
EXTENDS DataCapEvidence, TLC

TwoEach == [id \in Ids |-> 2]

SymmetricIds == Permutations(Ids)
=============================================================================
