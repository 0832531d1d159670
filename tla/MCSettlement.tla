---------------------------- MODULE MCSettlement ----------------------------
(***************************************************************************)
(* Instances of PoRepMarket for runs about one deal over its whole         *)
(* service: evidence refresh, attestations, settlement, termination.       *)
(***************************************************************************)
EXTENDS PoRepMarket

CONSTANTS p1, o1, c1, m1, k1, none

AnyTerms == [minSize |-> 1, maxSize |-> 0, kinds |-> {k1}]
NoSLITerms == [minSize |-> 0, maxSize |-> 1, kinds |-> {k1}]
OneTerms == {AnyTerms}
Unpromised == {NoSLITerms}
Duration == [k \in Kinds |-> 4]
EarlyOrLate == {-1, 2}
OneAsk == {[client |-> c1, manifest |-> m1, size |-> 1, kind |-> k1, maxPrice |-> 3]}
=============================================================================
