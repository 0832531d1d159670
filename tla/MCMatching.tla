----------------------------- MODULE MCMatching -----------------------------
(***************************************************************************)
(* Instances of PoRepMarket for runs about the registry: two providers,    *)
(* their offers, and proposals competing for capacity and manifests.       *)
(***************************************************************************)
EXTENDS PoRepMarket, TLC

CONSTANTS p1, p2, o1, o2, c1, c2, m1, k1, none

AnyTerms == [minSize |-> 1, maxSize |-> 0, kinds |-> {k1}]
OneTerms == {AnyTerms}
DurationOne == [k \in Kinds |-> 1]

Ask(client, size) == [client |-> client, manifest |-> m1, size |-> size, kind |-> k1, maxPrice |-> 2]
OneAsk == {Ask(c1, 1)}
Symmetry == Permutations(Providers) \cup Permutations(Organizations) \cup Permutations(Clients)

Rivals == {Ask(c1, 1), Ask(c2, 1)}
=============================================================================
