---------------------------- MODULE MCLifecycle -----------------------------
(***************************************************************************)
(* An instance of PoRepMarket for the run about the life of several deals: *)
(* capacity, manifests, states and rails.  A month is two epochs.          *)
(***************************************************************************)
EXTENDS PoRepMarket

CONSTANTS p1, o1, c1, m1, m2, k1, none

AnyTerms == [minSize |-> 1, maxSize |-> 0, kinds |-> {k1}]
OneTerms == {AnyTerms}

DurationOne == [k \in Kinds |-> 1]

Ask(manifest, size, price) ==
  [client |-> c1, manifest |-> manifest, size |-> size, kind |-> k1, maxPrice |-> price]

SmallAndLarge == {Ask(m1, 1, 5), Ask(m2, 3, 5)}
=============================================================================
