---------------------------- MODULE LayoutProofs ----------------------------
(***************************************************************************)
(* The types of the deployment command line's files, and the storage       *)
(* layouts on the chain, for every set of contracts, builds and requests.  *)
(* Every variable keeps its type, whatever a command computes from a       *)
(* manifest, a journal or a broadcast.  No upgrade, of however many in a   *)
(* row, replaces an implementation by one whose layout does not extend     *)
(* that of the one that is live, although only the releases are compared.  *)
(***************************************************************************)
EXTENDS DeploymentProofs

-----------------------------------------------------------------------------
\* Manifests and journals.

\* The contracts that no command can be asked to add.
Core == {"PoRepMarket", "Validator", "ValidatorBeacon"}

Complete(m) == exists(m) => Core \subseteq recorded(m) /\ (m.tokens => "SPRegistry" \in Names)

IsTyped(m) == m \in Manifest /\ Complete(m)

PendingTyped(p) ==
  /\ p \in PendingOperation
  /\ exists(p) => p.release \in Builds
  /\ Complete(p.previous) /\ Complete(p.result) /\ Complete(p.resultManifest)
  /\ \A i \in DOMAIN p.operations :
       exists(p.previous) /\ p.operations[i].target \in recorded(p.previous)

LEMMA CoreNames == Core \subseteq Names /\ UpgradeTargets \subseteq Names /\ "ValidatorBeacon" \notin UpgradeTargets
BY DeploymentAssumption, ReleaseAssumption DEF Core, Names, UpgradeTargets

LEMMA NothingTyped == IsTyped(NoManifest) /\ PendingTyped(NoJournal)
<1>1. NoManifest \in Manifest
  BY DEF NoManifest, Manifest, Contracts
<1>2. NoJournal \in PendingOperation /\ NoJournal.operations = <<>>
  BY <1>1 DEF NoJournal, PendingOperation
<1> QED
  BY <1>1, <1>2 DEF IsTyped, PendingTyped, Complete, exists, NoManifest, NoJournal

LEMMA ManifestFields ==
  ASSUME NEW m \in Manifest
  PROVE  /\ m.status \in {"absent", "pending", "finalized"} /\ m.release \in Builds \cup {None}
         /\ m.contracts \in Contracts /\ m.tokens \in BOOLEAN
         /\ m.transactions \in Seq(Receipt) /\ m.revision \in Nat
         /\ \A name \in recorded(m) : m.contracts[name] \in Entry
BY DEF Manifest, recorded, Contracts

LEMMA EntryFields ==
  ASSUME NEW e \in Entry
  PROVE  e.artifact \in Artifacts /\ e.address \in Nat /\ e.implementation \in Nat
BY DEF Entry

LEMMA StandardEntryTyped ==
  ASSUME NEW address \in Nat, NEW implementation \in Nat
  PROVE  /\ StandardEntry(address, implementation) \in Entry
         /\ StandardEntry(address, implementation) # None
         /\ StandardEntry(address, implementation).address = address
         /\ StandardEntry(address, implementation).implementation = implementation
<1>1. StandardEntry(address, implementation) \in Entry
  BY DEF StandardEntry, Entry, Artifacts
<1> QED
  BY <1>1, ReleaseAssumption DEF StandardEntry

-----------------------------------------------------------------------------
\* applyUpgrades carries out one operation after the other.

IsApplied(g, contracts, operations, m) ==
  g = [n \in 0 .. m |-> IF n = 0 THEN contracts ELSE applyUpgrade(g[n - 1], operations[n])]

LEMMA AppliedSteps ==
  ASSUME NEW g, NEW contracts, NEW operations, NEW m \in Nat, IsApplied(g, contracts, operations, m)
  PROVE  /\ g[0] = contracts
         /\ \A k \in 1 .. m : g[k] = applyUpgrade(g[k - 1], operations[k])
<1>1. 0 \in 0 .. m
  OBVIOUS
<1>2. ASSUME NEW k \in 1 .. m
      PROVE  g[k] = applyUpgrade(g[k - 1], operations[k])
  <2>1. k \in 0 .. m /\ k # 0
    OBVIOUS
  <2> QED
    BY <2>1 DEF IsApplied
<1> QED
  BY <1>1, <1>2 DEF IsApplied

LEMMA AppliedExists ==
  ASSUME NEW contracts, NEW operations, Len(operations) \in Nat
  PROVE  \E g : IsApplied(g, contracts, operations, Len(operations)) /\ applyUpgrades(contracts, operations) = g[Len(operations)]
<1> DEFINE size == Len(operations)
           Bad == {m \in 0 .. size : ~ \E g : IsApplied(g, contracts, operations, m)}
<1>1. ASSUME Bad # {} PROVE FALSE
  <2>1. PICK m \in Bad : \A k \in Bad : m <= k
    <3>1. Bad \in SUBSET (0 .. size)
      OBVIOUS
    <3> HIDE DEF Bad
    <3> QED
      BY <1>1, <3>1, SmallestIndex
  <2>2. m # 0
    <3>1. IsApplied([k \in {0} |-> contracts], contracts, operations, 0)
      <4>1. 0 .. 0 = {0}
        OBVIOUS
      <4> QED
        BY <4>1 DEF IsApplied
    <3> QED
      BY <2>1, <3>1
  <2>3. m \in Nat /\ m - 1 \in 0 .. size /\ m - 1 < m
    BY <2>1, <2>2
  <2>4. PICK g : IsApplied(g, contracts, operations, m - 1)
    BY <2>1, <2>3
  <2> DEFINE next == applyUpgrade(g[m - 1], operations[m])
             h == [k \in 0 .. m |-> IF k = m THEN next ELSE g[k]]
  <2>5. /\ g[0] = contracts
        /\ \A k \in 1 .. m - 1 :
             g[k] = applyUpgrade(g[k - 1], operations[k])
    <3>1. m - 1 \in Nat
      BY <2>2, <2>3
    <3> QED
      BY <2>4, <3>1, AppliedSteps
  <2>6. ASSUME NEW k \in 0 .. m
        PROVE  h[k] = IF k = 0 THEN contracts
                      ELSE applyUpgrade(h[k - 1], operations[k])
    <3>1. CASE k = 0
      BY <2>2, <2>3, <2>5, <3>1
    <3>2. CASE k = m
      <4>1. m - 1 \in 0 .. m /\ h[m - 1] = g[m - 1]
        BY <2>2, <2>3
      <4>2. h[m] = next
        BY <2>3
      <4> HIDE DEF h
      <4> QED
        BY <2>2, <3>2, <4>1, <4>2
    <3>3. CASE k # 0 /\ k # m
      <4>1. k \in 1 .. m - 1 /\ k - 1 \in 0 .. m /\ k - 1 # m
        BY <2>3, <3>3
      <4>2. h[k] = g[k] /\ h[k - 1] = g[k - 1]
        BY <4>1, <3>3
      <4> HIDE DEF h
      <4> QED
        BY <2>5, <3>3, <4>1, <4>2
    <3> QED
      BY <3>1, <3>2, <3>3
  <2>7. IsApplied(h, contracts, operations, m)
    <3>1. h = [k \in 0 .. m |-> h[k]]
      OBVIOUS
    <3> HIDE DEF h
    <3> QED
      BY <2>6, <3>1 DEF IsApplied
  <2> QED
    BY <2>1, <2>7
<1>2. \E g : IsApplied(g, contracts, operations, size)
  <2>1. size \in 0 .. size
    OBVIOUS
  <2> QED
    BY <1>1, <2>1
<1> DEFINE applied == CHOOSE g : IsApplied(g, contracts, operations, size)
<1>3. IsApplied(applied, contracts, operations, size)
  BY <1>2
<1>4. applyUpgrades(contracts, operations) = applied[size]
  BY DEF applyUpgrades, IsApplied
<1> QED
  BY <1>3, <1>4

\* What has become of the contracts after the first n operations.
UpgradedTo(c, contracts, operations, n) ==
  /\ c \in Contracts
  /\ \A name \in Names : c[name] = None <=> contracts[name] = None
  /\ \A name \in Names : contracts[name] # None => c[name].address = contracts[name].address
  /\ \A name \in Names \ {"ValidatorBeacon"} :
       (\A i \in 1 .. n : operations[i].target # name) => c[name] = contracts[name]
  /\ \A i \in 1 .. n :
       (\A j \in i + 1 .. n : operations[j].target # operations[i].target) =>
          c[operations[i].target].implementation = operations[i].newImplementation
  /\ \/ contracts["ValidatorBeacon"].implementation = contracts["Validator"].implementation
     \/ \E i \in 1 .. n : operations[i].target = "Validator"
     => c["ValidatorBeacon"].implementation = c["Validator"].implementation

UpgradeApplies(contracts, operations) ==
  /\ contracts \in Contracts /\ operations \in Seq(UpgradeOperation)
  /\ \A i \in DOMAIN operations : contracts[operations[i].target] # None
  /\ contracts["ValidatorBeacon"] # None

LEMMA OneUpgrade ==
  ASSUME NEW contracts, NEW operations, UpgradeApplies(contracts, operations),
         NEW n \in 1 .. Len(operations), NEW c, UpgradedTo(c, contracts, operations, n - 1)
  PROVE  UpgradedTo(applyUpgrade(c, operations[n]), contracts, operations, n)
<1> DEFINE item == operations[n]
           d == applyUpgrade(c, item)
<1>1. /\ item \in UpgradeOperation /\ n \in Nat /\ n - 1 \in Nat /\ Len(operations) \in Nat
      /\ \A i \in 1 .. n : operations[i].target \in UpgradeTargets
  <2>1. /\ Len(operations) \in Nat /\ n \in Nat /\ n - 1 \in Nat
        /\ \A i \in 1 .. Len(operations) : operations[i] \in UpgradeOperation
    BY DEF UpgradeApplies
  <2>2. \A o \in UpgradeOperation : o.target \in UpgradeTargets
    BY DEF UpgradeOperation
  <2>3. \A i \in 1 .. n : i \in 1 .. Len(operations)
    BY <2>1
  <2> QED
    BY <2>1, <2>2, <2>3
<1>2. /\ item.target \in UpgradeTargets /\ item.target \in Names /\ item.target # "ValidatorBeacon"
      /\ item.newArtifact \in Artifacts /\ item.newImplementation \in Nat
      /\ "ValidatorBeacon" \in Names
  BY <1>1, CoreNames DEF UpgradeOperation, Core
<1>3. /\ c[item.target] \in Entry /\ c["ValidatorBeacon"] \in Entry
      /\ contracts[item.target] # None /\ contracts["ValidatorBeacon"] # None
  BY <1>2 DEF UpgradeApplies, UpgradedTo, Contracts
<1> DEFINE target == [c[item.target] EXCEPT !.artifact = item.newArtifact,
                                            !.implementation = item.newImplementation]
           beacon == [c["ValidatorBeacon"] EXCEPT !.implementation = item.newImplementation]
<1>4. /\ target \in Entry /\ target.address = c[item.target].address
      /\ target.implementation = item.newImplementation
      /\ beacon \in Entry /\ beacon.address = c["ValidatorBeacon"].address
      /\ target # None /\ beacon # None
  <2>1. target \in Entry /\ beacon \in Entry
    BY <1>2, <1>3 DEF Entry
  <2> QED
    BY <1>2, <1>3, <2>1, ReleaseAssumption DEF Entry
<1>5. d = [name \in Names |->
             IF name = item.target THEN target
             ELSE IF name = "ValidatorBeacon" /\ item.target = "Validator" THEN beacon
             ELSE c[name]]
  BY DEF applyUpgrade
<1> HIDE DEF target, beacon, d
<1>6. d \in Contracts
  BY <1>4, <1>5 DEF UpgradedTo, Contracts
<1>7. \A name \in Names : d[name] = None <=> contracts[name] = None
  BY <1>3, <1>4, <1>5 DEF UpgradedTo
<1>8. \A name \in Names : contracts[name] # None => d[name].address = contracts[name].address
  BY <1>2, <1>3, <1>4, <1>5 DEF UpgradedTo
<1>9. ASSUME NEW name \in Names \ {"ValidatorBeacon"}, \A i \in 1 .. n : operations[i].target # name
      PROVE  d[name] = contracts[name]
  <2>1. name # item.target /\ \A i \in 1 .. n - 1 : operations[i].target # name
    BY <1>1, <1>9
  <2> QED
    BY <1>5, <2>1 DEF UpgradedTo
<1>10. ASSUME NEW i \in 1 .. n, \A j \in i + 1 .. n : operations[j].target # operations[i].target
       PROVE  d[operations[i].target].implementation = operations[i].newImplementation
  <2>1. CASE i = n
    BY <1>2, <1>4, <1>5, <2>1
  <2>2. CASE i # n
    <3>1. /\ i \in 1 .. n - 1 /\ n \in i + 1 .. n
          /\ \A j \in i + 1 .. n - 1 : operations[j].target # operations[i].target
      BY <1>1, <1>10, <2>2
    <3>2. /\ operations[i].target # item.target /\ operations[i].target \in Names
          /\ operations[i].target # "ValidatorBeacon"
      BY <1>1, <1>10, <3>1, CoreNames
    <3>3. d[operations[i].target] = c[operations[i].target]
      BY <1>5, <3>2
    <3> QED
      BY <3>1, <3>3 DEF UpgradedTo
  <2> QED
    BY <2>1, <2>2
<1>11. ASSUME \/ contracts["ValidatorBeacon"].implementation = contracts["Validator"].implementation
              \/ \E i \in 1 .. n : operations[i].target = "Validator"
       PROVE  d["ValidatorBeacon"].implementation = d["Validator"].implementation
  <2>1. "Validator" \in Names /\ "ValidatorBeacon" \in Names
    BY CoreNames DEF Core
  <2>2. CASE item.target = "Validator"
    <3>1. d["Validator"] = target /\ d["ValidatorBeacon"] = beacon
      BY <1>5, <2>1, <2>2
    <3>2. beacon.implementation = item.newImplementation
      BY <1>3 DEF beacon, Entry
    <3> QED
      BY <1>4, <3>1, <3>2
  <2>3. CASE item.target # "Validator"
    <3>1. d["Validator"] = c["Validator"] /\ d["ValidatorBeacon"] = c["ValidatorBeacon"]
      BY <1>2, <1>5, <2>1, <2>3
    <3>2. \A i \in 1 .. n : operations[i].target = "Validator" => i \in 1 .. n - 1
      BY <1>1, <2>3
    <3> QED
      BY <1>11, <3>1, <3>2 DEF UpgradedTo
  <2> QED
    BY <2>2, <2>3
<1> QED
  BY <1>6, <1>7, <1>8, <1>9, <1>10, <1>11 DEF UpgradedTo, d

\* So, all told.
LEMMA UpgradesApplied ==
  ASSUME NEW contracts, NEW operations, UpgradeApplies(contracts, operations)
  PROVE  UpgradedTo(applyUpgrades(contracts, operations), contracts, operations, Len(operations))
<1> DEFINE size == Len(operations)
<1>1. size \in Nat
  BY DEF UpgradeApplies
<1>2. PICK g : IsApplied(g, contracts, operations, size) /\ applyUpgrades(contracts, operations) = g[size]
  BY <1>1, AppliedExists
<1>3. /\ g[0] = contracts
      /\ \A k \in 1 .. size : g[k] = applyUpgrade(g[k - 1], operations[k])
  BY <1>1, <1>2, AppliedSteps
<1> DEFINE Bad == {k \in 0 .. size : ~UpgradedTo(g[k], contracts, operations, k)}
<1>4. ASSUME Bad # {} PROVE FALSE
  <2>1. PICK k \in Bad : \A m \in Bad : k <= m
    <3>1. Bad \in SUBSET (0 .. size)
      OBVIOUS
    <3> HIDE DEF Bad
    <3> QED
      BY <1>1, <1>4, <3>1, SmallestIndex
  <2>2. k # 0
    BY <1>3, <2>1 DEF UpgradedTo, UpgradeApplies
  <2>3. k \in 1 .. size /\ k - 1 \in 0 .. size /\ k - 1 < k
    BY <1>1, <2>1, <2>2
  <2>4. UpgradedTo(g[k - 1], contracts, operations, k - 1)
    BY <1>1, <2>1, <2>3
  <2>5. UpgradedTo(g[k], contracts, operations, k)
    BY <1>3, <2>3, <2>4, OneUpgrade
  <2> QED
    BY <2>1, <2>5
<1> QED
  BY <1>1, <1>2, <1>4

-----------------------------------------------------------------------------
\* What Deploy.s.sol creates, and where.

LEMMA FilteredRange ==
  ASSUME NEW S, NEW list \in Seq(S), NEW set
  PROVE  /\ Filtered(list, set) \in Seq(S)
         /\ Range(Filtered(list, set)) = Range(list) \cap set
<1>1. Len(list) \in Nat /\ DOMAIN list = 1 .. Len(list)
  OBVIOUS
<1>2. PICK g : IsKept(g, list, set, Len(list)) /\ Filtered(list, set) = g[Len(list)]
  BY <1>1, KeptExists
<1>3. /\ g[0] = <<>>
      /\ \A k \in 1 .. Len(list) :
           g[k] = IF list[k] \in set THEN Append(g[k - 1], list[k]) ELSE g[k - 1]
  BY <1>1, <1>2, KeptSteps
<1> DEFINE Good(k) == g[k] \in Seq(S) /\ Range(g[k]) = {list[i] : i \in 1 .. k} \cap set
           Bad == {k \in 0 .. Len(list) : ~Good(k)}
<1>4. Good(0)
  BY <1>3 DEF Range
<1>5. ASSUME NEW k \in 1 .. Len(list), Good(k - 1)
      PROVE  Good(k)
  <2>1. PICK l : l = g[k - 1]
    OBVIOUS
  <2>2. l \in Seq(S) /\ Range(l) = {list[i] : i \in 1 .. k - 1} \cap set
    BY <1>5, <2>1
  <2>3. {list[i] : i \in 1 .. k} = {list[i] : i \in 1 .. k - 1} \cup {list[k]}
    <3>1. \A i : i \in 1 .. k <=> i \in 1 .. k - 1 \/ i = k
      BY <1>1
    <3> QED
      BY <3>1
  <2>4. CASE list[k] \notin set
    BY <1>3, <2>1, <2>2, <2>3, <2>4
  <2>5. CASE list[k] \in set
    <3>1. g[k] = Append(l, list[k]) /\ list[k] \in S
      <4>1. list[k] \in S
        BY <1>1
      <4> HIDE DEF Good
      <4> QED
        BY <1>3, <2>1, <2>5, <4>1
    <3>2. Append(l, list[k]) \in Seq(S)
      BY <2>2, <3>1
    <3>3. Range(Append(l, list[k])) = Range(l) \cup {list[k]}
      <4>1. /\ DOMAIN l = 1 .. Len(l) /\ Len(l) \in Nat
            /\ DOMAIN Append(l, list[k]) = 1 .. Len(l) + 1
            /\ \A i \in 1 .. Len(l) : Append(l, list[k])[i] = l[i]
            /\ Append(l, list[k])[Len(l) + 1] = list[k]
        BY <2>2, <3>1
      <4>2. \A i : i \in 1 .. Len(l) + 1 <=> i \in 1 .. Len(l) \/ i = Len(l) + 1
        BY <4>1
      <4> QED
        BY <4>1, <4>2 DEF Range
    <3> QED
      BY <2>2, <2>3, <2>5, <3>1, <3>2, <3>3
  <2> QED
    BY <2>4, <2>5
<1> HIDE DEF Good
<1>6. ASSUME Bad # {} PROVE FALSE
  <2>1. PICK m \in Bad : \A k \in Bad : m <= k
    <3>1. Bad \in SUBSET (0 .. Len(list))
      OBVIOUS
    <3> HIDE DEF Bad
    <3> QED
      BY <1>1, <1>6, <3>1, SmallestIndex
  <2>2. m \in 1 .. Len(list) /\ m - 1 \in 0 .. Len(list) /\ m - 1 < m
    BY <1>1, <1>4, <2>1
  <2>3. Good(m - 1)
    BY <2>1, <2>2
  <2> QED
    BY <1>5, <2>1, <2>2, <2>3
<1>7. Good(Len(list))
  BY <1>1, <1>6
<1> QED
  BY <1>1, <1>2, <1>7 DEF Good, Range

\* The contracts that can be deployed together.
Deployable(proxies, helpers) ==
  /\ proxies \in Seq(ProxyNames) /\ helpers \in Seq(HelperNames)

ArrangedFrom(base, proxies, helpers, deployed) ==
  LET validator == base + 1
      link == base + 2 * Len(proxies) + 3
  IN  /\ DOMAIN deployed = Range(proxies) \cup Range(helpers) \cup {"Validator", "ValidatorBeacon"}
      /\ deployed["Validator"] = StandardEntry(0, validator)
      /\ deployed["ValidatorBeacon"] = StandardEntry(validator + 1, validator)
      /\ \A name \in Range(helpers) :
           \E i \in DOMAIN helpers :
             helpers[i] = name /\ deployed[name] = StandardEntry(0, link + i)
      /\ \A name \in Range(proxies) :
           \E i \in DOMAIN proxies :
             proxies[i] = name /\ deployed[name] = StandardEntry(base + 2 * i + 2, (base + 2 * i + 2) - 1)

LEMMA Deployed ==
  ASSUME NEW proxies, NEW helpers, Deployable(proxies, helpers), NEW base \in Nat
  PROVE  ArrangedFrom(base, proxies, helpers, DeployedContracts(proxies, helpers, base))
<1> DEFINE deployed == DeployedContracts(proxies, helpers, base)
           validator == base + 1
           link == base + 2 * Len(proxies) + 3
<1>1. Range(proxies) \subseteq ProxyNames /\ Range(helpers) \subseteq HelperNames
  BY DEF Deployable, Range
<1>2. /\ "Validator" \notin Range(proxies) \cup Range(helpers)
      /\ "ValidatorBeacon" \notin Range(proxies) \cup Range(helpers)
      /\ \A name \in Range(proxies) : name \notin Range(helpers)
  BY <1>1, ReleaseAssumption
<1> DEFINE D == Range(proxies) \cup Range(helpers) \cup {"Validator", "ValidatorBeacon"}
           entry(name) ==
             CASE name = "Validator" -> StandardEntry(0, validator)
               [] name = "ValidatorBeacon" -> StandardEntry(validator + 1, validator)
               [] name \in Range(helpers) -> StandardEntry(0, link + position(helpers, name))
               [] OTHER -> StandardEntry(base + 2 * position(proxies, name) + 2,
                                         (base + 2 * position(proxies, name) + 2) - 1)
<1>3. deployed = [name \in D |-> entry(name)]
  BY DEF DeployedContracts
<1>6. \A names : \A name \in Range(names) : position(names, name) \in DOMAIN names /\ names[position(names, name)] = name
  BY DEF Range, position
<1> HIDE DEF deployed, validator, link
<1>4. /\ DOMAIN deployed = D
      /\ deployed["Validator"] = StandardEntry(0, validator)
      /\ deployed["ValidatorBeacon"] = StandardEntry(validator + 1, validator)
      /\ \A name \in Range(helpers) :
           deployed[name] = StandardEntry(0, link + position(helpers, name))
  BY <1>2, <1>3
<1>5. ASSUME NEW name \in Range(proxies)
      PROVE  deployed[name] = StandardEntry(base + 2 * position(proxies, name) + 2,
                                            (base + 2 * position(proxies, name) + 2) - 1)
  BY <1>2, <1>3
<1>7. ASSUME NEW name \in Range(helpers)
      PROVE  \E i \in DOMAIN helpers : helpers[i] = name /\ deployed[name] = StandardEntry(0, link + i)
  BY <1>4, <1>6
<1>8. ASSUME NEW name \in Range(proxies)
      PROVE  \E i \in DOMAIN proxies : /\ proxies[i] = name
                                       /\ deployed[name] = StandardEntry(base + 2 * i + 2, (base + 2 * i + 2) - 1)
  BY <1>5, <1>6
<1> QED
  BY <1>4, <1>7, <1>8 DEF ArrangedFrom, deployed, validator, link

LEMMA DeployedTyped ==
  ASSUME NEW proxies, NEW helpers, Deployable(proxies, helpers), NEW base \in Nat
  PROVE  LET deployed == DeployedContracts(proxies, helpers, base)
         IN  /\ DOMAIN deployed \subseteq Names
             /\ Range(proxies) \cup {"Validator", "ValidatorBeacon"} \subseteq DOMAIN deployed
             /\ \A name \in DOMAIN deployed : deployed[name] \in Entry /\ deployed[name] # None
<1> DEFINE deployed == DeployedContracts(proxies, helpers, base)
           size == Len(proxies)
<1>1. size \in Nat /\ DOMAIN proxies = 1 .. size /\ DOMAIN helpers = 1 .. Len(helpers) /\ Len(helpers) \in Nat
      /\ Range(proxies) \subseteq ProxyNames /\ Range(helpers) \subseteq HelperNames
  BY DEF Deployable, Range
<1>2. /\ DOMAIN deployed = Range(proxies) \cup Range(helpers) \cup {"Validator", "ValidatorBeacon"}
      /\ deployed["Validator"] = StandardEntry(0, base + 1)
      /\ deployed["ValidatorBeacon"] = StandardEntry(base + 1 + 1, base + 1)
      /\ \A name \in Range(helpers) :
           \E i \in DOMAIN helpers :
             helpers[i] = name /\ deployed[name] = StandardEntry(0, base + 2 * size + 3 + i)
      /\ \A name \in Range(proxies) :
           \E i \in DOMAIN proxies :
             /\ proxies[i] = name
             /\ deployed[name] = StandardEntry(base + 2 * i + 2, (base + 2 * i + 2) - 1)
  <2>1. ArrangedFrom(base, proxies, helpers, deployed)
    BY Deployed
  <2> QED
    BY <2>1 DEF ArrangedFrom
<1> HIDE DEF deployed, size
<1>3. \A a, b \in Nat : StandardEntry(a, b) \in Entry /\ StandardEntry(a, b) # None
  BY StandardEntryTyped
<1>4. 0 \in Nat /\ base + 1 \in Nat /\ base + 1 + 1 \in Nat
  BY <1>1
<1>5. \A i \in DOMAIN helpers : base + 2 * size + 3 + i \in Nat
  BY <1>1
<1>6. \A i \in DOMAIN proxies : base + 2 * i + 2 \in Nat /\ (base + 2 * i + 2) - 1 \in Nat
  BY <1>1
<1>7. ASSUME NEW name \in DOMAIN deployed
      PROVE  deployed[name] \in Entry /\ deployed[name] # None
  <2>1. CASE name \in Range(helpers)
    BY <1>2, <1>3, <1>4, <1>5, <2>1
  <2>2. CASE name \in Range(proxies)
    BY <1>2, <1>3, <1>6, <2>2
  <2>3. CASE name \in {"Validator", "ValidatorBeacon"}
    BY <1>2, <1>3, <1>4, <2>3
  <2> QED
    BY <1>2, <1>7, <2>1, <2>2, <2>3
<1>8. DOMAIN deployed \subseteq Names
  BY <1>1, <1>2 DEF Names, UpgradeTargets
<1> QED
  BY <1>2, <1>7, <1>8 DEF deployed

-----------------------------------------------------------------------------
\* The scripts are sequences of transactions.

LEMMA TransactionKinds ==
  /\ \A name \in Names : \A build \in Builds : Code(name, build) \in Transactions
  /\ \A n \in Nat : Proxy(n) \in Transactions /\ Beacon(n) \in Transactions
  /\ \A a, v \in Nat : \A slot \in Slots : Call(a, slot, v) \in Transactions
BY DEF Transactions, Code, Proxy, Beacon, Call

LEMMA SequenceMade ==
  ASSUME NEW S, NEW n \in Nat, NEW list, DOMAIN list = 1 .. n, list = [i \in 1 .. n |-> list[i]],
         \A i \in 1 .. n : list[i] \in S
  PROVE  list \in Seq(S) /\ Len(list) = n
<1>1. list \in [1 .. n -> S]
  OBVIOUS
<1>2. list \in Seq(S)
  BY <1>1
<1> QED
  BY <1>2, ListMade

LEMMA SequencesJoined ==
  ASSUME NEW S, NEW s \in Seq(S), NEW t \in Seq(S)
  PROVE  /\ s \o t \in Seq(S) /\ Len(s \o t) = Len(s) + Len(t)
         /\ \A i \in 1 .. Len(s) : (s \o t)[i] = s[i]
         /\ \A i \in 1 .. Len(t) : (s \o t)[Len(s) + i] = t[i]
OBVIOUS

LEMMA ShortSequences ==
  ASSUME NEW S, NEW a \in S, NEW b \in S, NEW c \in S
  PROVE  <<>> \in Seq(S) /\ <<a>> \in Seq(S) /\ <<a, b>> \in Seq(S) /\ <<a, b, c>> \in Seq(S)
OBVIOUS

LEMMA AddressOf ==
  ASSUME NEW contracts, NEW name, contracts[name] \in Entry
  PROVE  contracts[name].address \in Nat /\ contracts[name].implementation \in Nat
BY DEF Entry

LEMMA DeployScriptTyped ==
  ASSUME NEW proxies, NEW helpers, Deployable(proxies, helpers), NEW base \in Nat, NEW build \in Builds,
         NEW tokens \in BOOLEAN, {"PoRepMarket", "DataCapEvidenceAdapter"} \subseteq Range(proxies),
         tokens => "SPRegistry" \in Range(proxies)
  PROVE  DeployScript(proxies, helpers, tokens, base, build) \in Seq(Transactions)
<1>1. /\ Len(proxies) \in Nat /\ DOMAIN proxies = 1 .. Len(proxies) /\ 2 * Len(proxies) \in Nat
      /\ Len(helpers) \in Nat /\ DOMAIN helpers = 1 .. Len(helpers)
      /\ \A i \in DOMAIN proxies : proxies[i] \in Names
      /\ \A i \in DOMAIN helpers : helpers[i] \in Names
      /\ "Validator" \in Names
  BY DEF Deployable, Names, UpgradeTargets
<1> DEFINE proxied == [i \in 1 .. 2 * Len(proxies) |->
                         IF i % 2 = 1 THEN Code(proxies[(i + 1) \div 2], build) ELSE Proxy(base + i + 1)]
           standalone == [i \in DOMAIN helpers |-> Code(helpers[i], build)]
           deployed == DeployedContracts(proxies, helpers, base)
           adapter == IF "SectorEvidenceAdapter" \in Range(proxies)
                      THEN "SectorEvidenceAdapter" ELSE "DataCapEvidenceAdapter"
           validator == <<Code("Validator", build), Beacon(deployed["Validator"].implementation)>>
           link == <<Call(deployed["PoRepMarket"].address, "evidenceAdapter", deployed[adapter].address)>>
           policy == IF tokens THEN <<Call(deployed["SPRegistry"].address, "token", 1)>> ELSE <<>>
<1>2. DeployScript(proxies, helpers, tokens, base, build) = validator \o proxied \o link \o standalone \o policy
  BY DEF DeployScript
<1>3. /\ \A name \in DOMAIN deployed : deployed[name].address \in Nat /\ deployed[name].implementation \in Nat
      /\ "Validator" \in DOMAIN deployed /\ "PoRepMarket" \in DOMAIN deployed /\ adapter \in DOMAIN deployed
      /\ tokens => "SPRegistry" \in DOMAIN deployed
  BY DeployedTyped, AddressOf
<1> HIDE DEF deployed, adapter
<1>4. proxied \in Seq(Transactions)
  <2>1. ASSUME NEW i \in 1 .. 2 * Len(proxies)
        PROVE  proxied[i] \in Transactions
    <3>1. CASE i % 2 = 1
      <4>1. (i + 1) \div 2 \in 1 .. Len(proxies)
        BY <1>1, <3>1
      <4> QED
        BY <1>1, <3>1, <4>1, TransactionKinds
    <3>2. CASE i % 2 # 1
      <4>1. base + i + 1 \in Nat
        BY <1>1
      <4> QED
        BY <3>2, <4>1, TransactionKinds
    <3> QED
      BY <3>1, <3>2
  <2>2. DOMAIN proxied = 1 .. 2 * Len(proxies) /\ proxied = [i \in 1 .. 2 * Len(proxies) |-> proxied[i]]
    OBVIOUS
  <2> HIDE DEF proxied
  <2> QED
    BY <1>1, <2>1, <2>2, SequenceMade
<1>5. standalone \in Seq(Transactions)
  <2>1. \A i \in 1 .. Len(helpers) : standalone[i] \in Transactions
    BY <1>1, TransactionKinds
  <2>2. DOMAIN standalone = 1 .. Len(helpers) /\ standalone = [i \in 1 .. Len(helpers) |-> standalone[i]]
    BY <1>1
  <2> HIDE DEF standalone
  <2> QED
    BY <1>1, <2>1, <2>2, SequenceMade
<1>6. validator \in Seq(Transactions) /\ link \in Seq(Transactions) /\ policy \in Seq(Transactions)
  <2>1. /\ Code("Validator", build) \in Transactions
        /\ Beacon(deployed["Validator"].implementation) \in Transactions
        /\ Call(deployed["PoRepMarket"].address, "evidenceAdapter", deployed[adapter].address) \in Transactions
        /\ tokens => Call(deployed["SPRegistry"].address, "token", 1) \in Transactions
    BY <1>1, <1>3, TransactionKinds DEF Slots
  <2> QED
    BY <2>1, ShortSequences
<1> HIDE DEF proxied, standalone, validator, link, policy
<1>7. validator \o proxied \in Seq(Transactions)
  BY <1>4, <1>6, SequencesJoined
<1>8. validator \o proxied \o link \in Seq(Transactions)
  BY <1>6, <1>7, SequencesJoined
<1>9. validator \o proxied \o link \o standalone \in Seq(Transactions)
  BY <1>5, <1>8, SequencesJoined
<1> QED
  BY <1>2, <1>6, <1>9, SequencesJoined

LEMMA MissingScriptTyped ==
  ASSUME NEW name \in Missing, NEW source, IsTyped(source), exists(source), NEW base \in Nat, NEW build \in Builds
  PROVE  MissingScript(name, source, base, build) \in Seq(Transactions)
<1>1. name \in Names /\ "PoRepMarket" \in recorded(source)
  BY DeploymentAssumption DEF IsTyped, Complete, Core
<1>2. source.contracts["PoRepMarket"].address \in Nat
  BY <1>1, ManifestFields, AddressOf DEF IsTyped
<1>3. /\ Code(name, build) \in Transactions /\ Proxy(base + 1) \in Transactions
      /\ Call(source.contracts["PoRepMarket"].address, "evidenceAdapter", base + 2) \in Transactions
  BY <1>1, <1>2, TransactionKinds DEF Slots
<1> QED
  BY <1>3, ShortSequences DEF MissingScript

LEMMA UpgradeScriptTyped ==
  ASSUME NEW targets \in Seq(UpgradeTargets), NEW source, IsTyped(source), exists(source),
         \A i \in DOMAIN targets : targets[i] \in recorded(source), NEW base \in Nat, NEW build \in Builds
  PROVE  UpgradeScript(targets, source, base, build) \in Seq(Transactions)
<1> DEFINE proxy(name) ==
             source.contracts[IF name = "Validator" THEN "ValidatorBeacon" ELSE name].address
           codes == [i \in DOMAIN targets |-> Code(targets[i], build)]
           calls == [i \in DOMAIN targets |-> Call(proxy(targets[i]), "implementation", base + i)]
<1>1. Len(targets) \in Nat /\ DOMAIN targets = 1 .. Len(targets) /\ UpgradeTargets \subseteq Names
  BY CoreNames
<1>2. \A name \in recorded(source) : source.contracts[name].address \in Nat
  BY ManifestFields, AddressOf DEF IsTyped
<1>3. "ValidatorBeacon" \in recorded(source)
  BY DEF IsTyped, Complete, Core
<1>4. \A i \in 1 .. Len(targets) : codes[i] \in Transactions
  BY <1>1, TransactionKinds
<1>5. ASSUME NEW i \in 1 .. Len(targets)
      PROVE  calls[i] \in Transactions
  <2>1. proxy(targets[i]) \in Nat
    BY <1>1, <1>2, <1>3
  <2>2. base + i \in Nat
    BY <1>1
  <2> HIDE DEF proxy
  <2> QED
    BY <1>1, <2>1, <2>2, TransactionKinds DEF Slots
<1>6. /\ DOMAIN codes = 1 .. Len(targets) /\ codes = [i \in 1 .. Len(targets) |-> codes[i]]
      /\ DOMAIN calls = 1 .. Len(targets) /\ calls = [i \in 1 .. Len(targets) |-> calls[i]]
  BY <1>1
<1>7. UpgradeScript(targets, source, base, build) = codes \o calls
  BY DEF UpgradeScript
<1> HIDE DEF codes, calls
<1>8. codes \in Seq(Transactions) /\ calls \in Seq(Transactions)
  BY <1>1, <1>4, <1>5, <1>6, SequenceMade
<1> QED
  BY <1>7, <1>8, SequencesJoined

LEMMA TokenScriptTyped ==
  ASSUME NEW source, IsTyped(source), "SPRegistry" \in recorded(source)
  PROVE  TokenScript(source) \in Seq(Transactions)
<1>1. source.contracts["SPRegistry"].address \in Nat
  BY ManifestFields, AddressOf DEF IsTyped
<1>2. Call(source.contracts["SPRegistry"].address, "token", 1) \in Transactions
  BY <1>1, TransactionKinds DEF Slots
<1> QED
  BY <1>2, ShortSequences DEF TokenScript

-----------------------------------------------------------------------------
\* Journals and manifests that are computed have their types.

LEMMA NewJournals ==
  ASSUME NEW source, IsTyped(source), NEW build \in Builds
  PROVE  /\ PendingTyped(newPendingDeploy(source, build))
         /\ newPendingDeploy(source, build).previous = source
         /\ \A targets \in Seq(UpgradeTargets) :
              /\ PendingTyped(newPendingUpgrade(targets, source, build))
              /\ newPendingUpgrade(targets, source, build).previous = source
<1>1. NoJournal \in PendingOperation /\ NoJournal.operations = <<>> /\ Complete(NoManifest)
      /\ NoJournal.result = NoManifest /\ NoJournal.resultManifest = NoManifest
  BY NothingTyped DEF PendingTyped, NoJournal, IsTyped
<1>2. /\ source \in Manifest /\ Complete(source) /\ build \in Builds \cup {None}
  BY DEF IsTyped
<1>3. PendingTyped(newPendingDeploy(source, build)) /\ newPendingDeploy(source, build).previous = source
  <2>1. PICK p : p = newPendingDeploy(source, build)
    OBVIOUS
  <2>2. /\ p \in PendingOperation /\ p.previous = source /\ p.operations = <<>>
        /\ p.result = NoManifest /\ p.resultManifest = NoManifest
    BY <1>1, <1>2, <2>1 DEF newPendingDeploy, PendingOperation
  <2>3. p.release = build
    BY <1>1, <2>1 DEF newPendingDeploy, PendingOperation
  <2>4. PendingTyped(p)
    <3>1. DOMAIN p.operations = {}
      BY <2>2
    <3>2. /\ Complete(p.previous) /\ Complete(p.result) /\ Complete(p.resultManifest)
          /\ p \in PendingOperation /\ p.release \in Builds
      BY <1>1, <1>2, <2>2, <2>3
    <3> QED
      BY <3>1, <3>2 DEF PendingTyped
  <2> QED
    BY <2>1, <2>2, <2>4
<1>4. ASSUME NEW targets \in Seq(UpgradeTargets)
      PROVE  /\ PendingTyped(newPendingUpgrade(targets, source, build))
             /\ newPendingUpgrade(targets, source, build).previous = source
  <2>1. PICK p : p = newPendingUpgrade(targets, source, build)
    OBVIOUS
  <2>2. /\ p \in PendingOperation /\ p.previous = source /\ p.operations = <<>>
        /\ p.result = NoManifest /\ p.resultManifest = NoManifest
    BY <1>1, <1>2, <2>1 DEF newPendingUpgrade, PendingOperation
  <2>3. p.release = build
    BY <1>1, <2>1 DEF newPendingUpgrade, PendingOperation
  <2>4. PendingTyped(p)
    <3>1. DOMAIN p.operations = {}
      BY <2>2
    <3>2. /\ Complete(p.previous) /\ Complete(p.result) /\ Complete(p.resultManifest)
          /\ p \in PendingOperation /\ p.release \in Builds
      BY <1>1, <1>2, <2>2, <2>3
    <3> QED
      BY <3>1, <3>2 DEF PendingTyped
  <2> QED
    BY <2>1, <2>2, <2>4
<1> QED
  BY <1>3, <1>4

LEMMA ManifestMade ==
  ASSUME NEW m, DOMAIN m = {"status", "release", "contracts", "tokens", "transactions", "revision"},
         m = [field \in DOMAIN m |-> m[field]],
         m.status \in {"absent", "pending", "finalized"}, m.release \in Builds \cup {None},
         m.contracts \in Contracts, m.tokens \in BOOLEAN, m.transactions \in Seq(Receipt), m.revision \in Nat
  PROVE  m \in Manifest
BY DEF Manifest

LEMMA RecordedManifests ==
  ASSUME NEW base \in Nat, NEW build \in Builds
  PROVE  LET deployed == DeployedContracts(ProxyOrder, HelperOrder, base)
             m == [status |-> "pending", release |-> build,
                   contracts |-> [name \in Names |-> IF name \in DOMAIN deployed THEN deployed[name] ELSE None],
                   tokens |-> Policy, transactions |-> <<>>, revision |-> 0]
         IN  IsTyped(m)
<1> DEFINE deployed == DeployedContracts(ProxyOrder, HelperOrder, base)
           contracts == [name \in Names |-> IF name \in DOMAIN deployed THEN deployed[name] ELSE None]
           m == [status |-> "pending", release |-> build, contracts |-> contracts,
                 tokens |-> Policy, transactions |-> <<>>, revision |-> 0]
<1>1. Deployable(ProxyOrder, HelperOrder)
  BY ReleaseAssumption DEF Deployable, ProxyNames, HelperNames, Range
<1>2. /\ DOMAIN deployed \subseteq Names
      /\ ProxyNames \cup {"Validator", "ValidatorBeacon"} \subseteq DOMAIN deployed
      /\ \A name \in DOMAIN deployed : deployed[name] \in Entry /\ deployed[name] # None
  BY <1>1, DeployedTyped DEF ProxyNames
<1> HIDE DEF deployed
<1>3. contracts \in Contracts
  BY <1>2 DEF Contracts
<1>4. \A name \in Core : contracts[name] # None
  BY <1>2, DeploymentAssumption, CoreNames DEF Core
<1> HIDE DEF contracts
<1>5. m \in Manifest
  BY <1>3, DeploymentAssumption DEF Manifest
<1>6. m.contracts = contracts /\ (m.tokens => "SPRegistry" \in Names)
  BY DeploymentAssumption DEF Names, UpgradeTargets
<1> HIDE DEF m
<1>7. IsTyped(m)
  BY <1>4, <1>5, <1>6, CoreNames DEF IsTyped, Complete, recorded
<1> QED
  BY <1>7 DEF m, contracts, deployed

LEMMA MergedManifests ==
  ASSUME NEW name \in Missing, NEW source, IsTyped(source), exists(source), NEW base \in Nat, NEW build \in Builds
  PROVE  IsTyped(mergeMissingHelpers(source, MissingContracts(name, base), build))
<1> DEFINE deployed == MissingContracts(name, base)
           m == mergeMissingHelpers(source, deployed, build)
<1>1. DOMAIN deployed = {name} /\ deployed[name] \in Entry /\ deployed[name] # None
  BY StandardEntryTyped DEF MissingContracts
<1> HIDE DEF deployed
<1> DEFINE contracts == [n \in Names |-> IF n \in DOMAIN deployed THEN deployed[n] ELSE source.contracts[n]]
<1>2. contracts \in Contracts
  BY <1>1, ManifestFields DEF IsTyped, Contracts
<1>3. \A n \in Core : contracts[n] # None
  BY <1>1, CoreNames DEF IsTyped, Complete, recorded
<1>4. m = [source EXCEPT !.status = "pending", !.release = build, !.contracts = contracts]
  BY DEF mergeMissingHelpers
<1> HIDE DEF contracts, m
<1>5. m \in Manifest /\ m.contracts = contracts /\ m.tokens = source.tokens
  BY <1>2, <1>4 DEF IsTyped, Manifest
<1>6. IsTyped(m)
  BY <1>3, <1>5, CoreNames DEF IsTyped, Complete, recorded, exists
<1> QED
  BY <1>6 DEF m, deployed

LEMMA OperationsMade ==
  ASSUME NEW targets \in Seq(UpgradeTargets), NEW artifact \in Artifacts, NEW base \in Nat
  PROVE  /\ UpgradeOperations(targets, artifact, base) \in Seq(UpgradeOperation)
         /\ DOMAIN UpgradeOperations(targets, artifact, base) = DOMAIN targets
         /\ \A i \in DOMAIN targets :
              /\ UpgradeOperations(targets, artifact, base)[i].target = targets[i]
              /\ UpgradeOperations(targets, artifact, base)[i].newImplementation = base + i
<1> DEFINE operations == UpgradeOperations(targets, artifact, base)
<1>1. Len(targets) \in Nat /\ DOMAIN targets = 1 .. Len(targets)
  OBVIOUS
<1>2. /\ DOMAIN operations = DOMAIN targets
      /\ operations = [i \in 1 .. Len(targets) |-> operations[i]]
      /\ \A i \in DOMAIN targets :
           operations[i] = [target |-> targets[i], artifact |-> "standard", newArtifact |-> artifact,
                            newImplementation |-> base + i]
  BY <1>1 DEF UpgradeOperations
<1> HIDE DEF operations
<1>3. ASSUME NEW i \in DOMAIN targets
      PROVE  /\ operations[i] \in UpgradeOperation /\ operations[i].target = targets[i]
             /\ operations[i].newImplementation = base + i
  <2>1. PICK n \in Nat : n = base + i
    BY <1>1
  <2>2. operations[i] = [target |-> targets[i], artifact |-> "standard", newArtifact |-> artifact,
                         newImplementation |-> n]
    BY <1>2, <2>1
  <2> QED
    BY <2>1, <2>2 DEF UpgradeOperation, Artifacts
<1>4. operations \in Seq(UpgradeOperation)
  BY <1>1, <1>2, <1>3, SequenceMade
<1> QED
  BY <1>2, <1>3, <1>4 DEF operations

LEMMA MergedTyped ==
  ASSUME NEW prior \in Seq(Receipt), NEW receipts \in Seq(Receipt)
  PROVE  mergeTransactions(prior, receipts) \in Seq(Receipt)
<1> DEFINE others == {t \in Range(prior) : \A i \in DOMAIN receipts : receipts[i].nonce # t.nonce}
<1>1. Filtered(prior, others) \in Seq(Receipt)
  BY FilteredRange
<1>2. mergeTransactions(prior, receipts) = Filtered(prior, others) \o receipts
  BY DEF mergeTransactions
<1> HIDE DEF others
<1> QED
  BY <1>1, <1>2

\* A manifest is published with receipts of its own.
LEMMA FinishedManifests ==
  ASSUME NEW m, IsTyped(m), exists(m), NEW transactions \in Seq(Receipt)
  PROVE  /\ IsTyped([m EXCEPT !.status = "finalized", !.transactions = transactions])
         /\ "SPRegistry" \in Names => IsTyped([m EXCEPT !.tokens = TRUE, !.transactions = transactions])
<1>1. PICK d : d = [m EXCEPT !.status = "finalized", !.transactions = transactions]
  OBVIOUS
<1>2. PICK e : e = [m EXCEPT !.tokens = TRUE, !.transactions = transactions]
  OBVIOUS
<1>3. d \in Manifest /\ d.contracts = m.contracts /\ d.tokens = m.tokens
  BY <1>1 DEF IsTyped, Manifest
<1>4. e \in Manifest /\ e.contracts = m.contracts
  BY <1>2 DEF IsTyped, Manifest
<1>5. recorded(d) = recorded(m) /\ recorded(e) = recorded(m)
  BY <1>3, <1>4 DEF recorded
<1>6. Core \subseteq recorded(m) /\ (m.tokens => "SPRegistry" \in Names)
  BY DEF IsTyped, Complete
<1>7. IsTyped(d) /\ ("SPRegistry" \in Names => IsTyped(e))
  BY <1>3, <1>4, <1>5, <1>6 DEF IsTyped, Complete
<1> QED
  BY <1>1, <1>2, <1>7

\* An upgrade leaves all contracts where they are.
LEMMA UpgradedManifests ==
  ASSUME NEW p, PendingTyped(p), p.operations # <<>>, NEW receipts \in Seq(Receipt)
  PROVE  IsTyped(renderUpgradedManifest(p.previous, p, receipts))
<1> DEFINE upgraded == applyUpgrades(p.previous.contracts, p.operations)
           m == renderUpgradedManifest(p.previous, p, receipts)
<1>1. /\ p.previous \in Manifest /\ p.release \in Builds \cup {None} /\ p.operations \in Seq(UpgradeOperation)
  BY DEF PendingTyped, PendingOperation
<1>2. 1 \in DOMAIN p.operations
  BY <1>1 DEF PendingTyped
<1>3. Core \subseteq recorded(p.previous) /\ (p.previous.tokens => "SPRegistry" \in Names)
  BY <1>2 DEF PendingTyped, Complete
<1>4. UpgradeApplies(p.previous.contracts, p.operations)
  BY <1>1, <1>3, ManifestFields DEF UpgradeApplies, PendingTyped, recorded, Core
<1>5. upgraded \in Contracts /\ \A name \in Names : upgraded[name] = None <=> p.previous.contracts[name] = None
  BY <1>4, UpgradesApplied DEF UpgradedTo
<1>6. m = [p.previous EXCEPT !.status = "finalized", !.release = p.release,
                             !.contracts = upgraded, !.transactions = receipts]
  BY DEF renderUpgradedManifest
<1> HIDE DEF upgraded, m
<1>7. m \in Manifest /\ m.contracts = upgraded /\ m.tokens = p.previous.tokens
  BY <1>1, <1>5, <1>6 DEF Manifest
<1>8. IsTyped(m)
  BY <1>3, <1>5, <1>7, CoreNames DEF IsTyped, Complete, recorded
<1> QED
  BY <1>8 DEF m

-----------------------------------------------------------------------------
\* The types of all variables, and what a command knows of its own: where it
\* was started from, what it was asked for, and how far its script has got.

Started == {"missing", "upgrade", "tokens"}

CommandTyped(c, count) ==
  /\ c.at \in Steps
  /\ c.kind \in Operations \cup {"none", "missing", "tokens", "finalize", "verify"}
  /\ c.operation \in Operations \cup {"none"}
  /\ IsTyped(c.source) /\ PendingTyped(c.pending) /\ c.receipts \in Seq(Receipt)
  /\ c.kind \in Started => exists(c.source)
  /\ c.kind = "missing" => c.request \in Missing
  /\ c.kind = "upgrade" =>
       /\ c.request[1] \in Seq(UpgradeTargets) /\ c.request[2] \in Artifacts
       /\ \A i \in DOMAIN c.request[1] : c.request[1][i] \in recorded(c.source)
       /\ c.at \notin {"build", "preflight"} => c.pending.previous = c.source
  /\ c.kind = "tokens" => "SPRegistry" \in recorded(c.source)
  /\ c.at \in {"broadcast", "record", "recordJournal"} => c.base \in 0 .. count
  /\ c.at = "broadcast" => c.script \in Seq(Transactions)
  /\ c.at \in {"record", "recordJournal", "receipts"} => c.file \in Broadcast

EvidenceTyped(e) == e \in [buildInfo : Builds \cup {None}, broadcast : Broadcast \cup {None}]

FilesTyped ==
  /\ tree \in Builds /\ committed \in Builds
  /\ IsTyped(latest) /\ head \in Manifest
  /\ retained \subseteq Builds
  /\ journal \in [Operations -> PendingOperation]
  /\ \A operation \in Operations : PendingTyped(journal[operation])
  /\ evidence \in [Operations -> [buildInfo : Builds \cup {None}, broadcast : Broadcast \cup {None}]]
  /\ verified \subseteq Nat

BoundsTyped == starts \in 0 .. MaxStarts /\ edits \in 0 .. MaxEdits /\ crashes \in Nat /\ crashes + edits <= MaxMishaps

TypeInv == ChainTypeOK /\ FilesTyped /\ BoundsTyped /\ CommandTyped(cmd, Len(sent))

\* A command that knows nothing of a script or a request.
LEMMA IdleTyped ==
  ASSUME NEW c, NEW count,
         c.at \in Steps \ {"broadcast", "record", "recordJournal", "receipts"},
         c.kind \in {"none", "finalize", "deploy"}, c.operation \in Operations \cup {"none"},
         IsTyped(c.source), PendingTyped(c.pending), c.receipts \in Seq(Receipt)
  PROVE  CommandTyped(c, count)
BY DEF CommandTyped, Started, Operations

LEMMA NoCommandTyped == ASSUME NEW count PROVE CommandTyped(NoCommand, count)
<1>1. /\ NoCommand.at = "idle" /\ NoCommand.kind = "none" /\ NoCommand.operation = "none"
      /\ NoCommand.source = NoManifest /\ NoCommand.pending = NoJournal
      /\ NoCommand.receipts \in Seq(Receipt)
  BY DEF NoCommand
<1> QED
  BY <1>1, NothingTyped, IdleTyped DEF Steps

\* A command moves on to a step at which it sends and records nothing.
LEMMA MovesOn ==
  ASSUME NEW c, NEW d, NEW count, CommandTyped(c, count),
         d.at \in Steps \ {"broadcast", "record", "recordJournal", "receipts"},
         d.at \notin {"build", "preflight"} => c.at \notin {"build", "preflight"} \/ c.kind # "upgrade",
         d.kind = c.kind, d.operation = c.operation, d.request = c.request, d.source = c.source,
         d.pending = c.pending, d.receipts = c.receipts
  PROVE  CommandTyped(d, count)
BY DEF CommandTyped

\* The command stops, the files stay.
LEMMA StopsTyped ==
  ASSUME TypeInv, cmd' = NoCommand, UNCHANGED <<chainVars, sourceVars, boundVars>>,
         UNCHANGED <<latest, head, retained, journal, evidence, verified>>
  PROVE  TypeInv'
<1>1. CommandTyped(cmd', Len(sent))
  BY NoCommandTyped
<1> QED
  BY <1>1 DEF TypeInv, chainVars, sourceVars, boundVars, ChainTypeOK, FilesTyped, BoundsTyped

LEMMA CommandMovesTyped ==
  ASSUME TypeInv, CommandTyped(cmd', Len(sent)), UNCHANGED <<chainVars, sourceVars, boundVars>>,
         UNCHANGED <<latest, head, retained, journal, evidence, verified>>
  PROVE  TypeInv'
BY DEF TypeInv, chainVars, sourceVars, boundVars, ChainTypeOK, FilesTyped, BoundsTyped

\* A journal is written too.
LEMMA JournalMovesTyped ==
  ASSUME TypeInv, CommandTyped(cmd', Len(sent)), UNCHANGED <<chainVars, sourceVars, boundVars>>,
         UNCHANGED <<latest, head, retained, evidence, verified>>, NEW op, NEW p, PendingTyped(p),
         journal' = [journal EXCEPT ![op] = p]
  PROVE  TypeInv'
<1>1. /\ journal' \in [Operations -> PendingOperation]
      /\ \A operation \in Operations : PendingTyped(journal'[operation])
  BY DEF TypeInv, FilesTyped, PendingTyped
<1> QED
  BY <1>1 DEF TypeInv, chainVars, sourceVars, boundVars, ChainTypeOK, FilesTyped, BoundsTyped

-----------------------------------------------------------------------------
\* One step after the other.

LEMMA OneStartTyped ==
  ASSUME TypeInv, NEW step \in {"build", "tokens", "forge"}, NEW kind, NEW operation, NEW request,
         start(step, kind, operation, request), starts < MaxStarts,
         kind \in {"deploy", "missing", "upgrade", "tokens"}, operation \in Operations \cup {"none"},
         kind # "deploy" => exists(latest),
         kind = "missing" => request \in Missing,
         kind = "upgrade" =>
           /\ step = "build"
           /\ request[1] \in Seq(UpgradeTargets) /\ request[2] \in Artifacts
           /\ \A i \in DOMAIN request[1] : request[1][i] \in recorded(latest),
         kind = "tokens" => "SPRegistry" \in recorded(latest)
  PROVE  TypeInv'
<1>1. /\ cmd' = [NoCommand EXCEPT !.at = step, !.kind = kind, !.operation = operation,
                                 !.request = request, !.source = latest]
      /\ starts' = starts + 1
      /\ UNCHANGED <<chainVars, sourceVars, latest, head, retained, journal, evidence, verified, crashes, edits>>
  BY DEF start
<1>2. /\ cmd'.at = step /\ cmd'.kind = kind /\ cmd'.operation = operation /\ cmd'.request = request
      /\ cmd'.source = latest /\ cmd'.pending = NoJournal /\ cmd'.receipts = <<>>
  BY <1>1 DEF NoCommand
<1>3. <<>> \in Seq(Receipt) /\ step \in Steps
  BY DEF Steps
<1>4. CommandTyped(cmd', Len(sent))
  BY <1>2, <1>3, NothingTyped DEF CommandTyped, TypeInv, FilesTyped, Operations, Started
<1>5. starts' \in 0 .. MaxStarts
  BY <1>1, DeploymentAssumption DEF TypeInv, BoundsTyped
<1> QED
  BY <1>1, <1>4, <1>5 DEF TypeInv, chainVars, sourceVars, ChainTypeOK, FilesTyped, BoundsTyped

LEMMA StartTyped == ASSUME TypeInv, startCommand PROVE TypeInv'
<1>1. CASE \E fresh \in BOOLEAN : deploy(fresh)
  <2>1. start("build", "deploy", "deploy", None) /\ starts < MaxStarts
    BY <1>1 DEF deploy, broadcastPreflight
  <2> QED
    BY <2>1, OneStartTyped DEF Operations
<1>2. CASE \E name \in Missing : deployMissing(name)
  <2>1. PICK name \in Missing :
          start("build", "missing", "deploy", name) /\ exists(latest) /\ starts < MaxStarts
    BY <1>2 DEF deployMissing, broadcastPreflight, cleanCanonicalManifest
  <2> QED
    BY <2>1, OneStartTyped DEF Operations
<1>3. CASE \E u \in Upgrades : upgrade(u[1], u[2])
  <2>1. PICK u \in Upgrades :
          /\ start("build", "upgrade", "upgrade", <<u[1], u[2]>>)
          /\ exists(latest) /\ validateTargets(latest, u[1]) /\ starts < MaxStarts
    BY <1>3 DEF upgrade, broadcastPreflight, cleanCanonicalManifest
  <2>2. u[1] \in Seq(UpgradeTargets) /\ u[2] \in Artifacts
    BY DeploymentAssumption
  <2>3. \A i \in DOMAIN u[1] : u[1][i] \in recorded(latest)
    BY <2>1 DEF validateTargets
  <2>4. PICK request : request = <<u[1], u[2]>>
    OBVIOUS
  <2>5. request[1] = u[1] /\ request[2] = u[2]
    BY <2>4
  <2> QED
    BY <2>1, <2>2, <2>3, <2>4, <2>5, OneStartTyped DEF Operations
<1>4. CASE configurePaymentTokens
  <2>1. PICK step \in {"tokens", "forge"} :
          /\ start(step, "tokens", "none", None) /\ starts < MaxStarts
          /\ exists(latest) /\ latest.contracts["SPRegistry"] # None
    BY <1>4 DEF configurePaymentTokens, broadcastPreflight, cleanCanonicalManifest
  <2>2. "SPRegistry" \in recorded(latest)
    BY <1>4, <2>1, DeploymentAssumption DEF configurePaymentTokens, recorded, Names, UpgradeTargets
  <2> QED
    BY <2>1, <2>2, OneStartTyped
<1> QED
  BY <1>1, <1>2, <1>3, <1>4 DEF startCommand

LEMMA PrepareTyped ==
  ASSUME IInv, TypeInv, buildContracts \/ retainBuildInfo \/ retainPendingStart
  PROVE  TypeInv'
<1>1. /\ CommandTyped(cmd, Len(sent)) /\ IsCommand(cmd) /\ IsTyped(cmd.source) /\ tree \in Builds
      /\ UNCHANGED <<chainVars, sourceVars, boundVars>>
      /\ UNCHANGED <<latest, head, retained, verified>>
  BY DEF TypeInv, FilesTyped, CommandTyped, IInv, Shapes, buildContracts, retainBuildInfo, retainPendingStart,
         unchangedFiles, unchangedOthers
<1>2. CASE buildContracts
  <2>1. cmd' = [cmd EXCEPT !.at = "preflight", !.build = tree] /\ UNCHANGED <<journal, evidence>>
    BY <1>2 DEF buildContracts, unchangedFiles
  <2>2. /\ cmd'.at = "preflight" /\ cmd'.kind = cmd.kind /\ cmd'.operation = cmd.operation
        /\ cmd'.request = cmd.request /\ cmd'.source = cmd.source /\ cmd'.pending = cmd.pending
        /\ cmd'.receipts = cmd.receipts
    BY <1>1, <2>1 DEF IsCommand
  <2>3. CommandTyped(cmd', Len(sent))
    BY <1>1, <2>2, MovesOn DEF Steps
  <2> QED
    BY <1>1, <2>1, <2>3, CommandMovesTyped
<1>3. CASE retainBuildInfo
  <2>1. /\ cmd.at = "preflight"
        /\ evidence' = [evidence EXCEPT ![cmd.operation].buildInfo = cmd.build]
        /\ cmd' = [cmd EXCEPT !.at = "journal", !.pending = newPending] /\ UNCHANGED journal
    BY <1>3 DEF retainBuildInfo
  <2>2. cmd.build \in Builds
    BY <2>1 DEF IInv, StartInv
  <2>3. PendingTyped(newPending) /\ newPending.previous = cmd.source
    <3>1. CASE cmd.kind = "upgrade"
      <4>1. newPending = newPendingUpgrade(cmd.request[1], cmd.source, cmd.build)
        BY <3>1 DEF newPending
      <4>2. cmd.request[1] \in Seq(UpgradeTargets)
        BY <1>1, <3>1 DEF CommandTyped
      <4> QED
        BY <1>1, <2>2, <4>1, <4>2, NewJournals
    <3>2. CASE cmd.kind # "upgrade"
      <4>1. newPending = newPendingDeploy(cmd.source, cmd.build)
        BY <3>2 DEF newPending
      <4> QED
        BY <1>1, <2>2, <4>1, NewJournals
    <3> QED
      BY <3>1, <3>2
  <2> HIDE DEF newPending
  <2>4. /\ cmd'.at = "journal" /\ cmd'.kind = cmd.kind /\ cmd'.operation = cmd.operation
        /\ cmd'.request = cmd.request /\ cmd'.source = cmd.source /\ cmd'.pending = newPending
        /\ cmd'.receipts = cmd.receipts
    BY <1>1, <2>1 DEF IsCommand
  <2>5. CommandTyped(cmd', Len(sent))
    BY <1>1, <2>1, <2>3, <2>4 DEF CommandTyped, Steps
  <2>6. evidence' \in [Operations -> [buildInfo : Builds \cup {None}, broadcast : Broadcast \cup {None}]]
    BY <2>1, <2>2 DEF TypeInv, FilesTyped
  <2> QED
    BY <1>1, <2>1, <2>5, <2>6
    DEF TypeInv, chainVars, sourceVars, boundVars, ChainTypeOK, FilesTyped, BoundsTyped
<1>4. CASE retainPendingStart
  <2>1. /\ cmd.at = "journal" /\ journal' = [journal EXCEPT ![cmd.operation] = cmd.pending]
        /\ cmd' = [cmd EXCEPT !.at = "forge"] /\ UNCHANGED evidence
    BY <1>4 DEF retainPendingStart
  <2>2. /\ cmd'.at = "forge" /\ cmd'.kind = cmd.kind /\ cmd'.operation = cmd.operation
        /\ cmd'.request = cmd.request /\ cmd'.source = cmd.source /\ cmd'.pending = cmd.pending
        /\ cmd'.receipts = cmd.receipts
    BY <1>1, <2>1 DEF IsCommand
  <2>3. CommandTyped(cmd', Len(sent)) /\ PendingTyped(cmd.pending)
    BY <1>1, <2>1, <2>2, MovesOn DEF Steps, CommandTyped
  <2> QED
    BY <1>1, <2>1, <2>3, JournalMovesTyped
<1> QED
  BY <1>2, <1>3, <1>4

LEMMA RunForgeTyped == ASSUME IInv, TypeInv, runForgeScript PROVE TypeInv'
<1>1. /\ CommandTyped(cmd, Len(sent)) /\ IsCommand(cmd) /\ IsTyped(cmd.source) /\ tree \in Builds
      /\ cmd.at = "forge" /\ Len(sent) \in Nat
      /\ UNCHANGED <<chainVars, sourceVars, boundVars>>
      /\ UNCHANGED <<latest, head, retained, journal, evidence, verified>>
  <2>1. CommandTyped(cmd, Len(sent)) /\ IsCommand(cmd) /\ tree \in Builds /\ Len(sent) \in Nat
    BY DEF TypeInv, ChainTypeOK, FilesTyped, IInv, Shapes
  <2> QED
    BY <2>1 DEF CommandTyped, runForgeScript, unchangedFiles, unchangedOthers
<1>2. PICK script :
        /\ script = CASE cmd.kind = "deploy" -> DeployScript(ProxyOrder, HelperOrder, Policy, Len(sent), tree)
                      [] cmd.kind = "missing" -> MissingScript(cmd.request, cmd.source, Len(sent), tree)
                      [] cmd.kind = "upgrade" -> UpgradeScript(cmd.request[1], cmd.source, Len(sent), tree)
                      [] OTHER -> TokenScript(cmd.source)
        /\ cmd' = [cmd EXCEPT !.at = "broadcast", !.base = Len(sent), !.script = script]
  BY DEF runForgeScript
<1>3. cmd.kind \in {"deploy", "missing", "upgrade", "tokens"}
  BY <1>1 DEF IInv, StartInv, KindMatches, Sending
<1>4. script \in Seq(Transactions)
  <2>1. CASE cmd.kind = "deploy"
    <3>1. Deployable(ProxyOrder, HelperOrder) /\ Range(ProxyOrder) = ProxyNames
      BY ReleaseAssumption DEF Deployable, ProxyNames, HelperNames, Range
    <3>2. Policy \in BOOLEAN /\ (Policy => "SPRegistry" \in Range(ProxyOrder))
          /\ {"PoRepMarket", "DataCapEvidenceAdapter"} \subseteq Range(ProxyOrder)
      BY <3>1, DeploymentAssumption
    <3>3. DeployScript(ProxyOrder, HelperOrder, Policy, Len(sent), tree) \in Seq(Transactions)
      BY <1>1, <3>1, <3>2, DeployScriptTyped
    <3> QED
      BY <1>2, <2>1, <3>3
  <2>2. CASE cmd.kind = "missing"
    <3>1. cmd.request \in Missing /\ exists(cmd.source)
      BY <1>1, <2>2 DEF CommandTyped, Started
    <3>2. MissingScript(cmd.request, cmd.source, Len(sent), tree) \in Seq(Transactions)
      BY <1>1, <3>1, MissingScriptTyped
    <3> QED
      BY <1>2, <2>2, <3>2
  <2>3. CASE cmd.kind = "upgrade"
    <3>1. /\ cmd.request[1] \in Seq(UpgradeTargets) /\ exists(cmd.source)
          /\ \A i \in DOMAIN cmd.request[1] : cmd.request[1][i] \in recorded(cmd.source)
      BY <1>1, <2>3 DEF CommandTyped, Started
    <3>2. UpgradeScript(cmd.request[1], cmd.source, Len(sent), tree) \in Seq(Transactions)
      BY <1>1, <3>1, UpgradeScriptTyped
    <3> QED
      BY <1>2, <2>3, <3>2
  <2>4. CASE cmd.kind = "tokens"
    <3>1. "SPRegistry" \in recorded(cmd.source)
      BY <1>1, <2>4 DEF CommandTyped
    <3>2. TokenScript(cmd.source) \in Seq(Transactions)
      BY <1>1, <3>1, TokenScriptTyped
    <3> QED
      BY <1>2, <2>4, <3>2
  <2> QED
    BY <1>3, <2>1, <2>2, <2>3, <2>4
<1>5. /\ cmd'.at = "broadcast" /\ cmd'.kind = cmd.kind /\ cmd'.operation = cmd.operation
      /\ cmd'.request = cmd.request /\ cmd'.source = cmd.source /\ cmd'.pending = cmd.pending
      /\ cmd'.receipts = cmd.receipts /\ cmd'.base = Len(sent) /\ cmd'.script = script
  BY <1>1, <1>2 DEF IsCommand
<1>6. Len(sent) \in 0 .. Len(sent)
  BY <1>1
<1>7. CommandTyped(cmd', Len(sent))
  BY <1>1, <1>4, <1>5, <1>6 DEF CommandTyped, Steps
<1> QED
  BY <1>1, <1>7, CommandMovesTyped

\* The chain moves, the command waits.
LEMMA ChainMovesTyped ==
  ASSUME TypeInv, ChainTypeOK', Len(sent) <= Len(sent'), Len(sent') \in Nat,
         UNCHANGED <<sourceVars, cmd, boundVars>>,
         UNCHANGED <<latest, head, retained, journal, evidence, verified>>
  PROVE  TypeInv'
<1>1. 0 .. Len(sent) \subseteq 0 .. Len(sent')
  BY DEF TypeInv, ChainTypeOK
<1>2. CommandTyped(cmd, Len(sent'))
  BY <1>1 DEF CommandTyped, TypeInv
<1>3. CommandTyped(cmd', Len(sent'))
  BY <1>2
<1> QED
  BY <1>3 DEF TypeInv, sourceVars, boundVars, FilesTyped, BoundsTyped

LEMMA BlockTyped ==
  ASSUME ChainTypeOK, ChainAssumption, NEW ok \in Outcomes, blocks' = Append(blocks, [hash |-> reorgs, ok |-> ok])
  PROVE  blocks' \in Seq([hash : Nat, ok : BOOLEAN]) /\ Len(blocks') = Len(blocks) + 1 /\ Len(blocks) \in Nat
<1>1. [hash |-> reorgs, ok |-> ok] \in [hash : Nat, ok : BOOLEAN]
  BY DEF ChainTypeOK, ChainAssumption
<1> DEFINE Block == [hash : Nat, ok : BOOLEAN]
<1>2. PICK b \in Block : b = [hash |-> reorgs, ok |-> ok]
  BY <1>1
<1>3. blocks \in Seq(Block) /\ blocks' = Append(blocks, b)
  BY <1>2 DEF ChainTypeOK
<1> HIDE DEF Block
<1>4. blocks' \in Seq(Block) /\ Len(blocks') = Len(blocks) + 1 /\ Len(blocks) \in Nat
  BY <1>3
<1> QED
  BY <1>4 DEF Block

LEMMA BroadcastTyped == ASSUME TypeInv, broadcast PROVE TypeInv'
<1>1. /\ cmd.at = "broadcast" /\ sentByScript \in 0 .. Len(cmd.script) - 1
      /\ SendAndMine(cmd.script[sentByScript + 1])
      /\ UNCHANGED <<sourceVars, cmd, boundVars>>
      /\ UNCHANGED <<latest, head, retained, journal, evidence, verified>>
  BY DEF broadcast, unchangedFiles
<1>2. ChainTypeOK /\ CommandTyped(cmd, Len(sent))
  BY DEF TypeInv
<1>3. cmd.script \in Seq(Transactions)
  BY <1>1, <1>2 DEF CommandTyped
<1>4. cmd.script[sentByScript + 1] \in Transactions
  BY <1>1, <1>3
<1>5. PICK transaction \in Transactions : transaction = cmd.script[sentByScript + 1]
  BY <1>4
<1>6. PICK ok \in Outcomes :
        /\ Len(blocks) = Len(sent) /\ sent' = Append(sent, transaction)
        /\ blocks' = Append(blocks, [hash |-> reorgs, ok |-> ok])
        /\ UNCHANGED <<final, reorgs>>
  BY <1>1, <1>5 DEF SendAndMine
<1>7. sent' \in Seq(Transactions) /\ Len(sent') = Len(sent) + 1 /\ Len(sent) \in Nat
  BY <1>2, <1>6 DEF ChainTypeOK
<1>8. blocks' \in Seq([hash : Nat, ok : BOOLEAN]) /\ Len(blocks') = Len(blocks) + 1 /\ Len(blocks) \in Nat
  BY <1>2, <1>6, BlockTyped, ChainAssumption
<1>9. ChainTypeOK'
  BY <1>2, <1>6, <1>7, <1>8 DEF ChainTypeOK
<1> QED
  BY <1>1, <1>7, <1>9, ChainMovesTyped

LEMMA ChainAloneTyped == ASSUME TypeInv, chainAlone PROVE TypeInv'
<1>1. /\ UNCHANGED <<sourceVars, cmd, boundVars>>
      /\ UNCHANGED <<latest, head, retained, journal, evidence, verified>>
      /\ ChainTypeOK /\ Len(sent) \in Nat /\ UNCHANGED sent
  BY DEF chainAlone, unchangedFiles, TypeInv, ChainTypeOK, MineAgain, Reorganize, FinalizeHeight
<1>2. CASE MineAgain
  <2>1. PICK ok \in Outcomes :
          /\ Len(blocks) < Len(sent) /\ UNCHANGED <<final, reorgs>>
          /\ blocks' = Append(blocks, [hash |-> reorgs, ok |-> ok])
    BY <1>2 DEF MineAgain
  <2>2. blocks' \in Seq([hash : Nat, ok : BOOLEAN]) /\ Len(blocks') = Len(blocks) + 1 /\ Len(blocks) \in Nat
    BY <1>1, <2>1, BlockTyped, ChainAssumption
  <2>3. ChainTypeOK'
    BY <1>1, <2>1, <2>2 DEF ChainTypeOK
  <2> QED
    BY <1>1, <2>3, ChainMovesTyped
<1>3. CASE Reorganize
  <2>1. PICK n \in final .. Len(blocks) - 1 :
          reorgs < MaxReorgs /\ blocks' = SubSeq(blocks, 1, n) /\ reorgs' = reorgs + 1 /\ UNCHANGED final
    BY <1>3 DEF Reorganize
  <2> DEFINE Block == [hash : Nat, ok : BOOLEAN]
  <2>2. blocks \in Seq(Block) /\ final \in 0 .. Len(blocks) /\ Len(blocks) \in Nat /\ Len(blocks) <= Len(sent)
    BY <1>1 DEF ChainTypeOK
  <2> HIDE DEF Block
  <2>3. blocks' \in Seq(Block) /\ Len(blocks') = n /\ n <= Len(sent) /\ final \in 0 .. n
    BY <1>1, <2>1, <2>2
  <2>4. reorgs' \in 0 .. MaxReorgs
    BY <1>1, <2>1, ChainAssumption DEF ChainTypeOK
  <2>5. ChainTypeOK'
    BY <1>1, <2>1, <2>3, <2>4 DEF ChainTypeOK, Block
  <2> QED
    BY <1>1, <2>5, ChainMovesTyped
<1>4. CASE FinalizeHeight
  <2>1. final' \in final + 1 .. Len(blocks) /\ UNCHANGED <<blocks, reorgs>>
    BY <1>4 DEF FinalizeHeight
  <2>2. ChainTypeOK'
    BY <1>1, <2>1 DEF ChainTypeOK
  <2> QED
    BY <1>1, <2>2, ChainMovesTyped
<1> QED
  BY <1>2, <1>3, <1>4 DEF chainAlone

LEMMA ForgeTyped == ASSUME IInv, TypeInv, forgeSucceeds \/ forgeFails PROVE TypeInv'
<1>1. /\ CommandTyped(cmd, Len(sent)) /\ IsCommand(cmd) /\ cmd.at = "broadcast"
      /\ UNCHANGED <<chainVars, sourceVars, boundVars>>
      /\ UNCHANGED <<latest, head, retained, journal, evidence, verified>>
  <2>1. CommandTyped(cmd, Len(sent)) /\ IsCommand(cmd)
    BY DEF TypeInv, IInv, Shapes
  <2> QED
    BY <2>1 DEF forgeSucceeds, forgeFails, unchangedFiles, unchangedOthers
<1>2. broadcastFile \in Broadcast
  <2>1. cmd.base \in 0 .. Len(sent) /\ cmd.script \in Seq(Transactions) /\ Len(sent) \in Nat
    BY <1>1 DEF CommandTyped, TypeInv, ChainTypeOK
  <2>2. Len(cmd.script) \in Nat /\ cmd.base \in Nat /\ sentByScript \in Nat
    BY <2>1 DEF sentByScript
  <2> QED
    BY <2>2 DEF broadcastFile, Broadcast
<1>3. CASE cmd' = NoCommand
  BY <1>1, <1>3, StopsTyped
<1>4. ASSUME NEW step \in {"record", "receipts"}, NEW failed,
             \/ cmd' = [cmd EXCEPT !.at = step, !.script = <<>>, !.file = broadcastFile]
             \/ cmd' = [cmd EXCEPT !.at = step, !.script = <<>>, !.file = broadcastFile, !.failed = failed]
      PROVE  TypeInv'
  <2>1. /\ cmd'.at = step /\ cmd'.kind = cmd.kind /\ cmd'.operation = cmd.operation
        /\ cmd'.request = cmd.request /\ cmd'.source = cmd.source /\ cmd'.pending = cmd.pending
        /\ cmd'.receipts = cmd.receipts /\ cmd'.base = cmd.base /\ cmd'.file = broadcastFile
    BY <1>1, <1>4 DEF IsCommand
  <2>2. CommandTyped(cmd', Len(sent))
    BY <1>1, <1>2, <2>1 DEF CommandTyped, Steps
  <2> QED
    BY <1>1, <2>2, CommandMovesTyped
<1>5. CASE forgeSucceeds
  <2>1. PICK step \in {"record", "receipts"} :
          cmd' = [cmd EXCEPT !.at = step, !.script = <<>>, !.file = broadcastFile]
    BY <1>5 DEF forgeSucceeds
  <2> QED
    BY <1>4, <2>1
<1>6. CASE forgeFails
  <2>1. \/ cmd' = NoCommand
        \/ cmd' = [cmd EXCEPT !.at = "record", !.script = <<>>, !.file = broadcastFile, !.failed = TRUE]
    BY <1>6 DEF forgeFails
  <2> QED
    BY <1>3, <1>4, <2>1
<1> QED
  BY <1>5, <1>6

\* What the journal says of an upgrade or a deployment once it is recorded.
LEMMA RecordedTyped ==
  ASSUME IInv, TypeInv, cmd.at = "recordJournal"
  PROVE  PendingTyped(recordedPending)
<1>1. /\ CommandTyped(cmd, Len(sent)) /\ Len(sent) \in Nat
      /\ cmd.kind \in {"deploy", "missing", "upgrade"} /\ cmd.build \in Builds
  <2>1. CommandTyped(cmd, Len(sent)) /\ Len(sent) \in Nat
    BY DEF TypeInv, ChainTypeOK
  <2>2. cmd.kind # "tokens"
    BY DEF IInv, TokensInv
  <2> QED
    BY <2>1, <2>2 DEF IInv, StartInv, KindMatches, FreshPending, Sending
<1>2. /\ cmd.base \in Nat /\ cmd.file \in Broadcast \cup {None}
      /\ PendingTyped(cmd.pending) /\ cmd.pending \in PendingOperation /\ IsTyped(cmd.source)
  <2>1. cmd.base \in Nat /\ cmd.file \in Broadcast \cup {None} /\ PendingTyped(cmd.pending) /\ IsTyped(cmd.source)
    BY <1>1 DEF CommandTyped
  <2> QED
    BY <2>1 DEF PendingTyped
<1>3. CASE cmd.kind = "upgrade"
  <2> DEFINE operations == UpgradeOperations(cmd.request[1], cmd.request[2], cmd.base)
  <2>1. /\ cmd.request[1] \in Seq(UpgradeTargets) /\ cmd.request[2] \in Artifacts
        /\ \A i \in DOMAIN cmd.request[1] : cmd.request[1][i] \in recorded(cmd.source)
        /\ cmd.pending.previous = cmd.source /\ exists(cmd.source)
    BY <1>1, <1>3 DEF CommandTyped, Started
  <2>2. /\ operations \in Seq(UpgradeOperation) /\ DOMAIN operations = DOMAIN cmd.request[1]
        /\ \A i \in DOMAIN operations : operations[i].target = cmd.request[1][i]
    BY <1>2, <2>1, OperationsMade
  <2>3. recordedPending = [cmd.pending EXCEPT !.broadcast = cmd.file, !.operations = operations]
    BY <1>3 DEF recordedPending
  <2> HIDE DEF operations
  <2>4. PICK p : p = recordedPending
    OBVIOUS
  <2>5. /\ p \in PendingOperation /\ p.operations = operations /\ p.previous = cmd.pending.previous
        /\ p.result = cmd.pending.result /\ p.resultManifest = cmd.pending.resultManifest
        /\ p.status = cmd.pending.status /\ p.release = cmd.pending.release
    BY <1>2, <2>2, <2>3, <2>4 DEF PendingOperation
  <2>6. PendingTyped(p)
    BY <1>2, <2>1, <2>2, <2>5 DEF PendingTyped, exists
  <2> QED
    BY <2>4, <2>6
<1>4. CASE cmd.kind # "upgrade"
  <2>1. PICK result : result = IF cmd.kind = "missing" THEN recordDeployMissing ELSE recordedDeploy
    OBVIOUS
  <2>2. IsTyped(result)
    <3>1. CASE cmd.kind = "missing"
      <4>1. cmd.request \in Missing /\ exists(cmd.source)
        BY <1>1, <3>1 DEF CommandTyped, Started
      <4>2. IsTyped(recordDeployMissing)
        BY <1>1, <1>2, <4>1, MergedManifests DEF recordDeployMissing
      <4> QED
        BY <2>1, <3>1, <4>2
    <3>2. CASE cmd.kind # "missing"
      <4>1. IsTyped(recordedDeploy)
        BY <1>1, <1>2, RecordedManifests DEF recordedDeploy
      <4> QED
        BY <2>1, <3>2, <4>1
    <3> QED
      BY <3>1, <3>2
  <2>3. recordedPending = [cmd.pending EXCEPT !.broadcast = cmd.file, !.result = result]
    BY <1>4, <2>1 DEF recordedPending
  <2>4. PICK p : p = recordedPending
    OBVIOUS
  <2>5. /\ p \in PendingOperation /\ p.operations = cmd.pending.operations
        /\ p.previous = cmd.pending.previous /\ p.result = result
        /\ p.resultManifest = cmd.pending.resultManifest
        /\ p.status = cmd.pending.status /\ p.release = cmd.pending.release
    BY <1>2, <2>2, <2>3, <2>4 DEF PendingOperation, IsTyped
  <2>6. PendingTyped(p)
    BY <1>2, <2>2, <2>5 DEF PendingTyped, IsTyped, exists
  <2> QED
    BY <2>4, <2>6
<1> QED
  BY <1>3, <1>4

LEMMA RecordTyped == ASSUME IInv, TypeInv, recordBroadcast \/ recordJournal PROVE TypeInv'
<1>1. /\ CommandTyped(cmd, Len(sent)) /\ IsCommand(cmd)
      /\ UNCHANGED <<chainVars, sourceVars, boundVars>> /\ UNCHANGED <<latest, head, retained, verified>>
  <2>1. CommandTyped(cmd, Len(sent)) /\ IsCommand(cmd)
    BY DEF TypeInv, IInv, Shapes
  <2> QED
    BY <2>1 DEF recordBroadcast, recordJournal, unchangedOthers
<1>2. CASE recordBroadcast
  <2>1. /\ cmd.at = "record"
        /\ evidence' = [evidence EXCEPT ![cmd.operation] = [buildInfo |-> cmd.build, broadcast |-> cmd.file]]
        /\ cmd' = [cmd EXCEPT !.at = "recordJournal"] /\ UNCHANGED journal
    BY <1>2 DEF recordBroadcast
  <2>2. cmd.build \in Builds /\ cmd.file \in Broadcast
    BY <1>1, <2>1 DEF CommandTyped, IInv, TokensInv, StartInv, FreshPending, Sending
  <2>3. /\ cmd'.at = "recordJournal" /\ cmd'.kind = cmd.kind /\ cmd'.operation = cmd.operation
        /\ cmd'.request = cmd.request /\ cmd'.source = cmd.source /\ cmd'.pending = cmd.pending
        /\ cmd'.receipts = cmd.receipts /\ cmd'.base = cmd.base /\ cmd'.file = cmd.file
    BY <1>1, <2>1 DEF IsCommand
  <2>4. CommandTyped(cmd', Len(sent))
    BY <1>1, <2>1, <2>3 DEF CommandTyped, Steps
  <2>5. [buildInfo |-> cmd.build, broadcast |-> cmd.file]
          \in [buildInfo : Builds \cup {None}, broadcast : Broadcast \cup {None}]
    BY <2>2
  <2>6. evidence' \in [Operations -> [buildInfo : Builds \cup {None}, broadcast : Broadcast \cup {None}]]
    BY <2>1, <2>5 DEF TypeInv, FilesTyped
  <2> QED
    BY <1>1, <2>1, <2>4, <2>6
    DEF TypeInv, chainVars, sourceVars, boundVars, ChainTypeOK, FilesTyped, BoundsTyped
<1>3. CASE recordJournal
  <2>1. /\ cmd.at = "recordJournal" /\ UNCHANGED evidence
        /\ journal' = [journal EXCEPT ![cmd.operation] = recordedPending]
        /\ \/ cmd' = NoCommand
           \/ cmd' = [NoCommand EXCEPT !.at = "finalize", !.kind = "finalize", !.operation = cmd.operation]
    BY <1>3 DEF recordJournal
  <2>2. CommandTyped(cmd', Len(sent))
    <3>1. CASE cmd' = NoCommand
      BY <3>1, NoCommandTyped
    <3>2. CASE cmd' = [NoCommand EXCEPT !.at = "finalize", !.kind = "finalize", !.operation = cmd.operation]
      <4>1. /\ cmd'.at = "finalize" /\ cmd'.kind = "finalize" /\ cmd'.operation = cmd.operation
            /\ cmd'.source = NoManifest /\ cmd'.pending = NoJournal /\ cmd'.receipts \in Seq(Receipt)
        BY <3>2 DEF NoCommand
      <4>2. cmd.operation \in Operations \cup {"none"}
        BY <1>1 DEF CommandTyped
      <4> QED
        BY <4>1, <4>2, NothingTyped, IdleTyped DEF Steps
    <3> QED
      BY <2>1, <3>1, <3>2
  <2>3. PendingTyped(recordedPending)
    BY <2>1, RecordedTyped
  <2> HIDE DEF recordedPending
  <2> QED
    BY <1>1, <2>1, <2>2, <2>3, JournalMovesTyped
<1> QED
  BY <1>2, <1>3

LEMMA FinalizeTyped ==
  ASSUME TypeInv, NEW operation \in Operations, finalize(operation)
  PROVE  TypeInv'
<1> DEFINE p == journal[operation]
<1>1. /\ UNCHANGED <<chainVars, sourceVars, boundVars>>
      /\ UNCHANGED <<latest, head, retained, journal, evidence, verified>>
      /\ evidenceComplete(p) /\ PendingTyped(p) /\ IsTyped(latest)
  BY DEF finalize, unchangedFiles, unchangedOthers, TypeInv, FilesTyped
<1>2. CASE finalizePublished(operation)
  <2>1. /\ cmd'.at = "finish" /\ cmd'.kind = "finalize" /\ cmd'.operation = operation
        /\ cmd'.source = NoManifest /\ cmd'.pending = p /\ cmd'.receipts \in Seq(Receipt)
    BY <1>2 DEF finalizePublished, finalizeAs, NoCommand
  <2>2. CommandTyped(cmd', Len(sent))
    BY <1>1, <2>1, NothingTyped, IdleTyped DEF Steps
  <2> QED
    BY <1>1, <2>2, CommandMovesTyped
<1>3. CASE finalizeSource(operation)
  <2>1. /\ cmd'.at = "receipts" /\ cmd'.kind = "finalize" /\ cmd'.operation = operation
        /\ cmd'.source = latest /\ cmd'.pending = p /\ cmd'.file = p.broadcast
        /\ cmd'.receipts \in Seq(Receipt)
    BY <1>3 DEF finalizeSource, finalizeAs, NoCommand
  <2>2. p.broadcast \in Broadcast
    BY <1>1 DEF PendingTyped, PendingOperation, evidenceComplete
  <2>3. CommandTyped(cmd', Len(sent))
    BY <1>1, <2>1, <2>2 DEF CommandTyped, Steps, Started
  <2> QED
    BY <1>1, <2>3, CommandMovesTyped
<1> QED
  BY <1>2, <1>3 DEF finalize

LEMMA LoadReceiptsTyped ==
  ASSUME IInv, ReceiptInv, TypeInv, loadReceipts \/ waitForFilecoinFinality
  PROVE  TypeInv'
<1>1. /\ CommandTyped(cmd, Len(sent)) /\ IsCommand(cmd) /\ CommandGood(cmd', blocks', final', reorgs')
      /\ UNCHANGED <<chainVars, sourceVars, boundVars>>
      /\ UNCHANGED <<latest, head, retained, journal, evidence, verified>>
  <2>1. CommandTyped(cmd, Len(sent)) /\ IsCommand(cmd)
    BY DEF TypeInv, IInv, Shapes
  <2>2. CommandGood(cmd', blocks', final', reorgs')
    BY LoadReceiptsFinal DEF ReceiptInv
  <2> QED
    BY <2>1, <2>2 DEF loadReceipts, waitForFilecoinFinality, unchangedFiles, unchangedOthers
<1>2. CASE loadReceipts
  <2>1. PICK receipts : cmd' = [cmd EXCEPT !.at = "finality", !.file = None, !.receipts = receipts]
    BY <1>2 DEF loadReceipts
  <2>2. /\ cmd'.at = "finality" /\ cmd'.kind = cmd.kind /\ cmd'.operation = cmd.operation
        /\ cmd'.request = cmd.request /\ cmd'.source = cmd.source /\ cmd'.pending = cmd.pending
    BY <1>1, <2>1 DEF IsCommand
  <2>3. cmd'.receipts \in Seq(Receipt)
    BY <1>1, <2>2 DEF CommandGood, HeldReceipts, DistinctReceipts
  <2>4. cmd.at = "receipts"
    BY <1>2 DEF loadReceipts
  <2>5. CommandTyped(cmd', Len(sent))
    BY <1>1, <2>2, <2>3, <2>4 DEF CommandTyped, Steps
  <2> QED
    BY <1>1, <2>5, CommandMovesTyped
<1>3. CASE waitForFilecoinFinality
  <2>1. cmd.at = "finality" /\ cmd' = [cmd EXCEPT !.at = IF cmd.kind = "tokens" THEN "tokens" ELSE "live"]
    BY <1>3 DEF waitForFilecoinFinality
  <2>2. /\ cmd'.at \in {"tokens", "live"} /\ cmd'.kind = cmd.kind /\ cmd'.operation = cmd.operation
        /\ cmd'.request = cmd.request /\ cmd'.source = cmd.source /\ cmd'.pending = cmd.pending
        /\ cmd'.receipts = cmd.receipts
    BY <1>1, <2>1 DEF IsCommand
  <2>3. CommandTyped(cmd', Len(sent))
    BY <1>1, <2>1, <2>2, MovesOn DEF Steps
  <2> QED
    BY <1>1, <2>3, CommandMovesTyped
<1> QED
  BY <1>2, <1>3

LEMMA CheckLiveTyped == ASSUME IInv, TypeInv, checkLive PROVE TypeInv'
<1>1. /\ CommandTyped(cmd, Len(sent)) /\ IsCommand(cmd)
      /\ UNCHANGED <<chainVars, sourceVars, boundVars>>
      /\ UNCHANGED <<latest, head, retained, evidence, verified>>
  <2>1. CommandTyped(cmd, Len(sent)) /\ IsCommand(cmd)
    BY DEF TypeInv, IInv, Shapes
  <2> QED
    BY <2>1 DEF checkLive, unchangedOthers
<1>2. /\ cmd.at = "live"
      /\ journal' = [journal EXCEPT ![cmd.operation] = CheckedPending]
      /\ cmd' = [cmd EXCEPT !.at = "retain", !.source = NoManifest, !.receipts = <<>>,
                            !.pending = CheckedPending]
  BY DEF checkLive, CheckedPending
<1>3. /\ Underway /\ (cmd.operation = "upgrade" => cmd.source = cmd.pending.previous)
  BY <1>2 DEF IInv, FinalizeInv, TokensInv, Checking
<1>4. /\ PendingTyped(cmd.pending) /\ cmd.receipts \in Seq(Receipt)
      /\ cmd.kind = "finalize" /\ evidenceComplete(cmd.pending)
      /\ cmd.pending.operation = cmd.operation
  <2>1. cmd.pending.operation = cmd.operation
    BY <1>3 DEF IInv, JournalInv, JournalOf, Underway, unfinished, exists
  <2> QED
    BY <1>1, <1>3, <2>1 DEF CommandTyped, Underway
<1>5. IsTyped(publishedManifest)
  <2>1. CASE cmd.operation = "upgrade"
    <3>1. cmd.pending.operations # <<>>
      BY <1>4, <2>1 DEF evidenceComplete
    <3>2. publishedManifest = renderUpgradedManifest(cmd.pending.previous, cmd.pending, cmd.receipts)
      BY <1>3, <2>1 DEF publishedManifest
    <3> QED
      BY <1>4, <3>1, <3>2, UpgradedManifests
  <2>2. CASE cmd.operation # "upgrade"
    <3>1. cmd.operation = "deploy"
      BY <1>3, <2>2 DEF Underway, Operations
    <3>2. exists(cmd.pending.result) /\ IsTyped(cmd.pending.result)
      BY <1>4, <3>1 DEF evidenceComplete, PendingTyped, PendingOperation, IsTyped
    <3>3. cmd.pending.result.transactions \in Seq(Receipt)
      BY <3>2, ManifestFields DEF IsTyped
    <3>4. PICK transactions \in Seq(Receipt) :
            transactions = mergeTransactions(cmd.pending.result.transactions, cmd.receipts)
      BY <1>4, <3>3, MergedTyped
    <3>5. publishedManifest = [cmd.pending.result EXCEPT !.status = "finalized", !.transactions = transactions]
      BY <2>2, <3>4 DEF publishedManifest
    <3> QED
      BY <3>2, <3>5, FinishedManifests
  <2> QED
    BY <2>1, <2>2
<1>6. PendingTyped(CheckedPending)
  <2>1. PICK m : m = publishedManifest
    OBVIOUS
  <2>2. PICK result \in {m, NoManifest} :
          CheckedPending = [cmd.pending EXCEPT !.result = result, !.resultManifest = m]
    BY <2>1 DEF CheckedPending
  <2>3. PICK p : p = CheckedPending
    OBVIOUS
  <2>4. IsTyped(m) /\ IsTyped(result)
    BY <1>5, <2>1, <2>2, NothingTyped
  <2>5. /\ p \in PendingOperation /\ p.operations = cmd.pending.operations
        /\ p.previous = cmd.pending.previous /\ p.result = result /\ p.resultManifest = m
        /\ p.status = cmd.pending.status /\ p.release = cmd.pending.release
    <3>1. cmd.pending \in PendingOperation /\ m \in Manifest /\ result \in Manifest
      BY <1>4, <2>4 DEF PendingTyped, IsTyped
    <3> QED
      BY <2>2, <2>3, <3>1 DEF PendingOperation
  <2>6. PendingTyped(p)
    BY <1>4, <2>4, <2>5 DEF PendingTyped, IsTyped, exists
  <2> QED
    BY <2>3, <2>6
<1> HIDE DEF CheckedPending
<1>7. /\ cmd'.at = "retain" /\ cmd'.kind = "finalize" /\ cmd'.operation = cmd.operation
      /\ cmd'.source = NoManifest /\ cmd'.pending = CheckedPending /\ cmd'.receipts = <<>>
  BY <1>1, <1>2, <1>4 DEF IsCommand
<1>8. CommandTyped(cmd', Len(sent))
  <2>1. cmd.operation \in Operations /\ <<>> \in Seq(Receipt)
    BY <1>3 DEF Underway
  <2> QED
    BY <1>6, <1>7, <2>1, NothingTyped, IdleTyped DEF Steps
<1> QED
  BY <1>1, <1>2, <1>6, <1>8, JournalMovesTyped

LEMMA PublishTyped ==
  ASSUME IInv, TypeInv, publishBuildInfo \/ publishManifest \/ pruneBuildInfo
  PROVE  TypeInv'
<1>1. /\ CommandTyped(cmd, Len(sent)) /\ IsCommand(cmd) /\ PendingTyped(cmd.pending)
      /\ UNCHANGED <<chainVars, sourceVars, boundVars>>
      /\ UNCHANGED <<head, journal, evidence, verified>>
  <2>1. CommandTyped(cmd, Len(sent)) /\ IsCommand(cmd)
    BY DEF TypeInv, IInv, Shapes
  <2>2. PendingTyped(cmd.pending)
    BY <2>1 DEF CommandTyped
  <2> QED
    BY <2>1, <2>2 DEF publishBuildInfo, publishManifest, pruneBuildInfo, unchangedOthers
<1>2. PICK step \in {"latest", "prune", "verify", "finish"} :
        cmd' = [cmd EXCEPT !.at = step] /\ cmd.at \in {"retain", "latest", "prune"}
  BY DEF publishBuildInfo, publishManifest, pruneBuildInfo
<1>3. /\ cmd'.at = step /\ cmd'.kind = cmd.kind /\ cmd'.operation = cmd.operation
      /\ cmd'.request = cmd.request /\ cmd'.source = cmd.source /\ cmd'.pending = cmd.pending
      /\ cmd'.receipts = cmd.receipts
  BY <1>1, <1>2 DEF IsCommand
<1>4. CommandTyped(cmd', Len(sent))
  BY <1>1, <1>2, <1>3, MovesOn DEF Steps
<1>5. IsTyped(latest')
  <2>1. IsTyped(cmd.pending.resultManifest)
    BY <1>1 DEF PendingTyped, PendingOperation, IsTyped
  <2> QED
    BY <2>1 DEF publishBuildInfo, publishManifest, pruneBuildInfo, TypeInv, FilesTyped
<1>6. retained' \subseteq Builds
  <2>1. CASE publishBuildInfo
    <3>1. exists(cmd.pending)
      BY <2>1 DEF publishBuildInfo, IInv, FinalizeInv, Underway, evidenceComplete
    <3>2. cmd.pending.release \in Builds
      BY <1>1, <3>1 DEF PendingTyped
    <3> QED
      BY <2>1, <3>2 DEF publishBuildInfo, TypeInv, FilesTyped
  <2>2. CASE publishManifest \/ pruneBuildInfo
    BY <2>2 DEF publishManifest, pruneBuildInfo, TypeInv, FilesTyped
  <2> QED
    BY <2>1, <2>2
<1> QED
  BY <1>1, <1>4, <1>5, <1>6
  DEF TypeInv, chainVars, sourceVars, boundVars, ChainTypeOK, FilesTyped, BoundsTyped

LEMMA FinishTyped == ASSUME IInv, TypeInv, finishPending PROVE TypeInv'
<1>1. /\ CommandTyped(cmd, Len(sent)) /\ IsCommand(cmd) /\ PendingTyped(cmd.pending) /\ cmd.at = "finish"
      /\ UNCHANGED <<chainVars, sourceVars, boundVars>>
      /\ UNCHANGED <<latest, head, retained, evidence, verified>>
  <2>1. CommandTyped(cmd, Len(sent)) /\ IsCommand(cmd)
    BY DEF TypeInv, IInv, Shapes
  <2>2. PendingTyped(cmd.pending)
    BY <2>1 DEF CommandTyped
  <2> QED
    BY <2>1, <2>2 DEF finishPending, unchangedOthers
<1>2. PICK step \in {"verify", "prune"} : cmd' = [cmd EXCEPT !.at = step]
  BY DEF finishPending
<1>3. /\ cmd'.at = step /\ cmd'.kind = cmd.kind /\ cmd'.operation = cmd.operation
      /\ cmd'.request = cmd.request /\ cmd'.source = cmd.source /\ cmd'.pending = cmd.pending
      /\ cmd'.receipts = cmd.receipts
  BY <1>1, <1>2 DEF IsCommand
<1>4. CommandTyped(cmd', Len(sent))
  BY <1>1, <1>2, <1>3, MovesOn DEF Steps
<1>5. PICK finished : finished = [cmd.pending EXCEPT !.status = "finalized"]
  OBVIOUS
<1>6. /\ finished \in PendingOperation /\ finished.operations = cmd.pending.operations
      /\ finished.previous = cmd.pending.previous /\ finished.result = cmd.pending.result
      /\ finished.resultManifest = cmd.pending.resultManifest /\ finished.release = cmd.pending.release
  <2>1. cmd.pending \in PendingOperation
    BY <1>1 DEF PendingTyped
  <2> QED
    BY <1>5, <2>1 DEF PendingOperation
<1>7. exists(cmd.pending)
  BY <1>1 DEF IInv, FinalizeInv
<1>8. PendingTyped(finished)
  BY <1>1, <1>6, <1>7 DEF PendingTyped
<1>9. journal' = [journal EXCEPT ![cmd.operation] = finished]
  BY <1>5 DEF finishPending
<1> QED
  BY <1>1, <1>4, <1>8, <1>9, JournalMovesTyped

LEMMA TokensTyped == ASSUME IInv, TypeInv, updatePaymentTokens PROVE TypeInv'
<1>1. /\ CommandTyped(cmd, Len(sent)) /\ cmd.at = "tokens" /\ cmd' = NoCommand
      /\ latest' = applyPaymentTokenPolicy(cmd.source, cmd.receipts)
      /\ UNCHANGED <<chainVars, sourceVars, boundVars>>
      /\ UNCHANGED <<head, retained, journal, evidence, verified>>
  BY DEF TypeInv, updatePaymentTokens, unchangedOthers
<1>2. IsTyped(cmd.source) /\ cmd.receipts \in Seq(Receipt) /\ exists(cmd.source) /\ "SPRegistry" \in Names
  BY <1>1 DEF CommandTyped, IInv, FinalizeInv, TokensInv, recorded
<1>3. cmd.source.transactions \in Seq(Receipt)
  BY <1>2, ManifestFields DEF IsTyped
<1>4. PICK transactions \in Seq(Receipt) :
        transactions = mergeTransactions(cmd.source.transactions, cmd.receipts)
  BY <1>2, <1>3, MergedTyped
<1>5. latest' = [cmd.source EXCEPT !.tokens = TRUE, !.transactions = transactions]
  BY <1>1, <1>4 DEF applyPaymentTokenPolicy
<1>6. IsTyped(latest')
  BY <1>2, <1>5, FinishedManifests
<1> QED
  BY <1>1, <1>6, NoCommandTyped
  DEF TypeInv, chainVars, sourceVars, boundVars, ChainTypeOK, FilesTyped, BoundsTyped

\* Addresses of a manifest are numbers.
LEMMA TargetsAreAddresses ==
  ASSUME NEW m, IsTyped(m)
  PROVE  sourceVerificationTargets(m) \subseteq Nat
<1>1. \A name \in recorded(m) : m.contracts[name].address \in Nat /\ m.contracts[name].implementation \in Nat
  BY ManifestFields, AddressOf DEF IsTyped
<1> QED
  BY <1>1 DEF sourceVerificationTargets

LEMMA OthersTyped ==
  ASSUME IInv, TypeInv, refuse \/ crash \/ verifySources \/ people \/ chainAlone \/ UNCHANGED vars
  PROVE  TypeInv'
<1>1. CASE refuse
  <2>1. /\ cmd' = NoCommand /\ UNCHANGED <<chainVars, sourceVars, boundVars>>
        /\ UNCHANGED <<latest, head, retained, journal, evidence, verified>>
    BY <1>1 DEF refuse, unchangedFiles, unchangedOthers
  <2> QED
    BY <2>1, StopsTyped
<1>2. CASE crash
  <2>1. /\ cmd' = NoCommand /\ UNCHANGED <<chainVars, sourceVars, starts, edits>>
        /\ UNCHANGED <<latest, head, retained, journal, evidence, verified>>
        /\ crashes' = crashes + 1 /\ crashes + edits < MaxMishaps
    BY <1>2 DEF crash, unchangedFiles
  <2>2. BoundsTyped'
    BY <2>1, DeploymentAssumption DEF TypeInv, BoundsTyped
  <2> QED
    BY <2>1, <2>2, NoCommandTyped DEF TypeInv, chainVars, sourceVars, ChainTypeOK, FilesTyped
<1>3. CASE verifySources
  <2>1. /\ cmd' = NoCommand /\ UNCHANGED <<chainVars, sourceVars, boundVars>>
        /\ UNCHANGED <<latest, head, retained, journal, evidence>>
        /\ verified' = verified \cup {address \in submitted(latest) : sourceMatches(address)}
    BY <1>3 DEF verifySources, unchangedOthers
  <2>2. submitted(latest) \subseteq Nat /\ verified \subseteq Nat
    BY TargetsAreAddresses DEF submitted, TypeInv, FilesTyped
  <2>3. verified' \subseteq Nat
    BY <2>1, <2>2
  <2> QED
    BY <2>1, <2>3, NoCommandTyped
    DEF TypeInv, chainVars, sourceVars, boundVars, ChainTypeOK, FilesTyped, BoundsTyped
<1>4. CASE editSources \/ commitSources \/ commitManifest
  <2>1. /\ UNCHANGED <<chainVars, boundVars, cmd>>
        /\ UNCHANGED <<latest, retained, journal, evidence, verified>>
        /\ tree' \in Builds /\ committed' \in Builds /\ head' \in Manifest
    BY <1>4 DEF editSources, commitSources, commitManifest, unchangedFiles, sourceVars, TypeInv, FilesTyped, IsTyped
  <2> QED
    BY <2>1 DEF TypeInv, chainVars, boundVars, ChainTypeOK, FilesTyped, BoundsTyped
<1>5. CASE editManifest
  <2>1. /\ UNCHANGED <<chainVars, sourceVars, cmd, retained, journal, evidence, verified, starts, crashes>>
        /\ latest' = [latest EXCEPT !.revision = @ + 1] /\ head' = latest'
        /\ edits < MaxEdits /\ crashes + edits < MaxMishaps /\ edits' = edits + 1 /\ exists(latest)
    BY <1>5 DEF editManifest
  <2>2. IsTyped(latest)
    BY DEF TypeInv, FilesTyped
  <2>3. latest' \in Manifest /\ latest'.contracts = latest.contracts /\ latest'.tokens = latest.tokens
    BY <2>1, <2>2 DEF IsTyped, Manifest
  <2>4. IsTyped(latest') /\ head' \in Manifest
    <3>1. recorded(latest') = recorded(latest)
      BY <2>3 DEF recorded
    <3> QED
      BY <2>1, <2>2, <2>3, <3>1 DEF IsTyped, Complete
  <2>5. BoundsTyped'
    BY <2>1, DeploymentAssumption DEF TypeInv, BoundsTyped
  <2> QED
    BY <2>1, <2>4, <2>5 DEF TypeInv, chainVars, sourceVars, ChainTypeOK, FilesTyped
<1>6. CASE chainAlone
  BY <1>6, ChainAloneTyped
<1>7. CASE UNCHANGED vars
  BY <1>7 DEF vars, TypeInv, chainVars, sourceVars, boundVars, ChainTypeOK, FilesTyped, BoundsTyped
<1> QED
  BY <1>1, <1>2, <1>3, <1>4, <1>5, <1>6, <1>7 DEF people

LEMMA TypesKept == IInv /\ ReceiptInv /\ TypeInv /\ [Next]_vars => TypeInv'
<1> SUFFICES ASSUME IInv, ReceiptInv, TypeInv, [Next]_vars PROVE TypeInv'
  OBVIOUS
<1>1. CASE startCommand
  BY <1>1, StartTyped
<1>2. CASE buildContracts \/ retainBuildInfo \/ retainPendingStart
  BY <1>2, PrepareTyped
<1>3. CASE runForgeScript
  BY <1>3, RunForgeTyped
<1>4. CASE broadcast
  BY <1>4, BroadcastTyped
<1>5. CASE forgeSucceeds \/ forgeFails
  BY <1>5, ForgeTyped
<1>6. CASE recordBroadcast \/ recordJournal
  BY <1>6, RecordTyped
<1>7. CASE loadReceipts \/ waitForFilecoinFinality
  BY <1>7, LoadReceiptsTyped
<1>8. CASE checkLive
  BY <1>8, CheckLiveTyped
<1>9. CASE publishBuildInfo \/ publishManifest \/ pruneBuildInfo
  BY <1>9, PublishTyped
<1>10. CASE finishPending
  BY <1>10, FinishTyped
<1>11. CASE updatePaymentTokens
  BY <1>11, TokensTyped
<1>12. CASE \E operation \in Operations : finalize(operation)
  BY <1>12, FinalizeTyped
<1>13. CASE refuse \/ crash \/ verifySources \/ people \/ chainAlone \/ UNCHANGED vars
  BY <1>13, OthersTyped
<1> QED
  BY <1>1, <1>2, <1>3, <1>4, <1>5, <1>6, <1>7, <1>8, <1>9, <1>10, <1>11, <1>12, <1>13 DEF Next, commandStep

-----------------------------------------------------------------------------
\* The beginning.

LEMMA ChainInitTyped ==
  ASSUME NEW script \in Seq(Transactions), ChainInit(script), ReceiptInv
  PROVE  ChainTypeOK
<1>1. Len(script) \in Nat /\ DOMAIN script = 1 .. Len(script)
  OBVIOUS
<1>2. /\ sent = script /\ reorgs = 0 /\ DOMAIN blocks = 1 .. Len(script)
      /\ blocks = [n \in 1 .. Len(script) |-> blocks[n]]
  BY <1>1 DEF ChainInit
<1>3. Len(blocks) = Len(script)
  BY <1>1, <1>2, ListMade
<1>4. blocks \in Seq([hash : Nat, ok : BOOLEAN]) /\ final \in 0 .. Len(blocks)
  BY DEF ReceiptInv, ChainGood
<1> QED
  BY <1>1, <1>2, <1>3, <1>4, ChainAssumption DEF ChainTypeOK

LEMMA TypesInit == Init => TypeInv
<1> SUFFICES ASSUME Init PROVE TypeInv
  OBVIOUS
<1>1. ReceiptInv
  BY ReceiptsInit
<1>2. /\ tree \in Builds /\ committed \in Builds /\ head = latest
      /\ journal = [operation \in Operations |-> NoJournal] /\ cmd = NoCommand
      /\ evidence = [operation \in Operations |-> [buildInfo |-> None, broadcast |-> None]]
      /\ BoundsTyped
  BY DeploymentAssumption DEF Init, BoundsTyped
<1>3. /\ journal \in [Operations -> PendingOperation]
      /\ \A operation \in Operations : PendingTyped(journal[operation])
      /\ evidence \in [Operations -> [buildInfo : Builds \cup {None}, broadcast : Broadcast \cup {None}]]
  BY <1>2, NothingTyped DEF PendingTyped
<1>4. ASSUME ChainTypeOK, IsTyped(latest), retained \subseteq Builds, verified \subseteq Nat
      PROVE  TypeInv
  <2>1. head \in Manifest /\ CommandTyped(cmd, Len(sent))
    BY <1>2, <1>4, NoCommandTyped DEF IsTyped
  <2> QED
    BY <1>2, <1>3, <1>4, <2>1 DEF TypeInv, FilesTyped
<1>5. PICK missing \in InitialMissing :
        IF missing = None THEN ChainInit(<<>>) /\ latest = NoManifest /\ retained = {} /\ verified = {}
        ELSE LET proxies == Filtered(ProxyOrder, ProxyNames \ missing)
                 helpers == Filtered(HelperOrder, HelperNames \ missing)
                 deployed == DeployedContracts(proxies, helpers, 0)
             IN  /\ ChainInit(DeployScript(proxies, helpers, FALSE, 0, tree))
                 /\ latest = [status |-> "finalized", release |-> tree,
                              contracts |-> [name \in Names |-> IF name \in DOMAIN deployed
                                                                THEN deployed[name] ELSE None],
                              tokens |-> FALSE,
                              transactions |-> loadTransactionReceipts([n \in DOMAIN sent |-> n]),
                              revision |-> 0]
                 /\ retained = {tree}
                 /\ verified = sourceVerificationTargets(latest)
  BY Zenon DEF Init
<1>6. CASE missing = None
  <2>1. <<>> \in Seq(Transactions)
    OBVIOUS
  <2> QED
    BY <1>1, <1>4, <1>5, <1>6, <2>1, ChainInitTyped, NothingTyped
<1>7. CASE missing # None
  <2> DEFINE proxies == Filtered(ProxyOrder, ProxyNames \ missing)
             helpers == Filtered(HelperOrder, HelperNames \ missing)
             deployed == DeployedContracts(proxies, helpers, 0)
             contracts == [name \in Names |-> IF name \in DOMAIN deployed THEN deployed[name] ELSE None]
  <2>1. /\ ChainInit(DeployScript(proxies, helpers, FALSE, 0, tree))
        /\ retained = {tree} /\ verified = sourceVerificationTargets(latest)
        /\ latest = [status |-> "finalized", release |-> tree, contracts |-> contracts, tokens |-> FALSE,
                     transactions |-> loadTransactionReceipts([n \in DOMAIN sent |-> n]), revision |-> 0]
    BY <1>5, <1>7
  <2>2. /\ ProxyOrder \in Seq(ProxyNames) /\ HelperOrder \in Seq(HelperNames)
        /\ Range(ProxyOrder) = ProxyNames /\ Range(HelperOrder) = HelperNames
    BY ReleaseAssumption DEF ProxyNames, HelperNames, Range
  <2>3. Deployable(proxies, helpers) /\ Range(proxies) = ProxyNames \ missing
    BY <2>2, FilteredRange DEF Deployable
  <2>4. {"PoRepMarket", "DataCapEvidenceAdapter"} \subseteq Range(proxies)
    <3>1. missing \subseteq {"PoRepMarketViewHelper", "SectorEvidenceAdapter"}
      BY <1>7, DeploymentAssumption
    <3> QED
      BY <2>3, <3>1, DeploymentAssumption
  <2>5. /\ DOMAIN deployed \subseteq Names
        /\ Range(proxies) \cup {"Validator", "ValidatorBeacon"} \subseteq DOMAIN deployed
        /\ \A name \in DOMAIN deployed : deployed[name] \in Entry /\ deployed[name] # None
    BY <2>3, DeployedTyped
  <2>6. DeployScript(proxies, helpers, FALSE, 0, tree) \in Seq(Transactions)
    BY <1>2, <2>3, <2>4, DeployScriptTyped
  <2> HIDE DEF proxies, helpers, deployed
  <2>7. ChainTypeOK
    BY <1>1, <2>1, <2>6, ChainInitTyped
  <2>8. contracts \in Contracts
    BY <2>5 DEF Contracts
  <2>9. \A name \in Core : contracts[name] # None
    BY <2>4, <2>5, CoreNames DEF Core
  <2> HIDE DEF contracts
  <2>10. IsTyped(latest)
    <3>1. latest.transactions \in Seq(Receipt)
      BY <1>1 DEF ReceiptInv, FinalReceipts, DistinctReceipts
    <3>2. PICK transactions \in Seq(Receipt) :
            latest = [status |-> "finalized", release |-> tree, contracts |-> contracts, tokens |-> FALSE,
                      transactions |-> transactions, revision |-> 0]
      BY <2>1, <3>1
    <3>3. latest \in Manifest /\ latest.contracts = contracts /\ ~latest.tokens
      BY <1>2, <2>8, <3>2 DEF Manifest
    <3> QED
      BY <2>9, <3>3, CoreNames DEF IsTyped, Complete, recorded
  <2> QED
    BY <1>2, <1>4, <2>1, <2>7, <2>10, TargetsAreAddresses
<1> QED
  BY <1>6, <1>7

LEMMA TypesInvariant == Spec => [](IInv /\ ReceiptInv /\ TypeInv)
<1>1. Init => IInv /\ ReceiptInv /\ TypeInv
  BY InitInv, ReceiptsInit, TypesInit
<1>2. IInv /\ ReceiptInv /\ TypeInv /\ [Next]_vars => (IInv /\ ReceiptInv /\ TypeInv)'
  BY NextKeeps, ReceiptsKept, TypesKept
<1> QED
  BY <1>1, <1>2, PTL DEF Spec

\* Every variable keeps its type, for all contracts, requests, builds, bounds
\* and outcomes: whatever a command computes from a manifest, a journal or a
\* broadcast is again a manifest, a journal or a script.
THEOREM TypeCorrect == Spec => []TypeOK
<1>1. TypeInv => TypeOK
  BY DEF TypeInv, TypeOK, FilesTyped, BoundsTyped, CommandTyped, IsTyped, PendingTyped
<1> QED
  BY <1>1, TypesInvariant, PTL

-----------------------------------------------------------------------------
\* What the chain tells of proxies and their implementations.  The chain is a
\* parameter, as in the account of the receipts.

\* The Validator's implementation is that of its beacon.
ProxyOf(contracts, name) ==
  contracts[IF name = "Validator" THEN "ValidatorBeacon" ELSE name].address

Upgradeable(contracts) == {name \in UpgradeTargets : contracts[name] # None}

IsUpgrade(item) == item.kind = "call" /\ item.slot = "implementation"

Creates(item) == item.kind \in {"proxy", "beacon"}

Writers(transactions, chain, height, address) ==
  {n \in DOMAIN chain :
     /\ chain[n].ok /\ n <= height
     /\ \/ n = address /\ Creates(transactions[n])
        \/ IsUpgrade(transactions[n]) /\ transactions[n].contract = address}

ImplementationAt(transactions, chain, height, address) ==
  LET writers == Writers(transactions, chain, height, address)
  IN  IF writers = {} THEN 0 ELSE transactions[Max(writers)].value

\* The code at an address is a contract's, and its layout is extended by that
\* of a build, or the other way round.
FitsBefore(name, item, build) == \E b \in Builds : item = Code(name, b) /\ <<b, build>> \in Compatible[name]
FitsAfter(name, item, build) == \E b \in Builds : item = Code(name, b) /\ <<build, b>> \in Compatible[name]

\* The contracts are of the release as far as they have been created,
CodesFit(contracts, release, transactions) ==
  \A name \in Upgradeable(contracts) :
    contracts[name].implementation \in DOMAIN transactions =>
      FitsBefore(name, transactions[contracts[name].implementation], release)

\* their proxies are distinct,
Apart(contracts) ==
  \A a, b \in Upgradeable(contracts) : ProxyOf(contracts, a) = ProxyOf(contracts, b) => a = b

\* and have the implementations the manifest says.
InPlace(contracts, height, transactions, chain) ==
  \A name \in Upgradeable(contracts) :
    /\ ProxyOf(contracts, name) \in 1 .. height
    /\ contracts[name].implementation \in DOMAIN transactions
    /\ ImplementationAt(transactions, chain, height, ProxyOf(contracts, name)) = contracts[name].implementation

Describes(m, height, transactions, chain) ==
  exists(m) =>
    /\ CodesFit(m.contracts, m.release, transactions)
    /\ Apart(m.contracts)
    /\ InPlace(m.contracts, height, transactions, chain)

Extends(n, transactions, chain) ==
  LET before == ImplementationAt(transactions, chain, n - 1, transactions[n].contract)
      after == transactions[n].value
  IN  /\ before \in DOMAIN transactions /\ after \in DOMAIN transactions
      /\ transactions[after].name = transactions[before].name
      /\ <<transactions[before].build, transactions[after].build>> \in Compatible[transactions[before].name]

\* A proxy of the manifest is given code that fits its release.
FitsCall(m, item, transactions) ==
  /\ exists(m)
  /\ \E name \in Upgradeable(m.contracts) :
       /\ item.contract = ProxyOf(m.contracts, name)
       /\ item.value \in DOMAIN transactions
       /\ FitsAfter(name, transactions[item.value], m.release)

RecentCalls(m, height, transactions) ==
  /\ \A n \in height + 1 .. Len(transactions) :
       IsUpgrade(transactions[n]) => FitsCall(m, transactions[n], transactions)
  /\ \A i, j \in height + 1 .. Len(transactions) :
       /\ IsUpgrade(transactions[i]) /\ IsUpgrade(transactions[j])
       /\ transactions[i].contract = transactions[j].contract
       => i = j

\* The manifest describes what was there at some final height, up to which all
\* is well; since then each of its proxies was given fitting code at most once.
History(m, height, transactions, chain) ==
  /\ \A n \in DOMAIN chain : chain[n].ok /\ n <= height /\ IsUpgrade(transactions[n]) => Extends(n, transactions, chain)
  /\ Describes(m, height, transactions, chain)
  /\ RecentCalls(m, height, transactions)

QuietBetween(low, high, transactions) == \A n \in low + 1 .. high : ~IsUpgrade(transactions[n])

-----------------------------------------------------------------------------
\* What is known of the past stays known.

IsChain(transactions, chain) ==
  /\ transactions \in Seq(Transactions)
  /\ chain \in Seq([hash : Nat, ok : BOOLEAN])
  /\ Len(chain) <= Len(transactions)

Grown(transactions, others) ==
  DOMAIN transactions \subseteq DOMAIN others /\ \A n \in DOMAIN transactions : others[n] = transactions[n]

SameUpTo(height, chain, next) ==
  \A n \in 1 .. height : n \in DOMAIN chain /\ n \in DOMAIN next /\ next[n] = chain[n]

LEMMA ChainFields ==
  ASSUME NEW transactions, NEW chain, IsChain(transactions, chain)
  PROVE  /\ Len(transactions) \in Nat /\ DOMAIN transactions = 1 .. Len(transactions)
         /\ Len(chain) \in Nat /\ DOMAIN chain = 1 .. Len(chain)
         /\ Len(chain) <= Len(transactions) /\ DOMAIN chain \subseteq DOMAIN transactions
BY DEF IsChain

LEMMA MaxIsElement ==
  ASSUME NEW h \in Nat, NEW S, S # {}, S \subseteq 1 .. h
  PROVE  Max(S) \in S /\ \A y \in S : Max(S) >= y
<1> DEFINE D == {h - x : x \in S}
<1>0. \A x \in S : x \in 1 .. h
  OBVIOUS
<1>1. D \in SUBSET (0 .. h) /\ D # {}
  <2>1. \A x \in 1 .. h : h - x \in 0 .. h
    OBVIOUS
  <2> QED
    BY <1>0, <2>1
<1>2. PICK d \in D : \A e \in D : d <= e
  <2> HIDE DEF D
  <2> QED
    BY <1>1, SmallestIndex
<1>3. PICK x \in S : d = h - x
  BY <1>2
<1>4. \A y \in S : x >= y
  <2> SUFFICES ASSUME NEW y \in S PROVE x >= y
    OBVIOUS
  <2>1. h - x <= h - y
    BY <1>2, <1>3
  <2> QED
    BY <1>0, <2>1
<1> QED
  BY <1>3, <1>4 DEF Max

LEMMA ImplementationIs ==
  ASSUME NEW height, NEW address
  PROVE  valueAt(height, address, "implementation") = ImplementationAt(sent, blocks, height, address)
<1>1. {n \in executed : n <= height /\ writes(n, address, "implementation")} = Writers(sent, blocks, height, address)
  BY DEF executed, writes, Writers, Creates, IsUpgrade
<1> QED
  BY <1>1 DEF valueAt, ImplementationAt

LEMMA ImplementationKept ==
  ASSUME NEW transactions, NEW others, NEW chain, NEW next, NEW height \in Nat, NEW address,
         IsChain(transactions, chain), IsChain(others, next), Grown(transactions, others),
         SameUpTo(height, chain, next)
  PROVE  ImplementationAt(others, next, height, address) = ImplementationAt(transactions, chain, height, address)
<1> DEFINE old == Writers(transactions, chain, height, address)
           new == Writers(others, next, height, address)
<1>1. ASSUME NEW n \in Nat \ {0}, n <= height
      PROVE  n \in DOMAIN chain /\ n \in DOMAIN next /\ next[n] = chain[n]
             /\ n \in DOMAIN transactions /\ others[n] = transactions[n]
  BY <1>1, ChainFields DEF SameUpTo, Grown
<1>2. \A n \in DOMAIN chain \cup DOMAIN next : n \in Nat \ {0}
  BY ChainFields
<1>3. new = old
  BY <1>1, <1>2 DEF Writers
<1>4. old \subseteq 1 .. height
  BY <1>2 DEF Writers
<1>5. CASE old = {}
  BY <1>3, <1>5 DEF ImplementationAt
<1>6. CASE old # {}
  <2>1. Max(old) \in old
    BY <1>4, <1>6, MaxIsElement
  <2>2. others[Max(old)] = transactions[Max(old)]
    BY <1>1, <1>4, <2>1
  <2> HIDE DEF old, new
  <2> QED
    BY <1>3, <1>6, <2>2 DEF ImplementationAt, old, new
<1> QED
  BY <1>5, <1>6

LEMMA DescriptionKept ==
  ASSUME NEW m, NEW transactions, NEW others, NEW chain, NEW next, NEW height \in Nat,
         IsChain(transactions, chain), IsChain(others, next), Grown(transactions, others),
         SameUpTo(height, chain, next), Describes(m, height, transactions, chain)
  PROVE  Describes(m, height, others, next)
<1> SUFFICES ASSUME exists(m) PROVE Describes(m, height, others, next)
  BY DEF Describes
<1>1. /\ CodesFit(m.contracts, m.release, transactions) /\ Apart(m.contracts)
      /\ InPlace(m.contracts, height, transactions, chain)
  BY DEF Describes
<1>2. CodesFit(m.contracts, m.release, others)
  BY <1>1 DEF CodesFit, InPlace, Grown
<1>3. InPlace(m.contracts, height, others, next)
  BY <1>1, ImplementationKept DEF InPlace, Grown
<1> QED
  BY <1>1, <1>2, <1>3 DEF Describes

LEMMA ExtensionKept ==
  ASSUME NEW n \in Nat \ {0}, NEW transactions, NEW others, NEW chain, NEW next, NEW height \in Nat,
         IsChain(transactions, chain), IsChain(others, next), Grown(transactions, others),
         SameUpTo(height, chain, next), n <= height, Extends(n, transactions, chain)
  PROVE  Extends(n, others, next)
<1>1. n \in DOMAIN transactions /\ others[n] = transactions[n]
  BY ChainFields DEF SameUpTo, Grown
<1>2. SameUpTo(n - 1, chain, next) /\ n - 1 \in Nat
  BY DEF SameUpTo
<1>3. ImplementationAt(others, next, n - 1, transactions[n].contract)
        = ImplementationAt(transactions, chain, n - 1, transactions[n].contract)
  BY <1>2, ImplementationKept
<1> QED
  BY <1>1, <1>3 DEF Extends, Grown

\* The chain may go on while the transactions stay.
LEMMA HistoryKept ==
  ASSUME NEW m, NEW transactions, NEW chain, NEW next, NEW height \in Nat,
         IsChain(transactions, chain), IsChain(transactions, next), SameUpTo(height, chain, next),
         History(m, height, transactions, chain)
  PROVE  History(m, height, transactions, next)
<1>1. Grown(transactions, transactions)
  BY DEF Grown
<1>2. Describes(m, height, transactions, next)
  BY <1>1, DescriptionKept DEF History
<1>3. ASSUME NEW n \in DOMAIN next, next[n].ok, n <= height, IsUpgrade(transactions[n])
      PROVE  Extends(n, transactions, next)
  <2>1. n \in 1 .. height /\ n \in Nat \ {0}
    BY <1>3, ChainFields
  <2>2. n \in DOMAIN chain /\ chain[n].ok
    BY <1>3, <2>1 DEF SameUpTo
  <2>3. Extends(n, transactions, chain)
    BY <1>3, <2>2 DEF History
  <2> QED
    BY <1>1, <1>3, <2>1, <2>3, ExtensionKept
<1> QED
  BY <1>2, <1>3 DEF History

-----------------------------------------------------------------------------
\* The invariant.  No command sends an upgrade while it is calm, so that all
\* upgrades that the manifest does not know yet are of one script.

Running == {"broadcast", "record", "recordJournal"}

Calm ==
  \/ noPendingOperation
  \/ cmd.at = "forge"
  \/ cmd.at \in {"prune", "finish"} /\ unfinished(cmd.operation)

Settled(h) ==
  /\ h \in 0 .. final
  /\ History(latest, h, sent, blocks)
  /\ Calm => QuietBetween(h, Len(sent), sent)
  /\ cmd.at \in Running => h <= cmd.base /\ QuietBetween(h, cmd.base, sent)

\* What is recorded of an unfinished operation: all that was sent, contracts
\* that are of its release and apart, and the manifest once it is checked.
JournalTells(p, height, transactions, chain) ==
  p.status = "pending" =>
    /\ p.broadcast # None =>
         p.broadcast.base + p.broadcast.sent = Len(transactions) /\ p.broadcast.sent <= p.broadcast.total
    /\ \A i, j \in DOMAIN p.operations : p.operations[i].target = p.operations[j].target => i = j
    /\ evidenceComplete(p) =>
         CodesFit(proposal(p).contracts, p.release, transactions) /\ Apart(proposal(p).contracts)
    /\ exists(p.resultManifest) =>
         height = Len(transactions) /\ Describes(p.resultManifest, Len(transactions), transactions, chain)

ScriptOf(c) ==
  CASE c.kind = "deploy" -> DeployScript(ProxyOrder, HelperOrder, Policy, c.base, c.build)
    [] c.kind = "missing" -> MissingScript(c.request, c.source, c.base, c.build)
    [] c.kind = "upgrade" -> UpgradeScript(c.request[1], c.source, c.base, c.build)
    [] OTHER -> TokenScript(c.source)

\* A script as far as it was sent.
SentFrom(base, script, transactions) ==
  /\ Len(transactions) - base <= Len(script)
  /\ \A j \in 1 .. Len(transactions) - base : transactions[base + j] = script[j]

CommandTells(c, build, canonical, transactions) ==
  /\ c.at \in {"preflight", "journal", "forge"} /\ c.kind # "tokens" => build = c.build
  /\ c.kind = "upgrade" => \A i, j \in DOMAIN c.request[1] : c.request[1][i] = c.request[1][j] => i = j
  /\ c.kind \in {"missing", "upgrade"} =>
       /\ exists(canonical)
       /\ canonical.contracts = c.source.contracts /\ canonical.release = c.source.release
  /\ c.kind \in {"missing", "upgrade"} /\ c.at \in {"journal", "forge"} \cup Running =>
       validateStorage(c.source, c.build)
  /\ c.at = "broadcast" => c.script = ScriptOf(c)
  /\ c.at \in Running => SentFrom(c.base, ScriptOf(c), transactions)
  /\ c.at \in {"record", "recordJournal"} =>
       c.file.base = c.base /\ c.file.base + c.file.sent = Len(transactions) /\ c.file.sent <= c.file.total
  /\ c.kind = "finalize" /\ c.at = "receipts" => c.file = c.pending.broadcast
  /\ c.kind = "finalize" /\ c.at \in {"finality", "live"} =>
       \E i \in DOMAIN c.receipts : c.receipts[i].nonce = Len(transactions)

LayoutInv ==
  /\ \E h \in Nat : Settled(h)
  /\ \A operation \in Operations : JournalTells(journal[operation], final, sent, blocks)
  /\ CommandTells(cmd, tree, latest, sent)

-----------------------------------------------------------------------------
\* All upgrades on the chain extend layouts: those up to the height the
\* manifest describes, and each later one, because it is the first of its proxy
\* since.

LEMMA CompatibleOnward ==
  ASSUME NEW name \in UpgradeTargets, NEW item, NEW build \in Builds, NEW next \in Builds,
         FitsBefore(name, item, build), <<build, next>> \in Compatible[name]
  PROVE  FitsBefore(name, item, next)
BY ReleaseAssumption DEF FitsBefore

\* Nothing is written to a proxy between the height and its next upgrade.
LEMMA NoneBetween ==
  ASSUME NEW m, NEW transactions, NEW chain, NEW height \in Nat, IsChain(transactions, chain),
         RecentCalls(m, height, transactions),
         NEW n \in DOMAIN chain, n > height, IsUpgrade(transactions[n]),
         transactions[n].contract \in 1 .. height
  PROVE  ImplementationAt(transactions, chain, n - 1, transactions[n].contract)
           = ImplementationAt(transactions, chain, height, transactions[n].contract)
<1> DEFINE proxy == transactions[n].contract
           old == Writers(transactions, chain, height, proxy)
           new == Writers(transactions, chain, n - 1, proxy)
<1>1. n \in Nat /\ Len(transactions) \in Nat /\ DOMAIN chain \subseteq 1 .. Len(transactions)
      /\ \A k \in DOMAIN chain : k \in Nat \ {0}
  BY ChainFields
<1>2. old \subseteq new
  BY <1>1 DEF Writers
<1>3. ASSUME NEW k \in new PROVE k \in old
  <2>1. k \in DOMAIN chain /\ k <= n - 1 /\ chain[k].ok
        /\ (k = proxy \/ (IsUpgrade(transactions[k]) /\ transactions[k].contract = proxy))
        /\ k \in Nat /\ k # n
    BY <1>1, <1>3 DEF Writers
  <2>2. ASSUME k > height PROVE FALSE
    <3>1. k # proxy /\ k \in height + 1 .. Len(transactions) /\ n \in height + 1 .. Len(transactions)
      BY <1>1, <2>1, <2>2
    <3>2. IsUpgrade(transactions[k]) /\ transactions[k].contract = proxy
      BY <2>1, <3>1
    <3> QED
      BY <2>1, <3>1, <3>2 DEF RecentCalls
  <2>3. k <= height
    BY <2>1, <2>2
  <2> QED
    BY <1>3, <2>1, <2>3 DEF Writers
<1>4. old = new
  BY <1>2, <1>3
<1> HIDE DEF old, new
<1> QED
  BY <1>4 DEF ImplementationAt, old, new

LEMMA AllExtend ==
  ASSUME NEW m, NEW transactions, NEW chain, NEW height \in Nat, IsChain(transactions, chain),
         m.release \in Builds, History(m, height, transactions, chain),
         NEW n \in DOMAIN chain, chain[n].ok, IsUpgrade(transactions[n])
  PROVE  Extends(n, transactions, chain)
<1>1. n \in Nat /\ n \in 1 .. Len(transactions)
  BY ChainFields
<1>2. CASE n <= height
  BY <1>2 DEF History
<1>3. CASE n > height
  <2>1. FitsCall(m, transactions[n], transactions)
    BY <1>1, <1>3 DEF History, RecentCalls
  <2>2. PICK name \in Upgradeable(m.contracts) :
          /\ transactions[n].contract = ProxyOf(m.contracts, name)
          /\ transactions[n].value \in DOMAIN transactions
          /\ FitsAfter(name, transactions[transactions[n].value], m.release)
    BY <2>1 DEF FitsCall
  <2> DEFINE proxy == transactions[n].contract
             before == m.contracts[name].implementation
             after == transactions[n].value
  <2>3. /\ name \in UpgradeTargets /\ proxy \in 1 .. height /\ before \in DOMAIN transactions
        /\ ImplementationAt(transactions, chain, height, proxy) = before
        /\ FitsBefore(name, transactions[before], m.release)
    BY <2>1, <2>2 DEF History, Describes, InPlace, CodesFit, FitsCall, Upgradeable
  <2>4. ImplementationAt(transactions, chain, n - 1, proxy) = before
    BY <1>3, <2>3, NoneBetween DEF History
  <2>5. PICK b \in Builds : transactions[before] = Code(name, b) /\ <<b, m.release>> \in Compatible[name]
    BY <2>3 DEF FitsBefore
  <2>6. PICK c \in Builds : transactions[after] = Code(name, c) /\ <<m.release, c>> \in Compatible[name]
    BY <2>2 DEF FitsAfter
  <2>7. <<b, c>> \in Compatible[name]
    BY <2>3, <2>5, <2>6, ReleaseAssumption
  <2>8. /\ transactions[before].name = name /\ transactions[after].name = name
        /\ transactions[before].build = b /\ transactions[after].build = c
    BY <2>5, <2>6 DEF Code
  <2> HIDE DEF before, after
  <2> QED
    BY <2>2, <2>3, <2>4, <2>7, <2>8 DEF Extends, after
<1> QED
  BY <1>1, <1>2, <1>3

\* So the manifest may be taken to describe any later height, once it does.
LEMMA HistoryRestarts ==
  ASSUME NEW m, NEW other, NEW transactions, NEW chain, NEW height \in Nat, IsChain(transactions, chain),
         exists(m) => m.release \in Builds,
         History(m, height, transactions, chain),
         Describes(other, Len(transactions), transactions, chain)
  PROVE  History(other, Len(transactions), transactions, chain)
<1>1. ASSUME NEW n \in DOMAIN chain, chain[n].ok, n <= Len(transactions), IsUpgrade(transactions[n])
      PROVE  Extends(n, transactions, chain)
  <2>1. n \in Nat /\ n \in 1 .. Len(transactions)
    BY ChainFields
  <2>2. CASE n <= height
    BY <1>1, <2>2 DEF History
  <2>3. CASE n > height
    <3>0. n \in height + 1 .. Len(transactions)
      BY <2>1, <2>3
    <3>1. exists(m)
      BY <1>1, <3>0 DEF History, RecentCalls, FitsCall
    <3> QED
      BY <1>1, <3>1, AllExtend
  <2> QED
    BY <2>1, <2>2, <2>3
<1>2. RecentCalls(other, Len(transactions), transactions)
  <2>1. Len(transactions) \in Nat
    BY ChainFields
  <2>2. Len(transactions) + 1 .. Len(transactions) = {}
    BY <2>1
  <2> QED
    BY <2>2 DEF RecentCalls
<1> QED
  BY <1>1, <1>2 DEF History

-----------------------------------------------------------------------------
\* What the scripts send.

Silent == {item \in Transactions : ~IsUpgrade(item)}

DeploysFrom(base, proxies, build, script) ==
  /\ script \in Seq(Silent)
  /\ 2 * Len(proxies) + 2 <= Len(script)
  /\ script[1] = Code("Validator", build)
  /\ script[2] = Beacon(base + 1)
  /\ \A i \in 1 .. Len(proxies) :
       /\ script[2 * i + 1] = Code(proxies[i], build)
       /\ script[2 * i + 2] = Proxy(base + 2 * i + 1)

\* After the proxied contracts: the link to the adapter, and the helpers.
DeployEnds(base, proxies, helpers, tokens, build, script) ==
  LET deployed == DeployedContracts(proxies, helpers, base)
      adapter == IF "SectorEvidenceAdapter" \in Range(proxies)
                 THEN "SectorEvidenceAdapter" ELSE "DataCapEvidenceAdapter"
      link == 2 * Len(proxies) + 3
  IN  /\ script[link] = Call(deployed["PoRepMarket"].address, "evidenceAdapter", deployed[adapter].address)
      /\ \A i \in 1 .. Len(helpers) : script[link + i] = Code(helpers[i], build)
      /\ link + Len(helpers) <= Len(script)
      /\ ~tokens => Len(script) = link + Len(helpers)

LEMMA SilentKinds ==
  /\ \A name \in Names : \A build \in Builds : Code(name, build) \in Silent
  /\ \A n \in Nat : Proxy(n) \in Silent /\ Beacon(n) \in Silent
  /\ \A a, v \in Nat : \A slot \in Slots \ {"implementation"} : Call(a, slot, v) \in Silent
<1>1. \A name \in Names : \A build \in Builds : Code(name, build) \in Silent
  BY TransactionKinds DEF Silent, IsUpgrade, Code
<1>2. \A n \in Nat : Proxy(n) \in Silent /\ Beacon(n) \in Silent
  BY TransactionKinds DEF Silent, IsUpgrade, Proxy, Beacon
<1>3. \A a, v \in Nat : \A slot \in Slots \ {"implementation"} : Call(a, slot, v) \in Silent
  BY TransactionKinds DEF Silent, IsUpgrade, Call
<1> QED
  BY <1>1, <1>2, <1>3

LEMMA DeployScriptSays ==
  ASSUME NEW proxies, NEW helpers, Deployable(proxies, helpers), NEW base \in Nat, NEW build \in Builds,
         NEW tokens \in BOOLEAN, {"PoRepMarket", "DataCapEvidenceAdapter"} \subseteq Range(proxies),
         tokens => "SPRegistry" \in Range(proxies)
  PROVE  LET script == DeployScript(proxies, helpers, tokens, base, build)
         IN  /\ DeploysFrom(base, proxies, build, script)
             /\ DeployEnds(base, proxies, helpers, tokens, build, script)
<1>1. /\ Len(proxies) \in Nat /\ DOMAIN proxies = 1 .. Len(proxies) /\ 2 * Len(proxies) \in Nat
      /\ Len(helpers) \in Nat /\ DOMAIN helpers = 1 .. Len(helpers)
      /\ \A i \in DOMAIN proxies : proxies[i] \in Names
      /\ \A i \in DOMAIN helpers : helpers[i] \in Names
      /\ "Validator" \in Names
  BY DEF Deployable, Names, UpgradeTargets
<1> DEFINE n == Len(proxies)
           proxied == [i \in 1 .. 2 * Len(proxies) |->
                         IF i % 2 = 1 THEN Code(proxies[(i + 1) \div 2], build) ELSE Proxy(base + i + 1)]
           standalone == [i \in DOMAIN helpers |-> Code(helpers[i], build)]
           deployed == DeployedContracts(proxies, helpers, base)
           adapter == IF "SectorEvidenceAdapter" \in Range(proxies)
                      THEN "SectorEvidenceAdapter" ELSE "DataCapEvidenceAdapter"
           validator == <<Code("Validator", build), Beacon(deployed["Validator"].implementation)>>
           link == <<Call(deployed["PoRepMarket"].address, "evidenceAdapter", deployed[adapter].address)>>
           policy == IF tokens THEN <<Call(deployed["SPRegistry"].address, "token", 1)>> ELSE <<>>
<1>2. DeployScript(proxies, helpers, tokens, base, build) = validator \o proxied \o link \o standalone \o policy
  BY DEF DeployScript
<1>3. /\ \A name \in DOMAIN deployed : deployed[name].address \in Nat /\ deployed[name].implementation \in Nat
      /\ "Validator" \in DOMAIN deployed /\ "PoRepMarket" \in DOMAIN deployed /\ adapter \in DOMAIN deployed
      /\ tokens => "SPRegistry" \in DOMAIN deployed
      /\ deployed["Validator"].implementation = base + 1
  <2>1. deployed["Validator"].implementation = base + 1
    <3>1. ArrangedFrom(base, proxies, helpers, deployed)
      BY Deployed
    <3>2. deployed["Validator"] = StandardEntry(0, base + 1)
      BY <3>1 DEF ArrangedFrom
    <3> HIDE DEF deployed
    <3> QED
      BY <3>2 DEF StandardEntry
  <2> HIDE DEF n
  <2> QED
    BY <2>1, DeployedTyped, AddressOf
<1> HIDE DEF deployed, adapter
<1>4. /\ proxied \in Seq(Silent) /\ Len(proxied) = 2 * n
      /\ \A i \in 1 .. n : /\ proxied[2 * i - 1] = Code(proxies[i], build)
                           /\ proxied[2 * i] = Proxy(base + 2 * i + 1)
  <2>1. ASSUME NEW i \in 1 .. 2 * Len(proxies)
        PROVE  proxied[i] \in Silent
    <3>1. CASE i % 2 = 1
      <4>1. (i + 1) \div 2 \in 1 .. Len(proxies)
        BY <1>1, <3>1
      <4> QED
        BY <1>1, <3>1, <4>1, SilentKinds
    <3>2. CASE i % 2 # 1
      <4>1. base + i + 1 \in Nat
        BY <1>1
      <4> QED
        BY <3>2, <4>1, SilentKinds
    <3> QED
      BY <3>1, <3>2
  <2>2. DOMAIN proxied = 1 .. 2 * Len(proxies) /\ proxied = [i \in 1 .. 2 * Len(proxies) |-> proxied[i]]
    OBVIOUS
  <2>3. ASSUME NEW i \in 1 .. n
        PROVE  proxied[2 * i - 1] = Code(proxies[i], build) /\ proxied[2 * i] = Proxy(base + 2 * i + 1)
    <3>1. /\ 2 * i - 1 \in 1 .. 2 * Len(proxies) /\ (2 * i - 1) % 2 = 1 /\ ((2 * i - 1) + 1) \div 2 = i
          /\ 2 * i \in 1 .. 2 * Len(proxies) /\ (2 * i) % 2 = 0
          /\ base + (2 * i) + 1 = base + 2 * i + 1
      BY <1>1
    <3> QED
      BY <3>1
  <2> HIDE DEF proxied
  <2>4. proxied \in Seq(Silent) /\ Len(proxied) = 2 * n
    BY <1>1, <2>1, <2>2, SequenceMade
  <2> QED
    BY <2>3, <2>4
<1>5. /\ standalone \in Seq(Silent) /\ Len(standalone) = Len(helpers)
      /\ \A i \in 1 .. Len(helpers) : standalone[i] = Code(helpers[i], build)
  <2>1. \A i \in 1 .. Len(helpers) : standalone[i] \in Silent
    BY <1>1, SilentKinds
  <2>2. DOMAIN standalone = 1 .. Len(helpers) /\ standalone = [i \in 1 .. Len(helpers) |-> standalone[i]]
    BY <1>1
  <2>3. \A i \in 1 .. Len(helpers) : standalone[i] = Code(helpers[i], build)
    BY <1>1
  <2> HIDE DEF standalone
  <2> QED
    BY <1>1, <2>1, <2>2, <2>3, SequenceMade
<1>6. validator \in Seq(Silent) /\ link \in Seq(Silent) /\ policy \in Seq(Silent)
  <2>1. /\ Code("Validator", build) \in Silent
        /\ Beacon(deployed["Validator"].implementation) \in Silent
        /\ Call(deployed["PoRepMarket"].address, "evidenceAdapter", deployed[adapter].address) \in Silent
        /\ tokens => Call(deployed["SPRegistry"].address, "token", 1) \in Silent
    BY <1>1, <1>3, SilentKinds DEF Slots
  <2> QED
    BY <2>1, ShortSequences
<1>7. /\ Len(validator) = 2 /\ validator[1] = Code("Validator", build)
      /\ validator[2] = Beacon(base + 1)
      /\ Len(link) = 1
      /\ link[1] = Call(deployed["PoRepMarket"].address, "evidenceAdapter", deployed[adapter].address)
      /\ ~tokens => Len(policy) = 0
  BY <1>3
<1> HIDE DEF proxied, standalone, validator, link, policy
<1> DEFINE first == validator \o proxied
           second == first \o link
           third == second \o standalone
           all == third \o policy
<1>8. /\ first \in Seq(Silent) /\ Len(first) = 2 * n + 2
      /\ first[1] = validator[1] /\ first[2] = validator[2]
      /\ \A i \in 1 .. 2 * n : first[2 + i] = proxied[i]
  <2>1. /\ first \in Seq(Silent) /\ Len(first) = Len(validator) + Len(proxied)
        /\ \A i \in 1 .. Len(validator) : first[i] = validator[i]
        /\ \A i \in 1 .. Len(proxied) : first[Len(validator) + i] = proxied[i]
    <3>1. proxied \in Seq(Silent) /\ validator \in Seq(Silent)
      BY <1>4, <1>6
    <3> QED
      BY ONLY <3>1, SequencesJoined
  <2>2. 1 \in 1 .. 2 /\ 2 \in 1 .. 2
    OBVIOUS
  <2> HIDE DEF first
  <2> QED
    BY <1>1, <1>4, <1>7, <2>1, <2>2
<1> HIDE DEF first
<1>9. /\ second \in Seq(Silent) /\ \A i \in 1 .. Len(first) : second[i] = first[i]
      /\ Len(second) = Len(first) + 1 /\ second[Len(first) + 1] = link[1]
  <2>1. /\ second \in Seq(Silent) /\ Len(second) = Len(first) + Len(link)
        /\ \A i \in 1 .. Len(first) : second[i] = first[i]
        /\ \A i \in 1 .. Len(link) : second[Len(first) + i] = link[i]
    <3>1. first \in Seq(Silent) /\ link \in Seq(Silent)
      BY <1>6, <1>8
    <3> QED
      BY ONLY <3>1, SequencesJoined
  <2> HIDE DEF second
  <2> QED
    BY <1>7, <2>1
<1> HIDE DEF second
<1>10. /\ third \in Seq(Silent) /\ \A i \in 1 .. Len(second) : third[i] = second[i]
       /\ Len(third) = Len(second) + Len(helpers)
       /\ \A i \in 1 .. Len(helpers) : third[Len(second) + i] = Code(helpers[i], build)
  <2>1. /\ third \in Seq(Silent) /\ Len(third) = Len(second) + Len(standalone)
        /\ \A i \in 1 .. Len(second) : third[i] = second[i]
        /\ \A i \in 1 .. Len(standalone) : third[Len(second) + i] = standalone[i]
    <3>1. second \in Seq(Silent) /\ standalone \in Seq(Silent)
      BY <1>5, <1>9
    <3> QED
      BY ONLY <3>1, SequencesJoined
  <2> HIDE DEF third
  <2> QED
    BY <1>5, <2>1
<1> HIDE DEF third
<1>11. /\ all \in Seq(Silent) /\ \A i \in 1 .. Len(third) : all[i] = third[i]
       /\ Len(all) = Len(third) + Len(policy) /\ Len(policy) \in Nat
  <2>1. /\ all \in Seq(Silent) /\ Len(all) = Len(third) + Len(policy)
        /\ \A i \in 1 .. Len(third) : all[i] = third[i]
    <3>1. third \in Seq(Silent) /\ policy \in Seq(Silent)
      BY <1>6, <1>10
    <3> QED
      BY ONLY <3>1, SequencesJoined
  <2> HIDE DEF all
  <2> QED
    BY <1>6, <2>1
<1>12. DeployScript(proxies, helpers, tokens, base, build) = all
  BY <1>2 DEF first, second, third
<1> HIDE DEF all
<1> DEFINE end == 2 * Len(proxies) + 3
<1>13. /\ end \in Nat /\ Len(first) = end - 1 /\ Len(second) = end /\ Len(third) = end + Len(helpers)
       /\ Len(all) = end + Len(helpers) + Len(policy)
  BY <1>1, <1>8, <1>9, <1>10, <1>11
<1>14. \A i \in 1 .. end - 1 : all[i] = first[i]
  <2> SUFFICES ASSUME NEW i \in 1 .. end - 1
               PROVE  all[i] = first[i]
    OBVIOUS
  <2>1. i \in 1 .. Len(first) /\ i \in 1 .. Len(second) /\ i \in 1 .. Len(third)
    BY <1>1, <1>13
  <2> QED
    BY <1>9, <1>10, <1>11, <2>1
<1>15. all[1] = Code("Validator", build) /\ all[2] = Beacon(base + 1)
  <2>1. 1 \in 1 .. end - 1 /\ 2 \in 1 .. end - 1
    BY <1>1
  <2> HIDE DEF end
  <2> QED
    BY <1>7, <1>8, <1>14, <2>1
<1>16. ASSUME NEW i \in 1 .. Len(proxies)
       PROVE  all[2 * i + 1] = Code(proxies[i], build) /\ all[2 * i + 2] = Proxy(base + 2 * i + 1)
  <2>1. /\ 2 * i - 1 \in 1 .. 2 * n /\ 2 * i \in 1 .. 2 * n
        /\ 2 + (2 * i - 1) = 2 * i + 1 /\ 2 + 2 * i = 2 * i + 2
        /\ 2 * i + 1 \in 1 .. end - 1 /\ 2 * i + 2 \in 1 .. end - 1
    BY <1>1
  <2>2. first[2 + (2 * i - 1)] = proxied[2 * i - 1] /\ first[2 + 2 * i] = proxied[2 * i]
    BY <1>8, <2>1
  <2>3. first[2 * i + 1] = Code(proxies[i], build) /\ first[2 * i + 2] = Proxy(base + 2 * i + 1)
    BY <1>4, <2>1, <2>2
  <2> HIDE DEF end
  <2> QED
    BY <1>14, <2>1, <2>3
<1>17. DeploysFrom(base, proxies, build, all)
  <2>1. 2 * Len(proxies) + 2 <= Len(all)
    BY <1>1, <1>11, <1>13
  <2> QED
    BY <1>11, <1>15, <1>16, <2>1 DEF DeploysFrom
<1>18. all[end] = link[1]
  <2>1. end \in 1 .. Len(second) /\ end \in 1 .. Len(third) /\ Len(first) + 1 = end
    BY <1>1, <1>13
  <2> HIDE DEF end
  <2> QED
    BY <1>9, <1>10, <1>11, <2>1
<1>19. ASSUME NEW i \in 1 .. Len(helpers)
       PROVE  all[end + i] = Code(helpers[i], build)
  <2>1. Len(second) + i = end + i /\ end + i \in 1 .. Len(third)
    BY <1>1, <1>13
  <2>2. third[end + i] = Code(helpers[i], build)
    BY <1>10, <2>1
  <2> HIDE DEF end
  <2> QED
    BY <1>11, <2>1, <2>2
<1>20. end + Len(helpers) <= Len(all) /\ (~tokens => Len(all) = end + Len(helpers))
  <2>1. Len(helpers) \in Nat /\ Len(policy) \in Nat /\ (~tokens => Len(policy) = 0)
    BY <1>1, <1>7, <1>11
  <2> HIDE DEF end
  <2>2. end \in Nat /\ Len(all) = end + Len(helpers) + Len(policy)
    BY <1>13
  <2> QED
    BY ONLY <2>1, <2>2
<1>21. DeployEnds(base, proxies, helpers, tokens, build, all)
  BY <1>7, <1>18, <1>19, <1>20 DEF DeployEnds, deployed, adapter
<1> QED
  BY <1>12, <1>17, <1>21

-----------------------------------------------------------------------------
\* A deployment: its proxies are apart and its codes are those of the build.

DeployedOf(proxies, helpers, base) ==
  LET deployed == DeployedContracts(proxies, helpers, base)
  IN  [name \in Names |-> IF name \in DOMAIN deployed THEN deployed[name] ELSE None]

LEMMA DeployedPlaces ==
  ASSUME NEW proxies, NEW helpers, Deployable(proxies, helpers), NEW base \in Nat,
         NEW name \in Upgradeable(DeployedOf(proxies, helpers, base))
  PROVE  LET contracts == DeployedOf(proxies, helpers, base)
         IN  \/ name = "Validator" /\ contracts[name].implementation = base + 1
                                   /\ ProxyOf(contracts, name) = base + 2
             \/ \E i \in 1 .. Len(proxies) :
                  /\ name = proxies[i] /\ name # "Validator"
                  /\ contracts[name].implementation = base + 2 * i + 1
                  /\ ProxyOf(contracts, name) = base + 2 * i + 2
<1> DEFINE deployed == DeployedContracts(proxies, helpers, base)
           contracts == DeployedOf(proxies, helpers, base)
<1>1. ArrangedFrom(base, proxies, helpers, deployed)
  BY Deployed
<1>2. /\ "Validator" \in DOMAIN deployed /\ "ValidatorBeacon" \in DOMAIN deployed
      /\ DOMAIN deployed = Range(proxies) \cup Range(helpers) \cup {"Validator", "ValidatorBeacon"}
      /\ DOMAIN proxies = 1 .. Len(proxies) /\ Len(proxies) \in Nat
      /\ Range(proxies) \subseteq ProxyNames /\ Range(helpers) \subseteq HelperNames
  BY <1>1 DEF ArrangedFrom, Deployable, Range
<1>3. /\ \A n \in Names : contracts[n] = IF n \in DOMAIN deployed THEN deployed[n] ELSE None
      /\ "Validator" \in Names /\ "ValidatorBeacon" \in Names
      /\ name \in UpgradeTargets /\ name \in Names /\ contracts[name] # None
  BY CoreNames DEF DeployedOf, Upgradeable, Core
<1> HIDE DEF contracts, deployed
<1>4. name \in DOMAIN deployed
  BY <1>3
<1>5. CASE name = "Validator"
  <2>1. /\ contracts["Validator"] = StandardEntry(0, base + 1)
        /\ contracts["ValidatorBeacon"] = StandardEntry(base + 1 + 1, base + 1)
    BY <1>1, <1>2, <1>3 DEF ArrangedFrom
  <2>2. /\ contracts["Validator"].implementation = base + 1
        /\ contracts["ValidatorBeacon"].address = base + 1 + 1
    BY <2>1 DEF StandardEntry
  <2>3. base + 1 + 1 = base + 2
    BY <1>2
  <2> QED
    BY <1>5, <2>2, <2>3 DEF ProxyOf, contracts
<1>6. CASE name # "Validator"
  <2>1. name \in Range(proxies)
    BY <1>2, <1>3, <1>4, <1>6, ReleaseAssumption DEF UpgradeTargets
  <2>2. PICK i \in DOMAIN proxies :
          proxies[i] = name /\ deployed[name] = StandardEntry(base + 2 * i + 2, (base + 2 * i + 2) - 1)
    BY <1>1, <2>1 DEF ArrangedFrom
  <2>3. contracts[name].implementation = base + 2 * i + 1 /\ ProxyOf(contracts, name) = base + 2 * i + 2
    <3>1. /\ contracts[name].implementation = (base + 2 * i + 2) - 1
          /\ ProxyOf(contracts, name) = base + 2 * i + 2
      BY <1>3, <1>4, <1>6, <2>2 DEF ProxyOf, StandardEntry
    <3>2. (base + 2 * i + 2) - 1 = base + 2 * i + 1
      BY <1>2
    <3> QED
      BY <3>1, <3>2
  <2> QED
    BY <1>2, <1>6, <2>2, <2>3 DEF contracts
<1> QED
  BY <1>5, <1>6

LEMMA DeployedApart ==
  ASSUME NEW proxies, NEW helpers, Deployable(proxies, helpers), NEW base \in Nat
  PROVE  Apart(DeployedOf(proxies, helpers, base))
<1> DEFINE contracts == DeployedOf(proxies, helpers, base)
<1>1. Len(proxies) \in Nat
  BY DEF Deployable
<1>2. \A name \in Upgradeable(contracts) :
        \/ name = "Validator" /\ ProxyOf(contracts, name) = base + 2
        \/ \E i \in 1 .. Len(proxies) : name = proxies[i] /\ ProxyOf(contracts, name) = base + 2 * i + 2
  BY DeployedPlaces
<1> HIDE DEF contracts
<1>3. ASSUME NEW a \in Upgradeable(contracts), NEW b \in Upgradeable(contracts),
             ProxyOf(contracts, a) = ProxyOf(contracts, b)
      PROVE  a = b
  BY <1>1, <1>2, <1>3
<1> QED
  BY <1>3 DEF Apart, contracts

LEMMA DeployedFits ==
  ASSUME NEW proxies, NEW helpers, Deployable(proxies, helpers), NEW base \in Nat, NEW build \in Builds,
         NEW script, DeploysFrom(base, proxies, build, script),
         NEW transactions, DOMAIN transactions = 1 .. Len(transactions), Len(transactions) \in Nat,
         SentFrom(base, script, transactions)
  PROVE  CodesFit(DeployedOf(proxies, helpers, base), build, transactions)
<1> DEFINE contracts == DeployedOf(proxies, helpers, base)
<1> SUFFICES ASSUME NEW name \in Upgradeable(contracts), contracts[name].implementation \in DOMAIN transactions
             PROVE  FitsBefore(name, transactions[contracts[name].implementation], build)
  BY DEF CodesFit
<1> DEFINE k == contracts[name].implementation
<1>1. name \in UpgradeTargets /\ <<build, build>> \in Compatible[name] /\ Len(proxies) \in Nat
  BY ReleaseAssumption DEF Upgradeable, Deployable
<1>2. \/ name = "Validator" /\ k = base + 1
      \/ \E i \in 1 .. Len(proxies) : name = proxies[i] /\ k = base + 2 * i + 1
  BY DeployedPlaces
<1>3. k \in 1 .. Len(transactions)
  OBVIOUS
<1> HIDE DEF k, contracts
<1>4. transactions[k] = Code(name, build)
  <2>1. CASE name = "Validator" /\ k = base + 1
    <3>1. 1 \in 1 .. Len(transactions) - base /\ base + 1 = k
      BY <1>1, <1>3, <2>1
    <3> QED
      BY <2>1, <3>1 DEF SentFrom, DeploysFrom
  <2>2. ASSUME NEW i \in 1 .. Len(proxies), name = proxies[i], k = base + 2 * i + 1
        PROVE  transactions[k] = Code(name, build)
    <3>1. 2 * i + 1 \in 1 .. Len(transactions) - base /\ base + (2 * i + 1) = k
      BY <1>1, <1>3, <2>2
    <3> QED
      BY <2>2, <3>1 DEF SentFrom, DeploysFrom
  <2> QED
    BY <1>2, <2>1, <2>2
<1> QED
  BY <1>1, <1>4 DEF FitsBefore, k

LEMMA CreatedImplementation ==
  ASSUME NEW transactions, NEW chain, IsChain(transactions, chain), NEW height \in Nat,
         NEW address \in DOMAIN chain, chain[address].ok, address <= height, Creates(transactions[address]),
         \A n \in DOMAIN chain : ~IsUpgrade(transactions[n])
  PROVE  ImplementationAt(transactions, chain, height, address) = transactions[address].value
<1> DEFINE writers == Writers(transactions, chain, height, address)
<1>1. writers = {address}
  BY DEF Writers
<1>2. Max(writers) \in writers
  <2>1. writers \subseteq 1 .. height
    BY <1>1, ChainFields
  <2> HIDE DEF writers
  <2> QED
    BY <1>1, <2>1, MaxIsElement
<1> HIDE DEF writers
<1> QED
  BY <1>1, <1>2 DEF ImplementationAt, writers

\* A deployment that is all on the chain is what its manifest describes.
LEMMA DeployedDescribed ==
  ASSUME NEW proxies, NEW helpers, Deployable(proxies, helpers), NEW build \in Builds,
         NEW script, DeploysFrom(0, proxies, build, script),
         NEW chain, IsChain(script, chain), Len(chain) = Len(script), \A n \in DOMAIN chain : chain[n].ok,
         NEW m, m.contracts = DeployedOf(proxies, helpers, 0), m.release = build
  PROVE  Describes(m, Len(script), script, chain)
<1> DEFINE contracts == DeployedOf(proxies, helpers, 0)
<1>1. /\ Len(script) \in Nat /\ DOMAIN script = 1 .. Len(script) /\ DOMAIN chain = 1 .. Len(script)
      /\ Len(proxies) \in Nat /\ 2 * Len(proxies) + 2 <= Len(script)
  BY ChainFields DEF DeploysFrom, Deployable
<1>2. SentFrom(0, script, script)
  BY <1>1 DEF SentFrom
<1>3. CodesFit(contracts, build, script)
  BY <1>1, <1>2, DeployedFits
<1>4. \A n \in DOMAIN chain : ~IsUpgrade(script[n])
  BY <1>1 DEF DeploysFrom, Silent
<1>5. ASSUME NEW name \in Upgradeable(contracts)
      PROVE  /\ ProxyOf(contracts, name) \in 1 .. Len(script)
             /\ contracts[name].implementation \in DOMAIN script
             /\ ImplementationAt(script, chain, Len(script), ProxyOf(contracts, name)) = contracts[name].implementation
  <2> DEFINE code == contracts[name].implementation
             proxy == ProxyOf(contracts, name)
  <2>1. \/ code = 0 + 1 /\ proxy = 0 + 2
        \/ \E i \in 1 .. Len(proxies) : code = 0 + 2 * i + 1 /\ proxy = 0 + 2 * i + 2
    BY <1>5, DeployedPlaces
  <2> HIDE DEF code, proxy
  <2>2. /\ code \in 1 .. Len(script) /\ proxy \in 1 .. Len(script)
        /\ script[proxy] = Proxy(code) \/ script[proxy] = Beacon(code)
    <3>1. CASE code = 0 + 1 /\ proxy = 0 + 2
      <4>1. script[2] = Beacon(0 + 1)
        BY DEF DeploysFrom
      <4>2. proxy = 2
        BY <1>1, <3>1
      <4> QED
        BY <1>1, <3>1, <4>1, <4>2
    <3>2. ASSUME NEW i \in 1 .. Len(proxies), code = 0 + 2 * i + 1, proxy = 0 + 2 * i + 2
          PROVE  code \in 1 .. Len(script) /\ proxy \in 1 .. Len(script) /\ script[proxy] = Proxy(code)
      <4>1. script[2 * i + 2] = Proxy(0 + 2 * i + 1)
        BY DEF DeploysFrom
      <4>2. proxy = 2 * i + 2
        BY <1>1, <3>2
      <4> QED
        BY <1>1, <3>2, <4>1, <4>2
    <3> QED
      BY <2>1, <3>1, <3>2
  <2>3. Creates(script[proxy]) /\ script[proxy].value = code
    BY <2>2 DEF Creates, Proxy, Beacon
  <2>4. ImplementationAt(script, chain, Len(script), proxy) = code
    BY <1>1, <1>4, <2>2, <2>3, CreatedImplementation
  <2> QED
    BY <1>1, <2>2, <2>4 DEF code, proxy
<1>6. InPlace(contracts, Len(script), script, chain)
  BY <1>5 DEF InPlace
<1> QED
  BY <1>3, <1>6, DeployedApart DEF Describes

-----------------------------------------------------------------------------
\* A contract that is added: the others stay as they are.

\* What was there before the script fits the next release too.
LEMMA OldFits ==
  ASSUME NEW m, NEW height, NEW transactions, NEW chain, Describes(m, height, transactions, chain),
         exists(m), NEW source, source.contracts = m.contracts, source.release = m.release,
         NEW build \in Builds, validateStorage(source, build), NEW name \in Upgradeable(m.contracts)
  PROVE  FitsBefore(name, transactions[m.contracts[name].implementation], build)
<1>1. FitsBefore(name, transactions[m.contracts[name].implementation], m.release)
  BY DEF Describes, CodesFit, InPlace
<1>2. name \in UpgradeTargets /\ <<m.release, build>> \in Compatible[name]
  BY CoreNames DEF validateStorage, recorded, Upgradeable
<1>3. m.release \in Builds
  BY <1>1, <1>2, ReleaseAssumption DEF FitsBefore
<1> QED
  BY <1>1, <1>2, <1>3, CompatibleOnward

LEMMA AddedFits ==
  ASSUME NEW m, NEW height \in Nat, NEW transactions, NEW chain, Describes(m, height, transactions, chain),
         exists(m), NEW source, source.contracts = m.contracts, source.release = m.release,
         IsManifest(source), NEW base \in Nat, height <= base,
         NEW build \in Builds, validateStorage(source, build), NEW name \in Missing,
         DOMAIN transactions = 1 .. Len(transactions), Len(transactions) \in Nat,
         SentFrom(base, MissingScript(name, source, base, build), transactions)
  PROVE  LET contracts == mergeMissingHelpers(source, MissingContracts(name, base), build).contracts
         IN  CodesFit(contracts, build, transactions) /\ Apart(contracts)
<1> DEFINE contracts == mergeMissingHelpers(source, MissingContracts(name, base), build).contracts
           added == IF name \in ProxyNames THEN StandardEntry(base + 2, base + 1) ELSE StandardEntry(0, base + 1)
<1>1. contracts = [n \in Names |-> IF n = name THEN added ELSE m.contracts[n]]
  BY DEF mergeMissingHelpers, MissingContracts, IsManifest
<1>2. /\ name \in Names /\ name \notin {"Validator", "ValidatorBeacon"}
      /\ UpgradeTargets \subseteq Names /\ "ValidatorBeacon" \in Names
  BY DeploymentAssumption, CoreNames DEF Core
<1>3. added.implementation = base + 1 /\ (name \in ProxyNames => added.address = base + 2)
  BY DEF StandardEntry
<1> HIDE DEF contracts, added
<1>4. \A n \in Upgradeable(contracts) : n # name => n \in Upgradeable(m.contracts) /\ contracts[n] = m.contracts[n]
  BY <1>1, <1>2 DEF Upgradeable
<1>5. ASSUME NEW n \in Upgradeable(contracts), contracts[n].implementation \in DOMAIN transactions
      PROVE  FitsBefore(n, transactions[contracts[n].implementation], build)
  <2>1. CASE n # name
    BY <1>4, <2>1, OldFits
  <2>2. CASE n = name
    <3>1. contracts[n].implementation = base + 1
      BY <1>1, <1>2, <1>3, <2>2
    <3>2. transactions[base + 1] = MissingScript(name, source, base, build)[1]
      <4>1. 1 \in 1 .. Len(transactions) - base
        BY <1>5, <3>1
      <4> QED
        BY <4>1 DEF SentFrom
    <3>3. MissingScript(name, source, base, build)[1] = Code(name, build)
      BY DEF MissingScript
    <3>4. <<build, build>> \in Compatible[name]
      BY <2>2, ReleaseAssumption DEF Upgradeable
    <3> QED
      BY <2>2, <3>1, <3>2, <3>3, <3>4 DEF FitsBefore
  <2> QED
    BY <2>1, <2>2
<1>6. \A n \in Upgradeable(contracts) : n # name => ProxyOf(contracts, n) = ProxyOf(m.contracts, n)
  BY <1>1, <1>2, <1>4 DEF ProxyOf
<1>7. \A n \in Upgradeable(contracts) : n # name => ProxyOf(contracts, n) \in 1 .. height
  BY <1>4, <1>6 DEF Describes, InPlace
<1>8. name \in Upgradeable(contracts) => ProxyOf(contracts, name) = base + 2
  BY <1>1, <1>2, <1>3 DEF Upgradeable, UpgradeTargets, ProxyOf
<1>9. ASSUME NEW a \in Upgradeable(contracts), NEW b \in Upgradeable(contracts),
             ProxyOf(contracts, a) = ProxyOf(contracts, b)
      PROVE  a = b
  <2>1. CASE a = name \/ b = name
    BY <1>7, <1>8, <1>9, <2>1
  <2>2. CASE a # name /\ b # name
    BY <1>4, <1>6, <1>9, <2>2 DEF Describes, Apart
  <2> QED
    BY <2>1, <2>2
<1> QED
  BY <1>5, <1>9 DEF CodesFit, Apart, contracts

-----------------------------------------------------------------------------
\* Contracts that are upgraded, each at most once.

Once(operations) == \A i, j \in DOMAIN operations : operations[i].target = operations[j].target => i = j

LEMMA UpgradedPlaces ==
  ASSUME NEW m, NEW operations, UpgradeApplies(m.contracts, operations), Once(operations)
  PROVE  LET contracts == applyUpgrades(m.contracts, operations)
         IN  /\ Upgradeable(contracts) = Upgradeable(m.contracts)
             /\ \A name \in Upgradeable(contracts) :
                  /\ ProxyOf(contracts, name) = ProxyOf(m.contracts, name)
                  /\ expectedImplementation(m, name, operations) = contracts[name].implementation
                  /\ \/ \E i \in DOMAIN operations :
                          /\ operations[i].target = name
                          /\ contracts[name].implementation = operations[i].newImplementation
                     \/ contracts[name] = m.contracts[name]
<1> DEFINE contracts == applyUpgrades(m.contracts, operations)
<1>1. UpgradedTo(contracts, m.contracts, operations, Len(operations))
  BY UpgradesApplied
<1>2. /\ DOMAIN operations = 1 .. Len(operations) /\ Len(operations) \in Nat
      /\ UpgradeTargets \subseteq Names /\ "ValidatorBeacon" \notin UpgradeTargets /\ "ValidatorBeacon" \in Names
      /\ m.contracts["ValidatorBeacon"] # None
  BY CoreNames DEF UpgradeApplies, Core
<1> HIDE DEF contracts
<1>3. Upgradeable(contracts) = Upgradeable(m.contracts)
  BY <1>1, <1>2 DEF UpgradedTo, Upgradeable
<1>4. ASSUME NEW name \in Upgradeable(contracts)
      PROVE  ProxyOf(contracts, name) = ProxyOf(m.contracts, name)
  BY <1>1, <1>2, <1>3 DEF UpgradedTo, Upgradeable, ProxyOf
<1>5. ASSUME NEW name \in Upgradeable(contracts)
      PROVE  /\ expectedImplementation(m, name, operations) = contracts[name].implementation
             /\ \/ \E i \in DOMAIN operations :
                     /\ operations[i].target = name
                     /\ contracts[name].implementation = operations[i].newImplementation
                \/ contracts[name] = m.contracts[name]
  <2>1. name \in UpgradeTargets /\ name # "ValidatorBeacon" /\ name \in Names
    BY <1>2 DEF Upgradeable
  <2>2. CASE \A i \in DOMAIN operations : operations[i].target # name
    <3>1. contracts[name] = m.contracts[name]
      BY <1>1, <1>2, <2>1, <2>2 DEF UpgradedTo
    <3>2. replacement(name, operations) = {}
      BY <2>2 DEF replacement
    <3> QED
      BY <2>1, <3>1, <3>2 DEF expectedImplementation
  <2>3. ASSUME NEW i \in DOMAIN operations, operations[i].target = name
        PROVE  /\ contracts[name].implementation = operations[i].newImplementation
               /\ expectedImplementation(m, name, operations) = operations[i].newImplementation
    <3>1. \A j \in i + 1 .. Len(operations) : operations[j].target # operations[i].target
      BY <1>2 DEF Once
    <3>2. contracts[name].implementation = operations[i].newImplementation
      BY <1>1, <1>2, <2>3, <3>1 DEF UpgradedTo
    <3>3. replacement(name, operations) = {operations[i]}
      BY <2>3 DEF replacement, Once
    <3>4. (CHOOSE item \in replacement(name, operations) : TRUE) = operations[i]
      BY <3>3
    <3>5. replacement(name, operations) # {}
      BY <3>3
    <3> QED
      BY <2>1, <3>2, <3>4, <3>5 DEF expectedImplementation
  <2> QED
    BY <2>2, <2>3
<1> QED
  BY <1>3, <1>4, <1>5 DEF contracts

UpgradesFrom(base, targets, contracts, build, script) ==
  LET n == Len(targets)
  IN  /\ Len(script) = 2 * n
      /\ \A i \in 1 .. n :
           /\ script[i] = Code(targets[i], build)
           /\ script[n + i] = Call(ProxyOf(contracts, targets[i]), "implementation", base + i)

LEMMA UpgradeScriptSays ==
  ASSUME NEW S, NEW targets \in Seq(S), NEW source, NEW base, NEW build
  PROVE  UpgradesFrom(base, targets, source.contracts, build, UpgradeScript(targets, source, base, build))
<1> DEFINE codes == [i \in DOMAIN targets |-> Code(targets[i], build)]
           calls == [i \in DOMAIN targets |-> Call(ProxyOf(source.contracts, targets[i]), "implementation", base + i)]
           S2 == {codes[i] : i \in DOMAIN targets} \cup {calls[i] : i \in DOMAIN targets}
<1>1. Len(targets) \in Nat /\ DOMAIN targets = 1 .. Len(targets)
  OBVIOUS
<1>2. UpgradeScript(targets, source, base, build) = codes \o calls
  BY DEF UpgradeScript, ProxyOf
<1>3. /\ \A i \in 1 .. Len(targets) : codes[i] \in S2 /\ calls[i] \in S2
      /\ DOMAIN codes = 1 .. Len(targets) /\ codes = [i \in 1 .. Len(targets) |-> codes[i]]
      /\ DOMAIN calls = 1 .. Len(targets) /\ calls = [i \in 1 .. Len(targets) |-> calls[i]]
  BY <1>1
<1>4. \A i \in 1 .. Len(targets) :
        /\ codes[i] = Code(targets[i], build)
        /\ calls[i] = Call(ProxyOf(source.contracts, targets[i]), "implementation", base + i)
  BY <1>1
<1> HIDE DEF codes, calls, S2
<1>5. codes \in Seq(S2) /\ calls \in Seq(S2) /\ Len(codes) = Len(targets) /\ Len(calls) = Len(targets)
  BY <1>1, <1>3, SequenceMade
<1>6. /\ Len(codes \o calls) = Len(codes) + Len(calls)
      /\ \A i \in 1 .. Len(codes) : (codes \o calls)[i] = codes[i]
      /\ \A i \in 1 .. Len(calls) : (codes \o calls)[Len(codes) + i] = calls[i]
  <2>1. codes \in Seq(S2) /\ calls \in Seq(S2)
    BY <1>5
  <2> QED
    BY <2>1, SequencesJoined
<1>7. Len(codes) + Len(calls) = 2 * Len(targets)
  BY <1>1, <1>5
<1> QED
  BY <1>2, <1>4, <1>5, <1>6, <1>7 DEF UpgradesFrom

LEMMA UpgradedFits ==
  ASSUME NEW m, NEW height, NEW transactions, NEW chain, Describes(m, height, transactions, chain),
         exists(m), NEW source, source.contracts = m.contracts, source.release = m.release,
         NEW base \in Nat, NEW build \in Builds, validateStorage(source, build),
         NEW targets \in Seq(UpgradeTargets), NEW artifact \in Artifacts,
         UpgradeApplies(m.contracts, UpgradeOperations(targets, artifact, base)),
         \A i, j \in DOMAIN targets : targets[i] = targets[j] => i = j,
         DOMAIN transactions = 1 .. Len(transactions), Len(transactions) \in Nat,
         SentFrom(base, UpgradeScript(targets, source, base, build), transactions)
  PROVE  LET operations == UpgradeOperations(targets, artifact, base)
             contracts == applyUpgrades(m.contracts, operations)
         IN  Once(operations) /\ CodesFit(contracts, build, transactions) /\ Apart(contracts)
<1> DEFINE operations == UpgradeOperations(targets, artifact, base)
           contracts == applyUpgrades(m.contracts, operations)
<1>1. /\ DOMAIN operations = DOMAIN targets /\ DOMAIN targets = 1 .. Len(targets) /\ Len(targets) \in Nat
      /\ \A i \in DOMAIN targets : operations[i].target = targets[i] /\ operations[i].newImplementation = base + i
  BY OperationsMade
<1> HIDE DEF operations
<1>2. Once(operations)
  BY <1>1 DEF Once
<1>3. /\ Upgradeable(contracts) = Upgradeable(m.contracts)
      /\ \A name \in Upgradeable(contracts) :
           /\ ProxyOf(contracts, name) = ProxyOf(m.contracts, name)
           /\ \/ \E i \in DOMAIN operations :
                   /\ operations[i].target = name
                   /\ contracts[name].implementation = operations[i].newImplementation
              \/ contracts[name] = m.contracts[name]
  BY <1>2, UpgradedPlaces DEF operations
<1> HIDE DEF contracts
<1>4. Apart(contracts)
  BY <1>3 DEF Describes, Apart
<1>5. ASSUME NEW name \in Upgradeable(contracts), contracts[name].implementation \in DOMAIN transactions
      PROVE  FitsBefore(name, transactions[contracts[name].implementation], build)
  <2>1. CASE contracts[name] = m.contracts[name]
    <3>1. FitsBefore(name, transactions[m.contracts[name].implementation], build)
      BY <1>3, OldFits
    <3> QED
      BY <2>1, <3>1
  <2>2. ASSUME NEW i \in DOMAIN targets, targets[i] = name, contracts[name].implementation = base + i
        PROVE  FitsBefore(name, transactions[contracts[name].implementation], build)
    <3>1. i \in 1 .. Len(transactions) - base /\ i \in 1 .. Len(targets)
      BY <1>1, <1>5, <2>2
    <3>2. transactions[base + i] = Code(name, build)
      BY <2>2, <3>1, UpgradeScriptSays DEF SentFrom, UpgradesFrom
    <3>3. <<build, build>> \in Compatible[name]
      BY ReleaseAssumption DEF Upgradeable
    <3> QED
      BY <2>2, <3>2, <3>3 DEF FitsBefore
  <2> QED
    BY <1>1, <1>3, <2>1, <2>2
<1> QED
  BY <1>2, <1>4, <1>5 DEF CodesFit, contracts, operations

-----------------------------------------------------------------------------
\* One more transaction is sent.

LEMMA OneMoreCall ==
  ASSUME NEW m, NEW height \in Nat, NEW S, NEW transactions \in Seq(S), RecentCalls(m, height, transactions), NEW item,
         IsUpgrade(item) =>
           /\ FitsCall(m, item, transactions)
           /\ \A k \in height + 1 .. Len(transactions) :
                IsUpgrade(transactions[k]) => transactions[k].contract # item.contract
  PROVE  RecentCalls(m, height, Append(transactions, item))
<1> DEFINE others == Append(transactions, item)
           n == Len(transactions)
<1>1. /\ n \in Nat /\ DOMAIN transactions = 1 .. n /\ Len(others) = n + 1 /\ others[n + 1] = item
      /\ DOMAIN others = 1 .. n + 1
      /\ \A k \in 1 .. n : others[k] = transactions[k]
  OBVIOUS
<1> HIDE DEF others, n
<1>2. \A other : FitsCall(m, other, transactions) => FitsCall(m, other, others)
  BY <1>1 DEF FitsCall
<1>3. \A k \in height + 1 .. n + 1 : k = n + 1 \/ (k \in height + 1 .. n /\ k \in 1 .. n)
  BY <1>1
<1>4. ASSUME NEW k \in height + 1 .. Len(others), IsUpgrade(others[k])
      PROVE  FitsCall(m, others[k], others)
  BY <1>1, <1>2, <1>3, <1>4 DEF RecentCalls, n
<1>5. ASSUME NEW i \in height + 1 .. Len(others), NEW j \in height + 1 .. Len(others),
             IsUpgrade(others[i]), IsUpgrade(others[j]), others[i].contract = others[j].contract
      PROVE  i = j
  BY <1>1, <1>3, <1>5 DEF RecentCalls, n
<1> QED
  BY <1>4, <1>5 DEF RecentCalls, others

LEMMA OneMoreSent ==
  ASSUME NEW m, NEW height \in Nat, NEW transactions, NEW chain, IsChain(transactions, chain),
         History(m, height, transactions, chain),
         NEW item, NEW next, IsChain(Append(transactions, item), next), SameUpTo(height, chain, next),
         IsUpgrade(item) =>
           /\ FitsCall(m, item, transactions)
           /\ \A k \in height + 1 .. Len(transactions) :
                IsUpgrade(transactions[k]) => transactions[k].contract # item.contract
  PROVE  History(m, height, Append(transactions, item), next)
<1> DEFINE others == Append(transactions, item)
<1>1. Grown(transactions, others)
  BY DEF Grown, IsChain
<1>2. RecentCalls(m, height, others)
  BY OneMoreCall DEF History, IsChain
<1> HIDE DEF others
<1>3. IsChain(others, next)
  BY DEF others
<1>4. Describes(m, height, others, next)
  BY <1>1, <1>3, DescriptionKept DEF History
<1>5. ASSUME NEW n \in DOMAIN next, next[n].ok, n <= height, IsUpgrade(others[n])
      PROVE  Extends(n, others, next)
  <2>1. n \in 1 .. height /\ n \in Nat \ {0}
    BY <1>3, <1>5, ChainFields
  <2>2. n \in DOMAIN chain /\ chain[n].ok /\ n \in DOMAIN transactions
    BY <1>5, <2>1, ChainFields DEF SameUpTo
  <2>3. Extends(n, transactions, chain)
    BY <1>1, <1>5, <2>2 DEF History, Grown
  <2> QED
    BY <1>1, <1>3, <1>5, <2>1, <2>3, ExtensionKept
<1> QED
  BY <1>2, <1>4, <1>5 DEF History, others

-----------------------------------------------------------------------------
\* What the check of the live contracts finds, the manifest describes.

LEMMA ChainIsChain ==
  ASSUME ChainTypeOK
  PROVE  /\ IsChain(sent, blocks)
         /\ final \in Nat /\ Len(blocks) \in Nat /\ Len(sent) \in Nat
         /\ final <= Len(blocks) /\ Len(blocks) <= Len(sent)
         /\ DOMAIN sent = 1 .. Len(sent) /\ executed \subseteq 1 .. Len(sent)
<1>1. IsChain(sent, blocks)
  BY DEF ChainTypeOK, IsChain
<1>2. Len(blocks) \in Nat /\ Len(sent) \in Nat /\ Len(blocks) <= Len(sent) /\ DOMAIN sent = 1 .. Len(sent)
      /\ DOMAIN blocks \subseteq DOMAIN sent
  BY <1>1, ChainFields
<1>3. final \in Nat /\ final <= Len(blocks)
  BY <1>2 DEF ChainTypeOK
<1> QED
  BY <1>1, <1>2, <1>3 DEF executed

LEMMA LiveDescribes ==
  ASSUME ChainTypeOK, NEW m, NEW operations, verifyLiveDeployment(m, operations),
         NEW other, Upgradeable(other.contracts) = Upgradeable(m.contracts),
         \A name \in Upgradeable(other.contracts) :
           /\ ProxyOf(other.contracts, name) = ProxyOf(m.contracts, name)
           /\ expectedImplementation(m, name, operations) = other.contracts[name].implementation,
         CodesFit(other.contracts, other.release, sent), Apart(other.contracts)
  PROVE  Describes(other, Len(sent), sent, blocks)
<1>1. ASSUME NEW name \in Upgradeable(other.contracts)
      PROVE  /\ ProxyOf(other.contracts, name) \in 1 .. Len(sent)
             /\ other.contracts[name].implementation \in DOMAIN sent
             /\ ImplementationAt(sent, blocks, Len(sent), ProxyOf(other.contracts, name))
                  = other.contracts[name].implementation
  <2> DEFINE code == expectedImplementation(m, name, operations)
             proxy == ProxyOf(m.contracts, name)
  <2>1. /\ name \in recorded(m) /\ name # "ValidatorBeacon" /\ name \in ProxyNames \cup {"Validator"}
        /\ "ValidatorBeacon" \in recorded(m)
    <3>1. name \in UpgradeTargets /\ m.contracts[name] # None
      BY DEF Upgradeable
    <3>2. "ValidatorBeacon" \in Names \ {"SectorEvidenceAdapter"}
      BY CoreNames DEF Core
    <3> QED
      BY <3>1, <3>2, CoreNames DEF recorded, verifyLiveDeployment, UpgradeTargets
  <2>2. hasCode(code) /\ hasCode(proxy) /\ live(proxy, "implementation") = code
    <3>1. hasCode(code) /\ (name \in ProxyNames =>
            hasCode(m.contracts[name].address) /\ live(m.contracts[name].address, "implementation") = code)
      BY <2>1 DEF verifyLiveDeployment, verifyManifestContracts
    <3>2. CASE name = "Validator"
      <4>1. verifyBeacon(m, operations)
        BY <2>1 DEF verifyLiveDeployment, verifyManifestContracts
      <4> QED
        BY <3>1, <3>2, <4>1 DEF verifyBeacon, ProxyOf
    <3>3. CASE name # "Validator"
      BY <2>1, <3>1, <3>3 DEF ProxyOf
    <3> QED
      BY <3>2, <3>3
  <2>3. proxy \in 1 .. Len(sent) /\ code \in 1 .. Len(sent)
    BY <2>2, ChainIsChain DEF hasCode
  <2>4. ImplementationAt(sent, blocks, Len(sent), proxy) = code
    BY <2>2, ImplementationIs DEF live
  <2>5. proxy = ProxyOf(other.contracts, name) /\ code = other.contracts[name].implementation
    OBVIOUS
  <2> HIDE DEF proxy, code
  <2> QED
    BY <2>3, <2>4, <2>5, ChainIsChain
<1>2. InPlace(other.contracts, Len(sent), sent, blocks)
  BY <1>1 DEF InPlace
<1> QED
  BY <1>2 DEF Describes

-----------------------------------------------------------------------------
\* The steps.  The history depends on the canonical manifest only through the
\* release and its contracts.

SameRelease ==
  /\ exists(latest)' <=> exists(latest)
  /\ latest'.contracts = latest.contracts /\ latest'.release = latest.release

LEMMA HistoryOfRelease ==
  ASSUME NEW m, NEW other, exists(m) <=> exists(other), m.contracts = other.contracts, m.release = other.release,
         NEW height, NEW transactions, NEW chain, History(m, height, transactions, chain)
  PROVE  History(other, height, transactions, chain)
<1>1. Describes(other, height, transactions, chain)
  BY DEF History, Describes
<1>2. RecentCalls(other, height, transactions)
  BY DEF History, RecentCalls, FitsCall
<1> QED
  BY <1>1, <1>2 DEF History

LEMMA SettledKept ==
  ASSUME ChainTypeOK, NEW h, Settled(h), UNCHANGED chainVars, SameRelease,
         Calm' => Calm,
         cmd'.at \in Running => \/ cmd.at \in Running /\ cmd'.base = cmd.base
                                \/ Calm /\ cmd'.base = Len(sent)
  PROVE  Settled(h)'
<1>1. h \in 0 .. final /\ h <= Len(sent) /\ sent' = sent /\ blocks' = blocks /\ final' = final
  BY ChainIsChain DEF Settled, chainVars
<1>2. History(latest', h, sent, blocks)
  <2>1. exists(latest') <=> exists(latest)
    BY DEF SameRelease, exists
  <2> QED
    BY <2>1, HistoryOfRelease DEF Settled, SameRelease
<1>3. Calm' => QuietBetween(h, Len(sent), sent)
  BY DEF Settled
<1>4. cmd'.at \in Running => h <= cmd'.base /\ QuietBetween(h, cmd'.base, sent)
  BY <1>1 DEF Settled
<1> QED
  BY <1>1, <1>2, <1>3, <1>4 DEF Settled

LEMMA CommandMoves ==
  ASSUME ChainTypeOK, LayoutInv, UNCHANGED <<chainVars, journal>>, SameRelease,
         Calm' => Calm,
         cmd'.at \in Running => \/ cmd.at \in Running /\ cmd'.base = cmd.base
                                \/ Calm /\ cmd'.base = Len(sent),
         CommandTells(cmd', tree', latest', sent)
  PROVE  LayoutInv'
<1>1. \E h \in Nat : Settled(h)'
  <2>1. PICK h \in Nat : Settled(h)
    BY DEF LayoutInv
  <2> QED
    BY <2>1, SettledKept
<1>2. sent' = sent /\ blocks' = blocks /\ final' = final /\ journal' = journal
  BY DEF chainVars
<1> QED
  BY <1>1, <1>2 DEF LayoutInv

\* A journal is written too.
LEMMA JournalMoves ==
  ASSUME ChainTypeOK, Shapes, LayoutInv, UNCHANGED chainVars, SameRelease,
         NEW op, NEW p, journal' = [journal EXCEPT ![op] = p], JournalTells(p, final, sent, blocks),
         Calm' => Calm, cmd'.at \notin Running,
         CommandTells(cmd', tree', latest', sent)
  PROVE  LayoutInv'
<1>1. \E h \in Nat : Settled(h)'
  <2>1. PICK h \in Nat : Settled(h)
    BY DEF LayoutInv
  <2> QED
    BY <2>1, SettledKept
<1>2. sent' = sent /\ blocks' = blocks /\ final' = final
  BY DEF chainVars
<1>3. \A operation \in Operations : JournalTells(journal'[operation], final, sent, blocks)
  BY DEF LayoutInv, Shapes
<1> QED
  BY <1>1, <1>2, <1>3 DEF LayoutInv

-----------------------------------------------------------------------------
\* The chain moves on.  What is final stays, and a checked journal waits for
\* nothing any more.

LEMMA MovesAboveFinal ==
  ASSUME ChainTypeOK, ChainTypeOK', MineAgain \/ Reorganize \/ FinalizeHeight
  PROVE  /\ sent' = sent /\ final <= final' /\ final # Len(sent)
         /\ SameUpTo(final, blocks, blocks')
<1>1. /\ final \in Nat /\ Len(blocks) \in Nat /\ Len(sent) \in Nat /\ final <= Len(blocks) /\ Len(blocks) <= Len(sent)
      /\ blocks \in Seq([hash : Nat, ok : BOOLEAN]) /\ DOMAIN blocks = 1 .. Len(blocks)
  BY ChainIsChain DEF ChainTypeOK
<1>2. CASE MineAgain
  <2>1. PICK ok \in Outcomes : blocks' = Append(blocks, [hash |-> reorgs, ok |-> ok])
    BY <1>2 DEF MineAgain
  <2>2. SameUpTo(final, blocks, blocks')
    BY <1>1, <2>1 DEF SameUpTo
  <2> QED
    BY <1>1, <1>2, <2>2 DEF MineAgain
<1>3. CASE Reorganize
  <2>1. PICK n \in final .. Len(blocks) - 1 : blocks' = SubSeq(blocks, 1, n)
    BY <1>3 DEF Reorganize
  <2>2. n \in Nat /\ n <= Len(blocks) /\ DOMAIN blocks' = 1 .. n /\ \A k \in 1 .. n : blocks'[k] = blocks[k]
    BY <1>1, <2>1
  <2>3. SameUpTo(final, blocks, blocks')
    BY <1>1, <2>1, <2>2 DEF SameUpTo
  <2> QED
    BY <1>1, <1>3, <2>1, <2>3 DEF Reorganize
<1>4. CASE FinalizeHeight
  <2>1. SameUpTo(final, blocks, blocks')
    BY <1>1, <1>4 DEF FinalizeHeight, SameUpTo
  <2>2. final < Len(blocks) /\ final' \in final + 1 .. Len(blocks) /\ sent' = sent
    BY <1>4 DEF FinalizeHeight
  <2> QED
    BY <1>1, <2>1, <2>2
<1> QED
  BY <1>2, <1>3, <1>4

LEMMA ChainAloneLayout ==
  ASSUME TypeInv, TypeInv', LayoutInv, chainAlone
  PROVE  LayoutInv'
<1>1. /\ sent' = sent /\ final <= final' /\ final # Len(sent) /\ SameUpTo(final, blocks, blocks')
      /\ UNCHANGED <<tree, latest, journal, cmd>>
  BY MovesAboveFinal DEF TypeInv, chainAlone, unchangedFiles, sourceVars
<1>2. PICK h \in Nat : Settled(h)
  BY DEF LayoutInv
<1>3. h <= final /\ h <= final' /\ final \in Nat /\ final' \in Nat
  <2>1. final \in Nat /\ final' \in Nat
    BY ChainIsChain DEF TypeInv, ChainTypeOK
  <2> QED
    BY <1>1, <1>2, <2>1 DEF Settled
<1>4. History(latest, h, sent, blocks')
  <2>1. SameUpTo(h, blocks, blocks')
    BY <1>1, <1>3 DEF SameUpTo
  <2>2. IsChain(sent, blocks) /\ IsChain(sent, blocks')
    BY <1>1 DEF TypeInv, ChainTypeOK, IsChain
  <2> QED
    BY <1>2, <2>1, <2>2, HistoryKept DEF Settled
<1>5. Settled(h)'
  <2>1. Calm' = Calm
    BY <1>1 DEF Calm, noPendingOperation, unfinished
  <2> QED
    BY <1>1, <1>2, <1>3, <1>4, <2>1 DEF Settled
<1>6. \A operation \in Operations : JournalTells(journal[operation], final', sent, blocks')
  BY <1>1 DEF LayoutInv, JournalTells
<1> QED
  BY <1>1, <1>2, <1>5, <1>6 DEF LayoutInv

-----------------------------------------------------------------------------
\* A script is sent.

LEMMA NetworkDeployable ==
  /\ Deployable(ProxyOrder, HelperOrder) /\ Policy \in BOOLEAN
  /\ {"PoRepMarket", "DataCapEvidenceAdapter"} \subseteq Range(ProxyOrder)
  /\ Policy => "SPRegistry" \in Range(ProxyOrder)
<1>1. Deployable(ProxyOrder, HelperOrder) /\ Range(ProxyOrder) = ProxyNames
  BY ReleaseAssumption DEF Deployable, ProxyNames, HelperNames, Range
<1> QED
  BY <1>1, DeploymentAssumption

LEMMA OnlyUpgradesUpgrade ==
  ASSUME IInv, TypeInv, CommandTells(cmd, tree, latest, sent), cmd.at = "broadcast", cmd.kind # "upgrade",
         NEW k \in 1 .. Len(cmd.script)
  PROVE  ~IsUpgrade(cmd.script[k])
<1>1. /\ cmd.script = ScriptOf(cmd)
      /\ cmd.base \in Nat
      /\ cmd.kind # "tokens" => cmd.kind \in {"deploy", "missing"} /\ cmd.build \in Builds
  <2>1. cmd.base \in 0 .. Len(sent) /\ Len(sent) \in Nat
    BY ChainIsChain DEF TypeInv, CommandTyped
  <2>2. cmd.script = ScriptOf(cmd)
    BY DEF CommandTells
  <2>3. cmd.kind # "tokens" => cmd.kind \in {"deploy", "missing"} /\ cmd.build \in Builds
    BY DEF IInv, StartInv, Sending, KindMatches, FreshPending
  <2> QED
    BY <2>1, <2>2, <2>3
<1>2. CASE cmd.kind = "deploy"
  <2> DEFINE script == DeployScript(ProxyOrder, HelperOrder, Policy, cmd.base, cmd.build)
  <2>1. DeploysFrom(cmd.base, ProxyOrder, cmd.build, script)
    BY <1>1, <1>2, NetworkDeployable, DeployScriptSays
  <2>2. cmd.script = script
    BY <1>1, <1>2 DEF ScriptOf
  <2> HIDE DEF script
  <2>3. cmd.script \in Seq(Silent)
    BY <2>1, <2>2 DEF DeploysFrom
  <2> QED
    BY <2>3 DEF Silent
<1>3. CASE cmd.kind = "missing"
  <2>1. cmd.script = MissingScript(cmd.request, cmd.source, cmd.base, cmd.build)
    BY <1>1, <1>3 DEF ScriptOf
  <2>2. CASE cmd.request = "SectorEvidenceAdapter"
    <3>1. cmd.script = <<Code(cmd.request, cmd.build), Proxy(cmd.base + 1),
                         Call(cmd.source.contracts["PoRepMarket"].address, "evidenceAdapter", cmd.base + 2)>>
      BY <2>1, <2>2 DEF MissingScript
    <3> QED
      BY <3>1 DEF IsUpgrade, Code, Proxy, Call
  <2>3. CASE cmd.request # "SectorEvidenceAdapter"
    BY <2>1, <2>3 DEF MissingScript, IsUpgrade, Code
  <2> QED
    BY <2>2, <2>3
<1>4. CASE cmd.kind = "tokens"
  <2>1. cmd.script = TokenScript(cmd.source)
    BY <1>1, <1>4 DEF ScriptOf
  <2> QED
    BY <2>1 DEF TokenScript, IsUpgrade, Call
<1> QED
  BY <1>1, <1>2, <1>3, <1>4

LEMMA UpgradeCalls ==
  ASSUME NEW targets, Len(targets) \in Nat, NEW contracts, NEW base, NEW build, NEW script,
         UpgradesFrom(base, targets, contracts, build, script),
         NEW k \in 1 .. Len(script), IsUpgrade(script[k])
  PROVE  \E i \in 1 .. Len(targets) :
           /\ k = Len(targets) + i
           /\ script[k].contract = ProxyOf(contracts, targets[i])
           /\ script[k].value = base + i
<1> DEFINE n == Len(targets)
<1>1. /\ n \in Nat /\ Len(script) = 2 * n
      /\ \A i \in 1 .. n :
           /\ script[i] = Code(targets[i], build)
           /\ script[n + i] = Call(ProxyOf(contracts, targets[i]), "implementation", base + i)
  BY DEF UpgradesFrom
<1> HIDE DEF n
<1>2. ASSUME k \in 1 .. n PROVE FALSE
  <2>1. script[k] = Code(targets[k], build)
    BY <1>1, <1>2
  <2> QED
    BY <2>1 DEF IsUpgrade, Code
<1>3. k - n \in 1 .. n /\ k = n + (k - n)
  BY <1>1, <1>2
<1>4. script[k] = Call(ProxyOf(contracts, targets[k - n]), "implementation", base + (k - n))
  BY <1>1, <1>3
<1>5. script[k].contract = ProxyOf(contracts, targets[k - n]) /\ script[k].value = base + (k - n)
  BY <1>4 DEF Call
<1> QED
  BY <1>3, <1>5 DEF n

LEMMA NextUpgradeFits ==
  ASSUME TypeInv, CommandTells(cmd, tree, latest, sent), cmd.at = "broadcast", cmd.kind = "upgrade",
         cmd.build \in Builds, NEW h \in Nat, Settled(h),
         sentByScript + 1 \in 1 .. Len(cmd.script), IsUpgrade(cmd.script[sentByScript + 1])
  PROVE  LET item == cmd.script[sentByScript + 1]
         IN  /\ FitsCall(latest, item, sent)
             /\ \A n \in h + 1 .. Len(sent) : IsUpgrade(sent[n]) => sent[n].contract # item.contract
<1> DEFINE targets == cmd.request[1]
           base == cmd.base
           script == UpgradeScript(targets, cmd.source, base, cmd.build)
           k == sentByScript + 1
<1>1. /\ cmd.script = script /\ SentFrom(base, script, sent)
      /\ targets \in Seq(UpgradeTargets) /\ DOMAIN targets = 1 .. Len(targets) /\ Len(targets) \in Nat
      /\ \A i, j \in DOMAIN targets : targets[i] = targets[j] => i = j
      /\ \A i \in DOMAIN targets : targets[i] \in Upgradeable(latest.contracts)
      /\ exists(latest) /\ latest.contracts = cmd.source.contracts /\ latest.release = cmd.source.release
      /\ base \in 0 .. Len(sent) /\ Len(sent) \in Nat /\ DOMAIN sent = 1 .. Len(sent)
  <2>1. CommandTyped(cmd, Len(sent)) /\ ChainTypeOK
    BY DEF TypeInv
  <2>2. targets \in Seq(UpgradeTargets) /\ \A i \in DOMAIN targets : targets[i] \in recorded(cmd.source)
    BY <2>1 DEF CommandTyped
  <2>3. DOMAIN targets = 1 .. Len(targets) /\ Len(targets) \in Nat /\ \A i \in DOMAIN targets : targets[i] \in UpgradeTargets
    BY <2>2
  <2>4. exists(latest) /\ latest.contracts = cmd.source.contracts /\ latest.release = cmd.source.release
    BY DEF CommandTells
  <2>5. \A i \in DOMAIN targets : targets[i] \in Upgradeable(latest.contracts)
    BY <2>2, <2>3, <2>4 DEF recorded, Upgradeable
  <2>6. cmd.script = script /\ SentFrom(base, script, sent)
    BY DEF CommandTells, ScriptOf, Running
  <2>7. base \in 0 .. Len(sent)
    BY <2>1 DEF CommandTyped
  <2> QED
    BY <2>1, <2>2, <2>3, <2>4, <2>5, <2>6, <2>7, ChainIsChain DEF CommandTells
<1>2. /\ History(latest, h, sent, blocks) /\ h <= base /\ QuietBetween(h, base, sent)
      /\ validateStorage(cmd.source, cmd.build)
  BY DEF Settled, CommandTells, Running
<1>3. Apart(latest.contracts)
  BY <1>1, <1>2 DEF History, Describes
<1>4. /\ k = Len(sent) - base + 1 /\ k \in 1 .. Len(script) /\ IsUpgrade(script[k])
      /\ UpgradesFrom(base, targets, latest.contracts, cmd.build, script)
  BY <1>1, UpgradeScriptSays DEF sentByScript
<1> HIDE DEF targets, base, script, k
<1>5. PICK i \in 1 .. Len(targets) :
        /\ k = Len(targets) + i
        /\ script[k].contract = ProxyOf(latest.contracts, targets[i]) /\ script[k].value = base + i
  <2>1. Len(targets) \in Nat /\ k \in 1 .. Len(script) /\ IsUpgrade(script[k])
        /\ UpgradesFrom(base, targets, latest.contracts, cmd.build, script)
    BY <1>1, <1>4
  <2> QED
    BY ONLY <2>1, UpgradeCalls
<1>6. FitsCall(latest, script[k], sent)
  <2>1. i \in 1 .. Len(sent) - base /\ base + i \in DOMAIN sent
    BY <1>1, <1>4, <1>5
  <2>2. sent[base + i] = Code(targets[i], cmd.build)
    BY <1>1, <1>4, <2>1 DEF SentFrom, UpgradesFrom
  <2>3. targets[i] \in UpgradeTargets \cap recorded(cmd.source)
    BY <1>1, CoreNames DEF Upgradeable, recorded
  <2>4. <<latest.release, cmd.build>> \in Compatible[targets[i]]
    BY <1>1, <1>2, <2>3 DEF validateStorage
  <2>5. FitsAfter(targets[i], sent[base + i], latest.release)
    BY <2>2, <2>4 DEF FitsAfter
  <2> QED
    BY <1>1, <1>5, <2>1, <2>5 DEF FitsCall
<1>7. ASSUME NEW n \in h + 1 .. Len(sent), IsUpgrade(sent[n]), sent[n].contract = script[k].contract
      PROVE  FALSE
  <2> DEFINE l == n - base
  <2>1. n > base
    BY <1>1, <1>2, <1>7 DEF QuietBetween
  <2>2. l \in 1 .. Len(sent) - base /\ base + l = n /\ l < k /\ l \in Int
    BY <1>1, <1>4, <2>1
  <2> HIDE DEF l
  <2>3. sent[n] = script[l] /\ l \in 1 .. Len(script)
    <3>1. Len(sent) - base <= Len(script) /\ Len(script) \in Nat
      BY <1>1, <1>4 DEF SentFrom, UpgradesFrom
    <3>2. sent[base + l] = script[l]
      BY <1>1, <2>2 DEF SentFrom
    <3> QED
      BY <1>1, <2>2, <3>1, <3>2
  <2>4. PICK j \in 1 .. Len(targets) : l = Len(targets) + j /\ script[l].contract = ProxyOf(latest.contracts, targets[j])
    <3>1. Len(targets) \in Nat /\ l \in 1 .. Len(script) /\ IsUpgrade(script[l])
          /\ UpgradesFrom(base, targets, latest.contracts, cmd.build, script)
      BY <1>1, <1>4, <1>7, <2>3
    <3> QED
      BY ONLY <3>1, UpgradeCalls
  <2>5. targets[j] = targets[i]
    <3>1. targets[i] \in Upgradeable(latest.contracts) /\ targets[j] \in Upgradeable(latest.contracts)
      BY <1>1
    <3>2. ProxyOf(latest.contracts, targets[j]) = ProxyOf(latest.contracts, targets[i])
      BY ONLY <1>5, <1>7, <2>3, <2>4
    <3> QED
      BY ONLY <1>3, <3>1, <3>2 DEF Apart
  <2>6. j = i
    BY <1>1, <2>5
  <2> QED
    BY <1>1, <1>5, <2>2, <2>4, <2>6
<1> QED
  BY <1>1, <1>6, <1>7 DEF k

\* While a script is sent, no journal says anything of it yet.
LEMMA NothingRecorded ==
  ASSUME NEW p, p.broadcast = None, p.operations = <<>>, ~exists(p.resultManifest),
         NEW height, NEW transactions, NEW chain
  PROVE  JournalTells(p, height, transactions, chain)
<1>1. DOMAIN p.operations = {}
  OBVIOUS
<1>2. ~evidenceComplete(p)
  BY DEF evidenceComplete
<1> QED
  BY <1>1, <1>2 DEF JournalTells

LEMMA NothingRecordedYet ==
  ASSUME IInv, cmd.at \in Sending, NEW operation \in Operations, NEW height, NEW transactions, NEW chain
  PROVE  JournalTells(journal[operation], height, transactions, chain)
<1>1. CASE cmd.kind = "tokens"
  BY <1>1 DEF IInv, TokensInv, noPendingOperation, JournalTells
<1>2. CASE cmd.kind # "tokens"
  <2>1. KindMatches /\ FreshPending /\ journal[cmd.operation] = cmd.pending
    BY <1>2 DEF IInv, StartInv
  <2>2. CASE operation = cmd.operation
    BY <2>1, <2>2, NothingRecorded DEF FreshPending
  <2>3. CASE operation # cmd.operation
    <3>1. journal[operation].status # "pending"
      BY <2>1, <2>3 DEF IInv, JournalInv, OneUnfinished, unfinished, KindMatches, FreshPending, Operations
    <3> QED
      BY <3>1 DEF JournalTells
  <2> QED
    BY <2>2, <2>3
<1> QED
  BY <1>1, <1>2

LEMMA BroadcastLayout ==
  ASSUME IInv, TypeInv, TypeInv', LayoutInv, broadcast
  PROVE  LayoutInv'
<1> DEFINE item == cmd.script[sentByScript + 1]
<1>1. /\ cmd.at = "broadcast" /\ sentByScript \in 0 .. Len(cmd.script) - 1
      /\ Len(blocks) = Len(sent) /\ sent' = Append(sent, item) /\ final' = final
      /\ UNCHANGED <<tree, latest, journal, cmd>>
  BY DEF broadcast, SendAndMine, unchangedFiles, sourceVars
<1>2. PICK block : blocks' = Append(blocks, block)
  BY DEF broadcast, SendAndMine
<1>3. /\ IsChain(sent, blocks) /\ IsChain(sent', blocks') /\ final \in Nat /\ Len(sent) \in Nat
      /\ final <= Len(blocks) /\ DOMAIN sent = 1 .. Len(sent) /\ DOMAIN blocks = 1 .. Len(blocks)
  <2>1. IsChain(sent', blocks')
    BY DEF TypeInv, ChainTypeOK, IsChain
  <2> QED
    BY <2>1, ChainIsChain DEF TypeInv, IsChain
<1>4. /\ cmd.script = ScriptOf(cmd) /\ CommandTells(cmd, tree, latest, sent)
      /\ cmd.base \in 0 .. Len(sent) /\ Len(cmd.script) \in Nat
      /\ sentByScript + 1 \in 1 .. Len(cmd.script)
  <2>1. CommandTells(cmd, tree, latest, sent)
    BY DEF LayoutInv
  <2>2. cmd.base \in 0 .. Len(sent) /\ cmd.script \in Seq(Transactions)
    BY <1>1 DEF TypeInv, CommandTyped
  <2>3. Len(cmd.script) \in Nat
    BY <2>2
  <2>4. cmd.script = ScriptOf(cmd)
    BY <1>1, <2>1 DEF CommandTells
  <2> QED
    BY <1>1, <2>1, <2>2, <2>3, <2>4
<1>5. PICK h \in Nat : Settled(h)
  BY DEF LayoutInv
<1> HIDE DEF item
<1>6. Len(sent') = Len(sent) + 1 /\ sent'[Len(sent) + 1] = item /\ \A n \in 1 .. Len(sent) : sent'[n] = sent[n]
  BY <1>1, <1>3 DEF IsChain
<1>7. IsUpgrade(item) => cmd.kind = "upgrade"
  BY <1>1, <1>4, OnlyUpgradesUpgrade DEF item
<1>8. History(latest, h, sent', blocks')
  <2>1. SameUpTo(h, blocks, blocks')
    <3>1. h <= Len(blocks)
      BY <1>3, <1>5 DEF Settled
    <3>2. \A n \in 1 .. Len(blocks) : n \in DOMAIN blocks /\ n \in DOMAIN blocks' /\ blocks'[n] = blocks[n]
      BY <1>2, <1>3 DEF IsChain
    <3> QED
      BY <1>3, <3>1, <3>2 DEF SameUpTo
  <2>2. ASSUME IsUpgrade(item)
        PROVE  /\ FitsCall(latest, item, sent)
               /\ \A n \in h + 1 .. Len(sent) : IsUpgrade(sent[n]) => sent[n].contract # item.contract
    <3>1. cmd.kind = "upgrade" /\ cmd.build \in Builds
      BY <1>1, <1>7, <2>2 DEF IInv, StartInv, Sending, FreshPending
    <3> QED
      BY <1>1, <1>4, <1>5, <2>2, <3>1, NextUpgradeFits DEF item
  <2>3. IsChain(Append(sent, item), blocks')
    BY <1>1, <1>3
  <2>4. History(latest, h, sent, blocks)
    BY <1>5 DEF Settled
  <2>5. History(latest, h, Append(sent, item), blocks')
    BY <1>3, <2>1, <2>2, <2>3, <2>4, OneMoreSent
  <2> QED
    BY <1>1, <2>5
<1>9. Settled(h)'
  <2>1. h \in 0 .. final /\ h <= cmd.base /\ QuietBetween(h, cmd.base, sent')
    BY <1>1, <1>4, <1>5, <1>6 DEF Settled, Running, QuietBetween
  <2>2. ASSUME Calm PROVE QuietBetween(h, Len(sent'), sent')
    <3>1. noPendingOperation
      BY <1>1, <2>2 DEF Calm
    <3>2. cmd.kind = "tokens"
      BY <1>1, <3>1 DEF IInv, StartInv, Sending, KindMatches, FreshPending, noPendingOperation, Operations
    <3>3. ~IsUpgrade(item)
      BY <1>7, <3>2
    <3>4. QuietBetween(h, Len(sent), sent)
      BY <1>5, <2>2 DEF Settled
    <3>5. ASSUME NEW n \in h + 1 .. Len(sent') PROVE ~IsUpgrade(sent'[n])
      <4>1. n = Len(sent) + 1 \/ (n \in h + 1 .. Len(sent) /\ n \in 1 .. Len(sent))
        BY <1>3, <1>6
      <4> QED
        BY <1>6, <3>3, <3>4, <4>1 DEF QuietBetween
    <3> QED
      BY <3>5 DEF QuietBetween
  <2>3. Calm' = Calm
    BY <1>1 DEF Calm, noPendingOperation, unfinished
  <2> QED
    BY <1>1, <1>8, <2>1, <2>2, <2>3 DEF Settled
<1>10. CommandTells(cmd, tree, latest, sent')
  <2>1. SentFrom(cmd.base, cmd.script, sent')
    <3>1. SentFrom(cmd.base, cmd.script, sent)
      BY <1>1, <1>4 DEF CommandTells, Running
    <3>2. Len(sent') - cmd.base <= Len(cmd.script)
      BY <1>1, <1>3, <1>4, <1>6 DEF sentByScript
    <3>3. ASSUME NEW j \in 1 .. Len(sent') - cmd.base
          PROVE  sent'[cmd.base + j] = cmd.script[j]
      <4>1. CASE j \in 1 .. Len(sent) - cmd.base
        <5>1. cmd.base + j \in 1 .. Len(sent)
          BY <1>3, <1>4, <4>1
        <5> QED
          BY <1>6, <3>1, <4>1, <5>1 DEF SentFrom
      <4>2. CASE j \notin 1 .. Len(sent) - cmd.base
        <5>1. j = sentByScript + 1 /\ cmd.base + j = Len(sent) + 1
          BY <1>3, <1>4, <1>6, <4>2 DEF sentByScript
        <5> QED
          BY <1>6, <5>1 DEF item
      <4> QED
        BY <4>1, <4>2
    <3> QED
      BY <3>2, <3>3 DEF SentFrom
  <2> QED
    BY <1>1, <1>4, <2>1 DEF CommandTells
<1>11. \A operation \in Operations : JournalTells(journal[operation], final, sent', blocks')
  BY <1>1, NothingRecordedYet DEF Sending
<1> QED
  BY <1>1, <1>5, <1>9, <1>10, <1>11 DEF LayoutInv
-----------------------------------------------------------------------------
\* One step after the other.  Most commands know nothing of a script.

LEMMA IdleTells ==
  ASSUME NEW c, c.at \notin {"preflight", "journal", "forge", "receipts", "finality", "live"} \cup Running,
         c.kind \notin {"missing", "upgrade"},
         NEW build, NEW canonical, NEW transactions
  PROVE  CommandTells(c, build, canonical, transactions)
  BY DEF CommandTells, Running

LEMMA StopsLayout ==
  ASSUME ChainTypeOK, LayoutInv, UNCHANGED <<chainVars, latest, journal>>, cmd' = NoCommand
  PROVE  LayoutInv'
<1>1. cmd'.at = "idle" /\ cmd'.kind = "none"
  BY DEF NoCommand
<1>2. CommandTells(cmd', tree', latest', sent)
  BY <1>1, IdleTells DEF Running
<1>3. Calm' => Calm
  BY <1>1 DEF Calm, noPendingOperation
<1> QED
  BY <1>1, <1>2, <1>3, CommandMoves DEF SameRelease, exists, Running

LEMMA OneStartLayout ==
  ASSUME ChainTypeOK, LayoutInv, noPendingOperation,
         NEW step \in {"build", "tokens", "forge"}, NEW kind, NEW operation, NEW request,
         start(step, kind, operation, request), step # "build" => kind = "tokens",
         kind \in {"missing", "upgrade"} => exists(latest),
         kind = "upgrade" => \A i, j \in DOMAIN request[1] : request[1][i] = request[1][j] => i = j
  PROVE  LayoutInv'
<1>1. /\ cmd'.at = step /\ cmd'.kind = kind /\ cmd'.request = request /\ cmd'.source = latest
      /\ UNCHANGED <<chainVars, latest, journal>>
  BY DEF start, NoCommand
<1>2. CommandTells(cmd', tree', latest', sent)
  BY <1>1 DEF CommandTells, Running
<1> QED
  BY <1>1, <1>2, CommandMoves DEF SameRelease, exists, Running, Calm

LEMMA StartLayout == ASSUME TypeInv, LayoutInv, startCommand PROVE LayoutInv'
<1>1. ChainTypeOK
  BY DEF TypeInv
<1>2. CASE \E fresh \in BOOLEAN : deploy(fresh)
  <2>1. start("build", "deploy", "deploy", None) /\ noPendingOperation
    BY <1>2 DEF deploy, broadcastPreflight
  <2> QED
    BY <1>1, <2>1, OneStartLayout
<1>3. CASE \E name \in Missing : deployMissing(name)
  <2>1. PICK name \in Missing :
          start("build", "missing", "deploy", name) /\ exists(latest) /\ noPendingOperation
    BY <1>3 DEF deployMissing, broadcastPreflight, cleanCanonicalManifest
  <2> QED
    BY <1>1, <2>1, OneStartLayout
<1>4. CASE \E u \in Upgrades : upgrade(u[1], u[2])
  <2>1. PICK u \in Upgrades :
          /\ start("build", "upgrade", "upgrade", <<u[1], u[2]>>)
          /\ exists(latest) /\ validateTargets(latest, u[1]) /\ noPendingOperation
    BY <1>4 DEF upgrade, broadcastPreflight, cleanCanonicalManifest
  <2>2. \A i, j \in DOMAIN u[1] : u[1][i] = u[1][j] => i = j
    BY <2>1 DEF validateTargets, IsInjective
  <2>3. PICK request : request = <<u[1], u[2]>>
    OBVIOUS
  <2>4. request[1] = u[1]
    BY <2>3
  <2> QED
    BY <1>1, <2>1, <2>2, <2>3, <2>4, OneStartLayout
<1>5. CASE configurePaymentTokens
  <2>1. PICK step \in {"tokens", "forge"} : start(step, "tokens", "none", None) /\ noPendingOperation
    BY <1>5 DEF configurePaymentTokens, broadcastPreflight
  <2> QED
    BY <1>1, <2>1, OneStartLayout
<1> QED
  BY <1>2, <1>3, <1>4, <1>5 DEF startCommand

\* A command knows of its request what it knew before.
LEMMA CommandGoes ==
  ASSUME NEW c, NEW d, NEW build, NEW canonical, NEW transactions,
         CommandTells(c, build, canonical, transactions),
         d.kind = c.kind, d.request = c.request, d.source = c.source,
         d.at \in {"preflight", "journal", "forge"},
         d.kind # "tokens" => build = d.build,
         d.kind \in {"missing", "upgrade"} /\ d.at # "preflight" => validateStorage(d.source, d.build)
  PROVE  CommandTells(d, build, canonical, transactions)
<1>1. d.kind = "upgrade" => \A i, j \in DOMAIN d.request[1] : d.request[1][i] = d.request[1][j] => i = j
  BY DEF CommandTells
<1>2. d.kind \in {"missing", "upgrade"} =>
        /\ exists(canonical)
        /\ canonical.contracts = d.source.contracts /\ canonical.release = d.source.release
  BY DEF CommandTells
<1> QED
  BY <1>1, <1>2 DEF CommandTells, Running

LEMMA BuildLayout == ASSUME IInv, TypeInv, LayoutInv, buildContracts PROVE LayoutInv'
<1>1. /\ cmd.at = "build" /\ cmd' = [cmd EXCEPT !.at = "preflight", !.build = tree] /\ IsCommand(cmd)
      /\ UNCHANGED <<chainVars, latest, journal, tree>> /\ ChainTypeOK
      /\ CommandTells(cmd, tree, latest, sent)
  BY DEF buildContracts, unchangedFiles, unchangedOthers, sourceVars, IInv, Shapes, TypeInv, LayoutInv
<1>2. /\ cmd'.at = "preflight" /\ cmd'.build = tree /\ cmd'.kind = cmd.kind /\ cmd'.request = cmd.request
      /\ cmd'.source = cmd.source
  BY <1>1 DEF IsCommand
<1>3. CommandTells(cmd', tree', latest', sent)
  BY <1>1, <1>2, CommandGoes
<1>4. Calm' => Calm
  BY <1>1, <1>2 DEF Calm, noPendingOperation
<1> QED
  BY <1>1, <1>2, <1>3, <1>4, CommandMoves DEF SameRelease, exists, Running

LEMMA RetainBuildInfoLayout == ASSUME IInv, TypeInv, LayoutInv, retainBuildInfo PROVE LayoutInv'
<1>1. /\ cmd.at = "preflight" /\ cmd' = [cmd EXCEPT !.at = "journal", !.pending = newPending] /\ IsCommand(cmd)
      /\ UNCHANGED <<chainVars, latest, journal, tree>> /\ ChainTypeOK /\ preflightPasses
      /\ CommandTells(cmd, tree, latest, sent)
  BY DEF retainBuildInfo, unchangedOthers, sourceVars, IInv, Shapes, TypeInv, LayoutInv
<1>2. /\ cmd'.at = "journal" /\ cmd'.build = cmd.build /\ cmd'.kind = cmd.kind /\ cmd'.request = cmd.request
      /\ cmd'.source = cmd.source
  BY <1>1 DEF IsCommand
<1>3. cmd.kind \in {"missing", "upgrade"} => validateStorage(cmd.source, cmd.build)
  BY <1>1 DEF preflightPasses, storagePreflight
<1>4. CommandTells(cmd', tree', latest', sent)
  <2>1. cmd.kind # "tokens" => tree = cmd.build
    BY <1>1 DEF CommandTells
  <2> QED
    BY <1>1, <1>2, <1>3, <2>1, CommandGoes
<1>5. Calm
  BY <1>1 DEF Calm, preflightPasses
<1> QED
  BY <1>1, <1>2, <1>4, <1>5, CommandMoves DEF SameRelease, exists, Running

LEMMA PendingStartLayout == ASSUME IInv, TypeInv, LayoutInv, retainPendingStart PROVE LayoutInv'
<1>1. /\ cmd.at = "journal" /\ cmd' = [cmd EXCEPT !.at = "forge"] /\ IsCommand(cmd)
      /\ journal' = [journal EXCEPT ![cmd.operation] = cmd.pending]
      /\ UNCHANGED <<chainVars, latest, tree>> /\ ChainTypeOK /\ Shapes
      /\ CommandTells(cmd, tree, latest, sent)
  BY DEF retainPendingStart, unchangedOthers, sourceVars, IInv, Shapes, TypeInv, LayoutInv
<1>2. /\ cmd'.at = "forge" /\ cmd'.build = cmd.build /\ cmd'.kind = cmd.kind /\ cmd'.request = cmd.request
      /\ cmd'.source = cmd.source
  BY <1>1 DEF IsCommand
<1>3. Calm /\ JournalTells(cmd.pending, final, sent, blocks)
  BY <1>1, NothingRecorded DEF Calm, IInv, StartInv, FreshPending
<1>4. CommandTells(cmd', tree', latest', sent)
  <2>1. /\ cmd.kind # "tokens" => tree = cmd.build
        /\ cmd.kind \in {"missing", "upgrade"} => validateStorage(cmd.source, cmd.build)
    BY <1>1 DEF CommandTells
  <2> QED
    BY <1>1, <1>2, <2>1, CommandGoes
<1>5. SameRelease
  BY <1>1 DEF SameRelease, exists
<1> QED
  BY <1>1, <1>2, <1>3, <1>4, <1>5, JournalMoves DEF Running

\* A command that sends or records a script knows the script.
LEMMA CommandRuns ==
  ASSUME NEW c, NEW d, NEW build, NEW canonical, NEW transactions,
         CommandTells(c, build, canonical, transactions),
         d.kind = c.kind, d.request = c.request, d.source = c.source, d.at \in Running,
         d.kind \in {"missing", "upgrade"} => validateStorage(d.source, d.build),
         d.at = "broadcast" => d.script = ScriptOf(d),
         SentFrom(d.base, ScriptOf(d), transactions),
         d.at \in {"record", "recordJournal"} =>
           d.file.base = d.base /\ d.file.base + d.file.sent = Len(transactions) /\ d.file.sent <= d.file.total
  PROVE  CommandTells(d, build, canonical, transactions)
<1>1. d.kind = "upgrade" => \A i, j \in DOMAIN d.request[1] : d.request[1][i] = d.request[1][j] => i = j
  BY DEF CommandTells
<1>2. d.kind \in {"missing", "upgrade"} =>
        /\ exists(canonical)
        /\ canonical.contracts = d.source.contracts /\ canonical.release = d.source.release
  BY DEF CommandTells
<1>3. d.at \notin {"preflight", "journal", "forge", "receipts", "finality", "live"}
  BY DEF Running
<1> QED
  BY <1>1, <1>2, <1>3 DEF CommandTells

LEMMA RunForgeLayout == ASSUME IInv, TypeInv, TypeInv', LayoutInv, runForgeScript PROVE LayoutInv'
<1>1. /\ cmd.at = "forge" /\ IsCommand(cmd) /\ ChainTypeOK /\ Len(sent) \in Nat
      /\ UNCHANGED <<chainVars, latest, journal, tree>>
      /\ CommandTells(cmd, tree, latest, sent)
  BY ChainIsChain DEF runForgeScript, unchangedFiles, unchangedOthers, sourceVars, IInv, Shapes, TypeInv, LayoutInv
<1>2. PICK script :
        /\ script = CASE cmd.kind = "deploy" -> DeployScript(ProxyOrder, HelperOrder, Policy, Len(sent), tree)
                      [] cmd.kind = "missing" -> MissingScript(cmd.request, cmd.source, Len(sent), tree)
                      [] cmd.kind = "upgrade" -> UpgradeScript(cmd.request[1], cmd.source, Len(sent), tree)
                      [] OTHER -> TokenScript(cmd.source)
        /\ cmd' = [cmd EXCEPT !.at = "broadcast", !.base = Len(sent), !.script = script]
  BY DEF runForgeScript
<1>3. /\ cmd'.at = "broadcast" /\ cmd'.base = Len(sent) /\ cmd'.script = script /\ cmd'.build = cmd.build
      /\ cmd'.kind = cmd.kind /\ cmd'.request = cmd.request /\ cmd'.source = cmd.source
  BY <1>1, <1>2 DEF IsCommand
<1>4. /\ cmd.kind # "tokens" => tree = cmd.build
      /\ cmd.kind \in {"missing", "upgrade"} => validateStorage(cmd.source, cmd.build)
  BY <1>1 DEF CommandTells
<1>5. cmd.kind \in {"deploy", "missing", "upgrade", "tokens"}
  BY <1>1 DEF IInv, StartInv, KindMatches, Sending
<1>6. cmd'.script = ScriptOf(cmd')
  BY <1>2, <1>3, <1>4, <1>5 DEF ScriptOf
<1>7. SentFrom(cmd'.base, cmd'.script, sent)
  <2>1. cmd'.script \in Seq(Transactions)
    BY <1>3 DEF TypeInv, CommandTyped
  <2>2. Len(cmd'.script) \in Nat
    BY <2>1
  <2>3. Len(sent) - cmd'.base = 0
    BY <1>1, <1>3
  <2> QED
    BY <2>2, <2>3 DEF SentFrom
<1>8. CommandTells(cmd', tree, latest, sent)
  BY <1>1, <1>3, <1>4, <1>6, <1>7, CommandRuns DEF Running
<1>9. Calm /\ SameRelease /\ cmd'.at \in Running
  BY <1>1, <1>3 DEF Calm, SameRelease, exists, Running
<1> QED
  BY <1>1, <1>3, <1>8, <1>9, CommandMoves

LEMMA ForgeLayout == ASSUME IInv, TypeInv, LayoutInv, forgeSucceeds \/ forgeFails PROVE LayoutInv'
<1>1. /\ cmd.at = "broadcast" /\ IsCommand(cmd) /\ ChainTypeOK /\ Len(sent) \in Nat
      /\ UNCHANGED <<chainVars, latest, journal, tree>>
      /\ CommandTells(cmd, tree, latest, sent) /\ cmd.base \in 0 .. Len(sent)
  <2>1. cmd.at = "broadcast" /\ UNCHANGED <<chainVars, latest, journal, tree>>
    BY DEF forgeSucceeds, forgeFails, unchangedFiles, unchangedOthers, sourceVars
  <2>2. cmd.base \in 0 .. Len(sent)
    BY <2>1 DEF TypeInv, CommandTyped
  <2> QED
    BY <2>1, <2>2, ChainIsChain DEF IInv, Shapes, TypeInv, LayoutInv
<1>2. CASE cmd' = NoCommand
  BY <1>1, <1>2, StopsLayout
<1>3. /\ broadcastFile.base = cmd.base /\ broadcastFile.base + broadcastFile.sent = Len(sent)
      /\ broadcastFile.sent <= broadcastFile.total
  <2>1. SentFrom(cmd.base, ScriptOf(cmd), sent) /\ cmd.script = ScriptOf(cmd)
    BY <1>1 DEF CommandTells, Running
  <2>2. Len(sent) - cmd.base <= Len(cmd.script)
    BY <2>1 DEF SentFrom
  <2> QED
    BY <1>1, <2>2 DEF broadcastFile, sentByScript
<1>4. ASSUME cmd'.at \in {"record", "receipts"} PROVE Calm' => Calm
  BY <1>1, <1>4 DEF Calm, noPendingOperation
<1>5. ASSUME NEW failed,
             \/ cmd' = [cmd EXCEPT !.at = "record", !.script = <<>>, !.file = broadcastFile]
             \/ cmd' = [cmd EXCEPT !.at = "record", !.script = <<>>, !.file = broadcastFile, !.failed = failed]
      PROVE  LayoutInv'
  <2>1. /\ cmd'.at = "record" /\ cmd'.kind = cmd.kind /\ cmd'.request = cmd.request /\ cmd'.source = cmd.source
        /\ cmd'.base = cmd.base /\ cmd'.build = cmd.build /\ cmd'.file = broadcastFile
    BY <1>1, <1>5 DEF IsCommand
  <2>2. ScriptOf(cmd') = ScriptOf(cmd)
    BY <2>1 DEF ScriptOf
  <2>3. /\ SentFrom(cmd.base, ScriptOf(cmd), sent)
        /\ cmd.kind \in {"missing", "upgrade"} => validateStorage(cmd.source, cmd.build)
    BY <1>1 DEF CommandTells, Running
  <2>4. CommandTells(cmd', tree, latest, sent)
    BY <1>1, <1>3, <2>1, <2>2, <2>3, CommandRuns DEF Running
  <2>5. cmd.at \in Running /\ SameRelease
    BY <1>1 DEF Running, SameRelease, exists
  <2> QED
    BY <1>1, <1>4, <2>1, <2>4, <2>5, CommandMoves
<1>6. CASE cmd.kind = "tokens" /\ cmd' = [cmd EXCEPT !.at = "receipts", !.script = <<>>, !.file = broadcastFile]
  <2>1. cmd'.at = "receipts" /\ cmd'.kind = "tokens"
    BY <1>1, <1>6 DEF IsCommand
  <2>2. CommandTells(cmd', tree, latest, sent)
    BY <2>1 DEF CommandTells, Running
  <2>3. cmd'.at \notin Running /\ SameRelease
    BY <1>1, <2>1 DEF Running, SameRelease, exists
  <2> QED
    BY <1>1, <1>4, <2>1, <2>2, <2>3, CommandMoves
<1>7. \/ cmd' = NoCommand
      \/ cmd' = [cmd EXCEPT !.at = "record", !.script = <<>>, !.file = broadcastFile]
      \/ cmd' = [cmd EXCEPT !.at = "record", !.script = <<>>, !.file = broadcastFile, !.failed = TRUE]
      \/ cmd.kind = "tokens" /\ cmd' = [cmd EXCEPT !.at = "receipts", !.script = <<>>, !.file = broadcastFile]
  BY DEF forgeSucceeds, forgeFails
<1> QED
  BY <1>2, <1>5, <1>6, <1>7

LEMMA RecordBroadcastLayout == ASSUME IInv, TypeInv, LayoutInv, recordBroadcast PROVE LayoutInv'
<1>1. /\ cmd.at = "record" /\ cmd' = [cmd EXCEPT !.at = "recordJournal"] /\ IsCommand(cmd) /\ ChainTypeOK
      /\ UNCHANGED <<chainVars, latest, journal, tree>>
      /\ CommandTells(cmd, tree, latest, sent)
  BY DEF recordBroadcast, unchangedOthers, sourceVars, IInv, Shapes, TypeInv, LayoutInv
<1>2. /\ cmd'.at = "recordJournal" /\ cmd'.kind = cmd.kind /\ cmd'.request = cmd.request /\ cmd'.source = cmd.source
      /\ cmd'.base = cmd.base /\ cmd'.build = cmd.build /\ cmd'.file = cmd.file
  BY <1>1 DEF IsCommand
<1>3. ScriptOf(cmd') = ScriptOf(cmd)
  BY <1>2 DEF ScriptOf
<1>4. /\ SentFrom(cmd.base, ScriptOf(cmd), sent)
      /\ cmd.kind \in {"missing", "upgrade"} => validateStorage(cmd.source, cmd.build)
      /\ cmd.file.base = cmd.base /\ cmd.file.base + cmd.file.sent = Len(sent) /\ cmd.file.sent <= cmd.file.total
  BY <1>1 DEF CommandTells, Running
<1>5. CommandTells(cmd', tree, latest, sent)
  BY <1>1, <1>2, <1>3, <1>4, CommandRuns DEF Running
<1>6. cmd.at \in Running /\ SameRelease
  BY <1>1 DEF Running, SameRelease, exists
<1>7. Calm' => Calm
  BY <1>1, <1>2 DEF Calm, noPendingOperation
<1> QED
  BY <1>1, <1>2, <1>5, <1>6, <1>7, CommandMoves

\* What is recorded is of its release, and its proxies are apart.
LEMMA RecordedTells ==
  ASSUME IInv, TypeInv, LayoutInv, cmd.at = "recordJournal"
  PROVE  JournalTells(recordedPending, final, sent, blocks)
<1>1. /\ KindMatches /\ FreshPending /\ recordedPending.release = cmd.build /\ IsCommand(cmd)
      /\ recordedPending.operation = cmd.operation /\ recordedPending.previous = cmd.pending.previous
      /\ ~exists(recordedPending.resultManifest) /\ cmd.build \in Builds
  BY RecordedPending DEF IInv, Shapes, FreshPending
<1>2. /\ CommandTells(cmd, tree, latest, sent) /\ CommandTyped(cmd, Len(sent)) /\ ChainTypeOK
      /\ IsTyped(latest) /\ Len(sent) \in Nat /\ DOMAIN sent = 1 .. Len(sent) /\ cmd.base \in Nat
  <2>1. cmd.base \in 0 .. Len(sent) /\ Len(sent) \in Nat /\ DOMAIN sent = 1 .. Len(sent)
    BY ChainIsChain DEF TypeInv, CommandTyped
  <2> QED
    BY <2>1 DEF LayoutInv, TypeInv, FilesTyped
<1>3. /\ SentFrom(cmd.base, ScriptOf(cmd), sent)
      /\ cmd.kind \in {"missing", "upgrade"} =>
           /\ validateStorage(cmd.source, cmd.build) /\ exists(latest)
           /\ latest.contracts = cmd.source.contracts /\ latest.release = cmd.source.release
      /\ cmd.file.base + cmd.file.sent = Len(sent) /\ cmd.file.sent <= cmd.file.total
  BY <1>2 DEF CommandTells, Running
<1>4. PICK h \in Nat : Describes(latest, h, sent, blocks) /\ h <= cmd.base
  BY DEF LayoutInv, Settled, History, Running
<1>5. /\ recordedPending.broadcast = cmd.file
      /\ cmd.kind = "upgrade" =>
           recordedPending.operations = UpgradeOperations(cmd.request[1], cmd.request[2], cmd.base)
      /\ cmd.kind # "upgrade" =>
           /\ recordedPending.operations = <<>>
           /\ recordedPending.result = IF cmd.kind = "missing" THEN recordDeployMissing ELSE recordedDeploy
  BY <1>1 DEF recordedPending, IsCommand, IsPending, FreshPending
<1>6. CASE cmd.kind = "upgrade"
  <2> DEFINE operations == UpgradeOperations(cmd.request[1], cmd.request[2], cmd.base)
  <2>1. /\ cmd.request[1] \in Seq(UpgradeTargets) /\ cmd.request[2] \in Artifacts
        /\ \A i \in DOMAIN cmd.request[1] : cmd.request[1][i] \in recorded(cmd.source)
        /\ cmd.pending.previous = cmd.source
    BY <1>2, <1>6 DEF CommandTyped
  <2>2. UpgradeApplies(latest.contracts, operations)
    <3>1. /\ operations \in Seq(UpgradeOperation) /\ DOMAIN operations = DOMAIN cmd.request[1]
          /\ \A i \in DOMAIN operations : operations[i].target = cmd.request[1][i]
      <4>1. PICK targets, artifact : targets = cmd.request[1] /\ artifact = cmd.request[2]
        OBVIOUS
      <4>2. targets \in Seq(UpgradeTargets) /\ artifact \in Artifacts /\ cmd.base \in Nat
        BY <1>2, <2>1, <4>1
      <4>3. /\ UpgradeOperations(targets, artifact, cmd.base) \in Seq(UpgradeOperation)
            /\ DOMAIN UpgradeOperations(targets, artifact, cmd.base) = DOMAIN targets
            /\ \A i \in DOMAIN targets : UpgradeOperations(targets, artifact, cmd.base)[i].target = targets[i]
        BY ONLY <4>2, OperationsMade
      <4> QED
        BY <4>1, <4>3
    <3>2. latest.contracts \in Contracts /\ latest.contracts["ValidatorBeacon"] # None
      BY <1>2, <1>3, <1>6, ManifestFields DEF IsTyped, Complete, Core, recorded
    <3>3. \A i \in DOMAIN operations : latest.contracts[operations[i].target] # None
      BY <1>3, <1>6, <2>1, <3>1 DEF recorded
    <3> QED
      BY <3>1, <3>2, <3>3 DEF UpgradeApplies
  <2>3. \A i, j \in DOMAIN cmd.request[1] : cmd.request[1][i] = cmd.request[1][j] => i = j
    BY <1>2, <1>6 DEF CommandTells
  <2>4. ScriptOf(cmd) = UpgradeScript(cmd.request[1], cmd.source, cmd.base, cmd.build)
    BY <1>6 DEF ScriptOf
  <2>5. SentFrom(cmd.base, UpgradeScript(cmd.request[1], cmd.source, cmd.base, cmd.build), sent)
    BY <1>3, <2>4
  <2>6. /\ Once(operations) /\ CodesFit(applyUpgrades(latest.contracts, operations), cmd.build, sent)
        /\ Apart(applyUpgrades(latest.contracts, operations))
    BY <1>1, <1>2, <1>3, <1>4, <1>6, <2>1, <2>2, <2>3, <2>5, UpgradedFits
  <2> HIDE DEF operations
  <2>7. evidenceComplete(recordedPending) =>
          proposal(recordedPending).contracts = applyUpgrades(latest.contracts, operations)
    BY <1>1, <1>3, <1>5, <1>6, <2>1 DEF proposal, KindMatches, operations
  <2>8. \A i, j \in DOMAIN recordedPending.operations :
          recordedPending.operations[i].target = recordedPending.operations[j].target => i = j
    BY <1>5, <1>6, <2>6 DEF Once, operations
  <2> QED
    BY <1>1, <1>3, <1>5, <2>6, <2>7, <2>8 DEF JournalTells
<1>7. CASE cmd.kind # "upgrade"
  <2>1. /\ recordedPending.operations = <<>> /\ DOMAIN recordedPending.operations = {}
        /\ evidenceComplete(recordedPending) =>
             proposal(recordedPending).contracts = recordedPending.result.contracts
    BY <1>1, <1>5, <1>7 DEF proposal, KindMatches
  <2>2. CodesFit(recordedPending.result.contracts, cmd.build, sent) /\ Apart(recordedPending.result.contracts)
    <3>1. CASE cmd.kind = "missing"
      <4>1. cmd.request \in Missing /\ IsManifest(cmd.source)
        BY <1>1, <1>2, <3>1 DEF CommandTyped, IsCommand
      <4>2. SentFrom(cmd.base, MissingScript(cmd.request, cmd.source, cmd.base, cmd.build), sent)
        BY <1>3, <3>1 DEF ScriptOf
      <4>3. recordedPending.result = mergeMissingHelpers(cmd.source, MissingContracts(cmd.request, cmd.base), cmd.build)
        BY <1>5, <3>1 DEF recordDeployMissing
      <4> QED
        BY <1>1, <1>2, <1>3, <1>4, <3>1, <4>1, <4>2, <4>3, AddedFits
    <3>2. CASE cmd.kind # "missing"
      <4>1. cmd.kind = "deploy"
        BY <1>1, <1>7, <3>2 DEF KindMatches
      <4> DEFINE script == DeployScript(ProxyOrder, HelperOrder, Policy, cmd.base, cmd.build)
      <4>2. SentFrom(cmd.base, script, sent)
        BY <1>3, <4>1 DEF ScriptOf
      <4>3. DeploysFrom(cmd.base, ProxyOrder, cmd.build, script)
        BY <1>1, <1>2, NetworkDeployable, DeployScriptSays
      <4> HIDE DEF script
      <4>4. recordedPending.result.contracts = DeployedOf(ProxyOrder, HelperOrder, cmd.base)
        BY <1>5, <4>1 DEF recordedDeploy, DeployedOf
      <4>5. CodesFit(DeployedOf(ProxyOrder, HelperOrder, cmd.base), cmd.build, sent)
        BY <1>1, <1>2, <4>2, <4>3, NetworkDeployable, DeployedFits
      <4>6. Apart(DeployedOf(ProxyOrder, HelperOrder, cmd.base))
        BY <1>2, NetworkDeployable, DeployedApart
      <4> QED
        BY <4>4, <4>5, <4>6
    <3> QED
      BY <3>1, <3>2
  <2> QED
    BY <1>1, <1>3, <1>5, <2>1, <2>2 DEF JournalTells
<1> QED
  BY <1>6, <1>7

LEMMA RecordJournalLayout == ASSUME IInv, TypeInv, LayoutInv, recordJournal PROVE LayoutInv'
<1>1. /\ cmd.at = "recordJournal" /\ ChainTypeOK /\ Shapes
      /\ journal' = [journal EXCEPT ![cmd.operation] = recordedPending]
      /\ UNCHANGED <<chainVars, latest, tree>>
  BY DEF recordJournal, unchangedOthers, sourceVars, IInv, TypeInv
<1>2. JournalTells(recordedPending, final, sent, blocks)
  BY <1>1, RecordedTells
<1>3. cmd'.at \in {"idle", "finalize"} /\ cmd'.kind \in {"none", "finalize"}
  BY DEF recordJournal, NoCommand
<1>4. CommandTells(cmd', tree', latest', sent)
  BY <1>3, IdleTells DEF Running
<1>5. ~Calm'
  <2>1. cmd.operation \in Operations /\ recordedPending.status = "pending"
    BY <1>1, RecordedPending
  <2>2. journal'[cmd.operation].status = "pending"
    BY <1>1, <2>1 DEF Shapes
  <2> QED
    BY <1>3, <2>1, <2>2 DEF Calm, noPendingOperation
<1>6. SameRelease /\ cmd'.at \notin Running
  BY <1>1, <1>3 DEF Running, SameRelease, exists
<1> QED
  BY <1>1, <1>2, <1>4, <1>5, <1>6, JournalMoves

-----------------------------------------------------------------------------
\* Finalization.  Where the canonical manifest is the one that was checked, it
\* describes the whole chain.

LEMMA ReleaseOfManifest ==
  ASSUME IInv, TypeInv
  PROVE  exists(latest) => latest.release \in Builds
  BY DEF IInv, BuildInfoRetained, TypeInv, FilesTyped

LEMMA PublishedLayout ==
  ASSUME IInv, TypeInv, LayoutInv, NEW operation \in Operations, unfinished(operation),
         exists(journal[operation].resultManifest), latest' = journal[operation].resultManifest,
         UNCHANGED <<chainVars, journal>>,
         cmd'.at \notin {"preflight", "journal", "forge", "receipts", "finality", "live"} \cup Running,
         cmd'.kind \notin {"missing", "upgrade"}
  PROVE  LayoutInv'
<1>1. IsChain(sent, blocks) /\ Len(sent) \in Nat /\ sent' = sent /\ blocks' = blocks /\ final' = final
      /\ journal' = journal
  BY ChainIsChain DEF TypeInv, chainVars
<1>2. final = Len(sent) /\ Describes(latest', Len(sent), sent, blocks)
  BY DEF LayoutInv, JournalTells, unfinished
<1>3. PICK h \in Nat : Settled(h)
  BY DEF LayoutInv
<1>4. History(latest, h, sent, blocks)
  BY <1>3 DEF Settled
<1>5. History(latest', Len(sent), sent, blocks)
  BY <1>1, <1>2, <1>4, ReleaseOfManifest, HistoryRestarts
<1>6. \A n \in Len(sent) + 1 .. Len(sent) : FALSE
  BY <1>1
<1>7. Settled(Len(sent))'
  BY <1>1, <1>2, <1>5, <1>6 DEF Settled, QuietBetween
<1>8. CommandTells(cmd', tree', latest', sent)
  BY IdleTells
<1> QED
  BY <1>1, <1>7, <1>8 DEF LayoutInv

LEMMA FinalizeLayout ==
  ASSUME IInv, TypeInv, LayoutInv, NEW operation \in Operations, finalize(operation)
  PROVE  LayoutInv'
<1>1. UNCHANGED <<chainVars, latest, journal>> /\ ChainTypeOK
  BY DEF finalize, unchangedFiles, unchangedOthers, TypeInv
<1>2. SameRelease
  BY <1>1 DEF SameRelease, exists
<1>3. CASE finalizePublished(operation)
  <2>1. /\ exists(latest) /\ journal[operation].resultManifest = latest
        /\ cmd'.at = "finish" /\ cmd'.kind = "finalize" /\ cmd'.operation = operation
    BY <1>3 DEF finalizePublished, finalizeAs, classifyCanonicalState, NoCommand
  <2>2. CASE unfinished(operation)
    BY <1>1, <2>1, <2>2, PublishedLayout DEF Running
  <2>3. CASE ~unfinished(operation)
    <3>1. Calm' => Calm
      BY <1>1, <2>1, <2>3 DEF Calm, noPendingOperation, unfinished
    <3>2. CommandTells(cmd', tree', latest', sent)
      BY <2>1, IdleTells DEF Running
    <3>3. cmd'.at \notin Running
      BY <2>1 DEF Running
    <3> QED
      BY <1>1, <1>2, <3>1, <3>2, <3>3, CommandMoves
  <2> QED
    BY <2>2, <2>3
<1>4. CASE finalizeSource(operation)
  <2>1. /\ cmd'.at = "receipts" /\ cmd'.kind = "finalize"
        /\ cmd'.file = journal[operation].broadcast /\ cmd'.pending = journal[operation]
    BY <1>4 DEF finalizeSource, finalizeAs, NoCommand
  <2>2. CommandTells(cmd', tree', latest', sent)
    BY <2>1 DEF CommandTells, Running
  <2>3. Calm' => Calm
    BY <1>1, <2>1 DEF Calm, noPendingOperation
  <2>4. cmd'.at \notin Running
    BY <2>1 DEF Running
  <2> QED
    BY <1>1, <1>2, <2>2, <2>3, <2>4, CommandMoves
<1> QED
  BY <1>3, <1>4 DEF finalize

\* The receipts of a complete broadcast reach to the last transaction.
LEMMA LastIsLoaded ==
  ASSUME NEW file \in Broadcast, ChainTypeOK, file.base + file.sent = Len(sent), file.sent <= file.total,
         canLoadReceipts(extractBroadcastTransactionHashes(file))
  PROVE  \E i \in DOMAIN loadTransactionReceipts(extractBroadcastTransactionHashes(file)) :
           loadTransactionReceipts(extractBroadcastTransactionHashes(file))[i].nonce = Len(sent)
<1> DEFINE nonces == extractBroadcastTransactionHashes(file)
           last == file.total
<1>1. last \in Nat /\ file.base \in Nat /\ file.sent \in Nat /\ executed \subseteq 1 .. Len(sent) /\ Len(sent) \in Nat
  BY ChainIsChain DEF Broadcast
<1>2. /\ DOMAIN nonces = 1 .. last /\ Len(nonces) = last
      /\ \A i \in 1 .. last : nonces[i] = IF i <= file.sent THEN file.base + i ELSE 0
  BY <1>1 DEF extractBroadcastTransactionHashes
<1> HIDE DEF nonces
<1>3. last \in 1 .. last /\ last \in DOMAIN nonces
  BY <1>1, <1>2 DEF canLoadReceipts, nonces
<1>4. nonces[last] \in 1 .. Len(sent)
  BY <1>1, <1>3 DEF canLoadReceipts, nonces, Range
<1>5. nonces[last] = Len(sent)
  BY <1>1, <1>2, <1>3, <1>4
<1>6. /\ DOMAIN loadTransactionReceipts(nonces) = DOMAIN nonces
      /\ loadTransactionReceipts(nonces)[last].nonce = nonces[last]
  BY <1>3 DEF loadTransactionReceipts
<1> QED
  BY <1>3, <1>5, <1>6 DEF nonces

LEMMA ReceiptsLayout ==
  ASSUME IInv, TypeInv, LayoutInv, loadReceipts \/ waitForFilecoinFinality
  PROVE  LayoutInv'
<1>1. UNCHANGED <<chainVars, latest, journal>> /\ ChainTypeOK /\ IsCommand(cmd) /\ CommandTells(cmd, tree, latest, sent)
      /\ cmd.at \in {"receipts", "finality"}
  BY DEF loadReceipts, waitForFilecoinFinality, unchangedFiles, unchangedOthers, TypeInv, IInv, Shapes, LayoutInv
<1>2. cmd.kind \in {"tokens", "finalize"}
  BY <1>1 DEF IInv, FinalizeInv, Checking, Underway
<1>3. /\ cmd'.kind = cmd.kind /\ cmd'.at \in {"finality", "live", "tokens"}
      /\ cmd.kind = "finalize" => \E i \in DOMAIN cmd'.receipts : cmd'.receipts[i].nonce = Len(sent)
  <2>1. CASE loadReceipts
    <3>1. /\ cmd.at = "receipts" /\ cmd'.kind = cmd.kind /\ cmd'.at = "finality"
          /\ canLoadReceipts(extractBroadcastTransactionHashes(cmd.file))
          /\ cmd'.receipts = loadTransactionReceipts(extractBroadcastTransactionHashes(cmd.file))
      BY <1>1, <2>1 DEF loadReceipts, IsCommand
    <3>2. cmd.file \in Broadcast
      BY <3>1 DEF TypeInv, CommandTyped
    <3>3. ASSUME cmd.kind = "finalize" PROVE cmd.file.base + cmd.file.sent = Len(sent) /\ cmd.file.sent <= cmd.file.total
      <4>1. cmd.file = cmd.pending.broadcast
        BY <1>1, <3>1, <3>3 DEF CommandTells
      <4>2. /\ journal[cmd.operation] = cmd.pending /\ cmd.operation \in Operations
            /\ cmd.pending.status = "pending" /\ cmd.pending.broadcast # None
        BY <3>1, <3>3 DEF IInv, FinalizeInv, Checking, Underway, unfinished, evidenceComplete
      <4>3. JournalTells(cmd.pending, final, sent, blocks)
        BY <4>2 DEF LayoutInv
      <4> QED
        BY <4>1, <4>2, <4>3 DEF JournalTells
    <3> QED
      BY <1>1, <3>1, <3>2, <3>3, LastIsLoaded
  <2>2. CASE waitForFilecoinFinality
    <3>1. /\ cmd.at = "finality" /\ cmd'.kind = cmd.kind /\ cmd'.at \in {"live", "tokens"} /\ cmd'.receipts = cmd.receipts
      BY <1>1, <2>2 DEF waitForFilecoinFinality, IsCommand
    <3>2. cmd.kind = "finalize" => \E i \in DOMAIN cmd.receipts : cmd.receipts[i].nonce = Len(sent)
      BY <1>1, <3>1 DEF CommandTells
    <3> QED
      BY <3>1, <3>2
  <2> QED
    BY <2>1, <2>2
<1>4. CommandTells(cmd', tree', latest', sent)
  BY <1>2, <1>3 DEF CommandTells, Running
<1>5. SameRelease /\ cmd'.at \notin Running /\ (Calm' => Calm)
  BY <1>1, <1>3 DEF Running, SameRelease, exists, Calm, noPendingOperation
<1> QED
  BY <1>1, <1>4, <1>5, CommandMoves

\* What is checked is what the manifest to be published says.
\* What is known when the live contracts are checked.
LEMMA CheckingKnows ==
  ASSUME IInv, TypeInv, LayoutInv, cmd.at = "live"
  PROVE  /\ Underway /\ CheckedPending.resultManifest = publishedManifest
         /\ publishedManifest.contracts = proposal(cmd.pending).contracts
         /\ publishedManifest.release = cmd.pending.release
         /\ cmd.operation = "upgrade" => cmd.source = cmd.pending.previous
         /\ JournalTells(cmd.pending, final, sent, blocks) /\ PendingTyped(cmd.pending) /\ ChainTypeOK
         /\ cmd.pending.status = "pending" /\ evidenceComplete(cmd.pending)
<1>1. /\ Underway /\ CheckedPending.resultManifest = publishedManifest
      /\ publishedManifest.contracts = proposal(cmd.pending).contracts
      /\ publishedManifest.release = cmd.pending.release
      /\ cmd.operation = "upgrade" => cmd.source = cmd.pending.previous
  <2>1. CheckedPending.resultManifest = publishedManifest
    <3>1. IsPending(cmd.pending)
      BY DEF IInv, Shapes, IsCommand
    <3> QED
      BY <3>1 DEF CheckedPending, IsPending
  <2>2. cmd.kind # "tokens"
    BY DEF IInv, TokensInv
  <2>3. JournalOf(cmd.operation, CheckedPending)
    BY CheckedPendingFields
  <2>4. CheckedPending.resultManifest.release = CheckedPending.release
    BY <2>3, CheckedPendingFields DEF JournalOf
  <2> QED
    BY <2>1, <2>2, <2>4, CheckedPendingFields DEF IInv, FinalizeInv, Checking
<1>2. JournalTells(cmd.pending, final, sent, blocks) /\ PendingTyped(cmd.pending) /\ ChainTypeOK
      /\ cmd.pending.status = "pending" /\ evidenceComplete(cmd.pending)
  <2>1. PendingTyped(cmd.pending)
    BY DEF TypeInv, CommandTyped
  <2> QED
    BY <1>1, <2>1 DEF Underway, LayoutInv, TypeInv, unfinished
<1> QED
  BY <1>1, <1>2

LEMMA UpgradeUnderway ==
  ASSUME IInv, TypeInv, LayoutInv, cmd.at = "live", cmd.operation = "upgrade"
  PROVE  /\ exists(cmd.source) /\ UpgradeApplies(cmd.source.contracts, cmd.pending.operations)
         /\ Once(cmd.pending.operations)
         /\ publishedManifest.contracts = applyUpgrades(cmd.source.contracts, cmd.pending.operations)
<1> DEFINE operations == cmd.pending.operations
<1>1. /\ Underway /\ publishedManifest.contracts = proposal(cmd.pending).contracts
      /\ cmd.source = cmd.pending.previous
      /\ JournalTells(cmd.pending, final, sent, blocks) /\ PendingTyped(cmd.pending)
      /\ cmd.pending.status = "pending" /\ evidenceComplete(cmd.pending)
  BY CheckingKnows
<1>2. exists(cmd.source) /\ UpgradeApplies(cmd.source.contracts, operations)
  <2>1. /\ operations \in Seq(UpgradeOperation) /\ cmd.pending.previous \in Manifest
        /\ Complete(cmd.pending.previous) /\ operations # <<>>
        /\ \A i \in DOMAIN operations : exists(cmd.pending.previous) /\ operations[i].target \in recorded(cmd.pending.previous)
    <3>1. cmd.pending.operation = "upgrade"
      <4>1. JournalOf(cmd.operation, cmd.pending) /\ exists(cmd.pending)
        BY <1>1 DEF IInv, JournalInv, Underway, exists
      <4> QED
        BY <4>1 DEF JournalOf
    <3> QED
      BY <1>1, <3>1 DEF PendingTyped, PendingOperation, evidenceComplete
  <2>2. DOMAIN operations # {}
    <3>1. Len(operations) # 0 /\ Len(operations) \in Nat /\ DOMAIN operations = 1 .. Len(operations)
      BY <2>1, EmptySeq
    <3> DEFINE n == Len(operations)
    <3>2. n \in Nat /\ n # 0 /\ DOMAIN operations = 1 .. n
      BY <3>1
    <3> HIDE DEF n
    <3>3. 1 \in 1 .. n
      BY <3>2
    <3> QED
      BY <3>2, <3>3
  <2>3. cmd.source.contracts \in Contracts /\ cmd.source.contracts["ValidatorBeacon"] # None
    BY <1>1, <2>1, <2>2, ManifestFields DEF Complete, Core, recorded
  <2> QED
    BY <1>1, <2>1, <2>2, <2>3 DEF UpgradeApplies, recorded
<1>3. Once(operations)
  BY <1>1 DEF JournalTells, Once
<1>4. publishedManifest.contracts = applyUpgrades(cmd.source.contracts, operations)
  <2>1. JournalOf(cmd.operation, cmd.pending) /\ exists(cmd.pending)
    BY <1>1 DEF IInv, JournalInv, Underway, exists
  <2>2. cmd.pending.operation = "upgrade"
    BY <2>1 DEF JournalOf
  <2> QED
    BY <1>1, <2>2 DEF proposal
<1> QED
  BY <1>2, <1>3, <1>4

LEMMA CheckedDescribes ==
  ASSUME IInv, TypeInv, LayoutInv, cmd.at = "live", liveMatches
  PROVE  Describes(publishedManifest, Len(sent), sent, blocks)
<1>1. /\ publishedManifest.contracts = proposal(cmd.pending).contracts
      /\ publishedManifest.release = cmd.pending.release
      /\ JournalTells(cmd.pending, final, sent, blocks) /\ PendingTyped(cmd.pending) /\ ChainTypeOK
      /\ cmd.pending.status = "pending" /\ evidenceComplete(cmd.pending)
  BY CheckingKnows
<1>2. CodesFit(publishedManifest.contracts, publishedManifest.release, sent) /\ Apart(publishedManifest.contracts)
  BY <1>1 DEF JournalTells
<1>3. PICK m : m = publishedManifest
  OBVIOUS
<1>4. CASE cmd.operation = "upgrade"
  <2> DEFINE operations == cmd.pending.operations
  <2>1. verifyLiveDeployment(cmd.source, operations)
    BY <1>4 DEF liveMatches
  <2>2. /\ UpgradeApplies(cmd.source.contracts, operations) /\ Once(operations)
        /\ m.contracts = applyUpgrades(cmd.source.contracts, operations)
    BY <1>3, <1>4, UpgradeUnderway
  <2> HIDE DEF operations
  <2>3. /\ Upgradeable(m.contracts) = Upgradeable(cmd.source.contracts)
        /\ \A name \in Upgradeable(m.contracts) :
             /\ ProxyOf(m.contracts, name) = ProxyOf(cmd.source.contracts, name)
             /\ expectedImplementation(cmd.source, name, operations) = m.contracts[name].implementation
    <3>1. PICK source : source = cmd.source
      OBVIOUS
    <3>2. UpgradeApplies(source.contracts, operations)
      BY <2>2, <3>1
    <3>3. m.contracts = applyUpgrades(source.contracts, operations)
      BY <2>2, <3>1
    <3>4. LET contracts == applyUpgrades(source.contracts, operations)
          IN  /\ Upgradeable(contracts) = Upgradeable(source.contracts)
              /\ \A name \in Upgradeable(contracts) :
                   /\ ProxyOf(contracts, name) = ProxyOf(source.contracts, name)
                   /\ expectedImplementation(source, name, operations) = contracts[name].implementation
      BY ONLY <2>2, <3>2, UpgradedPlaces
    <3> QED
      BY ONLY <3>1, <3>3, <3>4
  <2>4. Describes(m, Len(sent), sent, blocks)
    BY <1>1, <1>2, <1>3, <2>1, <2>3, LiveDescribes
  <2> QED
    BY <1>3, <2>4
<1>5. CASE cmd.operation # "upgrade"
  <2>1. verifyLiveDeployment(m, <<>>)
    BY <1>3, <1>5 DEF liveMatches
  <2>2. \A name \in Upgradeable(m.contracts) :
          expectedImplementation(m, name, <<>>) = m.contracts[name].implementation
    <3>1. ASSUME NEW name \in Upgradeable(m.contracts)
          PROVE  expectedImplementation(m, name, <<>>) = m.contracts[name].implementation
      <4>1. name # "ValidatorBeacon"
        BY CoreNames DEF Upgradeable
      <4>2. replacement(name, <<>>) = {}
        BY DEF replacement
      <4> QED
        BY <4>1, <4>2 DEF expectedImplementation
    <3> QED
      BY <3>1
  <2>3. Describes(m, Len(sent), sent, blocks)
    BY <1>1, <1>2, <1>3, <2>1, <2>2, LiveDescribes
  <2> QED
    BY <1>3, <2>3
<1> QED
  BY <1>4, <1>5

LEMMA CheckLiveLayout == ASSUME IInv, TypeInv, ReceiptInv, LayoutInv, checkLive PROVE LayoutInv'
<1>1. /\ cmd.at = "live" /\ liveMatches /\ UNCHANGED <<chainVars, latest>> /\ ChainTypeOK /\ IsCommand(cmd) /\ Shapes
      /\ journal' = [journal EXCEPT ![cmd.operation] = CheckedPending]
      /\ cmd' = [cmd EXCEPT !.at = "retain", !.source = NoManifest, !.receipts = <<>>, !.pending = CheckedPending]
  BY DEF checkLive, CheckedPending, unchangedOthers, TypeInv, IInv, Shapes
<1>2. /\ Underway /\ cmd'.at = "retain" /\ cmd'.kind = "finalize" /\ cmd'.operation = cmd.operation
      /\ cmd.kind = "finalize"
  BY <1>1, CheckedPendingFields DEF IsCommand, Underway
<1>3. final = Len(sent)
  <2>1. PICK i \in DOMAIN cmd.receipts : cmd.receipts[i].nonce = Len(sent)
    BY <1>1, <1>2 DEF LayoutInv, CommandTells
  <2>2. cmd.receipts[i].nonce <= final
    BY <1>1 DEF ReceiptInv, CommandGood, FinalReceipts, IsFinal
  <2> QED
    BY <1>1, <2>1, <2>2, ChainIsChain
<1>4. JournalTells(CheckedPending, final, sent, blocks)
  <2>1. JournalTells(cmd.pending, final, sent, blocks) /\ cmd.pending.status = "pending" /\ evidenceComplete(cmd.pending)
    BY <1>2 DEF Underway, LayoutInv, unfinished
  <2>2. IsPending(cmd.pending)
    BY <1>1 DEF IsCommand
  <2>3. CheckedPending.resultManifest = publishedManifest /\ CheckedPending.operations = cmd.pending.operations
    BY <2>2 DEF CheckedPending, IsPending
  <2>4. Describes(publishedManifest, Len(sent), sent, blocks)
    BY <1>1, CheckedDescribes
  <2>5. /\ CheckedPending.broadcast = cmd.pending.broadcast /\ CheckedPending.release = cmd.pending.release
        /\ proposal(CheckedPending) = proposal(cmd.pending)
    BY <1>1, CheckedPendingFields
  <2> QED
    BY <1>3, <2>1, <2>3, <2>4, <2>5 DEF JournalTells
<1>5. CommandTells(cmd', tree', latest', sent)
  BY <1>2, IdleTells DEF Running
<1>6. ~Calm'
  <2>1. journal'[cmd.operation].status = "pending" /\ cmd.operation \in Operations
    BY <1>1, <1>2, CheckedPendingFields DEF Shapes, Underway
  <2> QED
    BY <1>2, <2>1 DEF Calm, noPendingOperation
<1>7. SameRelease /\ cmd'.at \notin Running
  BY <1>1, <1>2 DEF Running, SameRelease, exists
<1> QED
  BY <1>1, <1>4, <1>5, <1>6, <1>7, JournalMoves

LEMMA PublishLayout ==
  ASSUME IInv, TypeInv, LayoutInv, publishBuildInfo \/ publishManifest \/ pruneBuildInfo
  PROVE  LayoutInv'
<1>1. UNCHANGED <<chainVars, journal>> /\ ChainTypeOK /\ IsCommand(cmd)
  BY DEF publishBuildInfo, publishManifest, pruneBuildInfo, unchangedOthers, TypeInv, IInv, Shapes
<1>2. CASE publishManifest
  <2>1. /\ cmd.at = "latest" /\ latest' = cmd.pending.resultManifest /\ cmd'.at = "prune" /\ cmd'.kind = cmd.kind
    BY <1>1, <1>2 DEF publishManifest, IsCommand
  <2>2. Underway /\ exists(cmd.pending.resultManifest)
    BY <2>1 DEF IInv, FinalizeInv
  <2> QED
    BY <1>1, <2>1, <2>2, PublishedLayout DEF Underway, Running
<1>3. CASE publishBuildInfo \/ pruneBuildInfo
  <2>1. /\ latest' = latest /\ cmd.at \in {"retain", "prune"} /\ cmd'.at \in {"latest", "verify", "finish"}
        /\ cmd'.kind = cmd.kind /\ cmd'.operation = cmd.operation
        /\ cmd'.at = "finish" => cmd.at = "prune"
    BY <1>1, <1>3 DEF publishBuildInfo, pruneBuildInfo, IsCommand
  <2>2. cmd.kind = "finalize"
    BY <2>1 DEF IInv, FinalizeInv
  <2>3. CommandTells(cmd', tree', latest', sent)
    BY <2>1, <2>2, IdleTells DEF Running
  <2>4. SameRelease /\ cmd'.at \notin Running /\ (Calm' => Calm)
    BY <1>1, <2>1 DEF Running, SameRelease, exists, Calm, noPendingOperation, unfinished
  <2> QED
    BY <1>1, <2>3, <2>4, CommandMoves
<1> QED
  BY <1>2, <1>3

LEMMA FinishLayout == ASSUME IInv, TypeInv, LayoutInv, finishPending PROVE LayoutInv'
<1> DEFINE p == [cmd.pending EXCEPT !.status = "finalized"]
<1>1. /\ cmd.at = "finish" /\ UNCHANGED <<chainVars, latest>> /\ ChainTypeOK /\ IsCommand(cmd) /\ Shapes
      /\ journal' = [journal EXCEPT ![cmd.operation] = p]
      /\ cmd'.at \in {"prune", "verify"} /\ cmd'.kind = cmd.kind /\ cmd'.operation = cmd.operation
  BY DEF finishPending, unchangedOthers, TypeInv, IInv, Shapes, IsCommand
<1>2. cmd.kind = "finalize" /\ cmd.operation \in Operations /\ p.status = "finalized"
  BY <1>1 DEF IInv, FinalizeInv, IsCommand, IsPending
<1> HIDE DEF p
<1>3. JournalTells(p, final, sent, blocks)
  BY <1>2 DEF JournalTells
<1>4. CommandTells(cmd', tree', latest', sent)
  BY <1>1, <1>2, IdleTells DEF Running
<1>5. Calm' => Calm
  <2>1. journal'[cmd.operation].status = "finalized"
        /\ \A operation \in Operations \ {cmd.operation} : journal'[operation] = journal[operation]
    BY <1>1, <1>2 DEF Shapes
  <2> QED
    BY <1>1, <2>1 DEF Calm, noPendingOperation, unfinished
<1>6. SameRelease /\ cmd'.at \notin Running
  BY <1>1 DEF Running, SameRelease, exists
<1> QED
  BY <1>1, <1>3, <1>4, <1>5, <1>6, JournalMoves

\* The manifest is edited, not its contracts; the sources are edited while no
\* command runs.
LEMMA TokensLayout == ASSUME IInv, TypeInv, LayoutInv, updatePaymentTokens PROVE LayoutInv'
<1>1. UNCHANGED <<chainVars, journal>> /\ ChainTypeOK /\ cmd'.at = "idle" /\ cmd'.kind = "none"
  BY DEF updatePaymentTokens, unchangedOthers, TypeInv, NoCommand
<1>2. exists(latest)
  BY DEF IInv, TokensInv, FinalizeInv, updatePaymentTokens
<1>3. SameRelease
  BY <1>2, TokensPublished DEF SameRelease, exists
<1>4. CommandTells(cmd', tree', latest', sent)
  BY <1>1, IdleTells DEF Running
<1>5. cmd'.at \notin Running /\ (Calm' => Calm)
  BY <1>1 DEF Running, Calm, noPendingOperation
<1> QED
  BY <1>1, <1>3, <1>4, <1>5, CommandMoves

LEMMA PeopleLayout ==
  ASSUME EditsWhile \subseteq {"idle"}, IInv, TypeInv, LayoutInv, people \/ UNCHANGED vars
  PROVE  LayoutInv'
<1>1. UNCHANGED <<chainVars, journal, cmd>> /\ ChainTypeOK /\ CommandTells(cmd, tree, latest, sent)
  BY DEF people, editSources, commitSources, commitManifest, editManifest, unchangedFiles, vars, TypeInv, LayoutInv
<1>2. SameRelease
  BY EditedManifest DEF SameRelease, exists, people, editSources, commitSources, commitManifest, unchangedFiles, vars
<1>3. tree' = tree \/ cmd.at = "idle"
  BY DEF people, editSources, commitSources, commitManifest, editManifest, sourceVars, vars
<1>4. CommandTells(cmd, tree', latest', sent)
  <2>1. exists(latest') <=> exists(latest)
    BY <1>2 DEF SameRelease, exists
  <2>2. CommandTells(cmd, tree', latest, sent)
    BY <1>1, <1>3 DEF CommandTells
  <2> QED
    BY <1>2, <2>1, <2>2 DEF CommandTells, SameRelease
<1>5. Calm' => Calm
  BY <1>1 DEF Calm, noPendingOperation, unfinished
<1> QED
  BY <1>1, <1>2, <1>4, <1>5, CommandMoves

LEMMA RefuseLayout ==
  ASSUME TypeInv, LayoutInv, refuse \/ crash \/ verifySources
  PROVE  LayoutInv'
<1>1. UNCHANGED <<chainVars, latest, journal>> /\ cmd' = NoCommand
  BY DEF refuse, crash, verifySources, unchangedFiles, unchangedOthers
<1> QED
  BY <1>1, StopsLayout DEF TypeInv

-----------------------------------------------------------------------------
\* The beginning.

LEMMA LayoutFrom ==
  ASSUME Init, TypeInv, final = Len(sent), \A n \in DOMAIN sent : ~IsUpgrade(sent[n]),
         Describes(latest, Len(sent), sent, blocks)
  PROVE  LayoutInv
<1>1. /\ IsChain(sent, blocks) /\ Len(sent) \in Nat /\ DOMAIN blocks \subseteq DOMAIN sent
      /\ journal = [operation \in Operations |-> NoJournal] /\ cmd = NoCommand
  BY ChainIsChain, ChainFields DEF TypeInv, Init
<1>2. \A n \in Len(sent) + 1 .. Len(sent) : FALSE
  BY <1>1
<1>3. History(latest, Len(sent), sent, blocks)
  BY <1>1, <1>2 DEF History, RecentCalls
<1>4. Settled(Len(sent))
  BY <1>1, <1>2, <1>3 DEF Settled, QuietBetween, NoCommand, Running
<1>5. \A operation \in Operations : JournalTells(journal[operation], final, sent, blocks)
  BY <1>1 DEF JournalTells, NoJournal
<1>6. CommandTells(cmd, tree, latest, sent)
  BY <1>1, IdleTells DEF NoCommand, Running
<1> QED
  BY <1>1, <1>4, <1>5, <1>6 DEF LayoutInv

\* A network where nothing was deployed, or a release that is all on the chain.
DeployedFirst(missing, proxies, helpers) ==
  /\ missing # None /\ Deployable(proxies, helpers)
  /\ Range(proxies) = ProxyNames \ missing /\ Range(helpers) = HelperNames \ missing
  /\ latest.release = tree /\ latest.contracts = DeployedOf(proxies, helpers, 0) /\ ~latest.tokens
  /\ sent = DeployScript(proxies, helpers, FALSE, 0, tree) /\ final = Len(sent)
  /\ Len(blocks) = Len(sent) /\ \A n \in DOMAIN blocks : blocks[n].ok

LEMMA Beginning ==
  ASSUME Init
  PROVE  \/ sent = <<>> /\ final = Len(sent) /\ latest = NoManifest
         \/ \E missing \in InitialMissing : \E proxies, helpers : DeployedFirst(missing, proxies, helpers)
<1>1. TypeInv
  BY TypesInit
<1>2. PICK missing \in InitialMissing :
        IF missing = None THEN ChainInit(<<>>) /\ latest = NoManifest /\ retained = {} /\ verified = {}
        ELSE LET proxies == Filtered(ProxyOrder, ProxyNames \ missing)
                 helpers == Filtered(HelperOrder, HelperNames \ missing)
                 deployed == DeployedContracts(proxies, helpers, 0)
             IN  /\ ChainInit(DeployScript(proxies, helpers, FALSE, 0, tree))
                 /\ latest = [status |-> "finalized", release |-> tree,
                              contracts |-> [name \in Names |-> IF name \in DOMAIN deployed
                                                                THEN deployed[name] ELSE None],
                              tokens |-> FALSE,
                              transactions |-> loadTransactionReceipts([n \in DOMAIN sent |-> n]),
                              revision |-> 0]
                 /\ retained = {tree}
                 /\ verified = sourceVerificationTargets(latest)
  BY Zenon DEF Init
<1>3. CASE missing = None
  BY <1>2, <1>3 DEF ChainInit
<1>4. CASE missing # None
  <2> DEFINE proxies == Filtered(ProxyOrder, ProxyNames \ missing)
             helpers == Filtered(HelperOrder, HelperNames \ missing)
             deployed == DeployedContracts(proxies, helpers, 0)
             contracts == [name \in Names |-> IF name \in DOMAIN deployed THEN deployed[name] ELSE None]
             script == DeployScript(proxies, helpers, FALSE, 0, tree)
  <2>1. /\ ChainInit(script) /\ contracts = DeployedOf(proxies, helpers, 0)
        /\ latest.release = tree /\ latest.contracts = contracts /\ ~latest.tokens
    <3>1. PICK transactions :
            /\ ChainInit(script)
            /\ latest = [status |-> "finalized", release |-> tree, contracts |-> contracts, tokens |-> FALSE,
                         transactions |-> transactions, revision |-> 0]
      BY <1>2, <1>4
    <3>2. contracts = DeployedOf(proxies, helpers, 0)
      BY DEF DeployedOf
    <3> HIDE DEF contracts, script, proxies, helpers, deployed
    <3> QED
      BY <3>1, <3>2
  <2>2. /\ ProxyOrder \in Seq(ProxyNames) /\ HelperOrder \in Seq(HelperNames)
        /\ Range(ProxyOrder) = ProxyNames /\ Range(HelperOrder) = HelperNames
    BY ReleaseAssumption DEF ProxyNames, HelperNames, Range
  <2>3. Deployable(proxies, helpers) /\ Range(proxies) = ProxyNames \ missing /\ Range(helpers) = HelperNames \ missing
    BY <2>2, FilteredRange DEF Deployable
  <2> HIDE DEF proxies, helpers, deployed, contracts
  <2>4. /\ sent = script /\ final = Len(sent) /\ blocks = [n \in DOMAIN sent |-> [hash |-> 0, ok |-> TRUE]]
    <3> HIDE DEF script
    <3> QED
      BY <2>1 DEF ChainInit
  <2>5. Len(blocks) = Len(sent) /\ \A n \in DOMAIN blocks : blocks[n].ok
    <3>1. DOMAIN sent = 1 .. Len(sent) /\ Len(sent) \in Nat
      BY <1>1, ChainIsChain DEF TypeInv
    <3> HIDE DEF script
    <3> QED
      BY <2>4, <3>1
  <2>6. DeployedFirst(missing, proxies, helpers)
    BY <1>4, <2>1, <2>3, <2>4, <2>5 DEF DeployedFirst
  <2> QED
    BY <2>6
<1> QED
  BY <1>3, <1>4

LEMMA ScriptBefore ==
  ASSUME Init, NEW missing \in InitialMissing, NEW proxies, NEW helpers, DeployedFirst(missing, proxies, helpers)
  PROVE  /\ tree \in Builds
         /\ DeploysFrom(0, proxies, tree, sent) /\ DeployEnds(0, proxies, helpers, FALSE, tree, sent)
<1>1. tree \in Builds
  BY TypesInit DEF TypeInv, FilesTyped
<1>2. missing \subseteq {"PoRepMarketViewHelper", "SectorEvidenceAdapter"}
  BY DeploymentAssumption DEF DeployedFirst
<1>3. {"PoRepMarket", "DataCapEvidenceAdapter"} \subseteq Range(proxies)
  BY <1>2, DeploymentAssumption DEF DeployedFirst
<1> QED
  BY <1>1, <1>3, DeployScriptSays DEF DeployedFirst

LEMMA LayoutInit == Init => LayoutInv
<1> SUFFICES ASSUME Init PROVE LayoutInv
  OBVIOUS
<1>1. TypeInv
  BY TypesInit
<1>2. CASE sent = <<>> /\ final = Len(sent) /\ latest = NoManifest
  <2>1. \A n \in DOMAIN sent : ~IsUpgrade(sent[n])
    BY <1>2
  <2>2. Describes(latest, Len(sent), sent, blocks)
    BY <1>2 DEF Describes, exists, NoManifest
  <2> QED
    BY <1>1, <1>2, <2>1, <2>2, LayoutFrom
<1>3. ASSUME NEW missing \in InitialMissing, NEW proxies, NEW helpers, DeployedFirst(missing, proxies, helpers)
      PROVE  LayoutInv
  <2>1. tree \in Builds /\ DeploysFrom(0, proxies, tree, sent)
    BY <1>3, ScriptBefore
  <2>2. \A n \in DOMAIN sent : ~IsUpgrade(sent[n])
    BY <2>1 DEF DeploysFrom, Silent
  <2>3. Describes(latest, Len(sent), sent, blocks)
    BY <1>1, <1>3, <2>1, ChainIsChain, DeployedDescribed DEF TypeInv, DeployedFirst
  <2> QED
    BY <1>1, <1>3, <2>2, <2>3, LayoutFrom DEF DeployedFirst
<1> QED
  BY <1>2, <1>3, Beginning

LEMMA LayoutKept ==
  ASSUME EditsWhile \subseteq {"idle"}, IInv, ReceiptInv, TypeInv, TypeInv', LayoutInv, [Next]_vars
  PROVE  LayoutInv'
<1>1. CASE startCommand
  BY <1>1, StartLayout
<1>2. CASE commandStep
  BY <1>2, BuildLayout, RetainBuildInfoLayout, PendingStartLayout, RunForgeLayout, BroadcastLayout, ForgeLayout,
     RecordBroadcastLayout, RecordJournalLayout, ReceiptsLayout, CheckLiveLayout, PublishLayout, FinishLayout,
     TokensLayout, RefuseLayout
  DEF commandStep
<1>3. CASE \E operation \in Operations : finalize(operation)
  BY <1>3, FinalizeLayout
<1>4. CASE verifySources \/ crash
  BY <1>4, RefuseLayout
<1>5. CASE people \/ UNCHANGED vars
  BY <1>5, PeopleLayout
<1>6. CASE chainAlone
  BY <1>6, ChainAloneLayout
<1> QED
  BY <1>1, <1>2, <1>3, <1>4, <1>5, <1>6 DEF Next

LEMMA LayoutsSafe == IInv /\ TypeInv /\ LayoutInv => LayoutsExtend
<1> SUFFICES ASSUME IInv, TypeInv, LayoutInv, NEW n \in executed,
                    sent[n].kind = "call" /\ sent[n].slot = "implementation"
             PROVE  LET before == sent[valueAt(n - 1, sent[n].contract, "implementation")]
                        after == sent[sent[n].value]
                    IN  after.name = before.name /\ <<before.build, after.build>> \in Compatible[before.name]
  BY DEF LayoutsExtend
<1>1. IsChain(sent, blocks) /\ n \in DOMAIN blocks /\ blocks[n].ok /\ IsUpgrade(sent[n])
  BY ChainIsChain DEF TypeInv, executed, IsUpgrade
<1>2. PICK h \in Nat : History(latest, h, sent, blocks)
  BY DEF LayoutInv, Settled
<1>3. Extends(n, sent, blocks)
  <2>1. CASE exists(latest)
    BY <1>1, <1>2, <2>1, ReleaseOfManifest, AllExtend
  <2>2. CASE ~exists(latest)
    <3>1. n <= h
      <4>1. ~FitsCall(latest, sent[n], sent)
        BY <2>2 DEF FitsCall
      <4>2. n \in 1 .. Len(sent)
        BY <1>1, ChainFields
      <4> QED
        BY <1>1, <1>2, <4>1, <4>2, ChainFields DEF History, RecentCalls
    <3> QED
      BY <1>1, <1>2, <3>1 DEF History
  <2> QED
    BY <2>1, <2>2
<1> QED
  BY <1>3, ImplementationIs DEF Extends

\* For all contracts, layouts, builds, requests and bounds, and whatever is
\* interrupted, reorganized or retried: no proxy or beacon is given an
\* implementation whose layout does not extend the one it replaces, as long as
\* nobody edits the sources while a command runs.
THEOREM LayoutsAreExtended ==
  ASSUME EditsWhile \subseteq {"idle"}
  PROVE  Spec => []LayoutsExtend
<1>1. Init => LayoutInv
  BY LayoutInit
<1>2. IInv /\ ReceiptInv /\ TypeInv /\ TypeInv' /\ LayoutInv /\ [Next]_vars => LayoutInv'
  BY LayoutKept
<1>3. IInv /\ TypeInv /\ LayoutInv => LayoutsExtend
  BY LayoutsSafe
<1> QED
  BY <1>1, <1>2, <1>3, TypesInvariant, PTL DEF Spec
=============================================================================
