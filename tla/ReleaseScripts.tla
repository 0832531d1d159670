--------------------------- MODULE ReleaseScripts ---------------------------
(***************************************************************************)
(* What the Forge scripts of a release send and report (script/*.s.sol),   *)
(* when the account has sent `base' transactions before.  A script is run  *)
(* locally first: it reports the addresses its transactions will create,   *)
(* whether or not they are sent afterwards.                                *)
(*                                                                         *)
(* Abstractions.  Transactions that grant roles or only initialize are     *)
(* left out, and so are the scripts' own checks of the manifest, which the *)
(* command makes as well.                                                  *)
(***************************************************************************)
EXTENDS ReleaseChain

StandardEntry(address, implementation) ==
  [artifact |-> "standard", address |-> address, implementation |-> implementation]

position(names, name) == CHOOSE i \in DOMAIN names : names[i] = name

\* Deploy.s.sol.  The Validator and its beacon (which the ValidatorFactory
\* creates, here in a transaction of its own), implementation and proxy of each
\* proxied contract, the market's adapter, the helpers, the payment token.
DeployedContracts(proxies, helpers, base) ==
  LET validator == base + 1
      link == base + 2 * Len(proxies) + 3
  IN  [name \in Range(proxies) \cup Range(helpers) \cup {"Validator", "ValidatorBeacon"} |->
         CASE name = "Validator" -> StandardEntry(0, validator)
           [] name = "ValidatorBeacon" -> StandardEntry(validator + 1, validator)
           [] name \in Range(helpers) -> StandardEntry(0, link + position(helpers, name))
           [] OTHER -> LET proxy == base + 2 * position(proxies, name) + 2
                       IN  StandardEntry(proxy, proxy - 1)]

DeployScript(proxies, helpers, tokens, base, build) ==
  LET deployed == DeployedContracts(proxies, helpers, base)
      adapter == IF "SectorEvidenceAdapter" \in Range(proxies)
                 THEN "SectorEvidenceAdapter" ELSE "DataCapEvidenceAdapter"
  IN  <<Code("Validator", build), Beacon(deployed["Validator"].implementation)>>
        \o [i \in 1 .. 2 * Len(proxies) |->
              IF i % 2 = 1 THEN Code(proxies[(i + 1) \div 2], build) ELSE Proxy(base + i + 1)]
        \o <<Call(deployed["PoRepMarket"].address, "evidenceAdapter", deployed[adapter].address)>>
        \o [i \in DOMAIN helpers |-> Code(helpers[i], build)]
        \o (IF tokens
            THEN <<Call(deployed["SPRegistry"].address, "token", 1)>> ELSE <<>>)

\* DeployMissing.s.sol and DeploySectorEvidenceAdapter.s.sol
MissingContracts(name, base) ==
  [n \in {name} |-> IF name \in ProxyNames THEN StandardEntry(base + 2, base + 1)
                    ELSE StandardEntry(0, base + 1)]

MissingScript(name, source, base, build) ==
  IF name = "SectorEvidenceAdapter"
  THEN <<Code(name, build), Proxy(base + 1),
         Call(source.contracts["PoRepMarket"].address, "evidenceAdapter", base + 2)>>
  ELSE <<Code(name, build)>>

\* Upgrade.s.sol and DeployCalibnetDataCapAdapter.s.sol.  All implementations
\* are created before the first contract is upgraded.
UpgradeOperations(targets, artifact, base) ==
  [i \in DOMAIN targets |->
     [target |-> targets[i], artifact |-> "standard", newArtifact |-> artifact,
      newImplementation |-> base + i]]

UpgradeScript(targets, source, base, build) ==
  LET proxy(name) ==
        source.contracts[IF name = "Validator" THEN "ValidatorBeacon" ELSE name].address
  IN  [i \in DOMAIN targets |-> Code(targets[i], build)]
        \o [i \in DOMAIN targets |-> Call(proxy(targets[i]), "implementation", base + i)]

\* ConfigurePaymentTokens.s.sol
TokenScript(source) == <<Call(source.contracts["SPRegistry"].address, "token", 1)>>
=============================================================================
