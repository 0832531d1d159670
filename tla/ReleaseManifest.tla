--------------------------- MODULE ReleaseManifest --------------------------
(***************************************************************************)
(* The files of a release (script/deployment-state.ts and the parts of     *)
(* script/deployment.ts that compute one file from another): the           *)
(* canonical manifest of a network, deployments/<network>/latest.json, and *)
(* the journal of an operation, pending-deploy.json or                     *)
(* pending-upgrade.json.                                                   *)
(*                                                                         *)
(* Abstractions.  A hash of a file is the file's contents, so that two     *)
(* hashes are equal exactly when the files are.  An address is the nonce   *)
(* of the transaction that creates the contract.  Code hashes, the         *)
(* deployer, finalizedAt, the network and the external dependencies that   *)
(* no command changes are left out; one payment token stands for the       *)
(* policy.  `revision' stands for what a person may edit in a manifest.    *)
(***************************************************************************)
EXTENDS Integers, Sequences, Functions

CONSTANTS
  ProxyOrder,   \* the proxied (uups) contracts, in the order Deploy.s.sol creates them
  HelperOrder,  \* the standalone contracts
  Builds,       \* build-info hashes
  Compatible,   \* of a contract: pairs of builds, the storage layout of the
                \* second of which extends that of the first
  None

ProxyNames == Range(ProxyOrder)
HelperNames == Range(HelperOrder)
UpgradeTargets == ProxyNames \cup {"Validator"}
Names == UpgradeTargets \cup HelperNames \cup {"ValidatorBeacon"}

-----------------------------------------------------------------------------
Artifacts == {"standard", "calibnet"}  \* calibnet: CalibnetDataCapAdapter

\* An implementation and a standalone contract have no address of their own.
Entry == [artifact : Artifacts, address : Nat, implementation : Nat]

Receipt == [nonce : Nat \ {0}, block : Nat, contract : Nat]

\* A name the manifest does not have is None.
Contracts == [Names -> Entry \cup {None}]

\* A file that does not exist has the status absent.
Manifest ==
  [status : {"absent", "pending", "finalized"}, release : Builds \cup {None}, contracts : Contracts,
   tokens : BOOLEAN, transactions : Seq(Receipt), revision : Nat]

UpgradeOperation ==
  [target : UpgradeTargets, artifact : Artifacts, newArtifact : Artifacts,
   newImplementation : Nat]

\* The broadcast file of Forge lists the whole script, the transactions that
\* were not sent without a hash.
Broadcast == [base : Nat, sent : Nat, total : Nat]

PendingOperation ==
  [operation : {"deploy", "upgrade"}, status : {"absent", "pending", "finalized"},
   previous : Manifest, release : Builds \cup {None}, broadcast : Broadcast \cup {None},
   result : Manifest, targets : Seq(UpgradeTargets), operations : Seq(UpgradeOperation),
   resultManifest : Manifest]

\* The layout check compares one release with the next, not with every
\* earlier one: extending a layout is reflexive and transitive.
ASSUME ReleaseAssumption ==
  /\ ProxyOrder \in Seq(STRING) /\ HelperOrder \in Seq(STRING)
  /\ ProxyNames \cap HelperNames = {}
  /\ {"Validator", "ValidatorBeacon"} \cap (ProxyNames \cup HelperNames) = {}
  /\ None \notin Builds \cup Entry \cup Broadcast
  /\ Compatible \in [UpgradeTargets -> SUBSET (Builds \X Builds)]
  /\ \A name \in UpgradeTargets :
       /\ \A b \in Builds : <<b, b>> \in Compatible[name]
       /\ \A b, c, d \in Builds :
            <<b, c>> \in Compatible[name] /\ <<c, d>> \in Compatible[name]
              => <<b, d>> \in Compatible[name]

exists(file) == file.status # "absent"

NoManifest ==
  [status |-> "absent", release |-> None, contracts |-> [name \in Names |-> None],
   tokens |-> FALSE, transactions |-> <<>>, revision |-> 0]

NoJournal ==
  [operation |-> "deploy", status |-> "absent", previous |-> NoManifest, release |-> None,
   broadcast |-> None, result |-> NoManifest, targets |-> <<>>, operations |-> <<>>,
   resultManifest |-> NoManifest]

recorded(manifest) == {name \in Names : manifest.contracts[name] # None}

-----------------------------------------------------------------------------
newPendingDeploy(previous, build) ==
  [NoJournal EXCEPT !.operation = "deploy", !.status = "pending",
                    !.previous = previous, !.release = build]

newPendingUpgrade(targets, source, build) ==
  [NoJournal EXCEPT !.operation = "upgrade", !.status = "pending",
                    !.previous = source, !.release = build, !.targets = targets]

\* Mutant: the receipts of a retry are appended again.
ConcatTransactions(prior, receipts) == prior \o receipts

\* The elements of a list that are in a set, in their order.
Filtered(list, set) ==
  LET kept[n \in 0 .. Len(list)] ==
        IF n = 0 THEN <<>>
        ELSE IF list[n] \in set THEN Append(kept[n - 1], list[n])
        ELSE kept[n - 1]
  IN  kept[Len(list)]

mergeTransactions(prior, receipts) ==
  Filtered(prior, {t \in Range(prior) : \A i \in DOMAIN receipts : receipts[i].nonce # t.nonce})
    \o receipts

mergeMissingHelpers(source, deployed, build) ==
  [source EXCEPT !.status = "pending", !.release = build,
                 !.contracts = [name \in Names |-> IF name \in DOMAIN deployed
                                                   THEN deployed[name]
                                                   ELSE source.contracts[name]]]

applyPaymentTokenPolicy(source, receipts) ==
  [source EXCEPT !.tokens = TRUE,
                 !.transactions = mergeTransactions(source.transactions, receipts)]

\* Mutant: the beacon's entry is forgotten.
UpgradeTargetOnly(contracts, item) ==
  [contracts EXCEPT ![item.target].artifact = item.newArtifact,
                    ![item.target].implementation = item.newImplementation]

\* Mutant: the optional newArtifact is copied where the operation has none.
OptionalArtifact(contracts, item) ==
  [name \in Names |->
     IF name # item.target THEN contracts[name]
     ELSE [contracts[name] EXCEPT
             !.artifact = IF item.newArtifact = "standard" THEN None ELSE item.newArtifact,
             !.implementation = item.newImplementation]]

\* Upgrading the Validator changes two entries, its own and the beacon's.
applyUpgrade(contracts, item) ==
  [name \in Names |->
     CASE name = item.target ->
            [contracts[name] EXCEPT !.artifact = item.newArtifact,
                                    !.implementation = item.newImplementation]
       [] name = "ValidatorBeacon" /\ item.target = "Validator" ->
            [contracts[name] EXCEPT !.implementation = item.newImplementation]
       [] OTHER -> contracts[name]]

applyUpgrades(contracts, operations) ==
  LET applied[n \in 0 .. Len(operations)] ==
        IF n = 0 THEN contracts ELSE applyUpgrade(applied[n - 1], operations[n])
  IN  applied[Len(operations)]

renderUpgradedManifest(source, pending, receipts) ==
  [source EXCEPT
     !.status = "finalized",
     !.release = pending.release,
     !.contracts = applyUpgrades(source.contracts, pending.operations),
     !.transactions = receipts]

\* Mutant: a manifest that is published already is not recognised.
SourceOnly(current, pending) ==
  IF ~exists(current)
  THEN IF pending.operation = "deploy" /\ ~exists(pending.previous) THEN "absent" ELSE "unexpected"
  ELSE IF pending.previous = current THEN "source"
  ELSE "unexpected"

classifyCanonicalState(current, pending) ==
  IF ~exists(current)
  THEN IF pending.operation = "deploy" /\ ~exists(pending.previous) THEN "absent" ELSE "unexpected"
  ELSE IF pending.resultManifest = current THEN "result"
  ELSE IF pending.previous = current THEN "source"
  ELSE "unexpected"

validateTargets(source, targets) ==
  /\ source.status = "finalized"
  /\ IsInjective(targets)
  /\ \A i \in DOMAIN targets :
       /\ targets[i] \in UpgradeTargets \cap recorded(source)
       /\ source.contracts[targets[i]].artifact = "standard"

\* Mutant: the Validator, whose entry is not a proxy, is left out.
ProxiesOnly(source, build) ==
  \A name \in ProxyNames \cap recorded(source) :
    <<source.release, build>> \in Compatible[name]

\* The layouts of all upgradeable contracts of the manifest are compared, not
\* only those of the targets.
validateStorage(source, build) ==
  \A name \in UpgradeTargets \cap recorded(source) :
    <<source.release, build>> \in Compatible[name]

\* What is submitted for source verification: of a proxied contract both the
\* implementation and the proxy.
sourceVerificationTargets(manifest) ==
  UNION {LET entry == manifest.contracts[name]
         IN  CASE name \in ProxyNames -> {entry.implementation, entry.address}
               [] name = "ValidatorBeacon" -> {entry.address}
               [] OTHER -> {entry.implementation} :
         name \in recorded(manifest)}

justDeployed(manifest) ==
  {manifest.transactions[i].contract : i \in DOMAIN manifest.transactions} \ {0}
=============================================================================
