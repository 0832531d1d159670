----------------------------- MODULE Deployment -----------------------------
(***************************************************************************)
(* The deployment command line (script/deployment.ts) of one network.      *)
(* deploy, deploy-missing (also of the sector adapter) and upgrade (also   *)
(* to the Calibnet adapter) build the contracts, start a journal,          *)
(* broadcast a Forge script, record its evidence, wait for finality, check *)
(* the live contracts and publish the manifest.  finalize-deploy and       *)
(* finalize-upgrade take up a recorded operation after a failure.          *)
(* configure-payment-tokens has no journal.  verify-sources also ends      *)
(* every operation.                                                        *)
(*                                                                         *)
(* A step is one file written (writes are atomic, writeAtomicFile), or one *)
(* thing waited for together with what is decided on its answer.  A        *)
(* command may stop at every step: it is killed, a call of a node fails,   *)
(* or it refuses.  Its workspace is lost, the files stay.  Meanwhile       *)
(* people edit and commit the sources and the manifest, and the chain goes *)
(* its own way.                                                            *)
(*                                                                         *)
(* Abstractions.  One command runs at a time, and no Forge outlives it.    *)
(* Chain ids, confirmations, keys, the legacy Bash journals and commands   *)
(* that change nothing (check-live) are left out.  The sources are known   *)
(* by the build-info hash they compile to.                                 *)
(***************************************************************************)
EXTENDS ReleaseScripts

CONSTANTS
  Commands,        \* commands that are given
  Missing,         \* contracts deploy-missing is asked for
  Upgrades,        \* <<targets, artifact>> upgrade is asked for
  Policy,          \* whether the network has a payment token
  InitialBuilds,   \* builds of the working tree at the beginning
  InitialMissing,  \* contracts an existing deployment may lack, or None where
                   \* there is no deployment yet
  EditsWhile,      \* steps of a command during which people edit sources
  MaxStarts,       \* bound on the operations started
  MaxMishaps,      \* bound on the commands killed and the edits of the
                   \* canonical manifest together
  MaxEdits         \* bound on these edits alone

ASSUME DeploymentAssumption ==
  /\ InitialBuilds \subseteq Builds
  /\ {"PoRepMarket", "DataCapEvidenceAdapter", "SectorEvidenceAdapter"} \subseteq ProxyNames
  /\ Missing \subseteq Names \cap {"PoRepMarketViewHelper", "SectorEvidenceAdapter"}
  /\ \A missing \in InitialMissing : missing = None \/ missing \subseteq Missing
  /\ Policy \in BOOLEAN
  /\ Policy => "SPRegistry" \in ProxyNames
  /\ \A u \in Upgrades : u[1] \in Seq(UpgradeTargets) /\ u[2] \in Artifacts
  /\ MaxStarts \in Nat /\ MaxMishaps \in Nat /\ MaxEdits \in Nat

VARIABLES
  tree, committed,  \* build of the working tree, and of the last commit
  latest, head,     \* canonical manifest, and as last committed
  retained,         \* deployments/<network>/build-info
  journal,          \* pending-deploy.json and pending-upgrade.json
  evidence,         \* the build-info and broadcast kept with each journal
  cmd,              \* the command that runs
  verified,         \* addresses whose source the explorer holds
  starts, crashes, edits

sourceVars == <<tree, committed>>
boundVars == <<starts, crashes, edits>>
vars == <<chainVars, sourceVars, latest, head, retained, journal, evidence, cmd, verified, boundVars>>

Operations == {"deploy", "upgrade"}

NoCommand ==
  [at |-> "idle", kind |-> "none", operation |-> "none", request |-> None,
   source |-> NoManifest, build |-> None, base |-> 0, script |-> <<>>, file |-> None,
   failed |-> FALSE, pending |-> NoJournal, receipts |-> <<>>, retry |-> FALSE]

Steps == {"idle", "build", "preflight", "journal", "forge", "broadcast", "record", "recordJournal",
          "finalize", "receipts", "finality", "live", "tokens", "retain", "latest", "prune",
          "finish", "verify"}

TypeOK ==
  /\ ChainTypeOK
  /\ tree \in Builds /\ committed \in Builds
  /\ latest \in Manifest /\ head \in Manifest
  /\ retained \subseteq Builds
  /\ journal \in [Operations -> PendingOperation]
  /\ evidence \in [Operations -> [buildInfo : Builds \cup {None}, broadcast : Broadcast \cup {None}]]
  /\ cmd.at \in Steps
  /\ cmd.kind \in Operations \cup {"none", "missing", "tokens", "finalize", "verify"}
  /\ cmd.operation \in Operations \cup {"none"}
  /\ cmd.source \in Manifest
  /\ cmd.pending \in PendingOperation
  /\ cmd.receipts \in Seq(Receipt)
  /\ verified \subseteq Nat
  /\ starts \in 0 .. MaxStarts /\ edits \in 0 .. MaxEdits
  /\ crashes \in Nat /\ crashes + edits <= MaxMishaps

\* Either nothing was deployed on the network, or a release that lacks some
\* contracts and the payment tokens was, completely, from the present sources.
Init ==
  /\ tree \in InitialBuilds /\ committed = tree
  /\ \E missing \in InitialMissing :
       IF missing = None
       THEN ChainInit(<<>>) /\ latest = NoManifest /\ retained = {} /\ verified = {}
       ELSE LET proxies == Filtered(ProxyOrder, ProxyNames \ missing)
                helpers == Filtered(HelperOrder, HelperNames \ missing)
                deployed == DeployedContracts(proxies, helpers, 0)
            IN  /\ ChainInit(DeployScript(proxies, helpers, FALSE, 0, tree))
                /\ latest = [status |-> "finalized", release |-> tree,
                             contracts |-> [name \in Names |-> IF name \in DOMAIN deployed
                                                               THEN deployed[name] ELSE None],
                             tokens |-> FALSE,
                             transactions |-> loadTransactionReceipts([n \in DOMAIN sent |-> n]),
                             revision |-> 0]
                /\ retained = {tree}
                /\ verified = sourceVerificationTargets(latest)
  /\ head = latest
  /\ journal = [operation \in Operations |-> NoJournal]
  /\ evidence = [operation \in Operations |-> [buildInfo |-> None, broadcast |-> None]]
  /\ cmd = NoCommand
  /\ starts = 0 /\ crashes = 0 /\ edits = 0

-----------------------------------------------------------------------------
\* Preflight

\* Mutant: only the journal of deploy is looked at.
OwnJournalOnly == journal["deploy"].status # "pending"

noPendingOperation == \A operation \in Operations : journal[operation].status # "pending"

cleanReleaseSource == tree = committed
cleanCanonicalManifest == exists(latest) /\ latest = head

broadcastPreflight == cmd.at = "idle" /\ starts < MaxStarts /\ cleanReleaseSource /\ noPendingOperation

start(step, kind, operation, request) ==
  /\ cmd' = [NoCommand EXCEPT !.at = step, !.kind = kind, !.operation = operation,
                              !.request = request, !.source = latest]
  /\ starts' = starts + 1
  /\ UNCHANGED <<chainVars, sourceVars, latest, head, retained, journal, evidence, verified, crashes, edits>>

deploy(fresh) ==
  /\ broadcastPreflight
  /\ exists(latest) => fresh
  /\ start("build", "deploy", "deploy", None)

deployMissing(name) ==
  /\ broadcastPreflight
  /\ cleanCanonicalManifest
  /\ latest.contracts[name] = None
  /\ start("build", "missing", "deploy", name)

upgrade(targets, artifact) ==
  /\ broadcastPreflight
  /\ cleanCanonicalManifest
  /\ validateTargets(latest, targets)
  /\ start("build", "upgrade", "upgrade", <<targets, artifact>>)

configurePaymentTokens ==
  /\ Policy
  /\ broadcastPreflight
  /\ cleanCanonicalManifest
  /\ latest.status = "finalized"
  /\ latest.contracts["SPRegistry"] # None
  /\ start(IF paymentTokenIsConfigured(latest) THEN "tokens" ELSE "forge", "tokens", "none", None)

-----------------------------------------------------------------------------
\* Build, and what is checked when it is done

unchangedFiles == UNCHANGED <<latest, head, retained, journal, evidence, verified>>
unchangedOthers == UNCHANGED <<chainVars, sourceVars, boundVars>>

buildContracts ==
  /\ cmd.at = "build"
  /\ cmd' = [cmd EXCEPT !.at = "preflight", !.build = tree]
  /\ unchangedFiles /\ unchangedOthers

storagePreflight ==
  /\ cmd.source.release \in retained
  /\ validateStorage(cmd.source, cmd.build)
  /\ cleanReleaseSource
  /\ latest = cmd.source

preflightPasses ==
  /\ noPendingOperation
  /\ cmd.kind # "deploy" => storagePreflight
  /\ cmd.kind = "upgrade" => \/ cmd.build # cmd.source.release
                            \/ cmd.request[2] = "calibnet"

newPending ==
  IF cmd.kind = "upgrade" THEN newPendingUpgrade(cmd.request[1], cmd.source, cmd.build)
  ELSE newPendingDeploy(cmd.source, cmd.build)

retainBuildInfo ==
  /\ cmd.at = "preflight"
  /\ preflightPasses
  /\ evidence' = [evidence EXCEPT ![cmd.operation].buildInfo = cmd.build]
  /\ cmd' = [cmd EXCEPT !.at = "journal", !.pending = newPending]
  /\ UNCHANGED <<latest, head, retained, journal, verified>>
  /\ unchangedOthers

\* Mutant: the journal is started when the broadcast is over.
NoPendingStart ==
  /\ cmd.at = "journal"
  /\ cmd' = [cmd EXCEPT !.at = "forge"]
  /\ unchangedFiles /\ unchangedOthers

retainPendingStart ==
  /\ cmd.at = "journal"
  /\ journal' = [journal EXCEPT ![cmd.operation] = cmd.pending]
  /\ cmd' = [cmd EXCEPT !.at = "forge"]
  /\ UNCHANGED <<latest, head, retained, evidence, verified>>
  /\ unchangedOthers

-----------------------------------------------------------------------------
\* Forge.  It compiles the sources again where they have changed since the build.

runForgeScript ==
  /\ cmd.at = "forge"
  /\ Len(blocks) = Len(sent)
  /\ LET base == Len(sent)
         script == CASE cmd.kind = "deploy" -> DeployScript(ProxyOrder, HelperOrder, Policy, base, tree)
                     [] cmd.kind = "missing" -> MissingScript(cmd.request, cmd.source, base, tree)
                     [] cmd.kind = "upgrade" -> UpgradeScript(cmd.request[1], cmd.source, base, tree)
                     [] OTHER -> TokenScript(cmd.source)
     IN  cmd' = [cmd EXCEPT !.at = "broadcast", !.base = base, !.script = script]
  /\ unchangedFiles /\ unchangedOthers

sentByScript == Len(sent) - cmd.base

broadcast ==
  /\ cmd.at = "broadcast"
  /\ sentByScript \in 0 .. Len(cmd.script) - 1
  /\ sentByScript > 0 => Len(sent) \in executed
  /\ SendAndMine(cmd.script[sentByScript + 1])
  /\ UNCHANGED <<sourceVars, cmd, boundVars>>
  /\ unchangedFiles

broadcastFile == [base |-> cmd.base, sent |-> sentByScript, total |-> Len(cmd.script)]

\* Nothing is recorded of the payment tokens before their receipts are final.
forgeSucceeds ==
  /\ cmd.at = "broadcast"
  /\ sentByScript = Len(cmd.script)
  /\ cmd.base + 1 .. Len(sent) \subseteq executed
  /\ cmd' = [cmd EXCEPT !.at = IF cmd.kind = "tokens" THEN "receipts" ELSE "record",
                        !.script = <<>>, !.file = broadcastFile]
  /\ unchangedFiles /\ unchangedOthers

\* Forge may fail at any time, having saved the broadcast so far or not.
forgeFails ==
  /\ cmd.at = "broadcast"
  /\ cmd' \in {NoCommand} \cup
        IF cmd.kind = "tokens" THEN {}
        ELSE {[cmd EXCEPT !.at = "record", !.script = <<>>, !.file = broadcastFile, !.failed = TRUE]}
  /\ unchangedFiles /\ unchangedOthers

-----------------------------------------------------------------------------
\* Evidence: the broadcast file first, then the journal that refers to it.

recordBroadcast ==
  /\ cmd.at = "record"
  /\ evidence' = [evidence EXCEPT ![cmd.operation] = [buildInfo |-> cmd.build, broadcast |-> cmd.file]]
  /\ cmd' = [cmd EXCEPT !.at = "recordJournal"]
  /\ UNCHANGED <<latest, head, retained, journal, verified>>
  /\ unchangedOthers

recordedDeploy ==
  LET deployed == DeployedContracts(ProxyOrder, HelperOrder, cmd.base)
  IN  [status |-> "pending", release |-> cmd.build,
       contracts |-> [name \in Names |-> IF name \in DOMAIN deployed THEN deployed[name] ELSE None],
       tokens |-> Policy, transactions |-> <<>>, revision |-> 0]

recordDeployMissing ==
  mergeMissingHelpers(cmd.source, MissingContracts(cmd.request, cmd.base), cmd.build)

recordedPending ==
  IF cmd.kind = "upgrade"
  THEN [cmd.pending EXCEPT
          !.broadcast = cmd.file,
          !.operations = UpgradeOperations(cmd.request[1], cmd.request[2], cmd.base)]
  ELSE [cmd.pending EXCEPT
          !.broadcast = cmd.file,
          !.result = IF cmd.kind = "missing" THEN recordDeployMissing ELSE recordedDeploy]

\* The evidence is recorded also when Forge failed; then the command ends here.
recordJournal ==
  /\ cmd.at = "recordJournal"
  /\ journal' = [journal EXCEPT ![cmd.operation] = recordedPending]
  /\ cmd' = IF cmd.failed THEN NoCommand
            ELSE [NoCommand EXCEPT !.at = "finalize", !.kind = "finalize", !.operation = cmd.operation]
  /\ UNCHANGED <<latest, head, retained, evidence, verified>>
  /\ unchangedOthers

-----------------------------------------------------------------------------
\* Finalization, after the broadcast or as a command of its own

evidenceComplete(pending) ==
  /\ exists(pending)
  /\ pending.broadcast # None
  /\ IF pending.operation = "deploy" THEN exists(pending.result) ELSE pending.operations # <<>>

authenticateEvidence(operation) ==
  evidence[operation] = [buildInfo |-> journal[operation].release,
                         broadcast |-> journal[operation].broadcast]

finalizeAs(operation) ==
  [NoCommand EXCEPT !.kind = "finalize", !.operation = operation, !.pending = journal[operation]]

\* A manifest that is published already only needs the last steps again.
finalizePublished(operation) ==
  /\ classifyCanonicalState(latest, journal[operation]) = "result"
  /\ cmd' = [finalizeAs(operation) EXCEPT !.at = "finish", !.retry = TRUE]

finalizeSource(operation) ==
  /\ classifyCanonicalState(latest, journal[operation]) \in {"source", "absent"}
  /\ journal[operation].status # "finalized"
  /\ cmd' = [finalizeAs(operation) EXCEPT !.at = "receipts", !.source = latest,
                                          !.file = journal[operation].broadcast]

finalize(operation) ==
  /\ \/ cmd.at = "idle"
     \/ cmd.at = "finalize" /\ cmd.operation = operation
  /\ evidenceComplete(journal[operation])
  /\ authenticateEvidence(operation)
  /\ finalizePublished(operation) \/ finalizeSource(operation)
  /\ unchangedFiles /\ unchangedOthers

loadReceipts ==
  /\ cmd.at = "receipts"
  /\ LET nonces == extractBroadcastTransactionHashes(cmd.file)
     IN  /\ canLoadReceipts(nonces)
         /\ cmd' = [cmd EXCEPT !.at = "finality", !.file = None,
                               !.receipts = loadTransactionReceipts(nonces)]
  /\ unchangedFiles /\ unchangedOthers

waitForFilecoinFinality ==
  /\ cmd.at = "finality"
  /\ coveredByFinality(cmd.receipts)
  /\ inCanonicalBlocks(cmd.receipts)
  /\ cmd' = [cmd EXCEPT !.at = IF cmd.kind = "tokens" THEN "tokens" ELSE "live"]
  /\ unchangedFiles /\ unchangedOthers

publishedManifest ==
  IF cmd.operation = "upgrade" THEN renderUpgradedManifest(cmd.source, cmd.pending, cmd.receipts)
  ELSE [cmd.pending.result EXCEPT
          !.status = "finalized",
          !.transactions = mergeTransactions(cmd.pending.result.transactions, cmd.receipts)]

liveMatches ==
  IF cmd.operation = "upgrade" THEN verifyLiveDeployment(cmd.source, cmd.pending.operations)
  ELSE verifyLiveDeployment(publishedManifest, <<>>)

\* Mutant: the journal is not told what will be published.
NoResultHash ==
  /\ cmd.at = "live"
  /\ liveMatches
  /\ cmd' = [cmd EXCEPT !.at = "retain", !.source = NoManifest, !.receipts = <<>>,
                        !.pending.resultManifest = publishedManifest]
  /\ unchangedFiles /\ unchangedOthers

\* The manifest to be published goes to the journal before it is published.
checkLive ==
  /\ cmd.at = "live"
  /\ liveMatches
  /\ LET pending == [cmd.pending EXCEPT
                       !.result = IF cmd.operation = "deploy" THEN publishedManifest ELSE NoManifest,
                       !.resultManifest = publishedManifest]
     IN  /\ journal' = [journal EXCEPT ![cmd.operation] = pending]
         /\ cmd' = [cmd EXCEPT !.at = "retain", !.source = NoManifest, !.receipts = <<>>,
                               !.pending = pending]
  /\ UNCHANGED <<latest, head, retained, evidence, verified>>
  /\ unchangedOthers

-----------------------------------------------------------------------------
\* Publication: build-info, manifest, and only then the old build-infos go

\* Mutant: the old build-infos go first.
PruneFirst ==
  /\ cmd.at = "retain"
  /\ retained' = {cmd.pending.release}
  /\ cmd' = [cmd EXCEPT !.at = "latest"]
  /\ UNCHANGED <<latest, head, journal, evidence, verified>>
  /\ unchangedOthers

publishBuildInfo ==
  /\ cmd.at = "retain"
  /\ retained' = retained \cup {cmd.pending.release}
  /\ cmd' = [cmd EXCEPT !.at = "latest"]
  /\ UNCHANGED <<latest, head, journal, evidence, verified>>
  /\ unchangedOthers

publishManifest ==
  /\ cmd.at = "latest"
  /\ latest' = cmd.pending.resultManifest
  /\ cmd' = [cmd EXCEPT !.at = "prune"]
  /\ UNCHANGED <<head, retained, journal, evidence, verified>>
  /\ unchangedOthers

pruneBuildInfo ==
  /\ cmd.at = "prune"
  /\ retained' = retained \cap {cmd.pending.release}
  /\ cmd' = [cmd EXCEPT !.at = IF cmd.retry THEN "verify" ELSE "finish"]
  /\ UNCHANGED <<latest, head, journal, evidence, verified>>
  /\ unchangedOthers

finishPending ==
  /\ cmd.at = "finish"
  /\ journal' = [journal EXCEPT ![cmd.operation] = [cmd.pending EXCEPT !.status = "finalized"]]
  /\ cmd' = [cmd EXCEPT !.at = IF cmd.retry THEN "prune" ELSE "verify"]
  /\ UNCHANGED <<latest, head, retained, evidence, verified>>
  /\ unchangedOthers

\* The tokens are checked on the chain as it is now, and the manifest that was
\* read at the beginning is written back.
updatePaymentTokens ==
  /\ cmd.at = "tokens"
  /\ paymentTokenIsConfigured(cmd.source)
  /\ latest' = applyPaymentTokenPolicy(cmd.source, cmd.receipts)
  /\ cmd' = NoCommand
  /\ UNCHANGED <<head, retained, journal, evidence, verified>>
  /\ unchangedOthers

-----------------------------------------------------------------------------
\* Source verification

submitted(manifest) ==
  {address \in sourceVerificationTargets(manifest) :
     address \in justDeployed(manifest) \/ address \notin verified}

\* The explorer accepts what the present sources compile to.  All proxies are
\* the same contract.
sourceMatches(address) ==
  address \in executed /\ (sent[address].kind = "code" => sent[address].build = tree)

verifySources ==
  /\ (cmd.at = "idle" /\ exists(latest)) \/ cmd.at = "verify"
  /\ verified' = verified \cup {address \in submitted(latest) : sourceMatches(address)}
  /\ cmd' = NoCommand
  /\ UNCHANGED <<latest, head, retained, journal, evidence>>
  /\ unchangedOthers

-----------------------------------------------------------------------------
\* A command refuses to go on.

refuse ==
  /\ \/ cmd.at = "preflight" /\ ~preflightPasses
     \/ /\ cmd.at = "finalize"
        /\ \/ ~evidenceComplete(journal[cmd.operation])
           \/ ~authenticateEvidence(cmd.operation)
           \/ classifyCanonicalState(latest, journal[cmd.operation]) = "unexpected"
     \/ cmd.at = "receipts" /\ ~canLoadReceipts(extractBroadcastTransactionHashes(cmd.file))
     \/ cmd.at = "finality" /\ coveredByFinality(cmd.receipts) /\ ~inCanonicalBlocks(cmd.receipts)
     \/ cmd.at = "live" /\ ~liveMatches
     \/ cmd.at = "tokens" /\ ~paymentTokenIsConfigured(cmd.source)
  /\ cmd' = NoCommand
  /\ unchangedFiles /\ unchangedOthers

\* It is killed, or a tool or node it calls fails.
crash ==
  /\ cmd.at # "idle"
  /\ crashes + edits < MaxMishaps
  /\ crashes' = crashes + 1
  /\ cmd' = NoCommand
  /\ unchangedFiles
  /\ UNCHANGED <<chainVars, sourceVars, starts, edits>>

-----------------------------------------------------------------------------
\* People

\* Nothing is edited after the last start: the bound that keeps TLC's runs small.
editSources ==
  /\ cmd.at \in EditsWhile
  /\ starts < MaxStarts
  /\ tree' \in Builds \ {tree}
  /\ UNCHANGED committed
  /\ unchangedFiles
  /\ UNCHANGED <<chainVars, cmd, boundVars>>

commitSources ==
  /\ cmd.at \in EditsWhile
  /\ tree # committed
  /\ committed' = tree
  /\ unchangedFiles
  /\ UNCHANGED <<chainVars, tree, cmd, boundVars>>

commitManifest ==
  /\ cmd.at = "idle"
  /\ latest # head
  /\ head' = latest
  /\ UNCHANGED <<chainVars, sourceVars, latest, retained, journal, evidence, cmd, verified, boundVars>>

\* A change of the canonical manifest arrives, committed, from elsewhere.
editManifest ==
  /\ edits < MaxEdits /\ crashes + edits < MaxMishaps
  /\ exists(latest)
  /\ latest' = [latest EXCEPT !.revision = @ + 1]
  /\ head' = latest'
  /\ edits' = edits + 1
  /\ UNCHANGED <<chainVars, sourceVars, retained, journal, evidence, cmd, verified, starts, crashes>>

chainAlone ==
  /\ MineAgain \/ Reorganize \/ FinalizeHeight
  /\ UNCHANGED <<sourceVars, cmd, boundVars>>
  /\ unchangedFiles

-----------------------------------------------------------------------------
startCommand ==
  \/ "deploy" \in Commands /\ \E fresh \in BOOLEAN : deploy(fresh)
  \/ "missing" \in Commands /\ \E name \in Missing : deployMissing(name)
  \/ "upgrade" \in Commands /\ \E u \in Upgrades : upgrade(u[1], u[2])
  \/ "tokens" \in Commands /\ configurePaymentTokens

\* What a running command does by itself.
commandStep ==
  \/ buildContracts \/ retainBuildInfo \/ retainPendingStart
  \/ runForgeScript \/ broadcast \/ forgeSucceeds \/ forgeFails
  \/ recordBroadcast \/ recordJournal
  \/ loadReceipts \/ waitForFilecoinFinality \/ checkLive
  \/ publishBuildInfo \/ publishManifest \/ pruneBuildInfo \/ finishPending
  \/ updatePaymentTokens
  \/ refuse

people == editSources \/ commitSources \/ commitManifest \/ editManifest

Next ==
  \/ startCommand
  \/ commandStep
  \/ \E operation \in Operations : finalize(operation)
  \/ verifySources
  \/ crash
  \/ people
  \/ chainAlone

Spec == Init /\ [][Next]_vars

\* A command does not stop by itself, the chain mines what was sent and
\* finalizes what was mined, and finalization is asked for again and again.
FairSpec ==
  /\ Spec
  /\ WF_vars(commandStep)
  /\ WF_vars(verifySources /\ cmd.at = "verify")
  /\ WF_vars(MineAgain /\ chainAlone)
  /\ WF_vars(FinalizeHeight /\ chainAlone)
  /\ \A operation \in Operations : SF_vars(finalize(operation))

-----------------------------------------------------------------------------
\* Properties

unfinished(operation) == journal[operation].status = "pending"

\* Published, though the journal may not say so yet.
published(operation) == exists(latest) /\ journal[operation].resultManifest = latest

\* The build-info of the release of the canonical manifest is kept, wherever
\* publish or a retry of it stops (deployment.ts: publish, pruneBuildInfo).
\* Without it no later upgrade could compare storage layouts.
BuildInfoRetained == exists(latest) => latest.release \in retained

\* Every receipt of the canonical manifest is of a final block of the chain:
\* a reorganization during the wait is noticed.
PublishedIsFinal ==
  exists(latest) =>
    \A i \in DOMAIN latest.transactions :
      LET receipt == latest.transactions[i]
      IN  /\ receipt.nonce <= final
          /\ receipt.nonce \in executed
          /\ blocks[receipt.nonce].hash = receipt.block

\* While no operation is unfinished the canonical manifest describes the live
\* contracts, and no transaction of the tool is missing from the picture.
ManifestDescribesChain ==
  cmd.at = "idle" /\ noPendingOperation /\ exists(latest) => verifyLiveDeployment(latest, <<>>)

\* No proxy or beacon is ever given an implementation whose layout does not
\* extend that of the implementation it replaces, although the layouts are
\* compared with the last release and not with what is live.
LayoutsExtend ==
  \A n \in executed :
    sent[n].kind = "call" /\ sent[n].slot = "implementation" =>
      LET before == sent[valueAt(n - 1, sent[n].contract, "implementation")]
          after == sent[sent[n].value]
      IN  after.name = before.name /\ <<before.build, after.build>> \in Compatible[before.name]

\* No receipt is recorded twice, whatever was retried (mergeTransactions).
ReceiptsDistinct ==
  exists(latest) => IsInjective([i \in DOMAIN latest.transactions |-> latest.transactions[i].nonce])

evidenceStays(operation) ==
  unfinished(operation) =>
    /\ journal'[operation].release = journal[operation].release
    /\ journal'[operation].previous = journal[operation].previous
    /\ journal[operation].broadcast # None =>
         /\ journal'[operation].broadcast = journal[operation].broadcast
         /\ evidence'[operation] = evidence[operation]
    /\ evidence'[operation].buildInfo = journal[operation].release

\* An unfinished operation is never forgotten or replaced: its journal stays
\* that of the same release until it is finished, keeps what was recorded,
\* and its build-info stays with it.
EvidenceKept == [][\A operation \in Operations : evidenceStays(operation)]_vars

\* At most one operation is unfinished.
OneUnfinished == ~(unfinished("deploy") /\ unfinished("upgrade"))

hasFailed(operation) ==
  /\ evidenceComplete(journal[operation])
  /\ \E n \in DOMAIN blocks \ executed : n > journal[operation].broadcast.base

\* A recorded operation all of whose transactions are on the chain is
\* published and finished in the end, however often it is interrupted, unless
\* one of them failed.
RecordedEventuallyPublished ==
  \A operation \in Operations :
    /\ unfinished(operation)
    /\ evidenceComplete(journal[operation])
    /\ journal[operation].broadcast.sent = journal[operation].broadcast.total
    ~> \/ ~unfinished(operation)
       \/ hasFailed(operation)

\* A contract of an earlier release that the explorer holds already is not
\* submitted again (deployment-sources.ts: "Contracts carried over from an
\* earlier release were built from sources that have since changed").
CarriedOverSkipped ==
  exists(latest) =>
    \A address \in submitted(latest) \cap verified :
      sent[address].kind = "code" => sent[address].build = latest.release

\* The operation whose manifest is not published yet, as ReleaseLog sees it.
underway(operation) == unfinished(operation) /\ ~published(operation)

proposal(pending) ==
  IF ~evidenceComplete(pending)
  THEN [stage |-> "open", build |-> pending.release, contracts |-> None]
  ELSE [stage |-> "proposed", build |-> pending.release,
        contracts |-> IF pending.operation = "deploy" THEN pending.result.contracts
                      ELSE applyUpgrades(pending.previous.contracts, pending.operations)]

openOperation ==
  IF underway("deploy") THEN proposal(journal["deploy"])
  ELSE IF underway("upgrade") THEN proposal(journal["upgrade"])
  ELSE [stage |-> "none", build |-> None, contracts |-> None]

Log == INSTANCE ReleaseLog
         WITH canonical <- [build |-> latest.release, contracts |-> latest.contracts],
              open <- openOperation

\* The command line implements ReleaseLog: through crashes, failed broadcasts,
\* reorganizations and retries the canonical manifest changes in one step and
\* only to what the journal has recorded (deployment.ts: retainPendingStart,
\* retainPendingEvidence, publish).
ImplementsReleaseLog == Log!Spec
=============================================================================
