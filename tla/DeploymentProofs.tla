-------------------------- MODULE DeploymentProofs --------------------------
(***************************************************************************)
(* What the journal of the deployment command line is for, for every set   *)
(* of contracts, builds, commands and bounds: the build-info of the        *)
(* canonical release is never lost, an unfinished operation is neither     *)
(* replaced nor forgotten, and the command line implements ReleaseLog as   *)
(* long as nobody else writes the canonical manifest.                      *)
(*                                                                         *)
(* And what the wait for finality is for, for every number of outcomes     *)
(* and reorganizations: the receipts of the canonical manifest are of      *)
(* final blocks and of transactions that succeeded, and none is listed     *)
(* twice.  The invariant of the second part follows a list of receipts     *)
(* from the load (its blocks may still be dropped) over the check of       *)
(* finality and the journal to the manifest.                               *)
(***************************************************************************)
EXTENDS Deployment, SumLemmas, SequenceTheorems

-----------------------------------------------------------------------------
\* The files are records.  What the fields hold is left to TypeOK.

IsManifest(m) ==
  DOMAIN m = {"status", "release", "contracts", "tokens", "transactions", "revision"}

IsPending(p) ==
  /\ DOMAIN p = {"operation", "status", "previous", "release", "broadcast", "result", "targets",
                 "operations", "resultManifest"}
  /\ IsManifest(p.previous) /\ IsManifest(p.result) /\ IsManifest(p.resultManifest)

IsCommand(c) ==
  /\ DOMAIN c = {"at", "kind", "operation", "request", "source", "build", "base", "script", "file",
                 "failed", "pending", "receipts", "retry"}
  /\ IsManifest(c.source) /\ IsPending(c.pending)

Shapes ==
  /\ IsCommand(cmd)
  /\ IsManifest(latest)
  /\ DOMAIN journal = Operations /\ \A operation \in Operations : IsPending(journal[operation])
  /\ DOMAIN evidence = Operations
  /\ \A operation \in Operations : DOMAIN evidence[operation] = {"buildInfo", "broadcast"}

-----------------------------------------------------------------------------
\* The inductive invariant.  It says of every step of a command what the
\* command knows about the files.

\* A journal belongs to its file, and its manifests are of its release.
JournalOf(operation, p) ==
  /\ p.status \in {"absent", "pending", "finalized"}
  /\ exists(p) => p.operation = operation
  /\ exists(p.result) => p.result.release = p.release
  /\ exists(p.resultManifest) => p.resultManifest.release = p.release

JournalInv ==
  /\ \A operation \in Operations : JournalOf(operation, journal[operation])
  /\ OneUnfinished
  /\ \A operation \in Operations :
       unfinished(operation) => evidence[operation].buildInfo = journal[operation].release

Sending == {"forge", "broadcast", "record", "recordJournal"}
Checking == {"receipts", "finality", "live"}

KindMatches ==
  \/ cmd.kind \in {"deploy", "missing"} /\ cmd.operation = "deploy"
  \/ cmd.kind = "upgrade" /\ cmd.operation = "upgrade"

FreshPending ==
  /\ cmd.build \in Builds
  /\ cmd.pending.operation = cmd.operation
  /\ cmd.pending.status = "pending"
  /\ cmd.pending.release = cmd.build
  /\ cmd.pending.broadcast = None
  /\ cmd.pending.operations = <<>>
  /\ ~exists(cmd.pending.result)
  /\ ~exists(cmd.pending.resultManifest)

StartInv ==
  /\ cmd.at \in {"build", "preflight", "journal"} => KindMatches
  /\ cmd.at = "preflight" => cmd.build \in Builds
  /\ cmd.at = "journal" =>
       /\ FreshPending
       /\ noPendingOperation
       /\ evidence[cmd.operation].buildInfo = cmd.build
  /\ cmd.at \in Sending /\ cmd.kind # "tokens" =>
       /\ KindMatches
       /\ FreshPending
       /\ journal[cmd.operation] = cmd.pending

TokensInv ==
  cmd.kind = "tokens" =>
    /\ cmd.at \in {"forge", "broadcast", "receipts", "finality", "tokens"}
    /\ noPendingOperation
    /\ exists(latest) /\ exists(cmd.source)
    /\ latest.release = cmd.source.release
    /\ latest.contracts = cmd.source.contracts

\* The command has read a journal that is complete and not finished.
Underway ==
  /\ cmd.kind = "finalize"
  /\ cmd.operation \in Operations
  /\ journal[cmd.operation] = cmd.pending
  /\ unfinished(cmd.operation)
  /\ evidenceComplete(cmd.pending)

FinalizeInv ==
  /\ cmd.at \in Checking /\ cmd.kind # "tokens" =>
       /\ Underway
       /\ cmd.operation = "upgrade" => cmd.source = cmd.pending.previous
  /\ cmd.at \in {"retain", "latest"} =>
       /\ Underway
       /\ exists(cmd.pending.resultManifest)
       /\ cmd.pending.resultManifest.contracts = proposal(cmd.pending).contracts
  /\ cmd.at = "latest" => cmd.pending.release \in retained
  /\ cmd.at \in {"prune", "finish"} =>
       /\ cmd.operation \in Operations
       /\ exists(cmd.pending)
       /\ latest.release = cmd.pending.release
       /\ cmd.at = "finish" \/ ~cmd.retry => journal[cmd.operation] = cmd.pending
  /\ cmd.at \in {"live", "retain", "latest", "prune", "finish"} => cmd.kind = "finalize"
  /\ cmd.at = "tokens" => cmd.kind = "tokens"

IInv ==
  /\ tree \in Builds
  /\ Shapes
  /\ JournalInv
  /\ StartInv
  /\ TokensInv
  /\ FinalizeInv
  /\ BuildInfoRetained

\* While nobody edits the canonical manifest, it stays what the command has seen.
LatestInv ==
  /\ edits = 0
  /\ cmd.at \in Checking /\ cmd.kind # "tokens" => ~published(cmd.operation)
  /\ cmd.at \in {"prune", "finish"} => published(cmd.operation)

-----------------------------------------------------------------------------
\* The beginning, and the steps that leave the files alone.

LEMMA EmptyFiles == IsManifest(NoManifest) /\ IsPending(NoJournal) /\ IsCommand(NoCommand)
BY DEF IsManifest, IsPending, IsCommand, NoManifest, NoJournal, NoCommand

LEMMA InitInv == Init => IInv
<1> SUFFICES ASSUME Init PROVE IInv
  OBVIOUS
<1>1. tree \in Builds
  BY DeploymentAssumption DEF Init
<1>a. \/ latest = NoManifest
      \/ \E contracts, transactions :
           /\ latest = [status |-> "finalized", release |-> tree, contracts |-> contracts,
                        tokens |-> FALSE, transactions |-> transactions, revision |-> 0]
           /\ retained = {tree}
  BY Zenon DEF Init
<1>2. IsManifest(latest) /\ (exists(latest) => latest.release \in retained)
  BY <1>a, EmptyFiles DEF IsManifest, exists, NoManifest
<1>3. /\ cmd = NoCommand
      /\ journal = [operation \in Operations |-> NoJournal]
      /\ evidence = [operation \in Operations |-> [buildInfo |-> None, broadcast |-> None]]
  BY DEF Init
<1>4. Shapes
  BY <1>2, <1>3, EmptyFiles DEF Shapes
<1>5. JournalInv
  BY <1>3 DEF JournalInv, JournalOf, OneUnfinished, unfinished, NoJournal, NoManifest, exists, Operations
<1>6. StartInv /\ TokensInv /\ FinalizeInv
  BY <1>3 DEF StartInv, TokensInv, FinalizeInv, NoCommand, Sending, Checking
<1> QED
  BY <1>1, <1>2, <1>4, <1>5, <1>6 DEF IInv, BuildInfoRetained

\* What the invariant says of the files is kept when they are.
SameFiles == UNCHANGED <<latest, retained, journal, evidence>>

FilesInv ==
  /\ IsManifest(latest)
  /\ DOMAIN journal = Operations /\ \A operation \in Operations : IsPending(journal[operation])
  /\ DOMAIN evidence = Operations
  /\ \A operation \in Operations : DOMAIN evidence[operation] = {"buildInfo", "broadcast"}
  /\ JournalInv
  /\ BuildInfoRetained

LEMMA SameFilesKeep ==
  ASSUME IInv, SameFiles
  PROVE  FilesInv /\ FilesInv'
<1>1. FilesInv
  BY DEF IInv, Shapes, FilesInv
<1>2. FilesInv'
  BY <1>1 DEF FilesInv, SameFiles, JournalInv, JournalOf, OneUnfinished, unfinished, exists,
              BuildInfoRetained, IsManifest, IsPending
<1> QED
  BY <1>1, <1>2

LEMMA CommandEnds ==
  ASSUME IInv, SameFiles, tree' \in Builds, cmd' = NoCommand
  PROVE  IInv'
<1>1. FilesInv'
  BY SameFilesKeep
<1>2. IsCommand(cmd)'
  BY EmptyFiles
<1>3. (StartInv /\ TokensInv /\ FinalizeInv)'
  BY DEF StartInv, TokensInv, FinalizeInv, NoCommand, Sending, Checking
<1> QED
  BY <1>1, <1>2, <1>3 DEF IInv, Shapes, FilesInv

LEMMA CommandWaits ==
  ASSUME IInv, SameFiles, tree' \in Builds, UNCHANGED cmd
  PROVE  IInv'
<1>1. FilesInv'
  BY SameFilesKeep
<1>2. StartInv' /\ TokensInv'
  BY DEF IInv, StartInv, TokensInv, KindMatches, FreshPending, noPendingOperation, SameFiles, exists
<1>3. FinalizeInv'
  BY DEF IInv, FinalizeInv, Underway, unfinished, evidenceComplete, proposal, SameFiles, exists
<1>4. IsCommand(cmd)'
  BY DEF IInv, Shapes
<1> QED
  BY <1>1, <1>2, <1>3, <1>4 DEF IInv, Shapes, FilesInv

-----------------------------------------------------------------------------
\* Starts, build, preflight.

LEMMA OneStartKeeps ==
  ASSUME IInv, NEW step \in {"build", "tokens", "forge"}, NEW kind, NEW operation, NEW request,
         start(step, kind, operation, request),
         noPendingOperation,
         IF kind = "tokens" THEN step # "build" /\ exists(latest)
         ELSE /\ step = "build"
              /\ \/ kind \in {"deploy", "missing"} /\ operation = "deploy"
                 \/ kind = "upgrade" /\ operation = "upgrade"
  PROVE  IInv'
<1>2. /\ cmd' = [NoCommand EXCEPT !.at = step, !.kind = kind, !.operation = operation,
                                 !.request = request, !.source = latest]
      /\ SameFiles /\ tree' \in Builds
  BY DEF start, SameFiles, sourceVars, IInv
<1>3. /\ IsCommand(cmd)' /\ cmd'.at = step /\ cmd'.kind = kind /\ cmd'.operation = operation
      /\ cmd'.source = latest
  BY <1>2, EmptyFiles DEF IsCommand, IInv, Shapes
<1>4. FilesInv' /\ latest' = latest /\ journal' = journal
  BY <1>2, SameFilesKeep DEF SameFiles
<1>5. StartInv' /\ FinalizeInv'
  BY <1>3 DEF StartInv, FinalizeInv, KindMatches, Sending, Checking
<1>6. TokensInv'
  BY <1>3, <1>4 DEF TokensInv, noPendingOperation, exists
<1> QED
  BY <1>2, <1>3, <1>4, <1>5, <1>6 DEF IInv, Shapes, FilesInv

LEMMA StartKeeps == ASSUME IInv, startCommand PROVE IInv'
<1>1. CASE \E fresh \in BOOLEAN : deploy(fresh)
  <2>1. start("build", "deploy", "deploy", None) /\ noPendingOperation
    BY <1>1 DEF deploy, broadcastPreflight
  <2> QED
    BY <2>1, OneStartKeeps
<1>2. CASE \E name \in Missing : deployMissing(name)
  <2>1. PICK name \in Missing : start("build", "missing", "deploy", name) /\ noPendingOperation
    BY <1>2 DEF deployMissing, broadcastPreflight
  <2> QED
    BY <2>1, OneStartKeeps
<1>3. CASE \E u \in Upgrades : upgrade(u[1], u[2])
  <2>1. PICK u \in Upgrades :
          start("build", "upgrade", "upgrade", <<u[1], u[2]>>) /\ noPendingOperation
    BY <1>3 DEF upgrade, broadcastPreflight
  <2> QED
    BY <2>1, OneStartKeeps
<1>4. CASE configurePaymentTokens
  <2>1. PICK step \in {"tokens", "forge"} : start(step, "tokens", "none", None)
    BY <1>4 DEF configurePaymentTokens
  <2>2. noPendingOperation /\ exists(latest)
    BY <1>4 DEF configurePaymentTokens, broadcastPreflight, cleanCanonicalManifest
  <2> QED
    BY <2>1, <2>2, OneStartKeeps
<1> QED
  BY <1>1, <1>2, <1>3, <1>4 DEF startCommand

LEMMA BuildKeeps == ASSUME IInv, buildContracts PROVE IInv'
<1>1. /\ cmd.at = "build"
      /\ cmd' = [cmd EXCEPT !.at = "preflight", !.build = tree]
      /\ SameFiles /\ tree' \in Builds /\ tree \in Builds
  BY DEF buildContracts, unchangedFiles, unchangedOthers, SameFiles, sourceVars, IInv
<1>2. /\ IsCommand(cmd)' /\ cmd'.at = "preflight" /\ cmd'.kind = cmd.kind
      /\ cmd'.operation = cmd.operation /\ cmd'.build = tree
  BY <1>1 DEF IsCommand, IInv, Shapes
<1>3. KindMatches /\ cmd.kind # "tokens"
  BY <1>1 DEF IInv, StartInv, KindMatches
<1>4. StartInv' /\ TokensInv' /\ FinalizeInv'
  BY <1>1, <1>2, <1>3 DEF StartInv, TokensInv, FinalizeInv, KindMatches, Sending, Checking
<1> QED
  BY <1>1, <1>2, <1>4, SameFilesKeep DEF IInv, Shapes, FilesInv

LEMMA RetainBuildInfoKeeps == ASSUME IInv, retainBuildInfo PROVE IInv'
<1> DEFINE op == cmd.operation
<1>1. /\ cmd.at = "preflight"
      /\ noPendingOperation
      /\ cmd' = [cmd EXCEPT !.at = "journal", !.pending = newPending]
      /\ evidence' = [evidence EXCEPT ![op].buildInfo = cmd.build]
      /\ UNCHANGED <<latest, retained, journal>> /\ tree' \in Builds
  BY DEF retainBuildInfo, preflightPasses, unchangedOthers, sourceVars, IInv
<1>2. KindMatches /\ cmd.kind # "tokens" /\ cmd.build \in Builds /\ op \in Operations
  BY <1>1 DEF IInv, StartInv, KindMatches, Operations
<1>3. /\ IsPending(newPending) /\ newPending.operation = op /\ newPending.status = "pending"
      /\ newPending.release = cmd.build /\ newPending.broadcast = None
      /\ newPending.operations = <<>>
      /\ ~exists(newPending.result) /\ ~exists(newPending.resultManifest)
  BY <1>2, EmptyFiles DEF newPending, newPendingDeploy, newPendingUpgrade, IsPending, NoJournal, NoManifest,
     KindMatches, exists, IInv, Shapes, IsCommand
<1>4. /\ IsCommand(cmd)' /\ cmd'.at = "journal" /\ cmd'.kind = cmd.kind
      /\ cmd'.operation = op /\ cmd'.build = cmd.build /\ cmd'.pending = newPending
  BY <1>1, <1>3 DEF IsCommand, IInv, Shapes
<1>5. /\ DOMAIN evidence' = Operations
      /\ \A operation \in Operations : DOMAIN evidence'[operation] = {"buildInfo", "broadcast"}
      /\ evidence'[op].buildInfo = cmd.build
  BY <1>1, <1>2 DEF IInv, Shapes
<1>6. JournalInv'
  BY <1>1 DEF IInv, JournalInv, JournalOf, OneUnfinished, unfinished, noPendingOperation, exists, Operations
<1>7. StartInv' /\ TokensInv' /\ FinalizeInv'
  BY <1>1, <1>2, <1>3, <1>4, <1>5 DEF StartInv, TokensInv, FinalizeInv, KindMatches, FreshPending,
     noPendingOperation, exists, Sending, Checking
<1> QED
  BY <1>1, <1>4, <1>5, <1>6, <1>7 DEF IInv, Shapes, BuildInfoRetained, IsManifest, IsPending, exists

LEMMA RetainPendingStartKeeps == ASSUME IInv, retainPendingStart PROVE IInv'
<1> DEFINE op == cmd.operation
<1>1. /\ cmd.at = "journal"
      /\ journal' = [journal EXCEPT ![op] = cmd.pending]
      /\ cmd' = [cmd EXCEPT !.at = "forge"]
      /\ UNCHANGED <<latest, retained, evidence>> /\ tree' \in Builds
  BY DEF retainPendingStart, unchangedOthers, sourceVars, IInv
<1>2. /\ KindMatches /\ cmd.kind # "tokens" /\ FreshPending /\ noPendingOperation
      /\ evidence[op].buildInfo = cmd.build /\ op \in Operations
  BY <1>1 DEF IInv, StartInv, KindMatches, Operations
<1>3. /\ IsCommand(cmd)' /\ cmd'.at = "forge" /\ cmd'.kind = cmd.kind
      /\ cmd'.operation = op /\ cmd'.build = cmd.build /\ cmd'.pending = cmd.pending
  BY <1>1 DEF IsCommand, IInv, Shapes
<1>4. /\ DOMAIN journal' = Operations
      /\ journal'[op] = cmd.pending
      /\ \A other \in Operations \ {op} : journal'[other] = journal[other]
      /\ \A operation \in Operations : IsPending(journal'[operation])
  BY <1>1, <1>2 DEF IInv, Shapes, IsCommand
<1>5. JournalInv'
  BY <1>1, <1>2, <1>4 DEF IInv, JournalInv, JournalOf, OneUnfinished, unfinished, noPendingOperation, exists,
     FreshPending, Operations
<1>6. StartInv' /\ TokensInv' /\ FinalizeInv'
  BY <1>2, <1>3, <1>4 DEF StartInv, TokensInv, FinalizeInv, KindMatches, FreshPending, exists, Sending, Checking
<1> QED
  BY <1>1, <1>3, <1>4, <1>5, <1>6 DEF IInv, Shapes, BuildInfoRetained, IsManifest, IsPending, exists

-----------------------------------------------------------------------------
\* The broadcast and its evidence.

LEMMA SendingKeeps ==
  ASSUME IInv, SameFiles, tree' \in Builds, IsCommand(cmd)',
         cmd.at \in {"forge", "broadcast"},
         cmd'.at \in IF cmd.kind = "tokens" THEN {"broadcast", "receipts"} ELSE {"broadcast", "record"},
         cmd'.kind = cmd.kind, cmd'.operation = cmd.operation, cmd'.build = cmd.build,
         cmd'.pending = cmd.pending, cmd'.source = cmd.source
  PROVE  IInv'
<1>1. FilesInv' /\ latest' = latest /\ journal' = journal
  BY SameFilesKeep DEF SameFiles
<1>2. StartInv'
  BY <1>1 DEF IInv, StartInv, KindMatches, FreshPending, Sending, exists
<1>3. TokensInv'
  BY <1>1 DEF IInv, TokensInv, noPendingOperation, exists
<1>4. FinalizeInv'
  BY DEF FinalizeInv, Checking
<1> QED
  BY <1>1, <1>2, <1>3, <1>4 DEF IInv, Shapes, FilesInv

LEMMA RunForgeKeeps == ASSUME IInv, runForgeScript PROVE IInv'
<1>1. PICK script : cmd' = [cmd EXCEPT !.at = "broadcast", !.base = Len(sent), !.script = script]
  BY DEF runForgeScript
<1>2. cmd.at = "forge" /\ SameFiles /\ tree' \in Builds
  BY DEF runForgeScript, unchangedFiles, unchangedOthers, SameFiles, sourceVars, IInv
<1>3. /\ IsCommand(cmd)' /\ cmd'.at = "broadcast" /\ cmd'.kind = cmd.kind
      /\ cmd'.operation = cmd.operation /\ cmd'.build = cmd.build /\ cmd'.pending = cmd.pending
      /\ cmd'.source = cmd.source
  BY <1>1 DEF IsCommand, IInv, Shapes
<1> QED
  BY <1>2, <1>3, SendingKeeps

LEMMA BroadcastKeeps == ASSUME IInv, broadcast PROVE IInv'
BY CommandWaits DEF broadcast, unchangedFiles, SameFiles, sourceVars, IInv

LEMMA ForgeSucceedsKeeps == ASSUME IInv, forgeSucceeds PROVE IInv'
<1>1. /\ cmd.at = "broadcast" /\ SameFiles /\ tree' \in Builds
      /\ cmd' = [cmd EXCEPT !.at = IF cmd.kind = "tokens" THEN "receipts" ELSE "record",
                            !.script = <<>>, !.file = broadcastFile]
  BY DEF forgeSucceeds, unchangedFiles, unchangedOthers, SameFiles, sourceVars, IInv
<1>3. /\ IsCommand(cmd)' /\ cmd'.at = (IF cmd.kind = "tokens" THEN "receipts" ELSE "record")
      /\ cmd'.kind = cmd.kind /\ cmd'.operation = cmd.operation /\ cmd'.build = cmd.build
      /\ cmd'.pending = cmd.pending /\ cmd'.source = cmd.source
  BY <1>1 DEF IsCommand, IInv, Shapes
<1> QED
  BY <1>1, <1>3, SendingKeeps

LEMMA ForgeFailsKeeps == ASSUME IInv, forgeFails PROVE IInv'
<1>1. cmd.at = "broadcast" /\ SameFiles /\ tree' \in Builds
  BY DEF forgeFails, unchangedFiles, unchangedOthers, SameFiles, sourceVars, IInv
<1>2. CASE cmd' = NoCommand
  BY <1>1, <1>2, CommandEnds
<1>3. CASE /\ cmd.kind # "tokens"
           /\ cmd' = [cmd EXCEPT !.at = "record", !.script = <<>>, !.file = broadcastFile,
                                 !.failed = TRUE]
  <2>1. /\ IsCommand(cmd)' /\ cmd'.at = "record" /\ cmd'.kind = cmd.kind
        /\ cmd'.operation = cmd.operation /\ cmd'.build = cmd.build
        /\ cmd'.pending = cmd.pending /\ cmd'.source = cmd.source
    BY <1>3 DEF IsCommand, IInv, Shapes
  <2> QED
    BY <1>1, <1>3, <2>1, SendingKeeps
<1> QED
  BY <1>2, <1>3 DEF forgeFails

LEMMA RecordBroadcastKeeps == ASSUME IInv, recordBroadcast PROVE IInv'
<1> DEFINE op == cmd.operation
<1>1. /\ cmd.at = "record"
      /\ cmd' = [cmd EXCEPT !.at = "recordJournal"]
      /\ evidence' = [evidence EXCEPT ![op] = [buildInfo |-> cmd.build, broadcast |-> cmd.file]]
      /\ UNCHANGED <<latest, retained, journal>> /\ tree' \in Builds
  BY DEF recordBroadcast, unchangedOthers, sourceVars, IInv
<1>2. /\ KindMatches /\ FreshPending /\ journal[op] = cmd.pending /\ op \in Operations
      /\ cmd.kind # "tokens"
  BY <1>1 DEF IInv, StartInv, TokensInv, KindMatches, Operations, Sending
<1>3. /\ IsCommand(cmd)' /\ cmd'.at = "recordJournal" /\ cmd'.kind = cmd.kind
      /\ cmd'.operation = op /\ cmd'.build = cmd.build /\ cmd'.pending = cmd.pending
  BY <1>1 DEF IsCommand, IInv, Shapes
<1>4. /\ DOMAIN evidence' = Operations
      /\ \A operation \in Operations : DOMAIN evidence'[operation] = {"buildInfo", "broadcast"}
      /\ evidence'[op].buildInfo = cmd.build
      /\ \A other \in Operations \ {op} : evidence'[other] = evidence[other]
  BY <1>1, <1>2 DEF IInv, Shapes
<1>5. JournalInv'
  BY <1>1, <1>2, <1>4 DEF IInv, JournalInv, JournalOf, OneUnfinished, unfinished, exists, FreshPending
<1>6. StartInv' /\ TokensInv' /\ FinalizeInv'
  BY <1>1, <1>2, <1>3 DEF StartInv, TokensInv, FinalizeInv, KindMatches, FreshPending, exists, Sending,
     Checking
<1> QED
  BY <1>1, <1>3, <1>4, <1>5, <1>6 DEF IInv, Shapes, BuildInfoRetained, IsManifest, IsPending, exists

\* What recordJournal writes.
LEMMA RecordedPending ==
  ASSUME IInv, cmd.at = "recordJournal"
  PROVE  /\ KindMatches /\ cmd.operation \in Operations
         /\ journal[cmd.operation] = cmd.pending /\ FreshPending
         /\ IsPending(recordedPending)
         /\ recordedPending.operation = cmd.operation
         /\ recordedPending.status = "pending"
         /\ recordedPending.release = cmd.build
         /\ recordedPending.previous = cmd.pending.previous
         /\ ~exists(recordedPending.resultManifest)
         /\ exists(recordedPending.result) => recordedPending.result.release = cmd.build
<1>1. /\ KindMatches /\ FreshPending /\ journal[cmd.operation] = cmd.pending
      /\ cmd.operation \in Operations
  BY DEF IInv, StartInv, TokensInv, KindMatches, Operations, Sending
<1>2. IsPending(cmd.pending) /\ IsManifest(cmd.source)
  BY DEF IInv, Shapes, IsCommand
<1>3. CASE cmd.kind = "upgrade"
  BY <1>1, <1>2, <1>3 DEF recordedPending, IsPending, FreshPending, exists
<1>4. CASE cmd.kind # "upgrade"
  <2> DEFINE result == IF cmd.kind = "missing" THEN recordDeployMissing ELSE recordedDeploy
  <2>1. IsManifest(result) /\ result.release = cmd.build
    BY <1>2 DEF recordDeployMissing, mergeMissingHelpers, recordedDeploy, IsManifest
  <2>2. recordedPending = [cmd.pending EXCEPT !.broadcast = cmd.file, !.result = result]
    BY <1>4 DEF recordedPending
  <2> HIDE DEF result
  <2> QED
    BY <1>1, <1>2, <2>1, <2>2 DEF IsPending, FreshPending, exists
<1> QED
  BY <1>1, <1>3, <1>4

LEMMA RecordJournalKeeps == ASSUME IInv, recordJournal PROVE IInv'
<1> DEFINE op == cmd.operation
<1>1. /\ cmd.at = "recordJournal"
      /\ journal' = [journal EXCEPT ![op] = recordedPending]
      /\ cmd' = NoCommand
         \/ cmd' = [NoCommand EXCEPT !.at = "finalize", !.kind = "finalize", !.operation = op]
      /\ UNCHANGED <<latest, retained, evidence>> /\ tree' \in Builds
  BY DEF recordJournal, unchangedOthers, sourceVars, IInv
<1>2. /\ op \in Operations /\ IsPending(recordedPending) /\ recordedPending.operation = op
      /\ recordedPending.status = "pending" /\ recordedPending.release = cmd.build
      /\ ~exists(recordedPending.resultManifest)
      /\ exists(recordedPending.result) => recordedPending.result.release = cmd.build
      /\ journal[op] = cmd.pending /\ cmd.pending.release = cmd.build /\ cmd.pending.status = "pending"
  BY <1>1, RecordedPending DEF FreshPending
<1>3. /\ IsCommand(cmd)' /\ cmd'.at \in {"idle", "finalize"} /\ cmd'.kind \in {"none", "finalize"}
  <2>1. CASE cmd' = NoCommand
    BY <2>1, EmptyFiles DEF NoCommand
  <2>2. CASE cmd' = [NoCommand EXCEPT !.at = "finalize", !.kind = "finalize", !.operation = op]
    BY <2>2, EmptyFiles DEF IsCommand
  <2> QED
    BY <1>1, <2>1, <2>2
<1>4. /\ DOMAIN journal' = Operations
      /\ journal'[op] = recordedPending
      /\ \A other \in Operations \ {op} : journal'[other] = journal[other]
      /\ \A operation \in Operations : IsPending(journal'[operation])
  BY <1>1, <1>2 DEF IInv, Shapes
<1>5. JournalInv'
  BY <1>1, <1>2, <1>4 DEF IInv, JournalInv, JournalOf, OneUnfinished, unfinished, exists, Operations
<1>6. StartInv' /\ TokensInv' /\ FinalizeInv'
  BY <1>3 DEF StartInv, TokensInv, FinalizeInv, Sending, Checking
<1> QED
  BY <1>1, <1>3, <1>4, <1>5, <1>6 DEF IInv, Shapes, BuildInfoRetained, IsManifest, IsPending, exists

-----------------------------------------------------------------------------
\* Finalization.

LEMMA FinalizeKeeps ==
  ASSUME IInv, NEW operation \in Operations, finalize(operation)
  PROVE  IInv'
<1> DEFINE p == journal[operation]
<1>1. SameFiles /\ tree' \in Builds /\ evidenceComplete(p) /\ IsPending(p) /\ IsManifest(latest)
  BY DEF finalize, unchangedFiles, unchangedOthers, SameFiles, sourceVars, IInv, Shapes
<1>2. FilesInv /\ FilesInv' /\ latest' = latest /\ journal' = journal
  BY <1>1, SameFilesKeep DEF SameFiles
<1>3. JournalOf(operation, p)
  BY DEF IInv, JournalInv
<1>4. CASE finalizePublished(operation)
  <2>1. /\ IsCommand(cmd)' /\ cmd'.at = "finish" /\ cmd'.kind = "finalize"
        /\ cmd'.operation = operation /\ cmd'.pending = p
    BY <1>1, <1>4, EmptyFiles DEF finalizePublished, finalizeAs, IsCommand
  <2>2. exists(p) /\ latest.release = p.release
    BY <1>1, <1>3, <1>4 DEF finalizePublished, classifyCanonicalState, evidenceComplete, JournalOf
  <2>3. StartInv' /\ TokensInv' /\ FinalizeInv'
    BY <1>2, <2>1, <2>2 DEF StartInv, TokensInv, FinalizeInv, Sending, Checking, exists
  <2> QED
    BY <1>1, <1>2, <2>1, <2>3 DEF IInv, Shapes, FilesInv
<1>5. CASE finalizeSource(operation)
  <2>1. /\ IsCommand(cmd)' /\ cmd'.at = "receipts" /\ cmd'.kind = "finalize"
        /\ cmd'.operation = operation /\ cmd'.pending = p /\ cmd'.source = latest
    BY <1>1, <1>5, EmptyFiles DEF finalizeSource, finalizeAs, IsCommand
  <2>2. unfinished(operation) /\ p.operation = operation
    BY <1>1, <1>3, <1>5 DEF finalizeSource, evidenceComplete, JournalOf, exists, unfinished
  <2>3. operation = "upgrade" => latest = p.previous
    BY <1>5, <2>2 DEF finalizeSource, classifyCanonicalState
  <2>4. Underway'
    BY <1>1, <1>2, <2>1, <2>2 DEF Underway, unfinished, evidenceComplete, exists
  <2>5. StartInv' /\ TokensInv' /\ FinalizeInv'
    BY <2>1, <2>3, <2>4 DEF StartInv, TokensInv, FinalizeInv, Sending, Checking
  <2> QED
    BY <1>1, <1>2, <2>1, <2>5 DEF IInv, Shapes, FilesInv
<1> QED
  BY <1>4, <1>5 DEF finalize

LEMMA CheckingKeeps ==
  ASSUME IInv, SameFiles, tree' \in Builds, IsCommand(cmd)',
         cmd.at \in Checking,
         cmd'.at \in IF cmd.kind = "tokens" THEN {"finality", "tokens"} ELSE {"finality", "live"},
         cmd'.kind = cmd.kind, cmd'.operation = cmd.operation,
         cmd'.pending = cmd.pending, cmd'.source = cmd.source
  PROVE  IInv'
<1>1. FilesInv' /\ latest' = latest /\ journal' = journal
  BY SameFilesKeep DEF SameFiles
<1>2. StartInv'
  BY DEF StartInv, Sending
<1>3. TokensInv'
  BY <1>1 DEF IInv, TokensInv, noPendingOperation, exists
<1>4. FinalizeInv'
  BY <1>1 DEF IInv, FinalizeInv, Underway, unfinished, evidenceComplete, exists, Checking
<1> QED
  BY <1>1, <1>2, <1>3, <1>4 DEF IInv, Shapes, FilesInv

LEMMA LoadReceiptsKeeps == ASSUME IInv, loadReceipts PROVE IInv'
<1>1. cmd.at = "receipts" /\ SameFiles /\ tree' \in Builds
  BY DEF loadReceipts, unchangedFiles, unchangedOthers, SameFiles, sourceVars, IInv
<1>2. PICK receipts : cmd' = [cmd EXCEPT !.at = "finality", !.file = None, !.receipts = receipts]
  BY DEF loadReceipts
<1>3. /\ IsCommand(cmd)' /\ cmd'.at = "finality" /\ cmd'.kind = cmd.kind
      /\ cmd'.operation = cmd.operation /\ cmd'.pending = cmd.pending /\ cmd'.source = cmd.source
  BY <1>2 DEF IsCommand, IInv, Shapes
<1> QED
  BY <1>1, <1>3, CheckingKeeps DEF Checking

LEMMA FinalityKeeps == ASSUME IInv, waitForFilecoinFinality PROVE IInv'
<1>1. /\ cmd.at = "finality" /\ SameFiles /\ tree' \in Builds
      /\ cmd' = [cmd EXCEPT !.at = IF cmd.kind = "tokens" THEN "tokens" ELSE "live"]
  BY DEF waitForFilecoinFinality, unchangedFiles, unchangedOthers, SameFiles, sourceVars, IInv
<1>3. /\ IsCommand(cmd)' /\ cmd'.at = (IF cmd.kind = "tokens" THEN "tokens" ELSE "live")
      /\ cmd'.kind = cmd.kind /\ cmd'.operation = cmd.operation /\ cmd'.pending = cmd.pending
      /\ cmd'.source = cmd.source
  BY <1>1 DEF IsCommand, IInv, Shapes
<1> QED
  BY <1>1, <1>3, CheckingKeeps DEF Checking

\* What checkLive writes.
CheckedPending ==
  [cmd.pending EXCEPT
     !.result = IF cmd.operation = "deploy" THEN publishedManifest ELSE NoManifest,
     !.resultManifest = publishedManifest]

LEMMA CheckedPendingFields ==
  ASSUME IInv, cmd.at = "live"
  PROVE  /\ Underway
         /\ IsPending(CheckedPending)
         /\ CheckedPending.operation = cmd.operation
         /\ CheckedPending.status = "pending"
         /\ CheckedPending.release = cmd.pending.release
         /\ CheckedPending.previous = cmd.pending.previous
         /\ CheckedPending.broadcast = cmd.pending.broadcast
         /\ JournalOf(cmd.operation, CheckedPending)
         /\ exists(CheckedPending.resultManifest)
         /\ evidenceComplete(CheckedPending)
         /\ CheckedPending.resultManifest.contracts = proposal(CheckedPending).contracts
         /\ proposal(CheckedPending) = proposal(cmd.pending)
<1> DEFINE p == cmd.pending
<1>1. /\ Underway /\ (cmd.operation = "upgrade" => cmd.source = p.previous)
  BY DEF IInv, FinalizeInv, TokensInv, Checking
<1>2. /\ IsPending(p) /\ IsManifest(cmd.source) /\ JournalOf(cmd.operation, p)
      /\ p.status = "pending" /\ evidenceComplete(p) /\ cmd.operation \in {"deploy", "upgrade"}
      /\ p.operation = cmd.operation
  BY <1>1 DEF IInv, Shapes, IsCommand, Underway, JournalInv, JournalOf, unfinished, exists, Operations
<1>3. CASE cmd.operation = "deploy"
  <2>1. /\ exists(p.result) /\ p.result.release = p.release
    BY <1>2, <1>3 DEF evidenceComplete, JournalOf
  <2>2. PICK transactions :
          publishedManifest = [p.result EXCEPT !.status = "finalized", !.transactions = transactions]
    BY <1>3 DEF publishedManifest
  <2>3. /\ IsManifest(publishedManifest) /\ publishedManifest.status = "finalized"
        /\ publishedManifest.release = p.release
        /\ publishedManifest.contracts = p.result.contracts
    BY <1>2, <2>1, <2>2 DEF IsManifest, IsPending
  <2>4. CheckedPending = [p EXCEPT !.result = publishedManifest, !.resultManifest = publishedManifest]
    BY <1>3 DEF CheckedPending
  <2>5. /\ IsPending(CheckedPending) /\ CheckedPending.operation = p.operation
        /\ CheckedPending.status = p.status /\ CheckedPending.release = p.release
        /\ CheckedPending.previous = p.previous /\ CheckedPending.broadcast = p.broadcast
        /\ CheckedPending.result = publishedManifest
        /\ CheckedPending.resultManifest = publishedManifest
    BY <1>2, <2>3, <2>4 DEF IsPending
  <2>6. evidenceComplete(CheckedPending) /\ JournalOf(cmd.operation, CheckedPending)
    BY <1>2, <1>3, <2>3, <2>5 DEF evidenceComplete, JournalOf, exists
  <2>7. proposal(CheckedPending) = proposal(p)
        /\ proposal(CheckedPending).contracts = publishedManifest.contracts
    BY <1>2, <1>3, <2>3, <2>5, <2>6 DEF proposal
  <2> QED
    BY <1>1, <1>2, <2>3, <2>5, <2>6, <2>7 DEF exists
<1>4. CASE cmd.operation = "upgrade"
  <2>1. cmd.source = p.previous
    BY <1>1, <1>4
  <2>2. publishedManifest = [cmd.source EXCEPT
          !.status = "finalized", !.release = p.release,
          !.contracts = applyUpgrades(cmd.source.contracts, p.operations),
          !.transactions = cmd.receipts]
    BY <1>4 DEF publishedManifest, renderUpgradedManifest
  <2>3. /\ IsManifest(publishedManifest) /\ publishedManifest.status = "finalized"
        /\ publishedManifest.release = p.release
        /\ publishedManifest.contracts = applyUpgrades(p.previous.contracts, p.operations)
    BY <1>2, <2>1, <2>2 DEF IsManifest
  <2>4. CheckedPending = [p EXCEPT !.result = NoManifest, !.resultManifest = publishedManifest]
    BY <1>4 DEF CheckedPending
  <2>5. /\ IsPending(CheckedPending) /\ CheckedPending.operation = p.operation
        /\ CheckedPending.status = p.status /\ CheckedPending.release = p.release
        /\ CheckedPending.previous = p.previous /\ CheckedPending.broadcast = p.broadcast
        /\ CheckedPending.operations = p.operations
        /\ CheckedPending.result = NoManifest
        /\ CheckedPending.resultManifest = publishedManifest
    BY <1>2, <2>3, <2>4, EmptyFiles DEF IsPending
  <2>6. evidenceComplete(CheckedPending) /\ JournalOf(cmd.operation, CheckedPending)
    BY <1>2, <1>4, <2>3, <2>5 DEF evidenceComplete, JournalOf, exists, NoManifest
  <2>7. proposal(CheckedPending) = proposal(p)
        /\ proposal(CheckedPending).contracts = publishedManifest.contracts
    BY <1>2, <1>4, <2>3, <2>5, <2>6 DEF proposal
  <2> QED
    BY <1>1, <1>2, <2>3, <2>5, <2>6, <2>7 DEF exists
<1> QED
  BY <1>2, <1>3, <1>4

LEMMA CheckLiveKeeps == ASSUME IInv, checkLive PROVE IInv'
<1> DEFINE op == cmd.operation
<1>1. /\ cmd.at = "live"
      /\ journal' = [journal EXCEPT ![op] = CheckedPending]
      /\ cmd' = [cmd EXCEPT !.at = "retain", !.source = NoManifest, !.receipts = <<>>,
                            !.pending = CheckedPending]
      /\ UNCHANGED <<latest, retained, evidence>> /\ tree' \in Builds
  BY DEF checkLive, CheckedPending, unchangedOthers, sourceVars, IInv
<1>2. /\ Underway /\ IsPending(CheckedPending) /\ CheckedPending.status = "pending"
      /\ CheckedPending.release = cmd.pending.release
      /\ JournalOf(op, CheckedPending) /\ exists(CheckedPending.resultManifest)
      /\ evidenceComplete(CheckedPending)
      /\ CheckedPending.resultManifest.contracts = proposal(CheckedPending).contracts
  BY <1>1, CheckedPendingFields
<1> HIDE DEF CheckedPending
<1>3. /\ IsCommand(cmd)' /\ cmd'.at = "retain" /\ cmd'.kind = "finalize"
      /\ cmd'.operation = op /\ cmd'.pending = CheckedPending
  BY <1>1, <1>2, EmptyFiles DEF IsCommand, IInv, Shapes, Underway
<1>4. /\ op \in Operations /\ journal[op] = cmd.pending /\ unfinished(op)
  BY <1>2 DEF Underway
<1>5. /\ DOMAIN journal' = Operations
      /\ journal'[op] = CheckedPending
      /\ \A other \in Operations \ {op} : journal'[other] = journal[other]
      /\ \A operation \in Operations : IsPending(journal'[operation])
  BY <1>1, <1>2, <1>4 DEF IInv, Shapes
<1>6. JournalInv'
  BY <1>1, <1>2, <1>4, <1>5 DEF IInv, JournalInv, JournalOf, OneUnfinished, unfinished, exists, Operations
<1>7. Underway'
  BY <1>2, <1>3, <1>4, <1>5 DEF Underway, unfinished, evidenceComplete, exists
<1>8. StartInv' /\ TokensInv'
  BY <1>3 DEF StartInv, TokensInv, Sending
<1>9. FinalizeInv'
  BY <1>2, <1>3, <1>7 DEF FinalizeInv, Checking, exists, proposal, evidenceComplete
<1> QED
  BY <1>1, <1>3, <1>5, <1>6, <1>8, <1>9 DEF IInv, Shapes, BuildInfoRetained, IsManifest, IsPending, exists

-----------------------------------------------------------------------------
\* Publication, and the rest.

LEMMA PublishBuildInfoKeeps == ASSUME IInv, publishBuildInfo PROVE IInv'
<1>1. /\ cmd.at = "retain"
      /\ retained' = retained \cup {cmd.pending.release}
      /\ cmd' = [cmd EXCEPT !.at = "latest"]
      /\ UNCHANGED <<latest, journal, evidence>> /\ tree' \in Builds
  BY DEF publishBuildInfo, unchangedOthers, sourceVars, IInv
<1>2. /\ IsCommand(cmd)' /\ cmd'.at = "latest" /\ cmd'.kind = cmd.kind
      /\ cmd'.operation = cmd.operation /\ cmd'.pending = cmd.pending
  BY <1>1 DEF IsCommand, IInv, Shapes
<1>3. JournalInv' /\ BuildInfoRetained'
  BY <1>1 DEF IInv, JournalInv, JournalOf, OneUnfinished, unfinished, exists, BuildInfoRetained
<1>4. StartInv' /\ TokensInv'
  BY <1>1, <1>2 DEF IInv, StartInv, TokensInv, Sending
<1>5. FinalizeInv'
  BY <1>1, <1>2 DEF IInv, FinalizeInv, Underway, unfinished, evidenceComplete, exists, proposal, Checking
<1> QED
  BY <1>1, <1>2, <1>3, <1>4, <1>5 DEF IInv, Shapes, IsManifest, IsPending

LEMMA PublishManifestKeeps == ASSUME IInv, publishManifest PROVE IInv'
<1>1. /\ cmd.at = "latest"
      /\ latest' = cmd.pending.resultManifest
      /\ cmd' = [cmd EXCEPT !.at = "prune"]
      /\ UNCHANGED <<retained, journal, evidence>> /\ tree' \in Builds
  BY DEF publishManifest, unchangedOthers, sourceVars, IInv
<1>2. /\ IsCommand(cmd)' /\ cmd'.at = "prune" /\ cmd'.kind = cmd.kind
      /\ cmd'.operation = cmd.operation /\ cmd'.pending = cmd.pending
  BY <1>1 DEF IsCommand, IInv, Shapes
<1>3. /\ Underway /\ exists(cmd.pending.resultManifest) /\ cmd.pending.release \in retained
      /\ cmd.kind = "finalize"
  BY <1>1 DEF IInv, FinalizeInv
<1>a. JournalOf(cmd.operation, cmd.pending) /\ exists(cmd.pending)
  BY <1>3 DEF IInv, JournalInv, Underway, evidenceComplete
<1>4. /\ latest'.release = cmd.pending.release /\ exists(cmd.pending) /\ IsManifest(latest)'
  <2>1. IsManifest(cmd.pending.resultManifest)
    BY DEF IInv, Shapes, IsCommand, IsPending
  <2> QED
    BY <1>1, <1>3, <1>a, <2>1 DEF JournalOf, IsManifest
<1>5. JournalInv' /\ BuildInfoRetained'
  BY <1>1, <1>3, <1>4 DEF IInv, JournalInv, JournalOf, OneUnfinished, unfinished, exists, BuildInfoRetained
<1>6. StartInv' /\ TokensInv'
  BY <1>2, <1>3 DEF StartInv, TokensInv, Sending
<1>7. FinalizeInv'
  BY <1>1, <1>2, <1>3, <1>4 DEF FinalizeInv, Underway, exists, Checking
<1> QED
  BY <1>1, <1>2, <1>4, <1>5, <1>6, <1>7 DEF IInv, Shapes, IsManifest, IsPending

LEMMA PruneKeeps == ASSUME IInv, pruneBuildInfo PROVE IInv'
<1>1. /\ cmd.at = "prune"
      /\ retained' = retained \cap {cmd.pending.release}
      /\ cmd' = [cmd EXCEPT !.at = IF cmd.retry THEN "verify" ELSE "finish"]
      /\ UNCHANGED <<latest, journal, evidence>> /\ tree' \in Builds
  BY DEF pruneBuildInfo, unchangedOthers, sourceVars, IInv
<1>2. /\ IsCommand(cmd)' /\ cmd'.at = (IF cmd.retry THEN "verify" ELSE "finish")
      /\ cmd'.kind = cmd.kind /\ cmd'.operation = cmd.operation /\ cmd'.pending = cmd.pending
  BY <1>1 DEF IsCommand, IInv, Shapes
<1>3. /\ cmd.operation \in Operations /\ latest.release = cmd.pending.release
      /\ exists(cmd.pending) /\ cmd.kind = "finalize"
      /\ ~cmd.retry => journal[cmd.operation] = cmd.pending
  BY <1>1 DEF IInv, FinalizeInv
<1>4. JournalInv' /\ BuildInfoRetained'
  BY <1>1, <1>3 DEF IInv, JournalInv, JournalOf, OneUnfinished, unfinished, exists, BuildInfoRetained
<1>5. StartInv' /\ TokensInv' /\ FinalizeInv'
  BY <1>1, <1>2, <1>3 DEF StartInv, TokensInv, FinalizeInv, exists, Sending, Checking
<1> QED
  BY <1>1, <1>2, <1>4, <1>5 DEF IInv, Shapes, IsManifest, IsPending

LEMMA FinishKeeps == ASSUME IInv, finishPending PROVE IInv'
<1> DEFINE op == cmd.operation
           finished == [cmd.pending EXCEPT !.status = "finalized"]
<1>1. /\ cmd.at = "finish"
      /\ journal' = [journal EXCEPT ![op] = finished]
      /\ cmd' = [cmd EXCEPT !.at = IF cmd.retry THEN "prune" ELSE "verify"]
      /\ UNCHANGED <<latest, retained, evidence>> /\ tree' \in Builds
  BY DEF finishPending, unchangedOthers, sourceVars, IInv
<1>2. /\ IsCommand(cmd)' /\ cmd'.at = (IF cmd.retry THEN "prune" ELSE "verify")
      /\ cmd'.kind = cmd.kind /\ cmd'.operation = op /\ cmd'.pending = cmd.pending
      /\ cmd'.retry = cmd.retry
  BY <1>1 DEF IsCommand, IInv, Shapes
<1>3. /\ op \in Operations /\ latest.release = cmd.pending.release
      /\ exists(cmd.pending) /\ cmd.kind = "finalize" /\ journal[op] = cmd.pending
  BY <1>1 DEF IInv, FinalizeInv
<1>4. /\ IsPending(finished) /\ finished.status = "finalized"
      /\ finished.operation = cmd.pending.operation /\ finished.release = cmd.pending.release
      /\ finished.result = cmd.pending.result
      /\ finished.resultManifest = cmd.pending.resultManifest
  BY DEF IInv, Shapes, IsCommand, IsPending
<1> HIDE DEF finished
<1>5. /\ DOMAIN journal' = Operations
      /\ journal'[op] = finished
      /\ \A other \in Operations \ {op} : journal'[other] = journal[other]
      /\ \A operation \in Operations : IsPending(journal'[operation])
  BY <1>1, <1>3, <1>4 DEF IInv, Shapes
<1>6. JournalInv'
  BY <1>1, <1>3, <1>4, <1>5 DEF IInv, JournalInv, JournalOf, OneUnfinished, unfinished, exists, Operations
<1>7. StartInv' /\ TokensInv' /\ FinalizeInv'
  BY <1>1, <1>2, <1>3 DEF StartInv, TokensInv, FinalizeInv, exists, Sending, Checking
<1> QED
  BY <1>1, <1>2, <1>5, <1>6, <1>7 DEF IInv, Shapes, BuildInfoRetained, IsManifest, IsPending, exists

LEMMA TokensPublished ==
  ASSUME IInv, updatePaymentTokens
  PROVE  /\ noPendingOperation
         /\ IsManifest(latest)' /\ exists(latest)'
         /\ latest'.release = latest.release /\ latest'.contracts = latest.contracts
<1>1. cmd.at = "tokens" /\ latest' = applyPaymentTokenPolicy(cmd.source, cmd.receipts)
  BY DEF updatePaymentTokens
<1>2. /\ noPendingOperation /\ exists(cmd.source) /\ IsManifest(cmd.source)
      /\ latest.release = cmd.source.release /\ latest.contracts = cmd.source.contracts
  BY <1>1 DEF IInv, FinalizeInv, TokensInv, Shapes, IsCommand
<1>3. PICK transactions :
        latest' = [cmd.source EXCEPT !.tokens = TRUE, !.transactions = transactions]
  BY <1>1 DEF applyPaymentTokenPolicy
<1> QED
  BY <1>2, <1>3 DEF IsManifest, exists

LEMMA TokensKeep == ASSUME IInv, updatePaymentTokens PROVE IInv'
<1>1. /\ cmd' = NoCommand /\ UNCHANGED <<retained, journal, evidence>> /\ tree' \in Builds
      /\ IsManifest(latest)' /\ latest'.release = latest.release /\ exists(latest)
  BY TokensPublished DEF updatePaymentTokens, unchangedOthers, sourceVars, IInv, TokensInv, FinalizeInv
<1>2. JournalInv' /\ BuildInfoRetained'
  BY <1>1 DEF IInv, JournalInv, JournalOf, OneUnfinished, unfinished, exists, BuildInfoRetained
<1>3. StartInv' /\ TokensInv' /\ FinalizeInv'
  BY <1>1 DEF StartInv, TokensInv, FinalizeInv, NoCommand, Sending, Checking
<1> QED
  BY <1>1, <1>2, <1>3, EmptyFiles DEF IInv, Shapes, IsManifest, IsPending

LEMMA EditedManifest ==
  ASSUME IInv, editManifest
  PROVE  /\ IsManifest(latest)' /\ exists(latest)' /\ exists(latest)
         /\ latest'.release = latest.release /\ latest'.contracts = latest.contracts
BY DEF editManifest, exists, IInv, Shapes, IsManifest

LEMMA EditKeeps == ASSUME IInv, editManifest PROVE IInv'
<1>1. /\ UNCHANGED <<cmd, retained, journal, evidence>> /\ tree' \in Builds
  BY DEF editManifest, sourceVars, IInv
<1>2. /\ IsManifest(latest)' /\ exists(latest)' /\ exists(latest)
      /\ latest'.release = latest.release /\ latest'.contracts = latest.contracts
  BY EditedManifest
<1>3. JournalInv' /\ BuildInfoRetained'
  BY <1>1, <1>2 DEF IInv, JournalInv, JournalOf, OneUnfinished, unfinished, exists, BuildInfoRetained
<1>4. StartInv' /\ TokensInv'
  BY <1>1, <1>2 DEF IInv, StartInv, TokensInv, KindMatches, FreshPending, noPendingOperation, exists
<1>5. FinalizeInv'
  BY <1>1, <1>2 DEF IInv, FinalizeInv, Underway, unfinished, evidenceComplete, exists, proposal
<1> QED
  BY <1>1, <1>2, <1>3, <1>4, <1>5 DEF IInv, Shapes, IsManifest, IsPending, IsCommand

LEMMA OthersKeep ==
  ASSUME IInv, verifySources \/ refuse \/ crash \/ editSources \/ commitSources \/ commitManifest
                 \/ chainAlone \/ UNCHANGED vars
  PROVE  IInv'
<1>1. CASE verifySources \/ refuse \/ crash
  <2>1. SameFiles /\ tree' \in Builds /\ cmd' = NoCommand
    BY <1>1 DEF verifySources, refuse, crash, unchangedFiles, unchangedOthers, SameFiles, sourceVars, IInv
  <2> QED
    BY <2>1, CommandEnds
<1>2. CASE editSources \/ commitSources \/ commitManifest \/ chainAlone \/ UNCHANGED vars
  <2>1. SameFiles /\ tree' \in Builds /\ UNCHANGED cmd
    BY <1>2 DEF editSources, commitSources, commitManifest, chainAlone, vars, unchangedFiles, SameFiles,
       sourceVars, IInv
  <2> QED
    BY <2>1, CommandWaits
<1> QED
  BY <1>1, <1>2

LEMMA NextKeeps == IInv /\ [Next]_vars => IInv'
<1> SUFFICES ASSUME IInv, [Next]_vars PROVE IInv'
  OBVIOUS
<1>1. CASE startCommand
  BY <1>1, StartKeeps
<1>2. CASE commandStep /\ ~refuse
  BY <1>2, BuildKeeps, RetainBuildInfoKeeps, RetainPendingStartKeeps, RunForgeKeeps, BroadcastKeeps,
     ForgeSucceedsKeeps, ForgeFailsKeeps, RecordBroadcastKeeps, RecordJournalKeeps, LoadReceiptsKeeps,
     FinalityKeeps, CheckLiveKeeps, PublishBuildInfoKeeps, PublishManifestKeeps, PruneKeeps, FinishKeeps,
     TokensKeep DEF commandStep
<1>3. CASE \E operation \in Operations : finalize(operation)
  BY <1>3, FinalizeKeeps
<1>4. CASE editManifest
  BY <1>4, EditKeeps
<1>5. CASE verifySources \/ refuse \/ crash \/ editSources \/ commitSources \/ commitManifest
             \/ chainAlone \/ UNCHANGED vars
  BY <1>5, OthersKeep
<1> QED
  BY <1>1, <1>2, <1>3, <1>4, <1>5 DEF Next, people

LEMMA Invariant == Spec => []IInv
BY InitInv, NextKeeps, PTL DEF Spec

-----------------------------------------------------------------------------
\* Evidence.

LEMMA SameEvidenceStays ==
  ASSUME IInv, NEW operation \in Operations, UNCHANGED <<journal, evidence>>
  PROVE  evidenceStays(operation)
BY DEF IInv, JournalInv, evidenceStays

LEMMA EvidenceStep == IInv /\ [Next]_vars => \A operation \in Operations : evidenceStays(operation)
<1> SUFFICES ASSUME IInv, [Next]_vars, NEW operation \in Operations PROVE evidenceStays(operation)
  OBVIOUS
<1>a. /\ unfinished(operation) => evidence[operation].buildInfo = journal[operation].release
      /\ DOMAIN journal = Operations /\ DOMAIN evidence = Operations
  BY DEF IInv, JournalInv, Shapes
<1>1. CASE retainBuildInfo \/ retainPendingStart
  <2>1. noPendingOperation
    BY <1>1 DEF retainBuildInfo, preflightPasses, retainPendingStart, IInv, StartInv
  <2> QED
    BY <2>1 DEF evidenceStays, unfinished, noPendingOperation
<1>2. CASE recordBroadcast
  <2>1. /\ KindMatches /\ FreshPending /\ journal[cmd.operation] = cmd.pending
        /\ cmd.operation \in Operations
    BY <1>2 DEF recordBroadcast, IInv, StartInv, TokensInv, KindMatches, Operations, Sending
  <2>2. /\ journal' = journal
        /\ evidence' = [evidence EXCEPT ![cmd.operation] =
                          [buildInfo |-> cmd.build, broadcast |-> cmd.file]]
    BY <1>2 DEF recordBroadcast
  <2>3. CASE operation = cmd.operation
    <3>1. evidence'[operation].buildInfo = cmd.build
      BY <1>a, <2>2, <2>3
    <3> QED
      BY <2>1, <2>2, <2>3, <3>1 DEF evidenceStays, FreshPending
  <2>4. CASE operation # cmd.operation
    <3>1. evidence'[operation] = evidence[operation]
      BY <1>a, <2>2, <2>4
    <3> QED
      BY <1>a, <2>2, <3>1 DEF evidenceStays
  <2> QED
    BY <2>3, <2>4
<1>3. CASE recordJournal \/ checkLive \/ finishPending
  <2>1. PICK p :
          /\ journal' = [journal EXCEPT ![cmd.operation] = p]
          /\ evidence' = evidence
          /\ journal[cmd.operation] = cmd.pending
          /\ p.release = cmd.pending.release /\ p.previous = cmd.pending.previous
          /\ cmd.pending.broadcast # None => p.broadcast = cmd.pending.broadcast
    <3>1. CASE recordJournal
      BY <3>1, RecordedPending DEF recordJournal, FreshPending
    <3>2. CASE checkLive
      BY <3>2, CheckedPendingFields DEF checkLive, CheckedPending, Underway
    <3>3. CASE finishPending
      <4>1. journal[cmd.operation] = cmd.pending /\ IsPending(cmd.pending)
        BY <3>3 DEF finishPending, IInv, FinalizeInv, Shapes, IsCommand
      <4> DEFINE finished == [cmd.pending EXCEPT !.status = "finalized"]
      <4>2. /\ finished.release = cmd.pending.release /\ finished.previous = cmd.pending.previous
            /\ finished.broadcast = cmd.pending.broadcast
        BY <4>1 DEF IsPending
      <4>3. journal' = [journal EXCEPT ![cmd.operation] = finished] /\ evidence' = evidence
        BY <3>3 DEF finishPending
      <4> QED
        BY <4>1, <4>2, <4>3
    <3> QED
      BY <1>3, <3>1, <3>2, <3>3
  <2> QED
    BY <1>a, <2>1 DEF evidenceStays
<1>4. CASE ~(retainBuildInfo \/ retainPendingStart \/ recordBroadcast \/ recordJournal \/ checkLive
               \/ finishPending)
  <2>1. UNCHANGED <<journal, evidence>>
    <3>1. CASE startCommand
      BY <3>1 DEF startCommand, deploy, deployMissing, upgrade, configurePaymentTokens, start
    <3>2. CASE commandStep
      BY <3>2, <1>4 DEF commandStep, buildContracts, runForgeScript, broadcast, forgeSucceeds, forgeFails,
         loadReceipts, waitForFilecoinFinality, publishBuildInfo, publishManifest, pruneBuildInfo,
         updatePaymentTokens, refuse, unchangedFiles
    <3>3. CASE verifySources \/ crash \/ people \/ chainAlone \/ UNCHANGED vars
                 \/ \E other \in Operations : finalize(other)
      BY <3>3 DEF verifySources, crash, people, editSources, commitSources, commitManifest, editManifest,
         chainAlone, finalize, unchangedFiles, vars
    <3> QED
      BY <3>1, <3>2, <3>3 DEF Next
  <2> QED
    BY <2>1, SameEvidenceStays
<1> QED
  BY <1>1, <1>2, <1>3, <1>4

-----------------------------------------------------------------------------
\* The theorems about every run.

\* Wherever a publication or its retry is interrupted, the build-info of the
\* canonical release is kept.
THEOREM BuildInfoNeverLost == Spec => []BuildInfoRetained
<1>1. IInv => BuildInfoRetained
  BY DEF IInv
<1> QED
  BY <1>1, Invariant, PTL

\* A deploy and an upgrade are never unfinished at the same time.
THEOREM OneOperationAtATime == Spec => []OneUnfinished
<1>1. IInv => OneUnfinished
  BY DEF IInv, JournalInv
<1> QED
  BY <1>1, Invariant, PTL

\* The evidence of an unfinished operation survives crashes, refusals and the
\* start of other commands, whatever people edit meanwhile.
THEOREM EvidenceSurvives == Spec => EvidenceKept
<1>1. IInv /\ [Next]_vars => \A operation \in Operations : evidenceStays(operation)
  BY EvidenceStep
<1> QED
  BY <1>1, Invariant, PTL DEF Spec, EvidenceKept

-----------------------------------------------------------------------------
\* Refinement of ReleaseLog, while nobody else writes the canonical manifest.

LEMMA InitLatestInv == Init => LatestInv
BY DEF Init, LatestInv, NoCommand, Checking

LEMMA NextKeepsLatest ==
  ASSUME MaxEdits = 0, IInv, LatestInv, [Next]_vars
  PROVE  LatestInv'
<1> USE DEF Checking
<1>0. ~editManifest
  BY DEF editManifest, LatestInv
<1>a. edits' = 0
  <2>1. UNCHANGED edits
    BY <1>0 DEF Next, startCommand, deploy, deployMissing, upgrade, configurePaymentTokens, start,
       commandStep, buildContracts, retainBuildInfo, retainPendingStart, runForgeScript, broadcast,
       forgeSucceeds, forgeFails, recordBroadcast, recordJournal, loadReceipts, waitForFilecoinFinality,
       checkLive, publishBuildInfo, publishManifest, pruneBuildInfo, finishPending, updatePaymentTokens,
       refuse, verifySources, crash, people, editSources, commitSources, commitManifest, chainAlone,
       finalize, unchangedOthers, boundVars, vars
  <2> QED
    BY <2>1 DEF LatestInv
<1>1. CASE \/ cmd'.at \notin {"receipts", "finality", "live", "prune", "finish"}
           \/ cmd'.at = "receipts" /\ cmd'.kind = "tokens"
  BY <1>1, <1>a DEF LatestInv
<1>2. CASE \E operation \in Operations : finalize(operation)
  <2>1. PICK operation \in Operations : finalize(operation)
    BY <1>2
  <2>2. UNCHANGED <<latest, journal>> /\ evidenceComplete(journal[operation])
        /\ IsPending(journal[operation])
    BY <2>1 DEF finalize, unchangedFiles, IInv, Shapes
  <2>3. CASE finalizePublished(operation)
    <3>1. cmd'.at = "finish" /\ cmd'.operation = operation
      BY <2>2, <2>3, EmptyFiles DEF finalizePublished, finalizeAs, IsCommand
    <3>2. published(operation)
      BY <2>3 DEF finalizePublished, classifyCanonicalState, published
    <3> QED
      BY <1>a, <2>2, <3>1, <3>2 DEF LatestInv, published, exists
  <2>4. CASE finalizeSource(operation)
    <3>1. cmd'.at = "receipts" /\ cmd'.operation = operation
      BY <2>2, <2>4, EmptyFiles DEF finalizeSource, finalizeAs, IsCommand
    <3>2. ~published(operation)
      BY <2>4 DEF finalizeSource, classifyCanonicalState, published
    <3> QED
      BY <1>a, <2>2, <3>1, <3>2 DEF LatestInv, published, exists
  <2> QED
    BY <2>1, <2>3, <2>4 DEF finalize
<1>3. CASE loadReceipts \/ waitForFilecoinFinality
  <2>1. /\ UNCHANGED <<latest, journal>> /\ cmd.at \in {"receipts", "finality"}
        /\ cmd'.at \in {"finality", "live", "tokens"} /\ cmd'.operation = cmd.operation
        /\ cmd'.kind = cmd.kind
    BY <1>3 DEF loadReceipts, waitForFilecoinFinality, unchangedFiles, IInv, Shapes, IsCommand
  <2> QED
    BY <1>a, <2>1 DEF LatestInv, published, exists
<1>4. CASE publishManifest
  <2>1. /\ latest' = cmd.pending.resultManifest /\ journal' = journal
        /\ cmd'.at = "prune" /\ cmd'.operation = cmd.operation
    BY <1>4 DEF publishManifest, IInv, Shapes, IsCommand
  <2>2. exists(cmd.pending.resultManifest) /\ journal[cmd.operation] = cmd.pending
    BY <1>4 DEF publishManifest, IInv, FinalizeInv, Underway
  <2> QED
    BY <1>a, <2>1, <2>2 DEF LatestInv, published, exists
<1>5. CASE pruneBuildInfo
  <2>1. /\ UNCHANGED <<latest, journal>> /\ cmd.at = "prune" /\ cmd'.at \in {"verify", "finish"}
        /\ cmd'.operation = cmd.operation
    BY <1>5 DEF pruneBuildInfo, IInv, Shapes, IsCommand
  <2> QED
    BY <1>a, <2>1 DEF LatestInv, published, exists
<1>6. CASE finishPending
  <2> DEFINE finished == [cmd.pending EXCEPT !.status = "finalized"]
  <2>1. /\ cmd.at = "finish" /\ cmd'.at \in {"verify", "prune"} /\ cmd'.operation = cmd.operation
        /\ latest' = latest /\ journal' = [journal EXCEPT ![cmd.operation] = finished]
    BY <1>6 DEF finishPending, IInv, Shapes, IsCommand
  <2>2. /\ journal[cmd.operation] = cmd.pending /\ cmd.operation \in DOMAIN journal
        /\ IsPending(cmd.pending)
    BY <2>1 DEF IInv, FinalizeInv, Shapes, IsCommand
  <2>3. finished.resultManifest = cmd.pending.resultManifest
    BY <2>2 DEF IsPending
  <2> HIDE DEF finished
  <2>4. journal'[cmd.operation].resultManifest = journal[cmd.operation].resultManifest
    BY <2>1, <2>2, <2>3
  <2> QED
    BY <1>a, <2>1, <2>4 DEF LatestInv, published, exists
<1>7. CASE UNCHANGED <<cmd, latest, journal>>
  BY <1>7, <1>a DEF LatestInv, published, exists
<1>8. cmd'.at \notin {"receipts", "finality", "live", "prune", "finish"}
      \/ (cmd'.at = "receipts" /\ cmd'.kind = "tokens")
      \/ (\E operation \in Operations : finalize(operation))
      \/ loadReceipts \/ waitForFilecoinFinality \/ publishManifest \/ pruneBuildInfo \/ finishPending
      \/ UNCHANGED <<cmd, latest, journal>>
  <2>1. CASE startCommand
    <3>1. PICK step \in {"build", "tokens", "forge"} :
            \E kind, operation, request : start(step, kind, operation, request)
      BY <2>1 DEF startCommand, deploy, deployMissing, upgrade, configurePaymentTokens
    <3>2. cmd'.at = step
      BY <3>1, EmptyFiles DEF start, IsCommand
    <3> QED
      BY <3>2
  <2>a. "at" \in DOMAIN cmd
    BY DEF IInv, Shapes, IsCommand
  <2>2. CASE buildContracts \/ retainBuildInfo \/ retainPendingStart \/ recordBroadcast
             \/ publishBuildInfo
    BY <2>2, <2>a DEF buildContracts, retainBuildInfo, retainPendingStart, recordBroadcast, publishBuildInfo
  <2>9. CASE forgeSucceeds
    <3>1. cmd' = [cmd EXCEPT !.at = IF cmd.kind = "tokens" THEN "receipts" ELSE "record",
                            !.script = <<>>, !.file = broadcastFile]
      BY <2>9 DEF forgeSucceeds
    <3>2. /\ cmd'.at = (IF cmd.kind = "tokens" THEN "receipts" ELSE "record")
          /\ cmd'.kind = cmd.kind
      BY <3>1 DEF IInv, Shapes, IsCommand
    <3> QED
      BY <3>2
  <2>7. CASE runForgeScript
    <3>1. PICK script : cmd' = [cmd EXCEPT !.at = "broadcast", !.base = Len(sent), !.script = script]
      BY <2>7 DEF runForgeScript
    <3> QED
      BY <3>1, <2>a
  <2>8. CASE checkLive
    <3>1. cmd' = [cmd EXCEPT !.at = "retain", !.source = NoManifest, !.receipts = <<>>,
                            !.pending = CheckedPending]
      BY <2>8 DEF checkLive, CheckedPending
    <3> QED
      BY <3>1, <2>a
  <2>3. CASE forgeFails
    <3>1. CASE cmd' = NoCommand
      BY <3>1 DEF NoCommand
    <3>2. CASE cmd' = [cmd EXCEPT !.at = "record", !.script = <<>>, !.file = broadcastFile, !.failed = TRUE]
      BY <3>2, <2>a
    <3> QED
      BY <2>3, <3>1, <3>2 DEF forgeFails
  <2>4. CASE recordJournal
    <3>1. CASE cmd.failed
      BY <2>4, <3>1 DEF recordJournal, NoCommand
    <3>2. CASE ~cmd.failed
      <4>1. cmd' = [NoCommand EXCEPT !.at = "finalize", !.kind = "finalize", !.operation = cmd.operation]
        BY <2>4, <3>2 DEF recordJournal
      <4> QED
        BY <4>1, EmptyFiles DEF IsCommand
    <3> QED
      BY <3>1, <3>2
  <2>5. CASE verifySources \/ refuse \/ crash \/ updatePaymentTokens
    <3>1. cmd' = NoCommand
      BY <2>5 DEF verifySources, refuse, crash, updatePaymentTokens
    <3> QED
      BY <3>1 DEF NoCommand
  <2>6. CASE broadcast \/ editSources \/ commitSources \/ commitManifest \/ chainAlone \/ UNCHANGED vars
    <3>1. UNCHANGED <<cmd, latest, journal>>
      BY <2>6 DEF broadcast, editSources, commitSources, commitManifest, chainAlone, unchangedFiles, vars
    <3> QED
      BY <3>1
  <2> QED
    BY <1>0, <2>1, <2>2, <2>3, <2>4, <2>5, <2>6, <2>7, <2>8, <2>9 DEF Next, commandStep, people
<1> QED
  BY <1>1, <1>2, <1>3, <1>4, <1>5, <1>6, <1>7, <1>8

\* The open operation, before and after a step.
LEMMA OpenIs ==
  ASSUME OneUnfinished, NEW operation \in Operations, underway(operation)
  PROVE  openOperation = proposal(journal[operation])
BY DEF OneUnfinished, underway, openOperation, Operations

LEMMA OpenIsNext ==
  ASSUME OneUnfinished', NEW operation \in Operations, underway(operation)'
  PROVE  openOperation' = proposal(journal'[operation])
BY DEF OneUnfinished, underway, openOperation, Operations, proposal, evidenceComplete, exists

LEMMA NoneOpen ==
  ASSUME ~underway("deploy"), ~underway("upgrade")
  PROVE  openOperation = Log!NoOperation
BY DEF openOperation, Log!NoOperation

LEMMA NoneOpenNext ==
  ASSUME ~underway("deploy")', ~underway("upgrade")'
  PROVE  openOperation' = Log!NoOperation
BY DEF openOperation, Log!NoOperation

LEMMA LogInit == Init => Log!Init
<1> SUFFICES ASSUME Init PROVE Log!Init
  OBVIOUS
<1>1. ~underway("deploy") /\ ~underway("upgrade")
  BY DEF Init, underway, unfinished, NoJournal, Operations
<1> QED
  BY <1>1, NoneOpen DEF Log!Init

LEMMA ProposalOpens ==
  ASSUME NEW p, p.broadcast = None
  PROVE  proposal(p) = [stage |-> "open", build |-> p.release, contracts |-> None]
BY DEF proposal, evidenceComplete

LEMMA ProposalProposes ==
  ASSUME NEW p, evidenceComplete(p)
  PROVE  /\ proposal(p).stage = "proposed"
         /\ proposal(p).build = p.release
BY DEF proposal

LEMMA StartOpens ==
  ASSUME IInv, IInv', retainPendingStart
  PROVE  Log!Open
<1>0. PICK op : op = cmd.operation
  OBVIOUS
<1> USE <1>0
<1>1. /\ cmd.at = "journal" /\ journal' = [journal EXCEPT ![op] = cmd.pending] /\ latest' = latest
  BY DEF retainPendingStart
<1>2. /\ FreshPending /\ noPendingOperation /\ op \in Operations
  BY <1>1 DEF IInv, StartInv, KindMatches, Operations
<1>3. openOperation = Log!NoOperation
  BY <1>2, NoneOpen DEF underway, unfinished, noPendingOperation, Operations
<1>4. journal'[op] = cmd.pending
  BY <1>1, <1>2 DEF IInv, Shapes
<1>5. underway(op)'
  BY <1>1, <1>2, <1>4 DEF underway, unfinished, published, FreshPending, exists
<1>6. openOperation' = proposal(cmd.pending)
  BY <1>2, <1>4, <1>5, OpenIsNext DEF IInv, JournalInv
<1>7. openOperation' = [stage |-> "open", build |-> cmd.build, contracts |-> None] /\ cmd.build \in Builds
  BY <1>2, <1>6, ProposalOpens DEF FreshPending
<1> QED
  BY <1>1, <1>3, <1>7 DEF Log!Open

LEMMA RecordProposes ==
  ASSUME IInv, IInv', recordJournal
  PROVE  Log!Propose \/ UNCHANGED Log!logVars
<1>0. PICK op : op = cmd.operation
  OBVIOUS
<1> USE <1>0
<1>1. /\ cmd.at = "recordJournal" /\ journal' = [journal EXCEPT ![op] = recordedPending]
      /\ latest' = latest
  BY DEF recordJournal
<1>2. /\ op \in Operations /\ journal[op] = cmd.pending /\ FreshPending
      /\ recordedPending.status = "pending" /\ recordedPending.release = cmd.build
      /\ ~exists(recordedPending.resultManifest)
  BY <1>1, RecordedPending
<1>3. underway(op)
  BY <1>2 DEF underway, unfinished, published, FreshPending, exists
<1>4. openOperation = [stage |-> "open", build |-> cmd.build, contracts |-> None]
  BY <1>2, <1>3, OpenIs, ProposalOpens DEF IInv, JournalInv, FreshPending
<1>5. journal'[op] = recordedPending
  BY <1>1, <1>2 DEF IInv, Shapes
<1>6. underway(op)'
  BY <1>1, <1>2, <1>5 DEF underway, unfinished, published, exists
<1>7. openOperation' = proposal(recordedPending)
  BY <1>2, <1>5, <1>6, OpenIsNext DEF IInv, JournalInv
<1>8. CASE evidenceComplete(recordedPending)
  <2>1. PICK contracts : openOperation' = [stage |-> "proposed", build |-> cmd.build,
                                          contracts |-> contracts]
    BY <1>2, <1>7, <1>8 DEF proposal
  <2> QED
    BY <1>1, <1>4, <2>1 DEF Log!Propose
<1>9. CASE ~evidenceComplete(recordedPending)
  <2>1. openOperation' = openOperation
    BY <1>2, <1>4, <1>7, <1>9 DEF proposal
  <2> QED
    BY <1>1, <2>1 DEF Log!logVars
<1> QED
  BY <1>8, <1>9

\* What is published already when it is checked needs no other step.
LEMMA CheckCommits ==
  ASSUME IInv, IInv', LatestInv, checkLive
  PROVE  Log!Commit \/ UNCHANGED Log!logVars
<1>0. PICK op : op = cmd.operation
  OBVIOUS
<1> USE <1>0
<1>1. /\ cmd.at = "live" /\ journal' = [journal EXCEPT ![op] = CheckedPending] /\ latest' = latest
  BY DEF checkLive, CheckedPending
<1>2. /\ Underway /\ CheckedPending.status = "pending"
      /\ CheckedPending.release = cmd.pending.release
      /\ JournalOf(op, CheckedPending) /\ exists(CheckedPending.resultManifest)
      /\ CheckedPending.resultManifest.contracts = proposal(CheckedPending).contracts
      /\ proposal(CheckedPending) = proposal(cmd.pending)
  BY <1>1, CheckedPendingFields
<1> HIDE DEF CheckedPending
<1>3. op \in Operations /\ journal[op] = cmd.pending /\ unfinished(op) /\ cmd.kind # "tokens"
  BY <1>2 DEF Underway
<1>4. underway(op)
  BY <1>1, <1>3 DEF LatestInv, Checking, underway
<1>5. openOperation = proposal(cmd.pending)
  BY <1>3, <1>4, OpenIs DEF IInv, JournalInv
<1>6. openOperation.stage = "proposed" /\ openOperation.build = cmd.pending.release
  BY <1>2, <1>5, ProposalProposes DEF Underway
<1>7. journal'[op] = CheckedPending
  BY <1>1, <1>3 DEF IInv, Shapes
<1>8. CASE published(op)'
  <2>1. latest' = CheckedPending.resultManifest
    BY <1>7, <1>8 DEF published
  <2>2. openOperation' = Log!NoOperation
    <3>1. unfinished(op)'
      BY <1>2, <1>7 DEF unfinished
    <3>2. ~underway("deploy")' /\ ~underway("upgrade")'
      BY <1>3, <1>8, <3>1 DEF underway, IInv, JournalInv, OneUnfinished, Operations
    <3> QED
      BY <3>2, NoneOpenNext
  <2>3. latest'.release = openOperation.build /\ latest'.contracts = openOperation.contracts
    BY <1>2, <1>5, <1>6, <2>1 DEF JournalOf
  <2> QED
    BY <1>6, <2>2, <2>3 DEF Log!Commit
<1>9. CASE ~published(op)'
  <2>1. underway(op)'
    BY <1>2, <1>7, <1>9 DEF underway, unfinished
  <2>2. openOperation' = proposal(CheckedPending)
    BY <1>3, <1>7, <2>1, OpenIsNext DEF IInv, JournalInv
  <2> QED
    BY <1>1, <1>2, <1>5, <2>2 DEF Log!logVars
<1> QED
  BY <1>8, <1>9

LEMMA PublishCommits ==
  ASSUME IInv, IInv', publishManifest
  PROVE  Log!Commit \/ UNCHANGED Log!logVars
<1>0. PICK op : op = cmd.operation
  OBVIOUS
<1> USE <1>0
<1>1. /\ cmd.at = "latest" /\ journal' = journal /\ latest' = cmd.pending.resultManifest
  BY DEF publishManifest
<1>2. /\ Underway /\ exists(cmd.pending.resultManifest)
      /\ cmd.pending.resultManifest.contracts = proposal(cmd.pending).contracts
  BY <1>1 DEF IInv, FinalizeInv
<1>3. /\ op \in Operations /\ journal[op] = cmd.pending /\ unfinished(op)
      /\ evidenceComplete(cmd.pending) /\ JournalOf(op, cmd.pending)
  BY <1>2 DEF Underway, IInv, JournalInv
<1>4. published(op)' /\ unfinished(op)'
  BY <1>1, <1>2, <1>3 DEF published, unfinished, exists
<1>5. openOperation' = Log!NoOperation
  <2>1. ~underway("deploy")' /\ ~underway("upgrade")'
    BY <1>3, <1>4 DEF underway, IInv, JournalInv, OneUnfinished, Operations
  <2> QED
    BY <2>1, NoneOpenNext
<1>6. CASE published(op)
  <2>1. latest' = latest
    BY <1>1, <1>3, <1>6 DEF published
  <2>2. openOperation = Log!NoOperation
    <3>1. ~underway("deploy") /\ ~underway("upgrade")
      BY <1>3, <1>6 DEF underway, IInv, JournalInv, OneUnfinished, Operations
    <3> QED
      BY <3>1, NoneOpen
  <2> QED
    BY <1>5, <2>1, <2>2 DEF Log!logVars
<1>7. CASE ~published(op)
  <2>1. openOperation = proposal(cmd.pending)
    BY <1>3, <1>7, OpenIs DEF underway, IInv, JournalInv
  <2>2. /\ openOperation.stage = "proposed" /\ openOperation.build = cmd.pending.release
    BY <1>3, <2>1, ProposalProposes
  <2>3. latest'.release = openOperation.build /\ latest'.contracts = openOperation.contracts
    BY <1>1, <1>2, <1>3, <2>1, <2>2 DEF JournalOf
  <2> QED
    BY <1>5, <2>2, <2>3 DEF Log!Commit
<1> QED
  BY <1>6, <1>7

LEMMA FinishStutters ==
  ASSUME IInv, IInv', LatestInv, finishPending
  PROVE  UNCHANGED Log!logVars
<1>0. PICK op : op = cmd.operation
  OBVIOUS
<1> USE <1>0
<1> DEFINE finished == [cmd.pending EXCEPT !.status = "finalized"]
<1>1. /\ cmd.at = "finish" /\ journal' = [journal EXCEPT ![op] = finished] /\ latest' = latest
  BY DEF finishPending
<1>2. /\ op \in Operations /\ IsPending(cmd.pending) /\ DOMAIN journal = Operations
  BY <1>1 DEF IInv, FinalizeInv, Shapes, IsCommand
<1>3. finished.status = "finalized"
  BY <1>2 DEF IsPending
<1> HIDE DEF finished
<1>4. ~underway(op)
  BY <1>1 DEF LatestInv, underway
<1>5. ~underway(op)'
  BY <1>1, <1>2, <1>3 DEF underway, unfinished
<1>6. \A other \in Operations \ {op} : journal'[other] = journal[other]
  BY <1>1, <1>2
<1>7. openOperation' = openOperation
  <2>1. CASE op = "deploy"
    BY <1>1, <1>4, <1>5, <1>6, <2>1 DEF openOperation, underway, unfinished, published, proposal,
       evidenceComplete, exists, Operations
  <2>2. CASE op = "upgrade"
    BY <1>1, <1>4, <1>5, <1>6, <2>2 DEF openOperation, underway, unfinished, published, proposal,
       evidenceComplete, exists, Operations
  <2> QED
    BY <1>2, <2>1, <2>2 DEF Operations
<1> QED
  BY <1>1, <1>7 DEF Log!logVars

LEMMA TokensStutter ==
  ASSUME IInv, updatePaymentTokens
  PROVE  UNCHANGED Log!logVars
<1>1. /\ noPendingOperation /\ journal' = journal
      /\ latest'.release = latest.release /\ latest'.contracts = latest.contracts
  BY TokensPublished DEF updatePaymentTokens
<1>2. openOperation = Log!NoOperation
  BY <1>1, NoneOpen DEF underway, unfinished, noPendingOperation, Operations
<1>3. openOperation' = Log!NoOperation
  BY <1>1, NoneOpenNext DEF underway, unfinished, noPendingOperation, Operations
<1> QED
  BY <1>1, <1>2, <1>3 DEF Log!logVars

LEMMA OthersStutter ==
  ASSUME UNCHANGED <<latest, journal>>
  PROVE  UNCHANGED Log!logVars
BY DEF Log!logVars, openOperation, underway, unfinished, published, proposal, evidenceComplete, exists

LEMMA LogStep ==
  ASSUME MaxEdits = 0, IInv, IInv', LatestInv, [Next]_vars
  PROVE  [Log!Next]_(Log!logVars)
<1>0. ~editManifest
  BY DEF editManifest, LatestInv
<1>1. CASE retainPendingStart
  BY <1>1, StartOpens DEF Log!Next
<1>2. CASE recordJournal
  BY <1>2, RecordProposes DEF Log!Next
<1>3. CASE checkLive
  BY <1>3, CheckCommits DEF Log!Next
<1>4. CASE publishManifest
  BY <1>4, PublishCommits DEF Log!Next
<1>5. CASE finishPending
  BY <1>5, FinishStutters
<1>6. CASE updatePaymentTokens
  BY <1>6, TokensStutter
<1>7. CASE UNCHANGED <<latest, journal>>
  BY <1>7, OthersStutter
<1>8. retainPendingStart \/ recordJournal \/ checkLive \/ publishManifest \/ finishPending
        \/ updatePaymentTokens \/ UNCHANGED <<latest, journal>>
  <2>1. CASE startCommand
    BY <2>1 DEF startCommand, deploy, deployMissing, upgrade, configurePaymentTokens, start
  <2>2. CASE commandStep
    BY <2>2 DEF commandStep, buildContracts, retainBuildInfo, runForgeScript, broadcast, forgeSucceeds,
       forgeFails, recordBroadcast, loadReceipts, waitForFilecoinFinality, publishBuildInfo, pruneBuildInfo,
       refuse, unchangedFiles
  <2>3. CASE verifySources \/ crash \/ people \/ chainAlone \/ UNCHANGED vars
               \/ \E operation \in Operations : finalize(operation)
    BY <1>0, <2>3 DEF verifySources, crash, people, editSources, commitSources, commitManifest,
       chainAlone, finalize, unchangedFiles, vars
  <2> QED
    BY <2>1, <2>2, <2>3 DEF Next
<1> QED
  BY <1>1, <1>2, <1>3, <1>4, <1>5, <1>6, <1>7, <1>8

\* The command line implements ReleaseLog while nobody else writes the
\* canonical manifest: whatever crashes, fails, is reorganized or retried, the
\* canonical release changes in one step, to what the open operation proposed.
THEOREM ImplementsLog == ASSUME MaxEdits = 0 PROVE Spec => ImplementsReleaseLog
<1>1. Init => LatestInv /\ Log!Init
  BY InitLatestInv, LogInit
<1>2. IInv /\ LatestInv /\ [Next]_vars => LatestInv'
  BY NextKeepsLatest
<1>3. IInv /\ IInv' /\ LatestInv /\ [Next]_vars => [Log!Next]_(Log!logVars)
  BY LogStep
<1> QED
  BY <1>1, <1>2, <1>3, Invariant, PTL DEF Spec, ImplementsReleaseLog, Log!Spec

-----------------------------------------------------------------------------
\* Receipts.  The chain is a parameter, so that what is known of a list of
\* receipts can be said of it before and after a step.

IsList(list) == \E S : list \in Seq(S)

\* The hash of a block is the number of reorganizations before it.
ChainGood(transactions, chain, height, count) ==
  /\ IsList(transactions)
  /\ chain \in Seq([hash : Nat, ok : BOOLEAN])
  /\ height \in 0 .. Len(chain)
  /\ count \in Nat
  /\ \A n \in DOMAIN chain : chain[n].hash <= count

OnChain(receipt, chain) ==
  receipt.nonce \in DOMAIN chain /\ chain[receipt.nonce].hash = receipt.block

IsFinal(receipt, chain, height) ==
  receipt.nonce <= height /\ OnChain(receipt, chain) /\ chain[receipt.nonce].ok

\* A receipt read a while ago: its transaction succeeded if it is still there,
\* and otherwise the next one to take its place has another hash.
IsHeld(receipt, chain, count) ==
  IF OnChain(receipt, chain) THEN chain[receipt.nonce].ok ELSE receipt.block < count

DistinctReceipts(receipts) ==
  /\ receipts \in Seq(Receipt)
  /\ \A i, j \in DOMAIN receipts : receipts[i].nonce = receipts[j].nonce => i = j

FinalReceipts(receipts, chain, height) ==
  DistinctReceipts(receipts) /\ \A i \in DOMAIN receipts : IsFinal(receipts[i], chain, height)

HeldReceipts(receipts, chain, count) ==
  DistinctReceipts(receipts) /\ \A i \in DOMAIN receipts : IsHeld(receipts[i], chain, count)

IsFile(file) ==
  /\ DOMAIN file = {"base", "sent", "total"}
  /\ file.base \in Nat /\ file.total \in Nat /\ file.sent \in Int

PendingGood(p, chain, height) ==
  /\ p.broadcast = None \/ IsFile(p.broadcast)
  /\ FinalReceipts(p.result.transactions, chain, height)
  /\ FinalReceipts(p.resultManifest.transactions, chain, height)

CommandGood(c, chain, height, count) ==
  /\ FinalReceipts(c.source.transactions, chain, height)
  /\ PendingGood(c.pending, chain, height)
  /\ c.kind = "upgrade" => c.request[1] \in Seq(UpgradeTargets)
  /\ c.at = "broadcast" => c.base \in Nat /\ IsList(c.script)
  /\ c.at \in {"record", "recordJournal", "receipts"} => IsFile(c.file)
  /\ c.at = "finality" => HeldReceipts(c.receipts, chain, count)
  /\ c.at \in {"live", "tokens"} => FinalReceipts(c.receipts, chain, height)

ReceiptInv ==
  /\ ChainGood(sent, blocks, final, reorgs)
  /\ FinalReceipts(latest.transactions, blocks, final)
  /\ \A operation \in Operations : PendingGood(journal[operation], blocks, final)
  /\ CommandGood(cmd, blocks, final, reorgs)

-----------------------------------------------------------------------------
\* Lists.

LEMMA ListAppended ==
  ASSUME NEW list, IsList(list), NEW e
  PROVE  IsList(Append(list, e))
<1>1. PICK S : list \in Seq(S)
  BY DEF IsList
<1>2. list \in Seq(S \cup {e})
  BY <1>1
<1>3. Append(list, e) \in Seq(S \cup {e})
  BY <1>2
<1> QED
  BY <1>3 DEF IsList

LEMMA ListsJoined ==
  ASSUME NEW s, NEW t, IsList(s), IsList(t)
  PROVE  IsList(s \o t)
<1>1. PICK S, T : s \in Seq(S) /\ t \in Seq(T)
  BY DEF IsList
<1>2. s \in Seq(S \cup T) /\ t \in Seq(S \cup T)
  BY <1>1
<1>3. s \o t \in Seq(S \cup T)
  BY <1>2
<1> QED
  BY <1>3 DEF IsList

LEMMA ListMade ==
  ASSUME NEW n \in Nat, NEW list, DOMAIN list = 1 .. n, list = [i \in 1 .. n |-> list[i]]
  PROVE  IsList(list) /\ Len(list) = n
<1> DEFINE S == {list[i] : i \in 1 .. n}
<1>1. list \in [1 .. n -> S]
  OBVIOUS
<1>2. list \in Seq(S)
  BY <1>1
<1> HIDE DEF S
<1>3. Len(list) \in Nat /\ 1 .. Len(list) = 1 .. n
  BY <1>2
<1>4. Len(list) = n
  <2>1. n = 0 \/ n \in 1 .. Len(list)
    BY <1>3
  <2>2. Len(list) = 0 \/ Len(list) \in 1 .. n
    BY <1>3
  <2>3. 1 \in 1 .. n <=> 1 \in 1 .. Len(list)
    BY <1>3
  <2> QED
    BY <1>3, <2>1, <2>2, <2>3
<1> QED
  BY <1>2, <1>4 DEF IsList

\* The first m elements of a list, filtered.
IsKept(g, list, set, m) ==
  g = [n \in 0 .. m |-> IF n = 0 THEN <<>>
                        ELSE IF list[n] \in set THEN Append(g[n - 1], list[n])
                        ELSE g[n - 1]]

LEMMA KeptSteps ==
  ASSUME NEW g, NEW list, NEW set, NEW m \in Nat, IsKept(g, list, set, m)
  PROVE  /\ g[0] = <<>>
         /\ \A k \in 1 .. m :
              g[k] = IF list[k] \in set THEN Append(g[k - 1], list[k]) ELSE g[k - 1]
<1>1. 0 \in 0 .. m
  OBVIOUS
<1>2. ASSUME NEW k \in 1 .. m
      PROVE  g[k] = IF list[k] \in set THEN Append(g[k - 1], list[k]) ELSE g[k - 1]
  <2>1. k \in 0 .. m /\ k # 0
    OBVIOUS
  <2> QED
    BY <2>1 DEF IsKept
<1> QED
  BY <1>1, <1>2 DEF IsKept

LEMMA KeptExists ==
  ASSUME NEW list, NEW set, Len(list) \in Nat
  PROVE  \E g : IsKept(g, list, set, Len(list)) /\ Filtered(list, set) = g[Len(list)]
<1> DEFINE size == Len(list)
           Bad == {m \in 0 .. size : ~ \E g : IsKept(g, list, set, m)}
<1>1. ASSUME Bad # {} PROVE FALSE
  <2>1. PICK m \in Bad : \A k \in Bad : m <= k
    <3>1. Bad \in SUBSET (0 .. size)
      OBVIOUS
    <3> HIDE DEF Bad
    <3> QED
      BY <1>1, <3>1, SmallestIndex
  <2>2. m # 0
    <3>1. IsKept([k \in {0} |-> <<>>], list, set, 0)
      <4>1. 0 .. 0 = {0}
        OBVIOUS
      <4> QED
        BY <4>1 DEF IsKept
    <3> QED
      BY <2>1, <3>1
  <2>3. m \in Nat /\ m - 1 \in 0 .. size /\ m - 1 < m
    BY <2>1, <2>2
  <2>4. PICK g : IsKept(g, list, set, m - 1)
    BY <2>1, <2>3
  <2> DEFINE next == IF list[m] \in set THEN Append(g[m - 1], list[m]) ELSE g[m - 1]
             h == [k \in 0 .. m |-> IF k = m THEN next ELSE g[k]]
  <2>5. /\ g[0] = <<>>
        /\ \A k \in 1 .. m - 1 :
             g[k] = IF list[k] \in set THEN Append(g[k - 1], list[k]) ELSE g[k - 1]
    <3>1. m - 1 \in Nat
      BY <2>2, <2>3
    <3> QED
      BY <2>4, <3>1, KeptSteps
  <2>6. ASSUME NEW k \in 0 .. m
        PROVE  h[k] = IF k = 0 THEN <<>>
                      ELSE IF list[k] \in set THEN Append(h[k - 1], list[k])
                      ELSE h[k - 1]
    <3>1. CASE k = 0
      BY <2>2, <2>3, <2>5, <3>1
    <3>2. CASE k = m
      <4>1. m - 1 \in 0 .. m /\ h[m - 1] = g[m - 1]
        BY <2>2, <2>3
      <4>2. h[m] = next
        BY <2>3
      <4> HIDE DEF h
      <4> QED
        BY <2>2, <3>2, <4>1, <4>2
    <3>3. CASE k # 0 /\ k # m
      <4>1. k \in 1 .. m - 1 /\ k - 1 \in 0 .. m /\ k - 1 # m
        BY <2>3, <3>3
      <4>2. h[k] = g[k] /\ h[k - 1] = g[k - 1]
        BY <4>1, <3>3
      <4> HIDE DEF h
      <4> QED
        BY <2>5, <3>3, <4>1, <4>2
    <3> QED
      BY <3>1, <3>2, <3>3
  <2>7. IsKept(h, list, set, m)
    <3>1. h = [k \in 0 .. m |-> h[k]]
      OBVIOUS
    <3> HIDE DEF h
    <3> QED
      BY <2>6, <3>1 DEF IsKept
  <2> QED
    BY <2>1, <2>7
<1>2. \E g : IsKept(g, list, set, size)
  <2>1. size \in 0 .. size
    OBVIOUS
  <2> QED
    BY <1>1, <2>1
<1> DEFINE kept == CHOOSE g : IsKept(g, list, set, size)
<1>3. IsKept(kept, list, set, size)
  BY <1>2
<1>4. Filtered(list, set) = kept[size]
  BY DEF Filtered, IsKept
<1> QED
  BY <1>3, <1>4

\* A filtered list is a sequence, and its elements are those at some distinct
\* positions of the list.
PositionsOf(l, list, set, n, S) ==
  /\ l \in Seq(S)
  /\ \E place \in [DOMAIN l -> 1 .. n] :
       /\ \A i, j \in DOMAIN l : place[i] = place[j] => i = j
       /\ \A i \in DOMAIN l : l[i] = list[place[i]] /\ list[place[i]] \in set

LEMMA FilteredList ==
  ASSUME NEW S, NEW list \in Seq(S), NEW set
  PROVE  PositionsOf(Filtered(list, set), list, set, Len(list), S)
<1>1. Len(list) \in Nat /\ DOMAIN list = 1 .. Len(list)
  OBVIOUS
<1>2. PICK g : IsKept(g, list, set, Len(list)) /\ Filtered(list, set) = g[Len(list)]
  BY <1>1, KeptExists
<1>3. /\ g[0] = <<>>
      /\ \A k \in 1 .. Len(list) :
           g[k] = IF list[k] \in set THEN Append(g[k - 1], list[k]) ELSE g[k - 1]
  BY <1>1, <1>2, KeptSteps
<1> DEFINE Good(k) == PositionsOf(g[k], list, set, k, S)
           Bad == {k \in 0 .. Len(list) : ~Good(k)}
<1>4. Good(0)
  <2>1. <<>> \in Seq(S) /\ DOMAIN <<>> = {} /\ 1 .. 0 = {}
    OBVIOUS
  <2>2. [i \in {} |-> 0] \in [{} -> 1 .. 0]
    OBVIOUS
  <2> QED
    BY <1>3, <2>1, <2>2 DEF PositionsOf
<1>5. ASSUME NEW k \in 1 .. Len(list), Good(k - 1)
      PROVE  Good(k)
  <2>1. PICK place \in [DOMAIN g[k - 1] -> 1 .. k - 1] :
          /\ \A i, j \in DOMAIN g[k - 1] : place[i] = place[j] => i = j
          /\ \A i \in DOMAIN g[k - 1] :
               g[k - 1][i] = list[place[i]] /\ list[place[i]] \in set
    BY <1>5 DEF PositionsOf
  <2>2. PICK l : l = g[k - 1]
    OBVIOUS
  <2>3. l \in Seq(S) /\ DOMAIN l = 1 .. Len(l) /\ Len(l) \in Nat
    BY <1>5, <2>2 DEF PositionsOf
  <2>4. k \in Nat /\ 1 .. k - 1 \subseteq 1 .. k /\ k \in 1 .. k /\ k \notin 1 .. k - 1
    BY <1>1
  <2>5. /\ place \in [1 .. Len(l) -> 1 .. k - 1]
        /\ \A i, j \in 1 .. Len(l) : place[i] = place[j] => i = j
        /\ \A i \in 1 .. Len(l) : l[i] = list[place[i]] /\ list[place[i]] \in set
    BY <2>1, <2>2, <2>3
  <2>6. g[k] = IF list[k] \in set THEN Append(l, list[k]) ELSE l
    BY <1>3, <2>2
  <2>7. CASE list[k] \notin set
    <3>1. g[k] = l
      BY <2>6, <2>7
    <3>2. place \in [1 .. Len(l) -> 1 .. k]
      BY <2>4, <2>5
    <3>3. PositionsOf(l, list, set, k, S)
      BY <2>3, <2>5, <3>2 DEF PositionsOf
    <3> QED
      BY <3>1, <3>3
  <2>8. CASE list[k] \in set
    <3>1. list[k] \in S
      BY <1>1
    <3>2. PICK longer : longer = Append(l, list[k])
      OBVIOUS
    <3>3. /\ longer \in Seq(S) /\ DOMAIN longer = 1 .. Len(l) + 1
          /\ \A i \in 1 .. Len(l) : longer[i] = l[i]
          /\ longer[Len(l) + 1] = list[k]
      BY <2>3, <3>1, <3>2
    <3> DEFINE next == [i \in 1 .. Len(l) + 1 |-> IF i = Len(l) + 1 THEN k ELSE place[i]]
    <3>4. ASSUME NEW i \in 1 .. Len(l) + 1
          PROVE  /\ next[i] = IF i = Len(l) + 1 THEN k ELSE place[i]
                 /\ i = Len(l) + 1 \/ i \in 1 .. Len(l)
                 /\ i \in 1 .. Len(l) => i # Len(l) + 1
      BY <2>3
    <3>5. next \in [1 .. Len(l) + 1 -> 1 .. k]
      <4>1. \A i \in 1 .. Len(l) + 1 : next[i] \in 1 .. k
        <5> HIDE DEF next
        <5> QED
          BY <2>4, <2>5, <3>4
      <4>2. next = [i \in 1 .. Len(l) + 1 |-> next[i]]
        OBVIOUS
      <4> HIDE DEF next
      <4> QED
        BY <4>1, <4>2
    <3> HIDE DEF next
    <3>6. ASSUME NEW i \in 1 .. Len(l) + 1, NEW j \in 1 .. Len(l) + 1, next[i] = next[j]
          PROVE  i = j
      <4>1. \A m \in 1 .. Len(l) : place[m] # k
        BY <2>4, <2>5
      <4> QED
        BY <2>5, <3>4, <3>6, <4>1
    <3>7. \A i \in 1 .. Len(l) + 1 : longer[i] = list[next[i]] /\ list[next[i]] \in set
      BY <2>5, <2>8, <3>3, <3>4
    <3>8. PositionsOf(longer, list, set, k, S)
      BY <3>3, <3>5, <3>6, <3>7 DEF PositionsOf
    <3> QED
      BY <2>6, <2>8, <3>2, <3>8
  <2> QED
    BY <2>7, <2>8
<1> HIDE DEF Good
<1>6. ASSUME Bad # {} PROVE FALSE
  <2>1. PICK m \in Bad : \A k \in Bad : m <= k
    <3>1. Bad \in SUBSET (0 .. Len(list))
      OBVIOUS
    <3> HIDE DEF Bad
    <3> QED
      BY <1>1, <1>6, <3>1, SmallestIndex
  <2>2. m \in 1 .. Len(list) /\ m - 1 \in 0 .. Len(list) /\ m - 1 < m
    BY <1>1, <1>4, <2>1
  <2>3. Good(m - 1)
    BY <2>1, <2>2
  <2> QED
    BY <1>5, <2>1, <2>2, <2>3
<1>7. Good(Len(list))
  BY <1>1, <1>6
<1> QED
  BY <1>2, <1>7 DEF Good

-----------------------------------------------------------------------------
\* What a step of the chain leaves of what was read of it.

ChainStep(chain, next, height, nextHeight, count, nextCount) ==
  /\ height <= nextHeight /\ nextHeight \in Nat
  /\ count <= nextCount /\ nextCount \in Nat
  /\ \A n \in DOMAIN next :
       \/ n \in DOMAIN chain /\ next[n] = chain[n]
       \/ n \notin DOMAIN chain /\ next[n].hash = count
  /\ \A n \in DOMAIN chain \ DOMAIN next : n > height /\ count < nextCount

LEMMA BlockAppended ==
  ASSUME NEW transactions, NEW chain, NEW height, NEW count, ChainGood(transactions, chain, height, count),
         NEW others, IsList(others), NEW ok \in BOOLEAN
  PROVE  LET next == Append(chain, [hash |-> count, ok |-> ok])
         IN  ChainGood(others, next, height, count) /\ ChainStep(chain, next, height, height, count, count)
<1> DEFINE block == [hash |-> count, ok |-> ok]
           next == Append(chain, block)
<1>1. /\ chain \in Seq([hash : Nat, ok : BOOLEAN]) /\ Len(chain) \in Nat
      /\ height \in 0 .. Len(chain) /\ count \in Nat
      /\ \A n \in DOMAIN chain : chain[n].hash <= count
  BY DEF ChainGood
<1>2. block \in [hash : Nat, ok : BOOLEAN] /\ block.hash = count
  BY <1>1
<1> HIDE DEF block
<1>3. /\ next \in Seq([hash : Nat, ok : BOOLEAN])
      /\ DOMAIN chain = 1 .. Len(chain) /\ DOMAIN next = 1 .. Len(chain) + 1 /\ Len(next) = Len(chain) + 1
      /\ \A n \in 1 .. Len(chain) : next[n] = chain[n]
      /\ next[Len(chain) + 1] = block
  BY <1>1, <1>2
<1> HIDE DEF next
<1>4. \A n \in 1 .. Len(chain) + 1 : n \in 1 .. Len(chain) \/ n = Len(chain) + 1
  BY <1>1
<1>5. ChainGood(others, next, height, count)
  <2>1. height \in 0 .. Len(next)
    BY <1>1, <1>3
  <2>2. \A n \in DOMAIN next : next[n].hash <= count
    BY <1>1, <1>2, <1>3, <1>4
  <2> QED
    BY <1>1, <1>3, <2>1, <2>2 DEF ChainGood
<1>6. ChainStep(chain, next, height, height, count, count)
  <2>1. Len(chain) + 1 \notin 1 .. Len(chain) /\ 1 .. Len(chain) \subseteq 1 .. Len(chain) + 1
    BY <1>1
  <2>2. height \in Nat /\ height <= height /\ count <= count
    BY <1>1
  <2> QED
    BY <1>1, <1>2, <1>3, <1>4, <2>1, <2>2 DEF ChainStep
<1> QED
  BY <1>5, <1>6 DEF next, block

LEMMA BlockFields ==
  ASSUME NEW chain \in Seq([hash : Nat, ok : BOOLEAN]), NEW n \in 1 .. Len(chain)
  PROVE  chain[n] \in [hash : Nat, ok : BOOLEAN] /\ chain[n].hash \in Nat
<1>1. chain[n] \in [hash : Nat, ok : BOOLEAN]
  BY ElementOfSeq
<1> QED
  BY <1>1

LEMMA BlocksDropped ==
  ASSUME NEW transactions, NEW chain, NEW height, NEW count, ChainGood(transactions, chain, height, count),
         NEW n \in height .. Len(chain) - 1
  PROVE  LET next == SubSeq(chain, 1, n)
         IN  /\ ChainGood(transactions, next, height, count + 1)
             /\ ChainStep(chain, next, height, height, count, count + 1)
<1> DEFINE next == SubSeq(chain, 1, n)
<1>1. /\ chain \in Seq([hash : Nat, ok : BOOLEAN]) /\ Len(chain) \in Nat
      /\ height \in 0 .. Len(chain) /\ count \in Nat /\ IsList(transactions)
      /\ \A m \in DOMAIN chain : chain[m].hash <= count
  BY DEF ChainGood
<1>2. n \in Nat /\ n < Len(chain) /\ height <= n
  BY <1>1
<1>3. /\ next \in Seq([hash : Nat, ok : BOOLEAN])
      /\ DOMAIN chain = 1 .. Len(chain) /\ DOMAIN next = 1 .. n /\ Len(next) = n
      /\ \A m \in 1 .. n : next[m] = chain[m]
  <2>1. DOMAIN chain = 1 .. Len(chain) /\ 1 .. n \subseteq 1 .. Len(chain)
    BY <1>1, <1>2
  <2>2. \A m \in 1 .. n : chain[m] \in [hash : Nat, ok : BOOLEAN]
    BY <1>1, <2>1, BlockFields
  <2>3. /\ next \in Seq([hash : Nat, ok : BOOLEAN])
        /\ Len(next) = IF 1 <= n THEN n - 1 + 1 ELSE 0
        /\ \A m \in 1 .. n - 1 + 1 : next[m] = chain[1 + m - 1]
    BY <1>2, <2>2, SubSeqProperties
  <2> HIDE DEF next
  <2>4. Len(next) = n /\ DOMAIN next = 1 .. n
    BY <1>2, <2>3
  <2>5. \A m \in 1 .. n : 1 + m - 1 = m /\ m \in 1 .. n - 1 + 1
    BY <1>2
  <2> QED
    BY <2>1, <2>3, <2>4, <2>5
<1> HIDE DEF next
<1>4. 1 .. n \subseteq 1 .. Len(chain)
  BY <1>1, <1>2
<1>5. ChainGood(transactions, next, height, count + 1)
  <2>1. \A m \in 1 .. Len(chain) : chain[m].hash \in Nat
    BY <1>1, BlockFields
  <2>2. \A m \in DOMAIN next : next[m].hash <= count + 1
    BY <1>1, <1>3, <1>4, <2>1
  <2>3. height \in 0 .. Len(next) /\ count + 1 \in Nat
    BY <1>1, <1>2, <1>3
  <2> QED
    BY <1>1, <1>3, <2>2, <2>3 DEF ChainGood
<1>6. ChainStep(chain, next, height, height, count, count + 1)
  <2>1. \A m \in 1 .. Len(chain) : m \notin 1 .. n => m > height
    BY <1>1, <1>2
  <2>2. count <= count + 1 /\ count < count + 1 /\ count + 1 \in Nat /\ height \in Nat /\ height <= height
    BY <1>1
  <2> QED
    BY <1>3, <1>4, <2>1, <2>2 DEF ChainStep
<1> QED
  BY <1>5, <1>6 DEF next

ChainMoves ==
  MineAgain \/ Reorganize \/ FinalizeHeight \/ (\E transaction : SendAndMine(transaction)) \/ UNCHANGED chainVars

LEMMA ChainKept ==
  ASSUME ChainGood(sent, blocks, final, reorgs), ChainMoves
  PROVE  /\ ChainGood(sent', blocks', final', reorgs')
         /\ ChainStep(blocks, blocks', final, final', reorgs, reorgs')
<1>1. CASE MineAgain
  <2>1. PICK ok \in BOOLEAN : blocks' = Append(blocks, [hash |-> reorgs, ok |-> ok])
    BY <1>1, ChainAssumption DEF MineAgain
  <2>2. UNCHANGED <<sent, final, reorgs>> /\ IsList(sent)
    BY <1>1 DEF MineAgain, ChainGood
  <2> QED
    BY <2>1, <2>2, BlockAppended
<1>2. CASE \E transaction : SendAndMine(transaction)
  <2>1. PICK transaction : SendAndMine(transaction)
    BY <1>2
  <2>2. PICK ok \in BOOLEAN : blocks' = Append(blocks, [hash |-> reorgs, ok |-> ok])
    BY <2>1, ChainAssumption DEF SendAndMine
  <2>3. UNCHANGED <<final, reorgs>> /\ IsList(sent')
    BY <2>1, ListAppended DEF SendAndMine, ChainGood
  <2> QED
    BY <2>2, <2>3, BlockAppended
<1>3. CASE Reorganize
  <2>1. PICK n \in final .. Len(blocks) - 1 : blocks' = SubSeq(blocks, 1, n)
    BY <1>3 DEF Reorganize
  <2>2. UNCHANGED <<sent, final>> /\ reorgs' = reorgs + 1
    BY <1>3 DEF Reorganize
  <2> QED
    BY <2>1, <2>2, BlocksDropped
<1>4. CASE FinalizeHeight \/ UNCHANGED chainVars
  <2>1. /\ UNCHANGED <<sent, blocks, reorgs>>
        /\ final' = final \/ final' \in final + 1 .. Len(blocks)
    BY <1>4 DEF FinalizeHeight, chainVars
  <2>2. Len(blocks) \in Nat /\ final \in 0 .. Len(blocks) /\ reorgs \in Nat
    BY DEF ChainGood
  <2>3. final' \in 0 .. Len(blocks) /\ final <= final' /\ final' \in Nat /\ reorgs <= reorgs
    BY <2>1, <2>2
  <2> QED
    BY <2>1, <2>2, <2>3 DEF ChainGood, ChainStep
<1> QED
  BY <1>1, <1>2, <1>3, <1>4 DEF ChainMoves

LEMMA ReceiptFields ==
  ASSUME NEW receipts \in Seq(Receipt), NEW i \in DOMAIN receipts
  PROVE  receipts[i].nonce \in Nat \ {0} /\ receipts[i].block \in Nat
<1>1. receipts[i] \in Receipt
  OBVIOUS
<1> QED
  BY <1>1 DEF Receipt

LEMMA FinalKept ==
  ASSUME NEW transactions, NEW chain, NEW next, NEW height, NEW nextHeight, NEW count, NEW nextCount,
         ChainGood(transactions, chain, height, count),
         ChainStep(chain, next, height, nextHeight, count, nextCount)
  PROVE  \A receipts : FinalReceipts(receipts, chain, height) => FinalReceipts(receipts, next, nextHeight)
<1> SUFFICES ASSUME NEW receipts, FinalReceipts(receipts, chain, height)
             PROVE  FinalReceipts(receipts, next, nextHeight)
  OBVIOUS
<1>1. height \in Nat /\ nextHeight \in Nat /\ height <= nextHeight
  BY DEF ChainGood, ChainStep
<1>2. ASSUME NEW i \in DOMAIN receipts
      PROVE  IsFinal(receipts[i], next, nextHeight)
  <2>1. PICK n \in Nat : n = receipts[i].nonce
    BY ReceiptFields DEF FinalReceipts, DistinctReceipts
  <2>2. n <= height /\ n \in DOMAIN chain /\ chain[n].hash = receipts[i].block /\ chain[n].ok
    BY <2>1 DEF FinalReceipts, IsFinal, OnChain
  <2>3. n \in DOMAIN next /\ next[n] = chain[n]
    BY <1>1, <2>2 DEF ChainStep
  <2>4. n <= nextHeight
    BY <1>1, <2>2
  <2> QED
    BY <2>1, <2>2, <2>3, <2>4 DEF IsFinal, OnChain
<1> QED
  BY <1>2 DEF FinalReceipts

LEMMA HeldKept ==
  ASSUME NEW transactions, NEW chain, NEW next, NEW height, NEW nextHeight, NEW count, NEW nextCount,
         ChainGood(transactions, chain, height, count),
         ChainStep(chain, next, height, nextHeight, count, nextCount)
  PROVE  \A receipts : HeldReceipts(receipts, chain, count) => HeldReceipts(receipts, next, nextCount)
<1> SUFFICES ASSUME NEW receipts, HeldReceipts(receipts, chain, count)
             PROVE  HeldReceipts(receipts, next, nextCount)
  OBVIOUS
<1>1. count \in Nat /\ nextCount \in Nat /\ count <= nextCount
  BY DEF ChainGood, ChainStep
<1>2. ASSUME NEW i \in DOMAIN receipts
      PROVE  IsHeld(receipts[i], next, nextCount)
  <2>1. PICK n, b \in Nat : n = receipts[i].nonce /\ b = receipts[i].block
    BY ReceiptFields DEF HeldReceipts, DistinctReceipts
  <2>2. IF n \in DOMAIN chain /\ chain[n].hash = b THEN chain[n].ok ELSE b < count
    BY <2>1 DEF HeldReceipts, IsHeld, OnChain
  <2>3. CASE n \in DOMAIN chain /\ chain[n].hash = b
    <3>1. b <= count
      BY <2>3 DEF ChainGood
    <3>2. n \in DOMAIN next => next[n] = chain[n]
      BY <2>3 DEF ChainStep
    <3>3. n \notin DOMAIN next => b < nextCount
      BY <1>1, <2>3, <3>1 DEF ChainStep
    <3> QED
      BY <2>1, <2>2, <2>3, <3>2, <3>3 DEF IsHeld, OnChain
  <2>4. CASE ~(n \in DOMAIN chain /\ chain[n].hash = b)
    <3>1. b < count /\ b # count /\ b < nextCount
      BY <1>1, <2>2, <2>4
    <3>2. ~(n \in DOMAIN next /\ next[n].hash = b)
      BY <2>4, <3>1 DEF ChainStep
    <3> QED
      BY <2>1, <3>1, <3>2 DEF IsHeld, OnChain
  <2> QED
    BY <2>3, <2>4
<1> QED
  BY <1>2 DEF HeldReceipts

-----------------------------------------------------------------------------
\* Receipts loaded, found final and merged.

\* The transactions of a broadcast that are all on the chain are distinct.
LEMMA LoadedHeld ==
  ASSUME ChainGood(sent, blocks, final, reorgs), NEW file, IsFile(file),
         canLoadReceipts(extractBroadcastTransactionHashes(file))
  PROVE  HeldReceipts(loadTransactionReceipts(extractBroadcastTransactionHashes(file)), blocks, reorgs)
<1> DEFINE nonces == extractBroadcastTransactionHashes(file)
           receipts == loadTransactionReceipts(nonces)
<1>1. file.base \in Nat /\ file.total \in Nat /\ file.sent \in Int
  BY DEF IsFile
<1>2. /\ blocks \in Seq([hash : Nat, ok : BOOLEAN]) /\ Len(blocks) \in Nat
      /\ DOMAIN blocks = 1 .. Len(blocks)
  BY DEF ChainGood
<1>3. /\ DOMAIN nonces = 1 .. file.total
      /\ \A i \in 1 .. file.total : nonces[i] = IF i <= file.sent THEN file.base + i ELSE 0
  BY DEF extractBroadcastTransactionHashes
<1>4. /\ DOMAIN receipts = 1 .. file.total
      /\ \A i \in 1 .. file.total :
           receipts[i] = [nonce |-> nonces[i], block |-> blocks[nonces[i]].hash,
                          contract |-> contractAddress(nonces[i])]
      /\ receipts = [i \in 1 .. file.total |-> receipts[i]]
  BY <1>3 DEF loadTransactionReceipts
<1>5. Range(nonces) \subseteq executed
  BY DEF canLoadReceipts
<1> HIDE DEF nonces, receipts
<1>6. ASSUME NEW i \in 1 .. file.total
      PROVE  /\ nonces[i] \in 1 .. Len(blocks) /\ blocks[nonces[i]].ok /\ nonces[i] = file.base + i
             /\ receipts[i] \in Receipt
             /\ receipts[i].nonce = nonces[i] /\ receipts[i].block = blocks[nonces[i]].hash
  <2>1. PICK n : n = nonces[i]
    OBVIOUS
  <2>2. n \in executed
    BY <1>3, <1>5, <2>1 DEF Range
  <2>3. n \in 1 .. Len(blocks) /\ blocks[n].ok
    BY <1>2, <2>2 DEF executed
  <2>4. n = file.base + i
    BY <1>1, <1>2, <1>3, <2>1, <2>3
  <2>5. blocks[n].hash \in Nat /\ n \in Nat \ {0}
    BY <1>2, <2>3, BlockFields
  <2>6. contractAddress(n) \in Nat
    BY <2>5 DEF contractAddress
  <2>7. PICK h, c : h = blocks[n].hash /\ c = contractAddress(n)
    OBVIOUS
  <2>8. receipts[i] = [nonce |-> n, block |-> h, contract |-> c]
    BY <1>4, <2>1, <2>7
  <2>9. /\ receipts[i] \in Receipt /\ receipts[i].nonce = n /\ receipts[i].block = h
    BY <2>5, <2>6, <2>7, <2>8 DEF Receipt
  <2> QED
    BY <2>1, <2>3, <2>4, <2>7, <2>9
<1>7. receipts \in Seq(Receipt)
  <2>1. receipts \in [1 .. file.total -> Receipt]
    BY <1>4, <1>6
  <2> QED
    BY <1>1, <2>1
<1>8. \A i, j \in 1 .. file.total : receipts[i].nonce = receipts[j].nonce => i = j
  BY <1>1, <1>6
<1>9. \A i \in 1 .. file.total : IsHeld(receipts[i], blocks, reorgs)
  BY <1>2, <1>6 DEF IsHeld, OnChain
<1> QED
  BY <1>4, <1>7, <1>8, <1>9 DEF HeldReceipts, DistinctReceipts, nonces, receipts

LEMMA FinalWhenCovered ==
  ASSUME NEW receipts, HeldReceipts(receipts, blocks, reorgs),
         coveredByFinality(receipts), inCanonicalBlocks(receipts)
  PROVE  FinalReceipts(receipts, blocks, final)
BY DEF HeldReceipts, FinalReceipts, coveredByFinality, inCanonicalBlocks, IsHeld, IsFinal, OnChain

LEMMA NoReceipts ==
  ASSUME NEW chain, NEW height
  PROVE  FinalReceipts(<<>>, chain, height)
<1>1. <<>> \in Seq(Receipt) /\ DOMAIN <<>> = {}
  OBVIOUS
<1> QED
  BY <1>1 DEF FinalReceipts, DistinctReceipts

LEMMA MergedFinal ==
  ASSUME NEW chain, NEW height, NEW prior, NEW receipts,
         FinalReceipts(prior, chain, height), FinalReceipts(receipts, chain, height)
  PROVE  FinalReceipts(mergeTransactions(prior, receipts), chain, height)
<1> DEFINE others == {t \in Range(prior) : \A i \in DOMAIN receipts : receipts[i].nonce # t.nonce}
           rest == Filtered(prior, others)
           merged == rest \o receipts
<1>1. /\ prior \in Seq(Receipt) /\ receipts \in Seq(Receipt)
      /\ \A i, j \in DOMAIN prior : prior[i].nonce = prior[j].nonce => i = j
      /\ \A i, j \in DOMAIN receipts : receipts[i].nonce = receipts[j].nonce => i = j
      /\ \A i \in DOMAIN prior : IsFinal(prior[i], chain, height)
      /\ \A i \in DOMAIN receipts : IsFinal(receipts[i], chain, height)
  BY DEF FinalReceipts, DistinctReceipts
<1>2. PositionsOf(rest, prior, others, Len(prior), Receipt)
  BY <1>1, FilteredList
<1>3. /\ Len(prior) \in Nat /\ DOMAIN prior = 1 .. Len(prior)
      /\ Len(receipts) \in Nat /\ DOMAIN receipts = 1 .. Len(receipts)
  BY <1>1
<1>4. \A t \in others : \A i \in DOMAIN receipts : receipts[i].nonce # t.nonce
  OBVIOUS
<1>5. mergeTransactions(prior, receipts) = merged
  BY DEF mergeTransactions
<1> HIDE DEF others, rest
<1>6. rest \in Seq(Receipt) /\ Len(rest) \in Nat /\ DOMAIN rest = 1 .. Len(rest)
  BY <1>2 DEF PositionsOf
<1>7. PICK place \in [DOMAIN rest -> 1 .. Len(prior)] :
        /\ \A i, j \in DOMAIN rest : place[i] = place[j] => i = j
        /\ \A i \in DOMAIN rest : rest[i] = prior[place[i]] /\ prior[place[i]] \in others
  BY <1>2 DEF PositionsOf
<1>8. ASSUME NEW i \in 1 .. Len(rest)
      PROVE  /\ IsFinal(rest[i], chain, height)
             /\ \A j \in 1 .. Len(rest) : rest[i].nonce = rest[j].nonce => i = j
             /\ \A j \in 1 .. Len(receipts) : rest[i].nonce # receipts[j].nonce
  <2>1. \A j \in 1 .. Len(rest) : place[j] \in DOMAIN prior /\ rest[j] = prior[place[j]]
    BY <1>3, <1>6, <1>7
  <2>2. rest[i] \in others
    BY <1>6, <1>7
  <2>3. IsFinal(rest[i], chain, height)
    BY <1>1, <2>1
  <2>4. ASSUME NEW j \in 1 .. Len(rest), rest[i].nonce = rest[j].nonce
        PROVE  i = j
    <3>1. place[i] = place[j]
      BY <1>1, <2>1, <2>4
    <3> QED
      BY <1>6, <1>7, <3>1
  <2>5. \A j \in 1 .. Len(receipts) : rest[i].nonce # receipts[j].nonce
    BY <1>3, <1>4, <2>2
  <2> QED
    BY <2>3, <2>4, <2>5
<1>9. /\ merged \in Seq(Receipt) /\ DOMAIN merged = 1 .. Len(rest) + Len(receipts)
      /\ \A i \in 1 .. Len(rest) : merged[i] = rest[i]
      /\ \A i \in 1 .. Len(rest) + Len(receipts) :
           i \notin 1 .. Len(rest) =>
             i - Len(rest) \in 1 .. Len(receipts) /\ merged[i] = receipts[i - Len(rest)]
  BY <1>1, <1>3, <1>6
<1> HIDE DEF merged
<1>10. \A i \in DOMAIN merged : IsFinal(merged[i], chain, height)
  BY <1>1, <1>3, <1>8, <1>9
<1>11. ASSUME NEW i \in DOMAIN merged, NEW j \in DOMAIN merged, merged[i].nonce = merged[j].nonce
       PROVE  i = j
  <2>1. CASE i \in 1 .. Len(rest) /\ j \in 1 .. Len(rest)
    BY <1>8, <1>9, <1>11, <2>1
  <2>2. CASE i \in 1 .. Len(rest) /\ j \notin 1 .. Len(rest)
    <3>1. PICK m \in 1 .. Len(receipts) : merged[j] = receipts[m]
      BY <1>9, <2>2
    <3>2. merged[i] = rest[i]
      BY <1>9, <2>2
    <3> QED
      BY <1>8, <1>11, <2>2, <3>1, <3>2
  <2>3. CASE i \notin 1 .. Len(rest) /\ j \in 1 .. Len(rest)
    <3>1. PICK m \in 1 .. Len(receipts) : merged[i] = receipts[m]
      BY <1>9, <2>3
    <3>2. merged[j] = rest[j]
      BY <1>9, <2>3
    <3> QED
      BY <1>8, <1>11, <2>3, <3>1, <3>2
  <2>4. CASE i \notin 1 .. Len(rest) /\ j \notin 1 .. Len(rest)
    <3>1. /\ i - Len(rest) \in 1 .. Len(receipts) /\ merged[i] = receipts[i - Len(rest)]
          /\ j - Len(rest) \in 1 .. Len(receipts) /\ merged[j] = receipts[j - Len(rest)]
      BY <1>9, <2>4
    <3>2. i - Len(rest) = j - Len(rest)
      BY <1>1, <1>3, <1>11, <3>1
    <3> QED
      BY <1>3, <1>6, <1>9, <3>2
  <2> QED
    BY <2>1, <2>2, <2>3, <2>4
<1> QED
  BY <1>5, <1>9, <1>10, <1>11 DEF FinalReceipts, DistinctReceipts

-----------------------------------------------------------------------------
\* The scripts are lists.

LEMMA TuplesAreLists ==
  ASSUME NEW a, NEW b, NEW c
  PROVE  IsList(<<>>) /\ IsList(<<a>>) /\ IsList(<<a, b>>) /\ IsList(<<a, b, c>>)
<1>1. /\ <<>> \in Seq({a, b, c}) /\ <<a>> \in Seq({a, b, c}) /\ <<a, b>> \in Seq({a, b, c})
      /\ <<a, b, c>> \in Seq({a, b, c})
  OBVIOUS
<1> QED
  BY <1>1 DEF IsList

LEMMA DeployScriptIsList ==
  ASSUME NEW proxies, NEW helpers, IsList(proxies), IsList(helpers), NEW tokens \in BOOLEAN, NEW base, NEW build
  PROVE  IsList(DeployScript(proxies, helpers, tokens, base, build))
<1>1. /\ Len(proxies) \in Nat /\ Len(helpers) \in Nat /\ DOMAIN helpers = 1 .. Len(helpers)
      /\ 2 * Len(proxies) \in Nat
  BY DEF IsList
<1> DEFINE proxied == [i \in 1 .. 2 * Len(proxies) |->
                         IF i % 2 = 1 THEN Code(proxies[(i + 1) \div 2], build) ELSE Proxy(base + i + 1)]
           standalone == [i \in DOMAIN helpers |-> Code(helpers[i], build)]
<1>2. IsList(proxied)
  <2>1. DOMAIN proxied = 1 .. 2 * Len(proxies) /\ proxied = [i \in 1 .. 2 * Len(proxies) |-> proxied[i]]
    OBVIOUS
  <2> HIDE DEF proxied
  <2> QED
    BY <1>1, <2>1, ListMade
<1>3. IsList(standalone)
  <2>1. DOMAIN standalone = 1 .. Len(helpers) /\ standalone = [i \in 1 .. Len(helpers) |-> standalone[i]]
    BY <1>1
  <2> HIDE DEF standalone
  <2> QED
    BY <1>1, <2>1, ListMade
<1>4. PICK v, w, x, y :
        DeployScript(proxies, helpers, tokens, base, build)
          = <<v, w>> \o proxied \o <<x>> \o standalone \o (IF tokens THEN <<y>> ELSE <<>>)
  BY DEF DeployScript
<1> HIDE DEF proxied, standalone
<1>5. IsList(<<v, w>>) /\ IsList(<<x>>) /\ IsList(IF tokens THEN <<y>> ELSE <<>>)
  BY TuplesAreLists
<1>6. IsList(<<v, w>> \o proxied)
  BY <1>2, <1>5, ListsJoined
<1>7. IsList(<<v, w>> \o proxied \o <<x>>)
  BY <1>5, <1>6, ListsJoined
<1>8. IsList(<<v, w>> \o proxied \o <<x>> \o standalone)
  BY <1>3, <1>7, ListsJoined
<1> QED
  BY <1>4, <1>5, <1>8, ListsJoined

LEMMA UpgradeScriptIsList ==
  ASSUME NEW S, NEW targets \in Seq(S), NEW source, NEW base, NEW build
  PROVE  IsList(UpgradeScript(targets, source, base, build))
<1>1. Len(targets) \in Nat /\ DOMAIN targets = 1 .. Len(targets)
  OBVIOUS
<1>2. PICK f, g : /\ UpgradeScript(targets, source, base, build) = f \o g
                  /\ DOMAIN f = 1 .. Len(targets) /\ f = [i \in 1 .. Len(targets) |-> f[i]]
                  /\ DOMAIN g = 1 .. Len(targets) /\ g = [i \in 1 .. Len(targets) |-> g[i]]
  <2> DEFINE proxy(name) ==
               source.contracts[IF name = "Validator" THEN "ValidatorBeacon" ELSE name].address
             f == [i \in DOMAIN targets |-> Code(targets[i], build)]
             g == [i \in DOMAIN targets |-> Call(proxy(targets[i]), "implementation", base + i)]
  <2>1. UpgradeScript(targets, source, base, build) = f \o g
    BY DEF UpgradeScript
  <2>2. DOMAIN f = 1 .. Len(targets) /\ f = [i \in 1 .. Len(targets) |-> f[i]]
    BY <1>1
  <2>3. DOMAIN g = 1 .. Len(targets) /\ g = [i \in 1 .. Len(targets) |-> g[i]]
    BY <1>1
  <2> HIDE DEF f, g
  <2> QED
    BY <2>1, <2>2, <2>3
<1>3. IsList(f) /\ IsList(g)
  BY <1>1, <1>2, ListMade
<1> QED
  BY <1>2, <1>3, ListsJoined

-----------------------------------------------------------------------------
\* The steps.

LEMMA ReceiptsOfNothing ==
  ASSUME NEW chain, NEW height, NEW count
  PROVE  /\ FinalReceipts(NoManifest.transactions, chain, height)
         /\ PendingGood(NoJournal, chain, height)
         /\ CommandGood(NoCommand, chain, height, count)
<1>1. FinalReceipts(NoManifest.transactions, chain, height)
  BY NoReceipts DEF NoManifest
<1>2. PendingGood(NoJournal, chain, height)
  BY <1>1 DEF PendingGood, NoJournal
<1>3. CommandGood(NoCommand, chain, height, count)
  BY <1>1, <1>2 DEF CommandGood, NoCommand
<1> QED
  BY <1>1, <1>2, <1>3

LEMMA ReceiptsInit == Init => ReceiptInv
<1> SUFFICES ASSUME Init PROVE ReceiptInv
  OBVIOUS
<1>1. /\ journal = [operation \in Operations |-> NoJournal] /\ cmd = NoCommand
  BY DEF Init
<1>2. (\A operation \in Operations : PendingGood(journal[operation], blocks, final))
        /\ CommandGood(cmd, blocks, final, reorgs)
  BY <1>1, ReceiptsOfNothing
<1>3. ASSUME NEW script, IsList(script), ChainInit(script)
      PROVE  ChainGood(sent, blocks, final, reorgs)
  <2>1. Len(script) \in Nat /\ DOMAIN script = 1 .. Len(script)
    BY <1>3 DEF IsList
  <2> DEFINE block == [hash |-> 0, ok |-> TRUE]
  <2>2. block \in [hash : Nat, ok : BOOLEAN] /\ block.hash = 0
    OBVIOUS
  <2>3. blocks = [n \in 1 .. Len(script) |-> block] /\ sent = script /\ final = Len(script) /\ reorgs = 0
    BY <1>3, <2>1 DEF ChainInit
  <2> HIDE DEF block
  <2>4. blocks \in [1 .. Len(script) -> [hash : Nat, ok : BOOLEAN]]
    BY <2>2, <2>3
  <2>5. blocks \in Seq([hash : Nat, ok : BOOLEAN]) /\ Len(blocks) = Len(script)
    <3>1. blocks = [n \in 1 .. Len(script) |-> blocks[n]] /\ DOMAIN blocks = 1 .. Len(script)
      BY <2>3
    <3>2. Len(blocks) = Len(script)
      BY <2>1, <3>1, ListMade
    <3> DEFINE Block == [hash : Nat, ok : BOOLEAN]
    <3>3. blocks \in [1 .. Len(script) -> Block] /\ Len(script) \in Nat
      BY <2>1, <2>4
    <3> HIDE DEF Block
    <3>4. blocks \in Seq(Block)
      BY <3>3
    <3> QED
      BY <3>2, <3>4 DEF Block
  <2>6. \A n \in DOMAIN blocks : blocks[n].hash <= reorgs
    BY <2>2, <2>3
  <2> QED
    BY <1>3, <2>1, <2>3, <2>5, <2>6 DEF ChainGood
<1>4. CASE ChainInit(<<>>) /\ latest = NoManifest
  <2>1. FinalReceipts(latest.transactions, blocks, final)
    BY <1>4, ReceiptsOfNothing
  <2>2. IsList(<<>>)
    BY TuplesAreLists
  <2> QED
    BY <1>2, <1>3, <1>4, <2>1, <2>2 DEF ReceiptInv
<1>5. CASE \E missing :
             /\ ChainInit(DeployScript(Filtered(ProxyOrder, ProxyNames \ missing),
                                       Filtered(HelperOrder, HelperNames \ missing), FALSE, 0, tree))
             /\ latest.transactions = loadTransactionReceipts([n \in DOMAIN sent |-> n])
  <2>1. PICK script : /\ IsList(script) /\ ChainInit(script)
                      /\ latest.transactions = loadTransactionReceipts([n \in DOMAIN sent |-> n])
    <3>1. PICK missing :
             /\ ChainInit(DeployScript(Filtered(ProxyOrder, ProxyNames \ missing),
                                       Filtered(HelperOrder, HelperNames \ missing), FALSE, 0, tree))
             /\ latest.transactions = loadTransactionReceipts([n \in DOMAIN sent |-> n])
      BY <1>5
    <3>2. /\ IsList(Filtered(ProxyOrder, ProxyNames \ missing))
          /\ IsList(Filtered(HelperOrder, HelperNames \ missing))
      BY ReleaseAssumption, FilteredList DEF PositionsOf, IsList
    <3> QED
      BY <3>1, <3>2, DeployScriptIsList
  <2>2. PICK size : size = Len(script)
    OBVIOUS
  <2>3. /\ size \in Nat /\ DOMAIN script = 1 .. size
    BY <2>1, <2>2 DEF IsList
  <2>4. /\ sent = script /\ final = size /\ DOMAIN blocks = 1 .. size
        /\ \A n \in 1 .. size : blocks[n].hash = 0 /\ blocks[n].ok
    BY <2>1, <2>2, <2>3 DEF ChainInit
  <2> DEFINE receipts == [n \in 1 .. size |-> [nonce |-> n, block |-> blocks[n].hash,
                                               contract |-> contractAddress(n)]]
  <2>5. latest.transactions = receipts
    BY <2>1, <2>3, <2>4 DEF loadTransactionReceipts
  <2>6. ASSUME NEW n \in 1 .. size
        PROVE  receipts[n] \in Receipt /\ receipts[n].nonce = n /\ receipts[n].block = 0
    <3>1. contractAddress(n) \in Nat /\ n \in Nat \ {0}
      BY <2>3 DEF contractAddress
    <3>2. PICK c \in Nat : c = contractAddress(n)
      BY <3>1
    <3>3. receipts[n] = [nonce |-> n, block |-> 0, contract |-> c]
      BY <2>4, <3>2
    <3> HIDE DEF receipts
    <3> QED
      BY <3>1, <3>2, <3>3 DEF Receipt
  <2>7. DOMAIN receipts = 1 .. size /\ receipts = [n \in 1 .. size |-> receipts[n]]
    OBVIOUS
  <2> HIDE DEF receipts
  <2>8. receipts \in Seq(Receipt)
    <3>1. receipts \in [1 .. size -> Receipt]
      BY <2>6, <2>7
    <3> QED
      BY <2>3, <3>1
  <2>9. \A n \in 1 .. size : IsFinal(receipts[n], blocks, final)
    BY <2>3, <2>4, <2>6 DEF IsFinal, OnChain
  <2>10. FinalReceipts(latest.transactions, blocks, final)
    BY <2>5, <2>6, <2>7, <2>8, <2>9 DEF FinalReceipts, DistinctReceipts
  <2> QED
    BY <1>2, <1>3, <2>1, <2>10 DEF ReceiptInv
<1>6. ReceiptInv
  <2>1. PICK missing \in InitialMissing :
          IF missing = None THEN ChainInit(<<>>) /\ latest = NoManifest
          ELSE /\ ChainInit(DeployScript(Filtered(ProxyOrder, ProxyNames \ missing),
                                         Filtered(HelperOrder, HelperNames \ missing), FALSE, 0, tree))
               /\ \E contracts :
                    latest = [status |-> "finalized", release |-> tree, contracts |-> contracts,
                              tokens |-> FALSE,
                              transactions |-> loadTransactionReceipts([n \in DOMAIN sent |-> n]),
                              revision |-> 0]
    BY Zenon DEF Init
  <2>2. CASE missing = None
    BY <1>4, <2>1, <2>2
  <2>3. CASE missing # None
    <3>1. latest.transactions = loadTransactionReceipts([n \in DOMAIN sent |-> n])
      BY <2>1, <2>3
    <3> QED
      BY <1>5, <2>1, <2>3, <3>1
  <2> QED
    BY <2>2, <2>3
<1> QED
  BY <1>6

\* The chain moves, the command waits.
LEMMA ChainMoveKeeps ==
  ASSUME ReceiptInv, ChainMoves, UNCHANGED <<latest, journal, cmd>>
  PROVE  ReceiptInv'
<1>1. /\ ChainGood(sent, blocks, final, reorgs)
      /\ ChainGood(sent', blocks', final', reorgs')
      /\ ChainStep(blocks, blocks', final, final', reorgs, reorgs')
  BY ChainKept DEF ReceiptInv
<1>2. \A receipts : FinalReceipts(receipts, blocks, final) => FinalReceipts(receipts, blocks', final')
  BY <1>1, FinalKept
<1>3. \A receipts : HeldReceipts(receipts, blocks, reorgs) => HeldReceipts(receipts, blocks', reorgs')
  BY <1>1, HeldKept
<1>4. FinalReceipts(latest'.transactions, blocks', final')
  BY <1>2 DEF ReceiptInv
<1>5. \A p : PendingGood(p, blocks, final) => PendingGood(p, blocks', final')
  BY <1>2 DEF PendingGood
<1>6. \A operation \in Operations : PendingGood(journal'[operation], blocks', final')
  BY <1>5 DEF ReceiptInv
<1>7. CommandGood(cmd', blocks', final', reorgs')
  <2>1. CommandGood(cmd, blocks', final', reorgs')
    BY <1>2, <1>3, <1>5 DEF ReceiptInv, CommandGood
  <2> QED
    BY <2>1
<1> QED
  BY <1>1, <1>4, <1>6, <1>7 DEF ReceiptInv

\* The command goes on, the chain and the files wait.
LEMMA CommandMoveKeeps ==
  ASSUME ReceiptInv, UNCHANGED <<chainVars, latest, journal>>, CommandGood(cmd', blocks, final, reorgs)
  PROVE  ReceiptInv'
BY DEF ReceiptInv, chainVars

\* A journal is written too.
LEMMA JournalMoveKeeps ==
  ASSUME ReceiptInv, Shapes, UNCHANGED <<chainVars, latest>>, CommandGood(cmd', blocks, final, reorgs),
         NEW op, NEW p, journal' = [journal EXCEPT ![op] = p], PendingGood(p, blocks, final)
  PROVE  ReceiptInv'
<1>1. \A operation \in Operations : PendingGood(journal'[operation], blocks, final)
  BY DEF ReceiptInv, Shapes
<1> QED
  BY <1>1 DEF ReceiptInv, chainVars

-----------------------------------------------------------------------------
\* One action after the other.

\* Steps at which nothing is known of the file or the receipts.
QuietSteps == Steps \ {"broadcast", "record", "recordJournal", "receipts", "finality", "live", "tokens"}

LEMMA QuietCommand ==
  ASSUME NEW chain, NEW height, NEW count, NEW c, NEW d, CommandGood(c, chain, height, count),
         d.source = c.source \/ d.source = NoManifest, d.pending = c.pending \/ PendingGood(d.pending, chain, height),
         d.kind = c.kind, d.request = c.request, d.at \in QuietSteps
  PROVE  CommandGood(d, chain, height, count)
BY ReceiptsOfNothing DEF CommandGood, QuietSteps

LEMMA CommandStopsWell ==
  ASSUME ReceiptInv, UNCHANGED <<chainVars, latest, journal>>, cmd' = NoCommand
  PROVE  ReceiptInv'
BY CommandMoveKeeps, ReceiptsOfNothing

LEMMA OneStartReceipts ==
  ASSUME IInv, ReceiptInv, NEW step \in {"build", "tokens", "forge"}, NEW kind, NEW operation, NEW request,
         start(step, kind, operation, request), kind = "upgrade" => request[1] \in Seq(UpgradeTargets)
  PROVE  ReceiptInv'
<1>1. /\ cmd' = [NoCommand EXCEPT !.at = step, !.kind = kind, !.operation = operation,
                                 !.request = request, !.source = latest]
      /\ UNCHANGED <<chainVars, latest, journal>>
  BY DEF start
<1>2. /\ cmd'.at = step /\ cmd'.kind = kind /\ cmd'.request = request /\ cmd'.source = latest
      /\ cmd'.pending = NoJournal /\ cmd'.receipts = <<>>
  BY <1>1 DEF NoCommand
<1>3. CommandGood(cmd', blocks, final, reorgs)
  BY <1>2, ReceiptsOfNothing, NoReceipts DEF CommandGood, ReceiptInv
<1> QED
  BY <1>1, <1>3, CommandMoveKeeps

LEMMA StartReceipts == ASSUME IInv, ReceiptInv, startCommand PROVE ReceiptInv'
<1>1. CASE \E fresh \in BOOLEAN : deploy(fresh)
  <2>1. start("build", "deploy", "deploy", None)
    BY <1>1 DEF deploy
  <2> QED
    BY <2>1, OneStartReceipts
<1>2. CASE \E name \in Missing : deployMissing(name)
  <2>1. PICK name \in Missing : start("build", "missing", "deploy", name)
    BY <1>2 DEF deployMissing
  <2> QED
    BY <2>1, OneStartReceipts
<1>3. CASE \E u \in Upgrades : upgrade(u[1], u[2])
  <2>1. PICK u \in Upgrades : start("build", "upgrade", "upgrade", <<u[1], u[2]>>)
    BY <1>3 DEF upgrade
  <2>2. <<u[1], u[2]>>[1] \in Seq(UpgradeTargets)
    BY DeploymentAssumption
  <2> QED
    BY <2>1, <2>2, OneStartReceipts
<1>4. CASE configurePaymentTokens
  <2>1. PICK step \in {"tokens", "forge"} : start(step, "tokens", "none", None)
    BY <1>4 DEF configurePaymentTokens
  <2> QED
    BY <2>1, OneStartReceipts
<1> QED
  BY <1>1, <1>2, <1>3, <1>4 DEF startCommand

LEMMA PrepareReceipts ==
  ASSUME IInv, ReceiptInv, buildContracts \/ retainBuildInfo \/ retainPendingStart
  PROVE  ReceiptInv'
<1>1. CommandGood(cmd, blocks, final, reorgs) /\ IsCommand(cmd) /\ Shapes
  BY DEF ReceiptInv, IInv, Shapes
<1>2. CASE buildContracts
  <2>1. /\ cmd' = [cmd EXCEPT !.at = "preflight", !.build = tree]
        /\ UNCHANGED <<chainVars, latest, journal>>
    BY <1>2 DEF buildContracts, unchangedFiles, unchangedOthers
  <2>2. /\ cmd'.at = "preflight" /\ cmd'.kind = cmd.kind /\ cmd'.request = cmd.request
        /\ cmd'.source = cmd.source /\ cmd'.pending = cmd.pending
    BY <1>1, <2>1 DEF IsCommand
  <2>3. cmd'.at \in QuietSteps
    BY <2>2 DEF QuietSteps, Steps
  <2> QED
    BY <1>1, <2>1, <2>2, <2>3, QuietCommand, CommandMoveKeeps DEF QuietSteps, Steps
<1>3. CASE retainBuildInfo
  <2>1. /\ cmd' = [cmd EXCEPT !.at = "journal", !.pending = newPending]
        /\ UNCHANGED <<chainVars, latest, journal>>
    BY <1>3 DEF retainBuildInfo, unchangedOthers
  <2>2. /\ cmd'.at = "journal" /\ cmd'.kind = cmd.kind /\ cmd'.request = cmd.request
        /\ cmd'.source = cmd.source /\ cmd'.pending = newPending
    BY <1>1, <2>1 DEF IsCommand
  <2>3. newPending.broadcast = None /\ newPending.result = NoManifest /\ newPending.resultManifest = NoManifest
    BY DEF newPending, newPendingDeploy, newPendingUpgrade, NoJournal
  <2>4. PendingGood(newPending, blocks, final)
    BY <2>3, ReceiptsOfNothing DEF PendingGood
  <2>5. cmd'.at \in QuietSteps
    BY <2>2 DEF QuietSteps, Steps
  <2>6. CommandGood(cmd', blocks, final, reorgs)
    BY <1>1, <2>2, <2>4, <2>5, QuietCommand
  <2> QED
    BY <2>1, <2>6, CommandMoveKeeps
<1>4. CASE retainPendingStart
  <2>1. /\ cmd' = [cmd EXCEPT !.at = "forge"]
        /\ journal' = [journal EXCEPT ![cmd.operation] = cmd.pending]
        /\ UNCHANGED <<chainVars, latest>>
    BY <1>4 DEF retainPendingStart, unchangedOthers
  <2>2. /\ cmd'.at = "forge" /\ cmd'.kind = cmd.kind /\ cmd'.request = cmd.request
        /\ cmd'.source = cmd.source /\ cmd'.pending = cmd.pending
    BY <1>1, <2>1 DEF IsCommand
  <2>3. CommandGood(cmd', blocks, final, reorgs) /\ PendingGood(cmd.pending, blocks, final)
    BY <1>1, <2>2, QuietCommand DEF QuietSteps, Steps, CommandGood
  <2> QED
    BY <1>1, <2>1, <2>3, JournalMoveKeeps
<1> QED
  BY <1>2, <1>3, <1>4

LEMMA RunForgeReceipts == ASSUME IInv, ReceiptInv, runForgeScript PROVE ReceiptInv'
<1>1. CommandGood(cmd, blocks, final, reorgs) /\ IsCommand(cmd)
  BY DEF ReceiptInv, IInv, Shapes
<1> DEFINE base == Len(sent)
           script == CASE cmd.kind = "deploy" -> DeployScript(ProxyOrder, HelperOrder, Policy, base, tree)
                       [] cmd.kind = "missing" -> MissingScript(cmd.request, cmd.source, base, tree)
                       [] cmd.kind = "upgrade" -> UpgradeScript(cmd.request[1], cmd.source, base, tree)
                       [] OTHER -> TokenScript(cmd.source)
<1>2. /\ cmd' = [cmd EXCEPT !.at = "broadcast", !.base = base, !.script = script]
      /\ UNCHANGED <<chainVars, latest, journal>>
  BY DEF runForgeScript, unchangedFiles, unchangedOthers
<1>3. base \in Nat
  BY DEF ReceiptInv, ChainGood, IsList
<1>4. IsList(script)
  <2>1. CASE cmd.kind = "deploy"
    <3>1. IsList(ProxyOrder) /\ IsList(HelperOrder) /\ Policy \in BOOLEAN
      BY ReleaseAssumption, DeploymentAssumption DEF IsList
    <3> HIDE DEF base
    <3>2. IsList(DeployScript(ProxyOrder, HelperOrder, Policy, base, tree))
      BY <3>1, DeployScriptIsList
    <3> QED
      BY <2>1, <3>2
  <2>2. CASE cmd.kind = "missing"
    BY <2>2, TuplesAreLists DEF MissingScript
  <2>3. CASE cmd.kind = "upgrade"
    <3>1. cmd.request[1] \in Seq(UpgradeTargets)
      BY <1>1, <2>3 DEF CommandGood
    <3> HIDE DEF base
    <3>2. IsList(UpgradeScript(cmd.request[1], cmd.source, base, tree))
      BY <3>1, UpgradeScriptIsList
    <3> QED
      BY <2>3, <3>2
  <2>4. CASE cmd.kind \notin {"deploy", "missing", "upgrade"}
    BY <2>4, TuplesAreLists DEF TokenScript
  <2> QED
    BY <2>1, <2>2, <2>3, <2>4
<1> HIDE DEF base, script
<1>5. /\ cmd'.at = "broadcast" /\ cmd'.kind = cmd.kind /\ cmd'.request = cmd.request
      /\ cmd'.source = cmd.source /\ cmd'.pending = cmd.pending
      /\ cmd'.base = base /\ cmd'.script = script
  BY <1>1, <1>2 DEF IsCommand
<1>6. CommandGood(cmd', blocks, final, reorgs)
  BY <1>1, <1>3, <1>4, <1>5 DEF CommandGood
<1> QED
  BY <1>2, <1>6, CommandMoveKeeps

LEMMA BroadcastReceipts == ASSUME ReceiptInv, broadcast PROVE ReceiptInv'
BY ChainMoveKeeps DEF broadcast, ChainMoves, unchangedFiles

LEMMA ForgeReceipts == ASSUME IInv, ReceiptInv, forgeSucceeds \/ forgeFails PROVE ReceiptInv'
<1>1. /\ CommandGood(cmd, blocks, final, reorgs) /\ IsCommand(cmd)
      /\ cmd.at = "broadcast" /\ UNCHANGED <<chainVars, latest, journal>>
  BY DEF ReceiptInv, IInv, Shapes, forgeSucceeds, forgeFails, unchangedFiles, unchangedOthers
<1>2. IsFile(broadcastFile)
  <2>1. cmd.base \in Nat /\ Len(sent) \in Nat /\ Len(cmd.script) \in Nat
    BY <1>1 DEF CommandGood, ReceiptInv, ChainGood, IsList
  <2> QED
    BY <2>1 DEF IsFile, broadcastFile, sentByScript
<1>3. CASE cmd' = NoCommand
  BY <1>1, <1>3, CommandStopsWell
<1>4. CASE cmd' # NoCommand
  <2>1. PICK file : file = broadcastFile
    OBVIOUS
  <2>2. /\ cmd'.at \in {"receipts", "record"} /\ cmd'.kind = cmd.kind /\ cmd'.request = cmd.request
        /\ cmd'.source = cmd.source /\ cmd'.pending = cmd.pending /\ cmd'.file = file
    <3>1. CASE forgeSucceeds
      <4>1. cmd' = [cmd EXCEPT !.at = IF cmd.kind = "tokens" THEN "receipts" ELSE "record",
                               !.script = <<>>, !.file = file]
        BY <2>1, <3>1 DEF forgeSucceeds
      <4> QED
        BY <1>1, <4>1 DEF IsCommand
    <3>2. CASE forgeFails
      <4>1. cmd' = [cmd EXCEPT !.at = "record", !.script = <<>>, !.file = file, !.failed = TRUE]
        BY <1>4, <2>1, <3>2 DEF forgeFails
      <4> QED
        BY <1>1, <4>1 DEF IsCommand
    <3> QED
      BY <1>4, <3>1, <3>2
  <2>3. CommandGood(cmd', blocks, final, reorgs)
    <3>1. IsFile(cmd'.file)
      BY <1>2, <2>1, <2>2
    <3> QED
      BY <1>1, <2>2, <3>1 DEF CommandGood
  <2> QED
    BY <1>1, <2>3, CommandMoveKeeps
<1> QED
  BY <1>3, <1>4

LEMMA RecordReceipts == ASSUME IInv, ReceiptInv, recordBroadcast \/ recordJournal PROVE ReceiptInv'
<1>1. /\ CommandGood(cmd, blocks, final, reorgs) /\ IsCommand(cmd) /\ Shapes
      /\ UNCHANGED <<chainVars, latest>>
  BY DEF ReceiptInv, IInv, Shapes, recordBroadcast, recordJournal, unchangedOthers
<1>2. CASE recordBroadcast
  <2>1. /\ cmd.at = "record" /\ cmd' = [cmd EXCEPT !.at = "recordJournal"] /\ journal' = journal
    BY <1>2 DEF recordBroadcast
  <2>2. /\ cmd'.at = "recordJournal" /\ cmd'.kind = cmd.kind /\ cmd'.request = cmd.request
        /\ cmd'.source = cmd.source /\ cmd'.pending = cmd.pending /\ cmd'.file = cmd.file
    BY <1>1, <2>1 DEF IsCommand
  <2>3. CommandGood(cmd', blocks, final, reorgs)
    BY <1>1, <2>1, <2>2 DEF CommandGood
  <2> QED
    BY <1>1, <2>1, <2>3, CommandMoveKeeps
<1>3. CASE recordJournal
  <2>1. /\ cmd.at = "recordJournal"
        /\ journal' = [journal EXCEPT ![cmd.operation] = recordedPending]
        /\ \/ cmd' = NoCommand
           \/ cmd' = [NoCommand EXCEPT !.at = "finalize", !.kind = "finalize", !.operation = cmd.operation]
    BY <1>3 DEF recordJournal
  <2>2. CommandGood(cmd', blocks, final, reorgs)
    <3>1. /\ cmd'.at \in {"idle", "finalize"} /\ cmd'.kind \in {"none", "finalize"}
          /\ cmd'.source = NoManifest /\ cmd'.pending = NoJournal
      <4>1. CASE cmd' = NoCommand
        BY <4>1 DEF NoCommand
      <4>2. CASE cmd' = [NoCommand EXCEPT !.at = "finalize", !.kind = "finalize",
                                          !.operation = cmd.operation]
        BY <4>2 DEF NoCommand
      <4> QED
        BY <2>1, <4>1, <4>2
    <3> QED
      BY <3>1, ReceiptsOfNothing DEF CommandGood
  <2>3. IsPending(cmd.pending) /\ IsManifest(cmd.source) /\ IsFile(cmd.file)
    BY <1>1, <2>1 DEF IsCommand, CommandGood
  <2>4. PICK result :
          /\ recordedPending.broadcast = cmd.file
          /\ recordedPending.result = result
          /\ recordedPending.resultManifest = cmd.pending.resultManifest
          /\ result.transactions \in {<<>>, cmd.source.transactions, cmd.pending.result.transactions}
    <3>1. CASE cmd.kind = "upgrade"
      BY <2>3, <3>1 DEF recordedPending, IsPending
    <3>2. CASE cmd.kind # "upgrade"
      <4>1. PICK result : /\ result = IF cmd.kind = "missing" THEN recordDeployMissing ELSE recordedDeploy
                          /\ recordedPending = [cmd.pending EXCEPT !.broadcast = cmd.file, !.result = result]
        BY <3>2 DEF recordedPending
      <4>2. result.transactions \in {<<>>, cmd.source.transactions}
        BY <2>3, <4>1 DEF recordDeployMissing, mergeMissingHelpers, recordedDeploy, IsManifest
      <4> QED
        BY <2>3, <4>1, <4>2 DEF IsPending
    <3> QED
      BY <3>1, <3>2
  <2>5. PendingGood(recordedPending, blocks, final)
    BY <1>1, <2>3, <2>4, NoReceipts DEF PendingGood, CommandGood
  <2> QED
    BY <1>1, <2>1, <2>2, <2>5, JournalMoveKeeps
<1> QED
  BY <1>2, <1>3

LEMMA FinalizeReceipts ==
  ASSUME IInv, ReceiptInv, NEW operation \in Operations, finalize(operation)
  PROVE  ReceiptInv'
<1> DEFINE p == journal[operation]
<1>1. UNCHANGED <<chainVars, latest, journal>> /\ evidenceComplete(p) /\ PendingGood(p, blocks, final)
  BY DEF finalize, unchangedFiles, unchangedOthers, ReceiptInv
<1>2. CASE finalizePublished(operation)
  <2>1. /\ cmd'.at = "finish" /\ cmd'.kind = "finalize" /\ cmd'.source = NoManifest /\ cmd'.pending = p
    BY <1>2 DEF finalizePublished, finalizeAs, NoCommand
  <2>2. CommandGood(cmd', blocks, final, reorgs)
    BY <1>1, <2>1, ReceiptsOfNothing DEF CommandGood
  <2> QED
    BY <1>1, <2>2, CommandMoveKeeps
<1>3. CASE finalizeSource(operation)
  <2>1. /\ cmd'.at = "receipts" /\ cmd'.kind = "finalize" /\ cmd'.source = latest /\ cmd'.pending = p
        /\ cmd'.file = p.broadcast
    BY <1>3 DEF finalizeSource, finalizeAs, NoCommand
  <2>2. IsFile(p.broadcast)
    BY <1>1 DEF PendingGood, evidenceComplete
  <2>3. IsFile(cmd'.file) /\ PendingGood(cmd'.pending, blocks, final)
        /\ FinalReceipts(cmd'.source.transactions, blocks, final)
    BY <1>1, <2>1, <2>2 DEF ReceiptInv
  <2>4. CommandGood(cmd', blocks, final, reorgs)
    BY <2>1, <2>3 DEF CommandGood
  <2> QED
    BY <1>1, <2>4, CommandMoveKeeps
<1> QED
  BY <1>2, <1>3 DEF finalize

LEMMA LoadReceiptsFinal ==
  ASSUME IInv, ReceiptInv, loadReceipts \/ waitForFilecoinFinality
  PROVE  ReceiptInv'
<1>1. /\ CommandGood(cmd, blocks, final, reorgs) /\ IsCommand(cmd)
      /\ UNCHANGED <<chainVars, latest, journal>>
  BY DEF ReceiptInv, IInv, Shapes, loadReceipts, waitForFilecoinFinality, unchangedFiles, unchangedOthers
<1>2. CASE loadReceipts
  <2>1. PICK receipts :
          /\ receipts = loadTransactionReceipts(extractBroadcastTransactionHashes(cmd.file))
          /\ cmd' = [cmd EXCEPT !.at = "finality", !.file = None, !.receipts = receipts]
    BY <1>2 DEF loadReceipts
  <2>2. cmd.at = "receipts" /\ canLoadReceipts(extractBroadcastTransactionHashes(cmd.file))
    BY <1>2 DEF loadReceipts
  <2>3. HeldReceipts(receipts, blocks, reorgs)
    BY <1>1, <2>1, <2>2, LoadedHeld DEF CommandGood, ReceiptInv
  <2>4. /\ cmd'.at = "finality" /\ cmd'.kind = cmd.kind /\ cmd'.request = cmd.request
        /\ cmd'.source = cmd.source /\ cmd'.pending = cmd.pending /\ cmd'.receipts = receipts
    BY <1>1, <2>1 DEF IsCommand
  <2>5. CommandGood(cmd', blocks, final, reorgs)
    BY <1>1, <2>3, <2>4 DEF CommandGood
  <2> QED
    BY <1>1, <2>5, CommandMoveKeeps
<1>3. CASE waitForFilecoinFinality
  <2>1. /\ cmd.at = "finality" /\ coveredByFinality(cmd.receipts) /\ inCanonicalBlocks(cmd.receipts)
        /\ cmd' = [cmd EXCEPT !.at = IF cmd.kind = "tokens" THEN "tokens" ELSE "live"]
    BY <1>3 DEF waitForFilecoinFinality
  <2>2. FinalReceipts(cmd.receipts, blocks, final)
    BY <1>1, <2>1, FinalWhenCovered DEF CommandGood
  <2>3. /\ cmd'.at \in {"tokens", "live"} /\ cmd'.kind = cmd.kind /\ cmd'.request = cmd.request
        /\ cmd'.source = cmd.source /\ cmd'.pending = cmd.pending /\ cmd'.receipts = cmd.receipts
    BY <1>1, <2>1 DEF IsCommand
  <2>4. CommandGood(cmd', blocks, final, reorgs)
    BY <1>1, <2>2, <2>3 DEF CommandGood
  <2> QED
    BY <1>1, <2>4, CommandMoveKeeps
<1> QED
  BY <1>2, <1>3

LEMMA CheckLiveReceipts == ASSUME IInv, ReceiptInv, checkLive PROVE ReceiptInv'
<1>1. /\ CommandGood(cmd, blocks, final, reorgs) /\ IsCommand(cmd) /\ Shapes
      /\ UNCHANGED <<chainVars, latest>>
  BY DEF ReceiptInv, IInv, Shapes, checkLive, unchangedOthers
<1>2. /\ cmd.at = "live"
      /\ journal' = [journal EXCEPT ![cmd.operation] = CheckedPending]
      /\ cmd' = [cmd EXCEPT !.at = "retain", !.source = NoManifest, !.receipts = <<>>,
                            !.pending = CheckedPending]
  BY DEF checkLive, CheckedPending
<1>3. /\ IsPending(cmd.pending) /\ IsManifest(cmd.pending.result) /\ IsManifest(cmd.source)
      /\ PendingGood(cmd.pending, blocks, final) /\ FinalReceipts(cmd.receipts, blocks, final)
  BY <1>1, <1>2 DEF IsCommand, IsPending, CommandGood
<1>4. FinalReceipts(publishedManifest.transactions, blocks, final)
  <2>1. CASE cmd.operation = "upgrade"
    <3>1. publishedManifest.transactions = cmd.receipts
      BY <1>3, <2>1 DEF publishedManifest, renderUpgradedManifest, IsManifest
    <3> QED
      BY <1>3, <3>1
  <2>2. CASE cmd.operation # "upgrade"
    <3>1. publishedManifest.transactions = mergeTransactions(cmd.pending.result.transactions, cmd.receipts)
      BY <1>3, <2>2 DEF publishedManifest, IsManifest
    <3> QED
      BY <1>3, <3>1, MergedFinal DEF PendingGood
  <2> QED
    BY <2>1, <2>2
<1>5. PendingGood(CheckedPending, blocks, final)
  <2>1. PICK published1 : published1 = publishedManifest
    OBVIOUS
  <2>2. PICK result : /\ result \in {published1, NoManifest}
                      /\ CheckedPending = [cmd.pending EXCEPT !.result = result, !.resultManifest = published1]
    BY <2>1 DEF CheckedPending
  <2>3. /\ CheckedPending.broadcast = cmd.pending.broadcast /\ CheckedPending.result = result
        /\ CheckedPending.resultManifest = published1
    BY <1>3, <2>2 DEF IsPending
  <2> QED
    BY <1>3, <1>4, <2>1, <2>2, <2>3, ReceiptsOfNothing DEF PendingGood
<1> HIDE DEF CheckedPending
<1>6. /\ cmd'.at = "retain" /\ cmd'.kind = cmd.kind /\ cmd'.request = cmd.request
      /\ cmd'.source = NoManifest /\ cmd'.pending = CheckedPending
  BY <1>1, <1>2 DEF IsCommand
<1>7. CommandGood(cmd', blocks, final, reorgs)
  BY <1>1, <1>5, <1>6, QuietCommand DEF QuietSteps, Steps
<1> QED
  BY <1>1, <1>2, <1>5, <1>7, JournalMoveKeeps

LEMMA PublishReceipts ==
  ASSUME IInv, ReceiptInv, publishBuildInfo \/ publishManifest \/ pruneBuildInfo
  PROVE  ReceiptInv'
<1>1. /\ CommandGood(cmd, blocks, final, reorgs) /\ IsCommand(cmd)
      /\ UNCHANGED <<chainVars, journal>>
  BY DEF ReceiptInv, IInv, Shapes, publishBuildInfo, publishManifest, pruneBuildInfo, unchangedOthers
<1>2. PICK step \in QuietSteps : cmd' = [cmd EXCEPT !.at = step]
  BY DEF publishBuildInfo, publishManifest, pruneBuildInfo, QuietSteps, Steps
<1>3. /\ cmd'.at = step /\ cmd'.kind = cmd.kind /\ cmd'.request = cmd.request
      /\ cmd'.source = cmd.source /\ cmd'.pending = cmd.pending
  BY <1>1, <1>2 DEF IsCommand
<1>4. CommandGood(cmd', blocks, final, reorgs)
  BY <1>1, <1>3, QuietCommand
<1>5. latest' = latest \/ latest' = cmd.pending.resultManifest
  BY DEF publishBuildInfo, publishManifest, pruneBuildInfo
<1>6. FinalReceipts(latest'.transactions, blocks, final)
  BY <1>1, <1>5 DEF ReceiptInv, CommandGood, PendingGood
<1> QED
  BY <1>1, <1>4, <1>6 DEF ReceiptInv, chainVars

LEMMA FinishReceipts == ASSUME IInv, ReceiptInv, finishPending PROVE ReceiptInv'
<1>1. /\ CommandGood(cmd, blocks, final, reorgs) /\ IsCommand(cmd) /\ IsPending(cmd.pending) /\ Shapes
      /\ UNCHANGED <<chainVars, latest>>
  BY DEF ReceiptInv, IInv, Shapes, IsCommand, finishPending, unchangedOthers
<1>2. PICK finished : /\ finished = [cmd.pending EXCEPT !.status = "finalized"]
                      /\ journal' = [journal EXCEPT ![cmd.operation] = finished]
  BY DEF finishPending
<1>3. PendingGood(finished, blocks, final)
  <2>1. /\ finished.broadcast = cmd.pending.broadcast /\ finished.result = cmd.pending.result
        /\ finished.resultManifest = cmd.pending.resultManifest
    BY <1>1, <1>2 DEF IsPending
  <2> QED
    BY <1>1, <2>1 DEF PendingGood, CommandGood
<1>4. PICK step \in QuietSteps : cmd' = [cmd EXCEPT !.at = step]
  BY DEF finishPending, QuietSteps, Steps
<1>5. /\ cmd'.at = step /\ cmd'.kind = cmd.kind /\ cmd'.request = cmd.request
      /\ cmd'.source = cmd.source /\ cmd'.pending = cmd.pending
  BY <1>1, <1>4 DEF IsCommand
<1>6. CommandGood(cmd', blocks, final, reorgs)
  BY <1>1, <1>5, QuietCommand
<1> QED
  BY <1>1, <1>2, <1>3, <1>6, JournalMoveKeeps

LEMMA TokensReceipts == ASSUME IInv, ReceiptInv, updatePaymentTokens PROVE ReceiptInv'
<1>1. /\ cmd.at = "tokens" /\ cmd' = NoCommand /\ UNCHANGED <<chainVars, journal>>
      /\ latest' = applyPaymentTokenPolicy(cmd.source, cmd.receipts)
  BY DEF updatePaymentTokens, unchangedOthers
<1>2. /\ FinalReceipts(cmd.source.transactions, blocks, final)
      /\ FinalReceipts(cmd.receipts, blocks, final)
      /\ IsManifest(cmd.source)
  BY <1>1 DEF ReceiptInv, CommandGood, IInv, Shapes, IsCommand
<1>3. latest'.transactions = mergeTransactions(cmd.source.transactions, cmd.receipts)
  BY <1>1, <1>2 DEF applyPaymentTokenPolicy, IsManifest
<1>4. FinalReceipts(latest'.transactions, blocks, final)
  BY <1>2, <1>3, MergedFinal
<1> QED
  BY <1>1, <1>4, ReceiptsOfNothing DEF ReceiptInv, chainVars

LEMMA OtherReceipts ==
  ASSUME IInv, ReceiptInv,
         refuse \/ crash \/ verifySources \/ people \/ chainAlone \/ UNCHANGED vars
  PROVE  ReceiptInv'
<1>1. CASE refuse \/ crash \/ verifySources
  <2>1. UNCHANGED <<chainVars, latest, journal>> /\ cmd' = NoCommand
    BY <1>1 DEF refuse, crash, verifySources, unchangedFiles, unchangedOthers
  <2> QED
    BY <2>1, CommandStopsWell
<1>2. CASE editSources \/ commitSources \/ commitManifest \/ chainAlone \/ UNCHANGED vars
  <2>1. ChainMoves /\ UNCHANGED <<latest, journal, cmd>>
    BY <1>2 DEF editSources, commitSources, commitManifest, chainAlone, vars, ChainMoves, unchangedFiles
  <2> QED
    BY <2>1, ChainMoveKeeps
<1>3. CASE editManifest
  <2>1. UNCHANGED <<chainVars, journal, cmd>> /\ latest'.transactions = latest.transactions
    BY <1>3 DEF editManifest, IInv, Shapes, IsManifest
  <2> QED
    BY <2>1 DEF ReceiptInv, chainVars
<1> QED
  BY <1>1, <1>2, <1>3 DEF people

LEMMA ReceiptsKept == IInv /\ ReceiptInv /\ [Next]_vars => ReceiptInv'
<1> SUFFICES ASSUME IInv, ReceiptInv, [Next]_vars PROVE ReceiptInv'
  OBVIOUS
<1>1. CASE startCommand
  BY <1>1, StartReceipts
<1>2. CASE buildContracts \/ retainBuildInfo \/ retainPendingStart
  BY <1>2, PrepareReceipts
<1>3. CASE runForgeScript
  BY <1>3, RunForgeReceipts
<1>4. CASE broadcast
  BY <1>4, BroadcastReceipts
<1>5. CASE forgeSucceeds \/ forgeFails
  BY <1>5, ForgeReceipts
<1>6. CASE recordBroadcast \/ recordJournal
  BY <1>6, RecordReceipts
<1>7. CASE loadReceipts \/ waitForFilecoinFinality
  BY <1>7, LoadReceiptsFinal
<1>8. CASE checkLive
  BY <1>8, CheckLiveReceipts
<1>9. CASE publishBuildInfo \/ publishManifest \/ pruneBuildInfo
  BY <1>9, PublishReceipts
<1>10. CASE finishPending
  BY <1>10, FinishReceipts
<1>11. CASE updatePaymentTokens
  BY <1>11, TokensReceipts
<1>12. CASE \E operation \in Operations : finalize(operation)
  BY <1>12, FinalizeReceipts
<1>13. CASE refuse \/ crash \/ verifySources \/ people \/ chainAlone \/ UNCHANGED vars
  BY <1>13, OtherReceipts
<1> QED
  BY <1>1, <1>2, <1>3, <1>4, <1>5, <1>6, <1>7, <1>8, <1>9, <1>10, <1>11, <1>12, <1>13 DEF Next, commandStep

LEMMA ReceiptsInvariant == Spec => []ReceiptInv
<1>1. IInv /\ ReceiptInv /\ [Next]_vars => ReceiptInv'
  BY ReceiptsKept
<1> QED
  BY <1>1, ReceiptsInit, Invariant, PTL DEF Spec

\* Every receipt the canonical manifest holds is of a final block and of a
\* transaction that succeeded, for all outcomes, reorganizations and crashes:
\* what is read before the wait for finality is either still there after it
\* or noticed to be gone.
THEOREM ReceiptsAreFinal == Spec => []PublishedIsFinal
<1>1. ReceiptInv => PublishedIsFinal
  <2> SUFFICES ASSUME ReceiptInv, exists(latest), NEW i \in DOMAIN latest.transactions
               PROVE  LET receipt == latest.transactions[i]
                      IN  /\ receipt.nonce <= final
                          /\ receipt.nonce \in executed
                          /\ blocks[receipt.nonce].hash = receipt.block
    BY DEF PublishedIsFinal
  <2>1. IsFinal(latest.transactions[i], blocks, final)
    BY DEF ReceiptInv, FinalReceipts
  <2> QED
    BY <2>1 DEF IsFinal, OnChain, executed
<1> QED
  BY <1>1, ReceiptsInvariant, PTL

\* No transaction is listed twice in the canonical manifest, however often a
\* release is finalized or the payment tokens are configured again.
THEOREM ReceiptsListedOnce == Spec => []ReceiptsDistinct
<1>1. ReceiptInv => ReceiptsDistinct
  <2> SUFFICES ASSUME ReceiptInv PROVE ReceiptsDistinct
    OBVIOUS
  <2>1. \A i, j \in DOMAIN latest.transactions :
          latest.transactions[i].nonce = latest.transactions[j].nonce => i = j
    BY DEF ReceiptInv, FinalReceipts, DistinctReceipts
  <2> DEFINE nonces == [i \in DOMAIN latest.transactions |-> latest.transactions[i].nonce]
  <2>2. /\ DOMAIN nonces = DOMAIN latest.transactions
        /\ \A i \in DOMAIN latest.transactions : nonces[i] = latest.transactions[i].nonce
    OBVIOUS
  <2> HIDE DEF nonces
  <2>3. IsInjective(nonces)
    BY <2>1, <2>2 DEF IsInjective
  <2> QED
    BY <2>3 DEF ReceiptsDistinct, nonces
<1> QED
  BY <1>1, ReceiptsInvariant, PTL
=============================================================================
