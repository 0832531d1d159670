------------------------------ MODULE LiveProofs ------------------------------
(***************************************************************************)
(* What the check of the live contracts is for, for every set of           *)
(* contracts, builds, commands and outcomes: as long as the configuration  *)
(* of the tokens cannot be dropped by a reorganization, the canonical      *)
(* manifest says what is on the chain between two operations.  Three       *)
(* facts are inductive together: what a manifest that passed the check     *)
(* says has been live since a final height; while no journal is pending    *)
(* nothing but the calls for the tokens has been sent since; and the       *)
(* manifest of an unfinished journal is live while it waits to be written. *)
(***************************************************************************)
EXTENDS LayoutProofs

-----------------------------------------------------------------------------
\* What the check of the live contracts finds, at any height.

SlotWriters(address, slot, height, transactions, chain) ==
  {n \in DOMAIN chain :
     /\ chain[n].ok /\ n <= height
     /\ \/ slot = "implementation" /\ n = address /\ Creates(transactions[n])
        \/ /\ transactions[n].kind = "call"
           /\ transactions[n].contract = address /\ transactions[n].slot = slot}

ValueAt(address, slot, height, transactions, chain) ==
  LET writers == SlotWriters(address, slot, height, transactions, chain)
  IN  IF writers = {} THEN 0 ELSE transactions[Max(writers)].value

CodeAt(address, height, transactions, chain) ==
  address \in DOMAIN chain /\ chain[address].ok /\ address <= height /\ transactions[address].kind # "call"

EntryLive(m, name, height, transactions, chain) ==
  LET entry == m.contracts[name]
  IN  /\ name # "ValidatorBeacon" => CodeAt(entry.implementation, height, transactions, chain)
      /\ name = "ValidatorBeacon" => entry.implementation = m.contracts["Validator"].implementation
      /\ name \in ProxyNames \cup {"ValidatorBeacon"} =>
           /\ CodeAt(entry.address, height, transactions, chain)
           /\ ValueAt(entry.address, "implementation", height, transactions, chain) = entry.implementation

ContractsLive(m, height, transactions, chain) ==
  /\ Names \ {"SectorEvidenceAdapter"} \subseteq recorded(m)
  /\ \A name \in recorded(m) : EntryLive(m, name, height, transactions, chain)
  /\ ValueAt(m.contracts["PoRepMarket"].address, "evidenceAdapter", height, transactions, chain) = evidenceAdapter(m)

LEMMA SlotValue ==
  ASSUME NEW address, NEW slot, NEW height
  PROVE  valueAt(height, address, slot) = ValueAt(address, slot, height, sent, blocks)
<1>1. {n \in executed : n <= height /\ writes(n, address, slot)} = SlotWriters(address, slot, height, sent, blocks)
  BY DEF executed, writes, SlotWriters, Creates
<1> QED
  BY <1>1 DEF valueAt, ValueAt

LEMMA CodeIs ==
  ASSUME ChainTypeOK, NEW address
  PROVE  hasCode(address) <=> CodeAt(address, Len(sent), sent, blocks)
BY ChainIsChain DEF hasCode, CodeAt, executed

LEMMA NotReplaced == ASSUME NEW name PROVE replacement(name, <<>>) = {}
BY DEF replacement

LEMMA RecordedNames ==
  /\ "ValidatorBeacon" \notin ProxyNames /\ "Validator" \notin ProxyNames
  /\ "Validator" \in Names \ {"SectorEvidenceAdapter"} /\ "ValidatorBeacon" \in Names \ {"SectorEvidenceAdapter"}
<1>1. "ValidatorBeacon" \notin ProxyNames /\ "Validator" \notin ProxyNames
  BY ReleaseAssumption
<1>2. "Validator" \in Names /\ "ValidatorBeacon" \in Names
  BY CoreNames DEF Core
<1> QED
  BY <1>1, <1>2

\* The check without operations, but for the tokens.
LEMMA LiveIs ==
  ASSUME ChainTypeOK, NEW m
  PROVE  verifyLiveDeployment(m, <<>>) <=>
           ContractsLive(m, Len(sent), sent, blocks) /\ (m.tokens => paymentTokenIsConfigured(m))
<1>1. \A name : expectedImplementation(m, name, <<>>)
                  = m.contracts[IF name = "ValidatorBeacon" THEN "Validator" ELSE name].implementation
  BY NotReplaced DEF expectedImplementation
<1>2. ASSUME NEW name \in recorded(m), name # "ValidatorBeacon"
      PROVE  EntryLive(m, name, Len(sent), sent, blocks) <=>
               /\ hasCode(m.contracts[name].implementation)
               /\ name \in ProxyNames =>
                    /\ hasCode(m.contracts[name].address)
                    /\ live(m.contracts[name].address, "implementation") = m.contracts[name].implementation
  BY <1>2, CodeIs, SlotValue DEF EntryLive, live
<1>3. EntryLive(m, "ValidatorBeacon", Len(sent), sent, blocks) <=> verifyBeacon(m, <<>>)
  BY <1>1, CodeIs, SlotValue, NotReplaced, RecordedNames DEF EntryLive, live, verifyBeacon
<1>4. verifyManifestContracts(m, <<>>) <=> \A name \in recorded(m) : EntryLive(m, name, Len(sent), sent, blocks)
  <2>1. ASSUME NEW name \in recorded(m)
        PROVE  EntryLive(m, name, Len(sent), sent, blocks) <=>
                 IF name = "ValidatorBeacon" THEN verifyBeacon(m, <<>>)
                 ELSE LET implementation == expectedImplementation(m, name, <<>>)
                          proxy == m.contracts[name].address
                      IN  /\ hasCode(implementation)
                          /\ name \in ProxyNames =>
                               /\ hasCode(proxy)
                               /\ live(proxy, "implementation") = implementation
    BY <1>1, <1>2, <1>3
  <2> QED
    BY <2>1 DEF verifyManifestContracts
<1> QED
  BY <1>4, SlotValue DEF verifyLiveDeployment, ContractsLive, live

-----------------------------------------------------------------------------
\* It stays what it was: up to a height that is kept, and, beyond it, while
\* nothing is sent but the configuration of payment tokens.

LEMMA ValueKept ==
  ASSUME NEW transactions, NEW others, NEW chain, NEW next, NEW height \in Nat, NEW address, NEW slot,
         IsChain(transactions, chain), IsChain(others, next), Grown(transactions, others),
         SameUpTo(height, chain, next)
  PROVE  ValueAt(address, slot, height, others, next) = ValueAt(address, slot, height, transactions, chain)
<1> DEFINE old == SlotWriters(address, slot, height, transactions, chain)
           new == SlotWriters(address, slot, height, others, next)
<1>1. ASSUME NEW n \in Nat \ {0}, n <= height
      PROVE  n \in DOMAIN chain /\ n \in DOMAIN next /\ next[n] = chain[n]
             /\ n \in DOMAIN transactions /\ others[n] = transactions[n]
  BY <1>1, ChainFields DEF SameUpTo, Grown
<1>2. \A n \in DOMAIN chain \cup DOMAIN next : n \in Nat \ {0}
  BY ChainFields
<1>3. new = old
  BY <1>1, <1>2 DEF SlotWriters
<1>4. old \subseteq 1 .. height
  BY <1>2 DEF SlotWriters
<1>5. CASE old = {}
  BY <1>3, <1>5 DEF ValueAt
<1>6. CASE old # {}
  <2>1. Max(old) \in old
    BY <1>4, <1>6, MaxIsElement
  <2>2. others[Max(old)] = transactions[Max(old)]
    BY <1>1, <1>4, <2>1
  <2> HIDE DEF old, new
  <2> QED
    BY <1>3, <1>6, <2>2 DEF ValueAt, old, new
<1> QED
  BY <1>5, <1>6

LEMMA CodeKept ==
  ASSUME NEW transactions, NEW others, NEW chain, NEW next, NEW height \in Nat, NEW address,
         IsChain(transactions, chain), IsChain(others, next), Grown(transactions, others),
         SameUpTo(height, chain, next), CodeAt(address, height, transactions, chain)
  PROVE  CodeAt(address, height, others, next)
<1>1. address \in 1 .. height /\ address \in DOMAIN transactions
  BY ChainFields DEF CodeAt
<1> QED
  BY <1>1 DEF CodeAt, SameUpTo, Grown

LEMMA LiveKept ==
  ASSUME NEW m, NEW transactions, NEW others, NEW chain, NEW next, NEW height \in Nat,
         IsChain(transactions, chain), IsChain(others, next), Grown(transactions, others),
         SameUpTo(height, chain, next), ContractsLive(m, height, transactions, chain)
  PROVE  ContractsLive(m, height, others, next)
<1>1. ASSUME NEW name \in recorded(m)
      PROVE  EntryLive(m, name, height, others, next)
  <2>1. EntryLive(m, name, height, transactions, chain)
    BY DEF ContractsLive
  <2> QED
    BY <2>1, CodeKept, ValueKept DEF EntryLive
<1> QED
  BY <1>1, ValueKept DEF ContractsLive

TokenCall(item) == item.kind = "call" /\ item.slot = "token" /\ item.value = 1

TokensOnly(low, transactions) == \A n \in low + 1 .. Len(transactions) : TokenCall(transactions[n])

LEMMA ValueOnward ==
  ASSUME NEW transactions, NEW chain, IsChain(transactions, chain), NEW low \in Nat, NEW high \in Nat,
         low <= high, TokensOnly(low, transactions), NEW address, NEW slot, slot # "token"
  PROVE  ValueAt(address, slot, high, transactions, chain) = ValueAt(address, slot, low, transactions, chain)
<1>1. ASSUME NEW n \in DOMAIN chain, ~(n <= low)
      PROVE  ~Creates(transactions[n]) /\ transactions[n].slot # slot
  <2>1. n \in low + 1 .. Len(transactions)
    BY <1>1, ChainFields
  <2> QED
    BY <2>1 DEF TokensOnly, TokenCall, Creates
<1>2. \A n \in DOMAIN chain : n <= low => n <= high
  BY ChainFields
<1>3. SlotWriters(address, slot, high, transactions, chain) = SlotWriters(address, slot, low, transactions, chain)
  BY <1>1, <1>2 DEF SlotWriters
<1> QED
  BY <1>3 DEF ValueAt

LEMMA LiveOnward ==
  ASSUME NEW m, NEW transactions, NEW chain, IsChain(transactions, chain), NEW low \in Nat, NEW high \in Nat,
         low <= high, TokensOnly(low, transactions), ContractsLive(m, low, transactions, chain)
  PROVE  ContractsLive(m, high, transactions, chain)
<1>1. \A address : CodeAt(address, low, transactions, chain) => CodeAt(address, high, transactions, chain)
  BY ChainFields DEF CodeAt
<1>2. \A address : \A slot \in {"implementation", "evidenceAdapter"} :
        ValueAt(address, slot, high, transactions, chain) = ValueAt(address, slot, low, transactions, chain)
  BY ValueOnward
<1>3. ASSUME NEW name \in recorded(m)
      PROVE  EntryLive(m, name, high, transactions, chain)
  <2>1. EntryLive(m, name, low, transactions, chain)
    BY DEF ContractsLive
  <2> QED
    BY <1>1, <1>2, <2>1 DEF EntryLive
<1> QED
  BY <1>2, <1>3 DEF ContractsLive

\* What is live of a manifest depends on its contracts only.
LEMMA LiveOfContracts ==
  ASSUME NEW m, NEW other, other.contracts = m.contracts, NEW height, NEW transactions, NEW chain,
         ContractsLive(m, height, transactions, chain)
  PROVE  ContractsLive(other, height, transactions, chain)
BY DEF ContractsLive, EntryLive, recorded, evidenceAdapter

\* An upgrade is checked before its manifest is rendered: the check of what it
\* started from, with the operations, is that of what it leads to.
LEMMA UpgradedLive ==
  ASSUME ChainTypeOK, NEW m, NEW operations, UpgradeApplies(m.contracts, operations), Once(operations),
         verifyLiveDeployment(m, operations),
         NEW other, other.contracts = applyUpgrades(m.contracts, operations)
  PROVE  ContractsLive(other, Len(sent), sent, blocks)
<1>1. UpgradedTo(other.contracts, m.contracts, operations, Len(operations))
  BY UpgradesApplied
<1>2. /\ \A name \in Names : other.contracts[name] = None <=> m.contracts[name] = None
      /\ \A name \in Names : m.contracts[name] # None => other.contracts[name].address = m.contracts[name].address
      /\ recorded(other) = recorded(m) /\ recorded(m) \subseteq Names
  BY <1>1 DEF UpgradedTo, recorded
<1>3. /\ Names \ {"SectorEvidenceAdapter"} \subseteq recorded(m)
      /\ verifyManifestContracts(m, operations)
      /\ live(m.contracts["PoRepMarket"].address, "evidenceAdapter") = evidenceAdapter(m)
  BY DEF verifyLiveDeployment
<1>4. /\ DOMAIN operations = 1 .. Len(operations)
      /\ \A i \in DOMAIN operations : operations[i].target \in UpgradeTargets
  <2>1. operations \in Seq(UpgradeOperation)
    BY DEF UpgradeApplies
  <2>2. \A item \in UpgradeOperation : item.target \in UpgradeTargets
    BY DEF UpgradeOperation
  <2> QED
    BY <2>1, <2>2
<1>5. ASSUME NEW name \in recorded(m), name # "ValidatorBeacon"
      PROVE  other.contracts[name].implementation = expectedImplementation(m, name, operations)
  <2>1. CASE name \in UpgradeTargets
    <3>1. name \in Upgradeable(m.contracts)
      BY <2>1 DEF Upgradeable, recorded
    <3> QED
      <4>1. LET contracts == applyUpgrades(m.contracts, operations)
            IN  /\ Upgradeable(contracts) = Upgradeable(m.contracts)
                /\ \A place \in Upgradeable(contracts) :
                     /\ ProxyOf(contracts, place) = ProxyOf(m.contracts, place)
                     /\ expectedImplementation(m, place, operations) = contracts[place].implementation
        BY ONLY UpgradeApplies(m.contracts, operations), Once(operations), UpgradedPlaces
      <4> QED
        BY <3>1, <4>1
  <2>2. CASE name \notin UpgradeTargets
    <3>1. \A i \in DOMAIN operations : operations[i].target # name
      BY <1>4, <2>2
    <3>2. other.contracts[name] = m.contracts[name]
      BY <1>1, <1>2, <1>4, <1>5, <3>1 DEF UpgradedTo
    <3>3. replacement(name, operations) = {}
      BY <3>1 DEF replacement
    <3> QED
      BY <1>5, <3>2, <3>3 DEF expectedImplementation
  <2> QED
    BY <2>1, <2>2
<1>6. ASSUME NEW name \in recorded(m), name # "ValidatorBeacon"
      PROVE  EntryLive(other, name, Len(sent), sent, blocks)
  <2>1. /\ hasCode(other.contracts[name].implementation)
        /\ name \in ProxyNames =>
             /\ hasCode(other.contracts[name].address)
             /\ live(other.contracts[name].address, "implementation") = other.contracts[name].implementation
    BY <1>2, <1>3, <1>5, <1>6 DEF verifyManifestContracts, recorded
  <2> QED
    BY <1>6, <2>1, CodeIs, SlotValue DEF EntryLive, live
<1>7. EntryLive(other, "ValidatorBeacon", Len(sent), sent, blocks)
  <2>1. "ValidatorBeacon" \in recorded(m) /\ "Validator" \in recorded(m)
    BY <1>3, RecordedNames
  <2>2. verifyBeacon(m, operations)
    BY <1>3, <2>1 DEF verifyManifestContracts
  <2>3. /\ other.contracts["Validator"].implementation = expectedImplementation(m, "Validator", operations)
        /\ other.contracts["ValidatorBeacon"].address = m.contracts["ValidatorBeacon"].address
    BY <1>2, <1>5, <2>1 DEF recorded
  <2>4. other.contracts["ValidatorBeacon"].implementation = other.contracts["Validator"].implementation
    <3>1. CASE replacement("Validator", operations) = {}
      <4>1. expectedImplementation(m, "Validator", operations) = m.contracts["Validator"].implementation
        BY <3>1 DEF expectedImplementation
      <4> QED
        BY <1>1, <2>2, <3>1, <4>1 DEF verifyBeacon, UpgradedTo
    <3>2. CASE replacement("Validator", operations) # {}
      <4>1. \E i \in 1 .. Len(operations) : operations[i].target = "Validator"
        BY <1>4, <3>2 DEF replacement
      <4> QED
        BY <1>1, <4>1 DEF UpgradedTo
    <3> QED
      BY <3>1, <3>2
  <2>5. /\ hasCode(other.contracts["ValidatorBeacon"].address)
        /\ live(other.contracts["ValidatorBeacon"].address, "implementation")
             = other.contracts["ValidatorBeacon"].implementation
    BY <2>2, <2>3, <2>4 DEF verifyBeacon
  <2> QED
    BY <2>4, <2>5, CodeIs, SlotValue DEF EntryLive, live
<1>8. live(other.contracts["PoRepMarket"].address, "evidenceAdapter") = evidenceAdapter(other)
  <2>1. "PoRepMarket" \in recorded(m)
    <3>1. "PoRepMarket" \in Names \ {"SectorEvidenceAdapter"}
      BY CoreNames DEF Core
    <3> QED
      BY <1>3, <3>1
  <2>2. "DataCapEvidenceAdapter" \in recorded(m)
    <3>1. "DataCapEvidenceAdapter" \in Names \ {"SectorEvidenceAdapter"}
      BY DeploymentAssumption DEF Names, UpgradeTargets
    <3> QED
      BY <1>3, <3>1
  <2>3. /\ other.contracts["PoRepMarket"].address = m.contracts["PoRepMarket"].address
        /\ other.contracts["DataCapEvidenceAdapter"].address = m.contracts["DataCapEvidenceAdapter"].address
    BY <1>2, <2>1, <2>2 DEF recorded
  <2>4. "SectorEvidenceAdapter" \in Names
    BY DeploymentAssumption DEF Names, UpgradeTargets
  <2> QED
    BY <1>2, <1>3, <2>3, <2>4 DEF evidenceAdapter
<1> QED
  BY <1>2, <1>3, <1>6, <1>7, <1>8, SlotValue DEF ContractsLive, live

-----------------------------------------------------------------------------
\* The invariant.  While it is calm, what the manifest says has been live since
\* some final height.  Nothing but the configuration of payment tokens goes
\* without a journal, so nothing else has been sent since.

TokensSafe == MaxReorgs = 0 \/ "tokens" \notin Commands

Standing(h) ==
  /\ h \in 0 .. final
  /\ ContractsLive(latest, h, sent, blocks)
  /\ TokensOnly(h, sent)
  /\ "tokens" \notin Commands => h = Len(sent)
  /\ TokensSafe /\ latest.tokens => paymentTokenIsConfigured(latest)

JournalLive(p) ==
  p.status = "pending" /\ exists(p.resultManifest) =>
    /\ ContractsLive(p.resultManifest, Len(sent), sent, blocks)
    /\ p.resultManifest.tokens => paymentTokenIsConfigured(p.resultManifest)

LiveInv ==
  /\ cmd.kind = "tokens" => "tokens" \in Commands
  /\ Calm /\ exists(latest) => \E h \in Nat : Standing(h)
  /\ \A operation \in Operations : JournalLive(journal[operation])

\* Steps that leave the chain alone.
LEMMA SameLive ==
  ASSUME UNCHANGED chainVars, NEW address, NEW slot
  PROVE  live(address, slot)' = live(address, slot)
<1>1. sent' = sent /\ blocks' = blocks
  BY DEF chainVars
<1>2. ValueAt(address, slot, Len(sent'), sent', blocks') = ValueAt(address, slot, Len(sent), sent, blocks)
  BY <1>1
<1>3. live(address, slot)' = ValueAt(address, slot, Len(sent'), sent', blocks')
  <2>1. {n \in executed : n <= Len(sent) /\ writes(n, address, slot)}'
          = SlotWriters(address, slot, Len(sent'), sent', blocks')
    BY DEF executed, writes, SlotWriters, Creates
  <2> QED
    BY <2>1 DEF live, valueAt, ValueAt
<1> QED
  BY <1>2, <1>3, SlotValue DEF live

\* The manifest is the same as far as its contracts go, and tokens are added to
\* it only if they are configured.
SameContracts ==
  /\ exists(latest)' => exists(latest)
  /\ latest'.contracts = latest.contracts
  /\ latest'.tokens => latest.tokens \/ paymentTokenIsConfigured(latest)

LEMMA StandingKept ==
  ASSUME UNCHANGED chainVars, SameContracts, NEW h, Standing(h)
  PROVE  Standing(h)'
<1>1. ContractsLive(latest', h, sent, blocks)
  BY LiveOfContracts DEF Standing, SameContracts
<1>2. TokensSafe /\ latest'.tokens => paymentTokenIsConfigured(latest)'
  <2>1. PICK address : address = latest'.contracts["SPRegistry"].address
    OBVIOUS
  <2>2. paymentTokenIsConfigured(latest) <=> live(address, "token") = 1
    BY <2>1 DEF paymentTokenIsConfigured, SameContracts
  <2>3. paymentTokenIsConfigured(latest)' <=> live(address, "token")' = 1
    BY <2>1 DEF paymentTokenIsConfigured
  <2> QED
    BY <2>2, <2>3, SameLive DEF Standing, SameContracts
<1> QED
  BY <1>1, <1>2 DEF Standing, chainVars

LEMMA PendingLiveKept ==
  ASSUME UNCHANGED chainVars, NEW p, JournalLive(p)
  PROVE  JournalLive(p)'
<1>1. sent' = sent /\ blocks' = blocks
  BY DEF chainVars
<1>2. paymentTokenIsConfigured(p.resultManifest)' <=> paymentTokenIsConfigured(p.resultManifest)
  <2>1. PICK address : address = p.resultManifest.contracts["SPRegistry"].address
    OBVIOUS
  <2> QED
    BY <2>1, SameLive DEF paymentTokenIsConfigured
<1> QED
  BY <1>1, <1>2 DEF JournalLive

LEMMA JournalLiveKept ==
  ASSUME UNCHANGED <<chainVars, journal>>, NEW operation, JournalLive(journal[operation])
  PROVE  JournalLive(journal[operation])'
<1>1. PICK p : p = journal[operation]
  OBVIOUS
<1>2. JournalLive(p)
  BY <1>1 DEF JournalLive
<1>3. JournalLive(p)'
  BY <1>2, PendingLiveKept
<1>4. journal'[operation] = p
  BY <1>1
<1> QED
  BY <1>3, <1>4 DEF JournalLive

\* A step that leaves the chain and the journals alone, and is calm only if it
\* was before.
LEMMA LiveMoves ==
  ASSUME LiveInv, UNCHANGED <<chainVars, journal>>, SameContracts, Calm' => Calm,
         cmd'.kind = "tokens" => "tokens" \in Commands
  PROVE  LiveInv'
<1>1. Calm' /\ exists(latest)' => \E h \in Nat : Standing(h)'
  BY StandingKept DEF LiveInv, SameContracts
<1>2. \A operation \in Operations : JournalLive(journal[operation])'
  BY JournalLiveKept DEF LiveInv
<1> QED
  BY <1>1, <1>2 DEF LiveInv

\* A journal is written too.
LEMMA LiveJournalMoves ==
  ASSUME LiveInv, UNCHANGED <<chainVars, latest>>, DOMAIN journal = Operations, Calm' => Calm,
         NEW op, NEW p, journal' = [journal EXCEPT ![op] = p], JournalLive(p),
         cmd'.kind = "tokens" => "tokens" \in Commands
  PROVE  LiveInv'
<1>1. SameContracts
  BY DEF SameContracts, exists
<1>2. Calm' /\ exists(latest)' => \E h \in Nat : Standing(h)'
  BY <1>1, StandingKept DEF LiveInv, SameContracts
<1>3. ASSUME NEW operation \in Operations
      PROVE  JournalLive(journal[operation])'
  <2>1. JournalLive(p)'
    BY PendingLiveKept
  <2>2. journal'[operation] = p \/ journal'[operation] = journal[operation]
    OBVIOUS
  <2>3. CASE journal'[operation] = p
    BY <2>1, <2>3 DEF JournalLive
  <2>4. CASE journal'[operation] = journal[operation]
    <3>1. PICK q : q = journal[operation]
      OBVIOUS
    <3>2. JournalLive(q)
      BY <3>1 DEF LiveInv, JournalLive
    <3>3. JournalLive(q)'
      BY <3>2, PendingLiveKept
    <3> QED
      BY <2>4, <3>1, <3>3 DEF JournalLive
  <2> QED
    BY <2>2, <2>3, <2>4
<1> QED
  BY <1>2, <1>3 DEF LiveInv

-----------------------------------------------------------------------------
\* One step after the other.

LEMMA CommandLive ==
  ASSUME LiveInv, UNCHANGED <<chainVars, journal, latest>>, Calm' => Calm,
         cmd'.kind = "tokens" => "tokens" \in Commands
  PROVE  LiveInv'
<1>1. SameContracts
  BY DEF SameContracts, exists
<1> QED
  BY <1>1, LiveMoves

\* A command that was not recorded in a journal is calm as long as it is not at
\* the steps after publication.
LEMMA StepLive ==
  ASSUME IInv, LiveInv,
         \/ startCommand \/ buildContracts \/ retainBuildInfo \/ runForgeScript
         \/ forgeSucceeds \/ forgeFails \/ recordBroadcast
         \/ loadReceipts \/ waitForFilecoinFinality \/ publishBuildInfo \/ pruneBuildInfo
         \/ refuse \/ crash \/ verifySources
  PROVE  LiveInv'
<1>1. IsCommand(cmd)
  BY DEF IInv, Shapes
<1>2. UNCHANGED <<chainVars, journal, latest>>
  BY DEF startCommand, deploy, deployMissing, upgrade, configurePaymentTokens, start, buildContracts, retainBuildInfo,
         runForgeScript, forgeSucceeds, forgeFails, recordBroadcast, loadReceipts, waitForFilecoinFinality,
         publishBuildInfo, pruneBuildInfo, refuse, crash, verifySources, unchangedFiles, unchangedOthers
<1>3. CASE startCommand
  <2>1. noPendingOperation
    BY <1>3 DEF startCommand, deploy, deployMissing, upgrade, configurePaymentTokens, broadcastPreflight
  <2>2. cmd'.kind = "tokens" => "tokens" \in Commands
    BY <1>3 DEF startCommand, deploy, deployMissing, upgrade, configurePaymentTokens, start, NoCommand
  <2>3. Calm
    BY <2>1 DEF Calm
  <2> QED
    BY <1>2, <2>2, <2>3, CommandLive
<1>4. CASE buildContracts \/ retainBuildInfo \/ runForgeScript \/ recordBroadcast \/ loadReceipts
           \/ waitForFilecoinFinality \/ publishBuildInfo \/ pruneBuildInfo \/ forgeSucceeds
  <2>1. /\ cmd'.kind = cmd.kind /\ cmd'.operation = cmd.operation
        /\ \/ cmd'.at \notin {"idle", "forge", "prune", "finish"}
           \/ cmd'.at = "finish" /\ cmd.at = "prune"
    <3>1. CASE buildContracts \/ retainBuildInfo \/ runForgeScript \/ recordBroadcast \/ loadReceipts
      BY <1>1, <3>1 DEF buildContracts, retainBuildInfo, runForgeScript, recordBroadcast, loadReceipts, IsCommand
    <3>2. CASE waitForFilecoinFinality \/ publishBuildInfo \/ pruneBuildInfo \/ forgeSucceeds
      BY <1>1, <3>2 DEF waitForFilecoinFinality, publishBuildInfo, pruneBuildInfo, forgeSucceeds, IsCommand
    <3> QED
      BY <1>4, <3>1, <3>2
  <2>2. Calm' => Calm
    BY <1>2, <2>1 DEF Calm, noPendingOperation, unfinished
  <2> QED
    BY <1>2, <2>1, <2>2, CommandLive DEF LiveInv
<1>5. CASE forgeFails \/ refuse \/ crash \/ verifySources
  <2>1. cmd' = NoCommand \/ (cmd'.at = "record" /\ cmd'.kind = cmd.kind)
    BY <1>1, <1>5 DEF forgeFails, refuse, crash, verifySources, IsCommand
  <2>2. /\ cmd'.at \in {"idle", "record"}
        /\ cmd'.kind = "tokens" => cmd.kind = "tokens"
    BY <2>1 DEF NoCommand
  <2>3. Calm' => Calm
    BY <1>2, <2>2 DEF Calm, noPendingOperation
  <2> QED
    BY <1>2, <2>2, <2>3, CommandLive DEF LiveInv
<1> QED
  BY <1>3, <1>4, <1>5

LEMMA NothingLive == ASSUME NEW p, ~exists(p.resultManifest) PROVE JournalLive(p)
BY DEF JournalLive

LEMMA PendingStartLive == ASSUME IInv, LiveInv, retainPendingStart PROVE LiveInv'
<1>1. /\ cmd.at = "journal" /\ UNCHANGED <<chainVars, latest>> /\ IsCommand(cmd) /\ DOMAIN journal = Operations
      /\ journal' = [journal EXCEPT ![cmd.operation] = cmd.pending] /\ cmd'.kind = cmd.kind
  BY DEF retainPendingStart, unchangedOthers, IInv, Shapes, IsCommand
<1>2. FreshPending /\ noPendingOperation
  BY <1>1 DEF IInv, StartInv
<1>3. Calm /\ JournalLive(cmd.pending)
  BY <1>2, NothingLive DEF FreshPending, Calm
<1> QED
  BY <1>1, <1>3, LiveJournalMoves DEF LiveInv

LEMMA RecordJournalLive == ASSUME IInv, LiveInv, recordJournal PROVE LiveInv'
<1>1. /\ cmd.at = "recordJournal" /\ UNCHANGED <<chainVars, latest>> /\ IsCommand(cmd) /\ DOMAIN journal = Operations
      /\ journal' = [journal EXCEPT ![cmd.operation] = recordedPending]
      /\ cmd'.kind # "tokens" /\ cmd'.at \in {"idle", "finalize"}
  BY DEF recordJournal, unchangedOthers, IInv, Shapes, NoCommand
<1>2. cmd.kind # "tokens"
  BY <1>1 DEF IInv, TokensInv
<1>3. FreshPending /\ KindMatches /\ IsPending(cmd.pending)
  BY <1>1, <1>2 DEF IInv, StartInv, Sending, IsCommand
<1>4. recordedPending.status = "pending" /\ recordedPending.resultManifest = cmd.pending.resultManifest
  BY <1>3 DEF recordedPending, IsPending, FreshPending
<1>5. JournalLive(recordedPending)
  BY <1>3, <1>4, NothingLive DEF FreshPending
<1>6. ~Calm'
  <2>1. journal'[cmd.operation] = recordedPending /\ cmd.operation \in Operations
    BY <1>1, <1>3 DEF KindMatches, Operations
  <2> QED
    BY <1>1, <1>4, <2>1 DEF Calm, noPendingOperation
<1> QED
  BY <1>1, <1>5, <1>6, LiveJournalMoves

\* Where the canonical manifest is the one that was checked, all is live.
LEMMA PublishedLive ==
  ASSUME TypeInv, LayoutInv, LiveInv, NEW operation \in Operations, unfinished(operation),
         exists(journal[operation].resultManifest), latest' = journal[operation].resultManifest,
         UNCHANGED <<chainVars, journal>>, cmd'.kind # "tokens"
  PROVE  LiveInv'
<1>1. /\ Len(sent) \in Nat /\ sent' = sent /\ blocks' = blocks /\ final' = final
  BY ChainIsChain DEF TypeInv, chainVars
<1>2. PICK m : m = journal[operation].resultManifest
  OBVIOUS
<1>3. final = Len(sent)
  BY DEF LayoutInv, JournalTells, unfinished
<1>4. /\ ContractsLive(m, Len(sent), sent, blocks)
      /\ m.tokens => paymentTokenIsConfigured(m)
  BY <1>2 DEF LiveInv, JournalLive, unfinished
<1>5. latest' = m
  BY <1>2
<1>6. m.tokens => paymentTokenIsConfigured(latest)'
  <2>1. PICK address : address = m.contracts["SPRegistry"].address
    OBVIOUS
  <2> QED
    BY <1>4, <1>5, <2>1, SameLive DEF paymentTokenIsConfigured
<1>7. TokensOnly(Len(sent), sent)
  BY <1>1 DEF TokensOnly
<1>8. Standing(Len(sent))'
  BY <1>1, <1>3, <1>4, <1>5, <1>6, <1>7 DEF Standing
<1>9. \A op \in Operations : JournalLive(journal[op])'
  BY JournalLiveKept DEF LiveInv
<1> QED
  BY <1>1, <1>8, <1>9 DEF LiveInv

LEMMA FinalizeLive ==
  ASSUME TypeInv, LayoutInv, LiveInv, NEW operation \in Operations, finalize(operation)
  PROVE  LiveInv'
<1>1. UNCHANGED <<chainVars, latest, journal>>
  BY DEF finalize, unchangedFiles, unchangedOthers
<1>2. CASE finalizePublished(operation)
  <2>1. /\ exists(latest) /\ journal[operation].resultManifest = latest
        /\ cmd'.at = "finish" /\ cmd'.kind = "finalize" /\ cmd'.operation = operation
    BY <1>2 DEF finalizePublished, finalizeAs, classifyCanonicalState, NoCommand
  <2>2. CASE unfinished(operation)
    BY <1>1, <2>1, <2>2, PublishedLive
  <2>3. CASE ~unfinished(operation)
    <3>1. Calm' => Calm
      BY <1>1, <2>1, <2>3 DEF Calm, noPendingOperation, unfinished
    <3> QED
      BY <1>1, <2>1, <3>1, CommandLive
  <2> QED
    BY <2>2, <2>3
<1>3. CASE finalizeSource(operation)
  <2>1. cmd'.at = "receipts" /\ cmd'.kind = "finalize"
    BY <1>3 DEF finalizeSource, finalizeAs, NoCommand
  <2>2. Calm' => Calm
    BY <1>1, <2>1 DEF Calm, noPendingOperation
  <2> QED
    BY <1>1, <2>1, <2>2, CommandLive
<1> QED
  BY <1>2, <1>3 DEF finalize

LEMMA PublishLive == ASSUME IInv, TypeInv, LayoutInv, LiveInv, publishManifest PROVE LiveInv'
<1>1. /\ cmd.at = "latest" /\ latest' = cmd.pending.resultManifest /\ cmd'.kind = cmd.kind
      /\ UNCHANGED <<chainVars, journal>>
  BY DEF publishManifest, unchangedOthers, IInv, Shapes, IsCommand
<1>2. Underway /\ exists(cmd.pending.resultManifest)
  BY <1>1 DEF IInv, FinalizeInv
<1> QED
  BY <1>1, <1>2, PublishedLive DEF Underway

LEMMA FinishLive == ASSUME IInv, LiveInv, finishPending PROVE LiveInv'
<1> DEFINE p == [cmd.pending EXCEPT !.status = "finalized"]
<1>1. /\ cmd.at = "finish" /\ UNCHANGED <<chainVars, latest>> /\ IsCommand(cmd) /\ DOMAIN journal = Operations
      /\ journal' = [journal EXCEPT ![cmd.operation] = p]
      /\ cmd'.at \in {"prune", "verify"} /\ cmd'.kind = cmd.kind /\ cmd'.operation = cmd.operation
  BY DEF finishPending, unchangedOthers, IInv, Shapes, IsCommand
<1>2. cmd.operation \in Operations /\ p.status = "finalized"
  BY <1>1 DEF IInv, FinalizeInv, IsCommand, IsPending
<1> HIDE DEF p
<1>3. JournalLive(p)
  BY <1>2 DEF JournalLive
<1>4. Calm' => Calm
  <2>1. journal'[cmd.operation].status = "finalized"
        /\ \A operation \in Operations \ {cmd.operation} : journal'[operation] = journal[operation]
    BY <1>1, <1>2
  <2> QED
    BY <1>1, <2>1 DEF Calm, noPendingOperation, unfinished
<1> QED
  BY <1>1, <1>3, <1>4, LiveJournalMoves DEF LiveInv

LEMMA TokensLive == ASSUME IInv, LiveInv, updatePaymentTokens PROVE LiveInv'
<1>1. UNCHANGED <<chainVars, journal>> /\ cmd'.at = "idle" /\ cmd'.kind = "none" /\ cmd.at = "tokens"
  BY DEF updatePaymentTokens, unchangedOthers, NoCommand
<1>2. exists(latest) /\ latest.contracts = cmd.source.contracts
  BY <1>1 DEF IInv, TokensInv, FinalizeInv
<1>3. paymentTokenIsConfigured(latest)
  BY <1>2 DEF updatePaymentTokens, paymentTokenIsConfigured
<1>4. SameContracts
  BY <1>2, <1>3, TokensPublished DEF SameContracts
<1>5. Calm' => Calm
  BY <1>1 DEF Calm, noPendingOperation
<1> QED
  BY <1>1, <1>4, <1>5, LiveMoves

LEMMA PeopleLive == ASSUME IInv, LiveInv, people \/ UNCHANGED vars PROVE LiveInv'
<1>1. UNCHANGED <<chainVars, journal, cmd>>
  BY DEF people, editSources, commitSources, commitManifest, editManifest, unchangedFiles, vars
<1>2. SameContracts
  <2>1. CASE editManifest
    <3>1. latest'.tokens = latest.tokens
      BY <2>1 DEF editManifest, IInv, Shapes, IsManifest
    <3> QED
      BY <2>1, <3>1, EditedManifest DEF SameContracts
  <2>2. CASE latest' = latest
    BY <2>2 DEF SameContracts, exists
  <2> QED
    BY <2>1, <2>2 DEF people, editSources, commitSources, commitManifest, unchangedFiles, vars
<1>3. Calm' => Calm
  BY <1>1 DEF Calm, noPendingOperation, unfinished
<1> QED
  BY <1>1, <1>2, <1>3, LiveMoves DEF LiveInv

-----------------------------------------------------------------------------
\* The chain moves.

\* A configured token stays configured when nothing but token calls follow.
LEMMA TokensStay ==
  ASSUME NEW transactions, NEW others, NEW chain, NEW next,
         IsChain(transactions, chain), IsChain(others, next), Grown(transactions, others),
         SameUpTo(Len(chain), chain, next),
         \A n \in DOMAIN next : n > Len(chain) => TokenCall(others[n]),
         NEW address, ValueAt(address, "token", Len(transactions), transactions, chain) = 1
  PROVE  ValueAt(address, "token", Len(others), others, next) = 1
<1> DEFINE old == SlotWriters(address, "token", Len(transactions), transactions, chain)
           new == SlotWriters(address, "token", Len(others), others, next)
<1>1. /\ Len(chain) \in Nat /\ Len(next) \in Nat /\ DOMAIN chain = 1 .. Len(chain) /\ DOMAIN next = 1 .. Len(next)
      /\ Len(transactions) \in Nat /\ Len(others) \in Nat
      /\ Len(chain) <= Len(transactions) /\ Len(next) <= Len(others)
      /\ DOMAIN chain \subseteq DOMAIN transactions
  BY ChainFields
<1>2. old # {}
  BY DEF ValueAt
<1>3. transactions[Max(old)].value = 1
  BY <1>2 DEF ValueAt
<1>4. old \subseteq 1 .. Len(chain) /\ new \subseteq 1 .. Len(next)
  BY <1>1 DEF SlotWriters
<1>5. ASSUME NEW n \in DOMAIN chain
      PROVE  n \in DOMAIN next /\ next[n] = chain[n] /\ others[n] = transactions[n]
  BY <1>1, <1>5 DEF SameUpTo, Grown
<1>6. \A n \in DOMAIN chain : n \in old <=> n \in new
  BY <1>1, <1>5 DEF SlotWriters
<1>7. old \subseteq new
  BY <1>1, <1>4, <1>6
<1>8. Max(new) \in new
  BY <1>1, <1>2, <1>4, <1>7, MaxIsElement
<1>9. Max(old) \in old
  BY <1>1, <1>2, <1>4, MaxIsElement
<1>10. others[Max(new)].value = 1
  <2>1. CASE Max(new) \in DOMAIN chain
    <3>1. Max(new) \in old
      BY <1>6, <1>8, <2>1
    <3>2. Max(old) >= Max(new)
      BY <1>1, <1>2, <1>4, <3>1, MaxIsElement
    <3>3. Max(new) >= Max(old)
      BY <1>1, <1>2, <1>4, <1>7, <1>9, MaxIsElement
    <3>4. Max(new) \in Nat /\ Max(old) \in Nat
      BY <1>4, <1>8, <1>9
    <3> HIDE DEF old, new
    <3>5. Max(new) = Max(old)
      BY <3>2, <3>3, <3>4
    <3> QED
      BY <1>3, <1>5, <2>1, <3>5
  <2>2. CASE Max(new) \notin DOMAIN chain
    BY <1>1, <1>4, <1>8, <2>2 DEF TokenCall
  <2> QED
    BY <2>1, <2>2
<1> HIDE DEF old, new
<1> QED
  BY <1>8, <1>10 DEF ValueAt, new

LEMMA LiveNext ==
  ASSUME NEW address, NEW slot
  PROVE  /\ live(address, slot) = ValueAt(address, slot, Len(sent), sent, blocks)
         /\ live(address, slot)' = ValueAt(address, slot, Len(sent'), sent', blocks')
<1>1. {n \in executed : n <= Len(sent) /\ writes(n, address, slot)}'
        = SlotWriters(address, slot, Len(sent'), sent', blocks')
  BY DEF executed, writes, SlotWriters, Creates
<1> QED
  BY <1>1, SlotValue DEF live, valueAt, ValueAt

LEMMA TokensStayConfigured ==
  ASSUME IsChain(sent, blocks), IsChain(sent', blocks'), Grown(sent, sent'), SameUpTo(Len(blocks), blocks, blocks'),
         \A n \in DOMAIN blocks' : n > Len(blocks) => TokenCall(sent'[n]),
         latest' = latest, paymentTokenIsConfigured(latest)
  PROVE  paymentTokenIsConfigured(latest)'
<1>1. PICK address : address = latest.contracts["SPRegistry"].address
  OBVIOUS
<1>2. ValueAt(address, "token", Len(sent), sent, blocks) = 1
  BY <1>1, LiveNext DEF paymentTokenIsConfigured
<1>3. ValueAt(address, "token", Len(sent'), sent', blocks') = 1
  BY <1>2, TokensStay
<1> QED
  BY <1>1, <1>3, LiveNext DEF paymentTokenIsConfigured

LEMMA NothingCheckedYet ==
  ASSUME IInv, cmd.at \in Sending, NEW operation \in Operations
  PROVE  journal[operation].status # "pending" \/ ~exists(journal[operation].resultManifest)
<1>1. CASE cmd.kind = "tokens"
  BY <1>1 DEF IInv, TokensInv, noPendingOperation
<1>2. CASE cmd.kind # "tokens"
  <2>1. KindMatches /\ FreshPending /\ journal[cmd.operation] = cmd.pending
    BY <1>2 DEF IInv, StartInv
  <2>2. CASE operation = cmd.operation
    BY <2>1, <2>2 DEF FreshPending
  <2>3. CASE operation # cmd.operation
    BY <2>1, <2>3 DEF IInv, JournalInv, OneUnfinished, unfinished, KindMatches, FreshPending, Operations
  <2> QED
    BY <2>2, <2>3
<1> QED
  BY <1>1, <1>2

LEMMA BroadcastLive ==
  ASSUME IInv, TypeInv, TypeInv', LayoutInv, LiveInv, broadcast
  PROVE  LiveInv'
<1> DEFINE item == cmd.script[sentByScript + 1]
<1>1. /\ cmd.at = "broadcast" /\ sentByScript \in 0 .. Len(cmd.script) - 1
      /\ Len(blocks) = Len(sent) /\ sent' = Append(sent, item) /\ final' = final
      /\ UNCHANGED <<tree, latest, journal, cmd>>
  BY DEF broadcast, SendAndMine, unchangedFiles, sourceVars
<1>2. PICK block : blocks' = Append(blocks, block)
  BY DEF broadcast, SendAndMine
<1>3. /\ IsChain(sent, blocks) /\ IsChain(sent', blocks') /\ final \in Nat /\ Len(sent) \in Nat
      /\ final <= Len(blocks) /\ DOMAIN sent = 1 .. Len(sent) /\ DOMAIN blocks = 1 .. Len(blocks)
  <2>1. IsChain(sent', blocks')
    BY DEF TypeInv, ChainTypeOK, IsChain
  <2> QED
    BY <2>1, ChainIsChain DEF TypeInv, IsChain
<1>4. cmd.script = ScriptOf(cmd)
  BY <1>1 DEF LayoutInv, CommandTells
<1> HIDE DEF item
<1>5. /\ Len(sent') = Len(sent) + 1 /\ sent'[Len(sent) + 1] = item /\ \A n \in 1 .. Len(sent) : sent'[n] = sent[n]
      /\ Grown(sent, sent') /\ DOMAIN sent' = 1 .. Len(sent) + 1
  BY <1>1, <1>3 DEF IsChain, Grown
<1>6. SameUpTo(Len(blocks), blocks, blocks') /\ DOMAIN blocks' = 1 .. Len(sent) + 1
  BY <1>1, <1>2, <1>3 DEF IsChain, SameUpTo
<1>7. \A operation \in Operations : JournalLive(journal[operation])'
  BY <1>1, NothingCheckedYet DEF Sending, JournalLive, exists
<1>8. ASSUME Calm', exists(latest)'
      PROVE  \E h \in Nat : Standing(h)'
  <2>1. Calm /\ exists(latest) /\ noPendingOperation
    BY <1>1, <1>8 DEF Calm, noPendingOperation, unfinished, exists
  <2>2. cmd.kind = "tokens"
    BY <1>1, <2>1 DEF IInv, StartInv, Sending, KindMatches, FreshPending, noPendingOperation, Operations
  <2>3. TokenCall(item)
    <3>1. cmd.script = <<Call(cmd.source.contracts["SPRegistry"].address, "token", 1)>>
      BY <1>4, <2>2 DEF ScriptOf, TokenScript
    <3>2. sentByScript + 1 = 1
      BY <1>1, <3>1
    <3> QED
      BY <3>1, <3>2 DEF TokenCall, Call, item
  <2>4. PICK h \in Nat : Standing(h)
    BY <2>1 DEF LiveInv
  <2>5. h \in Nat /\ h <= Len(blocks) /\ "tokens" \in Commands
    <3>1. h \in 0 .. final
      BY <2>4 DEF Standing
    <3>2. "tokens" \in Commands
      BY <2>2 DEF LiveInv
    <3> QED
      BY <1>3, <3>1, <3>2
  <2>6. ContractsLive(latest, h, sent', blocks')
    <3>1. SameUpTo(h, blocks, blocks')
      BY <1>3, <1>6, <2>5 DEF SameUpTo
    <3> QED
      BY <1>3, <1>5, <2>4, <3>1, LiveKept DEF Standing
  <2>7. TokensOnly(h, sent')
    <3>1. ASSUME NEW n \in h + 1 .. Len(sent')
          PROVE  TokenCall(sent'[n])
      <4>1. n = Len(sent) + 1 \/ (n \in h + 1 .. Len(sent) /\ n \in 1 .. Len(sent))
        BY <1>3, <1>5
      <4> QED
        BY <1>5, <2>3, <2>4, <4>1 DEF Standing, TokensOnly
    <3> QED
      BY <3>1 DEF TokensOnly
  <2>8. TokensSafe /\ latest.tokens => paymentTokenIsConfigured(latest)'
    <3>1. \A n \in DOMAIN blocks' : n > Len(blocks) => TokenCall(sent'[n])
      BY <1>1, <1>3, <1>5, <1>6, <2>3
    <3> QED
      BY <1>1, <1>3, <1>5, <1>6, <2>4, <3>1, TokensStayConfigured DEF Standing
  <2>9. Standing(h)'
    BY <1>1, <2>4, <2>5, <2>6, <2>7, <2>8 DEF Standing
  <2> QED
    BY <2>9
<1> QED
  BY <1>1, <1>7, <1>8 DEF LiveInv

LEMMA ChainAloneLive ==
  ASSUME TypeInv, TypeInv', LayoutInv, LiveInv, chainAlone
  PROVE  LiveInv'
<1>1. /\ sent' = sent /\ final <= final' /\ final # Len(sent) /\ SameUpTo(final, blocks, blocks')
      /\ UNCHANGED <<latest, journal, cmd>>
  BY MovesAboveFinal DEF TypeInv, chainAlone, unchangedFiles
<1>2. /\ IsChain(sent, blocks) /\ IsChain(sent', blocks') /\ final \in Nat /\ final' \in Nat
      /\ final <= Len(blocks) /\ Len(blocks) \in Nat /\ Len(blocks) <= Len(sent) /\ Len(sent) \in Nat
      /\ DOMAIN sent = 1 .. Len(sent) /\ Grown(sent, sent') /\ reorgs \in 0 .. MaxReorgs
  <2>1. IsChain(sent', blocks') /\ final' \in Nat
    BY DEF TypeInv, ChainTypeOK, IsChain
  <2> QED
    BY <1>1, <2>1, ChainIsChain DEF TypeInv, ChainTypeOK, Grown
<1>3. /\ final \in Nat /\ final' \in Nat /\ final <= final' /\ final < Len(sent) /\ Len(sent) \in Nat
      /\ final <= Len(blocks) /\ Len(blocks) \in Nat
  <2>1. final <= final' /\ final # Len(sent)
    BY <1>1
  <2>2. final \in Nat /\ final' \in Nat /\ final <= Len(blocks) /\ Len(blocks) \in Nat /\ Len(blocks) <= Len(sent) /\ Len(sent) \in Nat
    BY <1>2
  <2> QED
    BY <2>1, <2>2
<1>4. \A operation \in Operations : JournalLive(journal[operation])'
  BY <1>1 DEF LayoutInv, JournalTells, JournalLive, exists
<1>5. ASSUME Calm', exists(latest)'
      PROVE  \E h \in Nat : Standing(h)'
  <2>1. Calm /\ exists(latest)
    BY <1>1, <1>5 DEF Calm, noPendingOperation, unfinished, exists
  <2>2. PICK h \in Nat : Standing(h)
    BY <2>1 DEF LiveInv
  <2>3. h \in Nat /\ h <= final
    BY <2>2 DEF Standing
  <2>4. "tokens" \in Commands
    <3>1. h # Len(sent)
      BY <1>3, <2>3
    <3> QED
      BY <2>2, <3>1 DEF Standing
  <2>5. ContractsLive(latest, h, sent', blocks')
    <3>1. SameUpTo(h, blocks, blocks')
      <4>1. 1 .. h \subseteq 1 .. final
        BY <1>3, <2>3
      <4> QED
        BY <1>1, <4>1 DEF SameUpTo
    <3> QED
      BY <1>2, <2>2, <3>1, LiveKept DEF Standing
  <2>6. ASSUME TokensSafe, latest.tokens
        PROVE  paymentTokenIsConfigured(latest)'
    <3>1. ~Reorganize
      BY <1>2, <2>4, <2>6 DEF TokensSafe, Reorganize
    <3>2. SameUpTo(Len(blocks), blocks, blocks') /\ \A n \in DOMAIN blocks' : n > Len(blocks) => n = Len(blocks) + 1
      <4>1. CASE MineAgain
        <5>1. PICK block : blocks' = Append(blocks, block)
          BY <4>1 DEF MineAgain
        <5> QED
          BY <1>2, <5>1 DEF IsChain, SameUpTo
      <4>2. CASE FinalizeHeight
        BY <1>2, <4>2 DEF FinalizeHeight, IsChain, SameUpTo
      <4> QED
        BY <3>1, <4>1, <4>2 DEF chainAlone
    <3>3. \A n \in DOMAIN blocks' : n > Len(blocks) => TokenCall(sent'[n])
      <4>1. ASSUME NEW n \in DOMAIN blocks', n > Len(blocks)
            PROVE  TokenCall(sent'[n])
        <5>1. n \in DOMAIN sent' /\ n = Len(blocks) + 1
          BY <1>2, <3>2, <4>1, ChainFields
        <5>2. n \in h + 1 .. Len(sent)
          <6>1. n \in 1 .. Len(sent)
            BY <1>1, <1>2, <5>1
          <6> QED
            BY <1>3, <2>3, <5>1, <6>1
        <5> QED
          BY <1>1, <2>2, <5>2 DEF Standing, TokensOnly
      <4> QED
        BY <4>1
    <3> QED
      BY <1>1, <1>2, <2>2, <2>6, <3>2, <3>3, TokensStayConfigured DEF Standing
  <2>7. h \in 0 .. final'
    BY <1>3, <2>3
  <2>8. Standing(h)'
    BY <1>1, <2>2, <2>4, <2>5, <2>6, <2>7 DEF Standing
  <2> QED
    BY <2>8
<1> QED
  BY <1>1, <1>4, <1>5 DEF LiveInv

\* What is checked and then written to the journal is live.
LEMMA CheckedLive ==
  ASSUME IInv, TypeInv, LayoutInv, cmd.at = "live", liveMatches
  PROVE  /\ ContractsLive(publishedManifest, Len(sent), sent, blocks)
         /\ publishedManifest.tokens => paymentTokenIsConfigured(publishedManifest)
<1>1. ChainTypeOK /\ Underway
  BY CheckingKnows
<1>2. CASE cmd.operation = "upgrade"
  <2>1. PICK source : source = cmd.source
    OBVIOUS
  <2>2. PICK m : m = publishedManifest
    OBVIOUS
  <2>3. PICK operations : operations = cmd.pending.operations
    OBVIOUS
  <2>4. /\ UpgradeApplies(source.contracts, operations) /\ Once(operations)
        /\ m.contracts = applyUpgrades(source.contracts, operations)
        /\ verifyLiveDeployment(source, operations)
    BY <1>2, <2>1, <2>2, <2>3, UpgradeUnderway DEF liveMatches
  <2>5. ContractsLive(m, Len(sent), sent, blocks)
    BY <1>1, <2>4, UpgradedLive
  <2>6. m.tokens = source.tokens /\ (source.tokens => "SPRegistry" \in Names)
    <3>1. source \in Manifest /\ IsTyped(source)
      BY <2>1 DEF TypeInv, CommandTyped, IsTyped
    <3>2. exists(source)
      BY <1>2, <2>1, UpgradeUnderway
    <3>3. m.tokens = source.tokens
      BY <1>2, <2>1, <2>2, <3>1 DEF publishedManifest, renderUpgradedManifest, Manifest
    <3> QED
      BY <3>1, <3>2, <3>3 DEF IsTyped, Complete
  <2>7. ASSUME m.tokens
        PROVE  paymentTokenIsConfigured(m)
    <3>1. "SPRegistry" \in recorded(source)
      <4>1. "SPRegistry" \in Names \ {"SectorEvidenceAdapter"}
        BY <2>6, <2>7
      <4> QED
        BY <2>4, <4>1 DEF verifyLiveDeployment
    <3>2. UpgradedTo(m.contracts, source.contracts, operations, Len(operations))
      BY <2>4, UpgradesApplied
    <3>3. m.contracts["SPRegistry"].address = source.contracts["SPRegistry"].address
      BY <3>1, <3>2 DEF UpgradedTo, recorded
    <3> QED
      BY <2>4, <2>6, <2>7, <3>3 DEF verifyLiveDeployment, paymentTokenIsConfigured
  <2> QED
    BY <2>2, <2>5, <2>7
<1>3. CASE cmd.operation # "upgrade"
  <2>1. PICK m : m = publishedManifest
    OBVIOUS
  <2>2. verifyLiveDeployment(m, <<>>)
    BY <1>3, <2>1 DEF liveMatches
  <2> QED
    BY <1>1, <2>1, <2>2, LiveIs
<1> QED
  BY <1>2, <1>3

LEMMA CheckLiveLive == ASSUME IInv, TypeInv, LayoutInv, LiveInv, checkLive PROVE LiveInv'
<1>1. /\ cmd.at = "live" /\ liveMatches /\ UNCHANGED <<chainVars, latest>> /\ IsCommand(cmd) /\ Shapes
      /\ journal' = [journal EXCEPT ![cmd.operation] = CheckedPending]
      /\ cmd' = [cmd EXCEPT !.at = "retain", !.source = NoManifest, !.receipts = <<>>, !.pending = CheckedPending]
  BY DEF checkLive, CheckedPending, unchangedOthers, IInv, Shapes
<1>2. /\ Underway /\ CheckedPending.resultManifest = publishedManifest /\ CheckedPending.status = "pending"
      /\ cmd'.at = "retain" /\ cmd'.kind = "finalize"
  BY <1>1, CheckingKnows, CheckedPendingFields DEF IsCommand, Underway
<1>3. JournalLive(CheckedPending)
  BY <1>1, <1>2, CheckedLive DEF JournalLive
<1>4. ~Calm'
  <2>1. journal'[cmd.operation].status = "pending" /\ cmd.operation \in Operations
    BY <1>1, <1>2 DEF Shapes, Underway
  <2> QED
    BY <1>2, <2>1 DEF Calm, noPendingOperation
<1>5. DOMAIN journal = Operations
  BY <1>1 DEF Shapes
<1> QED
  BY <1>1, <1>2, <1>3, <1>4, <1>5, LiveJournalMoves

-----------------------------------------------------------------------------
\* The beginning: a deployment that is all on the chain is live.

LEMMA CreatedValue ==
  ASSUME NEW transactions, NEW chain, IsChain(transactions, chain), NEW height \in Nat,
         NEW address \in DOMAIN chain, chain[address].ok, address <= height, Creates(transactions[address]),
         \A n \in DOMAIN chain : ~IsUpgrade(transactions[n])
  PROVE  ValueAt(address, "implementation", height, transactions, chain) = transactions[address].value
<1>1. SlotWriters(address, "implementation", height, transactions, chain) = Writers(transactions, chain, height, address)
  BY DEF SlotWriters, Writers, IsUpgrade
<1>2. ImplementationAt(transactions, chain, height, address) = transactions[address].value
  BY CreatedImplementation
<1> QED
  BY <1>1, <1>2 DEF ValueAt, ImplementationAt

LEMMA DeployedLive ==
  ASSUME NEW proxies, NEW helpers, Deployable(proxies, helpers), NEW build \in Builds,
         ProxyNames \ {"SectorEvidenceAdapter"} \subseteq Range(proxies), HelperNames \subseteq Range(helpers),
         NEW script, DeploysFrom(0, proxies, build, script), DeployEnds(0, proxies, helpers, FALSE, build, script),
         NEW chain, IsChain(script, chain), Len(chain) = Len(script), \A n \in DOMAIN chain : chain[n].ok,
         NEW m, m.contracts = DeployedOf(proxies, helpers, 0)
  PROVE  ContractsLive(m, Len(script), script, chain)
<1> DEFINE deployed == DeployedContracts(proxies, helpers, 0)
           link == 2 * Len(proxies) + 3
           here(name) == EntryLive(m, name, Len(script), script, chain)
<1>1. /\ Len(script) \in Nat /\ DOMAIN script = 1 .. Len(script) /\ DOMAIN chain = 1 .. Len(script)
      /\ Len(proxies) \in Nat /\ DOMAIN proxies = 1 .. Len(proxies) /\ link <= Len(script)
      /\ Len(helpers) \in Nat /\ DOMAIN helpers = 1 .. Len(helpers)
      /\ link \in Nat /\ Len(script) = link + Len(helpers)
      /\ \A n \in DOMAIN chain : ~IsUpgrade(script[n])
  BY ChainFields DEF DeploysFrom, DeployEnds, Deployable, Silent
<1>2. /\ DOMAIN deployed = Range(proxies) \cup Range(helpers) \cup {"Validator", "ValidatorBeacon"}
      /\ DOMAIN deployed \subseteq Names
      /\ Range(proxies) \subseteq ProxyNames /\ Range(helpers) \subseteq HelperNames
      /\ \A name \in DOMAIN deployed : deployed[name] # None
  <2>1. ArrangedFrom(0, proxies, helpers, deployed)
    BY Deployed
  <2>2. DOMAIN deployed \subseteq Names /\ \A name \in DOMAIN deployed : deployed[name] # None
    BY DeployedTyped
  <2> HIDE DEF deployed
  <2> QED
    BY <2>1, <2>2 DEF ArrangedFrom, Deployable, Range
<1>3. /\ deployed["Validator"] = StandardEntry(0, 1)
      /\ deployed["ValidatorBeacon"] = StandardEntry(2, 1)
      /\ \A name \in Range(helpers) :
           \E i \in DOMAIN helpers : helpers[i] = name /\ deployed[name] = StandardEntry(0, link + i)
      /\ \A name \in Range(proxies) :
           \E i \in DOMAIN proxies : proxies[i] = name /\ deployed[name] = StandardEntry(2 * i + 2, 2 * i + 1)
  <2>1. ArrangedFrom(0, proxies, helpers, deployed)
    BY Deployed
  <2>2. 0 + 1 = 1 /\ (0 + 1) + 1 = 2 /\ 0 + 2 * Len(proxies) + 3 = link
    BY <1>1
  <2>3. \A i \in DOMAIN proxies : 0 + 2 * i + 2 = 2 * i + 2 /\ (0 + 2 * i + 2) - 1 = 2 * i + 1
    BY <1>1
  <2> HIDE DEF deployed, link
  <2> QED
    BY <2>1, <2>2, <2>3 DEF ArrangedFrom
<1>4. /\ recorded(m) = DOMAIN deployed
      /\ \A name \in DOMAIN deployed : m.contracts[name] = deployed[name]
  <2>1. \A name \in Names : m.contracts[name] = IF name \in DOMAIN deployed THEN deployed[name] ELSE None
    BY DEF DeployedOf
  <2> HIDE DEF deployed
  <2> QED
    BY <1>2, <2>1 DEF recorded
<1>5. /\ script[1] = Code("Validator", build) /\ script[2] = Beacon(1)
      /\ \A i \in 1 .. Len(proxies) :
           script[2 * i + 1] = Code(proxies[i], build) /\ script[2 * i + 2] = Proxy(2 * i + 1)
      /\ \A i \in 1 .. Len(helpers) : script[link + i] = Code(helpers[i], build)
  <2>1. \A i \in 1 .. Len(proxies) : 0 + 2 * i + 1 = 2 * i + 1
    BY <1>1
  <2>2. 0 + 1 = 1
    OBVIOUS
  <2> QED
    BY <2>1, <2>2 DEF DeploysFrom, DeployEnds
<1> HIDE DEF deployed, link
<1>6. ASSUME NEW n \in 1 .. Len(script), script[n].kind # "call"
      PROVE  CodeAt(n, Len(script), script, chain)
  BY <1>1, <1>6 DEF CodeAt
<1>7. ASSUME NEW n \in 1 .. Len(script), NEW code, script[n] = Proxy(code) \/ script[n] = Beacon(code)
      PROVE  /\ CodeAt(n, Len(script), script, chain)
             /\ ValueAt(n, "implementation", Len(script), script, chain) = code
  <2>1. Creates(script[n]) /\ script[n].value = code /\ script[n].kind # "call"
    BY <1>7 DEF Creates, Proxy, Beacon
  <2> QED
    BY <1>1, <1>6, <2>1, CreatedValue
<1>8. \A name : \A n : script[n] = Code(name, build) => script[n].kind # "call"
  BY DEF Code
<1>9. \A a, b : StandardEntry(a, b).address = a /\ StandardEntry(a, b).implementation = b
  BY DEF StandardEntry
<1>10. here("Validator") /\ here("ValidatorBeacon")
  <2>1. 1 \in 1 .. Len(script) /\ 2 \in 1 .. Len(script)
    BY <1>1 DEF link
  <2>2. /\ m.contracts["Validator"].implementation = 1
        /\ m.contracts["ValidatorBeacon"].address = 2
        /\ m.contracts["ValidatorBeacon"].implementation = 1
    BY <1>2, <1>3, <1>4, <1>9
  <2>3. /\ CodeAt(1, Len(script), script, chain) /\ CodeAt(2, Len(script), script, chain)
        /\ ValueAt(2, "implementation", Len(script), script, chain) = 1
    BY <1>5, <1>6, <1>7, <1>8, <2>1
  <2> QED
    BY <2>2, <2>3, RecordedNames DEF EntryLive
<1>11. ASSUME NEW name \in Range(helpers)
       PROVE  here(name)
  <2>1. PICK i \in DOMAIN helpers : helpers[i] = name /\ deployed[name] = StandardEntry(0, link + i)
    BY <1>3
  <2>2. link + i \in 1 .. Len(script)
    BY <1>1 DEF link
  <2>3. m.contracts[name].implementation = link + i
    BY <1>2, <1>4, <1>9, <2>1
  <2>4. CodeAt(link + i, Len(script), script, chain)
    BY <1>1, <1>5, <1>6, <1>8, <2>2
  <2>5. name \notin ProxyNames \cup {"ValidatorBeacon"}
    BY <1>2, ReleaseAssumption
  <2> QED
    BY <2>3, <2>4, <2>5 DEF EntryLive
<1>12. ASSUME NEW name \in Range(proxies)
       PROVE  here(name)
  <2>1. PICK i \in DOMAIN proxies : proxies[i] = name /\ deployed[name] = StandardEntry(2 * i + 2, 2 * i + 1)
    BY <1>3
  <2>2. 2 * i + 2 \in 1 .. Len(script) /\ 2 * i + 1 \in 1 .. Len(script)
    BY <1>1 DEF link
  <2>3. m.contracts[name].implementation = 2 * i + 1 /\ m.contracts[name].address = 2 * i + 2
    BY <1>2, <1>4, <1>9, <2>1
  <2>4. /\ CodeAt(2 * i + 1, Len(script), script, chain) /\ CodeAt(2 * i + 2, Len(script), script, chain)
        /\ ValueAt(2 * i + 2, "implementation", Len(script), script, chain) = 2 * i + 1
    BY <1>1, <1>5, <1>6, <1>7, <1>8, <2>2
  <2>5. name # "ValidatorBeacon"
    BY <1>2, ReleaseAssumption
  <2> QED
    BY <2>3, <2>4, <2>5 DEF EntryLive
<1>13. \A name \in recorded(m) : here(name)
  BY <1>2, <1>4, <1>10, <1>11, <1>12
<1>14. Names \ {"SectorEvidenceAdapter"} \subseteq recorded(m)
  BY <1>2, <1>4 DEF Names, UpgradeTargets
<1>15. ValueAt(m.contracts["PoRepMarket"].address, "evidenceAdapter", Len(script), script, chain) = evidenceAdapter(m)
  <2> DEFINE market == m.contracts["PoRepMarket"].address
             adapter == IF "SectorEvidenceAdapter" \in Range(proxies)
                        THEN "SectorEvidenceAdapter" ELSE "DataCapEvidenceAdapter"
             writers == SlotWriters(market, "evidenceAdapter", Len(script), script, chain)
  <2>1. "PoRepMarket" \in Range(proxies) /\ adapter \in Range(proxies)
    BY DeploymentAssumption
  <2>2. market = deployed["PoRepMarket"].address /\ deployed[adapter] = m.contracts[adapter]
    BY <1>2, <1>4, <2>1
  <2>3. m.contracts["SectorEvidenceAdapter"] # None <=> "SectorEvidenceAdapter" \in Range(proxies)
    <3>1. "SectorEvidenceAdapter" \in Names
      BY DeploymentAssumption DEF Names, UpgradeTargets
    <3>2. "SectorEvidenceAdapter" \notin Range(helpers) \cup {"Validator", "ValidatorBeacon"}
      BY <1>2, ReleaseAssumption, DeploymentAssumption
    <3> QED
      BY <1>2, <1>4, <3>1, <3>2 DEF recorded
  <2>4. evidenceAdapter(m) = deployed[adapter].address
    BY <2>2, <2>3 DEF evidenceAdapter
  <2>5. script[link] = Call(market, "evidenceAdapter", deployed[adapter].address)
    BY <2>2 DEF DeployEnds, deployed, link
  <2>6. link \in writers /\ writers \subseteq 1 .. Len(script)
    <3>1. link \in DOMAIN chain /\ chain[link].ok
      BY <1>1 DEF link
    <3> QED
      BY <1>1, <2>5, <3>1 DEF SlotWriters, Call
  <2>7. \A n \in writers : n <= link
    <3>1. ASSUME NEW n \in 1 .. Len(script), ~(n <= link)
          PROVE  script[n].kind # "call"
      <4>1. n - link \in 1 .. Len(helpers) /\ link + (n - link) = n
        BY <1>1, <3>1
      <4>2. script[n] = Code(helpers[n - link], build)
        BY <1>5, <4>1
      <4> QED
        BY <4>2 DEF Code
    <3> QED
      BY <2>6, <3>1 DEF SlotWriters
  <2> HIDE DEF writers
  <2>8. Max(writers) = link
    <3>1. Max(writers) \in writers /\ Max(writers) >= link
      BY <1>1, <2>6, MaxIsElement
    <3>2. Max(writers) <= link
      BY <2>7, <3>1
    <3>3. Max(writers) \in 1 .. Len(script)
      BY <2>6, <3>1
    <3>4. link \in 1 .. Len(script)
      BY <2>6
    <3> HIDE DEF link
    <3> QED
      BY <3>1, <3>2, <3>3, <3>4
  <2>9. ValueAt(market, "evidenceAdapter", Len(script), script, chain) = script[link].value
    BY <2>6, <2>8 DEF ValueAt, writers
  <2> QED
    BY <2>4, <2>5, <2>9 DEF Call
<1> QED
  BY <1>13, <1>14, <1>15 DEF ContractsLive

\* The releases that are found complete: all contracts but the sector adapter.
FoundComplete == \A missing \in InitialMissing : missing # None => "PoRepMarketViewHelper" \notin missing

LEMMA LiveInit == ASSUME FoundComplete, Init PROVE LiveInv
<1>1. /\ TypeInv /\ ChainTypeOK /\ IsChain(sent, blocks) /\ Len(sent) \in Nat /\ DOMAIN sent = 1 .. Len(sent)
      /\ journal = [operation \in Operations |-> NoJournal] /\ cmd = NoCommand
  BY TypesInit, ChainIsChain DEF TypeInv, Init
<1>2. \A operation \in Operations : JournalLive(journal[operation])
  BY <1>1 DEF JournalLive, NoJournal
<1>3. ASSUME exists(latest)
      PROVE  Standing(Len(sent))
  <2>1. PICK missing, proxies, helpers : missing \in InitialMissing /\ DeployedFirst(missing, proxies, helpers)
    BY <1>3, Beginning DEF exists, NoManifest
  <2>2. missing \subseteq {"SectorEvidenceAdapter"}
    BY <2>1, DeploymentAssumption DEF FoundComplete, DeployedFirst
  <2>3. ProxyNames \ {"SectorEvidenceAdapter"} \subseteq Range(proxies) /\ HelperNames \subseteq Range(helpers)
    <3>1. "SectorEvidenceAdapter" \notin HelperNames
      BY DeploymentAssumption, ReleaseAssumption
    <3>2. Range(proxies) = ProxyNames \ missing /\ Range(helpers) = HelperNames \ missing
      BY <2>1 DEF DeployedFirst
    <3> QED
      BY <2>2, <3>1, <3>2
  <2>4. ContractsLive(latest, Len(sent), sent, blocks)
    BY <1>1, <2>1, <2>3, ScriptBefore, DeployedLive DEF DeployedFirst
  <2>5. \A n \in Len(sent) + 1 .. Len(sent) : FALSE
    BY <1>1
  <2> QED
    <3>1. final = Len(sent) /\ ~latest.tokens
      BY <2>1 DEF DeployedFirst
    <3>2. Len(sent) \in 0 .. final
      BY <1>1, <3>1
    <3> QED
      BY <2>4, <2>5, <3>1, <3>2 DEF Standing, TokensOnly
<1> QED
  BY <1>1, <1>2, <1>3 DEF LiveInv, NoCommand

-----------------------------------------------------------------------------
\* Every step keeps it, and the theorem.

LEMMA LiveStays ==
  ASSUME IInv, TypeInv, TypeInv', LayoutInv, LiveInv, [Next]_vars
  PROVE  LiveInv'
<1>1. CASE startCommand \/ verifySources \/ crash
  BY <1>1, StepLive
<1>2. CASE commandStep
  BY <1>2, StepLive, PendingStartLive, RecordJournalLive, BroadcastLive, CheckLiveLive, PublishLive, FinishLive,
     TokensLive
  DEF commandStep
<1>3. CASE \E operation \in Operations : finalize(operation)
  BY <1>3, FinalizeLive
<1>4. CASE people \/ UNCHANGED vars
  BY <1>4, PeopleLive
<1>5. CASE chainAlone
  BY <1>5, ChainAloneLive
<1> QED
  BY <1>1, <1>2, <1>3, <1>4, <1>5 DEF Next

LEMMA AllIsLive ==
  ASSUME TypeInv, LiveInv, TokensSafe
  PROVE  ManifestDescribesChain
<1> SUFFICES ASSUME noPendingOperation, exists(latest)
             PROVE  verifyLiveDeployment(latest, <<>>)
  BY DEF ManifestDescribesChain
<1>1. PICK h \in Nat : Standing(h)
  BY DEF LiveInv, Calm
<1>2. ChainTypeOK /\ IsChain(sent, blocks) /\ Len(sent) \in Nat /\ h <= Len(sent)
  <2>1. /\ ChainTypeOK /\ IsChain(sent, blocks) /\ Len(sent) \in Nat /\ final \in Nat /\ Len(blocks) \in Nat
        /\ final <= Len(blocks) /\ Len(blocks) <= Len(sent)
    BY ChainIsChain DEF TypeInv
  <2>2. h \in 0 .. final
    BY <1>1 DEF Standing
  <2> QED
    BY <2>1, <2>2
<1>3. ContractsLive(latest, Len(sent), sent, blocks)
  BY <1>1, <1>2, LiveOnward DEF Standing
<1>4. latest.tokens => paymentTokenIsConfigured(latest)
  BY <1>1 DEF Standing
<1> QED
  BY <1>2, <1>3, <1>4, LiveIs

\* For all contracts, builds, requests and bounds, whatever fails, is killed or
\* taken up again: while no operation is unfinished, the canonical manifest is
\* what the check of the live contracts finds.  A token that is found
\* configured is recorded without waiting for its finality, so that either
\* blocks are not dropped or tokens are not configured here.
THEOREM ManifestDescribes ==
  ASSUME EditsWhile \subseteq {"idle"}, FoundComplete, MaxReorgs = 0 \/ "tokens" \notin Commands
  PROVE  Spec => []ManifestDescribesChain
<1>1. Init => LayoutInv /\ LiveInv
  BY LayoutInit, LiveInit
<1>2. IInv /\ ReceiptInv /\ TypeInv /\ TypeInv' /\ LayoutInv /\ LiveInv /\ [Next]_vars => LayoutInv' /\ LiveInv'
  BY LayoutKept, LiveStays
<1>3. TypeInv /\ LiveInv => ManifestDescribesChain
  BY AllIsLive DEF TokensSafe
<1> QED
  BY <1>1, <1>2, <1>3, TypesInvariant, PTL DEF Spec
=============================================================================
