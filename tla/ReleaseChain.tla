---------------------------- MODULE ReleaseChain ----------------------------
(***************************************************************************)
(* The chain a release is deployed to, and what script/deployment-chain.ts *)
(* asks of it: receipts of the transactions of a broadcast, the finalized  *)
(* height, canonical blocks, and the state behind the addresses of a       *)
(* manifest.                                                               *)
(*                                                                         *)
(* One account sends all transactions, and Forge (--slow) sends one when   *)
(* the one before is mined: the transaction of nonce n is in the n-th      *)
(* block.  A reorganization drops blocks that are not final; their         *)
(* transactions are mined again, in other blocks and perhaps with another  *)
(* outcome.                                                                *)
(*                                                                         *)
(* Abstractions.  Of the state of the contracts there is what a command    *)
(* changes later or may find changed: the implementations of proxies and   *)
(* beacon, the market's evidence adapter, the payment token.  Roles,       *)
(* owners and references that are set for good when a contract is created  *)
(* are left out, and so are answers of a node that are malformed.          *)
(***************************************************************************)
EXTENDS ReleaseManifest, FiniteSetsExt

CONSTANTS
  Outcomes,   \* whether a transaction succeeds: TRUE, perhaps FALSE
  MaxReorgs   \* bound on the reorganizations

ASSUME ChainAssumption == Outcomes \subseteq BOOLEAN /\ TRUE \in Outcomes /\ MaxReorgs \in Nat

VARIABLES
  sent,    \* the transactions, by nonce
  blocks,  \* blocks[n]: hash of the block of transaction n and its outcome
  final,   \* finalized height
  reorgs   \* reorganizations so far; blocks mined since have another hash

chainVars == <<sent, blocks, final, reorgs>>

Slots == {"implementation", "evidenceAdapter", "token"}

\* A transaction creates an implementation or helper from a build, creates a
\* proxy or beacon for an implementation, or writes a slot of a contract.
Code(name, build) == [kind |-> "code", name |-> name, build |-> build]
Proxy(implementation) == [kind |-> "proxy", value |-> implementation]
Beacon(implementation) == [kind |-> "beacon", value |-> implementation]
Call(contract, slot, value) ==
  [kind |-> "call", contract |-> contract, slot |-> slot, value |-> value]

Transactions ==
  [kind : {"code"}, name : Names, build : Builds] \cup [kind : {"proxy", "beacon"}, value : Nat]
    \cup [kind : {"call"}, contract : Nat, slot : Slots, value : Nat]

ChainTypeOK ==
  /\ sent \in Seq(Transactions)
  /\ blocks \in Seq([hash : Nat, ok : BOOLEAN])
  /\ Len(blocks) <= Len(sent)
  /\ final \in 0 .. Len(blocks)
  /\ reorgs \in 0 .. MaxReorgs

-----------------------------------------------------------------------------
executed == {n \in DOMAIN blocks : blocks[n].ok}

\* The receipt names a contract that the transaction itself creates; the
\* factory creates the beacon.
contractAddress(n) == IF sent[n].kind \in {"code", "proxy"} THEN n ELSE 0

hasCode(address) ==
  address \in executed /\ sent[address].kind # "call"

writes(n, address, slot) ==
  \/ slot = "implementation" /\ n = address /\ sent[n].kind \in {"proxy", "beacon"}
  \/ sent[n].kind = "call" /\ sent[n].contract = address /\ sent[n].slot = slot

\* The value of a slot after the first n transactions, 0 if never written.
valueAt(height, address, slot) ==
  LET writers == {n \in executed : n <= height /\ writes(n, address, slot)}
  IN  IF writers = {} THEN 0 ELSE sent[Max(writers)].value

live(address, slot) == valueAt(Len(sent), address, slot)

paymentTokenIsConfigured(manifest) ==
  live(manifest.contracts["SPRegistry"].address, "token") = 1

-----------------------------------------------------------------------------
\* The receipts of a broadcast, in order.  A transaction that has no hash, no
\* receipt, or that failed, makes the load fail.
extractBroadcastTransactionHashes(broadcast) ==
  [i \in 1 .. broadcast.total |-> IF i <= broadcast.sent THEN broadcast.base + i ELSE 0]

canLoadReceipts(nonces) == Len(nonces) > 0 /\ Range(nonces) \subseteq executed

loadTransactionReceipts(nonces) ==
  [i \in DOMAIN nonces |-> [nonce |-> nonces[i], block |-> blocks[nonces[i]].hash,
                            contract |-> contractAddress(nonces[i])]]

\* The wait for finality ends when the finalized height covers all receipts;
\* each must then be in the canonical block of its height.
coveredByFinality(receipts) == \A i \in DOMAIN receipts : receipts[i].nonce <= final

\* Mutant: any block at the height will do.
AnyBlock(receipts) == TRUE

inCanonicalBlocks(receipts) ==
  \A i \in DOMAIN receipts :
    receipts[i].nonce \in DOMAIN blocks /\ blocks[receipts[i].nonce].hash = receipts[i].block

-----------------------------------------------------------------------------
replacement(name, operations) ==
  {operations[i] : i \in {j \in DOMAIN operations : operations[j].target = name}}

\* The implementation expected behind a contract of the manifest, once the
\* operations of an upgrade are carried out.
expectedImplementation(manifest, name, operations) ==
  LET target == IF name = "ValidatorBeacon" THEN "Validator" ELSE name
  IN  IF replacement(target, operations) = {}
      THEN manifest.contracts[target].implementation
      ELSE (CHOOSE item \in replacement(target, operations) : TRUE).newImplementation

verifyBeacon(manifest, operations) ==
  LET beacon == manifest.contracts["ValidatorBeacon"]
      validator == expectedImplementation(manifest, "Validator", operations)
  IN  /\ hasCode(beacon.address)
      /\ replacement("Validator", operations) = {} => beacon.implementation = validator
      /\ live(beacon.address, "implementation") = validator

verifyManifestContracts(manifest, operations) ==
  \A name \in recorded(manifest) :
    IF name = "ValidatorBeacon" THEN verifyBeacon(manifest, operations)
    ELSE LET implementation == expectedImplementation(manifest, name, operations)
             proxy == manifest.contracts[name].address
         IN  /\ hasCode(implementation)
             /\ name \in ProxyNames =>
                  /\ hasCode(proxy)
                  /\ live(proxy, "implementation") = implementation

evidenceAdapter(manifest) ==
  manifest.contracts[IF manifest.contracts["SectorEvidenceAdapter"] # None
                     THEN "SectorEvidenceAdapter" ELSE "DataCapEvidenceAdapter"].address

\* Every contract but the sector adapter is required.
verifyLiveDeployment(manifest, operations) ==
  /\ Names \ {"SectorEvidenceAdapter"} \subseteq recorded(manifest)
  /\ verifyManifestContracts(manifest, operations)
  /\ live(manifest.contracts["PoRepMarket"].address, "evidenceAdapter") = evidenceAdapter(manifest)
  /\ manifest.tokens => paymentTokenIsConfigured(manifest)

-----------------------------------------------------------------------------
ChainInit(transactions) ==
  /\ sent = transactions
  /\ blocks = [n \in DOMAIN transactions |-> [hash |-> 0, ok |-> TRUE]]
  /\ final = Len(transactions)
  /\ reorgs = 0

\* Forge sends a transaction and waits until it is mined.
SendAndMine(transaction) ==
  /\ Len(blocks) = Len(sent)
  /\ sent' = Append(sent, transaction)
  /\ \E ok \in Outcomes : blocks' = Append(blocks, [hash |-> reorgs, ok |-> ok])
  /\ UNCHANGED <<final, reorgs>>

\* A transaction whose block was dropped is mined again.
MineAgain ==
  /\ Len(blocks) < Len(sent)
  /\ \E ok \in Outcomes : blocks' = Append(blocks, [hash |-> reorgs, ok |-> ok])
  /\ UNCHANGED <<sent, final, reorgs>>

Reorganize ==
  /\ reorgs < MaxReorgs
  /\ \E n \in final .. Len(blocks) - 1 : blocks' = SubSeq(blocks, 1, n)
  /\ reorgs' = reorgs + 1
  /\ UNCHANGED <<sent, final>>

FinalizeHeight ==
  /\ final < Len(blocks)
  /\ final' \in final + 1 .. Len(blocks)
  /\ UNCHANGED <<sent, blocks, reorgs>>
=============================================================================
