--------------------------- MODULE ProxyDeployments --------------------------
(***************************************************************************)
(* Deploying, upgrading and verifying one proxied contract with the scripts *)
(* of packages/deployment.  Four stores have to agree: the chain, the       *)
(* address book every operator shares, the deployment records rocketh keeps *)
(* for each operator, and the governance bundles in each operator's txs/.   *)
(*                                                                          *)
(* A script is a sequence of steps; it may stop after any of them, and the  *)
(* chain may change between them.  Operators run their scripts one at a     *)
(* time, and share the address book through the repository.                 *)
(***************************************************************************)
EXTENDS AddressBook, Sequences, FiniteSets

CONSTANTS
  Operators,     \* those who may run the scripts, each with a checkout
  ProxyTypes,    \* among "graph" (GraphProxy), "transparent" (OpenZeppelin) and
                 \* "shared": transparent, with an implementation deployed on its own
  MaxCode,       \* bound: implementations ever deployed
  MaxProxies,    \* bound: proxies ever deployed
  MaxBuilds,     \* bounds per number of operators: times a checkout gets other code,
  MaxCrashes,    \* scripts that stop half way and checkouts lost,
  MaxExternal    \* upgrades made by other deployment systems

ASSUME ProxyDeploymentsAssumption ==
  /\ ProxyTypes \subseteq {"graph", "transparent", "shared"}
  /\ MaxCode \in Nat \ {0} /\ MaxProxies \in Nat \ {0}
  /\ \A bound \in {MaxBuilds, MaxCrashes, MaxExternal} :
       bound \in [1..Cardinality(Operators) -> Nat]

VARIABLES
  code,       \* the implementations deployed, in order
  proxies,    \* the proxies deployed, in order
  proxyType,  \* the type of the contract's proxy; never changes
  governorIsSafe, \* whether the governor is a contract; never changes
  book,       \* the entry of the contract in the address book
  torn,       \* history: whether that entry got an implementation, by a sync that
              \* stopped there, and still has the metadata of the one before
  shared,     \* the entry of the shared implementation
  records,    \* per operator: the rocketh deployment records
  artifact,   \* per operator who takes part: what the checkout compiles to
  bundle,     \* per operator: the file txs/upgrade-<contract>.json
  proposed,   \* bundles handed to the Safe
  script,     \* the script that is running
  builds, crashes, external  \* counters of the bounds

vars == <<code, proxies, proxyType, governorIsSafe, book, torn, shared, records, artifact, bundle,
          proposed, script, builds, crashes, external>>

Artifacts == [hash: Hashes, args: ArgValues]

(* Those who take part; it never changes.                                   *)
Team == DOMAIN artifact
Within(counter, bound) == counter < bound[Cardinality(Team)]

(* An implementation record: block 0 when sync wrote it, not a deployment.  *)
ImplementationRecord ==
  [address: 0..MaxCode, hash: Hashes \union {NoHash}, args: ArgValues \union {NoArgs},
   block: 0..MaxCode]
NoRecord == [address |-> 0, hash |-> NoHash, args |-> NoArgs, block |-> 0]

(* X, X_Proxy, X_ProxyAdmin, and the implementation: X_Implementation or    *)
(* the shared one.                                                          *)
DeploymentRecords ==
  [own: 0..MaxProxies, proxy: 0..MaxProxies, admin: 0..MaxProxies,
   implementation: ImplementationRecord]
NoRecords == [own |-> 0, proxy |-> 0, admin |-> 0, implementation |-> NoRecord]

Bundles  == [proxy: 0..MaxProxies, implementation: 0..MaxCode]
NoBundle == [proxy |-> 0, implementation |-> 0]

Idle == [step |-> "idle"]

(* The hash of what the checkout compiles to.                               *)
ArtifactHash(operator) == artifact[operator].hash

(* The entry of the contract that the artifact is of: a contract with a     *)
(* shared implementation has none of its own.                               *)
ArtifactEntry == IF proxyType = "shared" THEN shared ELSE book

(* The implementation the contract's proxy runs.                            *)
OnChainImplementation == proxies[book.address].implementation

RunsArtifact(operator) ==
  /\ EntryExists(book)
  /\ code[OnChainImplementation] = artifact[operator]

(***************************************************************************)
(* Sync.                                                                    *)
(***************************************************************************)

(* Mutant: what was known of the old implementation is kept.                *)
Reconciled_KeepsMetadata(entry, implementation) ==
  IF HasPending(entry) /\ entry.pending = implementation
    THEN PromotePendingImplementationWithMetadata(entry)
    ELSE SetImplementation(entry, implementation)

(* Mutant: the entry is replaced when the implementation is another.        *)
Reconciled_Replaces(entry, implementation) ==
  IF HasPending(entry) /\ entry.pending = implementation
    THEN PromotePendingImplementationWithMetadata(entry)
  ELSE IF entry.implementation # implementation THEN SetProxy(entry.address, implementation)
  ELSE entry

(* The implementation was changed by others: the book neither has it, nor   *)
(* waits for it.                                                            *)
ChangedOutside(entry, implementation) ==
  entry.implementation # implementation /\ ~(HasPending(entry) /\ entry.pending = implementation)

(* The chain is authoritative: promote the pending implementation when it   *)
(* is the one that runs, otherwise take the address and then, by another    *)
(* write, wipe what was known of the one before.                            *)
Reconciled(entry, implementation) ==
  IF HasPending(entry) /\ entry.pending = implementation
    THEN PromotePendingImplementationWithMetadata(entry)
  ELSE IF ChangedOutside(entry, implementation)
    THEN SetImplementationDeploymentMetadata(SetImplementation(entry, implementation), WipedMetadata)
  ELSE entry

(* The implementation the records should have: the pending one if any.      *)
Candidate(entry) ==
  IF HasPending(entry)
    THEN [address |-> entry.pending, metadata |-> entry.pendingDeployment]
    ELSE [address |-> entry.implementation, metadata |-> GetDeploymentMetadata(entry)]

ProxyRecords(operatorRecords, address) ==
  [operatorRecords EXCEPT !.own = address, !.proxy = address, !.admin = address]

(* A record is made from the local artifact, or gets another address and    *)
(* keeps its bytecode and arguments but not its receipt.                    *)
ImportedRecord(record, address, local, args) ==
  IF record.address = 0
    THEN [NoRecord EXCEPT !.address = address, !.hash = local.hash, !.args = args]
  ELSE IF record.address # address THEN [record EXCEPT !.address = address, !.block = 0]
  ELSE record

(* Its arguments are filled in from the book when it has none.              *)
WithArguments(record, metadata) ==
  IF record.args = NoArgs /\ metadata.args # NoArgs
    THEN [record EXCEPT !.args = metadata.args, !.block = 0]
    ELSE record

(* A record of a later block than the book knows fills in the book.         *)
RecordIsNewer(record, metadata) ==
  /\ record.args # NoArgs
  /\ \/ ~metadata.known
     \/ record.block # 0 /\ metadata.block = 0
     \/ record.block > metadata.block /\ metadata.block # 0

RecordMetadata(record, local) ==
  [NoMetadata EXCEPT !.hash = local.hash, !.args = record.args, !.block = record.block,
                     !.known = TRUE]

Backfilled(entry, record, local) ==
  IF ~RecordIsNewer(record, Candidate(entry).metadata) THEN entry
  ELSE IF HasPending(entry) THEN SetPendingDeploymentMetadata(entry, RecordMetadata(record, local))
  ELSE SetImplementationDeploymentMetadata(entry, RecordMetadata(record, local))

(* The implementation record is only touched when the hash in the book is   *)
(* the one of the local artifact, which a contract of a shared              *)
(* implementation has not.                                                  *)
HashMatches(operator, entry) ==
  proxyType # "shared" /\ Candidate(entry).metadata.hash = ArtifactHash(operator)

SyncedRecords(operator, withShared, entry) ==
  LET withProxy == ProxyRecords(withShared[operator], book.address)
      candidate == Candidate(entry)
      imported  == ImportedRecord(withProxy.implementation, candidate.address, artifact[operator],
                                  NoArgs)
  IN  IF HashMatches(operator, entry)
        THEN [withProxy EXCEPT !.implementation = WithArguments(imported, candidate.metadata)]
        ELSE withProxy

(* A contract not in the book is not deployed: nothing is synced.           *)
SyncProxy(operator, withShared) ==
  IF ~EntryExists(book) THEN records' = withShared /\ UNCHANGED book
  ELSE LET entry  == Reconciled(book, OnChainImplementation)
           synced == SyncedRecords(operator, withShared, entry)
       IN  /\ records' = [records EXCEPT ![operator] = synced]
           /\ book' = IF HashMatches(operator, entry)
                        THEN Backfilled(entry, synced.implementation, artifact[operator])
                        ELSE entry

(* The record of a contract without a proxy is not made from an artifact    *)
(* that is known to differ: it would hide that it has to be deployed.       *)
ShouldSeedRocketh(local) == shared.deployment.hash \in {NoHash, local.hash}

(* The arguments the book has of a contract without a proxy.                *)
DeploymentArgs(entry) == GetDeploymentMetadata(entry).args

SyncedSharedRecord(operator) ==
  LET record == records[operator].implementation
      local  == artifact[operator]
  IN  IF record.address = 0 /\ ~ShouldSeedRocketh(local) THEN record
      ELSE ImportedRecord(record, shared.address, local, DeploymentArgs(shared))

SyncedShared(record, local) ==
  IF RecordIsNewer(record, shared.deployment)
    THEN SetDeploymentMetadata(shared, RecordMetadata(record, local))
    ELSE shared

(* The records, and the entry, after the shared implementation is synced.   *)
SharedSynced(operator) ==
  LET record == SyncedSharedRecord(operator)
  IN  IF proxyType # "shared" \/ ~EntryExists(shared)
        THEN [records |-> records, shared |-> shared]
        ELSE [records |-> [records EXCEPT ![operator].implementation = record],
              shared  |-> SyncedShared(record, artifact[operator])]

(* The metadata of an entry that is torn stays, unless it is wiped or the   *)
(* pending one is promoted: only the addresses are compared.                *)
SyncContract(operator) ==
  /\ shared' = SharedSynced(operator).shared
  /\ SyncProxy(operator, SharedSynced(operator).records)
  /\ torn' = (torn /\ Reconciled(book, OnChainImplementation) = book)

(***************************************************************************)
(* Scripts.                                                                 *)
(***************************************************************************)
Chain  == <<code, proxies, proxyType, governorIsSafe>>
Bounds == <<builds, crashes, external>>

AtStep(name, step)  == script # Idle /\ script.name = name /\ script.step = step
GoTo(step)          == script' = [script EXCEPT !.step = step]
GoToWith(step, implementation) ==
  script' = [script EXCEPT !.step = step, !.implementation = implementation]
Fail                == script' = Idle
Finish              == script' = Idle

(* The script of the shared implementation runs before those that need it.  *)
FirstStep(name) ==
  CASE name \in {"deploy", "upgrade"} -> IF proxyType = "shared" THEN "implement" ELSE "sync"
    [] name = "sync"    -> "resync"
    [] name = "execute" -> "upgrade"
    [] name = "verify"  -> "verify"
Scripts == {"deploy", "upgrade", "sync", "execute", "verify"}

StartScript(operator, name) ==
  /\ script = Idle /\ operator \in Team
  /\ name = "execute" => bundle[operator] # NoBundle /\ ~governorIsSafe
  /\ script' = [operator |-> operator, name |-> name, step |-> FirstStep(name),
                implementation |-> 0]
  /\ UNCHANGED <<Chain, book, torn, shared, records, artifact, bundle, proposed, Bounds>>

(* The sync every script of a component begins with.                        *)
FirstSync ==
  /\ script # Idle /\ script.step = "sync"
  /\ SyncContract(script.operator)
  /\ GoTo(IF script.name = "deploy" THEN "deploy" ELSE "claim")
  /\ UNCHANGED <<Chain, artifact, bundle, proposed, Bounds>>

(* And the one it ends with; deploy:sync is this one alone.                 *)
LastSync ==
  /\ script # Idle /\ script.step = "resync"
  /\ SyncContract(script.operator)
  /\ Finish
  /\ UNCHANGED <<Chain, artifact, bundle, proposed, Bounds>>

(* A sync stops after the first of the two writes, and neither wipes the    *)
(* metadata nor gets to the records; or the second write fails, which is    *)
(* only logged, and the sync goes on with the entry it has in memory.       *)
TearSync ==
  LET operator == script.operator
      synced   == SharedSynced(operator)
  IN  /\ script # Idle /\ script.step \in {"sync", "resync"}
      /\ EntryExists(book) /\ ChangedOutside(book, OnChainImplementation)
      /\ Within(crashes, MaxCrashes)
      /\ book' = SetImplementation(book, OnChainImplementation)
      /\ torn' = TRUE
      /\ shared' = synced.shared
      /\ crashes' = crashes + 1
      /\ \/ records' = synced.records /\ Fail
         \/ /\ records' = [records EXCEPT ![operator] =
                 SyncedRecords(operator, synced.records, Reconciled(book, OnChainImplementation))]
            /\ IF script.step = "resync" THEN Finish
                ELSE GoTo(IF script.name = "deploy" THEN "deploy" ELSE "claim")
      /\ UNCHANGED <<Chain, artifact, bundle, proposed, builds, external>>

(* rocketh: the record decides whether the artifact has been deployed.      *)
RecordMatches(operator) ==
  LET record == records[operator].implementation
  IN  record.hash = ArtifactHash(operator) /\ record.args = artifact[operator].args

RockethDeploys(operator) ==
  /\ Len(code) < MaxCode
  /\ code' = Append(code, artifact[operator])
  /\ records' = [records EXCEPT ![operator].implementation =
       [address |-> Len(code) + 1, hash |-> ArtifactHash(operator),
        args |-> artifact[operator].args, block |-> Len(code) + 1]]

DeployedMetadata(operator, implementation) ==
  [NoMetadata EXCEPT !.hash = ArtifactHash(operator), !.args = artifact[operator].args,
                     !.block = implementation, !.known = TRUE]

(* The book says that this very artifact is deployed already.               *)
BookMatches(operator) ==
  /\ Candidate(book).metadata.hash = ArtifactHash(operator)
  /\ Candidate(book).metadata.args = artifact[operator].args
  /\ Candidate(book).address # 0

(* A contract that has a proxy: deploy an implementation unless the book or *)
(* the records have it; without records of the proxy there is an error.     *)
DeployImplementation ==
  LET operator == script.operator IN
  /\ AtStep("deploy", "deploy")
  /\ proxyType = "graph" \/ (proxyType = "transparent" /\ records[operator].proxy # 0)
  /\ IF records[operator].own = 0 \/ records[operator].admin = 0 \/ ~EntryExists(book)
       THEN Fail /\ UNCHANGED <<code, records>>
     ELSE IF BookMatches(operator) \/ RecordMatches(operator)
       THEN GoTo("resync") /\ UNCHANGED <<code, records>>
     ELSE RockethDeploys(operator) /\ GoToWith("pend", Len(code) + 1)
  /\ UNCHANGED <<proxies, proxyType, governorIsSafe, book, torn, shared, artifact, bundle, proposed, Bounds>>

(* Mutant: unless another implementation is pending.                        *)
RecordPending_Once ==
  /\ AtStep("deploy", "pend")
  /\ book' = IF HasPending(book) THEN book
              ELSE SetPendingImplementationWithMetadata(book, script.implementation,
                     DeployedMetadata(script.operator, script.implementation))
  /\ GoToWith("resync", 0)
  /\ UNCHANGED <<torn, shared, Chain, records, artifact, bundle, proposed, Bounds>>

RecordPending ==
  /\ AtStep("deploy", "pend")
  /\ book' = SetPendingImplementationWithMetadata(book, script.implementation,
               DeployedMetadata(script.operator, script.implementation))
  /\ GoToWith("resync", 0)
  /\ UNCHANGED <<torn, shared, Chain, records, artifact, bundle, proposed, Bounds>>

(* A contract without a proxy: implementation, proxy, record, book.         *)
DeployFirstImplementation ==
  LET operator == script.operator IN
  /\ AtStep("deploy", "deploy")
  /\ proxyType = "transparent" /\ records[operator].proxy = 0
  /\ RockethDeploys(operator)
  /\ GoToWith("proxy", Len(code) + 1)
  /\ UNCHANGED <<proxies, proxyType, governorIsSafe, book, torn, shared, artifact, bundle, proposed, Bounds>>

DeployProxy ==
  LET operator == script.operator IN
  /\ AtStep("deploy", "proxy")
  /\ Len(proxies) < MaxProxies
  /\ proxies' = Append(proxies, [implementation |-> script.implementation, next |-> 0])
  /\ records' = [records EXCEPT ![operator].proxy = Len(proxies) + 1]
  /\ GoTo("save")
  /\ UNCHANGED <<code, proxyType, governorIsSafe, book, torn, shared, artifact, bundle, proposed, Bounds>>

SaveProxyRecord ==
  LET operator == script.operator IN
  /\ AtStep("deploy", "save")
  /\ records' = [records EXCEPT ![operator].own = records[operator].proxy]
  /\ GoTo("book")
  /\ UNCHANGED <<Chain, book, torn, shared, artifact, bundle, proposed, Bounds>>

(* The entry of a contract just deployed.                                   *)
ContractUpdate(address, metadata) == SetDeploymentMetadata(SetContract(address), metadata)
ProxyUpdate(address, implementation, metadata) ==
  SetImplementationDeploymentMetadata(SetProxy(address, implementation), metadata)

UpdateProxyAddressBook ==
  LET operator == script.operator IN
  /\ AtStep("deploy", "book")
  /\ book' = ProxyUpdate(records[operator].own, script.implementation,
                IF proxyType = "shared" THEN NoMetadata
                ELSE DeployedMetadata(operator, script.implementation))
  /\ torn' = FALSE
  /\ IF proxyType = "shared" THEN Finish ELSE GoToWith("resync", 0)
  /\ UNCHANGED <<shared, Chain, records, artifact, bundle, proposed, Bounds>>

(* The shared implementation, which has a script of its own: it syncs it,   *)
(* and deploys it if the record is not of the artifact.                     *)
DeployShared ==
  LET operator == script.operator
      synced   == SharedSynced(operator)
      record   == synced.records[operator].implementation
  IN  /\ script # Idle /\ script.step = "implement"
      /\ IF record.hash = ArtifactHash(operator) /\ record.args = artifact[operator].args
           THEN /\ records' = synced.records
                /\ GoTo("sync") /\ UNCHANGED code
           ELSE RockethDeploys(operator) /\ GoToWith("share", Len(code) + 1)
      /\ shared' = synced.shared
      /\ UNCHANGED <<proxies, proxyType, governorIsSafe, book, torn, artifact, bundle, proposed, Bounds>>

(* Only a new deployment is written to the book.                            *)
SaveShared ==
  /\ script # Idle /\ script.step = "share"
  /\ shared' = ContractUpdate(script.implementation,
                              DeployedMetadata(script.operator, script.implementation))
  /\ GoToWith("sync", 0)
  /\ UNCHANGED <<Chain, book, torn, records, artifact, bundle, proposed, Bounds>>

PendShared(entry, operator) ==
  SetPendingImplementationWithMetadata(entry, records[operator].implementation.address,
                                       shared.deployment)

(* The proxy runs another implementation than the record of the shared one. *)
SharedChanged(operator) ==
  /\ proxyType = "shared"
  /\ records[operator].implementation # NoRecord
  /\ OnChainImplementation # records[operator].implementation.address

(* A contract that has a proxy: it is pending if it is not the one that     *)
(* runs; an error without record or metadata of it.                         *)
DeployWithShared ==
  LET operator == script.operator IN
  /\ AtStep("deploy", "deploy")
  /\ proxyType = "shared" /\ records[operator].proxy # 0
  /\ IF records[operator].implementation = NoRecord \/ ~EntryExists(book)
        THEN Fail /\ UNCHANGED book
      ELSE IF ~SharedChanged(operator) THEN Finish /\ UNCHANGED book
      ELSE IF ~shared.deployment.known THEN Fail /\ UNCHANGED book
      ELSE book' = PendShared(book, operator) /\ Finish
  /\ UNCHANGED <<Chain, torn, shared, records, artifact, bundle, proposed, Bounds>>

(* A contract without a proxy gets one with the shared implementation.      *)
DeployFirstWithShared ==
  LET operator == script.operator IN
  /\ AtStep("deploy", "deploy")
  /\ proxyType = "shared" /\ records[operator].proxy = 0
  /\ IF records[operator].implementation = NoRecord THEN Fail
      ELSE GoToWith("proxy", records[operator].implementation.address)
  /\ UNCHANGED <<Chain, book, torn, shared, records, artifact, bundle, proposed, Bounds>>

(* The upgrade script first removes the bundle of an earlier run.           *)
ClaimBundleSlot ==
  /\ AtStep("upgrade", "claim")
  /\ bundle' = [bundle EXCEPT ![script.operator] = NoBundle]
  /\ GoTo("save")
  /\ UNCHANGED <<Chain, book, torn, shared, records, artifact, proposed, Bounds>>

(* It saves one only when there is a pending implementation, which a shared *)
(* one that has changed becomes.                                            *)
SaveUpgradeBundle ==
  LET operator == script.operator
      pends    == ~HasPending(book) /\ SharedChanged(operator)
      entry    == IF pends THEN PendShared(book, operator) ELSE book
  IN  /\ AtStep("upgrade", "save")
      /\ IF ~EntryExists(book) \/ (pends /\ ~shared.deployment.known)
           THEN Fail /\ UNCHANGED <<book, bundle>>
         ELSE /\ book' = entry
              /\ bundle' = IF HasPending(entry)
                             THEN [bundle EXCEPT ![operator] =
                                     [proxy |-> entry.address, implementation |-> entry.pending]]
                             ELSE bundle
              /\ GoTo("resync")
      /\ UNCHANGED <<Chain, torn, shared, records, artifact, proposed, Bounds>>

(***************************************************************************)
(* deploy:verify.                                                           *)
(***************************************************************************)

(* The explorer may have the source already, whoever submitted it; it       *)
(* accepts only the source of the code.                                     *)
Listed == BOOLEAN
Accepts(operator, implementation) == {FALSE, code[implementation].hash = ArtifactHash(operator)}

(* Only an artifact that the book says was deployed is submitted.           *)
BytecodeMatches(operator, metadata) == metadata.hash = ArtifactHash(operator)

(* The implementation of a proxy, or the contract itself.                   *)
ImplementationAddress(entry) == IF entry.proxy THEN entry.implementation ELSE entry.address

(* One that is pending is submitted too, but the book does not get the      *)
(* link.  The page of the proxy, which never changes, is left out.          *)
VerifySingleContract(entry, operator, listed, accepted) ==
  LET address  == ImplementationAddress(entry)
      metadata == GetDeploymentMetadata(entry)
  IN  IF ~EntryExists(entry) \/ metadata.verified # 0 THEN entry
      ELSE IF ~listed /\ ~(BytecodeMatches(operator, metadata) /\ accepted) THEN entry
      ELSE IF entry.proxy THEN SetImplementationVerified(entry, address)
      ELSE SetVerified(entry, address)

VerifyContracts ==
  LET operator == script.operator
      entry    == ArtifactEntry
  IN  /\ AtStep("verify", "verify")
      /\ \E listed \in Listed :
         \E accepted \in IF EntryExists(entry) THEN Accepts(operator, ImplementationAddress(entry))
                         ELSE {FALSE} :
           LET verified == VerifySingleContract(entry, operator, listed, accepted)
           IN  IF proxyType = "shared" THEN shared' = verified /\ UNCHANGED book
                                       ELSE book' = verified /\ UNCHANGED shared
      /\ Finish
      /\ UNCHANGED <<Chain, torn, records, artifact, bundle, proposed, Bounds>>

(***************************************************************************)
(* Governance.                                                              *)
(***************************************************************************)

(* A GraphProxy is upgraded in two transactions, an OpenZeppelin one in one.*)
Upgraded(proxy, implementation) ==
  IF proxyType = "graph" THEN [proxy EXCEPT !.next = implementation]
                         ELSE [proxy EXCEPT !.implementation = implementation]
Accepted(proxy, implementation) ==
  IF proxyType = "graph" /\ proxy.next = implementation
    THEN [implementation |-> implementation, next |-> 0]
    ELSE proxy

(* deploy:execute-governance with the governor's key: one transaction after *)
(* the other, and the file is moved away after the last.                    *)
ExecuteUpgrade ==
  LET target == bundle[script.operator] IN
  /\ AtStep("execute", "upgrade")
  /\ proxies' = [proxies EXCEPT ![target.proxy] = Upgraded(@, target.implementation)]
  /\ GoTo(IF proxyType = "graph" THEN "accept" ELSE "archive")
  /\ UNCHANGED <<code, proxyType, governorIsSafe, book, torn, shared, records, artifact, bundle, proposed, Bounds>>

ExecuteAccept ==
  LET target == bundle[script.operator] IN
  /\ AtStep("execute", "accept")
  /\ proxies' = [proxies EXCEPT ![target.proxy] = Accepted(@, target.implementation)]
  /\ IF proxies[target.proxy].next = target.implementation THEN GoTo("archive") ELSE Fail
  /\ UNCHANGED <<code, proxyType, governorIsSafe, book, torn, shared, records, artifact, bundle, proposed, Bounds>>

ArchiveBundle ==
  /\ AtStep("execute", "archive")
  /\ bundle' = [bundle EXCEPT ![script.operator] = NoBundle]
  /\ Finish
  /\ UNCHANGED <<Chain, book, torn, shared, records, artifact, proposed, Bounds>>

(* With a Safe as governor the command executes nothing: the operator hands *)
(* the file to the Safe, which executes it as one transaction, some time.   *)
ProposeToSafe(operator) ==
  /\ governorIsSafe /\ bundle[operator] # NoBundle
  /\ proposed' = proposed \union {bundle[operator]}
  /\ UNCHANGED <<Chain, book, torn, shared, records, artifact, bundle, script, Bounds>>

SafeExecutes(target) ==
  /\ governorIsSafe
  /\ target \in proposed
  /\ proposed' = proposed \ {target}
  /\ proxies' = [proxies EXCEPT ![target.proxy] =
       Accepted(Upgraded(@, target.implementation), target.implementation)]
  /\ UNCHANGED <<code, proxyType, governorIsSafe, book, torn, shared, records, artifact, bundle, script, Bounds>>

(***************************************************************************)
(* The environment.                                                         *)
(***************************************************************************)

(* Other code is checked out, or compiled, between scripts.                 *)
ChangeArtifact(operator, other) ==
  /\ script = Idle
  /\ Within(builds, MaxBuilds)
  /\ other # artifact[operator]
  /\ artifact' = [artifact EXCEPT ![operator] = other]
  /\ builds' = builds + 1
  /\ UNCHANGED <<Chain, book, torn, shared, records, bundle, proposed, script, crashes, external>>

(* A script stops: killed, out of funds, or an RPC call that fails.         *)
Crash ==
  /\ script # Idle
  /\ Within(crashes, MaxCrashes)
  /\ script' = Idle
  /\ crashes' = crashes + 1
  /\ UNCHANGED <<Chain, book, torn, shared, records, artifact, bundle, proposed, builds, external>>

(* A fresh checkout has the address book, but no records and no bundles.    *)
LoseCheckout(operator) ==
  /\ script = Idle
  /\ Within(crashes, MaxCrashes)
  /\ records' = [records EXCEPT ![operator] = NoRecords]
  /\ bundle' = [bundle EXCEPT ![operator] = NoBundle]
  /\ crashes' = crashes + 1
  /\ UNCHANGED <<Chain, book, torn, shared, artifact, proposed, script, builds, external>>

(* Another deployment system deploys and upgrades.                          *)
ExternalUpgrade(build) ==
  /\ EntryExists(book)
  /\ Within(external, MaxExternal) /\ Len(code) < MaxCode
  /\ code' = Append(code, build)
  /\ proxies' = [proxies EXCEPT ![book.address] =
                   [@ EXCEPT !.implementation = Len(code) + 1]]
  /\ external' = external + 1
  /\ UNCHANGED <<proxyType, governorIsSafe, book, torn, shared, records, artifact, bundle, proposed, script,
                 builds, crashes>>

(***************************************************************************)
(* Specification.                                                           *)
(***************************************************************************)

(* The book of a contract deployed before has metadata, perhaps without a   *)
(* block number, or, if it was never recorded, none.  These scripts deployed *)
(* every shared implementation there is: its metadata is complete.          *)
InitialMetadata(build) ==
  LET Recorded(block) ==
        [NoMetadata EXCEPT !.hash = build.hash, !.args = build.args, !.block = block, !.known = TRUE]
  IN  IF proxyType = "shared" THEN {Recorded(1)} ELSE {NoMetadata, Recorded(0), Recorded(1)}

Init ==
  /\ proxyType \in ProxyTypes
  /\ \/ /\ proxyType # "graph"
        /\ code = <<>> /\ proxies = <<>> /\ book = NoEntry /\ shared = NoEntry
     \/ \E build \in Artifacts : \E metadata \in InitialMetadata(build) :
          /\ code = <<build>>
          /\ proxies = <<[implementation |-> 1, next |-> 0]>>
          /\ IF proxyType = "shared"
               THEN book = SetProxy(1, 1) /\ shared = SetDeploymentMetadata(SetContract(1), metadata)
               ELSE /\ book = SetImplementationDeploymentMetadata(SetProxy(1, 1), metadata)
                    /\ shared = NoEntry
  /\ governorIsSafe \in BOOLEAN
  /\ records = [operator \in Operators |-> NoRecords]
  /\ \E team \in SUBSET Operators \ {{}} : artifact \in [team -> Artifacts]
  /\ bundle = [operator \in Operators |-> NoBundle]
  /\ torn = FALSE
  /\ proposed = {}
  /\ script = Idle
  /\ builds = 0 /\ crashes = 0 /\ external = 0

ScriptStep ==
  \/ FirstSync \/ LastSync
  \/ DeployImplementation \/ RecordPending
  \/ DeployFirstImplementation \/ DeployProxy \/ SaveProxyRecord \/ UpdateProxyAddressBook
  \/ DeployShared \/ SaveShared \/ DeployWithShared \/ DeployFirstWithShared
  \/ ClaimBundleSlot \/ SaveUpgradeBundle
  \/ ExecuteUpgrade \/ ExecuteAccept \/ ArchiveBundle
  \/ VerifyContracts

Next ==
  \/ ScriptStep
  \/ \E operator \in Team :
       \/ \E name \in Scripts : StartScript(operator, name)
       \/ ProposeToSafe(operator)
       \/ LoseCheckout(operator)
       \/ \E other \in Artifacts : ChangeArtifact(operator, other)
  \/ \E target \in proposed : SafeExecutes(target)
  \/ \E build \in Artifacts : ExternalUpgrade(build)
  \/ Crash \/ TearSync

Spec == Init /\ [][Next]_vars

(* A script goes on once started, and an operator who works alone follows   *)
(* the documented workflow: deploying, upgrading and executing.             *)
Alone == Cardinality(Team) = 1

Fairness ==
  /\ WF_vars(ScriptStep)
  /\ \A name \in Scripts \ {"sync", "verify"} :
       SF_vars(Alone /\ \E operator \in Team : StartScript(operator, name))

LiveSpec == Spec /\ Fairness

(***************************************************************************)
(* Properties.                                                              *)
(***************************************************************************)
TypeOK ==
  /\ code \in Seq(Artifacts) /\ Len(code) <= MaxCode
  /\ proxies \in Seq([implementation: 1..MaxCode, next: 0..MaxCode])
  /\ proxyType \in ProxyTypes /\ governorIsSafe \in BOOLEAN
  /\ book \in AddressBookEntry /\ shared \in AddressBookEntry /\ torn \in BOOLEAN
  /\ records \in [Operators -> DeploymentRecords]
  /\ Team \in SUBSET Operators \ {{}} /\ artifact \in [Team -> Artifacts]
  /\ bundle \in [Operators -> Bundles]
  /\ proposed \subseteq Bundles
  /\ {builds, crashes, external} \subseteq Nat

(* What metadata claims about the code at an address.                       *)
Describes(metadata, address) ==
  metadata.hash # NoHash =>
    /\ address \in DOMAIN code
    /\ code[address].hash = metadata.hash
    /\ metadata.args # NoArgs => code[address].args = metadata.args
    /\ metadata.block # 0 => metadata.block = address

(* The book never credits an address with code it does not have: not after  *)
(* an upgrade behind its back, not after a script that stopped, and not     *)
(* from the record of another deployment.  Nor does it link to the page of  *)
(* another address.  What it says of the current implementation is only     *)
(* true if no sync stopped between its two writes: nothing repairs that     *)
(* entry before the proxy is upgraded again.                                *)
BookTruthful ==
  /\ ~torn => /\ Describes(book.implementationDeployment, book.implementation)
              /\ book.implementationDeployment.verified \in {0, book.implementation}
  /\ Describes(book.pendingDeployment, book.pending)
  /\ Describes(shared.deployment, shared.address)
  /\ shared.deployment.verified \in {0, shared.address}

(* The entries that all scripts share stay entries the scripts can read,    *)
(* and say the truth, whatever was interleaved, stopped or done by others.  *)
BooksSound == TypeOK /\ BookTruthful

(* What deploy:status shows.                                                *)
CodeChanged(operator) == GetDeploymentMetadata(ArtifactEntry).hash # ArtifactHash(operator)

ProxyStatusLine(operator) ==
  IF CodeChanged(operator) THEN "code changed" ELSE IF HasPending(book) THEN "pending" ELSE "ok"

(* It goes on without a provider, with just what the book has.              *)
ProviderAvailable == BOOLEAN

(* Mutant: the implementation in the book is not compared with the chain's. *)
StatusLine_TrustsBook(operator, provider) ==
  IF ~EntryExists(book) THEN "not deployed"
  ELSE IF ~provider THEN "no on-chain check"
  ELSE ProxyStatusLine(operator)

StatusLine(operator, provider) ==
  IF ~EntryExists(book) THEN "not deployed"
  ELSE IF ~provider THEN "no on-chain check"
  ELSE IF book.implementation # OnChainImplementation THEN "address book stale"
  ELSE ProxyStatusLine(operator)

(* When the status of the upgrade of all contracts proposes a deployment.   *)
ProposesDeploy(operator) == EntryExists(book) /\ CodeChanged(operator) /\ ~HasPending(book)

(* What the status of the component tells the operator to do next.          *)
LifecycleHint(operator) ==
  IF ~EntryExists(book) THEN "deploy"
  ELSE IF HasPending(book) THEN "upgrade"
  ELSE IF CodeChanged(operator) THEN "deploy"
  ELSE "up to date"

(* Validation of the entry against the artifact, and the chain.             *)
MetadataComplete(metadata) == metadata.known /\ metadata.hash # NoHash

ValidateContract(operator) ==
  LET metadata == GetDeploymentMetadata(book)
  IN  IF ~EntryExists(book) THEN "valid"
      ELSE IF ~MetadataComplete(metadata) \/ metadata.hash # ArtifactHash(operator) THEN "warning"
      ELSE IF metadata.args # code[book.implementation].args THEN "error"
      ELSE "valid"

(* deploy:status shows a contract as up to date only if the chain runs the  *)
(* code of the operator's checkout, or, with a shared implementation, only  *)
(* if that one is: nothing shows that the proxy has to follow it.  The hint *)
(* and the proposal agree, and validation finds no error but in the         *)
(* arguments nobody has recorded.  All of them read the hash in the book:   *)
(* an entry that is torn can pass for up to date, only not for pending.     *)
StatusTruthful ==
  \A operator \in Team :
    /\ \A provider \in ProviderAvailable :
         /\ StatusLine(operator, provider) = "ok" => LifecycleHint(operator) = "up to date"
         /\ StatusLine(operator, provider) = "ok" /\ proxyType = "shared" =>
              code[shared.address].hash = ArtifactHash(operator)
         /\ StatusLine(operator, provider) = "ok" /\ proxyType # "shared" /\ ~torn =>
              code[OnChainImplementation].hash = ArtifactHash(operator)
    /\ LifecycleHint(operator) = "up to date" /\ proxyType # "shared" /\ ~torn =>
         code[book.implementation].hash = ArtifactHash(operator)
    /\ ProposesDeploy(operator) => LifecycleHint(operator) = "deploy"
    /\ ValidateContract(operator) = "error" /\ ~torn => GetDeploymentMetadata(book).args = NoArgs

(* An implementation that waits for governance stays recorded until it runs *)
(* or a later deployment takes its place; then its metadata moves with it.  *)
PendingNeverLost ==
  [][HasPending(book) /\ book'.pending # book.pending =>
       \/ book'.pending > book.pending
       \/ /\ book'.pending = 0
          /\ book'.implementation = book.pending
          /\ book'.implementationDeployment = book.pendingDeployment
          /\ proxies'[book'.address].implementation = book.pending]_vars

(* The script at the end of a component asks for nothing but this.          *)
Ready(operator) == bundle[operator] = NoBundle

(* As long as nothing went wrong, and nobody else deploys, repeating the    *)
(* workflow leads to a proxy that runs the checked out code, with nothing   *)
(* left to execute, if the governor is an account.                          *)
EventuallyUpgraded ==
  []<>(\/ governorIsSafe \/ crashes > 0 \/ external > 0 \/ ~Alone
       \/ \E operator \in Team : RunsArtifact(operator) /\ Ready(operator))

=============================================================================
